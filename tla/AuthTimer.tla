------------------------------ MODULE AuthTimer ------------------------------
(***************************************************************************)
(* The clock of an accepted SocksTunnelServer session until it relays: the *)
(* auth timer acceptCallback starts, the anew start hangUpInvalidClient    *)
(* gives it, and the connect timer readCallback starts once the AuthMsg    *)
(* has been accepted.  ServerSession has the same timers without a clock.  *)
(* Seconds; the event loop is assumed to run a timer in the second it      *)
(* expires.                                                                *)
(***************************************************************************)
EXTENDS Integers

CONSTANTS
    AuthTimeoutSec,      \* auth_timeout of setting.json
    HangMin, HangMax,    \* hangUpInvalidClient waits HangMin .. HangMax (20 .. 59)
    ConnectSec           \* the connect timer (60)

ASSUME TimerAssumption ==
    /\ AuthTimeoutSec \in Nat
    /\ HangMin \in Nat /\ HangMax \in Nat /\ HangMin <= HangMax
    /\ ConnectSec \in Nat

VARIABLES
    phase,     \* what the session waits for
    age,       \* seconds since it was accepted
    armed,     \* how often a timer has been started for the client's sake
    deadline   \* the age at which the started timer expires

vars == <<phase, age, armed, deadline>>

Phases == {"auth", "hangup", "connecting", "relaying", "closed"}

Timed == phase \in {"auth", "hangup", "connecting"}

\* acceptCallback.
Init ==
    /\ phase = "auth" /\ age = 0 /\ armed = 1
    /\ deadline = AuthTimeoutSec

\* Time passes while no timer is due.
Tick ==
    /\ Timed /\ age < deadline
    /\ age' = age + 1
    /\ UNCHANGED <<phase, armed, deadline>>

\* A variant of hanging up: the client is still read.
HangUpAgain ==
    /\ phase \in {"auth", "hangup"}
    /\ phase' = "hangup" /\ armed' = (armed + 1) % 4
    /\ \E sec \in HangMin..HangMax : deadline' = age + sec
    /\ UNCHANGED age

\* The first message is complete and is no AuthMsg, or has a bad length.
HangUpInvalidClient ==
    /\ phase = "auth"
    /\ phase' = "hangup" /\ armed' = armed + 1
    /\ \E sec \in HangMin..HangMax : deadline' = age + sec
    /\ UNCHANGED age

\* The AuthMsg is accepted: the auth timer gives way to the connect timer.
Authenticate ==
    /\ phase = "auth"
    /\ phase' = "connecting"
    /\ deadline' = age + ConnectSec
    /\ UNCHANGED <<age, armed>>

\* remoteWriteCallback finds the target connected.
Connected ==
    /\ phase = "connecting"
    /\ phase' = "relaying"
    /\ UNCHANGED <<age, armed, deadline>>

\* The client or the target gives up.  A client hung up on is not read, and
\* its leaving goes unnoticed.
Leave ==
    /\ phase \in {"auth", "connecting", "relaying"}
    /\ phase' = "closed"
    /\ UNCHANGED <<age, armed, deadline>>

\* A variant: the timer of a client hung up on was never started.
ExpireUnlessHungUp ==
    /\ Timed /\ phase # "hangup" /\ age = deadline
    /\ phase' = "closed"
    /\ UNCHANGED <<age, armed, deadline>>

\* localTimeoutCallback and remoteTimeoutCallback.
Expire ==
    /\ Timed /\ age = deadline
    /\ phase' = "closed"
    /\ UNCHANGED <<age, armed, deadline>>

Next ==
    \/ Tick
    \/ HangUpInvalidClient
    \/ Authenticate
    \/ Connected
    \/ Leave
    \/ Expire

Spec == Init /\ [][Next]_vars

\* Time passes and expired timers run.
FairSpec == Spec /\ WF_vars(Tick) /\ WF_vars(Expire)

-----------------------------------------------------------------------------
Longest(a, b) == IF a >= b THEN a ELSE b

TypeOK ==
    /\ phase \in Phases
    /\ age \in Nat /\ armed \in Nat /\ deadline \in Nat

(***************************************************************************)
(* However it behaves, a client that is not relayed for is rid of, or at   *)
(* the latest due to be, within auth_timeout plus the longer of the hang-  *)
(* up and the connect timer: the timer can be started anew only once.      *)
(***************************************************************************)
WaitIsBounded ==
    Timed => /\ age <= deadline
             /\ deadline <= AuthTimeoutSec + Longest(HangMax, ConnectSec)
             /\ armed <= 2

\* A session is kicked, or relays: it never waits forever.
WaitEnds == Timed ~> ~Timed

\* README.md:168: a client that has not authenticated in auth_timeout is
\* disconnected.
AuthDeadline == phase \in {"auth", "hangup"} => age <= AuthTimeoutSec
=============================================================================
