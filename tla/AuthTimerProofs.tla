--------------------------- MODULE AuthTimerProofs ---------------------------
(***************************************************************************)
(* The bound on how long a session waits, for every auth_timeout and every *)
(* range of hang-up times.  The invariant says what each phase's deadline  *)
(* was computed from.                                                      *)
(***************************************************************************)
EXTENDS AuthTimer, TLAPS

\* The deadline of each phase, and how often the timer was started.
PhaseDeadline ==
    /\ Timed => age <= deadline
    /\ phase = "auth" => armed = 1 /\ deadline = AuthTimeoutSec
    /\ phase = "hangup" => armed = 2 /\ deadline <= AuthTimeoutSec + HangMax
    /\ phase = "connecting" => armed = 1 /\ deadline <= AuthTimeoutSec + ConnectSec

IInv == TypeOK /\ PhaseDeadline

LEMMA InitEstablishes == Init => IInv
BY TimerAssumption DEF Init, IInv, TypeOK, Phases, PhaseDeadline, Timed

(***************************************************************************)
(* Every step of the timers keeps the deadline of its phase.               *)
(***************************************************************************)
LEMMA StepPreserves == IInv /\ [Next]_vars => IInv'
<1> SUFFICES ASSUME IInv, [Next]_vars PROVE IInv'
  OBVIOUS
<1> USE TimerAssumption DEF IInv, TypeOK, Phases, PhaseDeadline, Timed
<1>1. CASE Tick
  BY <1>1 DEF Tick
<1>2. CASE HangUpInvalidClient
  <2>1. PICK sec \in HangMin..HangMax : deadline' = age + sec
    BY <1>2 DEF HangUpInvalidClient
  <2> QED
    BY <1>2, <2>1 DEF HangUpInvalidClient
<1>3. CASE Authenticate
  BY <1>3 DEF Authenticate
<1>4. CASE Connected
  BY <1>4 DEF Connected
<1>5. CASE Leave
  BY <1>5 DEF Leave
<1>6. CASE Expire
  BY <1>6 DEF Expire
<1>7. CASE UNCHANGED vars
  BY <1>7 DEF vars
<1> QED
  BY <1>1, <1>2, <1>3, <1>4, <1>5, <1>6, <1>7 DEF Next

(***************************************************************************)
(* A client that is not relayed for is rid of within auth_timeout plus the *)
(* longer of the two other timers, and its timer is started anew at most   *)
(* once: WaitIsBounded of AuthTimer.                                       *)
(***************************************************************************)
THEOREM WaitBounded == Spec => []WaitIsBounded
<1>1. IInv => WaitIsBounded
  BY TimerAssumption
     DEF IInv, TypeOK, Phases, PhaseDeadline, Timed, WaitIsBounded, Longest
<1> QED
  BY <1>1, InitEstablishes, StepPreserves, PTL DEF Spec

(***************************************************************************)
(* The part of the README's promise that does hold: a client that has sent *)
(* no message the server refuses is disconnected within auth_timeout.      *)
(***************************************************************************)
THEOREM SilentClientsAreKicked == Spec => [](phase = "auth" => age <= AuthTimeoutSec)
<1>1. IInv => (phase = "auth" => age <= AuthTimeoutSec)
  BY DEF IInv, PhaseDeadline, Timed
<1> QED
  BY <1>1, InitEstablishes, StepPreserves, PTL DEF Spec
=============================================================================
