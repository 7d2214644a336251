-------------------------------- MODULE Pipe --------------------------------
(***************************************************************************)
(* What SocksTunnel promises for one direction of a session: a pipe from   *)
(* one end to the other, in which bytes are never altered, repeated or     *)
(* made up, so that two counters describe it.  While it is whole, all that *)
(* is put in comes out.  It may break, after which some of what was put in *)
(* may be lost, and it comes to its end in one of two ways: finished, when *)
(* all has come out, or cut.                                               *)
(***************************************************************************)
EXTENDS Naturals

CONSTANT Most     \* bound: bytes put in

VARIABLES
    sent,         \* bytes put in
    got,          \* bytes that came out
    state         \* of the pipe

pipeVars == <<sent, got, state>>

Flowing == {"whole", "broken"}

PipeInit == sent = 0 /\ got = 0 /\ state = "whole"

\* Whoever puts in may not know yet that the pipe is cut.
Send ==
    /\ state # "finished"
    /\ sent' \in Nat /\ sent' > sent
    /\ UNCHANGED <<got, state>>

Deliver ==
    /\ state \in Flowing
    /\ got' \in Nat /\ got' > got /\ got' <= sent
    /\ UNCHANGED <<sent, state>>

Break ==
    /\ state = "whole" /\ state' = "broken"
    /\ UNCHANGED <<sent, got>>

Finish ==
    /\ state = "whole" /\ got = sent /\ state' = "finished"
    /\ UNCHANGED <<sent, got>>

Cut ==
    /\ state \in Flowing /\ state' = "cut"
    /\ UNCHANGED <<sent, got>>

PipeSpec == PipeInit /\ [][Send \/ Deliver \/ Break \/ Finish \/ Cut]_pipeVars

\* All that is put in comes out while the pipe stays whole.
Delivers ==
    \A b \in 1..Most : (state = "whole" /\ sent >= b) ~> (state # "whole" \/ got >= b)
=============================================================================
