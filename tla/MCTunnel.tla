------------------------------ MODULE MCTunnel ------------------------------
(***************************************************************************)
(* Tunnel for TLC: every length is the least that keeps a frame divisible. *)
(***************************************************************************)
EXTENDS Tunnel
=============================================================================
