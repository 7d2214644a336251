-------------------------- MODULE MCServerSession --------------------------
(***************************************************************************)
(* ServerSession for TLC, with the lengths of MCLocalSession.              *)
(***************************************************************************)
EXTENDS ServerSession
=============================================================================
