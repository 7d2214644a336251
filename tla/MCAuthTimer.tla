----------------------------- MODULE MCAuthTimer -----------------------------
(***************************************************************************)
(* AuthTimer for TLC, with the seconds of the code and the auth_timeout of *)
(* the README's example.                                                   *)
(***************************************************************************)
EXTENDS AuthTimer
=============================================================================
