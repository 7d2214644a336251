--------------------------- MODULE MCLocalSession ---------------------------
(***************************************************************************)
(* LocalSession for TLC.  The configurations give the lengths small values *)
(* that keep their order: a buffer that holds one frame and part of the    *)
(* next, a length field of two bytes so that one, two and three buffered   *)
(* bytes are different cases.                                              *)
(***************************************************************************)
EXTENDS LocalSession
=============================================================================
