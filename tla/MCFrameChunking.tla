--------------------------- MODULE MCFrameChunking ---------------------------
(***************************************************************************)
(* FrameChunking with the sizes of the code and the extremes of its random *)
(* numbers, for reads that fill the buffer or end at a chunk boundary.     *)
(***************************************************************************)
EXTENDS FrameChunking

ExtremeChunks == {300, 301, 799}
ExtremeRnds == {5, 9}
Reads == {1, 299, 300, 301, 799, 800, 3900, 4095, 4096}
=============================================================================
