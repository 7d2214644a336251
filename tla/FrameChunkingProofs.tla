------------------------ MODULE FrameChunkingProofs ------------------------
(***************************************************************************)
(* The encode loop stays within the write buffer for every choice of sizes *)
(* that satisfies RoomAssumption, and not only for the sizes TLC ran it    *)
(* with.  The invariant counts frames: while the loop goes on every frame  *)
(* holds at least ChunkMin bytes, so that all but the last frame of a      *)
(* finished loop do.                                                       *)
(***************************************************************************)
EXTENDS FrameChunking, TLAPS

\* All frames but the last are full.
FewFrames == frames > 0 => ChunkMin * (frames - 1) < total

IInv == TypeOK /\ EncodedSoFar /\ FewFrames

LEMMA InitEstablishes == Init => IInv
BY ChunkAssumption DEF Init, IInv, TypeOK, EncodedSoFar, FewFrames

\* A turn encodes at least one byte and not more than are left.
LEMMA PieceFits ==
    ASSUME NEW t \in Nat, NEW s \in Nat, s < t,
           NEW avaCount \in ChunkSizes
    PROVE  LET p == IF avaCount + s > t THEN t - s ELSE avaCount
           IN  /\ p \in Nat \ {0}
               /\ s + p <= t
               /\ s + p < t => p >= ChunkMin
BY ChunkAssumption

(***************************************************************************)
(* Every turn of the loop keeps the count of frames and bytes.             *)
(***************************************************************************)
LEMMA StepPreserves == IInv /\ [Next]_vars => IInv'
<1> SUFFICES ASSUME IInv, [Next]_vars PROVE IInv'
  OBVIOUS
<1> USE DEF IInv
<1>1. CASE Next
  <2>1. PICK avaCount \in ChunkSizes, rnd \in RndSizes : EncodePiece(avaCount, rnd)
    BY <1>1 DEF Next
  <2> DEFINE p == PieceLen(avaCount)
  <2>2. sz < total /\ total \in Nat /\ sz \in Nat /\ frames \in Nat /\ out \in Nat
    BY <2>1, ChunkAssumption DEF EncodePiece, AnotherTurn, TypeOK
  <2>3. /\ p \in Nat \ {0} /\ sz + p <= total
        /\ sz + p < total => p >= ChunkMin
    BY <2>2, PieceFits DEF PieceLen, Last
  <2>4. /\ sz' = sz + p /\ frames' = frames + 1
        /\ out' = out + FixedLen + rnd + p /\ total' = total
    BY <2>1 DEF EncodePiece
  <2>5. rnd \in Nat /\ rnd <= RndMax /\ FixedLen \in Nat /\ RndMax \in Nat /\ ChunkMin \in Nat
    BY ChunkAssumption
  <2> HIDE DEF p
  <2>6. TypeOK'
    BY <2>2, <2>3, <2>4, <2>5 DEF TypeOK
  <2>7. /\ sz + frames * FixedLen <= out
        /\ out <= sz + frames * (FixedLen + RndMax)
        /\ ChunkMin * frames <= sz
    BY <2>2 DEF EncodedSoFar
  <2>8. EncodedSoFar'
    <3>1. sz' <= total'
      BY <2>3, <2>4
    <3>2. sz' + frames' * FixedLen <= out'
      BY <2>2, <2>3, <2>4, <2>5, <2>7
    <3>3. out' <= sz' + frames' * (FixedLen + RndMax)
      BY <2>2, <2>3, <2>4, <2>5, <2>7
    <3>4. sz' < total' => ChunkMin * frames' <= sz'
      BY <2>2, <2>3, <2>4, <2>5, <2>7
    <3> QED
      BY <3>1, <3>2, <3>3, <3>4 DEF EncodedSoFar
  <2>9. FewFrames'
    BY <2>2, <2>4, <2>5, <2>7 DEF FewFrames
  <2> QED
    BY <2>6, <2>8, <2>9
<1>2. CASE UNCHANGED vars
  BY <1>2 DEF vars, TypeOK, EncodedSoFar, FewFrames
<1> QED
  BY <1>1, <1>2

\* What the invariant is for: the room RoomAssumption grants is enough.
LEMMA InvariantMeansRoom == IInv => NoOverflow
<1> SUFFICES ASSUME IInv PROVE out <= RealBuf
  BY DEF NoOverflow
<1>1. /\ total \in 1..MaxRead /\ sz \in Nat /\ frames \in Nat /\ out \in Nat
      /\ sz <= total /\ out <= sz + frames * (FixedLen + RndMax)
  BY DEF IInv, TypeOK, EncodedSoFar
<1>2. /\ MaxRead \in Nat /\ RealBuf \in Nat /\ FixedLen \in Nat /\ RndMax \in Nat
      /\ ChunkMin \in Nat \ {0}
  BY ChunkAssumption
<1>3. \A n \in 0..MaxRead : ChunkMin * n < MaxRead =>
          MaxRead + (n + 1) * (FixedLen + RndMax) <= RealBuf
  BY RoomAssumption
<1>4. CASE frames = 0
  <2>1. out <= MaxRead
    BY <1>1, <1>2, <1>4
  <2>2. ChunkMin * 0 < MaxRead
    BY <1>1, <1>2
  <2>3. MaxRead + (0 + 1) * (FixedLen + RndMax) <= RealBuf
    BY <1>2, <1>3, <2>2
  <2> QED
    BY <1>1, <1>2, <2>1, <2>3
<1>5. CASE frames > 0
  <2> DEFINE n == frames - 1
  <2>1. n \in Nat /\ ChunkMin * n < MaxRead
    BY <1>1, <1>2, <1>5 DEF IInv, FewFrames
  <2> HIDE DEF n
  <2>2. n <= ChunkMin * n
    BY <1>2, <2>1
  <2>3. n \in 0..MaxRead
    <3>1. ChunkMin * n \in Nat
      BY <1>2, <2>1
    <3> QED
      BY <1>2, <2>1, <2>2, <3>1
  <2>4. MaxRead + (n + 1) * (FixedLen + RndMax) <= RealBuf
    BY <1>3, <2>1, <2>3, Zenon
  <2>5. out <= MaxRead + frames * (FixedLen + RndMax)
    BY <1>1, <1>2
  <2>6. n + 1 = frames
    BY <1>1, <1>5 DEF n
  <2>7. MaxRead + frames * (FixedLen + RndMax) <= RealBuf
    BY <2>4, <2>6
  <2>8. frames * (FixedLen + RndMax) \in Nat
    BY <1>1, <1>2
  <2> QED
    BY <1>1, <1>2, <2>5, <2>7, <2>8
<1> QED
  BY <1>1, <1>4, <1>5

(***************************************************************************)
(* appendBuffer never writes past the end of the write buffer while a read *)
(* is encoded, whatever the random numbers: NoOverflow of FrameChunking.   *)
(***************************************************************************)
THEOREM LoopNeverOverflows == Spec => []NoOverflow
BY InitEstablishes, StepPreserves, InvariantMeansRoom, PTL DEF Spec

(***************************************************************************)
(* The loop encodes the bytes it was given once, in frames of at least     *)
(* ChunkMin bytes while it goes on and never in an empty one: EncodedOnce  *)
(* of FrameChunking.                                                       *)
(***************************************************************************)
THEOREM LoopEncodesOnce == Spec => EncodedOnce
<1>1. IInv /\ [Next]_vars => [sz' > sz /\ EncodedSoFar']_vars
  <2> SUFFICES ASSUME IInv, Next PROVE sz' > sz /\ EncodedSoFar'
    OBVIOUS
  <2>1. PICK avaCount \in ChunkSizes, rnd \in RndSizes : EncodePiece(avaCount, rnd)
    BY DEF Next
  <2>2. sz < total /\ total \in Nat /\ sz \in Nat
    BY <2>1, ChunkAssumption DEF EncodePiece, AnotherTurn, IInv, TypeOK
  <2>3. PieceLen(avaCount) \in Nat \ {0}
    BY <2>2, PieceFits DEF PieceLen, Last
  <2>4. sz' > sz
    BY <2>1, <2>2, <2>3 DEF EncodePiece
  <2>5. EncodedSoFar'
    BY StepPreserves DEF IInv
  <2> QED
    BY <2>4, <2>5
<1> QED
  BY <1>1, InitEstablishes, StepPreserves, PTL DEF Spec, EncodedOnce
=============================================================================
