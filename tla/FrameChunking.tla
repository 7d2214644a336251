---------------------------- MODULE FrameChunking ----------------------------
(***************************************************************************)
(* The do-while loop with which SocksTunnelLocal::readCallback and         *)
(* SocksTunnelServer::remoteReadCallback cut what they read into DataMsg   *)
(* frames of random length and append them to a write buffer.  appendInt   *)
(* and appendBuffer do not check bounds, so that the loop must end within  *)
(* the REAL_SERVER_BUF bytes of the buffer whatever the random numbers.    *)
(***************************************************************************)
EXTENDS Integers, Sequences

CONSTANTS
    MaxRead,     \* MAX_SERVER_BUF, the most bytes one read gives (4096)
    RealBuf,     \* REAL_SERVER_BUF (5120)
    ChunkSizes,  \* what randInt(300, 800) may return
    ChunkMin,    \* the least of them (300)
    RndSizes,    \* what randInt(5, 10) may return in DataMsg::encode
    RndMax,      \* the greatest of them (9)
    FixedLen,    \* length field, rndLen, type, crc, dataLen (4+1+1+4+2)
    Totals       \* how many bytes the read may give

ASSUME ChunkAssumption ==
    /\ MaxRead \in Nat /\ RealBuf \in Nat /\ FixedLen \in Nat /\ RndMax \in Nat
    /\ ChunkMin \in Nat \ {0}
    /\ ChunkSizes \subseteq Nat /\ \A s \in ChunkSizes : s >= ChunkMin
    /\ RndSizes \subseteq Nat /\ \A r \in RndSizes : r <= RndMax
    /\ Totals \subseteq 1..MaxRead

\* There is room for one frame more than fit ChunkMin bytes each in a read.
ASSUME RoomAssumption ==
    \A n \in 0..MaxRead : ChunkMin * n < MaxRead =>
        MaxRead + (n + 1) * (FixedLen + RndMax) <= RealBuf

VARIABLES
    total,    \* bytes in the read buffer
    sz,       \* bytes already encoded
    frames,   \* frames appended
    out       \* total of the write buffer

vars == <<total, sz, frames, out>>

\* The write buffer is empty when the loop starts (TurnTaking).
Init ==
    /\ total \in Totals
    /\ sz = 0 /\ frames = 0 /\ out = 0

\* Does one more piece of the size drawn reach past what was read?
Last(avaCount) == avaCount + sz > total

\* Variants of the piece: whatever was drawn, and pieces of a tenth of it.
PieceLenUnclamped(avaCount) == avaCount
PieceLenTenth(avaCount) == IF Last(avaCount) THEN total - sz ELSE avaCount \div 10

PieceLen(avaCount) == IF Last(avaCount) THEN total - sz ELSE avaCount

\* The loop condition.
AnotherTurn == sz < total

\* One turn: avaCount and the length of rndChar are drawn, one frame is
\* appended.
EncodePiece(avaCount, rnd) ==
    /\ AnotherTurn
    /\ sz' = sz + PieceLen(avaCount)
    /\ frames' = frames + 1
    /\ out' = out + FixedLen + rnd + PieceLen(avaCount)
    /\ UNCHANGED total

Next == \E avaCount \in ChunkSizes, rnd \in RndSizes : EncodePiece(avaCount, rnd)

Spec == Init /\ [][Next]_vars

-----------------------------------------------------------------------------
\* The sizes are numbers of bytes; nothing is read beyond MaxRead.
TypeOK == total \in 1..MaxRead /\ sz \in Nat /\ frames \in Nat /\ out \in Nat

(***************************************************************************)
(* appendBuffer never writes past the end of the write buffer, whatever    *)
(* was read and drawn: the 1024 bytes that REAL_SERVER_BUF adds are enough *)
(* for the frames' fields.                                                 *)
(***************************************************************************)
NoOverflow == out <= RealBuf

\* The frames account for every byte encoded so far.
EncodedSoFar ==
    /\ sz <= total
    /\ sz + frames * FixedLen <= out
    /\ out <= sz + frames * (FixedLen + RndMax)
    /\ sz < total => ChunkMin * frames <= sz

(***************************************************************************)
(* The loop encodes what was read, once: no turn runs past the end of it,  *)
(* or appends a frame that carries nothing, for which the receiver would   *)
(* close the session.                                                      *)
(***************************************************************************)
EncodedOnce == [][sz' > sz /\ EncodedSoFar']_vars
=============================================================================
