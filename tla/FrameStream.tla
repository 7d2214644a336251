---------------------------- MODULE FrameStream ----------------------------
(***************************************************************************)
(* The frames |total:4|payload:total| that SocksTunnelLocal and            *)
(* SocksTunnelServer exchange over one TCP connection, in one direction.   *)
(* A stream is the sequence of the frames its sender encoded.  Frame k     *)
(* ends at wire offset w and, once decoded, application bytes up to offset *)
(* a have been handed over.  Payload bytes are abstracted: "garbled" is a  *)
(* payload that decode() or check() refuses (other password or cipher),    *)
(* "badlen" a length field the receiver refuses.                           *)
(***************************************************************************)
EXTENDS Integers, Sequences

CONSTANTS
    HdrLen,      \* bytes of the length field (4)
    FieldLen,    \* bytes of the other fields of a DataMsg (rnd, type, crc, len)
    MaxChunk,    \* most application bytes one DataMsg carries (799)
    MaxFrames    \* most frames one buffer is cut into

ASSUME FrameAssumption ==
    /\ HdrLen \in Nat \ {0}
    /\ FieldLen \in Nat
    /\ MaxChunk \in Nat \ {0}
    /\ MaxFrames \in Nat \ {0}

Kinds == {"auth", "data", "garbled", "badlen"}

Frame == [w: Nat, a: Nat, kind: Kinds]

WEnd(s, k) == IF k = 0 THEN 0 ELSE s[k].w
AEnd(s, k) == IF k = 0 THEN 0 ELSE s[k].a

WireEnd(s) == WEnd(s, Len(s))
AppEnd(s) == AEnd(s, Len(s))

(***************************************************************************)
(* The ways the encode loop may cut n bytes: cut[i] is the end of the i-th *)
(* piece.  Pieces are never empty; how long the encoder makes them is the  *)
(* subject of FrameChunking.                                               *)
(***************************************************************************)
Cuts(n) ==
    {c \in UNION {[1..m -> 1..n] : m \in 1..MaxFrames} :
        /\ c[Len(c)] = n
        /\ \A i \in 1..Len(c) :
              LET from == IF i = 1 THEN 0 ELSE c[i-1]
              IN  from < c[i] /\ c[i] - from <= MaxChunk}

\* The stream after a buffer cut by c has been encoded.
Encode(s, c) ==
    s \o [i \in 1..Len(c) |-> [w    |-> WireEnd(s) + (HdrLen + FieldLen) * i + c[i],
                               a    |-> AppEnd(s) + c[i],
                               kind |-> "data"]]

\* The wire bytes Encode adds.
EncodedLen(c) == (HdrLen + FieldLen) * Len(c) + c[Len(c)]

(***************************************************************************)
(* What the decode loop of a receive callback finds in the wire bytes      *)
(* from .. to-1 of its buffer, from being the end of a decoded frame.      *)
(***************************************************************************)
Complete(s, from, to) == {k \in 1..Len(s) : from < s[k].w /\ s[k].w <= to}

\* The index of the last complete frame, of the last decoded one if none.
LastComplete(s, to) ==
    CHOOSE k \in 0..Len(s) :
        /\ WEnd(s, k) <= to
        /\ \A j \in k+1..Len(s) : s[j].w > to

\* decode() or check() fails on a complete frame, or the length field of
\* the incomplete one after them is out of range; seen is how many bytes
\* beyond the last complete frame make the loop look at that field.
Refused(s, from, to, seen) ==
    \/ \E k \in Complete(s, from, to) : s[k].kind # "data"
    \/ \E k \in 1..Len(s) :
          /\ s[k].kind = "badlen"
          /\ from <= WEnd(s, k-1)
          /\ WEnd(s, k-1) + seen <= to
=============================================================================
