---------------------------- MODULE StreamProofs ----------------------------
(***************************************************************************)
(* What the operators of IOBuffer and FrameStream return, for the proofs   *)
(* about the sessions.                                                     *)
(***************************************************************************)
EXTENDS IOBuffer, FrameStream, SequenceTheorems, WellFoundedInduction, TLAPS

\* The frames of a stream lie one behind the other.
Ordered(s) ==
    /\ \A i \in 1..Len(s) : s[i].w > 0
    /\ \A i, j \in 1..Len(s) : i < j => s[i].w < s[j].w /\ s[i].a <= s[j].a

(***************************************************************************)
(* A cut of n bytes is a non-empty sequence of ends, the last of them n.   *)
(***************************************************************************)
LEMMA CutProperties ==
    ASSUME NEW n \in Nat, NEW c \in Cuts(n)
    PROVE  /\ Len(c) \in 1..MaxFrames /\ c \in [1..Len(c) -> 1..n]
           /\ c[Len(c)] = n
<1>1. PICK m \in 1..MaxFrames : c \in [1..m -> 1..n]
  BY DEF Cuts
<1>2. MaxFrames \in Nat
  BY FrameAssumption
<1>3. c \in Seq(1..n)
  BY <1>1, <1>2, SeqDef
<1>4. DOMAIN c = 1..Len(c) /\ Len(c) \in Nat
  BY <1>3, LenProperties
<1>5. Len(c) = m
  BY <1>1, <1>2, <1>4
<1>6. c[Len(c)] = n
  BY DEF Cuts
<1> QED
  BY <1>1, <1>5, <1>6

(***************************************************************************)
(* The offsets of a stream are natural numbers.                            *)
(***************************************************************************)
LEMMA EndsAreNaturals ==
    ASSUME NEW s \in Seq(Frame)
    PROVE  /\ Len(s) \in Nat
           /\ \A k \in 0..Len(s) : WEnd(s, k) \in Nat /\ AEnd(s, k) \in Nat
           /\ WireEnd(s) \in Nat /\ AppEnd(s) \in Nat
<1>1. Len(s) \in Nat
  BY LenProperties
<1>2. ASSUME NEW k \in 0..Len(s)
      PROVE  WEnd(s, k) \in Nat /\ AEnd(s, k) \in Nat
  <2>1. CASE k = 0
    BY <2>1 DEF WEnd, AEnd
  <2>2. CASE k # 0
    <3>1. s[k] \in Frame
      BY <1>1, <2>2, ElementOfSeq
    <3> QED
      BY <2>2, <3>1 DEF WEnd, AEnd, Frame
  <2> QED
    BY <2>1, <2>2
<1> QED
  BY <1>1, <1>2 DEF WireEnd, AppEnd

\* In a stream in order, later frames end later.
LEMMA EndsGrow ==
    ASSUME NEW s \in Seq(Frame), Ordered(s),
           NEW i \in 0..Len(s), NEW j \in 0..Len(s), i < j
    PROVE  WEnd(s, i) < WEnd(s, j) /\ AEnd(s, i) <= AEnd(s, j)
<1>1. /\ Len(s) \in Nat
      /\ \A k \in 0..Len(s) : WEnd(s, k) \in Nat /\ AEnd(s, k) \in Nat
  BY EndsAreNaturals
<1>2. j \in 1..Len(s) /\ WEnd(s, j) = s[j].w /\ AEnd(s, j) = s[j].a
  BY <1>1 DEF WEnd, AEnd
<1>3. CASE i = 0
  <2>1. s[j].w > 0
    BY <1>2, Zenon DEF Ordered
  <2> QED
    BY <1>1, <1>2, <1>3, <2>1 DEF WEnd, AEnd
<1>4. CASE i # 0
  <2>1. i \in 1..Len(s) /\ WEnd(s, i) = s[i].w /\ AEnd(s, i) = s[i].a
    BY <1>1, <1>4 DEF WEnd, AEnd
  <2>2. s[i].w < s[j].w /\ s[i].a <= s[j].a
    BY <1>2, <2>1, Zenon DEF Ordered
  <2> QED
    BY <1>2, <2>1, <2>2
<1> QED
  BY <1>3, <1>4

\* Every non-empty set of natural numbers has a least element.
LEMMA LeastNatural ==
    ASSUME NEW T \in SUBSET Nat, T # {}
    PROVE  \E x \in T : \A y \in T : x <= y
<1>1. IsWellFoundedOn(OpToRel(<, Nat), Nat)
  BY NatLessThanWellFounded
<1>2. PICK x \in T : \A y \in T : ~(<<y, x>> \in OpToRel(<, Nat))
  BY <1>1, WFMin
<1>3. \A y \in T : ~(y < x)
  <2> SUFFICES ASSUME NEW y \in T, y < x PROVE FALSE
    OBVIOUS
  <2>1. <<y, x>> \in Nat \X Nat /\ <<y, x>>[1] < <<y, x>>[2]
    OBVIOUS
  <2>2. <<y, x>> \in OpToRel(<, Nat)
    BY <2>1 DEF OpToRel
  <2> QED
    BY <1>2, <2>2
<1> QED
  BY <1>3

(***************************************************************************)
(* LastComplete finds the last frame that ends at or before the offset to. *)
(***************************************************************************)
LEMMA LastCompleteProperties ==
    ASSUME NEW s \in Seq(Frame), NEW to \in Nat
    PROVE  LET k == LastComplete(s, to)
           IN  /\ k \in 0..Len(s) /\ WEnd(s, k) <= to
               /\ \A j \in k+1..Len(s) : s[j].w > to
<1> DEFINE L == Len(s)
           K == {k \in 0..L : WEnd(s, k) <= to}
           T == {x \in 0..L : L - x \in K}
<1>1. L \in Nat /\ \A k \in 0..L : WEnd(s, k) \in Nat
  BY EndsAreNaturals
<1>2. 0 \in K
  BY <1>1 DEF WEnd
<1> HIDE DEF L
<1>3. T \in SUBSET Nat /\ T # {}
  <2>1. L \in 0..L /\ L - L = 0
    BY <1>1
  <2>2. L \in T
    BY <1>2, <2>1
  <2> QED
    BY <1>1, <2>2
<1>4. PICK x \in T : \A y \in T : x <= y
  BY <1>3, LeastNatural
<1> DEFINE k == L - x
<1>5. k \in K /\ k \in 0..L
  BY <1>1, <1>4
<1>6. \A j \in k+1..L : s[j].w > to
  <2> SUFFICES ASSUME NEW j \in k+1..L, ~(s[j].w > to) PROVE FALSE
    OBVIOUS
  <2>1. j \in 1..L
    BY <1>1, <1>5
  <2>2. WEnd(s, j) = s[j].w /\ WEnd(s, j) \in Nat
    BY <1>1, <2>1 DEF WEnd
  <2>3. j \in K
    BY <1>1, <2>1, <2>2
  <2>4. L - j \in 0..L /\ L - (L - j) = j
    BY <1>1, <2>1
  <2>5. L - j \in T
    BY <2>3, <2>4
  <2>6. x <= L - j
    BY <1>4, <2>5
  <2> QED
    BY <1>1, <1>4, <2>1, <2>6
<1>7. \E i \in 0..Len(s) : WEnd(s, i) <= to /\ \A j \in i+1..Len(s) : s[j].w > to
  BY <1>5, <1>6 DEF L
<1> QED
  BY <1>7 DEF LastComplete

(***************************************************************************)
(* Where decoding stands: the bytes before wire offset w are whole frames, *)
(* data frames but for the first m, and their data ends at offset a.       *)
(***************************************************************************)
Boundary(s, m, w, a) ==
    \E d \in m..Len(s) :
        /\ WEnd(s, d) = w /\ AEnd(s, d) = a
        /\ \A k \in m+1..d : s[k].kind = "data"

(***************************************************************************)
(* Decoding all complete frames, none of them refused, moves from one      *)
(* boundary to a later one.                                                *)
(***************************************************************************)
LEMMA DecodeProperties ==
    ASSUME NEW s \in Seq(Frame), Ordered(s),
           NEW m \in Nat, NEW from \in Nat, NEW a \in Nat, Boundary(s, m, from, a),
           NEW to \in Nat, from <= to,
           NEW seen, ~Refused(s, from, to, seen)
    PROVE  LET k == LastComplete(s, to)
           IN  /\ k \in 0..Len(s)
               /\ WEnd(s, k) \in Nat /\ AEnd(s, k) \in Nat
               /\ from <= WEnd(s, k) /\ WEnd(s, k) <= to /\ a <= AEnd(s, k)
               /\ Boundary(s, m, WEnd(s, k), AEnd(s, k))
<1> DEFINE k == LastComplete(s, to)
<1>1. /\ k \in 0..Len(s) /\ WEnd(s, k) <= to
      /\ \A j \in k+1..Len(s) : s[j].w > to
  BY LastCompleteProperties
<1> HIDE DEF k
<1>2. PICK d \in m..Len(s) : /\ WEnd(s, d) = from /\ AEnd(s, d) = a
                             /\ \A i \in m+1..d : s[i].kind = "data"
  BY DEF Boundary
<1>3. /\ Len(s) \in Nat
      /\ \A i \in 0..Len(s) : WEnd(s, i) \in Nat /\ AEnd(s, i) \in Nat
  BY EndsAreNaturals
<1>4. \A i \in 1..Len(s) : WEnd(s, i) = s[i].w /\ AEnd(s, i) = s[i].a
  BY <1>3 DEF WEnd, AEnd
<1>5. d <= k
  <2> SUFFICES ASSUME k < d PROVE FALSE
    BY <1>1, <1>2, <1>3
  <2>1. d \in k+1..Len(s) /\ d \in 1..Len(s)
    BY <1>1, <1>2, <1>3
  <2>2. s[d].w > to /\ s[d].w = from
    BY <1>1, <1>2, <1>4, <2>1
  <2> QED
    BY <2>2
<1>6. from <= WEnd(s, k) /\ a <= AEnd(s, k)
  <2>1. d \in 0..Len(s) /\ WEnd(s, k) \in Nat /\ AEnd(s, k) \in Nat
    BY <1>1, <1>2, <1>3
  <2>2. CASE d = k
    BY <1>2, <2>1, <2>2
  <2>3. CASE d # k
    <3>1. d < k
      BY <1>1, <1>2, <1>3, <1>5, <2>3
    <3>2. WEnd(s, d) < WEnd(s, k) /\ AEnd(s, d) <= AEnd(s, k)
      BY <1>1, <2>1, <3>1, EndsGrow
    <3> QED
      BY <1>2, <2>1, <3>2
  <2> QED
    BY <2>2, <2>3
<1>7. ASSUME NEW i \in m+1..k PROVE s[i].kind = "data"
  <2>1. CASE i <= d
    BY <1>2, <2>1
  <2>2. CASE i > d
    <3>1. /\ i \in 1..Len(s) /\ i \in 0..Len(s) /\ d \in 0..Len(s) /\ d < i /\ i <= k
          /\ WEnd(s, i) \in Nat /\ WEnd(s, k) \in Nat /\ WEnd(s, i) = s[i].w
      BY <1>1, <1>2, <1>3, <1>4, <2>2
    <3>2. from < s[i].w
      BY <1>2, <3>1, EndsGrow
    <3>3. i = k \/ WEnd(s, i) < WEnd(s, k)
      BY <1>1, <3>1, EndsGrow
    <3>4. s[i].w <= to
      BY <1>1, <3>1, <3>3
    <3>5. i \in Complete(s, from, to)
      BY <3>1, <3>2, <3>4 DEF Complete
    <3> QED
      BY <3>5 DEF Refused
  <2> QED
    BY <1>1, <1>2, <1>3, <2>1, <2>2
<1>8. Boundary(s, m, WEnd(s, k), AEnd(s, k))
  <2>1. k \in m..Len(s)
    BY <1>1, <1>2, <1>3, <1>5
  <2> QED
    BY <1>7, <2>1 DEF Boundary
<1> QED
  BY <1>1, <1>3, <1>6, <1>8 DEF k

(***************************************************************************)
(* A stream is continued by more frames behind those that are there.  What *)
(* has been decoded of it, and what a reader saw, stays as it is.          *)
(***************************************************************************)
Continues(t, s) ==
    /\ Len(s) <= Len(t)
    /\ \A i \in 1..Len(s) : t[i] = s[i]

LEMMA ContinuedEnds ==
    ASSUME NEW s \in Seq(Frame), NEW t \in Seq(Frame), Continues(t, s)
    PROVE  \A i \in 0..Len(s) :
              i \in 0..Len(t) /\ WEnd(t, i) = WEnd(s, i) /\ AEnd(t, i) = AEnd(s, i)
<1>1. Len(s) \in Nat /\ Len(t) \in Nat
  BY EndsAreNaturals
<1>2. Len(s) <= Len(t) /\ \A i \in 1..Len(s) : t[i] = s[i]
  BY DEF Continues
<1> SUFFICES ASSUME NEW i \in 0..Len(s)
             PROVE  i \in 0..Len(t) /\ WEnd(t, i) = WEnd(s, i) /\ AEnd(t, i) = AEnd(s, i)
  OBVIOUS
<1>3. i \in 0..Len(t) /\ (i # 0 => i \in 1..Len(s))
  BY <1>1, <1>2
<1> QED
  BY <1>2, <1>3, Zenon DEF WEnd, AEnd

LEMMA ContinuedEnd ==
    ASSUME NEW s \in Seq(Frame), NEW t \in Seq(Frame), Ordered(t), Continues(t, s)
    PROVE  /\ WireEnd(s) <= WireEnd(t) /\ AppEnd(s) <= AppEnd(t)
           /\ \A j \in 1..Len(t) : j > Len(s) => t[j].w > WireEnd(s)
<1>1. /\ Len(s) \in Nat /\ Len(t) \in Nat /\ Len(s) <= Len(t)
      /\ Len(s) \in 0..Len(t) /\ Len(s) \in 0..Len(s)
      /\ \A j \in 0..Len(t) : WEnd(t, j) \in Nat /\ AEnd(t, j) \in Nat
  BY EndsAreNaturals DEF Continues
<1>2. WEnd(t, Len(s)) = WireEnd(s) /\ AEnd(t, Len(s)) = AppEnd(s)
  BY <1>1, ContinuedEnds DEF WireEnd, AppEnd
<1>3. ASSUME NEW j \in 0..Len(t), j > Len(s)
      PROVE  WireEnd(s) < WEnd(t, j) /\ AppEnd(s) <= AEnd(t, j)
  BY <1>1, <1>2, <1>3, EndsGrow
<1>4. WireEnd(s) <= WireEnd(t) /\ AppEnd(s) <= AppEnd(t)
  <2>1. Len(t) \in 0..Len(t) /\ WireEnd(s) \in Nat /\ AppEnd(s) \in Nat
    BY <1>1, EndsAreNaturals
  <2>2. CASE Len(t) = Len(s)
    BY <1>2, <2>1, <2>2 DEF WireEnd, AppEnd
  <2>3. CASE Len(t) # Len(s)
    <3>1. WireEnd(s) < WEnd(t, Len(t)) /\ AppEnd(s) <= AEnd(t, Len(t))
      BY <1>1, <1>3, <2>1, <2>3
    <3> QED
      BY <1>1, <2>1, <3>1 DEF WireEnd, AppEnd
  <2> QED
    BY <2>2, <2>3
<1>5. ASSUME NEW j \in 1..Len(t), j > Len(s)
      PROVE  t[j].w > WireEnd(s)
  <2>1. j \in 0..Len(t) /\ WEnd(t, j) = t[j].w /\ WEnd(t, j) \in Nat /\ WireEnd(s) \in Nat
    BY <1>1, EndsAreNaturals DEF WEnd
  <2>2. WireEnd(s) < WEnd(t, j)
    BY <1>3, <1>5, <2>1
  <2> QED
    BY <2>1, <2>2
<1> QED
  BY <1>4, <1>5

\* A first frame stays the first.
LEMMA ContinuedFirst ==
    ASSUME NEW s \in Seq(Frame), NEW t \in Seq(Frame), Continues(t, s), s # <<>>
    PROVE  t # <<>> /\ t[1] = s[1]
<1>1. Len(s) \in Nat \ {0} /\ Len(t) \in Nat
  BY EmptySeq, LenProperties
<1>2. Len(t) # 0 /\ 1 \in 1..Len(s)
  BY <1>1 DEF Continues
<1> QED
  BY <1>2 DEF Continues

LEMMA ContinuedBoundary ==
    ASSUME NEW s \in Seq(Frame), NEW t \in Seq(Frame), Continues(t, s), NEW m \in Nat,
           NEW w, NEW a, Boundary(s, m, w, a)
    PROVE  Boundary(t, m, w, a)
<1>1. PICK d \in m..Len(s) : /\ WEnd(s, d) = w /\ AEnd(s, d) = a
                             /\ \A k \in m+1..d : s[k].kind = "data"
  BY DEF Boundary
<1>2. /\ Len(s) \in Nat /\ Len(t) \in Nat /\ Len(s) <= Len(t)
      /\ \A i \in 1..Len(s) : t[i] = s[i]
  BY EndsAreNaturals DEF Continues
<1>3. d \in m..Len(t) /\ d \in 0..Len(s)
  BY <1>1, <1>2
<1>4. WEnd(t, d) = w /\ AEnd(t, d) = a
  BY <1>1, <1>3, ContinuedEnds
<1>5. ASSUME NEW k \in m+1..d PROVE t[k].kind = "data"
  <2>1. k \in 1..Len(s)
    BY <1>1, <1>2
  <2> QED
    BY <1>1, <1>2, <2>1
<1> QED
  BY <1>3, <1>4, <1>5 DEF Boundary

\* A reader that has not got beyond the old end sees no new complete frame.
LEMMA ContinuedComplete ==
    ASSUME NEW s \in Seq(Frame), NEW t \in Seq(Frame), Ordered(t), Continues(t, s),
           NEW from \in Nat, NEW to \in Nat, to <= WireEnd(s), Complete(s, from, to) = {}
    PROVE  Complete(t, from, to) = {}
<1> SUFFICES ASSUME NEW i \in 1..Len(t), from < t[i].w, t[i].w <= to PROVE FALSE
  BY DEF Complete
<1>1. /\ Len(s) \in Nat /\ Len(t) \in Nat /\ WireEnd(s) \in Nat
      /\ WEnd(t, i) = t[i].w /\ WEnd(t, i) \in Nat
  BY EndsAreNaturals DEF WEnd
<1>2. ~(i > Len(s))
  <2> SUFFICES ASSUME i > Len(s) PROVE FALSE
    OBVIOUS
  <2>1. t[i].w > WireEnd(s)
    BY ContinuedEnd
  <2> QED
    BY <1>1, <2>1
<1>3. i \in 1..Len(s)
  BY <1>1, <1>2
<1>4. t[i] = s[i]
  BY <1>3 DEF Continues
<1> QED
  BY <1>3, <1>4 DEF Complete

LEMMA ContinuedLast ==
    ASSUME NEW s \in Seq(Frame), NEW t \in Seq(Frame), Ordered(t), Continues(t, s),
           NEW to \in Nat, to <= WireEnd(s)
    PROVE  /\ WEnd(t, LastComplete(t, to)) = WEnd(s, LastComplete(s, to))
           /\ AEnd(t, LastComplete(t, to)) = AEnd(s, LastComplete(s, to))
<1> DEFINE k == LastComplete(s, to)
           l == LastComplete(t, to)
<1>1. k \in 0..Len(s) /\ WEnd(s, k) <= to /\ \A j \in k+1..Len(s) : s[j].w > to
  BY LastCompleteProperties
<1>2. l \in 0..Len(t) /\ WEnd(t, l) <= to /\ \A j \in l+1..Len(t) : t[j].w > to
  BY LastCompleteProperties
<1> HIDE DEF k, l
<1>3. /\ Len(s) \in Nat /\ Len(t) \in Nat /\ Len(s) <= Len(t)
      /\ \A i \in 1..Len(s) : t[i] = s[i]
      /\ \A i \in 1..Len(t) : WEnd(t, i) = t[i].w /\ WEnd(t, i) \in Nat
      /\ \A i \in 1..Len(s) : WEnd(s, i) = s[i].w /\ WEnd(s, i) \in Nat
      /\ WireEnd(s) \in Nat
  BY EndsAreNaturals DEF Continues, WEnd
<1>4. ~(l > k)
  <2> SUFFICES ASSUME l > k PROVE FALSE
    OBVIOUS
  <2>1. l \in 1..Len(t) /\ t[l].w <= to /\ t[l].w \in Nat
    BY <1>1, <1>2, <1>3
  <2>2. CASE l > Len(s)
    <3>1. t[l].w > WireEnd(s)
      BY <2>1, <2>2, ContinuedEnd
    <3> QED
      BY <1>3, <2>1, <3>1
  <2>3. CASE l <= Len(s)
    <3>1. l \in k+1..Len(s) /\ l \in 1..Len(s)
      BY <1>1, <1>2, <1>3, <2>1, <2>3
    <3>2. s[l].w > to /\ t[l] = s[l]
      BY <1>1, <1>3, <3>1
    <3> QED
      BY <2>1, <3>2
  <2> QED
    BY <1>2, <1>3, <2>2, <2>3
<1>5. ~(l < k)
  <2> SUFFICES ASSUME l < k PROVE FALSE
    OBVIOUS
  <2>1. k \in l+1..Len(t) /\ k \in 1..Len(s)
    BY <1>1, <1>2, <1>3
  <2>2. t[k].w > to /\ t[k] = s[k] /\ s[k].w <= to /\ s[k].w \in Nat
    BY <1>1, <1>2, <1>3, <2>1
  <2> QED
    BY <2>2
<1>6. l = k
  BY <1>1, <1>2, <1>3, <1>4, <1>5
<1>7. WEnd(t, k) = WEnd(s, k) /\ AEnd(t, k) = AEnd(s, k)
  BY <1>1, ContinuedEnds
<1> QED
  BY <1>6, <1>7 DEF k, l

(***************************************************************************)
(* A frame appended behind the end continues a stream and keeps its order. *)
(***************************************************************************)
LEMMA AppendKeepsOrder ==
    ASSUME NEW s \in Seq(Frame), Ordered(s), NEW f \in Frame,
           f.w > WireEnd(s), f.a >= AppEnd(s)
    PROVE  /\ Append(s, f) \in Seq(Frame) /\ Ordered(Append(s, f))
           /\ Continues(Append(s, f), s)
           /\ WireEnd(Append(s, f)) = f.w
<1> DEFINE t == Append(s, f)
<1>1. /\ Len(s) \in Nat
      /\ \A i \in 0..Len(s) : WEnd(s, i) \in Nat /\ AEnd(s, i) \in Nat
      /\ WEnd(s, Len(s)) = WireEnd(s) /\ AEnd(s, Len(s)) = AppEnd(s)
  BY EndsAreNaturals DEF WireEnd, AppEnd
<1>2. /\ t \in Seq(Frame) /\ Len(t) = Len(s) + 1 /\ t[Len(s) + 1] = f
      /\ \A i \in 1..Len(s) : t[i] = s[i]
  BY AppendProperties
<1> HIDE DEF t
<1>3. f.w \in Nat /\ f.a \in Nat
  BY DEF Frame
<1>4. ASSUME NEW i \in 1..Len(s)
      PROVE  s[i].w < f.w /\ s[i].a <= f.a /\ s[i].w \in Nat /\ s[i].a \in Nat
  <2>1. /\ i \in 0..Len(s) /\ Len(s) \in 0..Len(s)
        /\ WEnd(s, i) = s[i].w /\ AEnd(s, i) = s[i].a
    BY <1>1 DEF WEnd, AEnd
  <2>2. s[i].w \in Nat /\ s[i].a \in Nat
    BY <1>1, <2>1
  <2>3. i = Len(s) \/ (WEnd(s, i) < WEnd(s, Len(s)) /\ AEnd(s, i) <= AEnd(s, Len(s)))
    BY <1>1, <2>1, EndsGrow
  <2>4. WEnd(s, i) <= WireEnd(s) /\ AEnd(s, i) <= AppEnd(s)
    BY <1>1, <2>1, <2>3
  <2> HIDE DEF t
  <2>5. WireEnd(s) \in Nat /\ AppEnd(s) \in Nat
    BY EndsAreNaturals
  <2> QED
    BY <1>3, <2>1, <2>2, <2>4, <2>5
<1>5. Ordered(t)
  <2>1. ASSUME NEW i \in 1..Len(t) PROVE t[i].w > 0
    <3>1. CASE i = Len(s) + 1
      <4>1. WireEnd(s) \in Nat
        BY EndsAreNaturals
      <4>2. t[i] = f
        BY <1>2, <3>1
      <4> QED
        BY <1>3, <4>1, <4>2
    <3>2. CASE i # Len(s) + 1
      <4>1. i \in 1..Len(s)
        BY <1>1, <1>2, <3>2
      <4>2. s[i].w > 0 /\ t[i] = s[i]
        BY <1>2, <4>1, Zenon DEF Ordered
      <4> QED
        BY <4>2
    <3> QED
      BY <3>1, <3>2
  <2>2. ASSUME NEW i \in 1..Len(t), NEW j \in 1..Len(t), i < j
        PROVE  t[i].w < t[j].w /\ t[i].a <= t[j].a
    <3>1. i \in 1..Len(s) /\ (j # Len(s) + 1 => j \in 1..Len(s))
      <4>1. Len(s) \in Nat /\ Len(t) = Len(s) + 1
        BY <1>1, <1>2
      <4>2. i \in Int /\ j \in Int /\ 1 <= i /\ 1 <= j /\ j <= Len(s) + 1
        BY <4>1
      <4> QED
        BY <2>2, <4>1, <4>2
    <3>2. CASE j = Len(s) + 1
      BY <1>2, <1>4, <3>1, <3>2
    <3>3. CASE j # Len(s) + 1
      <4>1. j \in 1..Len(s) /\ t[i] = s[i] /\ t[j] = s[j]
        BY <1>2, <3>1, <3>3
      <4>2. s[i].w < s[j].w /\ s[i].a <= s[j].a
        BY <2>2, <3>1, <4>1, Zenon DEF Ordered
      <4> QED
        BY <4>1, <4>2
    <3> QED
      BY <3>2, <3>3
  <2> QED
    BY <2>1, <2>2 DEF Ordered
<1>6. WireEnd(t) = f.w
  BY <1>1, <1>2 DEF WireEnd, WEnd
<1>7. Continues(t, s)
  BY <1>1, <1>2 DEF Continues
<1> QED
  BY <1>2, <1>5, <1>6, <1>7 DEF t

\* Once the complete frames are decoded, none is left.
LEMMA NoneLeftComplete ==
    ASSUME NEW s \in Seq(Frame), NEW to \in Nat, Ordered(s)
    PROVE  Complete(s, WEnd(s, LastComplete(s, to)), to) = {}
<1> DEFINE k == LastComplete(s, to)
<1>1. k \in 0..Len(s) /\ \A j \in k+1..Len(s) : s[j].w > to
  BY LastCompleteProperties
<1> HIDE DEF k
<1>2. /\ Len(s) \in Nat
      /\ \A i \in 0..Len(s) : WEnd(s, i) \in Nat
  BY EndsAreNaturals
<1> SUFFICES ASSUME NEW j \in 1..Len(s), WEnd(s, k) < s[j].w, s[j].w <= to PROVE FALSE
  BY DEF Complete, k
<1>3. WEnd(s, j) = s[j].w /\ s[j].w \in Nat /\ WEnd(s, k) \in Nat
  BY <1>1, <1>2 DEF WEnd
<1>4. j > k
  <2> SUFFICES ASSUME j < k PROVE FALSE
    BY <1>1, <1>2, <1>3
  <2>1. j \in 0..Len(s)
    BY <1>2
  <2>2. WEnd(s, j) < WEnd(s, k)
    BY <1>1, <2>1, EndsGrow
  <2> QED
    BY <1>3, <2>2
<1>5. s[j].w > to
  BY <1>1, <1>2, <1>4
<1> QED
  BY <1>3, <1>5

\* A boundary at the end of what was read is where the last complete frame ends.
LEMMA BoundaryIsLast ==
    ASSUME NEW s \in Seq(Frame), Ordered(s), NEW m \in Nat,
           NEW to \in Nat, NEW a, Boundary(s, m, to, a)
    PROVE  /\ WEnd(s, LastComplete(s, to)) = to
           /\ AEnd(s, LastComplete(s, to)) = a
<1> DEFINE k == LastComplete(s, to)
<1>1. k \in 0..Len(s) /\ WEnd(s, k) <= to /\ \A j \in k+1..Len(s) : s[j].w > to
  BY LastCompleteProperties
<1> HIDE DEF k
<1>2. PICK d \in m..Len(s) : WEnd(s, d) = to /\ AEnd(s, d) = a
  BY DEF Boundary
<1>3. /\ Len(s) \in Nat /\ d \in 0..Len(s) /\ WEnd(s, d) \in Nat /\ WEnd(s, k) \in Nat
  BY <1>1, <1>2, EndsAreNaturals
<1>4. ~(d < k)
  BY <1>1, <1>2, <1>3, EndsGrow
<1>5. ~(d > k)
  <2> SUFFICES ASSUME d > k PROVE FALSE
    OBVIOUS
  <2>1. d \in k+1..Len(s) /\ WEnd(s, d) = s[d].w
    BY <1>1, <1>3 DEF WEnd
  <2>2. s[d].w > to
    BY <1>1, <2>1
  <2> QED
    BY <1>2, <1>3, <2>1, <2>2
<1>6. d = k
  BY <1>1, <1>3, <1>4, <1>5
<1> QED
  BY <1>2, <1>6 DEF k

(***************************************************************************)
(* Behind the first m frames no frame is longer than the longest data      *)
(* frame, and no frames carry more than their length.  What the first m    *)
(* are is not said: the first frame of up is an AuthMsg.                   *)
(***************************************************************************)
LongestFrame == HdrLen + FieldLen + MaxChunk

Framed(s, m) ==
    /\ \A i \in m+1..Len(s) : WEnd(s, i) - WEnd(s, i-1) <= LongestFrame
    /\ \A i, j \in m..Len(s) :
          i <= j => AEnd(s, j) - AEnd(s, i) <= WEnd(s, j) - WEnd(s, i)

\* Less than the longest frame is left behind the last complete one.
LEMMA RestIsShort ==
    ASSUME NEW s \in Seq(Frame), Ordered(s), NEW m \in Nat, Framed(s, m),
           NEW from \in Nat, NEW a, Boundary(s, m, from, a),
           NEW to \in Nat, from <= to, to <= WireEnd(s),
           Complete(s, from, to) = {}
    PROVE  to - from < LongestFrame
<1>1. PICK d \in m..Len(s) : WEnd(s, d) = from
  BY DEF Boundary
<1>2. /\ Len(s) \in Nat /\ d \in 0..Len(s)
      /\ \A k \in 0..Len(s) : WEnd(s, k) \in Nat
  BY <1>1, EndsAreNaturals
<1>3. LongestFrame \in Nat \ {0}
  BY FrameAssumption DEF LongestFrame
<1>4. CASE d = Len(s)
  BY <1>1, <1>3, <1>4 DEF WireEnd
<1>5. CASE d # Len(s)
  <2>1. d+1 \in 1..Len(s) /\ d+1 \in 0..Len(s) /\ d < d+1 /\ d+1 \in m+1..Len(s)
    BY <1>1, <1>2, <1>5
  <2>2. WEnd(s, d) < WEnd(s, d+1)
    BY <1>2, <2>1, EndsGrow
  <2>3. WEnd(s, d+1) = s[d+1].w
    BY <2>1 DEF WEnd
  <2>4. ~(s[d+1].w <= to)
    BY <1>1, <2>1, <2>2, <2>3 DEF Complete
  <2>5. WEnd(s, d+1) - WEnd(s, (d+1)-1) <= LongestFrame
    BY <2>1 DEF Framed
  <2>6. (d+1)-1 = d
    BY <1>2
  <2> QED
    BY <1>1, <1>2, <1>3, <2>1, <2>3, <2>4, <2>5, <2>6
<1> QED
  BY <1>4, <1>5

\* From one boundary to the end of a later frame there are at least as many
\* wire bytes as data bytes.
LEMMA DataIsShorter ==
    ASSUME NEW s \in Seq(Frame), Ordered(s), NEW m \in Nat, Framed(s, m),
           NEW from, NEW a, Boundary(s, m, from, a),
           NEW k \in 0..Len(s), from <= WEnd(s, k)
    PROVE  AEnd(s, k) - a <= WEnd(s, k) - from
<1>1. PICK d \in m..Len(s) : WEnd(s, d) = from /\ AEnd(s, d) = a
  BY DEF Boundary
<1>2. /\ Len(s) \in Nat /\ d \in 0..Len(s)
      /\ WEnd(s, k) \in Nat /\ WEnd(s, d) \in Nat
  BY <1>1, EndsAreNaturals
<1>3. ~(k < d)
  BY <1>1, <1>2, EndsGrow
<1>4. d <= k /\ k \in m..Len(s)
  BY <1>1, <1>2, <1>3
<1> QED
  BY <1>1, <1>4 DEF Framed

LEMMA PiecesGrow ==
    \A w, a, gi, gj, pi, pj \in Nat :
        pi < pj /\ gi <= gj =>
            /\ w + gi + pi < w + gj + pj /\ a + pi <= a + pj
            /\ (a + pj) - (a + pi) <= (w + gj + pj) - (w + gi + pi)
OBVIOUS

LEMMA NextPiece ==
    \A w, gl, gap, pk, pl, most \in Nat :
        pk - pl <= most => (w + (gl + gap) + pk) - (w + gl + pl) <= gap + most
OBVIOUS

LEMMA ShorterAndShorter ==
    \A a1, a2, a3, w1, w2, w3 \in Nat :
        a2 - a1 <= w2 - w1 /\ a3 - a2 <= w3 - w2 => a3 - a1 <= w3 - w1
OBVIOUS

\* A frame of legal length and content keeps a stream framed.
LEMMA AppendKeepsFramed ==
    ASSUME NEW s \in Seq(Frame), NEW m \in Nat, Framed(s, m), NEW f \in Frame,
           f.w - WireEnd(s) <= LongestFrame, f.a - AppEnd(s) <= f.w - WireEnd(s)
    PROVE  Framed(Append(s, f), m)
<1> DEFINE t == Append(s, f)
           L == Len(s)
<1>1. /\ L \in Nat /\ WireEnd(s) = WEnd(s, L) /\ AppEnd(s) = AEnd(s, L)
      /\ \A i \in 0..L : WEnd(s, i) \in Nat /\ AEnd(s, i) \in Nat
  BY EndsAreNaturals DEF WireEnd, AppEnd
<1>2. /\ t \in Seq(Frame) /\ Len(t) = L + 1 /\ t[L + 1] = f
      /\ \A i \in 1..L : t[i] = s[i]
  BY AppendProperties
<1>3. /\ \A i \in m+1..L : WEnd(s, i) - WEnd(s, i-1) <= LongestFrame
      /\ \A i, j \in m..L :
            i <= j => AEnd(s, j) - AEnd(s, i) <= WEnd(s, j) - WEnd(s, i)
  BY Zenon DEF Framed
<1> HIDE DEF t, L
<1>4. /\ WEnd(t, L + 1) = f.w /\ AEnd(t, L + 1) = f.a
      /\ \A i \in 0..L : WEnd(t, i) = WEnd(s, i) /\ AEnd(t, i) = AEnd(s, i)
  BY <1>1, <1>2 DEF WEnd, AEnd
<1>5. f.w \in Nat /\ f.a \in Nat
  BY DEF Frame
<1>6. ASSUME NEW i \in m+1..L+1 PROVE WEnd(t, i) - WEnd(t, i-1) <= LongestFrame
  <2>1. CASE i = L + 1
    <3>1. i - 1 = L /\ L \in 0..L
      BY <1>1, <2>1
    <3> QED
      BY <1>1, <1>4, <2>1, <3>1
  <2>2. CASE i # L + 1
    <3>1. i \in m+1..L /\ i \in 0..L /\ i-1 \in 0..L
      BY <1>1, <2>2
    <3> QED
      BY <1>3, <1>4, <3>1
  <2> QED
    BY <2>1, <2>2
<1>7. ASSUME NEW i \in m..L+1, NEW j \in m..L+1, i <= j
      PROVE  AEnd(t, j) - AEnd(t, i) <= WEnd(t, j) - WEnd(t, i)
  <2>1. CASE j = L + 1 /\ i # L + 1
    <3>1. i \in m..L /\ L \in m..L /\ i <= L /\ i \in 0..L /\ L \in 0..L
      BY <1>1, <2>1
    <3>2. AEnd(s, L) - AEnd(s, i) <= WEnd(s, L) - WEnd(s, i)
      BY <1>3, <3>1
    <3>3. AEnd(t, i) = AEnd(s, i) /\ WEnd(t, i) = WEnd(s, i)
      BY <1>4, <3>1
    <3>4. AEnd(t, j) = f.a /\ WEnd(t, j) = f.w
      BY <1>4, <2>1
    <3>5. /\ WEnd(s, i) \in Nat /\ AEnd(s, i) \in Nat
          /\ WEnd(s, L) \in Nat /\ AEnd(s, L) \in Nat
      BY <1>1, <3>1
    <3>6. f.a - AEnd(s, L) <= f.w - WEnd(s, L)
      BY <1>1
    <3>7. f.a - AEnd(s, i) <= f.w - WEnd(s, i)
      BY <1>5, <3>2, <3>5, <3>6, ShorterAndShorter, Zenon
    <3> QED
      BY <3>3, <3>4, <3>7, Zenon
  <2>2. CASE i = L + 1
    <3>1. j = i
      BY <1>1, <1>7, <2>2
    <3>2. WEnd(t, i) = f.w /\ AEnd(t, i) = f.a
      BY <1>4, <2>2
    <3> QED
      BY <1>5, <3>1, <3>2
  <2>3. CASE j # L + 1 /\ i # L + 1
    <3>1. i \in m..L /\ j \in m..L /\ i \in 0..L /\ j \in 0..L
      BY <1>1, <2>3
    <3>2. AEnd(s, j) - AEnd(s, i) <= WEnd(s, j) - WEnd(s, i)
      BY <1>3, <1>7, <3>1
    <3> QED
      BY <1>4, <3>1, <3>2
  <2> QED
    BY <2>1, <2>2, <2>3
<1>8. Len(t) = L + 1
  BY <1>2
<1>9. Framed(t, m)
  BY <1>6, <1>7, <1>8, Zenon DEF Framed
<1> QED
  BY <1>9 DEF t

\* The offsets of the next data frame, when size bytes follow the offsets w, a.
LEMMA NextFrame ==
    ASSUME NEW w \in Nat, NEW a \in Nat, NEW size \in 1..MaxChunk,
           NEW kind \in Kinds, NEW f,
           f = [w |-> w + HdrLen + FieldLen + size, a |-> a + size, kind |-> kind]
    PROVE  /\ f \in Frame /\ f.kind = kind
           /\ f.w > w /\ f.a >= a /\ f.w - w <= LongestFrame /\ f.a - a <= f.w - w
<1>1. HdrLen \in Nat \ {0} /\ FieldLen \in Nat /\ size \in Nat \ {0} /\ size <= MaxChunk
      /\ MaxChunk \in Nat
  BY FrameAssumption
<1>2. f.w = w + HdrLen + FieldLen + size /\ f.a = a + size /\ f.kind = kind
  OBVIOUS
<1>3. f.w \in Nat /\ f.a \in Nat
  BY <1>1, <1>2
<1>4. f \in Frame
  BY <1>2, <1>3 DEF Frame
<1> QED
  BY <1>1, <1>2, <1>4 DEF LongestFrame

\* The stream of a single frame, of whatever length and content.
LEMMA FirstFrame ==
    ASSUME NEW f \in Frame, f.w > 0
    PROVE  /\ <<f>> \in Seq(Frame) /\ <<f>> # <<>> /\ <<f>>[1] = f
           /\ WireEnd(<<f>>) = f.w /\ AppEnd(<<f>>) = f.a
           /\ Ordered(<<f>>) /\ Framed(<<f>>, 1) /\ Continues(<<f>>, <<>>)
<1>1. <<f>> \in Seq(Frame) /\ Len(<<f>>) = 1 /\ <<f>>[1] = f /\ <<f>> # <<>> /\ Len(<<>>) = 0
  OBVIOUS
<1>2. WEnd(<<f>>, 1) = f.w /\ AEnd(<<f>>, 1) = f.a /\ f.w \in Nat /\ f.a \in Nat
  BY <1>1 DEF WEnd, AEnd, Frame
<1>3. WireEnd(<<f>>) = f.w /\ AppEnd(<<f>>) = f.a
  BY <1>1, <1>2 DEF WireEnd, AppEnd
<1>4. Ordered(<<f>>)
  BY <1>1 DEF Ordered
<1>5. Framed(<<f>>, 1)
  <2>1. \A i, j \in 1..1 : i <= j =>
            AEnd(<<f>>, j) - AEnd(<<f>>, i) <= WEnd(<<f>>, j) - WEnd(<<f>>, i)
    <3> SUFFICES ASSUME NEW i \in 1..1, NEW j \in 1..1
                 PROVE  AEnd(<<f>>, j) - AEnd(<<f>>, i) <= WEnd(<<f>>, j) - WEnd(<<f>>, i)
      OBVIOUS
    <3>1. i = 1 /\ j = 1
      OBVIOUS
    <3>2. f.a - f.a <= f.w - f.w
      BY <1>2
    <3> QED
      BY <1>2, <3>1, <3>2
  <2>2. \A i \in 2..1 : WEnd(<<f>>, i) - WEnd(<<f>>, i-1) <= LongestFrame
    OBVIOUS
  <2> QED
    BY <1>1, <2>1, <2>2 DEF Framed
<1>6. Continues(<<f>>, <<>>)
  BY <1>1 DEF Continues
<1> QED
  BY <1>1, <1>3, <1>4, <1>5, <1>6

\* The empty stream is in order, and nothing of it is complete.
LEMMA NoFrames ==
    /\ <<>> \in Seq(Frame) /\ Ordered(<<>>)
    /\ WireEnd(<<>>) = 0 /\ AppEnd(<<>>) = 0
    /\ Boundary(<<>>, 0, 0, 0)
    /\ \A m \in Nat : Framed(<<>>, m)
    /\ \A from, to : Complete(<<>>, from, to) = {}
<1>1. Ordered(<<>>) /\ <<>> \in Seq(Frame) /\ Len(<<>>) = 0
  BY DEF Ordered
<1>2. WireEnd(<<>>) = 0 /\ AppEnd(<<>>) = 0
  BY <1>1 DEF WireEnd, AppEnd, WEnd, AEnd
<1>3. Boundary(<<>>, 0, 0, 0)
  BY <1>1 DEF Boundary, WEnd, AEnd
<1>4. ASSUME NEW m \in Nat PROVE Framed(<<>>, m)
  BY <1>1 DEF Framed, WEnd, AEnd
<1>5. \A from, to : Complete(<<>>, from, to) = {}
  BY <1>1 DEF Complete
<1> QED
  BY <1>1, <1>2, <1>3, <1>4, <1>5

LEMMA ProductGrows ==
    \A g, i, j \in Nat : i <= j => g * i \in Nat /\ g * i <= g * j
<1> SUFFICES ASSUME NEW g \in Nat, NEW i \in Nat, NEW j \in Nat, i <= j
             PROVE  g * i \in Nat /\ g * i <= g * j
  OBVIOUS
<1>1. j - i \in Nat /\ g * (j - i) \in Nat /\ g * i \in Nat
  OBVIOUS
<1>2. g * j = g * i + g * (j - i)
  OBVIOUS
<1> QED
  BY <1>1, <1>2

(***************************************************************************)
(* However a buffer is cut, what Encode adds fits where the assumptions    *)
(* about the buffer sizes reserve room for it.                             *)
(***************************************************************************)
LEMMA EncodedFits ==
    ASSUME NEW n \in Nat \ {0}, NEW c \in Cuts(n)
    PROVE  EncodedLen(c) <= n + (HdrLen + FieldLen) * MaxFrames
<1>1. Len(c) \in 1..MaxFrames /\ c[Len(c)] = n
  BY CutProperties
<1>3. (HdrLen + FieldLen) * Len(c) <= (HdrLen + FieldLen) * MaxFrames
  BY <1>1, ProductGrows, FrameAssumption
<1>4. (HdrLen + FieldLen) * Len(c) \in Nat /\ (HdrLen + FieldLen) * MaxFrames \in Nat
  BY <1>1, FrameAssumption
<1> QED
  BY <1>1, <1>3, <1>4 DEF EncodedLen

\* The frames that Encode adds to a stream.
NewFrames(s, c) ==
    [i \in 1..Len(c) |-> [w    |-> WireEnd(s) + (HdrLen + FieldLen) * i + c[i],
                          a    |-> AppEnd(s) + c[i],
                          kind |-> "data"]]

LEMMA EncodedFrames ==
    ASSUME NEW s \in Seq(Frame), NEW n \in Nat \ {0}, NEW c \in Cuts(n)
    PROVE  /\ NewFrames(s, c) \in Seq(Frame) /\ Len(NewFrames(s, c)) = Len(c)
           /\ Encode(s, c) = s \o NewFrames(s, c)
<1> DEFINE g == HdrLen + FieldLen
           m == Len(c)
<1>1. /\ m \in Nat \ {0} /\ c \in [1..m -> 1..n]
  BY CutProperties, FrameAssumption
<1>2. g \in Nat \ {0} /\ WireEnd(s) \in Nat /\ AppEnd(s) \in Nat
  BY FrameAssumption, EndsAreNaturals
<1>3. \A i \in 1..m : [w |-> WireEnd(s) + g * i + c[i], a |-> AppEnd(s) + c[i],
                       kind |-> "data"] \in Frame
  <2> SUFFICES ASSUME NEW i \in 1..m
               PROVE  /\ WireEnd(s) + g * i + c[i] \in Nat
                      /\ AppEnd(s) + c[i] \in Nat
    BY DEF Frame, Kinds
  <2>1. c[i] \in Nat /\ i \in Nat
    BY <1>1
  <2>2. g * i \in Nat
    BY <1>2, <2>1
  <2> HIDE DEF g
  <2> QED
    BY <1>2, <2>1, <2>2
<1>4. NewFrames(s, c) \in [1..m -> Frame]
  BY <1>3 DEF NewFrames
<1>5. Encode(s, c) = s \o NewFrames(s, c)
  BY DEF Encode, NewFrames
<1> HIDE DEF m
<1>6. NewFrames(s, c) \in Seq(Frame)
  BY <1>1, <1>4, SeqDef
<1>7. Len(NewFrames(s, c)) = m
  <2>1. DOMAIN NewFrames(s, c) = 1..Len(NewFrames(s, c)) /\ Len(NewFrames(s, c)) \in Nat
    BY <1>6, LenProperties
  <2> QED
    BY <1>1, <1>4, <2>1
<1> QED
  BY <1>5, <1>6, <1>7 DEF m

\* Where the encoded frames end: the k-th piece, behind k headers.
LEMMA EncodedEnds ==
    ASSUME NEW s \in Seq(Frame), NEW n \in Nat \ {0}, NEW c \in Cuts(n)
    PROVE  /\ Len(Encode(s, c)) = Len(s) + Len(c)
           /\ Continues(Encode(s, c), s)
           /\ \A k \in 1..Len(c) :
                 /\ Encode(s, c)[Len(s) + k].w = WireEnd(s) + (HdrLen + FieldLen) * k + c[k]
                 /\ Encode(s, c)[Len(s) + k].a = AppEnd(s) + c[k]
<1> DEFINE new == NewFrames(s, c)
<1>1. Len(c) \in Nat \ {0} /\ c \in [1..Len(c) -> 1..n] /\ Len(s) \in Nat
  BY CutProperties, FrameAssumption, LenProperties
<1>2. \A k \in 1..Len(c) : /\ new[k].w = WireEnd(s) + (HdrLen + FieldLen) * k + c[k]
                           /\ new[k].a = AppEnd(s) + c[k]
  BY DEF NewFrames
<1>3. Encode(s, c) = s \o new
  BY EncodedFrames
<1>4. new \in Seq(Frame) /\ Len(new) = Len(c)
  BY EncodedFrames
<1> HIDE DEF new
<1>6. /\ Len(s \o new) = Len(s) + Len(new)
      /\ \A i \in 1..Len(s) + Len(new) :
            (s \o new)[i] = IF i <= Len(s) THEN s[i] ELSE new[i - Len(s)]
  BY <1>4, ConcatProperties, Zenon
<1>7. /\ Len(s \o new) = Len(s) + Len(c)
      /\ \A i \in 1..Len(s) + Len(c) :
            (s \o new)[i] = IF i <= Len(s) THEN s[i] ELSE new[i - Len(s)]
  BY <1>4, <1>6, Zenon
<1> DEFINE t == Encode(s, c)
           L == Len(s)
           M == Len(c)
<1>8. /\ L \in Nat /\ M \in Nat /\ Len(t) = L + M
      /\ \A i \in 1..L + M : t[i] = IF i <= L THEN s[i] ELSE new[i - L]
  BY <1>1, <1>3, <1>7
<1> HIDE DEF t, L, M
<1>9. L <= L + M /\ \A i \in 1..L : t[i] = s[i]
  BY <1>8
<1>10. Continues(t, s)
  BY <1>8, <1>9 DEF Continues, L
<1>11. \A k \in 1..M : t[L + k] = new[k]
  <2> SUFFICES ASSUME NEW k \in 1..M PROVE t[L + k] = new[k]
    OBVIOUS
  <2>1. L + k \in 1..L + M /\ ~(L + k <= L) /\ (L + k) - L = k
    BY <1>8
  <2> QED
    BY <1>8, <2>1
<1> QED
  BY <1>2, <1>8, <1>10, <1>11, Zenon DEF t, L, M

\* Every frame behind the first m of a stream is a DataMsg.
OnlyData(s, m) == \A k \in 1..Len(s) : k > m => s[k].kind = "data"

\* Encode adds nothing but DataMsgs.
LEMMA EncodedIsData ==
    ASSUME NEW s \in Seq(Frame), NEW n \in Nat \ {0}, NEW c \in Cuts(n),
           NEW m \in Nat, OnlyData(s, m)
    PROVE  OnlyData(Encode(s, c), m)
<1> DEFINE new == NewFrames(s, c)
           t == Encode(s, c)
           L == Len(s)
           M == Len(c)
<1>1. \A k \in 1..M : new[k].kind = "data"
  BY DEF NewFrames
<1>2. t = s \o new /\ new \in Seq(Frame) /\ Len(new) = M
  BY EncodedFrames
<1>3. M \in Nat /\ L \in Nat
  BY CutProperties, LenProperties, FrameAssumption
<1>4. \A k \in 1..L : k > m => s[k].kind = "data"
  BY DEF OnlyData
<1> HIDE DEF new
<1>5. /\ Len(t) = L + M
      /\ \A i \in 1..L + M : t[i] = IF i <= L THEN s[i] ELSE new[i - L]
  <2>1. /\ Len(s \o new) = Len(s) + Len(new)
        /\ \A i \in 1..Len(s) + Len(new) :
              (s \o new)[i] = IF i <= Len(s) THEN s[i] ELSE new[i - Len(s)]
    BY <1>2, ConcatProperties, Zenon
  <2> QED
    BY <1>2, <2>1, Zenon
<1> HIDE DEF t, L, M
<1>6. ASSUME NEW k \in 1..L + M, k > m PROVE t[k].kind = "data"
  <2>1. CASE k <= L
    BY <1>3, <1>4, <1>5, <1>6, <2>1
  <2>2. CASE ~(k <= L)
    <3>1. k - L \in 1..M /\ t[k] = new[k - L]
      BY <1>3, <1>5, <2>2
    <3> QED
      BY <1>1, <3>1
  <2> QED
    BY <2>1, <2>2
<1>7. OnlyData(t, m)
  BY <1>5, <1>6 DEF OnlyData
<1> QED
  BY <1>7 DEF t

(***************************************************************************)
(* Encoding a cut of n bytes extends the stream by n application bytes and *)
(* EncodedLen(c) wire bytes, and leaves the frames before alone.           *)
(***************************************************************************)
LEMMA EncodeProperties ==
    ASSUME NEW s \in Seq(Frame), NEW n \in Nat \ {0}, NEW c \in Cuts(n)
    PROVE  /\ Encode(s, c) \in Seq(Frame)
           /\ Encode(s, c) # <<>>
           /\ EncodedLen(c) \in Nat \ {0}
           /\ WireEnd(Encode(s, c)) = WireEnd(s) + EncodedLen(c)
           /\ AppEnd(Encode(s, c)) = AppEnd(s) + n
           /\ s # <<>> => Encode(s, c)[1] = s[1]
<1> DEFINE g == HdrLen + FieldLen
           m == Len(c)
           t == Encode(s, c)
<1>1. /\ m \in Nat \ {0} /\ c \in [1..m -> 1..n] /\ c[m] = n /\ m \in 1..m
  BY CutProperties, FrameAssumption
<1>2. g \in Nat \ {0} /\ WireEnd(s) \in Nat /\ AppEnd(s) \in Nat /\ Len(s) \in Nat
  BY FrameAssumption, EndsAreNaturals
<1>3. /\ Len(t) = Len(s) + m /\ Continues(t, s)
      /\ t[Len(s) + m].w = WireEnd(s) + g * m + n /\ t[Len(s) + m].a = AppEnd(s) + n
  BY <1>1, EncodedEnds
<1>4. EncodedLen(c) = g * m + n
  BY <1>1 DEF EncodedLen
<1>5. t \in Seq(Frame)
  BY EncodedFrames, ConcatProperties
<1> HIDE DEF m, g, t
<1>6. g * m \in Nat
  BY <1>1, <1>2
<1>7. Len(t) # 0 /\ t # <<>>
  BY <1>1, <1>2, <1>3, <1>5, EmptySeq
<1>8. WireEnd(t) = WireEnd(s) + EncodedLen(c) /\ AppEnd(t) = AppEnd(s) + n
  <2>1. WireEnd(t) = t[Len(s) + m].w /\ AppEnd(t) = t[Len(s) + m].a
    BY <1>3, <1>7 DEF WireEnd, AppEnd, WEnd, AEnd
  <2> QED
    BY <1>2, <1>3, <1>4, <1>6, <2>1
<1>9. s # <<>> => t[1] = s[1]
  BY <1>3, <1>5, ContinuedFirst
<1>10. EncodedLen(c) \in Nat \ {0}
  BY <1>4, <1>6
<1> QED
  BY <1>5, <1>7, <1>8, <1>9, <1>10, Zenon DEF t

(***************************************************************************)
(* The ends of the pieces of a cut grow, and no piece is too long.         *)
(***************************************************************************)
LEMMA CutsGrow ==
    ASSUME NEW n \in Nat \ {0}, NEW c \in Cuts(n)
    PROVE  /\ \A i, j \in 1..Len(c) : i < j => c[i] < c[j]
           /\ 1 \in 1..Len(c) /\ c[1] <= MaxChunk
           /\ \A i \in 2..Len(c) : c[i] - c[i-1] <= MaxChunk
<1> DEFINE M == Len(c)
<1>1. M \in Nat /\ 1 \in 1..M /\ c \in [1..M -> 1..n]
  BY CutProperties, FrameAssumption
<1>2. \A i \in 1..M : LET from == IF i = 1 THEN 0 ELSE c[i-1]
                      IN  from < c[i] /\ c[i] - from <= MaxChunk
  BY DEF Cuts
<1> HIDE DEF M
<1>3. \A i \in 1..M : c[i] \in Nat
  BY <1>1
<1>4. ASSUME NEW i \in 2..M PROVE i \in 1..M /\ i-1 \in 1..M /\ c[i-1] < c[i] /\ c[i] - c[i-1] <= MaxChunk
  <2>1. i \in 1..M /\ i # 1 /\ i-1 \in 1..M
    BY <1>1
  <2> QED
    BY <1>2, <2>1
<1>5. c[1] <= MaxChunk
  <2>1. c[1] - 0 <= MaxChunk
    BY <1>1, <1>2
  <2> QED
    BY <1>1, <1>3, <2>1, FrameAssumption
<1>6. ASSUME NEW i \in 1..M, NEW j \in 1..M, i < j, ~(c[i] < c[j]) PROVE FALSE
  <2> DEFINE T == {k \in i+1..M : ~(c[i] < c[k])}
  <2>1. j \in T
    BY <1>1, <1>6
  <2>2. T \in SUBSET Nat /\ T # {}
    BY <1>1, <2>1
  <2>3. PICK x \in T : \A y \in T : x <= y
    BY <2>2, LeastNatural
  <2>4. x \in i+1..M /\ ~(c[i] < c[x]) /\ x \in 2..M /\ x-1 \in 1..M /\ x \in 1..M
    BY <1>1, <2>3
  <2>5. c[x-1] < c[x]
    BY <1>4, <2>4
  <2>6. x-1 # i
    BY <2>4, <2>5
  <2>7. x-1 \in i+1..M
    BY <1>1, <2>4, <2>6
  <2>8. ~(x <= x-1)
    BY <2>4
  <2>9. x-1 \notin T
    BY <2>3, <2>8
  <2>10. c[i] < c[x-1]
    BY <2>7, <2>9
  <2>11. c[i] \in Nat /\ c[x-1] \in Nat /\ c[x] \in Nat
    BY <1>3, <2>4
  <2> QED
    BY <2>4, <2>5, <2>10, <2>11
<1> QED
  BY <1>1, <1>4, <1>5, <1>6 DEF M

(***************************************************************************)
(* Encoding continues a stream and keeps it in order and its frames legal. *)
(***************************************************************************)
LEMMA EncodeContinues ==
    ASSUME NEW s \in Seq(Frame), Ordered(s), NEW m \in Nat, Framed(s, m),
           NEW n \in Nat \ {0}, NEW c \in Cuts(n)
    PROVE  /\ Ordered(Encode(s, c)) /\ Framed(Encode(s, c), m)
           /\ Continues(Encode(s, c), s)
<1> DEFINE t == Encode(s, c)
           L == Len(s)
           M == Len(c)
           g == HdrLen + FieldLen
           piece(k) == IF k = 0 THEN 0 ELSE c[k]
<1>1. t \in Seq(Frame)
  BY EncodeProperties
<1>2. /\ Len(t) = L + M /\ Continues(t, s)
      /\ \A k \in 1..M : t[L + k].w = WireEnd(s) + g * k + c[k] /\ t[L + k].a = AppEnd(s) + c[k]
  BY EncodedEnds
<1>3. /\ L \in Nat /\ M \in Nat /\ WireEnd(s) \in Nat /\ AppEnd(s) \in Nat
      /\ \A k \in 0..L : WEnd(s, k) \in Nat /\ AEnd(s, k) \in Nat
      /\ WEnd(s, L) = WireEnd(s) /\ AEnd(s, L) = AppEnd(s)
  BY EndsAreNaturals, CutProperties, FrameAssumption DEF WireEnd, AppEnd
<1>4. \A k \in 1..M : c[k] \in Nat \ {0}
  BY CutProperties
<1>5. /\ \A i, j \in 1..M : i < j => c[i] < c[j]
      /\ M >= 1 /\ c[1] <= MaxChunk
      /\ \A i \in 2..M : c[i] - c[i-1] <= MaxChunk
  BY CutsGrow
<1>6. g \in Nat \ {0} /\ MaxChunk \in Nat /\ LongestFrame = g + MaxChunk
  BY FrameAssumption DEF LongestFrame
<1>7. \A k \in 0..L : WEnd(t, k) = WEnd(s, k) /\ AEnd(t, k) = AEnd(s, k)
  BY <1>1, <1>2, ContinuedEnds
<1>8. \A i, j \in Nat : i <= j => g * i \in Nat /\ g * i <= g * j
  BY <1>6, ProductGrows
<1>n. L \in Nat /\ M \in Nat /\ WireEnd(s) \in Nat /\ AppEnd(s) \in Nat
  BY <1>3
<1>e. \A i, j \in 0..L : i < j => WEnd(s, i) < WEnd(s, j) /\ AEnd(s, i) <= AEnd(s, j)
  BY EndsGrow
<1>t. \A k \in 0..L+M : WEnd(t, k) \in Nat /\ AEnd(t, k) \in Nat
  BY <1>1, <1>2, EndsAreNaturals
<1> HIDE DEF t, L, M, g
\* The ends behind the old ones, the last old one included.
<1>9. /\ \A k \in 0..M : /\ piece(k) \in Nat /\ g * k \in Nat
                         /\ WEnd(t, L + k) = WireEnd(s) + g * k + piece(k)
                         /\ AEnd(t, L + k) = AppEnd(s) + piece(k)
  <2> SUFFICES ASSUME NEW k \in 0..M
               PROVE  /\ piece(k) \in Nat /\ g * k \in Nat
                      /\ WEnd(t, L + k) = WireEnd(s) + g * k + piece(k)
                      /\ AEnd(t, L + k) = AppEnd(s) + piece(k)
    OBVIOUS
  <2>1. CASE k = 0
    <3>1. L + k = L /\ L \in 0..L /\ g * k = 0 /\ piece(k) = 0
      BY <1>3, <1>6, <2>1
    <3> QED
      BY <1>3, <1>7, <3>1
  <2>2. CASE k # 0
    <3>1. k \in 1..M /\ k \in Nat /\ L + k # 0 /\ piece(k) = c[k]
      BY <1>3, <2>2
    <3>2. g * k \in Nat
      BY <1>6, <3>1
    <3>3. WEnd(t, L + k) = t[L + k].w /\ AEnd(t, L + k) = t[L + k].a
      BY <3>1 DEF WEnd, AEnd
    <3> QED
      BY <1>2, <1>4, <3>1, <3>2, <3>3
  <2> QED
    BY <2>1, <2>2
<1>10. ASSUME NEW i \in 0..M, NEW j \in 0..M, i < j
       PROVE  piece(i) < piece(j) /\ g * i <= g * j
  <2>1. i \in Nat /\ j \in Nat /\ j \in 1..M /\ j # 0
    BY <1>3, <1>10
  <2>2. g * i <= g * j
    BY <1>8, <1>10, <2>1
  <2>3. CASE i = 0
    BY <1>4, <2>1, <2>2, <2>3
  <2>4. CASE i # 0
    <3>1. i \in 1..M
      BY <2>4, <1>3
    <3> QED
      BY <1>5, <1>10, <2>1, <2>2, <2>4, <3>1
  <2> QED
    BY <2>3, <2>4
<1>11. ASSUME NEW j \in 1..M PROVE j-1 \in 0..M /\ piece(j) - piece(j-1) <= MaxChunk
  <2>1. j \in Nat \ {0} /\ j-1 \in 0..M
    BY <1>3
  <2>2. CASE j = 1
    <3>1. piece(j) = c[1] /\ piece(j-1) = 0 /\ c[1] \in Nat
      BY <1>4, <2>2
    <3> QED
      BY <1>5, <2>1, <3>1
  <2>3. CASE j # 1
    <3>1. j \in 2..M /\ j # 0 /\ j-1 # 0
      BY <1>3, <2>1, <2>3
    <3> QED
      BY <1>5, <2>1, <3>1
  <2> QED
    BY <2>2, <2>3
<1> HIDE DEF piece
\* An index is an old one or lies k behind the last old one.
<1>12. \A i \in 0..L+M : i \in 0..L \/ (i - L \in 1..M /\ i = L + (i - L))
  BY <1>3
<1>13. ASSUME NEW i \in 0..M, NEW j \in 0..M, i < j
       PROVE  /\ WEnd(t, L + i) < WEnd(t, L + j) /\ AEnd(t, L + i) <= AEnd(t, L + j)
              /\ AEnd(t, L + j) - AEnd(t, L + i) <= WEnd(t, L + j) - WEnd(t, L + i)
  <2>1. /\ WEnd(t, L + i) = WireEnd(s) + g * i + piece(i)
        /\ WEnd(t, L + j) = WireEnd(s) + g * j + piece(j)
        /\ AEnd(t, L + i) = AppEnd(s) + piece(i) /\ AEnd(t, L + j) = AppEnd(s) + piece(j)
        /\ piece(i) \in Nat /\ piece(j) \in Nat /\ g * i \in Nat /\ g * j \in Nat
    BY <1>9, Zenon
  <2>2. piece(i) < piece(j) /\ g * i <= g * j
    BY <1>10, <1>13, Zenon
  <2>3. /\ WireEnd(s) + g * i + piece(i) < WireEnd(s) + g * j + piece(j)
        /\ AppEnd(s) + piece(i) <= AppEnd(s) + piece(j)
        /\ (AppEnd(s) + piece(j)) - (AppEnd(s) + piece(i))
              <= (WireEnd(s) + g * j + piece(j)) - (WireEnd(s) + g * i + piece(i))
    BY <1>n, <2>1, <2>2, PiecesGrow
  <2> QED
    BY <2>1, <2>3
<1>14. ASSUME NEW i \in 1..L+M PROVE t[i].w > 0
  <2>0. WEnd(t, i) = t[i].w /\ L + 0 = L
    BY <1>3 DEF WEnd
  <2>1. CASE i \in 0..L
    <3>1. 0 \in 0..L /\ 0 < i /\ WEnd(t, i) = WEnd(s, i)
      BY <1>3, <1>7, <2>1
    <3>2. WEnd(s, 0) < WEnd(s, i) /\ WEnd(s, 0) = 0
      BY <1>e, <2>1, <3>1 DEF WEnd
    <3> QED
      BY <1>3, <2>0, <2>1, <3>1, <3>2
  <2>2. CASE i \notin 0..L
    <3>1. i - L \in 1..M /\ i - L \in 0..M /\ 0 \in 0..M /\ 0 < i - L /\ i = L + (i - L)
      BY <1>3, <2>2
    <3>2. WEnd(t, L + 0) < WEnd(t, L + (i - L))
      BY <1>13, <3>1
    <3>3. WEnd(t, L) \in Nat /\ WEnd(t, i) \in Nat
      <4>1. L \in 0..L+M /\ i \in 0..L+M
        BY <1>n
      <4> QED
        BY <1>t, <4>1
    <3>4. WEnd(t, L) < WEnd(t, i)
      BY <2>0, <3>1, <3>2, Zenon
    <3> QED
      BY <2>0, <3>3, <3>4
  <2> QED
    BY <2>1, <2>2
<1>15. ASSUME NEW i \in 0..L+M, NEW j \in 0..L+M, i < j
       PROVE  WEnd(t, i) < WEnd(t, j) /\ AEnd(t, i) <= AEnd(t, j)
  <2>0. /\ L + 0 = L /\ L \in 0..L /\ 0 \in 0..M
        /\ L \in 0..L+M /\ i \in 0..L+M /\ j \in 0..L+M
    BY <1>n
  <2>1. CASE j \in 0..L
    <3>1. i \in 0..L
      BY <1>n, <1>15, <2>1
    <3>2. WEnd(s, i) < WEnd(s, j) /\ AEnd(s, i) <= AEnd(s, j)
      BY <1>e, <1>15, <2>1, <3>1
    <3> QED
      BY <1>7, <2>1, <3>1, <3>2
  <2>2. CASE j \notin 0..L
    <3>1. j - L \in 1..M /\ j - L \in 0..M /\ 0 < j - L /\ j = L + (j - L)
      BY <1>3, <2>2
    <3>2. CASE i \in 0..L
      <4>1. WEnd(t, L + 0) < WEnd(t, L + (j - L)) /\ AEnd(t, L + 0) <= AEnd(t, L + (j - L))
        BY <1>13, <2>0, <3>1
      <4>2. WEnd(t, L) < WEnd(t, j) /\ AEnd(t, L) <= AEnd(t, j)
        BY <2>0, <3>1, <4>1, Zenon
      <4>3. i = L \/ (WEnd(s, i) < WEnd(s, L) /\ AEnd(s, i) <= AEnd(s, L))
        <5>1. i = L \/ i < L
          BY <1>n, <3>2
        <5> QED
          BY <1>e, <2>0, <3>2, <5>1
      <4>4. WEnd(t, i) <= WEnd(t, L) /\ AEnd(t, i) <= AEnd(t, L)
        <5>1. WEnd(s, i) <= WEnd(s, L) /\ AEnd(s, i) <= AEnd(s, L)
          BY <1>3, <2>0, <3>2, <4>3
        <5> QED
          BY <1>7, <2>0, <3>2, <5>1, Zenon
      <4>6. /\ WEnd(t, i) \in Nat /\ WEnd(t, L) \in Nat /\ WEnd(t, j) \in Nat
            /\ AEnd(t, i) \in Nat /\ AEnd(t, L) \in Nat /\ AEnd(t, j) \in Nat
        BY <1>t, <2>0
      <4> QED
        BY <4>2, <4>4, <4>6
    <3>3. CASE i \notin 0..L
      <4>1. i - L \in 0..M /\ i - L < j - L /\ i = L + (i - L)
        BY <1>3, <1>15, <3>3
      <4>2. /\ WEnd(t, L + (i - L)) < WEnd(t, L + (j - L))
            /\ AEnd(t, L + (i - L)) <= AEnd(t, L + (j - L))
        BY <1>13, <3>1, <4>1
      <4> QED
        BY <3>1, <4>1, <4>2, Zenon
    <3> QED
      BY <3>2, <3>3
  <2> QED
    BY <2>1, <2>2
<1>16. Ordered(t)
  <2>1. \A i, j \in 1..L+M : i < j => t[i].w < t[j].w /\ t[i].a <= t[j].a
    <3> SUFFICES ASSUME NEW i \in 1..L+M, NEW j \in 1..L+M, i < j
                 PROVE  t[i].w < t[j].w /\ t[i].a <= t[j].a
      OBVIOUS
    <3>1. /\ i \in 0..L+M /\ j \in 0..L+M
          /\ WEnd(t, i) = t[i].w /\ AEnd(t, i) = t[i].a
          /\ WEnd(t, j) = t[j].w /\ AEnd(t, j) = t[j].a
      BY <1>3 DEF WEnd, AEnd
    <3>2. WEnd(t, i) < WEnd(t, j) /\ AEnd(t, i) <= AEnd(t, j)
      BY <1>15, <3>1
    <3> QED
      BY <3>1, <3>2
  <2> QED
    BY <1>2, <1>14, <2>1, Zenon DEF Ordered
<1>17. ASSUME NEW i \in m+1..L+M PROVE WEnd(t, i) - WEnd(t, i-1) <= LongestFrame
  <2>1. CASE i \in 0..L
    <3>1. i \in m+1..L /\ i-1 \in 0..L
      BY <1>3, <2>1
    <3>2. WEnd(s, i) - WEnd(s, i-1) <= LongestFrame
      BY <3>1, Zenon DEF Framed, L
    <3> QED
      BY <1>7, <2>1, <3>1, <3>2
  <2>2. CASE i \notin 0..L
    <3> DEFINE k == i - L
    <3>1. /\ k \in 1..M /\ k \in 0..M /\ k - 1 \in 0..M
          /\ i = L + k /\ i - 1 = L + (k - 1)
      BY <1>3, <2>2
    <3> HIDE DEF k
    <3>2. /\ WEnd(t, i) = WireEnd(s) + g * k + piece(k) /\ piece(k) \in Nat
          /\ WEnd(t, i-1) = WireEnd(s) + g * (k-1) + piece(k-1) /\ piece(k-1) \in Nat
      BY <1>9, <3>1, Zenon
    <3>3. piece(k) - piece(k-1) <= MaxChunk
      BY <1>11, <3>1
    <3>4. g * k = g * (k-1) + g /\ g * (k-1) \in Nat
      BY <1>3, <1>6, <3>1
    <3>5. piece(k) \in Nat /\ piece(k-1) \in Nat /\ g \in Nat
      BY <1>6, <3>2
    <3> QED
      BY <1>n, <1>6, <3>2, <3>3, <3>4, <3>5, NextPiece, Zenon
  <2> QED
    BY <2>1, <2>2
<1>18. ASSUME NEW i \in m..L+M, NEW j \in m..L+M, i <= j
       PROVE  AEnd(t, j) - AEnd(t, i) <= WEnd(t, j) - WEnd(t, i)
  <2>0. /\ L + 0 = L /\ L \in 0..L /\ 0 \in 0..M /\ i \in 0..L+M /\ j \in 0..L+M
        /\ \A a1, a2 \in m..L :
              a1 <= a2 => AEnd(s, a2) - AEnd(s, a1) <= WEnd(s, a2) - WEnd(s, a1)
    BY <1>3 DEF Framed, L
  <2>1. \A k \in 0..L+M : WEnd(t, k) \in Nat /\ AEnd(t, k) \in Nat
    BY <1>t
  <2>2. CASE i = j
    BY <2>0, <2>1, <2>2
  <2>3. CASE i < j /\ j \in 0..L
    <3>1. i \in m..L /\ j \in m..L /\ i \in 0..L
      BY <1>3, <2>3
    <3> QED
      BY <1>7, <1>18, <2>0, <2>3, <3>1
  <2>4. CASE i < j /\ j \notin 0..L /\ i \notin 0..L
    <3>1. /\ i - L \in 0..M /\ j - L \in 0..M /\ i - L < j - L
          /\ i = L + (i - L) /\ j = L + (j - L)
      BY <1>3, <1>18, <2>4
    <3>2. AEnd(t, L + (j - L)) - AEnd(t, L + (i - L)) <= WEnd(t, L + (j - L)) - WEnd(t, L + (i - L))
      BY <1>13, <3>1
    <3> QED
      BY <3>1, <3>2, Zenon
  <2>5. CASE i < j /\ j \notin 0..L /\ i \in 0..L
    <3>1. /\ j - L \in 0..M /\ 0 < j - L /\ j = L + (j - L)
          /\ i \in m..L /\ L \in m..L /\ i <= L /\ L \in 0..L+M
      BY <1>3, <1>18, <2>5
    <3>2. AEnd(t, L + (j - L)) - AEnd(t, L + 0) <= WEnd(t, L + (j - L)) - WEnd(t, L + 0)
      BY <1>13, <2>0, <3>1
    <3>3. AEnd(t, j) - AEnd(t, L) <= WEnd(t, j) - WEnd(t, L)
      BY <2>0, <3>1, <3>2, Zenon
    <3>4. AEnd(s, L) - AEnd(s, i) <= WEnd(s, L) - WEnd(s, i)
      BY <2>0, <3>1
    <3>5. AEnd(t, L) - AEnd(t, i) <= WEnd(t, L) - WEnd(t, i)
      BY <1>7, <2>0, <2>5, <3>4
    <3> QED
      BY <2>0, <2>1, <3>1, <3>3, <3>5, ShorterAndShorter, Zenon
  <2> QED
    BY <1>18, <2>0, <2>2, <2>3, <2>4, <2>5
<1>19. Framed(t, m)
  BY <1>2, <1>17, <1>18, Zenon DEF Framed
<1> QED
  BY <1>2, <1>16, <1>19 DEF t

-----------------------------------------------------------------------------
(***************************************************************************)
(* The operations of struct IO, by the offsets they move.                  *)
(***************************************************************************)
LEMMA IOOffsets ==
    ASSUME NEW io \in IOType
    PROVE  /\ NextOut(io) \in Nat /\ NextIn(io) \in Nat /\ Pending(io) \in Nat
           /\ NextIn(io) = NextOut(io) + Pending(io)
           /\ io.total \in Nat /\ io.startPos \in Nat
           /\ io.startPos = 0 => Pending(io) = io.total
BY DEF IOType, NextOut, NextIn, Pending

LEMMA AppendOffsets ==
    ASSUME NEW io \in IOType, NEW n \in Nat
    PROVE  /\ AppendBuffer(io, n) \in IOType
           /\ NextOut(AppendBuffer(io, n)) = NextOut(io)
           /\ NextIn(AppendBuffer(io, n)) = NextIn(io) + n
           /\ Pending(AppendBuffer(io, n)) = Pending(io) + n
           /\ AppendBuffer(io, n).total = io.total + n
           /\ AppendBuffer(io, n).startPos = io.startPos
BY DEF IOType, NextOut, NextIn, Pending, AppendBuffer

LEMMA ConsumeOffsets ==
    ASSUME NEW io \in IOType, NEW n \in Nat, n <= Pending(io)
    PROVE  /\ Consume(io, n) \in IOType
           /\ NextOut(Consume(io, n)) = NextOut(io) + n
           /\ NextIn(Consume(io, n)) = NextIn(io)
           /\ Pending(Consume(io, n)) = Pending(io) - n
           /\ Consume(io, n).total = io.total
BY DEF IOType, NextOut, NextIn, Pending, Consume

LEMMA ResetOffsets ==
    ASSUME NEW io \in IOType
    PROVE  /\ ResetBuffer(io) \in IOType
           /\ NextIn(ResetBuffer(io)) = NextIn(io)
           /\ NextOut(ResetBuffer(io)) = NextIn(io)
           /\ Pending(ResetBuffer(io)) = 0
           /\ ResetBuffer(io).total = 0 /\ ResetBuffer(io).startPos = 0
BY DEF IOType, NextOut, NextIn, Pending, ResetBuffer

LEMMA CompackOffsets ==
    ASSUME NEW io \in IOType
    PROVE  /\ Compack(io) \in IOType
           /\ NextIn(Compack(io)) = NextIn(io)
           /\ NextOut(Compack(io)) = NextOut(io)
           /\ Compack(io).startPos = 0 /\ Compack(io).total = Pending(io)
BY DEF IOType, NextOut, NextIn, Pending, Compack

LEMMA WrittenOffsets ==
    ASSUME NEW io \in IOType, NEW n \in Nat, n <= Pending(io)
    PROVE  LET written == ResetIfDrained(Consume(io, n))
           IN  /\ written \in IOType
               /\ NextOut(written) = NextOut(io) + n
               /\ NextIn(written) = NextIn(io)
               /\ Pending(written) = Pending(io) - n
               /\ n = Pending(io) => written.total = 0
               /\ written.total <= io.total
BY DEF IOType, NextOut, NextIn, Pending, Consume, ResetIfDrained, ResetBuffer

LEMMA EmptyOffsets ==
    /\ EmptyIO \in IOType /\ NextOut(EmptyIO) = 0 /\ NextIn(EmptyIO) = 0
    /\ Pending(EmptyIO) = 0 /\ EmptyIO.total = 0 /\ EmptyIO.startPos = 0
BY DEF EmptyIO, IOType, NextOut, NextIn, Pending
=============================================================================
