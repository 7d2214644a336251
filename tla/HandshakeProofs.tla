--------------------------- MODULE HandshakeProofs ---------------------------
(***************************************************************************)
(* What a handshake comes to, for every message, way of reading it,        *)
(* padding, settings and answer of the resolver.  First the algebra of the *)
(* chain of ciphers, then what decoding makes of an encoded message, then  *)
(* the invariant of Handshake.                                             *)
(***************************************************************************)
EXTENDS Handshake, SequenceTheorems, WellFoundedInduction, TLAPS

-----------------------------------------------------------------------------
(***************************************************************************)
(* Induction up to a bound, for sets.                                      *)
(***************************************************************************)
LEMMA LeastNatural ==
    ASSUME NEW T \in SUBSET Nat, T # {}
    PROVE  \E x \in T : \A y \in T : x <= y
<1>1. IsWellFoundedOn(OpToRel(<, Nat), Nat)
  BY NatLessThanWellFounded
<1>2. PICK x \in T : \A y \in T : ~(<<y, x>> \in OpToRel(<, Nat))
  BY <1>1, WFMin
<1>3. \A y \in T : ~(y < x)
  <2> SUFFICES ASSUME NEW y \in T, y < x PROVE FALSE
    OBVIOUS
  <2>1. <<y, x>> \in Nat \X Nat /\ <<y, x>>[1] < <<y, x>>[2]
    OBVIOUS
  <2>2. <<y, x>> \in OpToRel(<, Nat)
    BY <2>1 DEF OpToRel
  <2> QED
    BY <1>2, <2>2
<1> QED
  BY <1>3

LEMMA StepByStep ==
    ASSUME NEW L \in Nat, NEW A, 0 \in A, \A n \in 1..L : n - 1 \in A => n \in A
    PROVE  \A n \in 0..L : n \in A
<1> DEFINE T == {n \in 0..L : n \notin A}
<1> SUFFICES ASSUME T # {} PROVE FALSE
  OBVIOUS
<1>1. T \in SUBSET Nat
  OBVIOUS
<1>2. PICK x \in T : \A y \in T : x <= y
  BY <1>1, LeastNatural
<1>3. x \in 1..L
  BY <1>2
<1>4. x - 1 \notin T /\ x - 1 \in 0..L
  BY <1>2, <1>3
<1> QED
  BY <1>2, <1>3, <1>4

-----------------------------------------------------------------------------
(***************************************************************************)
(* The chain of ciphers.                                                   *)
(***************************************************************************)
\* Texts combined: the streams of one or the other but not of both.
Xored(s, t) == (s \ t) \cup (t \ s)

LEMMA XoredLaws ==
    /\ \A s, t : Xored(s, t) = Xored(t, s)
    /\ \A s, t, u : Xored(Xored(s, t), u) = Xored(s, Xored(t, u))
    /\ \A s : Xored(s, {}) = s /\ Xored(s, s) = {}
    /\ \A s, t : Xored(s, t) = {} => s = t
BY DEF Xored

\* What one cipher combines a text with.
Link(method, key) == IF method \in KnownMethods THEN {Stream(method, key)} ELSE {}

LEMMA CryptIsXored ==
    ASSUME NEW text, NEW method, NEW key
    PROVE  Crypt(text, method, key) = Xored(text, Link(method, key))
BY DEF Crypt, Combine, Link, Xored

\* The texts between the ciphers.
IsChain(f, text, methods, key) ==
    /\ f[0] = text
    /\ \A n \in 1..Len(methods) : f[n] = Xored(f[n - 1], Link(methods[n], key))

LEMMA ChainExists ==
    ASSUME NEW S, NEW methods \in Seq(S), NEW text, NEW key
    PROVE  \E f : IsChain(f, text, methods, key) /\ Encrypt(text, methods, key) = f[Len(methods)]
<1> DEFINE L == Len(methods)
           Upto(n, f) == /\ f = [i \in 0..n |-> f[i]] /\ f[0] = text
                         /\ \A i \in 1..n : f[i] = Crypt(f[i - 1], methods[i], key)
           A == {n \in 0..L : \E f : Upto(n, f)}
           Rec(f) == [n \in 0..L |-> IF n = 0 THEN text ELSE Crypt(f[n - 1], methods[n], key)]
<1>1. L \in Nat
  BY LenProperties
<1> HIDE DEF L
<1>2. 0 \in A
  <2> DEFINE f == [i \in 0..0 |-> text]
  <2>1. f[0] = text
    OBVIOUS
  <2>2. f = [i \in 0..0 |-> f[i]]
    OBVIOUS
  <2> HIDE DEF f
  <2>3. Upto(0, f)
    BY <2>1, <2>2
  <2> QED
    BY <1>1, <2>3
<1>3. ASSUME NEW n \in 1..L, n - 1 \in A PROVE n \in A
  <2>1. PICK f : Upto(n - 1, f)
    BY <1>3
  <2> DEFINE g == [i \in 0..n |-> IF i = n THEN Crypt(f[n - 1], methods[n], key) ELSE f[i]]
  <2>2. /\ g = [i \in 0..n |-> g[i]]
        /\ \A i \in 0..(n - 1) : g[i] = f[i]
        /\ g[n] = Crypt(f[n - 1], methods[n], key)
    BY <1>1
  <2> HIDE DEF g
  <2>3. g[0] = text /\ g[n - 1] = f[n - 1]
    <3>1. 0 \in 0..(n - 1) /\ n - 1 \in 0..(n - 1)
      BY <1>1
    <3> QED
      BY <2>1, <2>2, <3>1
  <2>4. ASSUME NEW i \in 1..n PROVE g[i] = Crypt(g[i - 1], methods[i], key)
    <3>1. CASE i = n
      BY <2>2, <2>3, <3>1
    <3>2. CASE i # n
      <4>1. i \in 1..(n - 1) /\ i \in 0..(n - 1) /\ i - 1 \in 0..(n - 1)
        BY <1>1, <3>2
      <4> QED
        BY <2>1, <2>2, <4>1
    <3> QED
      BY <3>1, <3>2
  <2>5. Upto(n, g)
    BY <2>2, <2>3, <2>4
  <2>6. n \in 0..L
    BY <1>1
  <2> HIDE DEF Upto
  <2> QED
    BY <2>5, <2>6
<1>4. L \in A
  <2>1. \A n \in 0..L : n \in A
    <3> HIDE DEF A
    <3> QED
      BY <1>1, <1>2, <1>3, StepByStep
  <2> QED
    BY <1>1, <2>1
<1>5. PICK f : Upto(L, f)
  BY <1>4
<1>6. f = Rec(f)
  <2>1. ASSUME NEW n \in 0..L
        PROVE  f[n] = IF n = 0 THEN text ELSE Crypt(f[n - 1], methods[n], key)
    BY <1>1, <1>5
  <2>2. f = [n \in 0..L |-> f[n]]
    BY <1>5
  <2>3. [n \in 0..L |-> f[n]] = Rec(f)
    BY <2>1
  <2> HIDE DEF Rec, Upto
  <2> QED
    BY <2>2, <2>3
<1> DEFINE h == CHOOSE h : h = Rec(h)
<1>7. h = Rec(h)
  <2> HIDE DEF Rec
  <2> QED
    BY <1>6
<1>8. Encrypt(text, methods, key) = h[L]
  BY DEF Encrypt, L
<1> HIDE DEF h
<1>9. /\ h[0] = text
      /\ \A n \in 1..L : h[n] = Crypt(h[n - 1], methods[n], key)
  <2>1. \A n \in 0..L : h[n] = IF n = 0 THEN text ELSE Crypt(h[n - 1], methods[n], key)
    BY <1>7
  <2> HIDE DEF Rec
  <2> QED
    BY <1>1, <2>1
<1> HIDE DEF Rec
<1>10. IsChain(h, text, methods, key)
  BY <1>9, CryptIsXored DEF IsChain, L
<1> QED
  BY <1>8, <1>10 DEF L

\* Starting from a text is combining it with what comes from the empty one.
LEMMA EncryptIsXored ==
    ASSUME NEW S, NEW methods \in Seq(S), NEW text, NEW key
    PROVE  Encrypt(text, methods, key) = Xored(text, Encrypt({}, methods, key))
<1> DEFINE L == Len(methods)
<1>1. L \in Nat
  BY LenProperties
<1>2. PICK f : IsChain(f, text, methods, key) /\ Encrypt(text, methods, key) = f[L]
  BY ChainExists
<1>3. PICK g : IsChain(g, {}, methods, key) /\ Encrypt({}, methods, key) = g[L]
  BY ChainExists
<1> DEFINE A == {n \in 0..L : f[n] = Xored(text, g[n])}
<1>4. 0 \in A
  <2>1. f[0] = text /\ g[0] = {} /\ 0 \in 0..L
    BY <1>1, <1>2, <1>3 DEF IsChain
  <2>2. f[0] = Xored(text, g[0])
    BY <2>1, XoredLaws
  <2> QED
    BY <2>1, <2>2
<1>5. ASSUME NEW n \in 1..L, n - 1 \in A PROVE n \in A
  <2>1. /\ f[n] = Xored(f[n - 1], Link(methods[n], key))
        /\ g[n] = Xored(g[n - 1], Link(methods[n], key))
        /\ f[n - 1] = Xored(text, g[n - 1])
    BY <1>2, <1>3, <1>5 DEF IsChain
  <2>2. f[n] = Xored(text, g[n])
    <3>1. f[n] = Xored(text, Xored(g[n - 1], Link(methods[n], key)))
      BY <2>1, XoredLaws
    <3> QED
      BY <2>1, <3>1
  <2> QED
    BY <1>1, <2>2
<1>6. \A n \in 0..L : n \in A
  <2> HIDE DEF A, L
  <2> QED
    BY <1>1, <1>4, <1>5, StepByStep
<1> QED
  BY <1>1, <1>2, <1>3, <1>6

\* The order of the ciphers does not matter.
LEMMA ReversedIsEqual ==
    ASSUME NEW S, NEW methods \in Seq(S), NEW key
    PROVE  /\ Reverse(methods) \in Seq(S)
           /\ Encrypt({}, Reverse(methods), key) = Encrypt({}, methods, key)
<1> DEFINE L == Len(methods)
           back == Reverse(methods)
<1>1. L \in Nat /\ \A n \in 1..L : methods[n] \in S
  BY LenProperties, ElementOfSeq
<1>2. /\ back \in Seq(S) /\ Len(back) = L
      /\ \A n \in 1..L : back[n] = methods[(L - n) + 1]
  <2>1. back = [n \in 1..L |-> methods[(L - n) + 1]]
    BY DEF Reverse
  <2>2. back \in [1..L -> S]
    BY <1>1, <2>1
  <2>3. back \in Seq(S)
    BY <1>1, <2>2, SeqDef
  <2>4. Len(back) = L
    BY <1>1, <2>1, <2>3, LenProperties
  <2> QED
    BY <2>1, <2>3, <2>4
<1> HIDE DEF back, L
<1>3. PICK f : IsChain(f, {}, methods, key) /\ Encrypt({}, methods, key) = f[L]
  <2>1. \E f : IsChain(f, {}, methods, key) /\ Encrypt({}, methods, key) = f[Len(methods)]
    BY ChainExists
  <2> QED
    BY <2>1 DEF L
<1>4. PICK g : IsChain(g, {}, back, key) /\ Encrypt({}, back, key) = g[L]
  <2>1. \E g : IsChain(g, {}, back, key) /\ Encrypt({}, back, key) = g[Len(back)]
    <3>1. back \in Seq(S)
      BY <1>2
    <3> QED
      BY <3>1, ChainExists
  <2> QED
    BY <1>2, <2>1
<1> DEFINE A == {n \in 0..L : f[L] = Xored(f[L - n], g[n])}
<1>5. 0 \in A
  <2>1. L - 0 = L /\ g[0] = {} /\ 0 \in 0..L
    BY <1>1, <1>4 DEF IsChain
  <2>2. f[L] = Xored(f[L], g[0])
    BY <2>1, XoredLaws
  <2> QED
    BY <2>1, <2>2
<1>6. ASSUME NEW n \in 1..L, n - 1 \in A PROVE n \in A
  <2> DEFINE k == (L - n) + 1
             m == Link(methods[k], key)
  <2>1. k \in 1..L /\ k - 1 = L - n /\ L - (n - 1) = k
    BY <1>1
  <2>2. f[k] = Xored(f[k - 1], m)
    BY <1>3, <2>1 DEF IsChain, L
  <2>3. g[n] = Xored(g[n - 1], m)
    BY <1>2, <1>4, <2>1 DEF IsChain
  <2>4. f[L] = Xored(f[k], g[n - 1])
    BY <1>6, <2>1
  <2> HIDE DEF k, m
  <2>5. f[L] = Xored(f[k - 1], g[n])
    <3>1. f[L] = Xored(f[k - 1], Xored(m, g[n - 1]))
      BY <2>2, <2>4, XoredLaws
    <3>2. Xored(m, g[n - 1]) = g[n]
      BY <2>3, XoredLaws
    <3> QED
      BY <3>1, <3>2
  <2>6. f[L - n] = f[k - 1]
    BY <2>1
  <2> QED
    BY <1>1, <2>5, <2>6
<1>7. \A n \in 0..L : n \in A
  <2> HIDE DEF A
  <2> QED
    BY <1>1, <1>5, <1>6, StepByStep
<1>8. f[L] = Xored(f[L - L], g[L]) /\ L - L = 0
  BY <1>1, <1>7
<1>9. f[L] = g[L]
  <2>1. f[0] = {}
    BY <1>3 DEF IsChain
  <2>2. f[L] = Xored({}, g[L])
    BY <1>8, <2>1
  <2> QED
    BY <2>2, XoredLaws
<1> QED
  BY <1>2, <1>3, <1>4, <1>9 DEF back

(***************************************************************************)
(* A message is deciphered exactly by those who combine texts with the     *)
(* same streams as its sender.                                             *)
(***************************************************************************)
LEMMA DeciphersIfSame ==
    ASSUME NEW S, NEW sent \in Seq(S), NEW sentKey,
           NEW T, NEW got \in Seq(T), NEW gotKey
    PROVE  Decrypt(Encrypt({}, sent, sentKey), got, gotKey) = {}
              <=> Encrypt({}, sent, sentKey) = Encrypt({}, got, gotKey)
<1> DEFINE text == Encrypt({}, sent, sentKey)
           own == Encrypt({}, got, gotKey)
<1>1. Reverse(got) \in Seq(T) /\ Encrypt({}, Reverse(got), gotKey) = own
  BY ReversedIsEqual
<1>2. Decrypt(text, got, gotKey) = Encrypt(text, Reverse(got), gotKey)
  BY DEF Decrypt
<1> HIDE DEF text, own
<1>3. Decrypt(text, got, gotKey) = Xored(text, own)
  BY <1>1, <1>2, EncryptIsXored
<1>4. Decrypt(text, got, gotKey) = {} <=> text = own
  BY <1>3, XoredLaws
<1> QED
  BY <1>4 DEF text, own

-----------------------------------------------------------------------------
(***************************************************************************)
(* Messages.  A piece stands in a message behind its first n bytes.        *)
(***************************************************************************)
Holds(s, n, piece) ==
    /\ n + Len(piece) <= Len(s)
    /\ \A i \in 1..Len(piece) : s[n + i] = piece[i]

LEMMA ByteStrings == Seq(Byte) \subseteq Seq(Nat)
<1>1. Byte \subseteq Nat
  BY DEF Byte
<1> QED
  BY <1>1, SeqMonotonic

LEMMA JoinHolds ==
    ASSUME NEW s \in Seq(Nat), NEW t \in Seq(Nat)
    PROVE  /\ s \o t \in Seq(Nat) /\ Len(s \o t) = Len(s) + Len(t)
           /\ Len(s) \in Nat /\ Len(t) \in Nat
           /\ Holds(s \o t, 0, s) /\ Holds(s \o t, Len(s), t)
           /\ \A n \in Nat, p \in Seq(Nat) : Holds(s, n, p) => Holds(s \o t, n, p)
<1>1. /\ s \o t \in Seq(Nat) /\ Len(s \o t) = Len(s) + Len(t)
      /\ Len(s) \in Nat /\ Len(t) \in Nat
      /\ \A i \in 1 .. Len(s) + Len(t) : (s \o t)[i] =
             IF i <= Len(s) THEN s[i] ELSE t[i - Len(s)]
  BY ConcatProperties, LenProperties
<1> DEFINE j == s \o t
<1> HIDE DEF j
<1>2. /\ Len(j) = Len(s) + Len(t)
      /\ \A i \in 1 .. Len(s) + Len(t) : j[i] = IF i <= Len(s) THEN s[i] ELSE t[i - Len(s)]
  BY <1>1 DEF j
<1>3. Holds(j, 0, s) /\ Holds(j, Len(s), t)
  <2>1. ASSUME NEW i \in 1..Len(s) PROVE j[0 + i] = s[i]
    BY <1>1, <1>2
  <2>2. ASSUME NEW i \in 1..Len(t) PROVE j[Len(s) + i] = t[i]
    <3>1. Len(s) + i \in 1 .. Len(s) + Len(t) /\ ~(Len(s) + i <= Len(s))
          /\ (Len(s) + i) - Len(s) = i
      BY <1>1
    <3> QED
      BY <1>2, <3>1
  <2>3. 0 + Len(s) <= Len(j) /\ Len(s) + Len(t) <= Len(j)
    BY <1>1, <1>2
  <2> QED
    BY <2>1, <2>2, <2>3 DEF Holds
<1>4. ASSUME NEW n \in Nat, NEW p \in Seq(Nat), Holds(s, n, p)
      PROVE  Holds(j, n, p)
  <2>1. Len(p) \in Nat /\ n + Len(p) <= Len(s)
    BY <1>4, LenProperties DEF Holds
  <2>2. ASSUME NEW i \in 1..Len(p) PROVE j[n + i] = p[i]
    <3>1. n + i \in 1..Len(s) + Len(t) /\ n + i <= Len(s)
      BY <1>1, <2>1
    <3>2. s[n + i] = p[i]
      BY <1>4 DEF Holds
    <3> QED
      BY <1>2, <3>1, <3>2
  <2>3. n + Len(p) <= Len(j)
    BY <1>1, <1>2, <2>1
  <2> QED
    BY <2>2, <2>3 DEF Holds
<1> QED
  BY <1>1, <1>3, <1>4 DEF j

\* A piece within a piece; behind a head of m bytes everything is m later.
LEMMA HoldsWithin ==
    ASSUME NEW s \in Seq(Nat), NEW m \in Nat, NEW piece \in Seq(Nat), Holds(s, m, piece)
    PROVE  \A n \in Nat, p \in Seq(Nat) : Holds(piece, n, p) => Holds(s, m + n, p)
<1> SUFFICES ASSUME NEW n \in Nat, NEW p \in Seq(Nat), Holds(piece, n, p)
             PROVE  Holds(s, m + n, p)
  OBVIOUS
<1>1. Len(p) \in Nat /\ Len(piece) \in Nat /\ Len(s) \in Nat
  BY LenProperties
<1>2. (m + n) + Len(p) <= Len(s) /\ n + Len(p) <= Len(piece)
  BY <1>1 DEF Holds
<1>3. ASSUME NEW i \in 1..Len(p) PROVE s[(m + n) + i] = p[i]
  <2>1. n + i \in 1..Len(piece) /\ m + (n + i) = (m + n) + i
    BY <1>1, <1>2
  <2>2. s[m + (n + i)] = piece[n + i] /\ piece[n + i] = p[i]
    BY <2>1 DEF Holds
  <2> QED
    BY <2>1, <2>2
<1> QED
  BY <1>2, <1>3 DEF Holds

\* Reading what stands there gives the piece.
LEMMA HoldsIsRead ==
    ASSUME NEW s \in Seq(Nat), NEW n \in Nat, NEW piece \in Seq(Nat), Holds(s, n, piece)
    PROVE  SubSeq(s, n + 1, n + Len(piece)) = piece
<1> DEFINE r == SubSeq(s, n + 1, n + Len(piece))
<1>1. Len(piece) \in Nat /\ Len(s) \in Nat
  BY LenProperties
<1>2. \A i \in (n + 1)..(n + Len(piece)) : s[i] \in Nat
  <2> SUFFICES ASSUME NEW i \in (n + 1)..(n + Len(piece)) PROVE s[i] \in Nat
    OBVIOUS
  <2>1. i \in 1..Len(s)
    BY <1>1 DEF Holds
  <2> QED
    BY <2>1, ElementOfSeq
<1>3. n + 1 \in Int /\ n + Len(piece) \in Int
  BY <1>1
<1>4. /\ r \in Seq(Nat)
      /\ Len(r) = IF n + 1 <= n + Len(piece) THEN (n + Len(piece)) - (n + 1) + 1 ELSE 0
      /\ \A i \in 1..((n + Len(piece)) - (n + 1) + 1) : r[i] = s[(n + 1) + i - 1]
  BY <1>2, <1>3, SubSeqProperties
<1> HIDE DEF r
<1>5. Len(r) = Len(piece)
  BY <1>1, <1>4
<1>6. ASSUME NEW i \in 1..Len(piece) PROVE r[i] = piece[i]
  <2>1. i \in 1..((n + Len(piece)) - (n + 1) + 1) /\ (n + 1) + i - 1 = n + i
    BY <1>1
  <2>2. r[i] = s[n + i]
    BY <1>4, <2>1
  <2> QED
    BY <2>2 DEF Holds
<1>7. r = piece
  BY <1>4, <1>5, <1>6, SeqEqual
<1> QED
  BY <1>7 DEF r

\* A counted string, and how it is read.
LEMMA CountedIsRead ==
    ASSUME NEW str \in Seq(Nat)
    PROVE  /\ Counted(str) \in Seq(Nat) /\ Len(Counted(str)) = Len(str) + 1
           /\ Len(str) \in Nat
           /\ \A s \in Seq(Nat), n \in Nat :
                 Holds(s, n, Counted(str)) =>
                    /\ CountedEnd(s, n) = n + 1 + Len(str)
                    /\ Holds(s, n + 1, str)
<1>1. Len(str) \in Nat
  BY LenProperties
<1> DEFINE one == <<Len(str)>>
<1>2. one \in Seq(Nat) /\ Len(one) = 1 /\ one[1] = Len(str)
  BY <1>1
<1> HIDE DEF one
<1>3. Counted(str) = one \o str
  BY DEF Counted, one
<1>4. /\ Counted(str) \in Seq(Nat) /\ Len(Counted(str)) = 1 + Len(str)
      /\ Holds(Counted(str), 0, one) /\ Holds(Counted(str), 1, str)
  BY <1>2, <1>3, JoinHolds
<1>5. ASSUME NEW s \in Seq(Nat), NEW n \in Nat, Holds(s, n, Counted(str))
      PROVE  CountedEnd(s, n) = n + 1 + Len(str) /\ Holds(s, n + 1, str)
  <2>1. Holds(s, n + 1, str) /\ Holds(s, n + 0, one)
    BY <1>2, <1>4, <1>5, HoldsWithin
  <2>2. n < Len(s) /\ s[n + 1] = Len(str)
    <3>1. Len(s) \in Nat
      BY LenProperties
    <3> QED
      BY <1>2, <2>1, <3>1 DEF Holds
  <2> QED
    BY <2>1, <2>2 DEF CountedEnd
<1> QED
  BY <1>1, <1>4, <1>5

\* Numbers of two bytes.
NumberIn(p) == 256 * p[1] + p[2]

LEMMA ShortIsRead ==
    ASSUME NEW k \in Nat
    PROVE  /\ Short(k) \in Seq(Nat) /\ Len(Short(k)) = 2
           /\ NumberIn(Short(k)) = k
<1>1. k \div 256 \in Nat /\ k % 256 \in Nat /\ k = 256 * (k \div 256) + (k % 256)
  OBVIOUS
<1>2. Short(k) \in Seq(Nat) /\ Len(Short(k)) = 2
  BY <1>1 DEF Short
<1>3. Short(k)[1] = k \div 256 /\ Short(k)[2] = k % 256
  BY DEF Short
<1> QED
  BY <1>1, <1>2, <1>3 DEF NumberIn

LEMMA SmallShortIsRead ==
    ASSUME NEW k \in Nat, k <= 32767
    PROVE  SignedShort(Short(k)[1], Short(k)[2]) = k
<1>1. k \div 256 \in 0..127 /\ k % 256 \in Nat /\ k = 256 * (k \div 256) + (k % 256)
  OBVIOUS
<1>2. Short(k)[1] = k \div 256 /\ Short(k)[2] = k % 256
  BY DEF Short
<1> QED
  BY <1>1, <1>2 DEF SignedShort, Signed

\* The four bytes in front of a message.
LEMMA FramedHolds ==
    ASSUME NEW body \in Seq(Nat)
    PROVE  /\ Framed(body) \in Seq(Nat) /\ Len(Framed(body)) = 4 + Len(body)
           /\ Framed(body)[1] = 0 /\ Holds(Framed(body), 4, body)
<1> DEFINE zero == <<0, 0>>
           head == zero \o Short(Len(body))
<1>1. zero \in Seq(Nat) /\ Len(zero) = 2 /\ zero[1] = 0
  OBVIOUS
<1>2. Len(body) \in Nat
  BY LenProperties
<1>3. Short(Len(body)) \in Seq(Nat) /\ Len(Short(Len(body))) = 2
  BY <1>2, ShortIsRead
<1> HIDE DEF zero
<1>4. head \in Seq(Nat) /\ Len(head) = 4 /\ Holds(head, 0, zero)
  <2> DEFINE size == Short(Len(body))
  <2>1. size \in Seq(Nat) /\ Len(size) = 2
    BY <1>3
  <2> HIDE DEF size
  <2>2. /\ zero \o size \in Seq(Nat) /\ Len(zero \o size) = Len(zero) + Len(size)
        /\ Holds(zero \o size, 0, zero)
    BY <1>1, <2>1, JoinHolds, Zenon
  <2>3. Len(zero) + Len(size) = 4
    BY <1>1, <2>1
  <2> QED
    BY <2>2, <2>3 DEF size
<1>5. Framed(body) = head \o body
  BY DEF Framed, zero
<1> HIDE DEF head
<1>6. /\ Framed(body) \in Seq(Nat) /\ Len(Framed(body)) = 4 + Len(body)
      /\ Holds(Framed(body), 4, body) /\ Holds(Framed(body), 0, zero)
  <2>1. /\ head \o body \in Seq(Nat) /\ Len(head \o body) = 4 + Len(body)
        /\ Holds(head \o body, 4, body)
        /\ \A n \in Nat, p \in Seq(Nat) : Holds(head, n, p) => Holds(head \o body, n, p)
    BY <1>4, JoinHolds
  <2> QED
    BY <1>1, <1>4, <1>5, <2>1
<1>7. Framed(body)[1] = 0
  <2>1. 1 \in 1..Len(zero) /\ 0 + 1 = 1
    BY <1>1
  <2> QED
    BY <1>1, <1>6, <2>1 DEF Holds
<1> QED
  BY <1>6, <1>7

\* Pieces joined one behind the other.
FiveIn(s, p1, p2, p3, p4, p5) ==
    /\ s \in Seq(Nat)
    /\ Len(s) = Len(p1) + Len(p2) + Len(p3) + Len(p4) + Len(p5)
    /\ Holds(s, 0, p1) /\ Holds(s, Len(p1), p2)
    /\ Holds(s, Len(p1) + Len(p2), p3)
    /\ Holds(s, Len(p1) + Len(p2) + Len(p3), p4)
    /\ Holds(s, Len(p1) + Len(p2) + Len(p3) + Len(p4), p5)

LEMMA FivePieces ==
    ASSUME NEW p1 \in Seq(Nat), NEW p2 \in Seq(Nat), NEW p3 \in Seq(Nat),
           NEW p4 \in Seq(Nat), NEW p5 \in Seq(Nat)
    PROVE  FiveIn(p1 \o p2 \o p3 \o p4 \o p5, p1, p2, p3, p4, p5)
<1> DEFINE s2 == p1 \o p2
           s3 == s2 \o p3
           s4 == s3 \o p4
           s5 == s4 \o p5
           Within(s, t) == \A n \in Nat, p \in Seq(Nat) : Holds(s, n, p) => Holds(t, n, p)
<1>1. /\ s2 \in Seq(Nat) /\ Len(s2) = Len(p1) + Len(p2)
      /\ Holds(s2, 0, p1) /\ Holds(s2, Len(p1), p2)
      /\ Len(p1) \in Nat /\ Len(p2) \in Nat
  BY JoinHolds
<1> HIDE DEF s2
<1>2. /\ s3 \in Seq(Nat) /\ Len(s3) = Len(s2) + Len(p3)
      /\ Holds(s3, Len(s2), p3) /\ Within(s2, s3) /\ Len(p3) \in Nat
  BY <1>1, JoinHolds
<1> HIDE DEF s3
<1>3. /\ s4 \in Seq(Nat) /\ Len(s4) = Len(s3) + Len(p4)
      /\ Holds(s4, Len(s3), p4) /\ Within(s3, s4) /\ Len(p4) \in Nat
  BY <1>2, JoinHolds
<1> HIDE DEF s4
<1>4. /\ s5 \in Seq(Nat) /\ Len(s5) = Len(s4) + Len(p5)
      /\ Holds(s5, Len(s4), p5) /\ Within(s4, s5)
  BY <1>3, JoinHolds
<1>5. s5 = p1 \o p2 \o p3 \o p4 \o p5
  BY DEF s2, s3, s4
<1> HIDE DEF s5
<1>6. /\ Len(s2) \in Nat /\ Len(s3) \in Nat /\ Len(s4) \in Nat /\ 0 \in Nat
  BY <1>1, <1>2, <1>3
<1>7. Within(s3, s5)
  BY <1>3, <1>4, Zenon
<1>8. Within(s2, s5)
  BY <1>2, <1>7, Zenon
<1>9. Holds(s5, 0, p1) /\ Holds(s5, Len(p1), p2)
  BY <1>1, <1>6, <1>8, Zenon
<1>10. Holds(s5, Len(s2), p3)
  BY <1>2, <1>6, <1>7, Zenon
<1>11. Holds(s5, Len(s3), p4)
  BY <1>3, <1>4, <1>6, Zenon
<1> HIDE DEF Within
<1> QED
  BY <1>1, <1>2, <1>3, <1>4, <1>5, <1>9, <1>10, <1>11, Zenon DEF FiveIn

TwoMoreIn(t, s, p6, p7) ==
    /\ t \in Seq(Nat)
    /\ Len(t) = Len(s) + Len(p6) + Len(p7)
    /\ Holds(t, Len(s), p6)
    /\ Holds(t, Len(s) + Len(p6), p7)
    /\ \A n \in Nat, p \in Seq(Nat) : Holds(s, n, p) => Holds(t, n, p)

LEMMA TwoMorePieces ==
    ASSUME NEW s \in Seq(Nat), NEW p6 \in Seq(Nat), NEW p7 \in Seq(Nat)
    PROVE  TwoMoreIn(s \o p6 \o p7, s, p6, p7)
<1> DEFINE u == s \o p6
           Within(x, y) == \A n \in Nat, p \in Seq(Nat) : Holds(x, n, p) => Holds(y, n, p)
<1>1. /\ u \in Seq(Nat) /\ Len(u) = Len(s) + Len(p6) /\ Len(s) \in Nat /\ Len(p6) \in Nat
      /\ Holds(u, Len(s), p6) /\ Within(s, u)
  BY JoinHolds
<1> HIDE DEF u
<1>2. /\ u \o p7 \in Seq(Nat) /\ Len(u \o p7) = Len(u) + Len(p7)
      /\ Holds(u \o p7, Len(u), p7) /\ Within(u, u \o p7)
  BY <1>1, JoinHolds
<1>3. Within(s, u \o p7) /\ Holds(u \o p7, Len(s), p6)
  BY <1>1, <1>2, Zenon
<1> QED
  BY <1>1, <1>2, <1>3 DEF u, TwoMoreIn

-----------------------------------------------------------------------------
(***************************************************************************)
(* What AuthDecode makes of an encoded AuthMsg: the message.               *)
(***************************************************************************)
\* The fields of an AuthMsg: the padding and its size, the type p2, user,
\* password, type and size p5 of the address, the address, the port p7.
AuthBytes(rnd, p2, user, pwd, p5, addr, p7) ==
    Framed(Counted(rnd) \o p2 \o Counted(user) \o Counted(pwd) \o p5 \o addr \o p7)

AuthPieces(rnd, p2, user, pwd, p5, addr, p7, R, U, P, A) ==
    /\ rnd \in Seq(Nat) /\ user \in Seq(Nat) /\ pwd \in Seq(Nat) /\ addr \in Seq(Nat)
    /\ p2 \in Seq(Nat) /\ p5 \in Seq(Nat) /\ p7 \in Seq(Nat)
    /\ R = Len(rnd) /\ U = Len(user) /\ P = Len(pwd) /\ A = Len(addr)
    /\ Len(p2) = 1 /\ Len(p5) = 2 /\ Len(p7) = 2

AuthPlaces(s, rnd, p2, user, pwd, p5, addr, p7, R, U, P, A) ==
    /\ s \in Seq(Nat) /\ Len(s) = R + U + P + A + 12 /\ s[1] = 0
    /\ Holds(s, 4, Counted(rnd)) /\ Holds(s, R + 5, p2)
    /\ Holds(s, R + 6, Counted(user)) /\ Holds(s, R + U + 7, Counted(pwd))
    /\ Holds(s, R + U + P + 8, p5)
    /\ Holds(s, R + U + P + 10, addr) /\ Holds(s, R + U + P + A + 10, p7)

LEMMA AuthLaidOut ==
    ASSUME NEW rnd, NEW user, NEW pwd, NEW addr, NEW p2, NEW p5, NEW p7,
           NEW R \in Nat, NEW U \in Nat, NEW P \in Nat, NEW A \in Nat,
           AuthPieces(rnd, p2, user, pwd, p5, addr, p7, R, U, P, A)
    PROVE  AuthPlaces(AuthBytes(rnd, p2, user, pwd, p5, addr, p7),
                      rnd, p2, user, pwd, p5, addr, p7, R, U, P, A)
<1> DEFINE front == Counted(rnd) \o p2 \o Counted(user) \o Counted(pwd) \o p5
           body == front \o addr \o p7
           s == Framed(body)
           Within(x, k, y) == \A n \in Nat, p \in Seq(Nat) : Holds(x, n, p) => Holds(y, k + n, p)
<1>1. /\ Counted(rnd) \in Seq(Nat) /\ Len(Counted(rnd)) = R + 1
      /\ Counted(user) \in Seq(Nat) /\ Len(Counted(user)) = U + 1
      /\ Counted(pwd) \in Seq(Nat) /\ Len(Counted(pwd)) = P + 1
  <2> SUFFICES /\ rnd \in Seq(Nat) /\ user \in Seq(Nat) /\ pwd \in Seq(Nat)
               /\ R = Len(rnd) /\ U = Len(user) /\ P = Len(pwd)
    BY CountedIsRead, Zenon
  <2> QED
    BY DEF AuthPieces
<1>p. /\ p2 \in Seq(Nat) /\ p5 \in Seq(Nat) /\ p7 \in Seq(Nat) /\ addr \in Seq(Nat)
      /\ Len(p2) = 1 /\ Len(p5) = 2 /\ Len(p7) = 2 /\ Len(addr) = A
  BY DEF AuthPieces
<1>2. /\ front \in Seq(Nat)
      /\ Len(front) = (R + 1) + 1 + (U + 1) + (P + 1) + 2
      /\ Holds(front, 0, Counted(rnd)) /\ Holds(front, R + 1, p2)
      /\ Holds(front, (R + 1) + 1, Counted(user))
      /\ Holds(front, (R + 1) + 1 + (U + 1), Counted(pwd))
      /\ Holds(front, (R + 1) + 1 + (U + 1) + (P + 1), p5)
  <2> DEFINE q1 == Counted(rnd)
             q3 == Counted(user)
             q4 == Counted(pwd)
  <2>1. q1 \in Seq(Nat) /\ Len(q1) = R + 1 /\ q3 \in Seq(Nat) /\ Len(q3) = U + 1
        /\ q4 \in Seq(Nat) /\ Len(q4) = P + 1
    BY <1>1
  <2> HIDE DEF q1, q3, q4
  <2> DEFINE f == q1 \o p2 \o q3 \o q4 \o p5
  <2>2. /\ f \in Seq(Nat)
        /\ Len(f) = Len(q1) + Len(p2) + Len(q3) + Len(q4) + Len(p5)
        /\ Holds(f, 0, q1) /\ Holds(f, Len(q1), p2)
        /\ Holds(f, Len(q1) + Len(p2), q3)
        /\ Holds(f, Len(q1) + Len(p2) + Len(q3), q4)
        /\ Holds(f, Len(q1) + Len(p2) + Len(q3) + Len(q4), p5)
    <3>1. FiveIn(f, q1, p2, q3, q4, p5)
      BY <1>p, <2>1, FivePieces
    <3> QED
      BY <3>1, Zenon DEF FiveIn
  <2> HIDE DEF f
  <2>3. /\ f \in Seq(Nat)
        /\ Len(f) = (R + 1) + 1 + (U + 1) + (P + 1) + 2
        /\ Holds(f, 0, q1) /\ Holds(f, R + 1, p2)
        /\ Holds(f, (R + 1) + 1, q3)
        /\ Holds(f, (R + 1) + 1 + (U + 1), q4)
        /\ Holds(f, (R + 1) + 1 + (U + 1) + (P + 1), p5)
    BY <1>p, <2>1, <2>2, Zenon
  <2> QED
    BY <2>3 DEF f, q1, q3, q4
<1> HIDE DEF front
<1>3. /\ body \in Seq(Nat) /\ Len(body) = Len(front) + Len(addr) + Len(p7)
      /\ Holds(body, Len(front), addr) /\ Holds(body, Len(front) + Len(addr), p7)
      /\ \A n \in Nat, p \in Seq(Nat) : Holds(front, n, p) => Holds(body, n, p)
  <2>1. TwoMoreIn(body, front, addr, p7)
    BY <1>p, <1>2, TwoMorePieces
  <2> QED
    BY <2>1, Zenon DEF TwoMoreIn
<1> HIDE DEF body
<1>4. /\ s \in Seq(Nat) /\ Len(s) = 4 + Len(body) /\ s[1] = 0 /\ Holds(s, 4, body)
      /\ Within(body, 4, s)
  <2>1. s \in Seq(Nat) /\ Len(s) = 4 + Len(body) /\ s[1] = 0 /\ Holds(s, 4, body)
    BY <1>3, FramedHolds
  <2> HIDE DEF s
  <2>2. Within(body, 4, s)
    BY <1>3, <2>1, HoldsWithin
  <2> QED
    BY <2>1, <2>2
<1> HIDE DEF s, Within
<1>5. /\ 0 \in Nat /\ R + 1 \in Nat /\ (R + 1) + 1 \in Nat /\ (R + 1) + 1 + (U + 1) \in Nat
      /\ (R + 1) + 1 + (U + 1) + (P + 1) \in Nat
  OBVIOUS
<1>6. /\ Len(front) = R + U + P + 6 /\ Len(addr) = A
      /\ R + U + P + 6 \in Nat /\ (R + U + P + 6) + A \in Nat
  <2>1. (R + 1) + 1 + (U + 1) + (P + 1) + 2 = R + U + P + 6
    OBVIOUS
  <2> QED
    BY <1>2, <1>p, <2>1
<1>7. Len(s) = R + U + P + A + 12
  <2>1. Len(s) = 4 + ((R + U + P + 6) + A + 2)
    BY <1>3, <1>4, <1>6, <1>p
  <2> QED
    BY <2>1
<1>8. /\ Holds(s, 4 + 0, Counted(rnd)) /\ Holds(s, 4 + (R + 1), p2)
      /\ Holds(s, 4 + ((R + 1) + 1), Counted(user))
      /\ Holds(s, 4 + ((R + 1) + 1 + (U + 1)), Counted(pwd))
      /\ Holds(s, 4 + ((R + 1) + 1 + (U + 1) + (P + 1)), p5)
  <2>1. /\ Holds(body, 0, Counted(rnd)) /\ Holds(body, R + 1, p2)
        /\ Holds(body, (R + 1) + 1, Counted(user))
        /\ Holds(body, (R + 1) + 1 + (U + 1), Counted(pwd))
        /\ Holds(body, (R + 1) + 1 + (U + 1) + (P + 1), p5)
    BY <1>1, <1>2, <1>3, <1>5, <1>p, Zenon
  <2> QED
    BY <1>1, <1>4, <1>5, <1>p, <2>1, Zenon DEF Within
<1>9. Holds(s, 4 + (R + U + P + 6), addr) /\ Holds(s, 4 + ((R + U + P + 6) + A), p7)
  <2>1. Holds(body, R + U + P + 6, addr) /\ Holds(body, (R + U + P + 6) + A, p7)
    BY <1>3, <1>6, <1>p, Zenon
  <2> QED
    BY <1>4, <1>6, <1>p, <2>1, Zenon DEF Within
<1>10. /\ 4 + 0 = 4 /\ 4 + (R + 1) = R + 5 /\ 4 + ((R + 1) + 1) = R + 6
       /\ 4 + ((R + 1) + 1 + (U + 1)) = R + U + 7
       /\ 4 + ((R + 1) + 1 + (U + 1) + (P + 1)) = R + U + P + 8
       /\ 4 + (R + U + P + 6) = R + U + P + 10
       /\ 4 + ((R + U + P + 6) + A) = R + U + P + A + 10
  OBVIOUS
<1>11. /\ Holds(s, 4, Counted(rnd)) /\ Holds(s, R + 5, p2)
       /\ Holds(s, R + 6, Counted(user)) /\ Holds(s, R + U + 7, Counted(pwd))
       /\ Holds(s, R + U + P + 8, p5)
       /\ Holds(s, R + U + P + 10, addr) /\ Holds(s, R + U + P + A + 10, p7)
  BY <1>8, <1>9, <1>10
<1> QED
  BY <1>4, <1>7, <1>11 DEF s, body, front, AuthPlaces, AuthBytes

\* What AuthDecode reads there.
LEMMA AuthRead ==
    ASSUME NEW rnd, NEW user, NEW pwd, NEW addr, NEW p2, NEW p5, NEW p7, NEW s,
           NEW R \in Nat, NEW U \in Nat, NEW P \in Nat, NEW A \in Nat,
           AuthPieces(rnd, p2, user, pwd, p5, addr, p7, R, U, P, A), p5[2] = A,
           AuthPlaces(s, rnd, p2, user, pwd, p5, addr, p7, R, U, P, A)
    PROVE  LET d == AuthDecode(s)
           IN  /\ AuthFields(s).port = Len(s)
               /\ d.ok /\ d.total = 0 /\ d.rndChar = rnd /\ d.type = p2[1]
               /\ d.user = user /\ d.pwd = pwd
               /\ d.addrType = p5[1] /\ d.addrLen = A /\ d.addr = addr
               /\ d.port = NumberIn(p7)
<1>1. /\ rnd \in Seq(Nat) /\ user \in Seq(Nat) /\ pwd \in Seq(Nat) /\ addr \in Seq(Nat)
      /\ R = Len(rnd) /\ U = Len(user) /\ P = Len(pwd) /\ A = Len(addr)
  BY DEF AuthPieces
<1>2. Len(p2) = 1 /\ Len(p5) = 2 /\ Len(p7) = 2
  BY DEF AuthPieces
<1>3. s \in Seq(Nat) /\ Len(s) = R + U + P + A + 12 /\ s[1] = 0
  BY DEF AuthPlaces
<1>4. Holds(s, 4, Counted(rnd)) /\ Holds(s, R + 6, Counted(user)) /\ Holds(s, R + U + 7, Counted(pwd))
  BY DEF AuthPlaces
<1>5. Holds(s, R + 5, p2) /\ Holds(s, R + U + P + 8, p5) /\ Holds(s, R + U + P + A + 10, p7)
  BY DEF AuthPlaces
<1>6. Holds(s, R + U + P + 10, addr)
  BY DEF AuthPlaces
<1>12. /\ CountedEnd(s, 4) = R + 5 /\ Holds(s, 5, rnd)
       /\ CountedEnd(s, R + 6) = R + U + 7 /\ Holds(s, R + 7, user)
       /\ CountedEnd(s, R + U + 7) = R + U + P + 8 /\ Holds(s, R + U + 8, pwd)
  <2>0. 4 \in Nat /\ R + 6 \in Nat /\ R + U + 7 \in Nat
    OBVIOUS
  <2>1. CountedEnd(s, 4) = 4 + 1 + R /\ Holds(s, 4 + 1, rnd)
    <3> DEFINE k == 4
    <3>1. k \in Nat /\ Holds(s, k, Counted(rnd)) /\ s \in Seq(Nat) /\ rnd \in Seq(Nat)
      BY <1>1, <1>3, <1>4
    <3> HIDE DEF k
    <3>2. CountedEnd(s, k) = k + 1 + Len(rnd) /\ Holds(s, k + 1, rnd)
      BY <3>1, CountedIsRead
    <3> QED
      BY <1>1, <3>2, Zenon DEF k
  <2>2. CountedEnd(s, R + 6) = R + 6 + 1 + U /\ Holds(s, R + 6 + 1, user)
    <3> DEFINE k == R + 6
    <3>1. k \in Nat /\ Holds(s, k, Counted(user)) /\ s \in Seq(Nat) /\ user \in Seq(Nat)
      BY <1>1, <1>3, <1>4
    <3> HIDE DEF k
    <3>2. CountedEnd(s, k) = k + 1 + Len(user) /\ Holds(s, k + 1, user)
      BY <3>1, CountedIsRead
    <3> QED
      BY <1>1, <3>2, Zenon DEF k
  <2>3. CountedEnd(s, R + U + 7) = R + U + 7 + 1 + P /\ Holds(s, R + U + 7 + 1, pwd)
    <3> DEFINE k == R + U + 7
    <3>1. k \in Nat /\ Holds(s, k, Counted(pwd)) /\ s \in Seq(Nat) /\ pwd \in Seq(Nat)
      BY <1>1, <1>3, <1>4
    <3> HIDE DEF k
    <3>2. CountedEnd(s, k) = k + 1 + Len(pwd) /\ Holds(s, k + 1, pwd)
      BY <3>1, CountedIsRead
    <3> QED
      BY <1>1, <3>2, Zenon DEF k
  <2>4. /\ 4 + 1 = 5 /\ 4 + 1 + R = R + 5 /\ R + 6 + 1 = R + 7 /\ R + 6 + 1 + U = R + U + 7
        /\ R + U + 7 + 1 = R + U + 8 /\ R + U + 7 + 1 + P = R + U + P + 8
    OBVIOUS
  <2> QED
    BY <2>1, <2>2, <2>3, <2>4
<1>13. /\ s[R + 6] = p2[1] /\ s[R + U + P + 9] = p5[1] /\ s[R + U + P + 10] = A
       /\ s[R + U + P + A + 11] = p7[1] /\ s[R + U + P + A + 12] = p7[2]
  <2>1. s[(R + 5) + 1] = p2[1]
    BY <1>2, <1>5 DEF Holds
  <2>2. s[(R + U + P + 8) + 1] = p5[1] /\ s[(R + U + P + 8) + 2] = p5[2]
    BY <1>2, <1>5 DEF Holds
  <2>3. s[(R + U + P + A + 10) + 1] = p7[1] /\ s[(R + U + P + A + 10) + 2] = p7[2]
    BY <1>2, <1>5 DEF Holds
  <2>4. /\ (R + 5) + 1 = R + 6 /\ (R + U + P + 8) + 1 = R + U + P + 9
        /\ (R + U + P + 8) + 2 = R + U + P + 10
        /\ (R + U + P + A + 10) + 1 = R + U + P + A + 11
        /\ (R + U + P + A + 10) + 2 = R + U + P + A + 12
    OBVIOUS
  <2> QED
    BY <2>1, <2>2, <2>3, <2>4
<1> DEFINE at == AuthFields(s)
<1>14. /\ at.rnd = R + 5 /\ at.user = R + U + 7 /\ at.pwd = R + U + P + 8
       /\ at.addr = R + U + P + A + 10 /\ at.port = R + U + P + A + 12
  <2>1. (R + 5) + 1 = R + 6
    OBVIOUS
  <2>2. CountedEnd(s, (R + U + P + 8) + 1) = R + U + P + A + 10
    <3>1. (R + U + P + 8) + 1 < Len(s) /\ (R + U + P + 8) + 1 + 1 = R + U + P + 10
      <4>1. Len(s) = R + U + P + A + 12 /\ R \in Nat /\ U \in Nat /\ P \in Nat /\ A \in Nat
        BY <1>3
      <4> QED
        BY <4>1
    <3>2. (R + U + P + 8) + 1 + 1 + A = R + U + P + A + 10
      OBVIOUS
    <3> QED
      BY <1>13, <3>1, <3>2 DEF CountedEnd
  <2>3. R + U + P + A + 10 + 2 = R + U + P + A + 12
    OBVIOUS
  <2> QED
    BY <1>12, <2>1, <2>2, <2>3 DEF AuthFields
<1> HIDE DEF at
<1>15. /\ SubSeq(s, 6, R + 5) = rnd
       /\ SubSeq(s, (R + 5) + 3, R + U + 7) = user
       /\ SubSeq(s, (R + U + 7) + 2, R + U + P + 8) = pwd
       /\ SubSeq(s, (R + U + P + 8) + 3, R + U + P + A + 10) = addr
  <2>1. /\ 5 \in Nat /\ R + 7 \in Nat /\ R + U + 8 \in Nat
        /\ 5 + 1 = 6 /\ 5 + R = R + 5
        /\ (R + 7) + 1 = (R + 5) + 3 /\ (R + 7) + U = R + U + 7
        /\ (R + U + 8) + 1 = (R + U + 7) + 2 /\ (R + U + 8) + P = R + U + P + 8
        /\ (R + U + P + 10) + 1 = (R + U + P + 8) + 3
        /\ (R + U + P + 10) + A = R + U + P + A + 10 /\ R + U + P + 10 \in Nat
    OBVIOUS
  <2>2. SubSeq(s, 5 + 1, 5 + R) = rnd
    BY <1>1, <1>3, <1>12, <2>1, HoldsIsRead, Zenon
  <2>3. SubSeq(s, (R + 7) + 1, (R + 7) + U) = user
    BY <1>1, <1>3, <1>12, <2>1, HoldsIsRead, Zenon
  <2>4. SubSeq(s, (R + U + 8) + 1, (R + U + 8) + P) = pwd
    BY <1>1, <1>3, <1>12, <2>1, HoldsIsRead, Zenon
  <2>5. SubSeq(s, (R + U + P + 10) + 1, (R + U + P + 10) + A) = addr
    <3> DEFINE k == R + U + P + 10
    <3>1. k \in Nat /\ Holds(s, k, addr) /\ s \in Seq(Nat) /\ addr \in Seq(Nat)
      BY <1>1, <1>3, <1>6
    <3> HIDE DEF k
    <3>2. SubSeq(s, k + 1, k + Len(addr)) = addr
      BY <3>1, HoldsIsRead
    <3> QED
      BY <1>1, <3>2, Zenon DEF k
  <2> QED
    BY <2>1, <2>2, <2>3, <2>4, <2>5
<1>16. AuthDecode(s) = AuthMsgOf(s)
  <2>1. ~(at.port > Len(s))
    BY <1>3, <1>14
  <2> QED
    BY <2>1 DEF AuthDecode, at
<1> DEFINE d == AuthMsgOf(s)
<1>17. /\ d.ok /\ d.total = Signed(s[1])
       /\ d.rndChar = SubSeq(s, 6, at.rnd) /\ d.type = s[at.rnd + 1]
       /\ d.user = SubSeq(s, at.rnd + 3, at.user) /\ d.pwd = SubSeq(s, at.user + 2, at.pwd)
       /\ d.addrType = s[at.pwd + 1] /\ d.addrLen = s[at.pwd + 2]
       /\ d.addr = SubSeq(s, at.pwd + 3, at.addr)
       /\ d.port = 256 * s[at.addr + 1] + s[at.addr + 2]
  BY DEF AuthMsgOf, at
<1> HIDE DEF d
<1>18. /\ (R + 5) + 1 = R + 6 /\ (R + U + P + 8) + 1 = R + U + P + 9
       /\ (R + U + P + 8) + 2 = R + U + P + 10
       /\ (R + U + P + A + 10) + 1 = R + U + P + A + 11
       /\ (R + U + P + A + 10) + 2 = R + U + P + A + 12
  OBVIOUS
<1>19. /\ d.ok /\ d.total = 0 /\ d.rndChar = rnd /\ d.type = p2[1]
       /\ d.user = user /\ d.pwd = pwd
       /\ d.addrType = p5[1] /\ d.addrLen = A /\ d.addr = addr
       /\ d.port = NumberIn(p7)
  <2>1. Signed(s[1]) = 0
    <3>1. s[1] = 0 /\ Signed(0) = 0
      BY <1>3 DEF Signed
    <3> QED
      BY <3>1, Zenon
  <2>2. d.rndChar = rnd /\ d.user = user /\ d.pwd = pwd /\ d.addr = addr
    <3>1. d.rndChar = SubSeq(s, 6, R + 5) /\ d.user = SubSeq(s, (R + 5) + 3, R + U + 7)
      BY <1>14, <1>17, Zenon
    <3>2. d.pwd = SubSeq(s, (R + U + 7) + 2, R + U + P + 8)
      BY <1>14, <1>17, Zenon
    <3>3. d.addr = SubSeq(s, (R + U + P + 8) + 3, R + U + P + A + 10)
      BY <1>14, <1>17, Zenon
    <3> QED
      BY <1>15, <3>1, <3>2, <3>3, Zenon
  <2>3. /\ at.rnd + 1 = R + 6
        /\ at.pwd + 1 = R + U + P + 9 /\ at.pwd + 2 = R + U + P + 10
        /\ at.addr + 1 = R + U + P + A + 11 /\ at.addr + 2 = R + U + P + A + 12
    BY <1>14, <1>18, Zenon
  <2>4. d.type = s[R + 6] /\ d.addrType = s[R + U + P + 9] /\ d.addrLen = s[R + U + P + 10]
    BY <1>17, <2>3, Zenon
  <2>5. d.port = 256 * s[at.addr + 1] + s[at.addr + 2]
    BY <1>17
  <2>6. d.type = p2[1] /\ d.addrType = p5[1] /\ d.addrLen = A
    BY <1>13, <2>4, Zenon
  <2>7. d.port = NumberIn(p7)
    <3>1. s[at.addr + 1] = p7[1] /\ s[at.addr + 2] = p7[2]
      BY <1>13, <2>3, Zenon
    <3> QED
      BY <2>5, <3>1 DEF NumberIn
  <2> QED
    BY <1>17, <2>1, <2>2, <2>6, <2>7, Zenon
<1> QED
  BY <1>3, <1>14, <1>16, <1>19 DEF at, d

\* What AuthDecode makes of an encoded AuthMsg: the message.
LEMMA AuthRoundTrip ==
    ASSUME NEW m, m.user \in Seq(Nat), m.pwd \in Seq(Nat), m.addr \in Seq(Nat),
           m.addrType \in Nat, m.addrLen = Len(m.addr), m.port \in Nat,
           CredentialsSized(m), NEW rnd \in Seq(Nat)
    PROVE  LET s == Framed(AuthEncode(m, rnd))
               d == AuthDecode(s)
           IN  /\ s \in Seq(Nat) /\ AuthFields(s).port = Len(s)
               /\ d.ok /\ d.total = 0 /\ d.rndChar = rnd /\ d.type = 1
               /\ d.user = m.user /\ d.pwd = m.pwd
               /\ d.addrType = m.addrType /\ d.addrLen = m.addrLen /\ d.addr = m.addr
               /\ d.port = m.port
<1> DEFINE p2 == <<1>>
           p5 == <<m.addrType, m.addrLen>>
           p7 == Short(m.port)
           s == AuthBytes(rnd, p2, m.user, m.pwd, p5, m.addr, p7)
           d == AuthDecode(s)
<1>1. /\ Len(rnd) \in Nat /\ Len(m.user) \in Nat /\ Len(m.pwd) \in Nat
      /\ Len(m.addr) \in Nat
  BY LenProperties
<1>2. p2 \in Seq(Nat) /\ Len(p2) = 1 /\ p2[1] = 1
  OBVIOUS
<1>3. p5 \in Seq(Nat) /\ Len(p5) = 2 /\ p5[1] = m.addrType /\ p5[2] = m.addrLen
  <2> DEFINE t == m.addrType
             n == m.addrLen
  <2>1. t \in Nat /\ n \in Nat
    BY <1>1
  <2> HIDE DEF t, n
  <2>2. <<t, n>> \in Seq(Nat) /\ Len(<<t, n>>) = 2 /\ <<t, n>>[1] = t /\ <<t, n>>[2] = n
    BY <2>1
  <2> QED
    BY <2>2 DEF t, n
<1>4. p7 \in Seq(Nat) /\ Len(p7) = 2 /\ NumberIn(p7) = m.port
  <2> DEFINE k == m.port
  <2>1. k \in Nat
    OBVIOUS
  <2> HIDE DEF k
  <2>2. Short(k) \in Seq(Nat) /\ Len(Short(k)) = 2 /\ NumberIn(Short(k)) = k
    BY <2>1, ShortIsRead, Zenon
  <2> QED
    BY <2>2 DEF k
<1>5. Framed(AuthEncode(m, rnd)) = s
  BY DEF AuthEncode, AuthBytes
<1> HIDE DEF p2, p5, p7, d, s
<1>6. PICK R \in Nat, U \in Nat, P \in Nat, A \in Nat :
        R = Len(rnd) /\ U = Len(m.user) /\ P = Len(m.pwd) /\ A = Len(m.addr)
  BY <1>1
<1>7. AuthPieces(rnd, p2, m.user, m.pwd, p5, m.addr, p7, R, U, P, A)
  BY <1>2, <1>3, <1>4, <1>6 DEF AuthPieces
<1>8. AuthPlaces(s, rnd, p2, m.user, m.pwd, p5, m.addr, p7, R, U, P, A)
  BY <1>7, AuthLaidOut DEF s
<1>9. p5[2] = A
  BY <1>3, <1>6
<1>10. /\ AuthFields(s).port = Len(s)
       /\ d.ok /\ d.total = 0 /\ d.rndChar = rnd /\ d.type = p2[1]
       /\ d.user = m.user /\ d.pwd = m.pwd
       /\ d.addrType = p5[1] /\ d.addrLen = A /\ d.addr = m.addr
       /\ d.port = NumberIn(p7)
  BY <1>7, <1>8, <1>9, AuthRead DEF d
<1>11. s \in Seq(Nat)
  BY <1>8 DEF AuthPlaces
<1>12. /\ d.type = 1 /\ d.addrType = m.addrType /\ d.addrLen = m.addrLen /\ d.port = m.port
  <2>1. A = m.addrLen
    BY <1>6
  <2> QED
    BY <1>2, <1>3, <1>4, <1>10, <2>1, Zenon
<1>13. d = AuthDecode(s)
  BY DEF d
<1> QED
  BY <1>5, <1>10, <1>11, <1>12, <1>13, Zenon

\* Of name or password of another size nothing is sent but the size, 0.
LEMMA NothingSent ==
    ASSUME NEW m, ~CredentialsSized(m), NEW rnd
    PROVE  LET s == Framed(AuthEncode(m, rnd))
           IN  s \in Seq(Nat) /\ AuthFields(s).port >= Len(s) /\ ~AuthDecode(s).ok
<1> DEFINE s == Framed(AuthEncode(m, rnd))
<1>1. s \in Seq(Nat) /\ Len(s) = 4
  <2> DEFINE e == AuthEncode(m, rnd)
  <2>1. e = <<>>
    BY DEF AuthEncode
  <2>2. e \in Seq(Nat) /\ Len(e) = 0
    BY <2>1
  <2> HIDE DEF e
  <2>3. Framed(e) \in Seq(Nat) /\ Len(Framed(e)) = 4 + Len(e)
    BY <2>2, FramedHolds
  <2> QED
    BY <2>2, <2>3 DEF e
<1> HIDE DEF s
<1>2. CountedEnd(s, 4) = 5 /\ CountedEnd(s, 5 + 1) = 5 /\ CountedEnd(s, 5) = 5
  BY <1>1 DEF CountedEnd
<1>3. AuthFields(s).port = 5 + 2
  BY <1>2 DEF AuthFields
<1>4. AuthDecode(s) = Refused
  BY <1>1, <1>3 DEF AuthDecode
<1> QED
  BY <1>1, <1>3, <1>4 DEF s, Refused

\* What is read of a message that is cut off is as in the whole, or behind
\* the cut.
LEMMA CutEnd ==
    ASSUME NEW s \in Seq(Nat), NEW n \in 0..Len(s),
           NEW k \in Nat, NEW j \in Nat, j = k \/ j > n
    PROVE  LET p == SubSeq(s, 1, n)
           IN  /\ CountedEnd(p, j) \in Nat /\ CountedEnd(s, k) \in Nat
               /\ CountedEnd(p, j) = CountedEnd(s, k) \/ CountedEnd(p, j) > n
<1> DEFINE p == SubSeq(s, 1, n)
<1>1. Len(s) \in Nat /\ n \in Nat
  BY LenProperties
<1>2. Len(p) = n /\ \A i \in 1..n : p[i] = s[i]
  BY <1>1
<1>3. \A i \in 1..Len(s) : s[i] \in Nat
  BY ElementOfSeq
<1> HIDE DEF p
<1>4. CountedEnd(s, k) \in Nat
  <2>1. k < Len(s) => s[k + 1] \in Nat
    BY <1>1, <1>3
  <2> QED
    BY <1>1, <2>1 DEF CountedEnd
<1>5. CASE j < n
  <2>1. j = k /\ p[k + 1] = s[k + 1] /\ k < Len(s) /\ k < Len(p)
    BY <1>1, <1>2, <1>5
  <2>2. CountedEnd(p, j) = CountedEnd(s, k)
    BY <2>1 DEF CountedEnd
  <2> QED
    BY <1>4, <2>2 DEF p
<1>6. CASE ~(j < n)
  <2>1. CountedEnd(p, j) = n + 1
    BY <1>2, <1>6 DEF CountedEnd
  <2> QED
    BY <1>1, <1>4, <2>1 DEF p
<1> QED
  BY <1>5, <1>6

\* A message whose last field ends where it ends is not decoded in part.
LEMMA CutAuthIsRefused ==
    ASSUME NEW s \in Seq(Nat), AuthFields(s).port >= Len(s), NEW n \in 0..(Len(s) - 1)
    PROVE  ~AuthDecode(SubSeq(s, 1, n)).ok
<1> DEFINE p == SubSeq(s, 1, n)
           Near(j, k) == j \in Nat /\ k \in Nat /\ (j = k \/ j > n)
<1>1. Len(s) \in Nat /\ n \in 0..Len(s) /\ n \in Nat
  BY LenProperties
<1>2. Len(p) = n
  BY <1>1
<1>3. \A j, k : Near(j, k) => Near(CountedEnd(p, j), CountedEnd(s, k))
  BY <1>1, CutEnd
<1>4. \A j, k : Near(j, k) => Near(j + 1, k + 1)
  BY <1>1
<1> HIDE DEF p
<1>5. Near(4, 4)
  OBVIOUS
<1> HIDE DEF Near
<1> DEFINE rEnd == CountedEnd(p, 4)
           rWas == CountedEnd(s, 4)
           uEnd == CountedEnd(p, rEnd + 1)
           uWas == CountedEnd(s, rWas + 1)
           wEnd == CountedEnd(p, uEnd)
           wWas == CountedEnd(s, uWas)
           aEnd == CountedEnd(p, wEnd + 1)
           aWas == CountedEnd(s, wWas + 1)
<1>6. Near(rEnd, rWas)
  BY <1>3, <1>5, Zenon
<1>7. Near(uEnd, uWas)
  BY <1>3, <1>4, <1>6, Zenon
<1>8. Near(wEnd, wWas)
  BY <1>3, <1>7, Zenon
<1>9. Near(aEnd, aWas)
  BY <1>3, <1>4, <1>8, Zenon
<1>10. AuthFields(s).port = aWas + 2 /\ AuthFields(p).port = aEnd + 2
  BY DEF AuthFields
<1> HIDE DEF aEnd, aWas
<1>11. AuthFields(p).port > Len(p)
  <2>1. aEnd \in Nat /\ aWas \in Nat /\ (aEnd = aWas \/ aEnd > n)
    BY <1>9 DEF Near
  <2>2. aWas + 2 >= Len(s) /\ n < Len(s)
    BY <1>1, <1>10
  <2>3. aEnd + 2 > n
    BY <1>1, <2>1, <2>2
  <2> QED
    BY <1>2, <1>10, <2>3
<1>12. AuthDecode(p) = Refused
  BY <1>11 DEF AuthDecode
<1> QED
  BY <1>12 DEF p, Refused

-----------------------------------------------------------------------------
(***************************************************************************)
(* What DataDecode makes of an encoded DataMsg: the data.                  *)
(***************************************************************************)
DataBytes(rnd, p2, crc, p4, data) == Framed(Counted(rnd) \o p2 \o crc \o p4 \o data)

\* The padding and its size, the type p2, the check sum, the size p4, the data.
DataPieces(rnd, p2, crc, p4, data, R, D) ==
    /\ rnd \in Seq(Nat) /\ crc \in Seq(Nat) /\ data \in Seq(Nat)
    /\ p2 \in Seq(Nat) /\ p4 \in Seq(Nat)
    /\ R = Len(rnd) /\ D = Len(data)
    /\ Len(p2) = 1 /\ Len(crc) = 4 /\ Len(p4) = 2

DataPlaces(s, rnd, p2, crc, p4, data, R, D) ==
    /\ s \in Seq(Nat) /\ Len(s) = R + 12 + D /\ s[1] = 0
    /\ Holds(s, 4, Counted(rnd)) /\ Holds(s, R + 5, p2) /\ Holds(s, R + 6, crc)
    /\ Holds(s, R + 10, p4) /\ Holds(s, R + 12, data)

LEMMA DataLaidOut ==
    ASSUME NEW rnd, NEW p2, NEW crc, NEW p4, NEW data, NEW R \in Nat, NEW D \in Nat,
           DataPieces(rnd, p2, crc, p4, data, R, D)
    PROVE  DataPlaces(DataBytes(rnd, p2, crc, p4, data), rnd, p2, crc, p4, data, R, D)
<1> DEFINE q1 == Counted(rnd)
           body == q1 \o p2 \o crc \o p4 \o data
           s == Framed(body)
           Within(x, k, y) == \A n \in Nat, p \in Seq(Nat) : Holds(x, n, p) => Holds(y, k + n, p)
<1>1. /\ rnd \in Seq(Nat) /\ crc \in Seq(Nat) /\ data \in Seq(Nat)
      /\ p2 \in Seq(Nat) /\ p4 \in Seq(Nat)
      /\ R = Len(rnd) /\ D = Len(data)
      /\ Len(p2) = 1 /\ Len(crc) = 4 /\ Len(p4) = 2
  BY DEF DataPieces
<1>2. q1 \in Seq(Nat) /\ Len(q1) = R + 1
  BY <1>1, CountedIsRead
<1> HIDE DEF q1
<1>3. FiveIn(body, q1, p2, crc, p4, data)
  BY <1>1, <1>2, FivePieces
<1> HIDE DEF body
<1>4. /\ body \in Seq(Nat) /\ Len(body) = (R + 1) + 1 + 4 + 2 + D
      /\ Holds(body, 0, q1) /\ Holds(body, R + 1, p2) /\ Holds(body, (R + 1) + 1, crc)
      /\ Holds(body, (R + 1) + 1 + 4, p4) /\ Holds(body, (R + 1) + 1 + 4 + 2, data)
  BY <1>1, <1>2, <1>3, Zenon DEF FiveIn
<1>5. /\ s \in Seq(Nat) /\ Len(s) = 4 + Len(body) /\ s[1] = 0 /\ Holds(s, 4, body)
      /\ Within(body, 4, s)
  <2>1. s \in Seq(Nat) /\ Len(s) = 4 + Len(body) /\ s[1] = 0 /\ Holds(s, 4, body)
    BY <1>4, FramedHolds
  <2> HIDE DEF s
  <2>2. Within(body, 4, s)
    BY <1>4, <2>1, HoldsWithin
  <2> QED
    BY <2>1, <2>2
<1> HIDE DEF s, Within
<1>6. /\ 0 \in Nat /\ R + 1 \in Nat /\ (R + 1) + 1 \in Nat /\ (R + 1) + 1 + 4 \in Nat
      /\ (R + 1) + 1 + 4 + 2 \in Nat
  OBVIOUS
<1>7. /\ Holds(s, 4 + 0, q1) /\ Holds(s, 4 + (R + 1), p2) /\ Holds(s, 4 + ((R + 1) + 1), crc)
      /\ Holds(s, 4 + ((R + 1) + 1 + 4), p4) /\ Holds(s, 4 + ((R + 1) + 1 + 4 + 2), data)
  BY <1>1, <1>2, <1>4, <1>5, <1>6, Zenon DEF Within
<1>8. /\ 4 + 0 = 4 /\ 4 + (R + 1) = R + 5 /\ 4 + ((R + 1) + 1) = R + 6
      /\ 4 + ((R + 1) + 1 + 4) = R + 10 /\ 4 + ((R + 1) + 1 + 4 + 2) = R + 12
      /\ 4 + ((R + 1) + 1 + 4 + 2 + D) = R + 12 + D
  OBVIOUS
<1> QED
  BY <1>4, <1>5, <1>7, <1>8 DEF s, body, q1, DataPlaces, DataBytes

\* What DataDecode reads there.
LEMMA DataRead ==
    ASSUME NEW rnd, NEW p2, NEW crc, NEW p4, NEW data, NEW R \in Nat, NEW D \in Nat, NEW s,
           DataPieces(rnd, p2, crc, p4, data, R, D), SignedShort(p4[1], p4[2]) = D,
           DataPlaces(s, rnd, p2, crc, p4, data, R, D)
    PROVE  LET d == DataDecode(s)
           IN  /\ d.ok /\ d.total = 0 /\ d.rndChar = rnd /\ d.type = p2[1]
               /\ d.dataCheck = crc /\ d.data = data
               /\ CountedEnd(s, 4) = R + 5 /\ s[R + 11] = p4[1] /\ s[R + 12] = p4[2]
<1>1. /\ rnd \in Seq(Nat) /\ crc \in Seq(Nat) /\ data \in Seq(Nat)
      /\ R = Len(rnd) /\ D = Len(data) /\ Len(p2) = 1 /\ Len(crc) = 4 /\ Len(p4) = 2
  BY DEF DataPieces
<1>2. s \in Seq(Nat) /\ Len(s) = R + 12 + D /\ s[1] = 0
  BY DEF DataPlaces
<1>3. /\ Holds(s, 4, Counted(rnd)) /\ Holds(s, R + 5, p2) /\ Holds(s, R + 6, crc)
      /\ Holds(s, R + 10, p4) /\ Holds(s, R + 12, data)
  BY DEF DataPlaces
<1>4. CountedEnd(s, 4) = R + 5 /\ Holds(s, 5, rnd)
  <2>1. CountedEnd(s, 4) = 4 + 1 + R /\ Holds(s, 4 + 1, rnd)
    <3>1. 4 \in Nat
      OBVIOUS
    <3> QED
      BY <1>1, <1>2, <1>3, <3>1, CountedIsRead, Zenon
  <2> QED
    BY <2>1
<1>5. s[R + 6] = p2[1] /\ s[R + 11] = p4[1] /\ s[R + 12] = p4[2]
  <2>1. s[(R + 5) + 1] = p2[1] /\ s[(R + 10) + 1] = p4[1] /\ s[(R + 10) + 2] = p4[2]
    BY <1>1, <1>3 DEF Holds
  <2>2. (R + 5) + 1 = R + 6 /\ (R + 10) + 1 = R + 11 /\ (R + 10) + 2 = R + 12
    OBVIOUS
  <2> QED
    BY <2>1, <2>2, Zenon
<1>6. /\ SubSeq(s, 6, R + 5) = rnd /\ SubSeq(s, (R + 5) + 2, (R + 5) + 5) = crc
      /\ SubSeq(s, (R + 12) + 1, (R + 12) + D) = data
  <2>1. /\ 5 \in Nat /\ R + 6 \in Nat /\ R + 12 \in Nat
        /\ 5 + 1 = 6 /\ 5 + R = R + 5
        /\ (R + 6) + 1 = (R + 5) + 2 /\ (R + 6) + 4 = (R + 5) + 5
    OBVIOUS
  <2>2. SubSeq(s, 5 + 1, 5 + Len(rnd)) = rnd
    BY <1>1, <1>2, <1>4, <2>1, HoldsIsRead, Zenon
  <2>3. SubSeq(s, (R + 6) + 1, (R + 6) + Len(crc)) = crc
    BY <1>1, <1>2, <1>3, <2>1, HoldsIsRead, Zenon
  <2>4. SubSeq(s, (R + 12) + 1, (R + 12) + Len(data)) = data
    BY <1>1, <1>2, <1>3, <2>1, HoldsIsRead, Zenon
  <2> QED
    BY <1>1, <2>1, <2>2, <2>3, <2>4, Zenon
<1> DEFINE end == CountedEnd(s, 4)
           head == end + 7
           size == SignedShort(s[head - 1], s[head])
<1>7. head = R + 12 /\ size = D
  <2>1. head = R + 12 /\ head - 1 = R + 11
    BY <1>4
  <2> HIDE DEF head
  <2>2. s[head - 1] = p4[1] /\ s[head] = p4[2]
    BY <1>5, <2>1, Zenon
  <2> QED
    BY <2>1, <2>2
<1> HIDE DEF head
<1>8. ~(head > Len(s) \/ head + size \notin 0..Len(s))
  <2> HIDE DEF size
  <2> QED
    BY <1>2, <1>7
<1> DEFINE d == DataDecode(s)
<1>9. /\ d.ok /\ d.total = Signed(s[1]) /\ d.rndChar = SubSeq(s, 6, end)
      /\ d.type = s[end + 1] /\ d.dataCheck = SubSeq(s, end + 2, end + 5)
      /\ d.data = SubSeq(s, head + 1, head + size)
  <2> HIDE DEF size
  <2>1. DataDecode(s) =
          [ok |-> TRUE, total |-> Signed(s[1]), rndChar |-> SubSeq(s, 6, end),
           type |-> s[end + 1], dataCheck |-> SubSeq(s, end + 2, end + 5),
           thrown |-> size < 0, data |-> SubSeq(s, head + 1, head + size)]
    BY <1>8, Zenon DEF DataDecode, head, size
  <2> HIDE DEF end
  <2>2. d = [ok |-> TRUE, total |-> Signed(s[1]), rndChar |-> SubSeq(s, 6, end),
             type |-> s[end + 1], dataCheck |-> SubSeq(s, end + 2, end + 5),
             thrown |-> size < 0, data |-> SubSeq(s, head + 1, head + size)]
    BY <2>1
  <2> HIDE DEF d
  <2> QED
    BY <2>2, Zenon
<1> HIDE DEF d, end, size
<1>10. d.total = 0
  <2>1. s[1] = 0 /\ Signed(0) = 0
    BY <1>2 DEF Signed
  <2> QED
    BY <1>9, <2>1, Zenon
<1>11. d.rndChar = rnd /\ d.dataCheck = crc
  <2>1. end = R + 5
    BY <1>4 DEF end
  <2> QED
    BY <1>6, <1>9, <2>1, Zenon
<1>12. d.type = p2[1]
  <2>1. end + 1 = R + 6
    BY <1>4 DEF end
  <2> QED
    BY <1>5, <1>9, <2>1, Zenon
<1>13. d.data = data
  BY <1>6, <1>7, <1>9, Zenon
<1> QED
  BY <1>4, <1>5, <1>9, <1>10, <1>11, <1>12, <1>13 DEF d

DataFits(data, rnd) ==
    /\ data \in Seq(Nat) /\ Sized(data, 0, 4096)
    /\ rnd \in Seq(Nat) /\ Sized(rnd, 5, 10)
    /\ Crc(data) \in Seq(Nat) /\ Len(Crc(data)) = 4

\* A DataMsg of whatever padding and data is decoded and accepted, and its
\* data is what was encoded; cut off anywhere it is refused.
LEMMA DataRoundTrip ==
    ASSUME NEW data, NEW rnd, DataFits(data, rnd)
    PROVE  LET s == Framed(DataEncode(data, rnd))
               d == DataDecode(s)
           IN  /\ d.ok /\ DataCheck(d) /\ d.data = data
               /\ \A n \in 0..(Len(s) - 1) : ~DataDecode(SubSeq(s, 1, n)).ok
<1> DEFINE p2 == <<2>>
           crc == Crc(data)
           p4 == Short(Len(data))
           s == DataBytes(rnd, p2, crc, p4, data)
           d == DataDecode(s)
<1>1. p2 \in Seq(Nat) /\ Len(p2) = 1 /\ p2[1] = 2
  OBVIOUS
<1>2. /\ crc \in Seq(Nat) /\ Len(crc) = 4
      /\ data \in Seq(Nat) /\ rnd \in Seq(Nat) /\ Sized(rnd, 5, 10)
  BY DEF DataFits
<1>3. PICK R \in Nat, D \in Nat : R = Len(rnd) /\ D = Len(data)
  BY <1>2, LenProperties
<1>4. p4 \in Seq(Nat) /\ Len(p4) = 2 /\ SignedShort(p4[1], p4[2]) = D
  <2>1. D <= 32767
    <3>1. D <= 4096
      BY <1>3 DEF Sized, DataFits
    <3> QED
      BY <3>1
  <2>2. Short(D) \in Seq(Nat) /\ Len(Short(D)) = 2
    BY ShortIsRead
  <2>3. SignedShort(Short(D)[1], Short(D)[2]) = D
    BY <2>1, SmallShortIsRead
  <2> QED
    BY <1>3, <2>2, <2>3, Zenon
<1>5. Framed(DataEncode(data, rnd)) = s
  <2>1. Sized(data, 0, 4096)
    BY DEF DataFits
  <2> QED
    BY <2>1 DEF DataEncode, DataBytes
<1> HIDE DEF p2, crc, p4, s, d
<1>6. DataPieces(rnd, p2, crc, p4, data, R, D)
  BY <1>1, <1>2, <1>3, <1>4 DEF DataPieces
<1>7. DataPlaces(s, rnd, p2, crc, p4, data, R, D)
  BY <1>6, DataLaidOut DEF s
<1>8. /\ d.ok /\ d.total = 0 /\ d.rndChar = rnd /\ d.type = p2[1]
      /\ d.dataCheck = crc /\ d.data = data
      /\ CountedEnd(s, 4) = R + 5 /\ s[R + 11] = p4[1] /\ s[R + 12] = p4[2]
  BY <1>4, <1>6, <1>7, DataRead DEF d
<1>9. DataCheck(d)
  <2>1. Sized(d.rndChar, 5, 10) /\ d.total >= 0
    BY <1>2, <1>8
  <2>2. Sized(data, 0, 8096)
    BY <1>3 DEF Sized, DataFits
  <2>3. d.type = 2 /\ Sized(d.data, 0, 8096)
    BY <1>1, <1>8, <2>2
  <2>4. d.dataCheck = Crc(d.data)
    BY <1>8, Zenon DEF crc
  <2> QED
    BY <2>1, <2>3, <2>4 DEF DataCheck
<1>10. ASSUME NEW n \in 0..(Len(s) - 1)
       PROVE  DataDecode(SubSeq(s, 1, n)) = Refused
  <2> DEFINE p == SubSeq(s, 1, n)
             end == CountedEnd(p, 4)
             head == end + 7
             size == SignedShort(p[head - 1], p[head])
  <2>1. s \in Seq(Nat) /\ Len(s) = R + 12 + D /\ n \in Nat /\ n < R + 12 + D /\ n \in 0..Len(s)
    BY <1>7 DEF DataPlaces
  <2>2. Len(p) = n /\ \A i \in 1..n : p[i] = s[i]
    BY <2>1
  <2>3. end \in Nat /\ (end = R + 5 \/ end > n)
    <3>1. 4 \in Nat
      OBVIOUS
    <3>2. CountedEnd(p, 4) \in Nat /\ (CountedEnd(p, 4) = CountedEnd(s, 4) \/ CountedEnd(p, 4) > n)
      BY <2>1, <3>1, CutEnd
    <3> QED
      BY <1>8, <3>2
  <2> HIDE DEF p, end
  <2>4. head <= n => head = R + 12 /\ size = D
    <3> SUFFICES ASSUME head <= n PROVE head = R + 12 /\ size = D
      OBVIOUS
    <3>1. end = R + 5
      BY <2>1, <2>3
    <3>2. head = R + 12 /\ head - 1 = R + 11
      BY <3>1
    <3>3. R + 11 \in 1..n /\ R + 12 \in 1..n
      BY <2>1, <3>2
    <3> HIDE DEF head
    <3>4. p[head - 1] = p4[1] /\ p[head] = p4[2]
      BY <1>8, <2>2, <3>2, <3>3, Zenon
    <3> QED
      BY <1>4, <3>2, <3>4, Zenon DEF size
  <2>5. head \in Nat
    BY <2>3
  <2> HIDE DEF head, size
  <2>6. head > Len(p) \/ head + size \notin 0..Len(p)
    <3>1. CASE head <= n
      <4>1. head + size = R + 12 + D
        BY <2>4, <3>1
      <4> QED
        BY <2>1, <2>2, <4>1
    <3>2. CASE ~(head <= n)
      BY <2>1, <2>2, <2>5, <3>2
    <3> QED
      BY <3>1, <3>2
  <2>7. DataDecode(p) = Refused
    BY <2>6, Zenon DEF DataDecode, head, size, end
  <2> QED
    BY <2>7 DEF p
<1>11. ~Refused.ok
  BY DEF Refused
<1> QED
  BY <1>5, <1>8, <1>9, <1>10, <1>11, Zenon DEF d

-----------------------------------------------------------------------------
(***************************************************************************)
(* Reading in parts: what is there completely is there at its last byte.   *)
(***************************************************************************)
LEMMA ByteIs ==
    ASSUME NEW b, b \in Byte
    PROVE  b \in Nat /\ b <= 255
BY DEF Byte

LEMMA BytesAre ==
    ASSUME NEW m \in Seq(Byte), NEW i \in 1..Len(m)
    PROVE  m[i] \in Nat /\ m[i] <= 255
<1>1. m[i] \in Byte
  BY ElementOfSeq
<1> QED
  BY <1>1, ByteIs

LEMMA SignedIs ==
    ASSUME NEW b \in Nat
    PROVE  /\ b <= 127 => Signed(b) = b
           /\ b > 127 => Signed(b) = b - 256
BY DEF Signed

LEMMA GreetingWhole ==
    ASSUME message \in Greetings
    PROVE  /\ \A total \in Nat : total <= Len(message) /\ GreetingThere(total) => total = Len(message)
           /\ ~GreetingThere(Len(message)) => message[2] > 127
           /\ Len(message) \in Nat /\ Len(message) = 2 + message[2] /\ message[2] \in Nat
           /\ ~GreetingThere(0)
<1>1. message \in Seq(Byte) /\ Len(message) >= 2 /\ Len(message) = 2 + message[2]
  <2>1. GreetingLaidOut(message)
    BY ClientAssumption, Zenon
  <2> QED
    BY <2>1, Zenon DEF GreetingLaidOut
<1>2. Len(message) \in Nat
  BY <1>1, LenProperties
<1>3. message[2] \in Nat /\ message[2] <= 255
  BY <1>1, <1>2, BytesAre
<1>4. \A total \in Nat : total >= 2 => Buf(total, 2) = message[2]
  BY DEF Buf
<1>5. ASSUME NEW total \in Nat, total <= Len(message), GreetingThere(total)
      PROVE  total = Len(message)
  <2>1. total >= 2 /\ Signed(message[2]) >= 0 /\ Signed(message[2]) <= total - 2
    BY <1>4, <1>5 DEF GreetingThere
  <2>2. Signed(message[2]) = message[2]
    BY <1>3, <2>1, SignedIs
  <2> QED
    BY <1>1, <1>2, <1>3, <1>5, <2>1, <2>2
<1>6. ASSUME ~GreetingThere(Len(message))
      PROVE  message[2] > 127
  <2> SUFFICES ASSUME message[2] <= 127 PROVE FALSE
    BY <1>3
  <2>1. Signed(message[2]) = message[2] /\ Buf(Len(message), 2) = message[2]
    BY <1>1, <1>2, <1>3, <1>4, SignedIs
  <2>2. Signed(Buf(Len(message), 2)) \in 0..(Len(message) - 2)
    BY <1>1, <1>3, <2>1
  <2> QED
    BY <1>1, <1>6, <2>2 DEF GreetingThere
<1>7. ~GreetingThere(0)
  BY DEF GreetingThere
<1> QED
  BY <1>1, <1>2, <1>3, <1>5, <1>6, <1>7

\* The sizes a request gives itself.
LEMMA RequestSizes ==
    ASSUME message \in Requests, NEW total \in Nat, total >= 5, total <= Len(message)
    PROVE  /\ AddrType(total) = message[4]
           /\ message[4] = 1 => TotalLen(total) = 10 /\ AddrLen(total) = 4
           /\ message[4] = 3 => /\ TotalLen(total) = 7 + Signed(message[5])
                                /\ AddrLen(total) = Signed(message[5])
           /\ message[4] = 4 => TotalLen(total) = 22 /\ AddrLen(total) = 16
<1>1. Buf(total, 4) = message[4] /\ Buf(total, 5) = message[5]
  BY DEF Buf
<1>2. AddrType(total) = message[4]
  BY <1>1 DEF AddrType
<1>3. CASE message[4] = 1
  BY <1>2, <1>3 DEF TotalLen, AddrLen
<1>4. CASE message[4] = 3
  <2>1. Signed(message[5]) \in Int
    <3>1. message \in Seq(Byte) /\ Len(message) >= 5
      <4>1. RequestLaidOut(message)
        BY ClientAssumption, Zenon
      <4> QED
        BY <4>1, Zenon DEF RequestLaidOut
    <3>2. message[5] \in Nat
      BY <3>1, LenProperties, BytesAre
    <3> QED
      BY <3>2 DEF Signed
  <2>2. TotalLen(total) = 4 + 1 + Signed(message[5]) + 2 /\ AddrLen(total) = Signed(message[5])
    BY <1>1, <1>2, <1>4 DEF TotalLen, AddrLen
  <2> QED
    BY <1>2, <1>4, <2>1, <2>2
<1>5. CASE message[4] = 4
  BY <1>2, <1>5 DEF TotalLen, AddrLen
<1> QED
  BY <1>2, <1>3, <1>4, <1>5

LEMMA RequestWhole ==
    ASSUME message \in Requests
    PROVE  /\ Len(message) \in Nat /\ Len(message) >= 5 /\ message \in Seq(Byte)
           /\ message[5] \in Nat /\ message[5] <= 255
           /\ \A total \in Nat : total <= Len(message) /\ RequestThere(total) =>
                 /\ message[4] \in {1, 3, 4} /\ AddrLen(total) \in Int
                 /\ AddrLen(total) >= 0 =>
                       /\ total = Len(message) /\ TotalLen(total) = Len(message)
                       /\ message[4] = 3 => AddrLen(total) = message[5] /\ message[5] <= 127
                 /\ AddrLen(total) < 0 => message[4] = 3 /\ message[5] > 248
           /\ \A total \in Nat : total <= Len(message) /\ RequestRefused(total) =>
                 message[4] \notin {1, 3, 4}
           /\ ~RequestThere(Len(message)) /\ ~RequestRefused(Len(message)) =>
                 message[4] = 3 /\ message[5] > 127
           /\ ~RequestThere(0) /\ ~RequestRefused(0)
<1>1. /\ message \in Seq(Byte) /\ Len(message) >= 5
      /\ message[4] = 1 => Len(message) = 10
      /\ message[4] = 3 => Len(message) = 7 + message[5]
      /\ message[4] = 4 => Len(message) = 22
  <2>1. RequestLaidOut(message)
    BY ClientAssumption, Zenon
  <2> QED
    BY <2>1, Zenon DEF RequestLaidOut
<1>2. Len(message) \in Nat
  BY <1>1, LenProperties
<1>3. message[5] \in Nat /\ message[5] <= 255
  BY <1>1, <1>2, BytesAre
<1>4. /\ message[5] <= 127 => Signed(message[5]) = message[5]
      /\ message[5] > 127 => Signed(message[5]) = message[5] - 256
  BY <1>3, SignedIs
<1>5. ASSUME NEW total \in Nat, total <= Len(message), RequestThere(total)
      PROVE  /\ message[4] \in {1, 3, 4} /\ AddrLen(total) \in Int
             /\ AddrLen(total) >= 0 =>
                   /\ total = Len(message) /\ TotalLen(total) = Len(message)
                   /\ message[4] = 3 => AddrLen(total) = message[5] /\ message[5] <= 127
             /\ AddrLen(total) < 0 => message[4] = 3 /\ message[5] > 248
  <2>1. total >= 5 /\ AddrType(total) \in {1, 3, 4} /\ TotalLen(total) \in 0..total
    BY <1>5 DEF RequestThere, KnownType
  <2>2. /\ AddrType(total) = message[4]
        /\ message[4] = 1 => TotalLen(total) = 10 /\ AddrLen(total) = 4
        /\ message[4] = 3 => /\ TotalLen(total) = 7 + Signed(message[5])
                             /\ AddrLen(total) = Signed(message[5])
        /\ message[4] = 4 => TotalLen(total) = 22 /\ AddrLen(total) = 16
    BY <1>5, <2>1, RequestSizes
  <2>3. CASE message[4] = 1
    <3>1. TotalLen(total) = 10 /\ Len(message) = 10 /\ AddrLen(total) = 4
      BY <1>1, <2>2, <2>3, Zenon
    <3>2. total = 10
      BY <1>5, <2>1, <3>1
    <3>3. AddrLen(total) \in Int /\ ~(AddrLen(total) < 0) /\ message[4] # 3
      BY <2>3, <3>1
    <3> QED
      BY <2>3, <3>1, <3>2, <3>3
  <2>4. CASE message[4] = 4
    <3>1. TotalLen(total) = 22 /\ Len(message) = 22 /\ AddrLen(total) = 16
      BY <1>1, <2>2, <2>4, Zenon
    <3>2. total = 22
      BY <1>5, <2>1, <3>1
    <3>3. AddrLen(total) \in Int /\ ~(AddrLen(total) < 0) /\ message[4] # 3
      BY <2>4, <3>1
    <3> QED
      BY <2>4, <3>1, <3>2, <3>3
  <2>5. CASE message[4] = 3
    <3> DEFINE b == message[5]
               n == TotalLen(total)
               a == AddrLen(total)
               l == Len(message)
    <3>0. l \in Nat /\ b \in Nat /\ b <= 255 /\ total \in Nat /\ total <= l /\ l = 7 + b
      BY <1>1, <1>2, <1>3, <1>5, <2>5
    <3> HIDE DEF b, n, a, l
    <3>1. CASE b <= 127
      <4>1. n = 7 + b /\ a = b /\ n <= total
        BY <1>4, <2>1, <2>2, <2>5, <3>1 DEF b, n, a
      <4>2. total = l /\ n = l /\ a >= 0 /\ a \in Int
        BY <3>0, <4>1
      <4> QED
        BY <2>5, <3>1, <4>1, <4>2, <3>0 DEF b, n, a, l
    <3>2. CASE b > 127
      <4>1. n = 7 + (b - 256) /\ a = b - 256 /\ n >= 0
        BY <1>4, <2>1, <2>2, <2>5, <3>2 DEF b, n, a
      <4>2. a < 0 /\ b > 248 /\ a \in Int
        BY <3>0, <4>1
      <4> QED
        BY <2>5, <4>2 DEF b, a
    <3> QED
      BY <3>0, <3>1, <3>2
  <2> QED
    BY <2>1, <2>2, <2>3, <2>4, <2>5
<1>6. ASSUME NEW total \in Nat, total <= Len(message), RequestRefused(total)
      PROVE  message[4] \notin {1, 3, 4}
  BY <1>6, RequestSizes DEF RequestRefused, KnownType
<1>7. ASSUME ~RequestThere(Len(message)), ~RequestRefused(Len(message))
      PROVE  message[4] = 3 /\ message[5] > 127
  <2> DEFINE L == Len(message)
  <2>1. L \in Nat /\ L >= 5 /\ L <= L
    BY <1>1, <1>2
  <2>2. /\ AddrType(L) = message[4]
        /\ message[4] = 1 => TotalLen(L) = 10
        /\ message[4] = 3 => TotalLen(L) = 7 + Signed(message[5])
        /\ message[4] = 4 => TotalLen(L) = 22
    BY <2>1, RequestSizes
  <2>3. AddrType(L) \in {1, 3, 4} /\ TotalLen(L) \notin 0..L
    BY <1>7, <2>1 DEF RequestThere, RequestRefused, KnownType
  <2>4. message[4] # 1 /\ message[4] # 4
    <3>1. ~(TotalLen(L) = L)
      BY <2>1, <2>3
    <3> QED
      BY <1>1, <2>2, <3>1, Zenon
  <2>5. message[4] = 3 /\ L = 7 + message[5] /\ TotalLen(L) = 7 + Signed(message[5])
    BY <1>1, <2>2, <2>3, <2>4
  <2>6. ~(message[5] <= 127)
    <3> SUFFICES ASSUME message[5] <= 127 PROVE FALSE
      OBVIOUS
    <3>1. TotalLen(L) = L
      BY <1>4, <2>5
    <3> QED
      BY <2>1, <2>3, <3>1
  <2> QED
    BY <1>3, <2>5, <2>6
<1>8. ~RequestThere(0) /\ ~RequestRefused(0)
  BY DEF RequestThere, RequestRefused
<1> QED
  BY <1>1, <1>2, <1>3, <1>5, <1>6, <1>7, <1>8

-----------------------------------------------------------------------------
(***************************************************************************)
(* The AuthMsg made of a request that is there.                            *)
(***************************************************************************)
WholeRequest ==
    /\ message \in Requests
    /\ RequestThere(Len(message)) /\ AddrLen(Len(message)) >= 0

\* HostAsked, of a request that has been read.
HostOf == IF message[4] = 3 THEN SubSeq(message, 6, 5 + message[5])
                            ELSE SubSeq(message, 5, Len(message) - 2)

AskedFor == AuthMsgFor(Len(message))

LEMMA AskedIs ==
    ASSUME WholeRequest, conf \in Setups
    PROVE  /\ AskedFor.user = User /\ AskedFor.user \in Seq(Nat)
           /\ AskedFor.pwd = Pwd /\ AskedFor.pwd \in Seq(Nat)
           /\ AskedFor.addrType = message[4] /\ message[4] \in {1, 3, 4}
           /\ AskedFor.addr = HostOf /\ HostOf \in Seq(Nat)
           /\ AskedFor.addrLen = Len(HostOf)
           /\ AskedFor.port = PortAsked /\ PortAsked \in Nat
           /\ Sized(HostOf, 0, 255)
           /\ SubSeq(HostOf, 1, Len(HostOf)) = HostOf
<1> DEFINE L == Len(message)
           n == AddrLen(L)
           k == AddrStart(L)
           b == message[5]
<1>1. /\ L \in Nat /\ L >= 5 /\ L <= L /\ message \in Seq(Byte) /\ b \in Nat /\ b <= 255
      /\ message[4] \in {1, 3, 4} /\ n \in Int /\ n >= 0 /\ TotalLen(L) = L
      /\ message[4] = 3 => n = b /\ b <= 127
  BY RequestWhole DEF WholeRequest
<1>2. /\ AddrType(L) = message[4]
      /\ message[4] = 1 => TotalLen(L) = 10 /\ n = 4
      /\ message[4] = 3 => TotalLen(L) = 7 + Signed(b) /\ n = Signed(b)
      /\ message[4] = 4 => TotalLen(L) = 22 /\ n = 16
  BY <1>1, RequestSizes DEF WholeRequest
<1>3. k = IF message[4] = 3 THEN 5 ELSE 4
  BY <1>2 DEF AddrStart
<1>4. message \in Seq(Nat)
  BY <1>1, ByteStrings
<1> HIDE DEF n, k, b, L
<1>5. k + n = L - 2 /\ k \in Nat /\ n \in Nat /\ n <= 255
  <2>1. CASE message[4] = 1
    BY <1>1, <1>2, <1>3, <2>1
  <2>2. CASE message[4] = 3
    <3>1. n = b /\ L = 7 + n /\ k = 5
      BY <1>1, <1>2, <1>3, <2>2
    <3> QED
      BY <1>1, <3>1
  <2>3. CASE message[4] = 4
    BY <1>1, <1>2, <1>3, <2>3
  <2> QED
    BY <1>1, <2>1, <2>2, <2>3
<1>6. HostOf = SubSeq(message, k + 1, k + n)
  <2>1. CASE message[4] = 3
    <3>1. k + 1 = 6 /\ k + n = 5 + b
      BY <1>1, <1>3, <2>1
    <3> QED
      BY <2>1, <3>1 DEF HostOf, b
  <2>2. CASE message[4] # 3
    <3>1. k + 1 = 5 /\ k + n = L - 2
      BY <1>3, <1>5, <2>2
    <3> QED
      BY <2>2, <3>1 DEF HostOf, L
  <2> QED
    BY <2>1, <2>2
<1>7. \A i \in (k + 1)..(k + n) : message[i] \in Nat
  <2> SUFFICES ASSUME NEW i \in (k + 1)..(k + n) PROVE message[i] \in Nat
    OBVIOUS
  <2>1. i \in 1..L
    BY <1>1, <1>5
  <2> QED
    BY <1>4, <2>1, ElementOfSeq DEF L
<1>8. /\ HostOf \in Seq(Nat) /\ Len(HostOf) = n
      /\ \A i \in 1..n : HostOf[i] = message[k + i]
  <2>1. k + 1 \in Int /\ k + n \in Int
    BY <1>5
  <2>2. /\ SubSeq(message, k + 1, k + n) \in Seq(Nat)
        /\ Len(SubSeq(message, k + 1, k + n)) =
              IF k + 1 <= k + n THEN (k + n) - (k + 1) + 1 ELSE 0
        /\ \A i \in 1..((k + n) - (k + 1) + 1) :
              SubSeq(message, k + 1, k + n)[i] = message[(k + 1) + i - 1]
    BY <1>4, <1>7, <2>1, SubSeqProperties
  <2>3. /\ (k + n) - (k + 1) + 1 = n
        /\ (IF k + 1 <= k + n THEN (k + n) - (k + 1) + 1 ELSE 0) = n
        /\ \A i \in 1..n : (k + 1) + i - 1 = k + i
    BY <1>5
  <2> QED
    BY <1>6, <2>2, <2>3, Zenon
<1>9. \A i \in 1..n : Buf(L, k + i) = message[k + i]
  <2>1. \A i \in 1..n : k + i <= L
    BY <1>1, <1>5
  <2> QED
    BY <2>1 DEF Buf
<1>10. AskedFor.addr = HostOf
  <2>1. AskedFor.addr = [i \in 1..n |-> Buf(L, k + i)]
    BY Zenon DEF AskedFor, AuthMsgFor, n, k, L
  <2>2. AskedFor.addr = [i \in 1..n |-> HostOf[i]]
    <3>1. \A i \in 1..n : Buf(L, k + i) = HostOf[i]
      BY <1>8, <1>9, Zenon
    <3> QED
      BY <2>1, <3>1
  <2>3. HostOf = [i \in 1..Len(HostOf) |-> HostOf[i]]
    BY <1>8
  <2> QED
    BY <1>8, <2>2, <2>3, Zenon
<1>11. /\ AskedFor.user = User /\ AskedFor.pwd = Pwd /\ AskedFor.addrType = AddrType(L)
       /\ AskedFor.addrLen = n /\ AskedFor.port = Port(L)
  BY Zenon DEF AskedFor, AuthMsgFor, n, k, L
<1>12. User \in Seq(Nat) /\ Pwd \in Seq(Nat)
  <2>1. User \in Seq(Byte) /\ Pwd \in Seq(Byte)
    BY SetupsAssumption, Zenon DEF User, Pwd
  <2> QED
    BY <2>1, ByteStrings
<1>13. Port(L) = PortAsked /\ PortAsked \in Nat
  <2>1. L - 1 \in 1..L /\ L \in 1..L
    BY <1>1
  <2>2. Buf(L, L - 1) = message[L - 1] /\ Buf(L, L) = message[L]
    BY <2>1 DEF Buf
  <2>3. message[L - 1] \in Nat /\ message[L] \in Nat
    BY <1>4, <2>1, ElementOfSeq DEF L
  <2>4. PortAsked = 256 * message[L - 1] + message[L]
    BY DEF PortAsked, L
  <2>5. Port(L) = 256 * message[L - 1] + message[L]
    BY <1>1, <2>2 DEF Port
  <2> QED
    BY <2>3, <2>4, <2>5
<1>14. Sized(HostOf, 0, 255)
  BY <1>5, <1>8 DEF Sized
<1>15. SubSeq(HostOf, 1, Len(HostOf)) = HostOf
  BY <1>8, SubSeqFull
<1> QED
  BY <1>1, <1>2, <1>8, <1>10, <1>11, <1>12, <1>13, <1>14, <1>15, Zenon

-----------------------------------------------------------------------------
(***************************************************************************)
(* What the server makes of it.                                            *)
(***************************************************************************)
SentWire ==
    \E rnd \in AuthRnds :
        wire = [bytes |-> Framed(AuthEncode(AskedFor, rnd)),
                text |-> Encrypt({}, Methods(conf.local), Key(conf.local))]

LEMMA CiphersAgree ==
    ASSUME conf \in Setups, NEW w,
           w.text = Encrypt({}, Methods(conf.local), Key(conf.local))
    PROVE  Deciphered(w) <=> SameCiphers
<1>1. Methods(conf.local) \in Seq(STRING) /\ Methods(conf.server) \in Seq(STRING)
  BY SetupsAssumption, Zenon DEF Methods
<1> DEFINE sent == Methods(conf.local)
           got == Methods(conf.server)
           sentKey == Key(conf.local)
           gotKey == Key(conf.server)
<1>2. sent \in Seq(STRING) /\ got \in Seq(STRING)
  BY <1>1
<1> HIDE DEF sent, got, sentKey, gotKey
<1>3. Decrypt(Encrypt({}, sent, sentKey), got, gotKey) = {}
        <=> Encrypt({}, sent, sentKey) = Encrypt({}, got, gotKey)
  BY <1>2, DeciphersIfSame
<1>4. Deciphered(w) <=> Decrypt(Encrypt({}, sent, sentKey), got, gotKey) = {}
  BY DEF Deciphered, sent, got, sentKey, gotKey
<1> QED
  BY <1>3, <1>4 DEF SameCiphers, sent, got, sentKey, gotKey

\* What is sent is decoded as a whole only.
LEMMA SentIsWhole ==
    ASSUME conf \in Setups, WholeRequest, NEW rnd \in AuthRnds
    PROVE  LET s == Framed(AuthEncode(AskedFor, rnd))
           IN  \A n \in 0..(Len(s) - 1) : ~AuthDecode(SubSeq(s, 1, n)).ok
<1> DEFINE m == AskedFor
           s == Framed(AuthEncode(m, rnd))
<1>1. rnd \in Seq(Nat)
  <2>1. rnd \in Seq(Byte)
    BY LibraryAssumption, Zenon
  <2> QED
    BY <2>1, ByteStrings
<1>2. /\ m.user \in Seq(Nat) /\ m.pwd \in Seq(Nat) /\ m.addr \in Seq(Nat)
      /\ m.addrLen = Len(m.addr) /\ m.port \in Nat
      /\ m.addrType = message[4] /\ message[4] \in {1, 3, 4}
  BY AskedIs, Zenon
<1> HIDE DEF m
<1>3. m.addrType \in Nat
  BY <1>2
<1>4. s \in Seq(Nat) /\ AuthFields(s).port >= Len(s)
  <2>1. CASE CredentialsSized(m)
    <3>1. s \in Seq(Nat) /\ AuthFields(s).port = Len(s)
      BY <1>1, <1>2, <1>3, <2>1, AuthRoundTrip, Zenon
    <3>2. Len(s) \in Nat
      BY <3>1, LenProperties
    <3> HIDE DEF s
    <3> QED
      BY <3>1, <3>2
  <2>2. CASE ~CredentialsSized(m)
    BY <2>2, NothingSent, Zenon
  <2> QED
    BY <2>1, <2>2
<1> HIDE DEF s
<1>5. \A n \in 0..(Len(s) - 1) : ~AuthDecode(SubSeq(s, 1, n)).ok
  BY <1>4, CutAuthIsRefused
<1> QED
  BY <1>5 DEF s, m

KnownUser == User \in DOMAIN UserMap(conf.server) /\ UserMap(conf.server)[User] = JsonString(Pwd)

LEMMA ServerReads ==
    ASSUME conf \in Setups, WholeRequest, SentWire
    PROVE  /\ AuthAccepted <=> CredentialsSized(AskedFor) /\ SameCiphers
           /\ AuthAccepted =>
                /\ Msg.user = User /\ Msg.pwd = Pwd /\ Msg.addrType = message[4]
                /\ Msg.addr = HostOf /\ Msg.addrLen = Len(HostOf) /\ Msg.port = PortAsked
<1>1. PICK rnd \in AuthRnds :
        wire = [bytes |-> Framed(AuthEncode(AskedFor, rnd)),
                text |-> Encrypt({}, Methods(conf.local), Key(conf.local))]
  BY DEF SentWire
<1> DEFINE m == AskedFor
           s == Framed(AuthEncode(m, rnd))
           d == AuthDecode(s)
<1>2. wire.bytes = s /\ wire.text = Encrypt({}, Methods(conf.local), Key(conf.local))
  BY <1>1, Zenon
<1>3. Deciphered(wire) <=> SameCiphers
  BY <1>2, CiphersAgree
<1>4. rnd \in Seq(Nat) /\ Sized(rnd, 5, 100)
  <2>1. rnd \in Seq(Byte) /\ Sized(rnd, 5, 100)
    BY LibraryAssumption, Zenon
  <2> QED
    BY <2>1, ByteStrings
<1>5. /\ m.user = User /\ m.user \in Seq(Nat) /\ m.pwd = Pwd /\ m.pwd \in Seq(Nat)
      /\ m.addrType = message[4] /\ message[4] \in {1, 3, 4}
      /\ m.addr = HostOf /\ m.addr \in Seq(Nat) /\ m.addrLen = Len(m.addr)
      /\ m.port = PortAsked /\ m.port \in Nat /\ Sized(m.addr, 0, 255)
  BY AskedIs, Zenon
<1> HIDE DEF m
<1>6. m.addrType \in Nat
  BY <1>5
<1>8. d.ok => CredentialsSized(m)
  <2> SUFFICES ASSUME ~CredentialsSized(m) PROVE ~d.ok
    OBVIOUS
  <2> QED
    BY NothingSent, Zenon
<1>9. ASSUME CredentialsSized(m)
      PROVE  /\ d.ok /\ AuthCheck(d)
             /\ d.user = m.user /\ d.pwd = m.pwd /\ d.addrType = m.addrType
             /\ d.addrLen = m.addrLen /\ d.addr = m.addr /\ d.port = m.port
  <2>0. /\ m.user \in Seq(Nat) /\ m.pwd \in Seq(Nat) /\ m.addr \in Seq(Nat)
        /\ m.addrType \in Nat /\ m.addrLen = Len(m.addr) /\ m.port \in Nat
        /\ CredentialsSized(m) /\ rnd \in Seq(Nat)
    BY <1>4, <1>5, <1>6, <1>9
  <2>1. /\ d.ok /\ d.total = 0 /\ d.rndChar = rnd /\ d.type = 1
        /\ d.user = m.user /\ d.pwd = m.pwd
        /\ d.addrType = m.addrType /\ d.addrLen = m.addrLen /\ d.addr = m.addr
        /\ d.port = m.port
    BY <2>0, AuthRoundTrip, Zenon
  <2> HIDE DEF d
  <2>2. CredentialsSized(d)
    BY <1>9, <2>1, Zenon DEF CredentialsSized
  <2>3. d.total >= 0 /\ d.addrType \in {1, 3, 4}
    BY <1>5, <2>1
  <2>4. Sized(d.rndChar, 5, 100) /\ Sized(d.addr, 0, 255)
    BY <1>4, <1>5, <2>1
  <2>5. AuthCheck(d)
    BY <2>1, <2>2, <2>3, <2>4 DEF AuthCheck
  <2> QED
    BY <2>1, <2>5
<1> HIDE DEF s, d
<1>11. Msg = IF SameCiphers THEN d ELSE Refused
  BY <1>2, <1>3, Zenon DEF Msg, d
<1>12. ~Refused.ok
  BY DEF Refused
<1>13. CASE SameCiphers
  <2>1. Msg = d
    BY <1>11, <1>13
  <2> QED
    BY <1>5, <1>8, <1>9, <1>13, <2>1, Zenon DEF AuthAccepted, m
<1>14. CASE ~SameCiphers
  <2>1. ~AuthAccepted
    BY <1>11, <1>12, <1>14 DEF AuthAccepted
  <2> QED
    BY <1>14, <2>1, Zenon
<1> QED
  BY <1>13, <1>14

\* A DataMsg on the way.
LEMMA RelayedIs ==
    ASSUME NEW data \in Payloads, NEW rnd \in DataRnds
    PROVE  LET s == Framed(DataEncode(data, rnd))
               d == DataDecode(s)
           IN  /\ d.ok /\ DataCheck(d) /\ d.data = data
               /\ \A n \in 0..(Len(s) - 1) : ~DataDecode(SubSeq(s, 1, n)).ok
<1>1. data \in Seq(Byte) /\ Crc(data) \in Seq(Byte) /\ rnd \in Seq(Byte)
  BY PayloadsAssumption, LibraryAssumption
<1>2. data \in Seq(Nat) /\ Crc(data) \in Seq(Nat) /\ rnd \in Seq(Nat)
  BY <1>1, ByteStrings
<1>3. Sized(data, 0, 4096) /\ Len(Crc(data)) = 4 /\ Sized(rnd, 5, 10)
  BY PayloadsAssumption, LibraryAssumption
<1>4. DataFits(data, rnd)
  BY <1>2, <1>3 DEF DataFits
<1> QED
  BY <1>4, DataRoundTrip, Zenon

\* The first IPv4 address found.
LEMMA FirstIPv4 ==
    ASSUME NEW found \in Answers, IPv4s(found) # {}
    PROVE  LET i == Min(IPv4s(found))
           IN  /\ i \in DOMAIN found
               /\ found[i] = [family |-> "inet", addr |-> found[i].addr]
               /\ \A j \in 1..(i - 1) : found[j].family # "inet"
<1> DEFINE S == IPv4s(found)
           i == Min(S)
<1>1. found \in Seq([family: {"inet", "inet6"}, addr: Seq(Byte)])
  BY LibraryAssumption, Zenon
<1>2. /\ Len(found) \in Nat /\ DOMAIN found = 1..Len(found)
      /\ \A j \in 1..Len(found) : found[j] \in [family: {"inet", "inet6"}, addr: Seq(Byte)]
  BY <1>1, LenProperties, ElementOfSeq
<1>3. S \in SUBSET Nat
  BY <1>2 DEF IPv4s
<1>4. \E x \in S : \A y \in S : x <= y
  BY <1>3, LeastNatural
<1> HIDE DEF S
<1>5. i \in S /\ \A y \in S : i <= y
  BY <1>4, Zenon DEF Min
<1> HIDE DEF i
<1>6. i \in 1..Len(found) /\ found[i].family = "inet"
  BY <1>2, <1>5 DEF S, IPv4s
<1>7. found[i] = [family |-> "inet", addr |-> found[i].addr]
  <2>1. found[i] \in [family: {"inet", "inet6"}, addr: Seq(Byte)]
    BY <1>2, <1>6
  <2>2. found[i] = [family |-> found[i].family, addr |-> found[i].addr]
    BY <2>1
  <2> QED
    BY <1>6, <2>2
<1>8. ASSUME NEW j \in 1..(i - 1) PROVE found[j].family # "inet"
  <2>1. j \in 1..Len(found) /\ ~(i <= j)
    BY <1>2, <1>6
  <2>2. j \notin S
    BY <1>5, <2>1
  <2> QED
    BY <1>2, <2>1, <2>2 DEF S, IPv4s
<1> QED
  BY <1>2, <1>6, <1>7, <1>8 DEF i, S

\* What getaddrinfo reads of a name.
LEMMA CStringCuts ==
    ASSUME NEW bytes \in Seq(Nat)
    PROVE  CutName(CString(bytes), bytes)
<1> DEFINE zeros == {i \in 1..Len(bytes) : bytes[i] = 0}
           m == Min(zeros)
<1>1. Len(bytes) \in Nat /\ bytes = SubSeq(bytes, 1, Len(bytes))
  BY LenProperties
<1>2. CASE zeros = {}
  <2>1. CString(bytes) = bytes
    BY <1>2, Zenon DEF CString
  <2>2. \A i \in 1..Len(bytes) : bytes[i] # 0
    BY <1>2
  <2> QED
    BY <1>1, <2>1, <2>2 DEF CutName
<1>3. CASE zeros # {}
  <2>1. CString(bytes) = SubSeq(bytes, 1, m - 1)
    BY <1>3, Zenon DEF CString
  <2>2. zeros \in SUBSET Nat
    BY <1>1
  <2>3. \E x \in zeros : \A y \in zeros : x <= y
    BY <1>3, <2>2, LeastNatural
  <2>4. \A i \in 1..Len(bytes) : i \in zeros <=> bytes[i] = 0
    OBVIOUS
  <2>5. zeros \subseteq 1..Len(bytes)
    OBVIOUS
  <2> HIDE DEF zeros
  <2>6. m \in zeros /\ \A y \in zeros : m <= y
    BY <2>3, Zenon DEF Min
  <2> HIDE DEF m
  <2>7. m \in 1..Len(bytes) /\ bytes[m] = 0 /\ \A i \in 1..(m - 1) : bytes[i] # 0
    BY <1>1, <2>4, <2>5, <2>6
  <2>8. /\ Len(SubSeq(bytes, 1, m - 1)) = m - 1
        /\ \A i \in 1..(m - 1) : SubSeq(bytes, 1, m - 1)[i] = bytes[i]
    BY <1>1, <2>7
  <2> DEFINE name == SubSeq(bytes, 1, m - 1)
  <2> HIDE DEF name
  <2>9. Len(name) = m - 1 /\ name = SubSeq(bytes, 1, Len(name))
    BY <2>8 DEF name
  <2>10. \A i \in 1..Len(name) : name[i] # 0
    BY <2>7, <2>8 DEF name
  <2>11. m - 1 <= Len(bytes) /\ bytes[(m - 1) + 1] = 0
    BY <1>1, <2>7
  <2>12. CutName(name, bytes)
    BY <2>9, <2>10, <2>11 DEF CutName
  <2> QED
    BY <2>1, <2>12 DEF name
<1> QED
  BY <1>2, <1>3

-----------------------------------------------------------------------------
(***************************************************************************)
(* The invariant: where each stage may be, in how much of which message,   *)
(* what is on the wire, and whom the server has admitted.                  *)
(***************************************************************************)
HandshakeTypes ==
    /\ stage \in Stages /\ conf \in Setups
    /\ message \in IF stage \in {"Init", "Refused"} THEN Greetings ELSE Requests
    /\ have \in Nat /\ have <= Len(message)
    /\ stage = "Refused" => have = 0

Unfinished ==
    /\ stage = "Init" => ~GreetingThere(have)
    /\ stage = "HandShake" => ~RequestThere(have) /\ ~RequestRefused(have)

AuthSent == stage = "Auth" => WholeRequest /\ SentWire

Admitted ==
    /\ stage \in {"Connect", "Relayed"} => KnownUser /\ SameCiphers
    /\ target # NoTarget => stage \in {"Connect", "Relayed"}

HandshakeInv ==
    /\ HandshakeTypes /\ Unfinished /\ AuthSent /\ Admitted
    /\ DestinationIsRequested /\ RefusedForCause /\ DecodesOnlyWhole /\ DataIntact

LEMMA HandshakeStarts == Init => HandshakeInv
<1> SUFFICES ASSUME Init PROVE HandshakeInv
  OBVIOUS
<1>1. HandshakeTypes
  <2>1. message \in Greetings /\ have = 0
    BY DEF Init
  <2>2. Len(message) \in Nat
    BY <2>1, GreetingWhole
  <2> QED
    BY <2>1, <2>2 DEF Init, HandshakeTypes, Stages
<1>2. Unfinished
  BY GreetingWhole DEF Init, Unfinished
<1>3. AuthSent /\ Admitted
  BY DEF Init, AuthSent, Admitted
<1>4. DestinationIsRequested /\ RefusedForCause /\ DecodesOnlyWhole /\ DataIntact
  BY DEF Init, DestinationIsRequested, RefusedForCause, DecodesOnlyWhole, DataIntact
<1> QED
  BY <1>1, <1>2, <1>3, <1>4 DEF HandshakeInv

\* What depends on the message and the settings alone is kept with them.
LEMMA MessageKept ==
    ASSUME message' = message
    PROVE  /\ WholeRequest' <=> WholeRequest
           /\ PortAsked' = PortAsked /\ HostOf' = HostOf
<1>1. \A t, i : Buf(t, i)' = Buf(t, i)
  BY DEF Buf
<1>2. \A t : AddrType(t)' = AddrType(t)
  BY <1>1 DEF AddrType
<1>3. \A t : TotalLen(t)' = TotalLen(t) /\ AddrLen(t)' = AddrLen(t)
  BY <1>1, <1>2 DEF TotalLen, AddrLen
<1>5. \A t : KnownType(t)' <=> KnownType(t)
  BY <1>2 DEF KnownType
<1>6. \A t : RequestThere(t)' <=> RequestThere(t)
  BY <1>3, <1>5 DEF RequestThere
<1>7. WholeRequest' <=> WholeRequest
  BY <1>3, <1>6 DEF WholeRequest
<1>8. PortAsked' = PortAsked /\ HostOf' = HostOf
  BY DEF PortAsked, HostOf
<1> QED
  BY <1>7, <1>8

LEMMA SettingsKept ==
    ASSUME conf' = conf
    PROVE  /\ User' = User /\ Pwd' = Pwd
           /\ KnownUser' <=> KnownUser
           /\ SameCiphers' <=> SameCiphers
BY DEF User, Pwd, KnownUser, SameCiphers

LEMMA AskedKept ==
    ASSUME message' = message, conf' = conf
    PROVE  AskedFor' = AskedFor
<1>1. \A t, i : Buf(t, i)' = Buf(t, i)
  BY DEF Buf
<1>2. \A t : AddrType(t)' = AddrType(t)
  BY <1>1 DEF AddrType
<1>3. \A t : /\ AddrLen(t)' = AddrLen(t) /\ TotalLen(t)' = TotalLen(t)
             /\ AddrStart(t)' = AddrStart(t)
  BY <1>1, <1>2 DEF TotalLen, AddrLen, AddrStart
<1>4. \A t : Port(t)' = Port(t)
  BY <1>1, <1>3 DEF Port
<1>5. \A t : AuthMsgFor(t)' = AuthMsgFor(t)
  BY <1>1, <1>2, <1>3, <1>4, SettingsKept DEF AuthMsgFor
<1> QED
  BY <1>5 DEF AskedFor

\* Where nothing is on its way and no target chosen little can be wrong.
LEMMA NothingUnderWay ==
    ASSUME stage' \notin {"Auth", "Connect", "Relayed"}, target' = target, target = NoTarget
    PROVE  AuthSent' /\ Admitted' /\ DestinationIsRequested' /\ DecodesOnlyWhole' /\ DataIntact'
BY DEF AuthSent, Admitted, DestinationIsRequested, DecodesOnlyWhole, DataIntact

\* How much has been read matters to the stages that read alone.
LEMMA OnlyRead ==
    ASSUME HandshakeInv,
           UNCHANGED <<stage, conf, message, wire, answer, target, relayed>>
    PROVE  /\ AuthSent' /\ Admitted' /\ DestinationIsRequested'
           /\ RefusedForCause' /\ DecodesOnlyWhole' /\ DataIntact'
<1> USE DEF HandshakeInv
<1>1. /\ stage' = stage /\ conf' = conf /\ message' = message /\ wire' = wire
      /\ answer' = answer /\ target' = target /\ relayed' = relayed
  OBVIOUS
<1>2. AuthSent'
  <2>1. WholeRequest' <=> WholeRequest
    BY <1>1, MessageKept
  <2>2. SentWire' <=> SentWire
    <3>1. AskedFor' = AskedFor
      BY <1>1, AskedKept
    <3> QED
      BY <1>1, <3>1 DEF SentWire
  <2> QED
    BY <1>1, <2>1, <2>2 DEF AuthSent
<1>3. Admitted'
  BY <1>1, SettingsKept DEF Admitted
<1>4. DestinationIsRequested'
  BY <1>1 DEF DestinationIsRequested, DomainAsked, HostAsked, PortAsked
<1>5. RefusedForCause'
  BY <1>1, SettingsKept DEF RefusedForCause, DomainAsked
<1>6. DecodesOnlyWhole' /\ DataIntact'
  BY <1>1 DEF DecodesOnlyWhole, DataIntact
<1> QED
  BY <1>2, <1>3, <1>4, <1>5, <1>6

LEMMA NoTargetYet ==
    ASSUME HandshakeInv, stage \notin {"Connect", "Relayed"}
    PROVE  target = NoTarget
BY DEF HandshakeInv, Admitted

LEMMA GreetingKeeps ==
    ASSUME HandshakeInv, NEW n \in Nat, ReadGreeting(n)
    PROVE  HandshakeInv'
<1>1. /\ stage = "Init" /\ message \in Greetings /\ have \in Nat /\ conf \in Setups
      /\ target = NoTarget
  BY NoTargetYet DEF HandshakeInv, HandshakeTypes, ReadGreeting
<1>2. /\ have + n \in Nat /\ have + n <= Len(message) /\ GreetingThere(have + n)
      /\ have' = 0 /\ conf' = conf /\ target' = target
  BY <1>1 DEF ReadGreeting, Read, ResetRead
<1>3. have + n = Len(message)
  BY <1>1, <1>2, GreetingWhole
<1>4. \/ stage' = "HandShake" /\ message' \in Requests
      \/ /\ stage' = "Refused" /\ message' = message
         /\ ~(Buf(have + n, 1) = 5 /\ Method0x0(have + n))
  BY DEF ReadGreeting
<1>5. AuthSent' /\ Admitted' /\ DestinationIsRequested' /\ DecodesOnlyWhole' /\ DataIntact'
  <2>1. stage' \notin {"Auth", "Connect", "Relayed"}
    BY <1>4
  <2> QED
    BY <1>1, <1>2, <2>1, NothingUnderWay
<1>6. CASE stage' = "HandShake"
  <2>1. message' \in Requests
    BY <1>4, <1>6
  <2>2. Len(message') \in Nat /\ (~RequestThere(0) /\ ~RequestRefused(0))'
    <3>1. RequestLaidOut(message')
      BY <2>1, ClientAssumption, Zenon
    <3>2. message' \in Seq(Byte)
      BY <3>1, Zenon DEF RequestLaidOut
    <3>3. (~RequestThere(0) /\ ~RequestRefused(0))'
      BY DEF RequestThere, RequestRefused
    <3> QED
      BY <3>2, <3>3, LenProperties
  <2>3. HandshakeTypes'
    BY <1>1, <1>2, <1>6, <2>1, <2>2 DEF HandshakeTypes, Stages
  <2>4. Unfinished'
    BY <1>2, <1>6, <2>2 DEF Unfinished
  <2>5. RefusedForCause'
    BY <1>6 DEF RefusedForCause
  <2> QED
    BY <1>5, <2>3, <2>4, <2>5 DEF HandshakeInv
<1>7. CASE stage' = "Refused"
  <2>1. message' = message /\ ~(Buf(have + n, 1) = 5 /\ Method0x0(have + n))
    BY <1>4, <1>7
  <2>2. /\ Len(message) \in Nat /\ Len(message) = 2 + message[2] /\ message[2] \in Nat
    BY <1>1, GreetingWhole
  <2>3. HandshakeTypes'
    BY <1>1, <1>2, <1>7, <2>1, <2>2 DEF HandshakeTypes, Stages
  <2>4. Unfinished'
    BY <1>7 DEF Unfinished
  <2>5. message[1] # 5 \/ \A i \in 3..Len(message) : message[i] # 0
    <3> SUFFICES ASSUME message[1] = 5, NEW i \in 3..Len(message), message[i] = 0 PROVE FALSE
      OBVIOUS
    <3>1. \A j \in 1..Len(message) : Buf(Len(message), j) = message[j]
      BY <2>2 DEF Buf
    <3> DEFINE L == Len(message)
               c == message[2]
    <3>0. L \in Nat /\ L = 2 + c /\ c \in Nat /\ i \in 3..L
      BY <2>2
    <3> HIDE DEF L, c
    <3>a. 1 \in 1..L /\ 2 \in 1..L /\ i \in 1..L /\ i - 2 \in 1..c /\ 2 + (i - 2) = i
      BY <3>0
    <3>2. 1 \in 1..Len(message) /\ 2 \in 1..Len(message) /\ i \in 1..Len(message)
      BY <3>a DEF L
    <3>3. i - 2 \in 1..message[2] /\ 2 + (i - 2) = i
      BY <3>a DEF c
    <3>4. Buf(Len(message), 2) = message[2] /\ Buf(Len(message), 2 + (i - 2)) = 0
      BY <3>1, <3>2, <3>3
    <3>5. Method0x0(have + n)
      BY <1>3, <3>3, <3>4 DEF Method0x0
    <3> QED
      BY <1>3, <2>1, <3>1, <3>2, <3>5
  <2>6. RefusedForCause'
    BY <1>7, <2>1, <2>5 DEF RefusedForCause
  <2> QED
    BY <1>5, <2>3, <2>4, <2>6 DEF HandshakeInv
<1> QED
  BY <1>4, <1>6, <1>7

LEMMA AgainKeeps ==
    ASSUME HandshakeInv, GreetAgain
    PROVE  HandshakeInv'
<1>1. /\ stage = "Refused" /\ stage' = "Init" /\ message' \in Greetings
      /\ have' = have /\ have = 0 /\ conf' = conf /\ conf \in Setups
      /\ target' = target /\ target = NoTarget
  BY NoTargetYet DEF HandshakeInv, HandshakeTypes, GreetAgain
<1>2. Len(message') \in Nat
  <2>1. GreetingLaidOut(message')
    BY <1>1, ClientAssumption, Zenon
  <2>2. message' \in Seq(Byte)
    BY <2>1, Zenon DEF GreetingLaidOut
  <2> QED
    BY <2>2, LenProperties
<1>3. HandshakeTypes'
  BY <1>1, <1>2 DEF HandshakeTypes, Stages
<1>4. Unfinished'
  BY <1>1 DEF Unfinished, GreetingThere
<1>5. AuthSent' /\ Admitted' /\ DestinationIsRequested' /\ DecodesOnlyWhole' /\ DataIntact'
  BY <1>1, NothingUnderWay
<1>6. RefusedForCause'
  BY <1>1 DEF RefusedForCause
<1> QED
  BY <1>3, <1>4, <1>5, <1>6 DEF HandshakeInv

LEMMA PartKeeps ==
    ASSUME HandshakeInv, NEW n \in Nat, ReadPart(n)
    PROVE  HandshakeInv'
<1>1. /\ UNCHANGED <<stage, conf, message, wire, answer, target, relayed>>
      /\ have' = have + n /\ have + n <= Len(message)
      /\ \/ stage = "Init" /\ ~GreetingThere(have + n)
         \/ stage = "HandShake" /\ ~RequestThere(have + n) /\ ~RequestRefused(have + n)
  BY DEF ReadPart, Read
<1>2. HandshakeTypes'
  BY <1>1 DEF HandshakeInv, HandshakeTypes
<1>3. Unfinished'
  <2>1. \A i : Buf(have, i)' = Buf(have + n, i)
    BY <1>1 DEF Buf
  <2>2. AddrType(have)' = AddrType(have + n)
    BY <2>1 DEF AddrType
  <2>3. TotalLen(have)' = TotalLen(have + n)
    BY <2>1, <2>2 DEF TotalLen
  <2>4. KnownType(have)' <=> KnownType(have + n)
    BY <2>2 DEF KnownType
  <2>5. GreetingThere(have)' <=> GreetingThere(have + n)
    BY <1>1, <2>1 DEF GreetingThere
  <2>6. /\ RequestThere(have)' <=> RequestThere(have + n)
        /\ RequestRefused(have)' <=> RequestRefused(have + n)
    BY <1>1, <2>3, <2>4 DEF RequestThere, RequestRefused
  <2> QED
    BY <1>1, <2>5, <2>6 DEF Unfinished
<1> QED
  BY <1>1, <1>2, <1>3, OnlyRead DEF HandshakeInv

\* A stage at which the session is over.
Over == {"HungUp", "Closed", "Thrown", "Aborted"}

LEMMA OverKeeps ==
    ASSUME HandshakeInv, stage \in {"HandShake", "Auth"}, stage' \in Over,
           message' = message, conf' = conf, target' = target,
           have' \in Nat, have' <= Len(message), RefusedForCause'
    PROVE  HandshakeInv'
<1>1. target = NoTarget
  BY NoTargetYet
<1>2. AuthSent' /\ Admitted' /\ DestinationIsRequested' /\ DecodesOnlyWhole' /\ DataIntact'
  BY <1>1, NothingUnderWay DEF Over
<1>3. HandshakeTypes'
  BY DEF HandshakeInv, HandshakeTypes, Over, Stages
<1>4. Unfinished'
  BY DEF Unfinished, Over
<1> QED
  BY <1>2, <1>3, <1>4 DEF HandshakeInv

LEMMA BadRequestKeeps ==
    ASSUME HandshakeInv, NEW n \in Nat, ReadBadRequest(n)
    PROVE  HandshakeInv'
<1>1. /\ stage = "HandShake" /\ stage' = "Closed" /\ message' = message /\ conf' = conf
      /\ target' = target /\ have' = have + n /\ have + n <= Len(message)
      /\ RequestRefused(have + n)
  BY DEF ReadBadRequest, Read
<1>2. message \in Requests /\ have + n \in Nat
  BY <1>1 DEF HandshakeInv, HandshakeTypes
<1>3. message[4] \notin {1, 3, 4}
  BY <1>1, <1>2, RequestWhole
<1>4. RefusedForCause'
  BY <1>1, <1>3 DEF RefusedForCause
<1> QED
  BY <1>1, <1>2, <1>4, OverKeeps DEF Over

LEMMA LongDomainKeeps ==
    ASSUME HandshakeInv, NEW n \in Nat, ReadLongDomain(n)
    PROVE  HandshakeInv'
<1>1. /\ stage = "HandShake" /\ stage' = "Thrown" /\ message' = message /\ conf' = conf
      /\ target' = target /\ have' = have + n /\ have + n <= Len(message)
      /\ RequestThere(have + n) /\ AddrLen(have + n) < 0
  BY DEF ReadLongDomain, Read
<1>2. message \in Requests /\ have + n \in Nat
  BY <1>1 DEF HandshakeInv, HandshakeTypes
<1>3. message[4] = 3 /\ message[5] > 248
  BY <1>1, <1>2, RequestWhole
<1>4. RefusedForCause'
  BY <1>1, <1>3 DEF RefusedForCause, DomainAsked
<1> QED
  BY <1>1, <1>2, <1>4, OverKeeps DEF Over

LEMMA RequestKeeps ==
    ASSUME HandshakeInv, NEW n \in Nat, ReadRequest(n)
    PROVE  HandshakeInv'
<1>1. /\ stage = "HandShake" /\ stage' = "Auth" /\ message' = message /\ conf' = conf
      /\ target' = target /\ have' = 0 /\ have + n <= Len(message)
      /\ RequestThere(have + n) /\ AddrLen(have + n) >= 0
  BY DEF ReadRequest, Read, ResetRead
<1>2. message \in Requests /\ have + n \in Nat /\ conf \in Setups
  BY <1>1 DEF HandshakeInv, HandshakeTypes
<1>3. have + n = Len(message) /\ Len(message) \in Nat
  BY <1>1, <1>2, RequestWhole
<1>4. WholeRequest
  BY <1>1, <1>2, <1>3 DEF WholeRequest
<1>5. PICK rnd \in AuthRnds :
        wire' = [bytes |-> Framed(AuthEncode(AskedFor, rnd)),
                 text |-> Encrypt({}, Methods(conf.local), Key(conf.local))]
  BY <1>3 DEF ReadRequest, AskedFor
<1>6. SentWire'
  <2>1. AskedFor' = AskedFor
    BY <1>1, AskedKept
  <2> QED
    BY <1>1, <1>5, <2>1 DEF SentWire
<1>7. AuthSent'
  BY <1>1, <1>4, <1>6, MessageKept DEF AuthSent
<1>8. DecodesOnlyWhole'
  <2>1. WholeRequest' /\ conf' \in Setups
    BY <1>1, <1>2, <1>4, MessageKept
  <2>2. \A k \in 0..(Len(wire'.bytes) - 1) : ~AuthDecode(SubSeq(wire'.bytes, 1, k)).ok
    <3> DEFINE s == Framed(AuthEncode(AskedFor, rnd))
    <3>1. wire'.bytes = s
      BY <1>5
    <3>2. \A k \in 0..(Len(s) - 1) : ~AuthDecode(SubSeq(s, 1, k)).ok
      BY <1>2, <1>4, SentIsWhole
    <3> HIDE DEF s
    <3> QED
      BY <3>1, <3>2
  <2> QED
    BY <1>1, <2>2 DEF DecodesOnlyWhole
<1>9. HandshakeTypes' /\ Unfinished'
  BY <1>1, <1>2, <1>3 DEF HandshakeTypes, Unfinished, Stages
<1>10. target = NoTarget
  BY <1>1, NoTargetYet
<1>11. Admitted' /\ DestinationIsRequested' /\ RefusedForCause' /\ DataIntact'
  BY <1>1, <1>10 DEF Admitted, DestinationIsRequested, RefusedForCause, DataIntact
<1> QED
  BY <1>7, <1>8, <1>9, <1>11 DEF HandshakeInv

LEMMA HangUpKeeps ==
    ASSUME HandshakeInv, HangUp
    PROVE  HandshakeInv'
<1>1. /\ stage = "Auth" /\ stage' = "HungUp" /\ message' = message /\ conf' = conf
      /\ target' = target /\ have' = have /\ ~AuthAccepted
  BY DEF HangUp
<1>2. WholeRequest /\ SentWire /\ conf \in Setups /\ have \in Nat /\ have <= Len(message)
  BY <1>1 DEF HandshakeInv, HandshakeTypes, AuthSent
<1>3. ~CredentialsSized(AskedFor) \/ ~SameCiphers
  BY <1>1, <1>2, ServerReads
<1>4. AskedFor.user = User /\ AskedFor.pwd = Pwd /\ User \in Seq(Nat) /\ Pwd \in Seq(Nat)
  <2>1. /\ AskedFor.user = User /\ AskedFor.user \in Seq(Nat)
        /\ AskedFor.pwd = Pwd /\ AskedFor.pwd \in Seq(Nat)
    BY <1>2, AskedIs, Zenon
  <2> QED
    BY <2>1, Zenon
<1>5. Len(User) \notin 6..16 \/ Len(Pwd) \notin 6..32 \/ ~SameCiphers
  <2>1. ASSUME NEW u \in Nat, NEW p \in Nat, u \in 6..16, p \in 6..32
        PROVE  6 <= u /\ u <= 16 /\ 6 <= p /\ p <= 32
    BY <2>1
  <2>2. Len(User) \in Nat /\ Len(Pwd) \in Nat
    BY <1>4, LenProperties
  <2>3. Len(User) \in 6..16 /\ Len(Pwd) \in 6..32 => CredentialsSized(AskedFor)
    BY <1>4, <2>1, <2>2, Zenon DEF CredentialsSized, Sized
  <2> QED
    BY <1>3, <2>3, Zenon
<1>6. RefusedForCause'
  BY <1>1, <1>5, SettingsKept DEF RefusedForCause
<1> QED
  BY <1>1, <1>2, <1>6, OverKeeps DEF Over

LEMMA NoUserMapKeeps ==
    ASSUME HandshakeInv, NoUserMap
    PROVE  HandshakeInv'
<1>1. /\ stage = "Auth" /\ stage' = "Thrown" /\ message' = message /\ conf' = conf
      /\ target' = target /\ have' = have /\ "user" \notin DOMAIN ObjectValue(conf.server)
  BY DEF NoUserMap, UserMapThrows
<1>2. have \in Nat /\ have <= Len(message)
  BY DEF HandshakeInv, HandshakeTypes
<1>3. RefusedForCause'
  BY <1>1 DEF RefusedForCause
<1> QED
  BY <1>1, <1>2, <1>3, OverKeeps DEF Over

LEMMA BadUserKeeps ==
    ASSUME HandshakeInv, BadUser
    PROVE  HandshakeInv'
<1>1. /\ stage = "Auth" /\ stage' = "Closed" /\ message' = message /\ conf' = conf
      /\ target' = target /\ have' = have
      /\ AuthAccepted /\ ~CheckUser(conf.server, Msg.user, Msg.pwd)
  BY DEF BadUser
<1>2. WholeRequest /\ SentWire /\ conf \in Setups /\ have \in Nat /\ have <= Len(message)
  BY <1>1 DEF HandshakeInv, HandshakeTypes, AuthSent
<1>3. Msg.user = User /\ Msg.pwd = Pwd
  BY <1>1, <1>2, ServerReads
<1>4. User \notin DOMAIN UserMap(conf.server) \/ UserMap(conf.server)[User] # JsonString(Pwd)
  BY <1>1, <1>3, Zenon DEF CheckUser
<1>5. RefusedForCause'
  BY <1>1, <1>4, SettingsKept DEF RefusedForCause
<1> QED
  BY <1>1, <1>2, <1>5, OverKeeps DEF Over

\* Whom the server connects for.
LEMMA AcceptedIs ==
    ASSUME HandshakeInv, Accepted
    PROVE  /\ conf \in Setups /\ WholeRequest /\ message \in Requests
           /\ stage = "Auth" /\ target = NoTarget
           /\ KnownUser /\ SameCiphers
           /\ Msg.addrType = message[4] /\ message[4] \in {1, 3, 4}
           /\ Host = HostOf /\ Msg.port = PortAsked
           /\ have \in Nat /\ have <= Len(message)
<1>1. stage = "Auth" /\ AuthAccepted /\ CheckUser(conf.server, Msg.user, Msg.pwd)
  BY DEF Accepted
<1>2. WholeRequest /\ SentWire /\ conf \in Setups /\ have \in Nat /\ have <= Len(message)
  BY <1>1 DEF HandshakeInv, HandshakeTypes, AuthSent
<1>3. /\ SameCiphers /\ Msg.user = User /\ Msg.pwd = Pwd /\ Msg.addrType = message[4]
      /\ Msg.addr = HostOf /\ Msg.addrLen = Len(HostOf) /\ Msg.port = PortAsked
  BY <1>1, <1>2, ServerReads, Zenon
<1>4. KnownUser
  BY <1>1, <1>3, Zenon DEF CheckUser, KnownUser
<1>5. message[4] \in {1, 3, 4} /\ SubSeq(HostOf, 1, Len(HostOf)) = HostOf
  BY <1>2, AskedIs, Zenon
<1>6. Host = HostOf
  BY <1>3, <1>5, Zenon DEF Host
<1>7. target = NoTarget
  BY <1>1, NoTargetYet
<1> QED
  BY <1>1, <1>2, <1>3, <1>4, <1>5, <1>6, <1>7 DEF WholeRequest

\* The destination, once it is what the request says.
LEMMA ConnectedKeeps ==
    ASSUME HandshakeInv, Accepted, stage' = "Connect",
           message' = message, conf' = conf, have' = have, wire' = wire, relayed' = relayed,
           target'.port = PortAsked,
           message[4] = 3 =>
              /\ CutName(target'.lookup, HostOf)
              /\ \E i \in DOMAIN answer' :
                    /\ answer'[i] = [family |-> "inet", addr |-> target'.addr]
                    /\ \A j \in 1..(i - 1) : answer'[j].family # "inet",
           message[4] # 3 =>
              /\ target'.addr = HostOf
              /\ target'.family = IF message[4] = 1 THEN "inet" ELSE "inet6"
    PROVE  HandshakeInv'
<1>1. /\ conf \in Setups /\ message \in Requests /\ have \in Nat /\ have <= Len(message)
      /\ KnownUser /\ SameCiphers
  BY AcceptedIs, Zenon
<1>2. HandshakeTypes' /\ Unfinished' /\ AuthSent'
  BY <1>1 DEF HandshakeTypes, Unfinished, AuthSent, Stages
<1>3. Admitted'
  BY <1>1, SettingsKept DEF Admitted
<1>4. PortAsked' = PortAsked /\ HostOf' = HostOf
  BY MessageKept
<1>5. (DomainAsked' <=> message[4] = 3) /\ HostAsked' = HostOf
  <2>1. DomainAsked' <=> message[4] = 3
    BY DEF DomainAsked
  <2>2. HostAsked' = HostOf'
    BY <2>1 DEF HostAsked, HostOf
  <2> QED
    BY <1>4, <2>1, <2>2, Zenon
<1>6. DestinationIsRequested'
  <2>1. CASE message[4] = 3
    BY <1>4, <1>5, <2>1, Zenon DEF DestinationIsRequested
  <2>2. CASE message[4] # 3
    <3>1. target'.family = IF message'[4] = 1 THEN "inet" ELSE "inet6"
      BY <2>2
    <3>2. target'.port = PortAsked' /\ target'.addr = HostAsked' /\ ~DomainAsked'
      BY <1>4, <1>5, <2>2
    <3> QED
      BY <3>1, <3>2, Zenon DEF DestinationIsRequested
  <2> QED
    BY <2>1, <2>2
<1>7. RefusedForCause' /\ DecodesOnlyWhole' /\ DataIntact'
  BY DEF RefusedForCause, DecodesOnlyWhole, DataIntact
<1> QED
  BY <1>2, <1>3, <1>6, <1>7 DEF HandshakeInv

LEMMA ConnectAddrKeeps ==
    ASSUME HandshakeInv, ConnectAddr
    PROVE  HandshakeInv'
<1>1. /\ Accepted /\ Msg.addrType \in {1, 4} /\ stage' = "Connect"
      /\ target' = [family |-> IF Msg.addrType = 1 THEN "inet" ELSE "inet6",
                    addr |-> Host, port |-> Msg.port, lookup |-> <<>>]
      /\ message' = message /\ conf' = conf /\ have' = have /\ wire' = wire
      /\ relayed' = relayed
  BY DEF ConnectAddr
<1>2. Msg.addrType = message[4] /\ Host = HostOf /\ Msg.port = PortAsked
  BY <1>1, AcceptedIs, Zenon
<1>3. message[4] # 3
  BY <1>1, <1>2
<1>4. /\ target'.port = PortAsked /\ target'.addr = HostOf
      /\ target'.family = IF message[4] = 1 THEN "inet" ELSE "inet6"
  BY <1>1, <1>2, Zenon
<1> QED
  BY <1>1, <1>3, <1>4, ConnectedKeeps

LEMMA ConnectDomainKeeps ==
    ASSUME HandshakeInv, ConnectDomain
    PROVE  HandshakeInv'
<1>1. /\ Accepted /\ Msg.addrType = 3 /\ stage' = "Connect"
      /\ message' = message /\ conf' = conf /\ have' = have /\ wire' = wire
      /\ relayed' = relayed
  BY DEF ConnectDomain
<1>2. PICK found \in Answers :
        /\ IPv4s(found) # {} /\ answer' = found
        /\ target' = [family |-> "inet", addr |-> found[Min(IPv4s(found))].addr,
                      port |-> Msg.port, lookup |-> CString(Host)]
  BY DEF ConnectDomain
<1>3. Msg.addrType = message[4] /\ Host = HostOf /\ Msg.port = PortAsked
  BY <1>1, AcceptedIs, Zenon
<1> DEFINE i == Min(IPv4s(found))
<1>4. /\ i \in DOMAIN found
      /\ found[i] = [family |-> "inet", addr |-> found[i].addr]
      /\ \A j \in 1..(i - 1) : found[j].family # "inet"
  BY <1>2, FirstIPv4
<1> HIDE DEF i
<1>5. target'.port = PortAsked /\ target'.lookup = CString(HostOf) /\ target'.addr = found[i].addr
  BY <1>2, <1>3, Zenon DEF i
<1>8. CutName(target'.lookup, HostOf)
  <2>1. HostOf \in Seq(Nat)
    BY <1>1, AcceptedIs, AskedIs, Zenon
  <2> QED
    BY <1>5, <2>1, CStringCuts
<1>6. \E k \in DOMAIN answer' :
         /\ answer'[k] = [family |-> "inet", addr |-> target'.addr]
         /\ \A j \in 1..(k - 1) : answer'[j].family # "inet"
  BY <1>2, <1>4, <1>5, Zenon
<1>7. message[4] = 3
  BY <1>1, <1>3
<1> QED
  BY <1>1, <1>5, <1>6, <1>7, <1>8, ConnectedKeeps

LEMMA ResolveFailsKeeps ==
    ASSUME HandshakeInv, ResolveFails
    PROVE  HandshakeInv'
<1>1. /\ Accepted /\ Msg.addrType = 3 /\ answer' = <<>> /\ stage' = "Closed"
      /\ message' = message /\ conf' = conf /\ have' = have /\ target' = target
  BY DEF ResolveFails
<1>2. message[4] = 3 /\ stage = "Auth" /\ have \in Nat /\ have <= Len(message)
  BY <1>1, AcceptedIs
<1>3. RefusedForCause'
  BY <1>1, <1>2 DEF RefusedForCause, DomainAsked
<1> QED
  BY <1>1, <1>2, <1>3, OverKeeps DEF Over

LEMMA ResolveIPv6OnlyKeeps ==
    ASSUME HandshakeInv, ResolveIPv6Only
    PROVE  HandshakeInv'
<1>1. /\ Accepted /\ stage' = "Aborted"
      /\ message' = message /\ conf' = conf /\ have' = have /\ target' = target
  BY DEF ResolveIPv6Only
<1>2. stage = "Auth" /\ have \in Nat /\ have <= Len(message)
  BY <1>1, AcceptedIs
<1>3. RefusedForCause'
  BY <1>1 DEF RefusedForCause
<1> QED
  BY <1>1, <1>2, <1>3, OverKeeps DEF Over

LEMMA RelayKeeps ==
    ASSUME HandshakeInv, Relay
    PROVE  HandshakeInv'
<1>1. /\ stage = "Connect" /\ stage' = "Relayed" /\ conf' = conf /\ message' = message
      /\ have' = have /\ answer' = answer /\ target' = target
  BY DEF Relay
<1>2. PICK data \in Payloads, rnd \in DataRnds :
        LET bytes == Framed(DataEncode(data, rnd))
            m == DataDecode(bytes)
        IN  /\ wire' = [bytes |-> bytes,
                        text |-> Encrypt({}, Methods(conf.local), Key(conf.local))]
            /\ relayed' = [sent |-> data,
                           got |-> IF Deciphered(wire') /\ m.ok /\ DataCheck(m)
                                   THEN m.data ELSE <<>>]
  BY DEF Relay
<1> DEFINE s == Framed(DataEncode(data, rnd))
           d == DataDecode(s)
<1>3. /\ d.ok /\ DataCheck(d) /\ d.data = data
      /\ \A n \in 0..(Len(s) - 1) : ~DataDecode(SubSeq(s, 1, n)).ok
  BY RelayedIs
<1> HIDE DEF d, s
<1>4. /\ wire'.bytes = s /\ wire'.text = Encrypt({}, Methods(conf.local), Key(conf.local))
      /\ relayed'.sent = data
      /\ relayed'.got = IF Deciphered(wire') /\ d.ok /\ DataCheck(d) THEN d.data ELSE <<>>
  BY <1>2, Zenon DEF d, s
<1>5. HandshakeTypes' /\ Unfinished' /\ AuthSent'
  BY <1>1 DEF HandshakeInv, HandshakeTypes, Unfinished, AuthSent, Stages
<1>6. conf \in Setups /\ KnownUser /\ SameCiphers
  BY <1>1 DEF HandshakeInv, HandshakeTypes, Admitted
<1>7. Admitted'
  BY <1>1, <1>6, SettingsKept DEF Admitted
<1>8. DestinationIsRequested'
  BY <1>1 DEF HandshakeInv, DestinationIsRequested, DomainAsked, HostAsked, PortAsked
<1>9. RefusedForCause'
  BY <1>1 DEF RefusedForCause
<1>10. DecodesOnlyWhole'
  BY <1>1, <1>3, <1>4 DEF DecodesOnlyWhole
<1>11. DataIntact'
  <2>1. Deciphered(wire')
    BY <1>4, <1>6, CiphersAgree
  <2>2. relayed'.got = data
    BY <1>3, <1>4, <2>1, Zenon
  <2> QED
    BY <1>4, <2>2 DEF DataIntact
<1> QED
  BY <1>5, <1>7, <1>8, <1>9, <1>10, <1>11 DEF HandshakeInv

LEMMA IdleKeeps ==
    ASSUME HandshakeInv, UNCHANGED vars
    PROVE  HandshakeInv'
<1>1. /\ UNCHANGED <<stage, conf, message, wire, answer, target, relayed>>
      /\ message' = message /\ have' = have
  BY DEF vars
<1>2. HandshakeTypes'
  BY <1>1 DEF HandshakeInv, HandshakeTypes
<1>3. Unfinished'
  BY <1>1 DEF HandshakeInv, Unfinished, GreetingThere, RequestThere, RequestRefused,
              KnownType, AddrType, TotalLen, Buf
<1> QED
  BY <1>1, <1>2, <1>3, OnlyRead DEF HandshakeInv

LEMMA HandshakeStep ==
    ASSUME HandshakeInv, [Next]_vars
    PROVE  HandshakeInv'
<1>1. CASE GreetAgain
  BY <1>1, AgainKeeps
<1>2. CASE ReadCallback
  <2>1. PICK n \in 1..Len(message) :
          \/ ReadGreeting(n) \/ ReadPart(n) \/ ReadBadRequest(n)
          \/ ReadLongDomain(n) \/ ReadRequest(n)
    BY <1>2 DEF ReadCallback
  <2>2. n \in Nat
    <3>1. Len(message) \in Nat
      BY GreetingWhole, RequestWhole DEF HandshakeInv, HandshakeTypes
    <3> QED
      BY <3>1
  <2> QED
    BY <2>1, <2>2, GreetingKeeps, PartKeeps, BadRequestKeeps, LongDomainKeeps, RequestKeeps
<1>3. CASE ServerReadCallback
  BY <1>3, HangUpKeeps, NoUserMapKeeps, BadUserKeeps, ConnectAddrKeeps,
     ConnectDomainKeeps, ResolveFailsKeeps, ResolveIPv6OnlyKeeps DEF ServerReadCallback
<1>4. CASE Relay
  BY <1>4, RelayKeeps
<1>5. CASE UNCHANGED vars
  BY <1>5, IdleKeeps
<1> QED
  BY <1>1, <1>2, <1>3, <1>4, <1>5 DEF Next

LEMMA HandshakeHolds == Spec => []HandshakeInv
<1>1. HandshakeInv /\ [Next]_vars => HandshakeInv'
  BY HandshakeStep
<1> QED
  BY <1>1, HandshakeStarts, PTL DEF Spec

-----------------------------------------------------------------------------
\* However the request is read in parts, whatever its address type and size,
\* the padding and the ciphers: the server connects where the client asked
\* to be connected, for a name, up to its first 0 byte, to its first IPv4
\* address.
THEOREM DestinationIsKept == Spec => []DestinationIsRequested
<1>1. HandshakeInv => DestinationIsRequested
  BY DEF HandshakeInv
<1> QED
  BY <1>1, HandshakeHolds, PTL

\* Nobody is connected without the name and the password of a user and the
\* server's ciphers.
THEOREM UsersAreKnown == Spec => []OnlyKnownUsers
<1>1. HandshakeInv => OnlyKnownUsers
  BY DEF HandshakeInv, Admitted, OnlyKnownUsers, KnownUser
<1> QED
  BY <1>1, HandshakeHolds, PTL

\* A client with ciphers, name and password as README.md asks for is not hung
\* up; a session is closed, refused or ended by an exception for the reasons
\* RefusedForCause lists and no other.
THEOREM RefusalsHaveCause == Spec => []RefusedForCause
<1>1. HandshakeInv => RefusedForCause
  BY DEF HandshakeInv
<1> QED
  BY <1>1, HandshakeHolds, PTL

\* A greeting or a request is never waited for once it is there, but for the
\* lengths a signed char cannot hold.
THEOREM WholeIsActedOn == Spec => []ActsOnWhole
<1>1. HandshakeInv => ActsOnWhole
  <2> SUFFICES ASSUME HandshakeInv PROVE ActsOnWhole
    OBVIOUS
  <2>1. stage = "Init" /\ have = Len(message) => message[2] > 127
    BY GreetingWhole DEF HandshakeInv, HandshakeTypes, Unfinished
  <2>2. stage = "HandShake" /\ have = Len(message) => message[4] = 3 /\ message[5] > 127
    BY RequestWhole DEF HandshakeInv, HandshakeTypes, Unfinished
  <2> QED
    BY <2>1, <2>2 DEF ActsOnWhole, LongDomain, DomainAsked
<1> QED
  BY <1>1, HandshakeHolds, PTL

\* No proper prefix of an AuthMsg or DataMsg that a program sends is decoded.
THEOREM WholeIsDecoded == Spec => []DecodesOnlyWhole
<1>1. HandshakeInv => DecodesOnlyWhole
  BY DEF HandshakeInv
<1> QED
  BY <1>1, HandshakeHolds, PTL

\* Data of every size that encode accepts arrives as it was sent, with every
\* padding, check sum and chain of ciphers.
THEOREM DataIsKept == Spec => []DataIntact
<1>1. HandshakeInv => DataIntact
  BY DEF HandshakeInv
<1> QED
  BY <1>1, HandshakeHolds, PTL

=============================================================================
