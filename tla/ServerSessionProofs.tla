------------------------- MODULE ServerSessionProofs -------------------------
(***************************************************************************)
(* Safety of a SocksTunnelServer session for every buffer size, message    *)
(* length and segmentation.  Beside whose turn it is (TurnTaking), the     *)
(* invariant has one part per phase of a session (Idle, AuthSide,          *)
(* RelaySide), one per direction of its streams (UpSide, DownSide), one    *)
(* for the room in its buffers, and what closing it leaves behind          *)
(* (EndsRelayed).                                                          *)
(***************************************************************************)
EXTENDS ServerSession, StreamProofs

\* Without a session nothing is in any buffer; before its end it has no cause.
Idle ==
    /\ life # "open" =>
          /\ stage = "Init" /\ rstage = "none" /\ authTimer = "off"
          /\ lread = EmptyIO /\ lwrite = EmptyIO /\ rread = EmptyIO /\ rwrite = EmptyIO
    /\ life # "closed" => cause = "none"

\* Until an AuthMsg is accepted nothing is done for the client, and as long
\* as it is read the first message is not complete.
AuthSide ==
    life # "closed" /\ stage = "Init" =>
        /\ rstage = "none"
        /\ target.conn = "none" /\ target.sent = 0 /\ target.got = 0
        /\ lwrite = EmptyIO /\ rread = EmptyIO /\ rwrite = EmptyIO
        /\ dn = <<>> /\ dnSent = 0
        /\ life = "open" => \/ authTimer = "auth" /\ watch = {"lr"}
                            \/ authTimer = "hangup" /\ watch = {}
        /\ "lr" \in watch =>
              /\ lread.startPos = 0 /\ NextOut(lread) = 0 /\ NextIn(lread) <= upSent
              /\ up # <<>> => lread.total < HdrLen + AuthLen

\* What the client sent: a first message of the length of an AuthMsg, then
\* frames of legal length.
UpSide ==
    /\ Ordered(up) /\ Framed(up, 1) /\ upSent <= WireEnd(up)
    /\ up # <<>> => up[1].w = HdrLen + AuthLen
    /\ target.conn # "none" => up # <<>>

\* UpstreamIntegrity, and every complete frame has been decoded.
RelaySide ==
    stage = "Connect" =>
        /\ rstage # "none" /\ authTimer = "off" /\ target.conn # "none"
        /\ up # <<>> /\ up[1].kind = "auth"
        /\ lread.startPos = 0 /\ NextIn(lread) <= upSent
        /\ NextOut(rwrite) = up[1].a + target.got
        /\ Boundary(up, 1, NextOut(lread), NextIn(rwrite))
        /\ Complete(up, NextOut(lread), NextIn(lread)) = {}

\* DownstreamIntegrity, and what is read from the target is encoded at once.
DownSide ==
    life # "closed" =>
        /\ rread.startPos = 0 /\ rread.total = 0
        /\ NextOut(lwrite) = dnSent /\ NextIn(lwrite) = WireEnd(dn)
        /\ NextOut(rread) = AppEnd(dn) /\ NextIn(rread) <= target.sent
        /\ "lw" \in watch <=> Pending(lwrite) > 0
        /\ "rr" \in watch => "lw" \notin watch

\* A drained write buffer starts over, so its room is all there again.
Room ==
    /\ lread.total <= MaxBuf
    /\ lwrite.total <= RealBuf /\ rwrite.total <= RealBuf
    /\ Pending(lwrite) = 0 => lwrite.total = 0
    /\ Pending(rwrite) = 0 => rwrite.total = 0

IInv ==
    /\ TypeOK /\ TurnTaking
    /\ Idle /\ AuthSide /\ UpSide /\ RelaySide /\ DownSide /\ Room
    /\ EndsRelayed

TargetType == [conn: {"none", "pending", "up", "refused"}, sent: Nat, got: Nat,
               fin: BOOLEAN, rst: BOOLEAN]

LEMMA ConstantTypes ==
    /\ HdrLen \in Nat \ {0} /\ FieldLen \in Nat /\ AuthLen \in Nat
    /\ MaxBuf \in Nat /\ RealBuf \in Nat /\ MaxBuf <= RealBuf
    /\ HdrLen + AuthLen <= MaxBuf
    /\ LongestFrame \in Nat \ {0} /\ LongestFrame <= MaxBuf
    /\ (HdrLen + FieldLen) * MaxFrames \in Nat
    /\ MaxBuf + (HdrLen + FieldLen) * MaxFrames <= RealBuf
<1>1. (HdrLen + FieldLen) * MaxFrames \in Nat
  BY FrameAssumption
<1>2. MaxBuf + (HdrLen + FieldLen) * MaxFrames <= RealBuf /\ MaxBuf \in Nat /\ RealBuf \in Nat
  BY ServerAssumption
<1>3. MaxBuf <= RealBuf
  <2> DEFINE r == (HdrLen + FieldLen) * MaxFrames
  <2>1. r \in Nat /\ MaxBuf + r <= RealBuf
    BY <1>1, <1>2
  <2> HIDE DEF r
  <2> QED
    BY <1>2, <2>1
<1> QED
  BY <1>1, <1>2, <1>3, FrameAssumption, ServerAssumption DEF LongestFrame

LEMMA InitEstablishes == Init => IInv
<1> SUFFICES ASSUME Init PROVE IInv
  OBVIOUS
<1> USE NoFrames, EmptyOffsets, ConstantTypes DEF Init
<1>1. TypeOK
  <2>1. target \in TargetType /\ client \in [fin: BOOLEAN, rst: BOOLEAN]
    BY DEF TargetType
  <2> QED
    BY <2>1 DEF TypeOK, TargetType, Causes, Watchers
<1>2. TurnTaking /\ Idle /\ EndsRelayed
  BY DEF TurnTaking, Idle, EndsRelayed
<1>3. AuthSide /\ RelaySide
  BY DEF AuthSide, RelaySide
<1>4. UpSide /\ DownSide /\ Room
  BY DEF UpSide, DownSide, Room
<1> QED
  BY <1>1, <1>2, <1>3, <1>4 DEF IInv

(***************************************************************************)
(* Closing a session, for a reason that is in order, stops everything and  *)
(* leaves the history of the streams as it is.                             *)
(***************************************************************************)
LEMMA CloseKeeps ==
    ASSUME IInv, NEW why \in Causes, Close(why), EndsRelayed'
    PROVE  IInv'
<1> USE EmptyOffsets DEF IInv, Close, upstream, downstream
<1>1. TypeOK'
  BY DEF TypeOK
<1>2. TurnTaking' /\ Idle'
  BY DEF TurnTaking, Idle
<1>3. AuthSide' /\ RelaySide' /\ DownSide'
  BY DEF AuthSide, RelaySide, DownSide
<1>4. UpSide'
  BY DEF UpSide
<1>5. Room'
  BY ConstantTypes DEF Room
<1> QED
  BY <1>1, <1>2, <1>3, <1>4, <1>5

\* A reason EndsRelayed says nothing about.
LEMMA OtherCloseKeeps ==
    ASSUME IInv, NEW why \in Causes \ {"clientEof", "targetEof"}, Close(why)
    PROVE  IInv'
BY CloseKeeps DEF Close, EndsRelayed

\* While a session is open nothing is said about its end.
LEMMA NothingEnded ==
    ASSUME IInv, life = "open", UNCHANGED cause
    PROVE  EndsRelayed'
BY DEF IInv, Idle, EndsRelayed

(***************************************************************************)
(* acceptCallback.                                                         *)
(***************************************************************************)
LEMMA AcceptKeeps ==
    ASSUME IInv, Accept
    PROVE  IInv'
<1> USE EmptyOffsets DEF IInv, Accept, bufs, upstream, downstream
<1>1. TypeOK'
  BY DEF TypeOK, Watchers
<1>2. Idle /\ AuthSide /\ stage = "Init" /\ lread = EmptyIO /\ cause = "none"
  BY DEF Idle
<1>3. TurnTaking' /\ Idle' /\ EndsRelayed'
  BY <1>2 DEF TurnTaking, Idle, AuthSide, EndsRelayed
<1>4. AuthSide'
  <2>1. /\ NextOut(lread) = 0 /\ NextIn(lread) <= upSent /\ lread.startPos = 0
        /\ lread.total < HdrLen + AuthLen
    BY <1>2, ConstantTypes DEF TypeOK
  <2> QED
    BY <1>2, <2>1 DEF AuthSide
<1>5. UpSide' /\ RelaySide' /\ Room'
  BY <1>2 DEF UpSide, RelaySide, Room
<1>6. DownSide'
  BY <1>2 DEF DownSide, AuthSide
<1> QED
  BY <1>1, <1>3, <1>4, <1>5, <1>6

-----------------------------------------------------------------------------
(***************************************************************************)
(* What holds when the client's read watcher is invoked and returns n.     *)
(***************************************************************************)
LEMMA ReadContext ==
    ASSUME IInv, NEW n, ReadReturns(n)
    PROVE  LET io == AppendBuffer(lread, n)
           IN  /\ n \in Nat \ {0} /\ life = "open" /\ "lr" \in watch
               /\ lread \in IOType /\ lread.startPos = 0 /\ lread.total \in Nat
               /\ io \in IOType /\ io.startPos = 0
               /\ io.total = lread.total + n /\ io.total <= MaxBuf
               /\ NextOut(io) = NextOut(lread) /\ NextIn(io) = NextIn(lread) + n
               /\ NextIn(io) <= upSent /\ upSent <= WireEnd(up) /\ up # <<>>
               /\ NextIn(lread) \in Nat /\ NextOut(lread) \in Nat
               /\ NextIn(lread) = NextOut(lread) + lread.total
<1>1. lread \in IOType /\ lread.total \in Nat
  BY IOOffsets DEF IInv, TypeOK
<1>2. n \in Nat \ {0} /\ lread.total + n <= MaxBuf
  BY <1>1, ConstantTypes DEF ReadReturns
<1>3. life = "open" /\ "lr" \in watch
  BY DEF ReadReturns, IInv, TurnTaking
<1>4. lread.startPos = 0
  BY <1>3 DEF IInv, AuthSide, RelaySide, TypeOK
<1>5. NextIn(lread) \in Nat /\ NextIn(lread) + n <= upSent /\ upSent <= WireEnd(up)
  BY <1>1, IOOffsets DEF ReadReturns, IInv, UpSide
<1>6. up # <<>>
  <2> SUFFICES ASSUME up = <<>> PROVE FALSE
    OBVIOUS
  <2>1. WireEnd(up) = 0 /\ upSent \in Nat
    BY NoFrames DEF IInv, TypeOK
  <2> QED
    BY <1>2, <1>5, <2>1
<1>7. LET io == AppendBuffer(lread, n)
      IN  /\ io \in IOType /\ io.startPos = lread.startPos /\ io.total = lread.total + n
          /\ NextOut(io) = NextOut(lread) /\ NextIn(io) = NextIn(lread) + n
  BY <1>1, <1>2, AppendOffsets
<1>8. NextIn(lread) = NextOut(lread) + lread.total /\ NextOut(lread) \in Nat
  BY <1>1, <1>4, IOOffsets
<1> QED
  BY <1>1, <1>2, <1>3, <1>4, <1>5, <1>6, <1>7, <1>8

\* While the first message is awaited, only the client is read.
LEMMA AwaitingAuth ==
    ASSUME IInv, "lr" \in watch, stage = "Init"
    PROVE  /\ life = "open" /\ watch = {"lr"} /\ authTimer = "auth" /\ rstage = "none"
           /\ NextOut(lread) = 0 /\ NextIn(lread) <= upSent
           /\ up # <<>> => lread.total < HdrLen + AuthLen
           /\ lwrite = EmptyIO /\ rread = EmptyIO /\ rwrite = EmptyIO
<1>1. life = "open"
  BY DEF IInv, TurnTaking
<1> QED
  BY <1>1 DEF IInv, AuthSide

LEMMA ReadAuthPartKeeps ==
    ASSUME IInv, NEW n, ReadAuthPart(n)
    PROVE  IInv'
<1> DEFINE io == AppendBuffer(lread, n)
<1>1. ReadReturns(n) /\ stage = "Init" /\ "lr" \in watch
  BY DEF ReadAuthPart, ReadReturns
<1>2. /\ io \in IOType /\ io.startPos = 0 /\ io.total = lread.total + n /\ io.total <= MaxBuf
      /\ NextOut(io) = NextOut(lread) /\ NextIn(io) <= upSent /\ up # <<>>
      /\ lread.total \in Nat /\ n \in Nat
  BY <1>1, ReadContext
<1>3. /\ life = "open" /\ watch = {"lr"} /\ authTimer = "auth" /\ NextOut(lread) = 0
  BY <1>1, AwaitingAuth
<1>4. io.total < HdrLen + AuthLen
  <2>1. up[1].w = HdrLen + AuthLen
    BY <1>2 DEF IInv, UpSide
  <2>2. up[1].kind = "badlen" => lread.total + n < HdrLen
    BY <1>2, ConstantTypes DEF ReadAuthPart, BadLength
  <2>3. up[1].kind # "badlen" => lread.total + n < HdrLen + AuthLen
    BY <1>2, <2>1, ConstantTypes DEF ReadAuthPart, FirstComplete
  <2> QED
    BY <1>2, <2>2, <2>3, ConstantTypes
<1>5. lread' = io /\ UNCHANGED <<life, cause, stage, rstage, watch, authTimer, timer,
                                 lwrite, rread, rwrite, client, target, up, upSent, dn, dnSent>>
  BY DEF ReadAuthPart, ctl, upstream, downstream
<1> HIDE DEF io
<1> USE <1>5 DEF IInv
<1>6. TypeOK'
  BY <1>2 DEF TypeOK
<1>7. TurnTaking' /\ Idle' /\ EndsRelayed'
  BY <1>3, NothingEnded DEF TurnTaking, Idle
<1>8. AuthSide'
  BY <1>1, <1>2, <1>3, <1>4 DEF AuthSide
<1>9. UpSide' /\ RelaySide' /\ DownSide' /\ Room'
  BY <1>1, <1>2 DEF UpSide, RelaySide, DownSide, Room
<1> QED
  BY <1>6, <1>7, <1>8, <1>9

LEMMA HangUpInvalidClientKeeps ==
    ASSUME IInv, NEW n, HangUpInvalidClient(n)
    PROVE  IInv'
<1> DEFINE io == AppendBuffer(lread, n)
           used == IF BadLength(n) THEN 0 ELSE up[1].w
<1>1. ReadReturns(n) /\ stage = "Init" /\ "lr" \in watch
  BY DEF HangUpInvalidClient, ReadReturns
<1>2. /\ io \in IOType /\ io.startPos = 0 /\ io.total = lread.total + n /\ io.total <= MaxBuf
      /\ up # <<>>
  BY <1>1, ReadContext
<1>3. /\ life = "open" /\ watch = {"lr"} /\ rstage = "none"
      /\ lwrite = EmptyIO /\ rread = EmptyIO /\ rwrite = EmptyIO
  BY <1>1, AwaitingAuth
<1>4. used \in Nat /\ used <= Pending(io)
  <2>1. up[1].w = HdrLen + AuthLen /\ Pending(io) = io.total /\ io.total \in Nat
    BY <1>2, IOOffsets DEF IInv, UpSide
  <2>2. ~BadLength(n) => up[1].w <= lread.total + n
    BY <2>1, ConstantTypes, <1>2 DEF HangUpInvalidClient, FirstComplete
  <2> QED
    BY <1>2, <2>1, <2>2, ConstantTypes
<1>5. /\ lread' = Consume(io, used) /\ watch' = {} /\ authTimer' = "hangup"
      /\ UNCHANGED <<life, cause, stage, rstage, timer, lwrite, rread, rwrite, client, target,
                     up, upSent, dn, dnSent>>
  BY <1>3 DEF HangUpInvalidClient, RestartAuthTimer, upstream, downstream
<1> HIDE DEF io, used
<1>6. lread' \in IOType /\ lread'.total = io.total
  BY <1>2, <1>4, <1>5, ConsumeOffsets
<1> USE <1>5 DEF IInv
<1>7. TypeOK'
  BY <1>6 DEF TypeOK
<1>8. TurnTaking' /\ Idle' /\ EndsRelayed'
  BY <1>3, EmptyOffsets, NothingEnded DEF TurnTaking, Idle
<1>9. AuthSide'
  BY <1>1, <1>3 DEF AuthSide
<1>10. UpSide' /\ RelaySide' /\ Room'
  BY <1>1, <1>2, <1>6 DEF UpSide, RelaySide, Room
<1>11. DownSide'
  BY <1>3, EmptyOffsets DEF DownSide
<1> QED
  BY <1>7, <1>8, <1>9, <1>10, <1>11

(***************************************************************************)
(* The case Connect: from one boundary to the last one that is complete,   *)
(* with what is decoded on the way queued for the target.                  *)
(***************************************************************************)
LEMMA PassThroughProperties ==
    ASSUME up \in Seq(Frame), Ordered(up), Framed(up, 1),
           NEW io \in IOType, io.startPos = 0, io.total <= MaxBuf,
           NEW out \in IOType, Pending(out) = 0, out.total = 0,
           Boundary(up, 1, NextOut(io), NextIn(out)), ~FrameRefused(io),
           NEW ws, PassThrough(io, ws, out)
    PROVE  /\ lread' \in IOType /\ lread'.startPos = 0 /\ lread'.total <= MaxBuf
           /\ NextIn(lread') = NextIn(io)
           /\ rwrite' \in IOType /\ NextOut(rwrite') = NextOut(out)
           /\ rwrite'.total <= RealBuf /\ (Pending(rwrite') = 0 => rwrite'.total = 0)
           /\ Boundary(up, 1, NextOut(lread'), NextIn(rwrite'))
           /\ Complete(up, NextOut(lread'), NextIn(lread')) = {}
           /\ \/ watch' = ws /\ Pending(rwrite') = 0
              \/ watch' = Turn(ws, "lr", "rw")
<1>1. /\ NextOut(io) \in Nat /\ NextIn(io) \in Nat /\ NextOut(io) <= NextIn(io)
      /\ Pending(io) = io.total /\ io.total \in Nat /\ NextIn(io) = NextOut(io) + io.total
      /\ NextOut(out) \in Nat /\ NextIn(out) = NextOut(out) /\ NextIn(out) \in Nat
  <2>1. /\ NextOut(io) \in Nat /\ Pending(io) \in Nat /\ Pending(io) = io.total
        /\ NextIn(io) = NextOut(io) + Pending(io)
    BY IOOffsets
  <2>2. NextOut(out) \in Nat /\ NextIn(out) = NextOut(out) + Pending(out)
    BY IOOffsets
  <2> QED
    BY <2>1, <2>2
<1>r. MaxBuf \in Nat /\ RealBuf \in Nat /\ MaxBuf <= RealBuf
  BY ConstantTypes
<1>2. CASE Complete(up, NextOut(io), NextIn(io)) = {}
  <2>1. lread' = io /\ rwrite' = out /\ watch' = ws
    BY <1>2 DEF PassThrough
  <2> QED
    BY <1>1, <1>2, <1>r, <2>1
<1>3. CASE Complete(up, NextOut(io), NextIn(io)) # {}
  <2> DEFINE k == LastComplete(up, NextIn(io))
             more == AEnd(up, k) - NextIn(out)
             taken == WEnd(up, k) - NextOut(io)
  <2>1. /\ rwrite' = AppendBuffer(out, more)
        /\ lread' = Compack(Consume(io, taken))
        /\ watch' = Turn(ws, "lr", "rw")
    BY <1>1, <1>3 DEF PassThrough
  <2>2. /\ k \in 0..Len(up) /\ WEnd(up, k) \in Nat /\ AEnd(up, k) \in Nat
        /\ NextOut(io) <= WEnd(up, k) /\ WEnd(up, k) <= NextIn(io)
        /\ NextIn(out) <= AEnd(up, k) /\ Boundary(up, 1, WEnd(up, k), AEnd(up, k))
    BY <1>1, DecodeProperties DEF FrameRefused
  <2>3. Complete(up, WEnd(up, k), NextIn(io)) = {}
    BY <1>1, NoneLeftComplete
  <2>4. more <= taken
    BY <2>2, DataIsShorter
  <2>5. /\ more \in Nat /\ NextIn(out) + more = AEnd(up, k)
        /\ taken \in Nat /\ NextOut(io) + taken = WEnd(up, k) /\ taken <= Pending(io)
    <3> DEFINE wEnd == WEnd(up, k)
               aEnd == AEnd(up, k)
               first == NextOut(io)
               rest == Pending(io)
               queued == NextIn(out)
    <3>1. /\ wEnd \in Nat /\ first \in Nat /\ rest \in Nat
          /\ first <= wEnd /\ wEnd <= first + rest
      BY <1>1, <2>2
    <3>2. aEnd \in Nat /\ queued \in Nat /\ queued <= aEnd
      BY <1>1, <2>2
    <3> HIDE DEF wEnd, aEnd, first, rest, queued
    <3>3. /\ aEnd - queued \in Nat /\ queued + (aEnd - queued) = aEnd
          /\ wEnd - first \in Nat /\ first + (wEnd - first) = wEnd
          /\ wEnd - first <= rest
      BY <3>1, <3>2
    <3> QED
      BY <3>3 DEF wEnd, aEnd, first, rest, queued, more, taken
  <2> HIDE DEF k, more, taken
  <2>6. /\ rwrite' \in IOType /\ NextOut(rwrite') = NextOut(out)
        /\ NextIn(rwrite') = AEnd(up, k) /\ rwrite'.total = 0 + more
        /\ Pending(rwrite') = 0 + more
    <3>1. /\ AppendBuffer(out, more) \in IOType
          /\ NextOut(AppendBuffer(out, more)) = NextOut(out)
          /\ NextIn(AppendBuffer(out, more)) = NextIn(out) + more
          /\ AppendBuffer(out, more).total = out.total + more
          /\ Pending(AppendBuffer(out, more)) = Pending(out) + more
      BY <2>5, AppendOffsets
    <3> QED
      BY <2>1, <2>5, <3>1
  <2>7. /\ Consume(io, taken) \in IOType /\ NextOut(Consume(io, taken)) = WEnd(up, k)
        /\ NextIn(Consume(io, taken)) = NextIn(io)
        /\ Pending(Consume(io, taken)) = Pending(io) - taken
    BY <2>5, ConsumeOffsets
  <2>8. /\ lread' \in IOType /\ lread'.startPos = 0 /\ lread'.total = Pending(io) - taken
        /\ NextOut(lread') = WEnd(up, k) /\ NextIn(lread') = NextIn(io)
    BY <2>1, <2>7, CompackOffsets
  <2>9. lread'.total <= MaxBuf /\ rwrite'.total <= RealBuf
    BY <1>1, <1>r, <2>4, <2>5, <2>6, <2>8
  <2> QED
    BY <2>1, <2>2, <2>3, <2>5, <2>6, <2>8, <2>9
<1> QED
  BY <1>2, <1>3

\* The bytes behind a first message that is an AuthMsg are passed through.
LEMMA ReadAuthKeeps ==
    ASSUME IInv, NEW n, ReadAuth(n)
    PROVE  IInv'
<1> DEFINE read == AppendBuffer(lread, n)
           io == Compack(Consume(read, up[1].w))
           out == [EmptyIO EXCEPT !.base = up[1].a]
           ws == watch \cup {"rw"}
<1>1. /\ ReadReturns(n) /\ stage = "Init" /\ "lr" \in watch /\ FirstComplete(n)
      /\ up[1].kind = "auth"
  BY DEF ReadAuth, AuthRead, ReadReturns
<1>2. /\ read \in IOType /\ read.startPos = 0 /\ read.total = lread.total + n
      /\ read.total <= MaxBuf /\ NextOut(read) = NextOut(lread) /\ NextIn(read) <= upSent
      /\ up # <<>> /\ read.total \in Nat /\ NextIn(read) \in Nat /\ Pending(read) = read.total
  BY <1>1, ReadContext, IOOffsets
<1>3. /\ life = "open" /\ watch = {"lr"} /\ authTimer = "auth" /\ rstage = "none"
      /\ NextOut(lread) = 0 /\ lwrite = EmptyIO /\ rread = EmptyIO
  BY <1>1, AwaitingAuth
<1>4. /\ up \in Seq(Frame) /\ Ordered(up) /\ Framed(up, 1)
      /\ up[1].w = HdrLen + AuthLen /\ up[1].a \in Nat
      /\ target \in TargetType /\ target.got = 0
  <2>1. up \in Seq(Frame) /\ up[1] \in Frame
    BY <1>2, EmptySeq, LenProperties, ElementOfSeq DEF IInv, TypeOK
  <2>2. up[1].a \in Nat
    BY <2>1 DEF Frame
  <2> QED
    BY <1>1, <1>2, <1>3, <2>1, <2>2 DEF IInv, TypeOK, TargetType, UpSide, AuthSide
<1>5. up[1].w \in Nat /\ up[1].w <= Pending(read)
  BY <1>1, <1>2, <1>4, ConstantTypes DEF FirstComplete
<1>6. Boundary(up, 1, up[1].w, up[1].a)
  <2>1. 1 \in 1..Len(up) /\ WEnd(up, 1) = up[1].w /\ AEnd(up, 1) = up[1].a
    BY <1>2, <1>4, EmptySeq, LenProperties DEF WEnd, AEnd
  <2> QED
    BY <2>1 DEF Boundary
<1>7. CASE FrameRefused(io)
  <2>1. Close("badFrame")
    BY <1>7 DEF ReadAuth
  <2> QED
    BY <2>1, OtherCloseKeeps DEF Causes
<1>8. CASE ~FrameRefused(io)
  <2>1. /\ PassThrough(io, ws, out)
        /\ stage' = "Connect" /\ rstage' = "Connecting" /\ timer' = TRUE /\ authTimer' = "off"
        /\ target' = [target EXCEPT !.conn = "pending"]
        /\ UNCHANGED <<life, cause, lwrite, rread, client, up, upSent, dn, dnSent>>
    BY <1>8 DEF ReadAuth, StopAuthTimer, upstream, downstream
  <2> HIDE DEF read
  <2>2. /\ Consume(read, up[1].w) \in IOType /\ NextIn(Consume(read, up[1].w)) = NextIn(read)
        /\ NextOut(Consume(read, up[1].w)) = NextOut(read) + up[1].w
        /\ Pending(Consume(read, up[1].w)) = Pending(read) - up[1].w
    BY <1>2, <1>5, ConsumeOffsets
  <2>3. /\ io \in IOType /\ io.startPos = 0 /\ io.total <= MaxBuf
        /\ NextOut(io) = up[1].w /\ NextIn(io) = NextIn(read)
    <3>1. /\ io \in IOType /\ io.startPos = 0 /\ io.total = Pending(read) - up[1].w
          /\ NextOut(io) = NextOut(read) + up[1].w /\ NextIn(io) = NextIn(read)
      BY <2>2, CompackOffsets
    <3> QED
      BY <1>2, <1>3, <1>5, <3>1, ConstantTypes
  <2>4. /\ out \in IOType /\ Pending(out) = 0 /\ out.total = 0
        /\ NextOut(out) = up[1].a /\ NextIn(out) = up[1].a
    BY <1>4 DEF EmptyIO, IOType, Pending, NextOut, NextIn
  <2> HIDE DEF io, out, ws
  <2>5. /\ lread' \in IOType /\ lread'.startPos = 0 /\ lread'.total <= MaxBuf
        /\ NextIn(lread') = NextIn(io)
        /\ rwrite' \in IOType /\ NextOut(rwrite') = NextOut(out)
        /\ rwrite'.total <= RealBuf /\ (Pending(rwrite') = 0 => rwrite'.total = 0)
        /\ Boundary(up, 1, NextOut(lread'), NextIn(rwrite'))
        /\ Complete(up, NextOut(lread'), NextIn(lread')) = {}
        /\ \/ watch' = ws /\ Pending(rwrite') = 0
           \/ watch' = Turn(ws, "lr", "rw")
    BY <1>4, <1>6, <1>8, <2>1, <2>3, <2>4, PassThroughProperties
  <2>6. \/ watch' = {"lr", "rw"} /\ Pending(rwrite') = 0
        \/ watch' = {"rw"}
    BY <1>3, <2>5 DEF Turn, ws
  <2>7. target' \in TargetType /\ target'.conn = "pending" /\ target'.got = 0
        /\ target'.sent = target.sent
    BY <1>4, <2>1 DEF TargetType
  <2> USE <2>1, <2>5, <2>6, <2>7 DEF IInv
  <2>8. TypeOK'
    BY DEF TypeOK, TargetType, Watchers
  <2>9. TurnTaking' /\ Idle' /\ EndsRelayed'
    BY <1>3, NothingEnded DEF TurnTaking, Idle
  <2>10. AuthSide' /\ UpSide'
    BY <1>2, <1>4 DEF AuthSide, UpSide
  <2>11. RelaySide'
    BY <1>1, <1>2, <1>4, <2>3, <2>4 DEF RelaySide
  <2>12. DownSide'
    BY <1>3, EmptyOffsets DEF DownSide
  <2>13. Room'
    BY DEF Room
  <2> QED
    BY <2>8, <2>9, <2>10, <2>11, <2>12, <2>13
<1> QED
  BY <1>7, <1>8

(***************************************************************************)
(* Frames: the buffer of an authenticated client, read into again.         *)
(***************************************************************************)
LEMMA ReadFramesKeeps ==
    ASSUME IInv, NEW n, ReadFrames(n)
    PROVE  IInv'
<1> DEFINE io == AppendBuffer(lread, n)
<1>1. ReadReturns(n) /\ stage = "Connect" /\ "lr" \in watch
  BY DEF ReadFrames, ReadReturns
<1>2. /\ io \in IOType /\ io.startPos = 0 /\ io.total <= MaxBuf
      /\ NextOut(io) = NextOut(lread) /\ NextIn(io) <= upSent /\ life = "open"
  BY <1>1, ReadContext
<1>3. rwrite \in IOType /\ Pending(rwrite) = 0 /\ rwrite.total = 0
  <2>1. rwrite \in IOType /\ ~(Pending(rwrite) > 0)
    BY <1>1 DEF IInv, TypeOK, TurnTaking
  <2>2. Pending(rwrite) = 0
    BY <2>1, IOOffsets
  <2> QED
    BY <2>1, <2>2 DEF IInv, Room
<1>4. /\ up \in Seq(Frame) /\ Ordered(up) /\ Framed(up, 1)
      /\ Boundary(up, 1, NextOut(lread), NextIn(rwrite))
      /\ NextOut(rwrite) = up[1].a + target.got
  BY <1>1 DEF IInv, TypeOK, UpSide, RelaySide
<1>5. CASE FrameRefused(io)
  <2>1. Close("badFrame")
    BY <1>3, <1>5 DEF ReadFrames
  <2> QED
    BY <2>1, OtherCloseKeeps DEF Causes
<1>6. CASE ~FrameRefused(io)
  <2>1. /\ PassThrough(io, watch, rwrite)
        /\ UNCHANGED <<life, cause, stage, rstage, authTimer, timer, lwrite, rread,
                       client, target, up, upSent, dn, dnSent>>
    BY <1>6 DEF ReadFrames, upstream, downstream
  <2> HIDE DEF io
  <2>2. /\ lread' \in IOType /\ lread'.startPos = 0 /\ lread'.total <= MaxBuf
        /\ NextIn(lread') = NextIn(io)
        /\ rwrite' \in IOType /\ NextOut(rwrite') = NextOut(rwrite)
        /\ rwrite'.total <= RealBuf /\ (Pending(rwrite') = 0 => rwrite'.total = 0)
        /\ Boundary(up, 1, NextOut(lread'), NextIn(rwrite'))
        /\ Complete(up, NextOut(lread'), NextIn(lread')) = {}
        /\ \/ watch' = watch /\ Pending(rwrite') = 0
           \/ watch' = Turn(watch, "lr", "rw")
    BY <1>2, <1>3, <1>4, <1>6, <2>1, PassThroughProperties
  <2> USE <2>1, <2>2 DEF IInv
  <2>3. TypeOK'
    <3>1. watch' \subseteq Watchers
      BY DEF TypeOK, Watchers, Turn
    <3> QED
      BY <3>1 DEF TypeOK
  <2>4. TurnTaking' /\ Idle' /\ EndsRelayed'
    BY <1>1, <1>2, NothingEnded DEF TurnTaking, Idle, Turn
  <2>5. AuthSide' /\ UpSide'
    BY <1>1 DEF AuthSide, UpSide
  <2>6. RelaySide'
    BY <1>1, <1>2, <1>4 DEF RelaySide
  <2>7. DownSide'
    BY <1>2 DEF DownSide, Turn
  <2>8. Room'
    BY DEF Room
  <2> QED
    BY <2>3, <2>4, <2>5, <2>6, <2>7, <2>8
<1> QED
  BY <1>5, <1>6

\* The client's stream is closed at its end: nothing is left in the buffer,
\* and as it is read again, nothing is queued for the target.
LEMMA ReadEofKeeps ==
    ASSUME IInv, ReadEof
    PROVE  IInv'
<1>1. /\ "lr" \in watch /\ lread.total = 0 /\ NextIn(lread) = upSent /\ Close("clientEof")
  BY DEF ReadEof, ClientDrained
<1>2. life = "open" /\ lread \in IOType /\ rwrite \in IOType /\ upSent \in Nat
  BY <1>1 DEF IInv, TypeOK, TurnTaking
<1>3. CASE stage = "Init"
  <2>1. target.conn = "none"
    BY <1>2, <1>3 DEF IInv, AuthSide
  <2>2. EndsRelayed'
    BY <1>1, <2>1 DEF Close, EndsRelayed
  <2> QED
    BY <1>1, <2>2, CloseKeeps DEF Causes
<1>4. CASE stage = "Connect"
  <2>1. /\ Boundary(up, 1, NextOut(lread), NextIn(rwrite)) /\ lread.startPos = 0
        /\ NextOut(rwrite) = up[1].a + target.got
    BY <1>4 DEF IInv, RelaySide
  <2>2. NextOut(lread) = upSent
    BY <1>1, <1>2, <2>1, IOOffsets
  <2>3. NextIn(rwrite) = up[1].a + target.got
    <3>1. ~(Pending(rwrite) > 0)
      BY <1>1 DEF IInv, TurnTaking
    <3> QED
      BY <1>2, <2>1, <3>1, IOOffsets
  <2>4. /\ WEnd(up, LastComplete(up, upSent)) = upSent
        /\ AEnd(up, LastComplete(up, upSent)) = up[1].a + target.got
    <3>1. up \in Seq(Frame) /\ Ordered(up) /\ 1 \in Nat
      BY DEF IInv, TypeOK, UpSide
    <3>2. Boundary(up, 1, upSent, up[1].a + target.got)
      BY <2>1, <2>2, <2>3
    <3> QED
      BY <1>2, <3>1, <3>2, BoundaryIsLast
  <2>5. EndsRelayed'
    BY <1>1, <2>4 DEF Close, EndsRelayed, upstream
  <2> QED
    BY <1>1, <2>5, CloseKeeps DEF Causes
<1> QED
  BY <1>3, <1>4 DEF IInv, TypeOK

-----------------------------------------------------------------------------
(***************************************************************************)
(* remoteWriteCallback.                                                    *)
(***************************************************************************)
LEMMA RemoteWriteKeeps ==
    ASSUME IInv, NEW n, RemoteWrite(n)
    PROVE  IInv'
<1>1. /\ "rw" \in watch /\ rwrite \in IOType /\ Pending(rwrite) \in Nat
      /\ n \in Nat /\ n <= Pending(rwrite) /\ target \in TargetType
  <2>1. "rw" \in watch /\ rwrite \in IOType /\ n \in 0..Pending(rwrite)
        /\ target \in TargetType
    BY DEF RemoteWrite, IInv, TypeOK, TargetType
  <2> QED
    BY <2>1, IOOffsets
<1>2. life = "open" /\ stage = "Connect"
  BY <1>1 DEF IInv, TypeOK, TurnTaking, AuthSide
<1>3. /\ rwrite' = ResetIfDrained(Consume(rwrite, n))
      /\ watch' = (IF n = Pending(rwrite) THEN Turn(watch, "rw", "lr") ELSE watch)
                  \cup (IF rstage = "Connecting" THEN {"rr"} ELSE {})
      /\ rstage' = "Connected" /\ timer' = FALSE
      /\ target' = [target EXCEPT !.got = @ + n]
      /\ UNCHANGED <<life, cause, stage, authTimer, lread, lwrite, rread, client,
                     up, upSent, dn, dnSent>>
  BY DEF RemoteWrite, TurnBack, upstream, downstream
<1>4. /\ rwrite' \in IOType /\ NextOut(rwrite') = NextOut(rwrite) + n
      /\ NextIn(rwrite') = NextIn(rwrite) /\ Pending(rwrite') = Pending(rwrite) - n
      /\ n = Pending(rwrite) => rwrite'.total = 0
      /\ rwrite'.total <= rwrite.total
  BY <1>1, <1>3, WrittenOffsets
<1>5. /\ target' \in TargetType /\ target'.got = target.got + n /\ target'.sent = target.sent
      /\ target'.conn = target.conn
  BY <1>1, <1>3 DEF TargetType
<1>6. /\ rstage \in {"Connecting", "Connected"}
      /\ rstage = "Connecting" => "lw" \notin watch /\ "rr" \notin watch
      /\ Pending(rwrite) > 0 => "lr" \notin watch
  BY <1>2 DEF IInv, TypeOK, RelaySide, TurnTaking
<1>7. /\ "lw" \in watch' <=> "lw" \in watch
      /\ ("rr" \in watch') # ("lw" \in watch')
  BY <1>1, <1>3, <1>6 DEF IInv, TurnTaking, Turn
<1> USE <1>3 DEF IInv
<1>8. TypeOK'
  <2>1. watch' \subseteq Watchers
    BY DEF TypeOK, Watchers, Turn
  <2> QED
    BY <1>4, <1>5, <2>1 DEF TypeOK, TargetType
<1>9. TurnTaking'
  <2>1. CASE n = Pending(rwrite)
    <3>1. Pending(rwrite') = 0 /\ "lr" \in watch' /\ "rw" \notin watch'
      BY <1>1, <1>4, <2>1 DEF Turn
    <3> QED
      BY <1>2, <1>7, <3>1 DEF TurnTaking, DownSide
  <2>2. CASE n # Pending(rwrite)
    <3>1. Pending(rwrite') > 0 /\ "rw" \in watch' /\ "lr" \notin watch'
      BY <1>1, <1>4, <1>6, <2>2
    <3> QED
      BY <1>2, <1>7, <3>1 DEF TurnTaking, DownSide
  <2> QED
    BY <2>1, <2>2
<1>10. Idle' /\ AuthSide' /\ UpSide' /\ EndsRelayed'
  BY <1>2, NothingEnded DEF Idle, AuthSide, UpSide
<1>11. RelaySide'
  <2>1. up # <<>>
    BY <1>2 DEF RelaySide
  <2>2. up \in Seq(Frame) /\ up[1] \in Frame
    BY <2>1, EmptySeq, LenProperties, ElementOfSeq DEF TypeOK
  <2>3. up[1].a \in Nat
    BY <2>2 DEF Frame
  <2>4. target.got \in Nat /\ NextOut(rwrite) = up[1].a + target.got
    BY <1>1, <1>2 DEF RelaySide, TargetType
  <2> QED
    BY <1>1, <1>2, <1>4, <1>5, <2>3, <2>4 DEF RelaySide
<1>12. DownSide'
  BY <1>2, <1>5, <1>7 DEF DownSide
<1>13. Room'
  <2>1. rwrite.total \in Nat /\ rwrite'.total \in Nat /\ rwrite.total <= RealBuf
    BY <1>1, <1>4, IOOffsets DEF Room
  <2>2. Pending(rwrite') = 0 => rwrite'.total = 0
    BY <1>1, <1>4
  <2> QED
    BY <1>4, <2>1, <2>2, ConstantTypes DEF Room
<1> QED
  BY <1>8, <1>9, <1>10, <1>11, <1>12, <1>13

-----------------------------------------------------------------------------
(***************************************************************************)
(* remoteReadCallback and writeCallback.                                   *)
(***************************************************************************)
LEMMA ReadingTarget ==
    ASSUME IInv, "rr" \in watch
    PROVE  /\ life = "open" /\ stage = "Connect" /\ rstage = "Connected" /\ "lw" \notin watch
           /\ lwrite \in IOType /\ Pending(lwrite) = 0 /\ lwrite.total = 0
           /\ NextOut(lwrite) = dnSent /\ NextIn(lwrite) = dnSent /\ WireEnd(dn) = dnSent
           /\ rread \in IOType /\ rread.startPos = 0 /\ rread.total = 0
           /\ NextOut(rread) = AppEnd(dn) /\ NextIn(rread) = AppEnd(dn)
<1>1. life = "open" /\ stage = "Connect" /\ rstage = "Connected"
  BY DEF IInv, TypeOK, TurnTaking, AuthSide, RelaySide
<1>2. /\ "lw" \notin watch /\ ~(Pending(lwrite) > 0) /\ lwrite \in IOType /\ rread \in IOType
      /\ rread.startPos = 0 /\ rread.total = 0
      /\ NextOut(lwrite) = dnSent /\ NextIn(lwrite) = WireEnd(dn)
      /\ NextOut(rread) = AppEnd(dn)
  BY <1>1 DEF IInv, TypeOK, DownSide
<1>3. Pending(lwrite) = 0 /\ NextIn(lwrite) = NextOut(lwrite)
  BY <1>2, IOOffsets
<1>4. NextIn(rread) = NextOut(rread)
  BY <1>2, IOOffsets
<1>5. lwrite.total = 0
  BY <1>3 DEF IInv, Room
<1> QED
  BY <1>1, <1>2, <1>3, <1>4, <1>5

LEMMA RemoteReadEofKeeps ==
    ASSUME IInv, RemoteReadEof
    PROVE  IInv'
<1>1. "rr" \in watch /\ NextIn(rread) = target.sent /\ Close("targetEof")
  BY DEF RemoteReadEof, TargetDrained
<1>2. dnSent = WireEnd(dn) /\ AppEnd(dn) = target.sent
  BY <1>1, ReadingTarget
<1>3. EndsRelayed'
  BY <1>1, <1>2 DEF Close, EndsRelayed, downstream
<1> QED
  BY <1>1, <1>3, CloseKeeps DEF Causes

LEMMA RemoteReadKeeps ==
    ASSUME IInv, NEW n, RemoteRead(n)
    PROVE  IInv'
<1>1. "rr" \in watch /\ n \in 1..(MaxBuf - rread.total) /\ NextIn(rread) + n <= target.sent
  BY DEF RemoteRead
<1>2. /\ life = "open" /\ stage = "Connect" /\ rstage = "Connected" /\ "lw" \notin watch
      /\ lwrite \in IOType /\ Pending(lwrite) = 0 /\ lwrite.total = 0
      /\ NextOut(lwrite) = dnSent /\ NextIn(lwrite) = WireEnd(dn)
      /\ rread \in IOType /\ rread.startPos = 0 /\ rread.total = 0
      /\ NextOut(rread) = AppEnd(dn) /\ NextIn(rread) = AppEnd(dn)
  BY <1>1, ReadingTarget
<1>3. n \in Nat \ {0} /\ n <= MaxBuf /\ rread.total + n = n
  BY <1>1, <1>2, ConstantTypes
<1>4. PICK c \in Cuts(n) : dn' = Encode(dn, c) /\ lwrite' = AppendBuffer(lwrite, EncodedLen(c))
  BY <1>3 DEF RemoteRead
<1>5. /\ rread' = ResetBuffer(AppendBuffer(rread, n))
      /\ watch' = Turn(watch, "rr", "lw")
      /\ UNCHANGED <<life, cause, stage, rstage, authTimer, timer, lread, rwrite,
                     client, target, up, upSent, dnSent>>
  BY DEF RemoteRead, upstream
<1>6. /\ dn \in Seq(Frame) /\ dn' \in Seq(Frame) /\ EncodedLen(c) \in Nat \ {0}
      /\ WireEnd(dn') = WireEnd(dn) + EncodedLen(c) /\ AppEnd(dn') = AppEnd(dn) + n
  BY <1>3, <1>4, EncodeProperties DEF IInv, TypeOK
<1>7. EncodedLen(c) <= RealBuf
  <2> DEFINE r == (HdrLen + FieldLen) * MaxFrames
  <2>1. EncodedLen(c) <= n + r
    BY <1>3, EncodedFits
  <2>2. r \in Nat /\ MaxBuf + r <= RealBuf /\ MaxBuf \in Nat /\ RealBuf \in Nat
    BY ConstantTypes
  <2> HIDE DEF r
  <2> QED
    BY <1>3, <1>6, <2>1, <2>2
<1>8. /\ lwrite' \in IOType /\ NextOut(lwrite') = dnSent /\ NextIn(lwrite') = WireEnd(dn')
      /\ Pending(lwrite') > 0 /\ lwrite'.total <= RealBuf
  <2>1. /\ lwrite' \in IOType /\ NextOut(lwrite') = NextOut(lwrite)
        /\ NextIn(lwrite') = NextIn(lwrite) + EncodedLen(c)
        /\ Pending(lwrite') = 0 + EncodedLen(c) /\ lwrite'.total = 0 + EncodedLen(c)
    <3>1. EncodedLen(c) \in Nat
      BY <1>6
    <3> QED
      BY <1>2, <1>4, <3>1, AppendOffsets
  <2> QED
    BY <1>2, <1>6, <1>7, <2>1
<1>9. /\ rread' \in IOType /\ NextIn(rread') = NextIn(rread) + n /\ NextOut(rread') = AppEnd(dn')
      /\ rread'.total = 0 /\ rread'.startPos = 0
  <2>1. AppendBuffer(rread, n) \in IOType /\ NextIn(AppendBuffer(rread, n)) = NextIn(rread) + n
    BY <1>2, <1>3, AppendOffsets
  <2> QED
    BY <1>2, <1>5, <1>6, <2>1, ResetOffsets
<1>10. watch' = (watch \ {"rr"}) \cup {"lw"}
  BY <1>5 DEF Turn
<1> USE <1>5 DEF IInv
<1>11. TypeOK'
  <2>1. watch' \subseteq Watchers
    BY <1>10 DEF TypeOK, Watchers
  <2> QED
    BY <1>6, <1>8, <1>9, <2>1 DEF TypeOK
<1>12. TurnTaking'
  BY <1>2, <1>8, <1>10 DEF TurnTaking
<1>13. Idle' /\ AuthSide' /\ UpSide' /\ RelaySide' /\ EndsRelayed'
  BY <1>2, NothingEnded DEF Idle, AuthSide, UpSide, RelaySide
<1>14. DownSide'
  BY <1>1, <1>2, <1>8, <1>9, <1>10 DEF DownSide
<1>15. Room'
  BY <1>8 DEF Room
<1> QED
  BY <1>11, <1>12, <1>13, <1>14, <1>15

LEMMA WriteKeeps ==
    ASSUME IInv, NEW n, Write(n)
    PROVE  IInv'
<1>1. /\ "lw" \in watch /\ lwrite \in IOType /\ Pending(lwrite) \in Nat
      /\ n \in Nat /\ n <= Pending(lwrite) /\ dnSent \in Nat
  <2>1. "lw" \in watch /\ lwrite \in IOType /\ n \in 1..Pending(lwrite) /\ dnSent \in Nat
    BY DEF Write, IInv, TypeOK
  <2> QED
    BY <2>1, IOOffsets
<1>2. life = "open" /\ stage = "Connect" /\ rstage = "Connected" /\ "rr" \notin watch
  BY <1>1 DEF IInv, TypeOK, TurnTaking, AuthSide, RelaySide
<1>3. /\ lwrite' = ResetIfDrained(Consume(lwrite, n))
      /\ watch' = (IF n = Pending(lwrite) THEN Turn(watch, "lw", "rr") ELSE watch)
      /\ dnSent' = dnSent + n
      /\ UNCHANGED <<life, cause, stage, rstage, authTimer, timer, lread, rread, rwrite,
                     client, target, up, upSent, dn>>
  BY DEF Write, TurnBack, upstream
<1>4. /\ lwrite' \in IOType /\ NextOut(lwrite') = NextOut(lwrite) + n
      /\ NextIn(lwrite') = NextIn(lwrite) /\ Pending(lwrite') = Pending(lwrite) - n
      /\ n = Pending(lwrite) => lwrite'.total = 0
      /\ lwrite'.total <= lwrite.total
  BY <1>1, <1>3, WrittenOffsets
<1>5. /\ "lr" \in watch' <=> "lr" \in watch
      /\ "rw" \in watch' <=> "rw" \in watch
      /\ ("rr" \in watch') # ("lw" \in watch')
      /\ "lw" \in watch' <=> Pending(lwrite') > 0
  BY <1>1, <1>2, <1>3, <1>4 DEF Turn
<1> USE <1>3 DEF IInv
<1>6. TypeOK'
  <2>1. watch' \subseteq Watchers
    BY DEF TypeOK, Watchers, Turn
  <2> QED
    BY <1>1, <1>4, <2>1 DEF TypeOK
<1>7. TurnTaking'
  BY <1>2, <1>5 DEF TurnTaking
<1>8. Idle' /\ AuthSide' /\ UpSide' /\ RelaySide' /\ EndsRelayed'
  BY <1>2, NothingEnded DEF Idle, AuthSide, UpSide, RelaySide
<1>9. DownSide'
  BY <1>2, <1>4, <1>5 DEF DownSide
<1>10. Room'
  <2>1. lwrite.total \in Nat /\ lwrite'.total \in Nat /\ lwrite.total <= RealBuf
    BY <1>1, <1>4, IOOffsets DEF Room
  <2>2. Pending(lwrite') = 0 => lwrite'.total = 0
    BY <1>1, <1>4
  <2> QED
    BY <1>4, <2>1, <2>2, ConstantTypes DEF Room
<1> QED
  BY <1>6, <1>7, <1>8, <1>9, <1>10

-----------------------------------------------------------------------------
(***************************************************************************)
(* The environment.                                                        *)
(***************************************************************************)
(***************************************************************************)
(* What the session needs to know of the other end: the client only adds   *)
(* legal frames behind those it encoded, the first of the length of an     *)
(* AuthMsg, and sends no more than it encoded.                             *)
(***************************************************************************)
ClientGoesOn ==
    /\ UNCHANGED <<ctl, bufs, client, target, downstream>>
    /\ up' \in Seq(Frame) /\ Ordered(up') /\ Framed(up', 1) /\ Continues(up', up)
    /\ up' # <<>> => up'[1].w = HdrLen + AuthLen
    /\ upSent' \in Nat /\ upSent <= upSent' /\ upSent' <= WireEnd(up')
    /\ life = "closed" => upSent' = upSent

LEMMA ClientGoesOnKeeps ==
    ASSUME IInv, ClientGoesOn
    PROVE  IInv'
<1>1. UNCHANGED <<life, cause, stage, rstage, watch, authTimer, timer,
                  lread, lwrite, rread, rwrite, client, target, dn, dnSent>>
  BY DEF ClientGoesOn, ctl, bufs, downstream
<1>2. /\ up' \in Seq(Frame) /\ Ordered(up') /\ Framed(up', 1) /\ Continues(up', up)
      /\ up' # <<>> => up'[1].w = HdrLen + AuthLen
      /\ upSent' \in Nat /\ upSent <= upSent' /\ upSent' <= WireEnd(up')
      /\ life = "closed" => upSent' = upSent
  BY DEF ClientGoesOn
<1>3. /\ up \in Seq(Frame) /\ upSent \in Nat /\ upSent <= WireEnd(up) /\ WireEnd(up) \in Nat
      /\ lread \in IOType /\ lread.total \in Nat
      /\ NextIn(lread) \in Nat /\ NextOut(lread) \in Nat
      /\ target.conn # "none" => up # <<>>
  BY EndsAreNaturals, IOOffsets DEF IInv, TypeOK, UpSide
<1>4. up # <<>> => up' # <<>> /\ up'[1] = up[1]
  BY <1>2, <1>3, ContinuedFirst
<1>5. TypeOK'
  BY <1>1, <1>2 DEF IInv, TypeOK
<1>6. TurnTaking' /\ Idle' /\ Room' /\ DownSide'
  BY <1>1 DEF IInv, TurnTaking, Idle, Room, DownSide
<1>7. AuthSide'
  <2> SUFFICES ASSUME life # "closed", stage = "Init", "lr" \in watch
               PROVE  /\ lread.startPos = 0 /\ NextOut(lread) = 0 /\ NextIn(lread) <= upSent'
                      /\ up' # <<>> => lread.total < HdrLen + AuthLen
    BY <1>1 DEF IInv, AuthSide
  <2>1. /\ lread.startPos = 0 /\ NextOut(lread) = 0 /\ NextIn(lread) <= upSent
        /\ up # <<>> => lread.total < HdrLen + AuthLen
    BY DEF IInv, AuthSide
  <2>2. up = <<>> => lread.total < HdrLen + AuthLen
    <3> SUFFICES ASSUME up = <<>> PROVE lread.total < HdrLen + AuthLen
      OBVIOUS
    <3>1. upSent = 0
      BY <1>3, NoFrames
    <3>2. NextIn(lread) = lread.total
      BY <1>3, <2>1, IOOffsets
    <3> QED
      BY <1>3, <2>1, <3>1, <3>2, ConstantTypes
  <2> QED
    BY <1>2, <1>3, <2>1, <2>2
<1>8. UpSide'
  BY <1>1, <1>2, <1>3, <1>4 DEF UpSide
<1>9. RelaySide'
  <2> SUFFICES ASSUME stage = "Connect" PROVE RelaySide'
    BY <1>1 DEF RelaySide
  <2>1. /\ rstage # "none" /\ authTimer = "off" /\ target.conn # "none"
        /\ up # <<>> /\ up[1].kind = "auth"
        /\ lread.startPos = 0 /\ NextIn(lread) <= upSent
        /\ NextOut(rwrite) = up[1].a + target.got
        /\ Boundary(up, 1, NextOut(lread), NextIn(rwrite))
        /\ Complete(up, NextOut(lread), NextIn(lread)) = {}
    BY DEF IInv, RelaySide
  <2>2. NextIn(lread) <= WireEnd(up) /\ NextIn(lread) <= upSent'
    BY <1>2, <1>3, <2>1
  <2>3. Complete(up', NextOut(lread), NextIn(lread)) = {}
    BY <1>2, <1>3, <2>1, <2>2, ContinuedComplete
  <2>4. Boundary(up', 1, NextOut(lread), NextIn(rwrite)) /\ 1 \in Nat
    BY <1>2, <1>3, <2>1, ContinuedBoundary
  <2> QED
    BY <1>1, <1>4, <2>1, <2>2, <2>3, <2>4 DEF RelaySide
<1>10. EndsRelayed'
  <2>1. CASE cause = "clientEof" /\ target.conn # "none"
    <3>1. upSent' = upSent /\ up'[1] = up[1]
      BY <1>2, <1>3, <1>4, <2>1 DEF IInv, Idle
    <3>2. /\ WEnd(up', LastComplete(up', upSent)) = WEnd(up, LastComplete(up, upSent))
          /\ AEnd(up', LastComplete(up', upSent)) = AEnd(up, LastComplete(up, upSent))
      BY <1>2, <1>3, ContinuedLast
    <3> QED
      BY <1>1, <2>1, <3>1, <3>2 DEF IInv, EndsRelayed
  <2>2. CASE ~(cause = "clientEof" /\ target.conn # "none")
    BY <1>1, <2>2 DEF IInv, EndsRelayed
  <2> QED
    BY <2>1, <2>2
<1> QED
  BY <1>5, <1>6, <1>7, <1>8, <1>9, <1>10 DEF IInv

LEMMA ClientStartsGoesOn ==
    ASSUME IInv, NEW kind \in Kinds \ {"data"}, NEW n, ClientStarts(kind, n)
    PROVE  ClientGoesOn
<1> DEFINE f == [w |-> HdrLen + AuthLen, a |-> 0, kind |-> kind]
<1>1. /\ life = "open" /\ up = <<>> /\ up' = <<f>> /\ n \in 0..(HdrLen + AuthLen) /\ upSent' = n
      /\ UNCHANGED <<ctl, bufs, client, target, downstream>>
  BY DEF ClientStarts
<1>2. /\ f \in Frame /\ f.w = HdrLen + AuthLen
      /\ HdrLen + AuthLen \in Nat \ {0} /\ upSent' \in Nat /\ upSent' <= HdrLen + AuthLen
  BY <1>1, ConstantTypes DEF Frame
<1>3. upSent <= upSent'
  <2>1. upSent \in Nat /\ upSent <= WireEnd(up)
    BY DEF IInv, TypeOK, UpSide
  <2> QED
    BY <1>1, <1>2, <2>1, NoFrames
<1> HIDE DEF f
<1>4. /\ <<f>> \in Seq(Frame) /\ <<f>>[1] = f /\ WireEnd(<<f>>) = f.w
      /\ Ordered(<<f>>) /\ Framed(<<f>>, 1) /\ Continues(<<f>>, <<>>)
  BY <1>2, FirstFrame
<1> QED
  BY <1>1, <1>2, <1>3, <1>4 DEF ClientGoesOn

\* A frame encoded and sent in part, and the rest of it.
LEMMA ClientSendsGoesOn ==
    ASSUME IInv,
           \/ ClientSendsRest
           \/ \E size \in 1..MaxChunk, kind \in Kinds \ {"auth"},
                 n \in 0..(HdrLen + FieldLen + MaxChunk) : ClientEncodes(size, kind, n)
    PROVE  ClientGoesOn
<1>1. /\ up \in Seq(Frame) /\ Ordered(up) /\ Framed(up, 1) /\ upSent <= WireEnd(up)
      /\ WireEnd(up) \in Nat /\ AppEnd(up) \in Nat /\ upSent \in Nat /\ Len(up) \in Nat
      /\ up # <<>> => up[1].w = HdrLen + AuthLen
  BY EndsAreNaturals DEF IInv, TypeOK, UpSide
<1>2. UNCHANGED <<ctl, bufs, client, target, downstream>> /\ life # "closed"
  BY DEF ClientSendsRest, ClientEncodes
<1>3. CASE ClientSendsRest
  <2>1. up' = up /\ upSent' = WireEnd(up)
    BY <1>3 DEF ClientSendsRest
  <2>2. Continues(up, up) /\ WireEnd(up) <= WireEnd(up)
    BY <1>1 DEF Continues
  <2> QED
    BY <1>1, <1>2, <2>1, <2>2 DEF ClientGoesOn
<1>4. CASE \E size \in 1..MaxChunk, kind \in Kinds \ {"auth"},
              n \in 0..(HdrLen + FieldLen + MaxChunk) : ClientEncodes(size, kind, n)
  <2> PICK size \in 1..MaxChunk, kind \in Kinds \ {"auth"},
           n \in 0..(HdrLen + FieldLen + MaxChunk) : ClientEncodes(size, kind, n)
    BY <1>4
  <2> DEFINE f == [w |-> WireEnd(up) + HdrLen + FieldLen + size, a |-> AppEnd(up) + size,
                   kind |-> kind]
  <2>1. /\ up' = Append(up, f) /\ n \in 0..(f.w - upSent) /\ upSent' = upSent + n
        /\ up # <<>>
    BY DEF ClientEncodes
  <2>2. /\ f \in Frame /\ f.w > WireEnd(up) /\ f.a >= AppEnd(up)
        /\ f.w - WireEnd(up) <= LongestFrame /\ f.a - AppEnd(up) <= f.w - WireEnd(up)
    BY <1>1, NextFrame
  <2>3. f.w \in Nat
    BY <2>2 DEF Frame
  <2> HIDE DEF f
  <2>4. upSent' \in Nat /\ upSent <= upSent' /\ upSent' <= f.w
    BY <1>1, <2>1, <2>3
  <2>5. /\ Append(up, f) \in Seq(Frame) /\ Ordered(Append(up, f))
        /\ Continues(Append(up, f), up) /\ WireEnd(Append(up, f)) = f.w
    BY <1>1, <2>2, AppendKeepsOrder
  <2>6. Framed(Append(up, f), 1)
    BY <1>1, <2>2, AppendKeepsFramed
  <2>7. Append(up, f)[1] = up[1]
    BY <1>1, <2>1, <2>5, ContinuedFirst
  <2> QED
    BY <1>1, <1>2, <2>1, <2>4, <2>5, <2>6, <2>7 DEF ClientGoesOn
<1> QED
  BY <1>3, <1>4

LEMMA ConnectionEventsKeep ==
    ASSUME IInv,
           \/ ClientCloses \/ ClientResets \/ TargetCloses \/ TargetResets
           \/ \E result \in {"up", "refused"} : ConnectEnds(result)
           \/ \E n \in 1..MaxDown : TargetSends(n)
    PROVE  IInv'
<1>1. /\ client \in [fin: BOOLEAN, rst: BOOLEAN] /\ target \in TargetType
      /\ target.sent \in Nat /\ NextIn(rread) \in Nat
  BY IOOffsets DEF IInv, TypeOK, TargetType
<1>2. /\ UNCHANGED <<life, cause, stage, rstage, watch, authTimer, timer,
                     lread, lwrite, rread, rwrite, up, upSent, dn, dnSent>>
      /\ life = "open"
  BY DEF ClientCloses, ClientResets, TargetCloses, TargetResets, ConnectEnds, TargetSends,
         TargetLive, ctl, bufs, upstream, downstream
<1>3. client' \in [fin: BOOLEAN, rst: BOOLEAN]
  BY <1>1 DEF ClientCloses, ClientResets, TargetCloses, TargetResets, ConnectEnds, TargetSends
<1>4. /\ target' \in TargetType /\ target'.got = target.got /\ target.sent <= target'.sent
      /\ target'.sent # target.sent => target.conn = "up"
      /\ target'.conn = "none" <=> target.conn = "none"
  <2>1. CASE ClientCloses \/ ClientResets
    BY <1>1, <2>1 DEF ClientCloses, ClientResets
  <2>2. CASE TargetCloses \/ TargetResets
    <3>1. \/ target' = [target EXCEPT !.fin = TRUE]
          \/ target' = [target EXCEPT !.rst = TRUE]
      BY <2>2 DEF TargetCloses, TargetResets
    <3>2. /\ target' \in TargetType /\ target'.conn = target.conn
          /\ target'.got = target.got /\ target'.sent = target.sent
      BY <1>1, <3>1 DEF TargetType
    <3> QED
      BY <1>1, <3>2
  <2>3. CASE \E result \in {"up", "refused"} : ConnectEnds(result)
    <3>1. PICK result \in {"up", "refused"} :
             target.conn = "pending" /\ target' = [target EXCEPT !.conn = result]
      BY <2>3 DEF ConnectEnds
    <3>2. /\ target' \in TargetType /\ target'.conn = result
          /\ target'.got = target.got /\ target'.sent = target.sent
      BY <1>1, <3>1 DEF TargetType
    <3> QED
      BY <1>1, <3>1, <3>2
  <2>4. ASSUME NEW n \in 1..MaxDown, TargetSends(n)
        PROVE  /\ target' \in TargetType /\ target'.got = target.got
               /\ target.sent <= target'.sent /\ target.conn = "up"
               /\ target'.conn = target.conn
    <3>1. target.sent + n \in Nat /\ target.sent <= target.sent + n
      BY <1>1
    <3>2. target' = [target EXCEPT !.sent = target.sent + n] /\ target.conn = "up"
      BY <2>4 DEF TargetSends, TargetLive
    <3> DEFINE more == target.sent + n
    <3>3. more \in Nat /\ target.sent <= more /\ target' = [target EXCEPT !.sent = more]
      BY <3>1, <3>2
    <3> HIDE DEF more
    <3>4. target' \in TargetType /\ target'.sent = more /\ target'.got = target.got
          /\ target'.conn = target.conn
      BY <1>1, <3>3 DEF TargetType
    <3> QED
      BY <3>2, <3>3, <3>4
  <2> QED
    BY <1>1, <2>1, <2>2, <2>3, <2>4
<1> USE <1>2 DEF IInv
<1>5. TypeOK'
  BY <1>3, <1>4 DEF TypeOK, TargetType
<1>6. TurnTaking' /\ Idle' /\ UpSide' /\ Room' /\ EndsRelayed'
  BY <1>4, NothingEnded DEF TurnTaking, Idle, UpSide, Room
<1>7. AuthSide' /\ RelaySide'
  BY <1>4 DEF AuthSide, RelaySide
<1>8. DownSide'
  <2>1. target'.sent \in Nat
    BY <1>4 DEF TargetType
  <2> QED
    BY <1>1, <1>4, <2>1 DEF DownSide
<1> QED
  BY <1>5, <1>6, <1>7, <1>8

-----------------------------------------------------------------------------
LEMMA StepPreserves == IInv /\ [Next]_vars => IInv'
<1> SUFFICES ASSUME IInv, [Next]_vars PROVE IInv'
  OBVIOUS
<1>1. CASE Accept
  BY <1>1, AcceptKeeps
<1>2. CASE ReadCallback
  <2>1. CASE ReadEof
    BY <2>1, ReadEofKeeps
  <2>2. CASE ReadError
    BY <2>2, OtherCloseKeeps DEF ReadError, Causes
  <2>3. ASSUME NEW n \in 1..MaxBuf, ReadBadUser(n) \/ ReadBadAddr(n)
        PROVE  IInv'
    BY <2>3, OtherCloseKeeps DEF ReadBadUser, ReadBadAddr, Causes
  <2>4. ASSUME NEW n \in 1..MaxBuf, ReadAuthPart(n)
        PROVE  IInv'
    BY <2>4, ReadAuthPartKeeps
  <2>5. ASSUME NEW n \in 1..MaxBuf, HangUpInvalidClient(n)
        PROVE  IInv'
    BY <2>5, HangUpInvalidClientKeeps
  <2>6. ASSUME NEW n \in 1..MaxBuf, ReadAuth(n)
        PROVE  IInv'
    BY <2>6, ReadAuthKeeps
  <2>7. ASSUME NEW n \in 1..MaxBuf, ReadFrames(n)
        PROVE  IInv'
    BY <2>7, ReadFramesKeeps
  <2> QED
    BY <1>2, <2>1, <2>2, <2>3, <2>4, <2>5, <2>6, <2>7 DEF ReadCallback
<1>3. CASE AuthTimeout
  BY <1>3, OtherCloseKeeps DEF AuthTimeout, Causes
<1>4. CASE RemoteWriteCallback
  <2>1. CASE RemoteConnectFails \/ RemoteWriteFails
    BY <2>1, OtherCloseKeeps DEF RemoteConnectFails, RemoteWriteFails, Causes
  <2>2. ASSUME NEW n \in 0..RealBuf, RemoteWrite(n)
        PROVE  IInv'
    BY <2>2, RemoteWriteKeeps
  <2> QED
    BY <1>4, <2>1, <2>2 DEF RemoteWriteCallback
<1>5. CASE RemoteTimeout
  BY <1>5, OtherCloseKeeps DEF RemoteTimeout, Causes
<1>6. CASE RemoteReadCallback
  <2>1. CASE RemoteReadError
    BY <2>1, OtherCloseKeeps DEF RemoteReadError, Causes
  <2>2. ASSUME NEW n \in 1..MaxBuf, RemoteRead(n)
        PROVE  IInv'
    BY <2>2, RemoteReadKeeps
  <2> QED
    BY <1>6, <2>1, <2>2, RemoteReadEofKeeps DEF RemoteReadCallback
<1>7. CASE WriteCallback
  <2>1. ASSUME NEW n \in 1..RealBuf, Write(n)
        PROVE  IInv'
    BY <2>1, WriteKeeps
  <2>2. CASE WriteFails
    BY <2>2, OtherCloseKeeps DEF WriteFails, Causes
  <2> QED
    BY <1>7, <2>1, <2>2 DEF WriteCallback
<1>8. CASE Environment
  <2>1. ASSUME NEW kind \in Kinds \ {"data"}, NEW n \in 0..(HdrLen + AuthLen),
               ClientStarts(kind, n)
        PROVE  IInv'
    BY <2>1, ClientStartsGoesOn, ClientGoesOnKeeps
  <2> QED
    BY <1>8, <2>1, ClientSendsGoesOn, ClientGoesOnKeeps, ConnectionEventsKeep DEF Environment
<1>9. CASE UNCHANGED vars
  <2>1. TypeOK' /\ TurnTaking' /\ Idle' /\ AuthSide'
    BY <1>9 DEF vars, ctl, bufs, upstream, downstream, IInv, TypeOK, TurnTaking, Idle, AuthSide
  <2>2. UpSide' /\ RelaySide' /\ DownSide' /\ Room' /\ EndsRelayed'
    BY <1>9 DEF vars, ctl, bufs, upstream, downstream, IInv, UpSide, RelaySide, DownSide, Room,
                EndsRelayed
  <2> QED
    BY <2>1, <2>2 DEF IInv
<1> QED
  BY <1>1, <1>2, <1>3, <1>4, <1>5, <1>6, <1>7, <1>8, <1>9 DEF Next

LEMMA InvariantHolds == Spec => []IInv
BY InitEstablishes, StepPreserves, PTL DEF Spec

-----------------------------------------------------------------------------
(***************************************************************************)
(* Why a session is closed, and who is hung up on.  A second invariant,    *)
(* proved with the first one at hand: while the target is being connected  *)
(* to nothing has been given to anyone (Quiet), which is what the connect  *)
(* timer's expiry is about.                                                *)
(***************************************************************************)
Quiet == life # "closed" /\ rstage = "Connecting" => target.got = 0 /\ dnSent = 0

HungUp == authTimer = "hangup" => up # <<>> /\ up[1].kind # "auth"

CauseInv == Quiet /\ HungUp /\ ClosedForCause

LEMMA InitEstablishesCause == Init => CauseInv
BY DEF Init, CauseInv, Quiet, HungUp, ClosedForCause

LEMMA CloseKeepsCause ==
    ASSUME NEW why, Close(why), ClosedForCause'
    PROVE  CauseInv'
BY DEF Close, CauseInv, Quiet, HungUp

\* While a session is open nothing is said about the reason.
LEMMA NoCauseYet ==
    ASSUME IInv, life # "closed", UNCHANGED cause
    PROVE  ClosedForCause'
BY DEF IInv, Idle, ClosedForCause

\* A frame refused at or behind the end of an AuthMsg is one behind it.
LEMMA RefusedIsNoData ==
    ASSUME up \in Seq(Frame), up[1].kind = "auth",
           NEW io \in IOType, up[1].w <= NextOut(io), up[1].w \in Nat, FrameRefused(io)
    PROVE  \E k \in 2..Len(up) : up[k].kind # "data"
<1>1. Len(up) \in Nat /\ NextOut(io) \in Nat
  BY EndsAreNaturals, IOOffsets
<1>2. CASE \E k \in Complete(up, NextOut(io), NextIn(io)) : up[k].kind # "data"
  <2>1. PICK k \in 1..Len(up) : NextOut(io) < up[k].w /\ up[k].kind # "data"
    BY <1>2 DEF Complete
  <2>2. k # 1
    BY <1>1, <2>1
  <2> QED
    BY <1>1, <2>1, <2>2
<1>3. CASE \E k \in 1..Len(up) : up[k].kind = "badlen"
  <2>1. PICK k \in 1..Len(up) : up[k].kind = "badlen"
    BY <1>3
  <2> QED
    BY <1>1, <2>1
<1> QED
  BY <1>2, <1>3 DEF FrameRefused, Refused

(***************************************************************************)
(* readCallback: a first message is there and tells what becomes of the    *)
(* connection, or a frame behind it is refused.                            *)
(***************************************************************************)
LEMMA HangUpKeepsCause ==
    ASSUME IInv, CauseInv, NEW n, ReadAuthPart(n) \/ HangUpInvalidClient(n)
    PROVE  CauseInv'
<1>1. ReadReturns(n) /\ stage = "Init" /\ "lr" \in watch
  BY DEF ReadAuthPart, HangUpInvalidClient, ReadReturns
<1>2. life = "open" /\ up # <<>>
  BY <1>1, ReadContext
<1>3. /\ UNCHANGED <<life, cause, rstage, target, up, dnSent>>
      /\ authTimer' = authTimer \/ up[1].kind # "auth"
  BY DEF ReadAuthPart, HangUpInvalidClient, BadLength, ctl, upstream, downstream
<1>4. ClosedForCause'
  BY <1>2, <1>3, NoCauseYet
<1> QED
  BY <1>2, <1>3, <1>4 DEF CauseInv, Quiet, HungUp

LEMMA ReadAuthKeepsCause ==
    ASSUME IInv, CauseInv, NEW n, ReadBadUser(n) \/ ReadBadAddr(n) \/ ReadAuth(n)
    PROVE  CauseInv'
<1> DEFINE read == AppendBuffer(lread, n)
           io == Compack(Consume(read, up[1].w))
<1>1. /\ ReadReturns(n) /\ stage = "Init" /\ "lr" \in watch /\ FirstComplete(n)
      /\ up[1].kind = "auth"
  BY DEF ReadBadUser, ReadBadAddr, ReadAuth, AuthRead, ReadReturns
<1>2. /\ life = "open" /\ up # <<>> /\ up \in Seq(Frame)
      /\ target.got = 0 /\ dnSent = 0
  BY <1>1, ReadContext DEF IInv, TypeOK, AuthSide
<1>3. CASE ReadBadUser(n) \/ ReadBadAddr(n)
  <2>1. PICK why \in {"badUser", "badAddr"} : Close(why)
    BY <1>3 DEF ReadBadUser, ReadBadAddr
  <2>2. ClosedForCause'
    BY <1>1, <1>2, <2>1 DEF Close, ClosedForCause, upstream
  <2> QED
    BY <2>1, <2>2, CloseKeepsCause
<1>4. CASE ReadAuth(n) /\ FrameRefused(io)
  <2>1. Close("badFrame")
    BY <1>4 DEF ReadAuth
  <2>2. /\ read \in IOType /\ read.total = lread.total + n /\ Pending(read) = read.total
        /\ read.total \in Nat /\ NextOut(read) = 0
    BY <1>1, ReadContext, AwaitingAuth, IOOffsets
  <2>3. up[1].w \in Nat /\ up[1].w <= Pending(read)
    BY <1>1, <1>2, <2>2, ConstantTypes DEF FirstComplete, IInv, UpSide
  <2> HIDE DEF read
  <2>4. /\ Consume(read, up[1].w) \in IOType
        /\ NextOut(Consume(read, up[1].w)) = NextOut(read) + up[1].w
    BY <2>2, <2>3, ConsumeOffsets
  <2>5. io \in IOType /\ NextOut(io) = NextOut(read) + up[1].w
    BY <2>4, CompackOffsets
  <2>6. up[1].w <= NextOut(io)
    BY <2>2, <2>3, <2>5
  <2> HIDE DEF io
  <2>7. \E k \in 2..Len(up) : up[k].kind # "data"
    BY <1>1, <1>2, <1>4, <2>3, <2>5, <2>6, RefusedIsNoData
  <2>8. ClosedForCause'
    BY <1>1, <1>2, <2>1, <2>7 DEF Close, ClosedForCause, upstream
  <2> QED
    BY <2>1, <2>8, CloseKeepsCause
<1>5. CASE ReadAuth(n) /\ ~FrameRefused(io)
  <2>1. /\ authTimer' = "off" /\ target' = [target EXCEPT !.conn = "pending"]
        /\ UNCHANGED <<life, cause, dnSent>>
    BY <1>5 DEF ReadAuth, StopAuthTimer, downstream
  <2>2. target \in TargetType
    BY DEF IInv, TypeOK, TargetType
  <2>3. target'.got = 0
    BY <1>2, <2>1, <2>2 DEF TargetType
  <2>4. ClosedForCause'
    BY <1>2, <2>1, NoCauseYet
  <2> QED
    BY <1>2, <2>1, <2>3, <2>4 DEF CauseInv, Quiet, HungUp
<1> QED
  BY <1>3, <1>4, <1>5

LEMMA ReadFramesKeepsCause ==
    ASSUME IInv, CauseInv, NEW n, ReadFrames(n)
    PROVE  CauseInv'
<1> DEFINE io == AppendBuffer(lread, n)
<1>1. ReadReturns(n) /\ stage = "Connect" /\ "lr" \in watch
  BY DEF ReadFrames, ReadReturns
<1>2. io \in IOType /\ NextOut(io) = NextOut(lread) /\ life = "open"
  BY <1>1, ReadContext
<1>3. CASE FrameRefused(io) /\ Close("badFrame")
  <2>1. /\ up \in Seq(Frame) /\ Ordered(up) /\ up # <<>> /\ up[1].kind = "auth"
        /\ Boundary(up, 1, NextOut(lread), NextIn(rwrite))
    BY <1>1 DEF IInv, TypeOK, UpSide, RelaySide
  <2>2. PICK d \in 1..Len(up) : WEnd(up, d) = NextOut(lread)
    BY <2>1 DEF Boundary
  <2>3. /\ Len(up) \in Nat /\ 1 \in 0..Len(up) /\ d \in 0..Len(up)
        /\ WEnd(up, 1) = up[1].w /\ up[1].w \in Nat /\ WEnd(up, d) \in Nat
    <3>1. Len(up) \in Nat /\ 1 \in 0..Len(up) /\ d \in 0..Len(up) /\ WEnd(up, 1) = up[1].w
      BY <2>1, <2>2, EndsAreNaturals DEF WEnd
    <3> QED
      BY <2>1, <3>1, EndsAreNaturals
  <2>4. up[1].w <= NextOut(io)
    <3>1. CASE d = 1
      BY <1>2, <2>2, <2>3, <3>1
    <3>2. CASE 1 < d
      <4>1. WEnd(up, 1) < WEnd(up, d)
        BY <2>1, <2>3, <3>2, EndsGrow
      <4> QED
        BY <1>2, <2>2, <2>3, <4>1
    <3> QED
      BY <2>2, <2>3, <3>1, <3>2
  <2> HIDE DEF io
  <2>5. \E k \in 2..Len(up) : up[k].kind # "data"
    BY <1>2, <1>3, <2>1, <2>3, <2>4, RefusedIsNoData
  <2>6. ClosedForCause'
    BY <1>3, <2>1, <2>5 DEF Close, ClosedForCause, upstream
  <2> QED
    BY <1>3, <2>6, CloseKeepsCause
<1>4. CASE UNCHANGED <<life, cause, rstage, authTimer, target, up, dnSent>>
  <2>1. ClosedForCause'
    BY <1>2, <1>4, NoCauseYet
  <2> QED
    BY <1>4, <2>1 DEF CauseInv, Quiet, HungUp
<1> QED
  BY <1>3, <1>4 DEF ReadFrames, upstream, downstream

(***************************************************************************)
(* The other callbacks.  Each of them that ends a session finds the reason *)
(* at hand; writeCallback is only started with something to write, so that *)
(* its only failure is a reset.                                            *)
(***************************************************************************)
LEMMA ClosingKeepsCause ==
    ASSUME IInv, CauseInv,
           \/ ReadEof \/ ReadError \/ AuthTimeout \/ RemoteConnectFails \/ RemoteWriteFails
           \/ RemoteTimeout \/ RemoteReadEof \/ RemoteReadError \/ WriteFails
    PROVE  CauseInv'
<1>1. PICK why : Close(why) /\ ClosedForCause'
  <2>1. CASE ReadEof \/ ReadError
    BY <2>1 DEF ReadEof, ReadError, Close, ClosedForCause
  <2>2. CASE AuthTimeout
    <3>1. Close("authTimeout") /\ authTimer # "off"
      BY <2>2 DEF AuthTimeout
    <3>2. target.conn = "none" /\ dnSent = 0
      BY <3>1 DEF IInv, TypeOK, Idle, AuthSide, RelaySide
    <3> QED
      BY <3>1, <3>2 DEF Close, ClosedForCause, downstream
  <2>3. CASE RemoteConnectFails \/ RemoteWriteFails
    BY <2>3 DEF RemoteConnectFails, RemoteWriteFails, Close, ClosedForCause
  <2>4. CASE RemoteTimeout
    <3>1. Close("timeout") /\ timer
      BY <2>4 DEF RemoteTimeout
    <3>2. target.got = 0 /\ dnSent = 0
      BY <3>1 DEF IInv, TurnTaking, Idle, CauseInv, Quiet
    <3> QED
      BY <3>1, <3>2 DEF Close, ClosedForCause, downstream
  <2>5. CASE RemoteReadEof \/ RemoteReadError
    BY <2>5 DEF RemoteReadEof, RemoteReadError, Close, ClosedForCause
  <2>6. CASE WriteFails
    <3>1. Close("writeError") /\ "lw" \in watch /\ (client.rst \/ Pending(lwrite) = 0)
      BY <2>6 DEF WriteFails
    <3>2. life = "open"
      BY <3>1 DEF IInv, TurnTaking
    <3>3. Pending(lwrite) > 0
      BY <3>1, <3>2 DEF IInv, DownSide
    <3> QED
      BY <3>1, <3>3 DEF Close, ClosedForCause
  <2> QED
    BY <2>1, <2>2, <2>3, <2>4, <2>5, <2>6
<1> QED
  BY <1>1, CloseKeepsCause

LEMMA RelayingKeepsCause ==
    ASSUME IInv, CauseInv, NEW n,
           Accept \/ RemoteWrite(n) \/ RemoteRead(n) \/ Write(n)
    PROVE  CauseInv'
<1>1. life # "closed" /\ UNCHANGED <<cause, up>>
  BY DEF Accept, RemoteWrite, RemoteRead, Write, IInv, TurnTaking, upstream
<1>2. ClosedForCause'
  BY <1>1, NoCauseYet
<1>3. Quiet'
  <2>1. CASE Accept
    BY <2>1 DEF Accept, IInv, Idle, Quiet
  <2>2. CASE RemoteWrite(n)
    BY <2>2 DEF RemoteWrite, Quiet
  <2>3. CASE RemoteRead(n)
    BY <1>1, <2>3 DEF RemoteRead, CauseInv, Quiet
  <2>4. CASE Write(n)
    BY <2>4 DEF Write, IInv, TurnTaking, Quiet
  <2> QED
    BY <2>1, <2>2, <2>3, <2>4
<1>4. HungUp'
  <2>1. authTimer' \in {authTimer, "auth"}
    BY DEF Accept, RemoteWrite, RemoteRead, Write
  <2> QED
    BY <1>1, <2>1 DEF CauseInv, HungUp
<1> QED
  BY <1>2, <1>3, <1>4 DEF CauseInv

(***************************************************************************)
(* The environment: a first message stays what it is, and a frame behind   *)
(* it too.                                                                 *)
(***************************************************************************)
LEMMA ClientGoesOnKeepsCause ==
    ASSUME IInv, CauseInv, ClientGoesOn
    PROVE  CauseInv'
<1>1. /\ UNCHANGED <<life, cause, rstage, authTimer, client, target, dnSent>>
      /\ up' \in Seq(Frame) /\ Continues(up', up) /\ up \in Seq(Frame)
  BY DEF ClientGoesOn, ctl, downstream, IInv, TypeOK
<1>2. up # <<>> => up' # <<>> /\ up'[1] = up[1]
  BY <1>1, ContinuedFirst
<1>3. Len(up) \in Nat /\ Len(up') \in Nat
  BY <1>1, EndsAreNaturals
<1>4. (\E k \in 2..Len(up) : up[k].kind # "data") => \E k \in 2..Len(up') : up'[k].kind # "data"
  <2> SUFFICES ASSUME NEW k \in 2..Len(up), up[k].kind # "data"
               PROVE  \E j \in 2..Len(up') : up'[j].kind # "data"
    OBVIOUS
  <2>1. k \in 1..Len(up) /\ k \in 2..Len(up')
    BY <1>1, <1>3 DEF Continues
  <2>2. up'[k] = up[k]
    BY <1>1, <2>1 DEF Continues
  <2> QED
    BY <2>1, <2>2
<1>5. Quiet' /\ HungUp'
  BY <1>1, <1>2 DEF CauseInv, Quiet, HungUp
<1>6. ClosedForCause'
  BY <1>1, <1>2, <1>4 DEF CauseInv, ClosedForCause
<1> QED
  BY <1>5, <1>6 DEF CauseInv

LEMMA ConnectionEventsKeepCause ==
    ASSUME IInv, CauseInv,
           \/ ClientCloses \/ ClientResets \/ TargetCloses \/ TargetResets
           \/ \E result \in {"up", "refused"} : ConnectEnds(result)
           \/ \E n \in 1..MaxDown : TargetSends(n)
    PROVE  CauseInv'
<1>1. UNCHANGED <<life, cause, rstage, authTimer, up, dnSent>> /\ life = "open"
  BY DEF ClientCloses, ClientResets, TargetCloses, TargetResets, ConnectEnds, TargetSends,
         TargetLive, ctl, upstream, downstream
<1>2. target'.got = target.got
  <2>1. target \in TargetType
    BY DEF IInv, TypeOK, TargetType
  <2>2. CASE ClientCloses \/ ClientResets
    BY <2>2 DEF ClientCloses, ClientResets
  <2>3. CASE TargetCloses \/ TargetResets
    BY <2>1, <2>3 DEF TargetCloses, TargetResets, TargetType
  <2>4. CASE \E result \in {"up", "refused"} : ConnectEnds(result)
    BY <2>1, <2>4 DEF ConnectEnds, TargetType
  <2>5. CASE \E n \in 1..MaxDown : TargetSends(n)
    BY <2>1, <2>5 DEF TargetSends, TargetType
  <2> QED
    BY <2>2, <2>3, <2>4, <2>5
<1>3. ClosedForCause'
  BY <1>1, NoCauseYet
<1> QED
  BY <1>1, <1>2, <1>3 DEF CauseInv, Quiet, HungUp

LEMMA StepKeepsCause == IInv /\ CauseInv /\ [Next]_vars => CauseInv'
<1> SUFFICES ASSUME IInv, CauseInv, [Next]_vars PROVE CauseInv'
  OBVIOUS
<1>1. CASE Accept \/ AuthTimeout \/ RemoteTimeout
  BY <1>1, RelayingKeepsCause, ClosingKeepsCause
<1>2. CASE ReadCallback
  BY <1>2, ClosingKeepsCause, HangUpKeepsCause, ReadAuthKeepsCause, ReadFramesKeepsCause
     DEF ReadCallback
<1>3. CASE RemoteWriteCallback \/ RemoteReadCallback \/ WriteCallback
  BY <1>3, ClosingKeepsCause, RelayingKeepsCause
     DEF RemoteWriteCallback, RemoteReadCallback, WriteCallback
<1>4. CASE Environment
  <2>1. ASSUME NEW kind \in Kinds \ {"data"}, NEW n \in 0..(HdrLen + AuthLen),
               ClientStarts(kind, n)
        PROVE  CauseInv'
    BY <2>1, ClientStartsGoesOn, ClientGoesOnKeepsCause
  <2> QED
    BY <1>4, <2>1, ClientSendsGoesOn, ClientGoesOnKeepsCause, ConnectionEventsKeepCause
       DEF Environment
<1>5. CASE UNCHANGED vars
  BY <1>5 DEF vars, ctl, upstream, downstream, CauseInv, Quiet, HungUp, ClosedForCause
<1> QED
  BY <1>1, <1>2, <1>3, <1>4, <1>5 DEF Next

LEMMA CauseHolds == Spec => []CauseInv
BY InitEstablishesCause, StepKeepsCause, InvariantHolds, PTL DEF Spec

-----------------------------------------------------------------------------
(***************************************************************************)
(* What the two invariants give.                                           *)
(***************************************************************************)
LEMMA AuthIsFirst == IInv /\ CauseInv => AuthFirst
<1> SUFFICES ASSUME IInv, CauseInv, life = "open" PROVE AuthFirst
  BY DEF AuthFirst
<1>1. CASE stage = "Init"
  BY <1>1 DEF IInv, AuthSide, CauseInv, HungUp, AuthFirst
<1>2. CASE stage = "Connect"
  <2>1. rstage # "none" /\ authTimer = "off" /\ up[1].kind = "auth"
    BY <1>2 DEF IInv, RelaySide
  <2>2. watch # {}
    BY <2>1 DEF IInv, TypeOK, TurnTaking
  <2> QED
    BY <1>2, <2>1, <2>2 DEF AuthFirst
<1> QED
  BY <1>1, <1>2 DEF IInv, TypeOK

\* A started reader finds room, and what is put in a buffer fits.
LEMMA RoomForAll == IInv => BuffersFit
<1> SUFFICES ASSUME IInv PROVE BuffersFit
  OBVIOUS
<1>1. rread.total <= MaxBuf
  <2>1. rread.total = 0
    BY EmptyOffsets DEF IInv, TypeOK, Idle, DownSide
  <2> QED
    BY <2>1, ConstantTypes
<1>2. "rr" \in watch => rread.total < MaxBuf
  BY ReadingTarget, ConstantTypes
<1>3. ASSUME "lr" \in watch, stage = "Init" PROVE lread.total < MaxBuf
  <2>1. /\ up # <<>> => lread.total < HdrLen + AuthLen
        /\ NextOut(lread) = 0 /\ NextIn(lread) <= upSent
    BY <1>3, AwaitingAuth
  <2>2. lread \in IOType /\ lread.total \in Nat /\ lread.startPos \in Nat
    BY IOOffsets DEF IInv, TypeOK
  <2>3. CASE up = <<>>
    <3>1. upSent <= 0 /\ upSent \in Nat
      BY <2>3, NoFrames DEF IInv, TypeOK, UpSide
    <3>2. life = "open" /\ lread.startPos = 0
      BY <1>3 DEF IInv, TurnTaking, AuthSide
    <3>3. NextIn(lread) = lread.total
      BY <2>1, <2>2, <3>2, IOOffsets
    <3> QED
      BY <2>1, <2>2, <3>1, <3>3, ConstantTypes
  <2> QED
    BY <2>1, <2>2, <2>3, ConstantTypes
<1>4. ASSUME stage = "Connect" PROVE lread.total < MaxBuf
  <2>1. /\ up \in Seq(Frame) /\ Ordered(up) /\ Framed(up, 1) /\ upSent <= WireEnd(up)
        /\ Boundary(up, 1, NextOut(lread), NextIn(rwrite))
        /\ Complete(up, NextOut(lread), NextIn(lread)) = {}
        /\ NextIn(lread) <= upSent /\ upSent \in Nat
        /\ lread \in IOType /\ lread.startPos = 0
    BY <1>4 DEF IInv, TypeOK, UpSide, RelaySide
  <2>2. /\ NextIn(lread) \in Nat /\ NextOut(lread) \in Nat /\ lread.total \in Nat
        /\ NextIn(lread) = NextOut(lread) + lread.total
    BY <2>1, IOOffsets
  <2>3. NextOut(lread) <= NextIn(lread) /\ NextIn(lread) <= WireEnd(up)
    BY <2>1, <2>2, EndsAreNaturals
  <2>4. NextIn(lread) - NextOut(lread) < LongestFrame
    BY <2>1, <2>2, <2>3, RestIsShort
  <2> QED
    BY <2>2, <2>4, ConstantTypes
<1>5. "lr" \in watch => lread.total < MaxBuf
  BY <1>3, <1>4 DEF IInv, TypeOK
<1> QED
  BY <1>1, <1>2, <1>5 DEF IInv, Room, BuffersFit

LEMMA UpIsIntact == IInv => UpstreamIntegrity
<1> SUFFICES ASSUME IInv, stage = "Connect" PROVE UpstreamIntegrity
  BY DEF UpstreamIntegrity
<1>1. /\ Boundary(up, 1, NextOut(lread), NextIn(rwrite))
      /\ NextOut(rwrite) = up[1].a + target.got /\ NextIn(lread) <= upSent
  BY DEF IInv, RelaySide
<1>2. PICK d \in 1..Len(up) : /\ WEnd(up, d) = NextOut(lread)
                              /\ AEnd(up, d) = NextIn(rwrite)
                              /\ \A k \in 1+1..d : up[k].kind = "data"
  BY <1>1 DEF Boundary
<1>3. \A k \in 2..d : up[k].kind = "data"
  BY <1>2
<1> QED
  BY <1>1, <1>2, <1>3 DEF UpstreamIntegrity

\* All that the session promises.
Promises ==
    /\ TurnTaking /\ AuthFirst /\ BuffersFit
    /\ UpstreamIntegrity /\ DownstreamIntegrity /\ OrderlyClose

LEMMA PromisesAreKept == IInv /\ CauseInv => Promises
<1>1. IInv /\ CauseInv => TurnTaking /\ DownstreamIntegrity /\ OrderlyClose
  BY DEF IInv, DownSide, DownstreamIntegrity, CauseInv, OrderlyClose
<1> QED
  BY <1>1, AuthIsFirst, RoomForAll, UpIsIntact DEF Promises

-----------------------------------------------------------------------------
(***************************************************************************)
(* Every variable keeps its type, whatever the sizes and the segmentation. *)
(***************************************************************************)
THEOREM ServerTypesAreKept == Spec => []TypeOK
<1>1. IInv => TypeOK
  BY DEF IInv
<1> QED
  BY <1>1, InvariantHolds, PTL

(***************************************************************************)
(* Whatever the callbacks of a session do, reading and writing of each of  *)
(* its directions take turns, and writeCallback is only started with       *)
(* something to write.                                                     *)
(***************************************************************************)
THEOREM ServerTurnsAreTaken == Spec => []TurnTaking
<1>1. IInv => TurnTaking
  BY DEF IInv
<1> QED
  BY <1>1, InvariantHolds, PTL

(***************************************************************************)
(* Before checkUser has accepted an AuthMsg no connection is made for a    *)
(* client, nothing is sent to anyone, and the authentication timer runs;   *)
(* only a client whose first message is no AuthMsg is hung up on.          *)
(***************************************************************************)
THEOREM AuthComesFirst == Spec => []AuthFirst
BY AuthIsFirst, InvariantHolds, CauseHolds, PTL

(***************************************************************************)
(* No read or append of a session goes beyond a buffer, and a started read *)
(* watcher finds room: what is left behind the last complete frame is      *)
(* shorter than the longest frame.                                         *)
(***************************************************************************)
THEOREM ServerBuffersFit == Spec => []BuffersFit
BY RoomForAll, InvariantHolds, PTL

(***************************************************************************)
(* However the client's frames are split over reads, and whatever follows  *)
(* the AuthMsg in the same read, the target gets exactly what the decoded  *)
(* frames carry.                                                           *)
(***************************************************************************)
THEOREM ServerUpstreamIsIntact == Spec => []UpstreamIntegrity
BY UpIsIntact, InvariantHolds, PTL

(***************************************************************************)
(* What the session writes to the client is exactly the frames encoded     *)
(* from exactly the bytes read from the target, in order.                  *)
(***************************************************************************)
THEOREM ServerDownstreamIsIntact == Spec => []DownstreamIntegrity
<1>1. IInv => DownstreamIntegrity
  BY DEF IInv, DownSide, DownstreamIntegrity
<1> QED
  BY <1>1, InvariantHolds, PTL

(***************************************************************************)
(* At the end of either stream the session is only closed once everything  *)
(* that arrived on it has been written to the other side, and whatever     *)
(* reason is logged is real: a reset for a "write error", a target that    *)
(* got nothing for an expired connect timer, and a frame that is no        *)
(* DataMsg behind a good AuthMsg for one that is refused.                  *)
(***************************************************************************)
THEOREM ServerClosesInOrder == Spec => []OrderlyClose
<1>1. IInv /\ CauseInv => OrderlyClose
  BY DEF IInv, CauseInv, OrderlyClose
<1> QED
  BY <1>1, InvariantHolds, CauseHolds, PTL

-----------------------------------------------------------------------------
(***************************************************************************)
(* What a callback does, as far as it can be told from outside: it ends    *)
(* the session, at the client's end of stream only when there is one, or   *)
(* it adds frames behind those encoded and writes on.                      *)
(***************************************************************************)
Callback ==
    \/ Accept \/ ReadCallback \/ AuthTimeout \/ RemoteWriteCallback
    \/ RemoteTimeout \/ RemoteReadCallback \/ WriteCallback

EncodesMore == \E n \in Nat \ {0} : \E c \in Cuts(n) : dn' = Encode(dn, c)

\* Not behind a first message nobody has looked at yet.
AtClientEof ==
    /\ client.fin
    /\ target.conn = "none" /\ up # <<>> => upSent < WireEnd(up)

Ending ==
    /\ life' = "closed" /\ UNCHANGED <<target, downstream>>
    /\ cause' = "clientEof" => AtClientEof

GoingOn ==
    /\ life' # "closed" /\ cause' = cause
    /\ dn' = dn \/ EncodesMore
    /\ dnSent' \in Nat /\ dnSent <= dnSent'
    /\ target'.got = target.got \/ (life' = "open" /\ stage' = "Connect" /\ target'.got > target.got)

CallbackStep ==
    /\ life # "closed"
    /\ UNCHANGED <<client, upstream>> /\ target'.sent = target.sent
    /\ Ending \/ GoingOn

LEMMA CloseIsStep ==
    ASSUME life # "closed", NEW why, Close(why), why = "clientEof" => AtClientEof
    PROVE  CallbackStep
BY DEF Close, CallbackStep, Ending

LEMMA ReadIsStep ==
    ASSUME IInv, NEW n,
           \/ ReadAuthPart(n) \/ HangUpInvalidClient(n)
           \/ ReadBadUser(n) \/ ReadBadAddr(n) \/ ReadAuth(n) \/ ReadFrames(n)
    PROVE  CallbackStep
<1>1. /\ life = "open" /\ dnSent \in Nat /\ target \in TargetType
  BY DEF ReadAuthPart, HangUpInvalidClient, ReadBadUser, ReadBadAddr, ReadAuth, AuthRead,
         ReadFrames, ReadReturns, IInv, TypeOK, TurnTaking, TargetType
<1>2. CASE ReadBadUser(n) \/ ReadBadAddr(n)
  BY <1>1, <1>2, CloseIsStep DEF ReadBadUser, ReadBadAddr
<1>3. CASE ReadAuthPart(n) \/ HangUpInvalidClient(n)
  BY <1>1, <1>3 DEF ReadAuthPart, HangUpInvalidClient, ctl, upstream, downstream,
                    CallbackStep, GoingOn
<1>4. CASE ReadAuth(n)
  <2>1. \/ Close("badFrame")
        \/ /\ target' = [target EXCEPT !.conn = "pending"]
           /\ UNCHANGED <<life, cause, client, upstream, downstream>>
    BY <1>4 DEF ReadAuth
  <2>2. CASE Close("badFrame")
    BY <1>1, <2>2, CloseIsStep
  <2>3. CASE /\ target' = [target EXCEPT !.conn = "pending"]
             /\ UNCHANGED <<life, cause, client, upstream, downstream>>
    <3>1. target'.sent = target.sent /\ target'.got = target.got
      BY <1>1, <2>3 DEF TargetType
    <3> QED
      BY <1>1, <2>3, <3>1 DEF CallbackStep, GoingOn, downstream
  <2> QED
    BY <2>1, <2>2, <2>3
<1>5. CASE ReadFrames(n)
  <2>1. \/ Close("badFrame")
        \/ UNCHANGED <<life, cause, client, target, upstream, downstream>>
    BY <1>5 DEF ReadFrames
  <2> QED
    BY <1>1, <2>1, CloseIsStep DEF CallbackStep, GoingOn, downstream
<1> QED
  BY <1>2, <1>3, <1>4, <1>5

LEMMA RelayIsStep ==
    ASSUME IInv, NEW n, RemoteWrite(n) \/ RemoteRead(n) \/ Write(n)
    PROVE  CallbackStep
<1>1. /\ life = "open" /\ dnSent \in Nat /\ target \in TargetType /\ target.got \in Nat
      /\ Pending(rwrite) \in Nat /\ Pending(lwrite) \in Nat
  BY IOOffsets DEF RemoteWrite, RemoteRead, Write, IInv, TypeOK, TurnTaking, TargetType
<1>2. CASE RemoteWrite(n)
  <2>1. /\ n \in 0..Pending(rwrite) /\ target' = [target EXCEPT !.got = @ + n]
        /\ UNCHANGED <<life, cause, stage, client, upstream, downstream>>
        /\ "rw" \in watch
    BY <1>2 DEF RemoteWrite
  <2>2. stage = "Connect"
    BY <1>1, <2>1 DEF IInv, TypeOK, AuthSide
  <2>3. n \in Nat /\ target'.sent = target.sent /\ target'.got = target.got + n
    BY <1>1, <2>1 DEF TargetType
  <2>4. target'.got = target.got \/ target'.got > target.got
    BY <1>1, <2>3
  <2> QED
    BY <1>1, <2>1, <2>2, <2>3, <2>4 DEF CallbackStep, GoingOn, downstream
<1>3. CASE RemoteRead(n)
  <2>1. n \in Nat \ {0} /\ rread.total \in Nat
    BY <1>3, IOOffsets, ConstantTypes DEF RemoteRead, IInv, TypeOK
  <2>2. \E c \in Cuts(rread.total + n) : dn' = Encode(dn, c)
    BY <1>3 DEF RemoteRead
  <2>3. EncodesMore
    <3>1. rread.total + n \in Nat \ {0}
      BY <2>1
    <3> QED
      BY <2>2, <3>1 DEF EncodesMore
  <2>4. UNCHANGED <<life, cause, client, target, upstream, dnSent>>
    BY <1>3 DEF RemoteRead
  <2> QED
    BY <1>1, <2>3, <2>4 DEF CallbackStep, GoingOn
<1>4. CASE Write(n)
  <2>1. /\ n \in 1..Pending(lwrite) /\ dnSent' = dnSent + n
        /\ UNCHANGED <<life, cause, client, target, upstream, dn>>
    BY <1>4 DEF Write
  <2>2. dnSent' \in Nat /\ dnSent <= dnSent'
    BY <1>1, <2>1
  <2> QED
    BY <1>1, <2>1, <2>2 DEF CallbackStep, GoingOn
<1> QED
  BY <1>2, <1>3, <1>4

LEMMA CallbackSteps ==
    ASSUME IInv, Callback
    PROVE  CallbackStep
<1>1. CASE Accept
  BY <1>1 DEF Accept, CallbackStep, GoingOn, IInv, TypeOK, upstream, downstream
<1>2. CASE ReadCallback
  <2>1. CASE ReadEof
    <3>1. /\ "lr" \in watch /\ client.fin /\ NextIn(lread) = upSent /\ lread.total = 0
          /\ life = "open" /\ Close("clientEof")
      BY <2>1 DEF ReadEof, ClientDrained, IInv, TypeOK, TurnTaking
    <3>2. ASSUME target.conn = "none", up # <<>>
          PROVE  upSent < WireEnd(up)
      <4>1. stage = "Init"
        BY <3>2 DEF IInv, TypeOK, RelaySide
      <4>2. lread.startPos = 0 /\ NextOut(lread) = 0 /\ lread \in IOType
        BY <3>1, <4>1 DEF IInv, TypeOK, AuthSide
      <4>3. upSent = 0
        BY <3>1, <4>2, IOOffsets
      <4>4. up \in Seq(Frame) /\ Ordered(up) /\ Len(up) \in Nat /\ Len(up) # 0
        BY <3>2, EmptySeq, LenProperties DEF IInv, TypeOK, UpSide
      <4>5. up[Len(up)].w > 0 /\ WireEnd(up) = up[Len(up)].w
        BY <4>4 DEF Ordered, WireEnd, WEnd
      <4> QED
        BY <4>3, <4>5
    <3> QED
      BY <3>1, <3>2, CloseIsStep DEF AtClientEof
  <2>2. CASE ReadError
    BY <2>2, CloseIsStep DEF ReadError, IInv, TurnTaking
  <2> QED
    BY <1>2, <2>1, <2>2, ReadIsStep DEF ReadCallback
<1>3. CASE AuthTimeout
  BY <1>3, CloseIsStep DEF AuthTimeout, IInv, Idle
<1>4. CASE RemoteWriteCallback
  <2>1. CASE RemoteConnectFails \/ RemoteWriteFails
    BY <2>1, CloseIsStep DEF RemoteConnectFails, RemoteWriteFails, IInv, TurnTaking
  <2> QED
    BY <1>4, <2>1, RelayIsStep DEF RemoteWriteCallback
<1>5. CASE RemoteTimeout
  BY <1>5, CloseIsStep DEF RemoteTimeout, IInv, TurnTaking, Idle
<1>6. CASE RemoteReadCallback
  <2>1. CASE RemoteReadEof \/ RemoteReadError
    BY <2>1, CloseIsStep DEF RemoteReadEof, RemoteReadError, IInv, TurnTaking
  <2> QED
    BY <1>6, <2>1, RelayIsStep DEF RemoteReadCallback
<1>7. CASE WriteCallback
  <2>1. CASE WriteFails
    BY <2>1, CloseIsStep DEF WriteFails, IInv, TurnTaking
  <2> QED
    BY <1>7, <2>1, RelayIsStep DEF WriteCallback
<1> QED
  BY <1>1, <1>2, <1>3, <1>4, <1>5, <1>6, <1>7 DEF Callback

(***************************************************************************)
(* What of the invariant can be told from outside: the streams, that       *)
(* nothing is given to anyone that was not there, and what an end means.   *)
(***************************************************************************)
Outside ==
    /\ up \in Seq(Frame) /\ Ordered(up) /\ Framed(up, 1)
    /\ up # <<>> => up[1].w = HdrLen + AuthLen
    /\ upSent \in Nat /\ upSent <= WireEnd(up)
    /\ dn \in Seq(Frame) /\ dnSent \in Nat
    /\ life \in {"none", "open", "closed"} /\ client.fin \in BOOLEAN
    /\ target.sent \in Nat /\ target.got \in Nat
    /\ target.conn # "none" => up # <<>>

OpenOutside ==
    life # "closed" =>
        /\ cause = "none"
        /\ dnSent <= WireEnd(dn) /\ AppEnd(dn) <= target.sent
        /\ target.conn = "none" => target.got = 0
        /\ stage = "Connect" => up # <<>> /\ up[1].a + target.got <= AppEnd(up)

ClosedOutside ==
    /\ cause = "targetEof" => dnSent = WireEnd(dn) /\ AppEnd(dn) = target.sent
    /\ cause = "clientEof" /\ target.conn # "none" =>
          /\ upSent = WEnd(up, LastComplete(up, upSent))
          /\ up[1].a + target.got = AEnd(up, LastComplete(up, upSent))

LEMMA SeenFromOutside ==
    ASSUME IInv
    PROVE  Outside /\ OpenOutside /\ ClosedOutside
<1>1. Outside
  BY DEF IInv, TypeOK, UpSide, Outside
<1>2. ClosedOutside
  BY DEF IInv, EndsRelayed, ClosedOutside
<1>3. ASSUME life # "closed"
      PROVE  /\ cause = "none"
             /\ dnSent <= WireEnd(dn) /\ AppEnd(dn) <= target.sent
             /\ target.conn = "none" => target.got = 0
  <2>1. cause = "none" /\ (target.conn = "none" => target.got = 0)
    BY <1>3 DEF IInv, TypeOK, Idle, AuthSide, RelaySide
  <2>2. /\ NextOut(lwrite) = dnSent /\ NextIn(lwrite) = WireEnd(dn)
        /\ NextOut(rread) = AppEnd(dn) /\ NextIn(rread) <= target.sent
    BY <1>3 DEF IInv, DownSide
  <2>3. lwrite \in IOType /\ rread \in IOType /\ target.sent \in Nat
    BY DEF IInv, TypeOK
  <2>4. /\ NextOut(lwrite) \in Nat /\ NextIn(lwrite) \in Nat /\ NextOut(lwrite) <= NextIn(lwrite)
        /\ NextOut(rread) \in Nat /\ NextIn(rread) \in Nat /\ NextOut(rread) <= NextIn(rread)
    BY <2>3, IOOffsets
  <2> QED
    BY <2>1, <2>2, <2>3, <2>4
<1>4. ASSUME stage = "Connect"
      PROVE  up # <<>> /\ up[1].a + target.got <= AppEnd(up)
  <2>1. /\ up # <<>> /\ NextOut(rwrite) = up[1].a + target.got
        /\ Boundary(up, 1, NextOut(lread), NextIn(rwrite))
    BY <1>4 DEF IInv, RelaySide
  <2>2. PICK d \in 1..Len(up) : AEnd(up, d) = NextIn(rwrite)
    BY <2>1 DEF Boundary
  <2>3. up \in Seq(Frame) /\ Ordered(up) /\ Len(up) \in Nat /\ rwrite \in IOType
    BY LenProperties DEF IInv, TypeOK, UpSide
  <2>4. AEnd(up, d) <= AppEnd(up) /\ AEnd(up, d) \in Nat /\ AppEnd(up) \in Nat
    <3>1. AEnd(up, d) \in Nat /\ AppEnd(up) \in Nat /\ d \in 0..Len(up) /\ Len(up) \in 0..Len(up)
      BY <2>3, EndsAreNaturals
    <3>2. CASE d = Len(up)
      BY <3>1, <3>2 DEF AppEnd
    <3>3. CASE d < Len(up)
      BY <2>3, <3>1, <3>3, EndsGrow DEF AppEnd
    <3> QED
      BY <2>3, <3>1, <3>2, <3>3
  <2>5. NextOut(rwrite) \in Nat /\ NextIn(rwrite) \in Nat /\ NextOut(rwrite) <= NextIn(rwrite)
    BY <2>3, IOOffsets
  <2> QED
    BY <2>1, <2>2, <2>4, <2>5
<1> QED
  BY <1>1, <1>2, <1>3, <1>4 DEF OpenOutside

=============================================================================
