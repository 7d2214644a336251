------------------------- MODULE LocalSessionProofs -------------------------
(***************************************************************************)
(* Safety of a SocksTunnelLocal session for every buffer size, message     *)
(* length and segmentation.  The invariant has one part per concern:       *)
(* whose turn it is (TurnTaking), what is left when there is no session    *)
(* (Idle), the bytes on their way to the peer (UpSide), the handshake that *)
(* fixes where those bytes start (HandSide), and the bytes on their way to *)
(* the client (DownSide).                                                  *)
(***************************************************************************)
EXTENDS LocalSession, StreamProofs

\* Without a session there is nothing in any buffer.
Idle ==
    life # "open" =>
        /\ stage = "Init" /\ rstage = "none"
        /\ lread = EmptyIO /\ lwrite = EmptyIO /\ rread = EmptyIO /\ rwrite = EmptyIO

\* UpstreamIntegrity, and what is read in stage Connect is encoded at once.
UpSide ==
    life # "closed" =>
        /\ lread.startPos = 0
        /\ NextOut(rwrite) = upSent /\ NextIn(rwrite) = WireEnd(up)
        /\ NextIn(lread) <= client.sent
        /\ stage = "Connect" => lread.total = 0 /\ up # <<>> /\ AppEnd(up) = NextOut(lread)
        /\ stage # "Connect" => up = <<>>

\* NothingDropped, and how much the client may have sent in each stage.
HandSide ==
    /\ stage = "Init" /\ life # "closed" => client.replies = 0 /\ client.sent <= GreetLen
    /\ stage = "HandShake" =>
          /\ client.replies = 1 /\ NextOut(lread) = GreetLen
          /\ client.sent > HandshakeLen => client.early
    /\ stage = "Connect" => client.replies = 2
    /\ NothingDropped

\* DownstreamIntegrity, and the read buffer is compact between callbacks.
DownSide ==
    /\ Ordered(dn) /\ dnSent <= WireEnd(dn)
    /\ life # "closed" =>
          /\ rread.startPos = 0
          /\ NextOut(lwrite) = client.got /\ NextIn(rread) <= dnSent
          /\ Boundary(dn, 0, NextOut(rread), NextIn(lwrite))

IInv == TypeOK /\ TurnTaking /\ Idle /\ UpSide /\ HandSide /\ DownSide

LEMMA ConstantTypes ==
    /\ HdrLen \in Nat \ {0} /\ FieldLen \in Nat /\ AuthLen \in Nat
    /\ GreetLen \in Nat \ {0} /\ ReqLen \in Nat /\ ReqHead \in Nat \ {0}
    /\ MaxBuf \in Nat /\ RealBuf \in Nat /\ MaxUp \in Nat
    /\ HandshakeLen \in Nat /\ HandshakeLen = GreetLen + ReqLen
BY FrameAssumption, LocalAssumption DEF HandshakeLen

LEMMA InitEstablishes == Init => IInv
<1> SUFFICES ASSUME Init PROVE IInv
  OBVIOUS
<1> USE NoFrames, EmptyOffsets, ConstantTypes DEF Init
<1>1. TypeOK
  <2>1. /\ client \in [sent: Nat, replies: 0..2, got: Nat, early: BOOLEAN,
                      fin: BOOLEAN, rst: BOOLEAN]
        /\ peer \in [conn: {"none", "pending", "up", "refused"}, fin: BOOLEAN, rst: BOOLEAN]
    OBVIOUS
  <2>2. up \in Seq(Frame) /\ dn \in Seq(Frame)
    OBVIOUS
  <2> QED
    BY <2>1, <2>2 DEF TypeOK, Causes, Watchers
<1>2. TurnTaking /\ Idle
  BY DEF TurnTaking, Idle
<1>3. UpSide
  BY DEF UpSide
<1>4. HandSide
  BY DEF HandSide, NothingDropped
<1>5. DownSide
  BY DEF DownSide
<1> QED
  BY <1>1, <1>2, <1>3, <1>4, <1>5 DEF IInv

(***************************************************************************)
(* Closing a session, for whatever reason, stops everything and leaves the *)
(* history of the streams as it is.                                        *)
(***************************************************************************)
LEMMA CloseKeeps ==
    ASSUME IInv, NEW why \in Causes, Close(why)
    PROVE  IInv'
<1> USE EmptyOffsets DEF IInv, Close, upstream, downstream
<1>1. TypeOK'
  BY DEF TypeOK
<1>2. TurnTaking' /\ Idle'
  BY DEF TurnTaking, Idle
<1>3. UpSide' /\ HandSide' /\ DownSide'
  BY DEF UpSide, HandSide, NothingDropped, DownSide
<1> QED
  BY <1>1, <1>2, <1>3

(***************************************************************************)
(* acceptCallback.                                                         *)
(***************************************************************************)
LEMMA AcceptKeeps ==
    ASSUME IInv, Accept
    PROVE  IInv'
<1> USE EmptyOffsets DEF IInv, Accept, bufs, upstream, downstream
<1>1. TypeOK'
  BY DEF TypeOK, Watchers
<1>2. TurnTaking' /\ Idle'
  BY DEF TurnTaking, Idle
<1>3. UpSide' /\ HandSide'
  BY DEF UpSide, HandSide, NothingDropped, Idle
<1>4. DownSide'
  BY DEF DownSide
<1> QED
  BY <1>1, <1>2, <1>3, <1>4

-----------------------------------------------------------------------------
(***************************************************************************)
(* What holds when the client's read watcher is invoked and returns n.     *)
(***************************************************************************)
LEMMA ReadContext ==
    ASSUME IInv, NEW n, ReadReturns(n)
    PROVE  /\ n \in Nat \ {0} /\ life = "open"
           /\ AppendBuffer(lread, n) \in IOType
           /\ AppendBuffer(lread, n).startPos = 0
           /\ AppendBuffer(lread, n).total = lread.total + n
           /\ NextOut(AppendBuffer(lread, n)) = NextOut(lread)
           /\ NextIn(AppendBuffer(lread, n)) = NextIn(lread) + n
           /\ NextIn(lread) + n <= client.sent
           /\ NextIn(lread) = NextOut(lread) + lread.total
           /\ NextIn(lread) \in Nat /\ NextOut(lread) \in Nat /\ lread.total \in Nat
           /\ lread.startPos = 0
<1>1. lread \in IOType /\ lread.total \in Nat
  BY IOOffsets DEF IInv, TypeOK
<1>2. n \in Nat \ {0}
  BY <1>1, ConstantTypes DEF ReadReturns
<1>3. life = "open"
  BY DEF ReadReturns, IInv, TurnTaking
<1>4. lread.startPos = 0
  BY <1>3 DEF IInv, UpSide
<1> QED
  BY <1>1, <1>2, <1>3, <1>4, AppendOffsets, IOOffsets DEF ReadReturns

LEMMA ReadPartKeeps ==
    ASSUME IInv, NEW n, ReadPart(n)
    PROVE  IInv'
<1>1. ReadReturns(n)
  BY DEF ReadPart
<1>2. stage # "Connect"
  BY DEF ReadPart
<1> USE <1>1, <1>2, ReadContext DEF IInv, ReadPart, ctl, upstream, downstream
<1>3. TypeOK'
  BY DEF TypeOK
<1>4. TurnTaking' /\ Idle'
  BY DEF TurnTaking, Idle
<1>5. UpSide'
  BY DEF UpSide
<1>6. HandSide' /\ DownSide'
  BY DEF HandSide, NothingDropped, DownSide
<1> QED
  BY <1>3, <1>4, <1>5, <1>6

LEMMA ReadGreetingKeeps ==
    ASSUME IInv, NEW n, NEW ok \in BOOLEAN, ReadGreeting(n, ok)
    PROVE  IInv'
<1> DEFINE io == AppendBuffer(lread, n)
<1>1. ReadReturns(n) /\ stage = "Init"
  BY DEF ReadGreeting
<1>2. /\ io \in IOType /\ NextIn(io) = NextIn(lread) + n /\ life = "open"
      /\ NextIn(lread) + n <= client.sent /\ n \in Nat
      /\ NextIn(lread) = NextOut(lread) + lread.total
      /\ NextIn(lread) \in Nat /\ NextOut(lread) \in Nat /\ lread.total \in Nat
  BY <1>1, ReadContext
<1> HIDE DEF io
<1>3. /\ lread' \in IOType /\ NextIn(lread') = NextIn(io) /\ NextOut(lread') = NextIn(io)
      /\ lread'.startPos = 0
  BY <1>2, ResetOffsets DEF ReadGreeting, io
<1>4. client.replies = 0 /\ client.sent <= GreetLen
  BY <1>1, <1>2 DEF IInv, HandSide
<1>5. NextIn(io) = GreetLen
  <2>1. lread.total + n >= GreetLen
    BY DEF ReadGreeting
  <2>2. client.sent \in Nat
    BY DEF IInv, TypeOK
  <2> QED
    BY <1>2, <1>4, <2>1, <2>2, ConstantTypes
<1>6. /\ stage' \in {"Init", "HandShake"}
      /\ stage' = "Init" => client' = [client EXCEPT !.replies = 0]
      /\ stage' = "HandShake" => client' = [client EXCEPT !.replies = 1]
  BY <1>1 DEF ReadGreeting
<1> USE DEF IInv, ReadGreeting, upstream, downstream
<1>7. client' \in [sent: Nat, replies: 0..2, got: Nat, early: BOOLEAN,
                   fin: BOOLEAN, rst: BOOLEAN]
      /\ client'.sent = client.sent /\ client'.got = client.got /\ client'.early = client.early
  BY DEF TypeOK
<1>8. TypeOK'
  BY <1>3, <1>6, <1>7 DEF TypeOK
<1>9. TurnTaking' /\ Idle'
  BY <1>1, <1>2, <1>6 DEF TurnTaking, Idle
<1>10. UpSide'
  BY <1>1, <1>2, <1>3, <1>6, <1>7 DEF UpSide
<1>11. HandSide'
  <2>0. client.sent \in Nat
    BY DEF TypeOK
  <2>1. client.sent \in Nat /\ client.sent <= HandshakeLen
    <3> HIDE DEF IInv, ReadGreeting
    <3> QED
      BY <1>4, <2>0, ConstantTypes
  <2>2. client'.replies = IF stage' = "Init" THEN 0 ELSE 1
    BY <1>6 DEF TypeOK
  <2>3. NextOut(lread') = GreetLen
    BY <1>3, <1>5
  <2>4. stage' # "Connect" /\ life' = life /\ NothingDropped
    BY <1>6 DEF HandSide
  <2>5. NothingDropped'
    BY <1>7, <2>4 DEF NothingDropped
  <2> HIDE DEF IInv, ReadGreeting
  <2>6. stage' = "HandShake" /\ client'.sent > HandshakeLen => client'.early
    BY <1>7, <2>1, ConstantTypes
  <2> QED
    BY <1>4, <1>6, <1>7, <2>2, <2>3, <2>4, <2>5, <2>6 DEF HandSide
<1>12. DownSide'
  BY <1>2, <1>7 DEF DownSide
<1> QED
  BY <1>8, <1>9, <1>10, <1>11, <1>12

(***************************************************************************)
(* The request: the auth frame carries the offset relaying starts from.    *)
(***************************************************************************)
LEMMA ReadRequestKeeps ==
    ASSUME IInv, NEW n, ReadRequest(n)
    PROVE  IInv'
<1> DEFINE io == AppendBuffer(lread, n)
           auth == [w |-> HdrLen + AuthLen, a |-> NextIn(io), kind |-> "auth"]
<1>1. ReadReturns(n) /\ stage = "HandShake" /\ lread.total + n >= ReqLen
  BY DEF ReadRequest, RequestThere
<1>2. /\ io \in IOType /\ NextIn(io) = NextIn(lread) + n /\ life = "open"
      /\ NextIn(lread) + n <= client.sent /\ n \in Nat
      /\ NextIn(lread) = NextOut(lread) + lread.total
      /\ NextIn(lread) \in Nat /\ NextOut(lread) \in Nat /\ lread.total \in Nat
  BY <1>1, ReadContext
<1>3. /\ lread' = ResetBuffer(io)
      /\ up' = <<auth>>
      /\ rwrite' = AppendBuffer(AppendBuffer(rwrite, HdrLen), AuthLen)
  BY <1>2 DEF ReadRequest
<1> HIDE DEF io
<1>4. /\ lread' \in IOType /\ NextIn(lread') = NextIn(io) /\ NextOut(lread') = NextIn(io)
      /\ lread'.startPos = 0 /\ lread'.total = 0
  BY <1>2, <1>3, ResetOffsets
<1>5. up = <<>> /\ upSent = 0 /\ rwrite \in IOType /\ Pending(rwrite) = 0
      /\ NextOut(rwrite) = 0 /\ NextIn(rwrite) = 0
  <2>1. up = <<>> /\ rwrite \in IOType /\ upSent = NextOut(rwrite) /\ NextIn(rwrite) = 0
    BY <1>1, <1>2, NoFrames DEF IInv, UpSide, TypeOK
  <2> QED
    BY <2>1, IOOffsets
<1>6. /\ rwrite' \in IOType /\ NextOut(rwrite') = 0
      /\ NextIn(rwrite') = HdrLen + AuthLen /\ Pending(rwrite') > 0
  <2>1. /\ AppendBuffer(rwrite, HdrLen) \in IOType
        /\ NextOut(AppendBuffer(rwrite, HdrLen)) = 0
        /\ NextIn(AppendBuffer(rwrite, HdrLen)) = 0 + HdrLen
        /\ Pending(AppendBuffer(rwrite, HdrLen)) = 0 + HdrLen
    <3>1. HdrLen \in Nat
      BY ConstantTypes
    <3> QED
      BY <1>5, <3>1, AppendOffsets
  <2> QED
    BY <1>3, <2>1, AppendOffsets, ConstantTypes
<1>7. /\ up' \in Seq(Frame) /\ up' # <<>> /\ WireEnd(up') = HdrLen + AuthLen
      /\ AppEnd(up') = NextIn(io) /\ up'[1].a = NextIn(io)
  <2>1. auth \in Frame
    BY <1>2, ConstantTypes DEF Frame, Kinds
  <2>2. Len(<<auth>>) = 1 /\ <<auth>>[1] = auth /\ <<auth>> \in Seq(Frame)
    BY <2>1
  <2> QED
    BY <1>3, <2>2 DEF WireEnd, AppEnd, WEnd, AEnd
<1>8. NextIn(io) >= HandshakeLen
  BY <1>1, <1>2, ConstantTypes DEF IInv, HandSide
<1>9. client.early \/ client.sent <= HandshakeLen
  BY <1>1, ConstantTypes DEF IInv, HandSide, TypeOK
<1>10. watch = {"lr"} /\ rstage = "none"
  BY <1>1, <1>2 DEF IInv, TurnTaking
<1>11. client' \in [sent: Nat, replies: 0..2, got: Nat, early: BOOLEAN,
                    fin: BOOLEAN, rst: BOOLEAN]
       /\ client'.sent = client.sent /\ client'.got = client.got
       /\ client'.early = client.early /\ client'.replies = 2
  <2>1. client' = [client EXCEPT !.replies = 2]
    BY DEF ReadRequest
  <2>2. client \in [sent: Nat, replies: 0..2, got: Nat, early: BOOLEAN,
                    fin: BOOLEAN, rst: BOOLEAN]
    BY DEF IInv, TypeOK
  <2> QED
    BY <2>1, <2>2
<1>12. client.early \/ NextIn(io) = HandshakeLen
  <2>1. client.sent \in Nat
    BY DEF IInv, TypeOK
  <2> QED
    BY <1>2, <1>8, <1>9, <2>1, ConstantTypes
<1> USE DEF IInv, ReadRequest, StartConnectTimer, downstream
<1>13. TypeOK'
  <2>1. peer' \in [conn: {"none", "pending", "up", "refused"}, fin: BOOLEAN, rst: BOOLEAN]
    BY DEF TypeOK
  <2>2. watch' \subseteq Watchers
    BY <1>10 DEF Watchers, Turn
  <2> QED
    BY <1>4, <1>6, <1>7, <1>11, <2>1, <2>2 DEF TypeOK
<1>14. TurnTaking' /\ Idle'
  BY <1>2, <1>6, <1>10 DEF TurnTaking, Idle, Turn
<1>15. UpSide'
  BY <1>2, <1>4, <1>5, <1>6, <1>7, <1>11 DEF UpSide
<1>16. HandSide'
  BY <1>7, <1>11, <1>12 DEF HandSide, NothingDropped
<1>17. DownSide'
  BY <1>2, <1>11 DEF DownSide
<1> QED
  BY <1>13, <1>14, <1>15, <1>16, <1>17

(***************************************************************************)
(* Data: whatever way it is cut, the frames end where the reading ends.    *)
(***************************************************************************)
LEMMA ReadDataKeeps ==
    ASSUME IInv, NEW n, ReadData(n)
    PROVE  IInv'
<1> DEFINE io == AppendBuffer(lread, n)
<1>1. ReadReturns(n) /\ stage = "Connect"
  BY DEF ReadData
<1>2. /\ io \in IOType /\ NextIn(io) = NextIn(lread) + n /\ life = "open"
      /\ NextIn(lread) + n <= client.sent /\ n \in Nat \ {0}
      /\ NextIn(lread) = NextOut(lread) + lread.total
      /\ NextIn(lread) \in Nat /\ NextOut(lread) \in Nat /\ lread.total \in Nat
  BY <1>1, ReadContext
<1>3. /\ "lr" \in watch /\ "rw" \notin watch /\ rwrite \in IOType /\ Pending(rwrite) = 0
      /\ rstage = "Connected" \/ rstage = "Connecting"
  <2>1. "lr" \in watch /\ rwrite \in IOType
    BY <1>1 DEF ReadReturns, IInv, TypeOK
  <2>2. "rw" \notin watch /\ ~(Pending(rwrite) > 0) /\ rstage # "none"
    BY <1>1, <1>2, <2>1 DEF IInv, TurnTaking
  <2> QED
    BY <2>1, <2>2, IOOffsets DEF IInv, TypeOK
<1>4. PICK c \in Cuts(lread.total + n) :
         /\ up' = Encode(up, c)
         /\ rwrite' = AppendBuffer(rwrite, EncodedLen(c))
         /\ lread' = ResetBuffer(io)
         /\ watch' = Turn(watch, "lr", "rw")
         /\ UNCHANGED <<life, cause, stage, rstage, timer>>
  BY <1>1, <1>3 DEF ReadData
<1> HIDE DEF io
<1>5. /\ lread' \in IOType /\ NextIn(lread') = NextIn(io) /\ NextOut(lread') = NextIn(io)
      /\ lread'.startPos = 0 /\ lread'.total = 0
  BY <1>2, <1>4, ResetOffsets
<1>6. up \in Seq(Frame) /\ up # <<>> /\ AppEnd(up) = NextOut(lread)
      /\ NextOut(rwrite) = upSent /\ NextIn(rwrite) = WireEnd(up)
  BY <1>1, <1>2 DEF IInv, TypeOK, UpSide
<1>7. /\ up' \in Seq(Frame) /\ up' # <<>> /\ up'[1] = up[1]
      /\ EncodedLen(c) \in Nat \ {0}
      /\ WireEnd(up') = WireEnd(up) + EncodedLen(c)
      /\ AppEnd(up') = AppEnd(up) + (lread.total + n)
  <2>1. lread.total + n \in Nat \ {0}
    BY <1>2
  <2> QED
    BY <1>4, <1>6, <2>1, EncodeProperties
<1>8. /\ rwrite' \in IOType /\ NextOut(rwrite') = upSent
      /\ NextIn(rwrite') = WireEnd(up') /\ Pending(rwrite') > 0
  BY <1>3, <1>4, <1>6, <1>7, AppendOffsets
<1>9. AppEnd(up') = NextOut(lread') /\ NextIn(lread') <= client.sent
  BY <1>2, <1>5, <1>6, <1>7
<1>10. UNCHANGED <<lwrite, rread, client, peer, upSent, dn, dnSent>>
  BY DEF ReadData, downstream
<1> USE <1>4, <1>10 DEF IInv
<1>11. TypeOK'
  <2>1. watch' \subseteq Watchers
    BY DEF TypeOK, Watchers, Turn
  <2> QED
    BY <1>5, <1>7, <1>8, <2>1 DEF TypeOK
<1>12. TurnTaking'
  BY <1>1, <1>2, <1>3, <1>8 DEF TurnTaking, Turn
<1>13. Idle' /\ UpSide'
  BY <1>1, <1>2, <1>5, <1>7, <1>8, <1>9 DEF Idle, UpSide
<1>14. HandSide' /\ DownSide'
  BY <1>1, <1>2, <1>6, <1>7 DEF HandSide, NothingDropped, DownSide
<1> QED
  BY <1>11, <1>12, <1>13, <1>14

-----------------------------------------------------------------------------
(***************************************************************************)
(* remoteWriteCallback.                                                    *)
(***************************************************************************)
LEMMA RemoteWriteKeeps ==
    ASSUME IInv, NEW n, RemoteWrite(n)
    PROVE  IInv'
<1>1. /\ "rw" \in watch /\ n \in Nat /\ n <= Pending(rwrite)
      /\ rwrite \in IOType /\ upSent \in Nat /\ Pending(rwrite) \in Nat
  <2>1. rwrite \in IOType /\ Pending(rwrite) \in Nat /\ upSent \in Nat
    BY IOOffsets DEF IInv, TypeOK
  <2> QED
    BY <2>1 DEF RemoteWrite
<1>2. /\ life = "open" /\ stage = "Connect" /\ Pending(rwrite) > 0
      /\ "lr" \notin watch /\ rstage # "none"
      /\ rstage = "Connecting" => "rr" \notin watch /\ "lw" \notin watch
      /\ rstage = "Connected" => ("rr" \in watch) # ("lw" \in watch)
  BY <1>1 DEF IInv, TurnTaking
<1>3. /\ rwrite' \in IOType /\ NextOut(rwrite') = NextOut(rwrite) + n
      /\ NextIn(rwrite') = NextIn(rwrite) /\ Pending(rwrite') = Pending(rwrite) - n
  BY <1>1, WrittenOffsets DEF RemoteWrite
<1>4. /\ watch' = (IF n = Pending(rwrite) THEN Turn(watch, "rw", "lr") ELSE watch)
                  \cup (IF rstage = "Connecting" THEN {"rr"} ELSE {})
      /\ rstage' = "Connected" /\ timer' = FALSE /\ upSent' = upSent + n
      /\ UNCHANGED <<life, cause, stage, lread, lwrite, rread, client, peer, up, dn, dnSent>>
  BY DEF RemoteWrite, StopConnectTimer, TurnBack, downstream
<1>w. watch \subseteq Watchers
  BY DEF IInv, TypeOK
<1>5. TypeOK'
  <2>1. upSent' \in Nat
    BY <1>1, <1>4
  <2>3. watch' \subseteq Watchers
    BY <1>w, <1>4, Zenon DEF Watchers, Turn
  <2> QED
    <3>1. TypeOK
      BY DEF IInv
    <3>2. /\ stage \in {"Init", "HandShake", "Connect"}
          /\ timer' \in BOOLEAN /\ rstage' \in {"none", "Connecting", "Connected"}
      BY <1>4, <3>1 DEF TypeOK
    <3> QED
      BY <1>3, <1>4, <2>1, <2>3, <3>1, <3>2 DEF TypeOK
<1>6. TurnTaking'
  <2>1. ("rw" \in watch') <=> n # Pending(rwrite)
    BY <1>1, <1>4 DEF Turn
  <2>2. ("lr" \in watch') <=> n = Pending(rwrite)
    BY <1>2, <1>4 DEF Turn
  <2>3. ("rr" \in watch') # ("lw" \in watch')
    BY <1>2, <1>4 DEF IInv, Turn, TypeOK
  <2>4. n # Pending(rwrite) <=> Pending(rwrite') > 0
    BY <1>1, <1>3
  <2> QED
    BY <1>2, <1>4, <2>1, <2>2, <2>3, <2>4 DEF TurnTaking
<1>7. Idle' /\ UpSide'
  BY <1>1, <1>2, <1>3, <1>4 DEF IInv, Idle, UpSide
<1>8. HandSide' /\ DownSide'
  BY <1>2, <1>4 DEF IInv, HandSide, NothingDropped, DownSide
<1> QED
  BY <1>5, <1>6, <1>7, <1>8 DEF IInv

-----------------------------------------------------------------------------
(***************************************************************************)
(* remoteReadCallback touches the bytes on their way to the client only.   *)
(***************************************************************************)
LEMMA RemoteReadContext ==
    ASSUME IInv, NEW n, RemoteReadReturns(n)
    PROVE  /\ n \in Nat /\ life = "open" /\ stage = "Connect" /\ rstage = "Connected"
           /\ "rr" \in watch /\ "lw" \notin watch
           /\ AppendBuffer(rread, n) \in IOType
           /\ AppendBuffer(rread, n).startPos = 0
           /\ NextOut(AppendBuffer(rread, n)) = NextOut(rread)
           /\ NextIn(AppendBuffer(rread, n)) = NextIn(rread) + n
           /\ NextIn(rread) + n <= dnSent
           /\ NextIn(rread) \in Nat /\ NextOut(rread) \in Nat
           /\ NextOut(rread) <= NextIn(rread)
<1>1. n \in Nat /\ "rr" \in watch /\ NextIn(rread) + n <= dnSent
  BY IOOffsets, ConstantTypes DEF IInv, TypeOK, RemoteReadReturns
<1>2. life = "open" /\ stage = "Connect" /\ rstage = "Connected" /\ "lw" \notin watch
  BY <1>1 DEF IInv, TypeOK, TurnTaking
<1>3. rread \in IOType /\ rread.startPos = 0
  BY <1>2 DEF IInv, TypeOK, DownSide
<1>4. NextIn(rread) \in Nat /\ NextOut(rread) \in Nat /\ NextOut(rread) <= NextIn(rread)
  BY <1>3, IOOffsets
<1>5. /\ AppendBuffer(rread, n) \in IOType
      /\ AppendBuffer(rread, n).startPos = rread.startPos
      /\ NextOut(AppendBuffer(rread, n)) = NextOut(rread)
      /\ NextIn(AppendBuffer(rread, n)) = NextIn(rread) + n
  BY <1>1, <1>3, AppendOffsets
<1> QED
  BY <1>1, <1>2, <1>3, <1>4, <1>5

LEMMA RemoteReadKeepsUp ==
    ASSUME IInv, life' = life, stage' = stage,
           UNCHANGED <<lread, rwrite, client, up, upSent>>
    PROVE  UpSide' /\ HandSide'
BY DEF IInv, UpSide, HandSide, NothingDropped

LEMMA RemoteReadPartKeeps ==
    ASSUME IInv, NEW n, RemoteReadPart(n) \/ RemoteReadHeaderOnly(n)
    PROVE  IInv'
<1>1. RemoteReadReturns(n)
  BY DEF RemoteReadPart, RemoteReadHeaderOnly
<1>2. /\ rread' = AppendBuffer(rread, n)
      /\ watch' = watch \/ watch' = Turn(watch, "rr", "lw")
      /\ UNCHANGED <<life, cause, stage, rstage, timer, lread, lwrite, rwrite, client, peer,
                     up, upSent, dn, dnSent>>
  BY DEF RemoteReadPart, RemoteReadHeaderOnly, ctl, upstream, downstream
<1>3. TypeOK'
  <2>1. watch' \subseteq Watchers
    BY <1>2 DEF IInv, TypeOK, Watchers, Turn
  <2> QED
    BY <1>1, <1>2, <2>1, RemoteReadContext DEF IInv, TypeOK
<1>4. TurnTaking' /\ Idle'
  BY <1>1, <1>2, RemoteReadContext DEF IInv, TurnTaking, Idle, Turn
<1>5. UpSide' /\ HandSide'
  BY <1>2, RemoteReadKeepsUp
<1>6. DownSide'
  BY <1>1, <1>2, RemoteReadContext DEF IInv, DownSide
<1> QED
  BY <1>3, <1>4, <1>5, <1>6 DEF IInv

LEMMA RemoteReadFramesKeeps ==
    ASSUME IInv, NEW n, RemoteReadFrames(n)
    PROVE  IInv'
<1> DEFINE io == AppendBuffer(rread, n)
           to == NextIn(rread) + n
           k == Decoded(n)
<1>1. RemoteReadReturns(n) /\ ~RefusedFrame(n)
  BY DEF RemoteReadFrames
<1>2. /\ n \in Nat /\ life = "open" /\ stage = "Connect" /\ rstage = "Connected"
      /\ "rr" \in watch /\ "lw" \notin watch
      /\ io \in IOType /\ NextOut(io) = NextOut(rread) /\ NextIn(io) = to
      /\ to <= dnSent /\ to \in Nat /\ NextOut(rread) \in Nat /\ NextOut(rread) <= to
  BY <1>1, RemoteReadContext
<1>3. /\ lwrite \in IOType /\ NextIn(lwrite) \in Nat /\ dn \in Seq(Frame) /\ Ordered(dn)
      /\ Boundary(dn, 0, NextOut(rread), NextIn(lwrite))
      /\ NextOut(lwrite) = client.got
  BY <1>2, IOOffsets DEF IInv, TypeOK, DownSide
<1>4. /\ WEnd(dn, k) \in Nat /\ AEnd(dn, k) \in Nat
      /\ NextOut(rread) <= WEnd(dn, k) /\ WEnd(dn, k) <= to /\ NextIn(lwrite) <= AEnd(dn, k)
      /\ Boundary(dn, 0, WEnd(dn, k), AEnd(dn, k))
  <2>1. ~Refused(dn, NextOut(rread), to, HdrLen + 1)
    BY <1>1 DEF RefusedFrame
  <2> QED
    BY <1>2, <1>3, <2>1, DecodeProperties DEF Decoded
<1>5. /\ lwrite' = AppendBuffer(lwrite, AEnd(dn, k) - NextIn(lwrite))
      /\ rread' = Compack(Consume(io, WEnd(dn, k) - NextOut(rread)))
      /\ watch' = Turn(watch, "rr", "lw")
      /\ UNCHANGED <<life, cause, stage, rstage, timer, lread, rwrite, client, peer,
                     up, upSent, dn, dnSent>>
  BY DEF RemoteReadFrames, upstream, downstream
<1> HIDE DEF io, to, k
<1>6. /\ lwrite' \in IOType /\ NextIn(lwrite') = AEnd(dn, k) /\ NextOut(lwrite') = client.got
  <2> DEFINE more == AEnd(dn, k) - NextIn(lwrite)
  <2>1. more \in Nat /\ NextIn(lwrite) + more = AEnd(dn, k)
    BY <1>3, <1>4
  <2> HIDE DEF more
  <2>2. lwrite' = AppendBuffer(lwrite, more)
    BY <1>5 DEF more
  <2> QED
    BY <1>3, <2>1, <2>2, AppendOffsets
<1>7. /\ rread' \in IOType /\ NextOut(rread') = WEnd(dn, k) /\ NextIn(rread') = to
      /\ rread'.startPos = 0
  <2> DEFINE taken == WEnd(dn, k) - NextOut(rread)
  <2>1. taken \in Nat /\ taken <= Pending(io) /\ NextOut(io) + taken = WEnd(dn, k)
    BY <1>2, <1>4, IOOffsets
  <2> HIDE DEF taken
  <2>2. /\ Consume(io, taken) \in IOType /\ NextOut(Consume(io, taken)) = WEnd(dn, k)
        /\ NextIn(Consume(io, taken)) = to
    BY <1>2, <2>1, ConsumeOffsets
  <2>3. rread' = Compack(Consume(io, taken))
    BY <1>5 DEF taken
  <2> QED
    BY <2>2, <2>3, CompackOffsets
<1>8. TypeOK'
  <2>1. watch' \subseteq Watchers
    BY <1>5 DEF IInv, TypeOK, Watchers, Turn
  <2> QED
    BY <1>5, <1>6, <1>7, <2>1 DEF IInv, TypeOK
<1>9. TurnTaking' /\ Idle'
  BY <1>2, <1>5 DEF IInv, TurnTaking, Idle, Turn
<1>10. UpSide' /\ HandSide'
  BY <1>5, RemoteReadKeepsUp
<1>11. DownSide'
  BY <1>2, <1>4, <1>5, <1>6, <1>7 DEF IInv, DownSide
<1> QED
  BY <1>8, <1>9, <1>10, <1>11 DEF IInv

(***************************************************************************)
(* writeCallback.                                                          *)
(***************************************************************************)
LEMMA WriteKeeps ==
    ASSUME IInv, NEW n, Write(n)
    PROVE  IInv'
<1>1. /\ "lw" \in watch /\ n \in Nat /\ n <= Pending(lwrite)
      /\ lwrite \in IOType /\ client.got \in Nat
  <2>1. lwrite \in IOType /\ Pending(lwrite) \in Nat /\ client.got \in Nat
    BY IOOffsets DEF IInv, TypeOK
  <2> QED
    BY <2>1 DEF Write
<1>2. life = "open" /\ stage = "Connect" /\ rstage = "Connected" /\ "rr" \notin watch
  BY <1>1 DEF IInv, TypeOK, TurnTaking
<1>3. NextOut(lwrite) = client.got /\ Boundary(dn, 0, NextOut(rread), NextIn(lwrite))
  BY <1>2 DEF IInv, DownSide
<1>4. /\ lwrite' = ResetIfDrained(Consume(lwrite, n))
      /\ watch' = (IF n = Pending(lwrite) THEN Turn(watch, "lw", "rr") ELSE watch)
      /\ client' = [client EXCEPT !.got = @ + n]
      /\ UNCHANGED <<life, cause, stage, rstage, timer, lread, rread, rwrite,
                     peer, up, upSent, dn, dnSent>>
  BY DEF Write, TurnBack, upstream, downstream
<1>5. /\ lwrite' \in IOType /\ NextOut(lwrite') = NextOut(lwrite) + n
      /\ NextIn(lwrite') = NextIn(lwrite)
  BY <1>1, <1>4, WrittenOffsets
<1>6. /\ client' \in [sent: Nat, replies: 0..2, got: Nat, early: BOOLEAN,
                    fin: BOOLEAN, rst: BOOLEAN]
      /\ client'.got = client.got + n /\ client'.sent = client.sent
      /\ client'.replies = client.replies /\ client'.early = client.early
  <2>1. client \in [sent: Nat, replies: 0..2, got: Nat, early: BOOLEAN,
                    fin: BOOLEAN, rst: BOOLEAN]
    BY DEF IInv, TypeOK
  <2> QED
    BY <1>1, <1>4, <2>1
<1>7. TypeOK'
  <2>1. watch' \subseteq Watchers
    BY <1>4 DEF IInv, TypeOK, Watchers, Turn
  <2> QED
    BY <1>4, <1>5, <1>6, <2>1 DEF IInv, TypeOK
<1>8. TurnTaking' /\ Idle'
  BY <1>1, <1>2, <1>4 DEF IInv, TurnTaking, Idle, Turn
<1>9. UpSide'
  BY <1>4, <1>6 DEF IInv, UpSide
<1>10. HandSide'
  BY <1>4, <1>6 DEF IInv, HandSide, NothingDropped
<1>11. DownSide'
  BY <1>2, <1>3, <1>4, <1>5, <1>6 DEF IInv, DownSide
<1> QED
  BY <1>7, <1>8, <1>9, <1>10, <1>11 DEF IInv

-----------------------------------------------------------------------------
(***************************************************************************)
(* The environment.                                                        *)
(***************************************************************************)
LEMMA ClientSendsKeeps ==
    ASSUME IInv, NEW n, ClientSends(n)
    PROVE  IInv'
<1>1. /\ client \in [sent: Nat, replies: 0..2, got: Nat, early: BOOLEAN,
                    fin: BOOLEAN, rst: BOOLEAN]
      /\ life = "open" /\ n \in 1..(ClientMaySend - client.sent)
      /\ client' = [client EXCEPT !.sent = @ + n,
                                  !.early = @ \/ (client.replies < 2
                                                  /\ client.sent + n > HandshakeLen)]
      /\ UNCHANGED <<life, cause, stage, rstage, watch, timer, lread, lwrite, rread, rwrite,
                     peer, up, upSent, dn, dnSent>>
  BY DEF IInv, TypeOK, ClientSends, ctl, bufs, upstream, downstream
<1>2. n \in Nat /\ (client.replies = 0 => client.sent + n <= GreetLen)
  BY <1>1, ConstantTypes DEF ClientMaySend
<1>3. /\ client' \in [sent: Nat, replies: 0..2, got: Nat, early: BOOLEAN,
                    fin: BOOLEAN, rst: BOOLEAN]
      /\ client'.sent = client.sent + n /\ client'.replies = client.replies
      /\ client'.got = client.got
      /\ client.early => client'.early
      /\ client.replies < 2 /\ client'.sent > HandshakeLen => client'.early
  <2>1. client.sent + n \in Nat
    BY <1>1, <1>2
  <2> QED
    BY <1>1, <2>1
<1>4. TypeOK' /\ TurnTaking' /\ Idle'
  BY <1>1, <1>3 DEF IInv, TypeOK, TurnTaking, Idle
<1>5. UpSide'
  <2>1. NextIn(lread) \in Nat
    BY IOOffsets DEF IInv, TypeOK
  <2> QED
    BY <1>1, <1>2, <1>3, <2>1 DEF IInv, UpSide
<1>6. HandSide'
  BY <1>1, <1>2, <1>3 DEF IInv, HandSide, NothingDropped
<1>7. DownSide'
  BY <1>1, <1>3 DEF IInv, DownSide
<1> QED
  BY <1>4, <1>5, <1>6, <1>7 DEF IInv

LEMMA ConnectionEventsKeep ==
    ASSUME IInv,
           \/ ClientCloses \/ ClientResets \/ PeerCloses \/ PeerResets
           \/ \E result \in {"up", "refused"} : ConnectEnds(result)
    PROVE  IInv'
<1>1. /\ client \in [sent: Nat, replies: 0..2, got: Nat, early: BOOLEAN,
                    fin: BOOLEAN, rst: BOOLEAN]
      /\ peer \in [conn: {"none", "pending", "up", "refused"}, fin: BOOLEAN, rst: BOOLEAN]
  BY DEF IInv, TypeOK
<1>2. UNCHANGED <<life, cause, stage, rstage, watch, timer, lread, lwrite, rread, rwrite,
                  up, upSent, dn, dnSent>>
  BY DEF ClientCloses, ClientResets, PeerCloses, PeerResets, ConnectEnds,
         ctl, bufs, upstream, downstream
<1>3. /\ client' \in [sent: Nat, replies: 0..2, got: Nat, early: BOOLEAN,
                    fin: BOOLEAN, rst: BOOLEAN]
      /\ client'.sent = client.sent /\ client'.replies = client.replies
      /\ client'.got = client.got /\ client'.early = client.early
  BY <1>1 DEF ClientCloses, ClientResets, PeerCloses, PeerResets, ConnectEnds
<1>4. peer' \in [conn: {"none", "pending", "up", "refused"}, fin: BOOLEAN, rst: BOOLEAN]
  BY <1>1 DEF ClientCloses, ClientResets, PeerCloses, PeerResets, ConnectEnds
<1>5. TypeOK' /\ TurnTaking' /\ Idle'
  BY <1>2, <1>3, <1>4 DEF IInv, TypeOK, TurnTaking, Idle
<1>6. UpSide'
  BY <1>2, <1>3 DEF IInv, UpSide
<1>7. HandSide'
  BY <1>2, <1>3 DEF IInv, HandSide, NothingDropped
<1>8. DownSide'
  BY <1>2, <1>3 DEF IInv, DownSide
<1> QED
  BY <1>5, <1>6, <1>7, <1>8 DEF IInv

(***************************************************************************)
(* What the session needs to know of the other end: the peer only adds     *)
(* frames behind those it encoded, and sends no more than it encoded.      *)
(***************************************************************************)
PeerGoesOn ==
    /\ UNCHANGED <<ctl, bufs, client, peer, upstream>>
    /\ dn' \in Seq(Frame) /\ Ordered(dn') /\ Continues(dn', dn)
    /\ dnSent' \in Nat /\ dnSent <= dnSent' /\ dnSent' <= WireEnd(dn')
    /\ life = "closed" => dnSent' = dnSent

LEMMA PeerGoesOnKeeps ==
    ASSUME IInv, PeerGoesOn
    PROVE  IInv'
<1>1. /\ UNCHANGED <<life, cause, stage, rstage, watch, timer, lread, lwrite, rread, rwrite,
                     client, peer, up, upSent>>
      /\ dn' \in Seq(Frame) /\ Ordered(dn') /\ Continues(dn', dn)
      /\ dnSent' \in Nat /\ dnSent <= dnSent' /\ dnSent' <= WireEnd(dn')
  BY DEF PeerGoesOn, ctl, bufs, upstream
<1>2. dn \in Seq(Frame) /\ dnSent \in Nat /\ NextIn(rread) \in Nat /\ 0 \in Nat
  BY IOOffsets DEF IInv, TypeOK
<1>3. TypeOK' /\ TurnTaking' /\ Idle'
  BY <1>1 DEF IInv, TypeOK, TurnTaking, Idle
<1>4. UpSide' /\ HandSide'
  BY <1>1, RemoteReadKeepsUp
<1>5. DownSide'
  <2>1. life # "closed" => /\ rread.startPos = 0
                           /\ NextOut(lwrite) = client.got /\ NextIn(rread) <= dnSent
                           /\ Boundary(dn, 0, NextOut(rread), NextIn(lwrite))
    BY DEF IInv, DownSide
  <2>2. life # "closed" => NextIn(rread) <= dnSent'
    BY <1>1, <1>2, <2>1
  <2>3. life # "closed" => Boundary(dn', 0, NextOut(rread), NextIn(lwrite))
    BY <1>1, <1>2, <2>1, ContinuedBoundary
  <2> QED
    BY <1>1, <2>1, <2>2, <2>3, Zenon DEF DownSide, NextIn, NextOut
<1> QED
  BY <1>3, <1>4, <1>5 DEF IInv

\* The frame the peer encodes next.
PeerFrame(size, kind) ==
    [w |-> WireEnd(dn) + HdrLen + FieldLen + size, a |-> AppEnd(dn) + size, kind |-> kind]

LEMMA PeerEncodesNext ==
    ASSUME IInv, NEW size \in 1..MaxChunk, NEW kind \in Kinds \ {"auth"},
           NEW n \in 0..(HdrLen + FieldLen + MaxChunk), PeerEncodes(size, kind, n)
    PROVE  LET f == PeerFrame(size, kind)
           IN  /\ dn' = Append(dn, f) /\ f \in Frame
               /\ f.w > WireEnd(dn) /\ f.a >= AppEnd(dn)
               /\ f.w - WireEnd(dn) <= LongestFrame /\ f.a - AppEnd(dn) <= f.w - WireEnd(dn)
               /\ dnSent' \in Nat /\ dnSent <= dnSent' /\ dnSent' <= f.w
<1> DEFINE f == PeerFrame(size, kind)
<1>1. dn \in Seq(Frame) /\ dnSent \in Nat /\ kind \in Kinds
  BY DEF IInv, TypeOK
<1>2. WireEnd(dn) \in Nat /\ AppEnd(dn) \in Nat
  BY <1>1, EndsAreNaturals
<1>3. /\ f \in Frame /\ f.w > WireEnd(dn) /\ f.a >= AppEnd(dn)
      /\ f.w - WireEnd(dn) <= LongestFrame /\ f.a - AppEnd(dn) <= f.w - WireEnd(dn)
  BY <1>1, <1>2, NextFrame DEF PeerFrame
<1>4. dn' = Append(dn, f) /\ n \in 0..(f.w - dnSent) /\ dnSent' = dnSent + n
  BY DEF PeerEncodes, PeerFrame
<1>5. f.w \in Nat
  BY <1>3 DEF Frame
<1> HIDE DEF f
<1>6. dnSent' \in Nat /\ dnSent <= dnSent' /\ dnSent' <= f.w
  BY <1>1, <1>4, <1>5
<1> QED
  BY <1>3, <1>4, <1>6 DEF f

LEMMA PeerSends ==
    ASSUME IInv,
           \/ PeerSendsRest
           \/ \E size \in 1..MaxChunk, kind \in Kinds \ {"auth"},
                 n \in 0..(HdrLen + FieldLen + MaxChunk) : PeerEncodes(size, kind, n)
    PROVE  PeerGoesOn
<1>1. /\ dn \in Seq(Frame) /\ Ordered(dn) /\ dnSent <= WireEnd(dn)
      /\ WireEnd(dn) \in Nat /\ dnSent \in Nat /\ Len(dn) \in Nat
  BY EndsAreNaturals DEF IInv, TypeOK, DownSide
<1>2. UNCHANGED <<ctl, bufs, client, peer, upstream>> /\ life # "closed"
  BY DEF PeerSendsRest, PeerEncodes
<1>3. CASE PeerSendsRest
  <2>1. dn' = dn /\ dnSent' = WireEnd(dn) /\ dnSent <= WireEnd(dn)
    BY <1>1, <1>3 DEF PeerSendsRest
  <2>2. Continues(dn, dn)
    BY <1>1 DEF Continues
  <2>3. WireEnd(dn) <= WireEnd(dn)
    BY <1>1
  <2> QED
    BY <1>1, <1>2, <2>1, <2>2, <2>3 DEF PeerGoesOn
<1>4. CASE \E size \in 1..MaxChunk, kind \in Kinds \ {"auth"},
              n \in 0..(HdrLen + FieldLen + MaxChunk) : PeerEncodes(size, kind, n)
  <2> PICK size \in 1..MaxChunk, kind \in Kinds \ {"auth"},
           n \in 0..(HdrLen + FieldLen + MaxChunk) : PeerEncodes(size, kind, n)
    BY <1>4
  <2> DEFINE f == PeerFrame(size, kind)
  <2>1. /\ dn' = Append(dn, f) /\ f \in Frame
        /\ f.w > WireEnd(dn) /\ f.a >= AppEnd(dn)
        /\ dnSent' \in Nat /\ dnSent <= dnSent' /\ dnSent' <= f.w
    BY PeerEncodesNext
  <2> HIDE DEF f
  <2>2. /\ Append(dn, f) \in Seq(Frame) /\ Ordered(Append(dn, f))
        /\ Continues(Append(dn, f), dn) /\ WireEnd(Append(dn, f)) = f.w
    BY <1>1, <2>1, AppendKeepsOrder
  <2> QED
    BY <1>2, <2>1, <2>2 DEF PeerGoesOn
<1> QED
  BY <1>3, <1>4

-----------------------------------------------------------------------------
LEMMA StepPreserves == IInv /\ [Next]_vars => IInv'
<1> SUFFICES ASSUME IInv, [Next]_vars PROVE IInv'
  OBVIOUS
<1>1. CASE Accept
  BY <1>1, AcceptKeeps
<1>2. CASE ReadCallback
  <2>1. CASE ReadEof \/ ReadError
    BY <2>1, CloseKeeps DEF ReadEof, ReadError, Causes
  <2>2. ASSUME NEW n \in 1..MaxBuf,
               ReadBadRequest(n) \/ ReadRequestFails(n) \/ ReplyFails(n)
        PROVE  IInv'
    BY <2>2, CloseKeeps DEF ReadBadRequest, ReadRequestFails, ReplyFails, Causes
  <2>3. ASSUME NEW n \in 1..MaxBuf, ReadPart(n)
        PROVE  IInv'
    BY <2>3, ReadPartKeeps
  <2>4. ASSUME NEW n \in 1..MaxBuf, NEW ok \in BOOLEAN, ReadGreeting(n, ok)
        PROVE  IInv'
    BY <2>4, ReadGreetingKeeps
  <2>5. ASSUME NEW n \in 1..MaxBuf, ReadRequest(n)
        PROVE  IInv'
    BY <2>5, ReadRequestKeeps
  <2>6. ASSUME NEW n \in 1..MaxBuf, ReadData(n)
        PROVE  IInv'
    BY <2>6, ReadDataKeeps
  <2> QED
    BY <1>2, <2>1, <2>2, <2>3, <2>4, <2>5, <2>6 DEF ReadCallback
<1>3. CASE RemoteWriteCallback
  <2>1. CASE RemoteConnectFails \/ RemoteWriteFails
    BY <2>1, CloseKeeps DEF RemoteConnectFails, RemoteWriteFails, Causes
  <2>2. ASSUME NEW n \in 0..RealBuf, RemoteWrite(n)
        PROVE  IInv'
    BY <2>2, RemoteWriteKeeps
  <2> QED
    BY <1>3, <2>1, <2>2 DEF RemoteWriteCallback
<1>4. CASE RemoteTimeout
  BY <1>4, CloseKeeps DEF RemoteTimeout, Causes
<1>5. CASE RemoteReadCallback
  <2>1. CASE RemoteReadEof \/ RemoteReadError
    BY <2>1, CloseKeeps DEF RemoteReadEof, RemoteReadError, Causes
  <2>2. ASSUME NEW n \in 0..MaxBuf, RemoteReadBad(n)
        PROVE  IInv'
    BY <2>2, CloseKeeps DEF RemoteReadBad, Causes
  <2>3. ASSUME NEW n \in 0..MaxBuf, RemoteReadPart(n) \/ RemoteReadHeaderOnly(n)
        PROVE  IInv'
    BY <2>3, RemoteReadPartKeeps
  <2>4. ASSUME NEW n \in 0..MaxBuf, RemoteReadFrames(n)
        PROVE  IInv'
    BY <2>4, RemoteReadFramesKeeps
  <2> QED
    BY <1>5, <2>1, <2>2, <2>3, <2>4 DEF RemoteReadCallback
<1>6. CASE WriteCallback
  <2>1. CASE WriteFails
    BY <2>1, CloseKeeps DEF WriteFails, Causes
  <2>2. ASSUME NEW n \in 1..RealBuf, Write(n)
        PROVE  IInv'
    BY <2>2, WriteKeeps
  <2> QED
    BY <1>6, <2>1, <2>2 DEF WriteCallback
<1>7. CASE WriteNothing
  BY <1>7, CloseKeeps DEF WriteNothing, Causes
<1>8. CASE Environment
  <2>1. ASSUME NEW n \in 1..(HandshakeLen + MaxUp), ClientSends(n)
        PROVE  IInv'
    BY <2>1, ClientSendsKeeps
  <2> QED
    BY <1>8, <2>1, ConnectionEventsKeep, PeerSends, PeerGoesOnKeeps DEF Environment
<1>9. CASE UNCHANGED vars
  BY <1>9 DEF vars, ctl, bufs, upstream, downstream, IInv, TypeOK, TurnTaking, Idle,
              UpSide, HandSide, NothingDropped, DownSide
<1> QED
  BY <1>1, <1>2, <1>3, <1>4, <1>5, <1>6, <1>7, <1>8, <1>9 DEF Next

LEMMA InvariantHolds == Spec => []IInv
BY InitEstablishes, StepPreserves, PTL DEF Spec

(***************************************************************************)
(* Every variable keeps its type, whatever the sizes and the segmentation. *)
(***************************************************************************)
THEOREM TypesAreKept == Spec => []TypeOK
<1>1. IInv => TypeOK
  BY DEF IInv
<1> QED
  BY <1>1, InvariantHolds, PTL

(***************************************************************************)
(* No direction of a relaying session is ever left without a started       *)
(* watcher, or with both: a callback that stops one starts the other.      *)
(***************************************************************************)
THEOREM TurnsAreTaken == Spec => []TurnTaking
<1>1. IInv => TurnTaking
  BY DEF IInv
<1> QED
  BY <1>1, InvariantHolds, PTL

(***************************************************************************)
(* What the callbacks of a session write to the peer is exactly the frames *)
(* encoded from exactly the bytes read from the client, in order.          *)
(***************************************************************************)
THEOREM UpstreamIsIntact == Spec => []UpstreamIntegrity
<1>1. IInv => UpstreamIntegrity
  BY DEF IInv, UpSide, UpstreamIntegrity
<1> QED
  BY <1>1, InvariantHolds, PTL

(***************************************************************************)
(* However the peer's frames are split over reads, decoding resumes at a   *)
(* frame boundary and the client gets exactly what the frames carry.       *)
(***************************************************************************)
THEOREM DownstreamIsIntact == Spec => []DownstreamIntegrity
<1>1. IInv => DownstreamIntegrity
  BY DEF IInv, DownSide, DownstreamIntegrity, Boundary
<1> QED
  BY <1>1, InvariantHolds, PTL

(***************************************************************************)
(* A client that waits for the reply to its request loses no data to the   *)
(* resetBuffer that ends the handshake.                                    *)
(***************************************************************************)
THEOREM HandshakeDropsNothing == Spec => []NothingDropped
<1>1. IInv => NothingDropped
  BY DEF IInv, HandSide
<1> QED
  BY <1>1, InvariantHolds, PTL

-----------------------------------------------------------------------------
(***************************************************************************)
(* The room in the buffers, and why a session ends.  IInv is known by now; *)
(* what it lacks is how long the peer's frames are, that a message is      *)
(* taken out of a read buffer as soon as it is complete, that a drained    *)
(* write buffer starts over, and that nothing is written while connecting. *)
(***************************************************************************)
Room ==
    /\ stage = "Init" => lread.total < GreetLen
    /\ stage = "HandShake" => lread.total < ReqLen
    /\ lwrite.total <= RealBuf /\ rwrite.total <= RealBuf
    /\ Pending(lwrite) = 0 => lwrite.total = 0
    /\ Pending(rwrite) = 0 => rwrite.total = 0
    /\ Pending(lwrite) > 0 => "lw" \in watch

FrameSide ==
    /\ Framed(dn, 0)
    /\ life # "closed" => Complete(dn, NextOut(rread), NextIn(rread)) = {}

Quiet == life # "closed" /\ rstage # "Connected" => upSent = 0 /\ client.got = 0

EndSide ==
    /\ life # "closed" => cause = "none"
    /\ OrderlyClose /\ ClosedForCause

EndInv == Room /\ FrameSide /\ Quiet /\ EndSide

LEMMA SizeFacts ==
    /\ GreetLen \in Nat /\ ReqLen \in Nat \ {0} /\ GreetLen <= MaxBuf /\ ReqLen <= MaxBuf
    /\ LongestFrame \in Nat \ {0} /\ LongestFrame <= MaxBuf /\ MaxBuf <= RealBuf
    /\ HdrLen + AuthLen <= RealBuf
    /\ \A x \in Nat : x <= MaxBuf => x + (HdrLen + FieldLen) * MaxFrames <= RealBuf
<1>1. /\ MaxBuf \in Nat /\ RealBuf \in Nat /\ (HdrLen + FieldLen) * MaxFrames \in Nat
      /\ MaxBuf + (HdrLen + FieldLen) * MaxFrames <= RealBuf
  BY FrameAssumption, LocalAssumption
<1>2. MaxBuf <= RealBuf /\ \A x \in Nat :
         x <= MaxBuf => x + (HdrLen + FieldLen) * MaxFrames <= RealBuf
  <2> DEFINE r == (HdrLen + FieldLen) * MaxFrames
  <2>1. r \in Nat /\ MaxBuf + r <= RealBuf
    BY <1>1
  <2> HIDE DEF r
  <2>2. MaxBuf <= RealBuf /\ \A x \in Nat : x <= MaxBuf => x + r <= RealBuf
    BY <1>1, <2>1
  <2> QED
    BY <2>2 DEF r
<1> QED
  BY <1>1, <1>2, FrameAssumption, LocalAssumption DEF LongestFrame

LEMMA InitEstablishesEnd == Init => EndInv
<1> SUFFICES ASSUME Init PROVE EndInv
  OBVIOUS
<1> USE NoFrames, EmptyOffsets, SizeFacts, ConstantTypes DEF Init
<1>1. Room
  BY DEF Room
<1>2. FrameSide /\ Quiet
  BY DEF FrameSide, Quiet
<1>3. EndSide
  BY DEF EndSide, OrderlyClose, ClosedForCause
<1> QED
  BY <1>1, <1>2, <1>3 DEF EndInv

\* A session that stays open has no end to account for.
LEMMA StillOpen ==
    ASSUME EndInv, life # "closed", UNCHANGED cause
    PROVE  EndSide'
BY DEF EndInv, EndSide, OrderlyClose, ClosedForCause

LEMMA CloseKeepsEnd ==
    ASSUME IInv, EndInv, NEW why, Close(why), OrderlyClose', ClosedForCause'
    PROVE  EndInv'
<1> USE EmptyOffsets, SizeFacts, ConstantTypes DEF EndInv, Close, downstream
<1>1. Room'
  BY DEF Room
<1>2. FrameSide' /\ Quiet' /\ EndSide'
  BY DEF FrameSide, Quiet, EndSide
<1> QED
  BY <1>1, <1>2

-----------------------------------------------------------------------------
(***************************************************************************)
(* The ends of the two streams.                                            *)
(***************************************************************************)
LEMMA ReadEofKeepsEnd ==
    ASSUME IInv, EndInv, ReadEof
    PROVE  EndInv'
<1>1. /\ "lr" \in watch /\ client.fin /\ lread.total = 0 /\ NextIn(lread) = client.sent
      /\ Close("clientEof")
  BY DEF ReadEof, ClientDrained
<1>2. life = "open" /\ lread \in IOType /\ rwrite \in IOType
  BY <1>1 DEF IInv, TypeOK, TurnTaking
<1>3. ASSUME client.replies = 2
      PROVE  upSent = WireEnd(up) /\ AppEnd(up) = client.sent
  <2>1. stage = "Connect"
    BY <1>2, <1>3 DEF IInv, TypeOK, HandSide
  <2>2. /\ NextOut(rwrite) = upSent /\ NextIn(rwrite) = WireEnd(up)
        /\ AppEnd(up) = NextOut(lread) /\ lread.startPos = 0
    BY <1>2, <2>1 DEF IInv, UpSide
  <2>3. ~(Pending(rwrite) > 0)
    BY <1>1, <1>2, <2>1 DEF IInv, TurnTaking
  <2>4. NextIn(rwrite) = NextOut(rwrite) /\ NextIn(lread) = NextOut(lread)
    BY <1>1, <1>2, <2>2, <2>3, IOOffsets
  <2> QED
    BY <1>1, <2>2, <2>4
<1>4. OrderlyClose' /\ ClosedForCause'
  BY <1>1, <1>3 DEF Close, OrderlyClose, ClosedForCause, upstream
<1> QED
  BY <1>1, <1>4, CloseKeepsEnd

LEMMA RemoteReadEofKeepsEnd ==
    ASSUME IInv, EndInv, RemoteReadEof
    PROVE  EndInv'
<1>1. /\ "rr" \in watch /\ peer.fin /\ rread.total = 0 /\ NextIn(rread) = dnSent
      /\ Close("peerEof")
  BY DEF RemoteReadEof, PeerDrained
<1>2. life = "open" /\ "lw" \notin watch /\ lwrite \in IOType /\ rread \in IOType
  BY <1>1 DEF IInv, TypeOK, TurnTaking
<1>3. /\ dn \in Seq(Frame) /\ Ordered(dn) /\ dnSent \in Nat /\ rread.startPos = 0
      /\ Boundary(dn, 0, NextOut(rread), NextIn(lwrite)) /\ NextOut(lwrite) = client.got
  BY <1>2 DEF IInv, TypeOK, DownSide
<1>4. NextOut(rread) = dnSent
  BY <1>1, <1>2, <1>3, IOOffsets
<1>5. NextIn(lwrite) = client.got
  <2>1. ~(Pending(lwrite) > 0)
    BY <1>2 DEF EndInv, Room
  <2> QED
    BY <1>2, <1>3, <2>1, IOOffsets
<1>6. Boundary(dn, 0, dnSent, client.got) /\ 0 \in Nat
  BY <1>3, <1>4, <1>5
<1>7. /\ WEnd(dn, LastComplete(dn, dnSent)) = dnSent
      /\ AEnd(dn, LastComplete(dn, dnSent)) = client.got
  BY <1>3, <1>6, BoundaryIsLast
<1>8. OrderlyClose' /\ ClosedForCause'
  BY <1>1, <1>7 DEF Close, OrderlyClose, ClosedForCause, downstream
<1> QED
  BY <1>1, <1>8, CloseKeepsEnd

\* A frame is refused only if it is no data frame.
LEMMA RefusedForCause ==
    ASSUME NEW s, NEW from, NEW to, NEW seen, Refused(s, from, to, seen)
    PROVE  \E k \in 1..Len(s) : s[k].kind # "data"
BY DEF Refused, Complete

(***************************************************************************)
(* The other reasons: resets, refusals and the timer.                      *)
(***************************************************************************)
LEMMA OtherEndsKeepEnd ==
    ASSUME IInv, EndInv,
           \/ ReadError \/ RemoteReadError
           \/ RemoteConnectFails \/ RemoteWriteFails \/ RemoteTimeout
           \/ WriteFails \/ WriteNothing
           \/ \E n \in 1..MaxBuf : ReadBadRequest(n) \/ ReadRequestFails(n) \/ ReplyFails(n)
           \/ \E n \in 0..MaxBuf : RemoteReadBad(n)
    PROVE  EndInv'
<1>1. CASE ReadError \/ RemoteReadError
  <2>1. Close("readError") /\ (client.rst \/ peer.rst)
    BY <1>1 DEF ReadError, RemoteReadError
  <2>2. OrderlyClose' /\ ClosedForCause'
    BY <2>1 DEF Close, OrderlyClose, ClosedForCause
  <2> QED
    BY <2>1, <2>2, CloseKeepsEnd
<1>2. CASE \/ RemoteConnectFails \/ RemoteWriteFails \/ WriteFails \/ WriteNothing
           \/ \E n \in 1..MaxBuf : ReadRequestFails(n)
  <2>1. Close("connectFailed") \/ Close("writeError")
    BY <1>2 DEF RemoteConnectFails, RemoteWriteFails, WriteFails, WriteNothing, ReadRequestFails
  <2>2. OrderlyClose' /\ ClosedForCause'
    BY <2>1 DEF Close, OrderlyClose, ClosedForCause
  <2> QED
    BY <2>1, <2>2, CloseKeepsEnd
<1>3. CASE RemoteTimeout
  <2>1. Close("timeout") /\ rstage = "Connecting"
    BY <1>3 DEF RemoteTimeout, IInv, TurnTaking
  <2>2. upSent = 0 /\ client.got = 0
    BY <2>1 DEF EndInv, Quiet, IInv, TypeOK, Idle
  <2>3. OrderlyClose' /\ ClosedForCause'
    BY <2>1, <2>2 DEF Close, OrderlyClose, ClosedForCause, upstream
  <2> QED
    BY <2>1, <2>3, CloseKeepsEnd
<1>4. CASE \E n \in 1..MaxBuf : ReadBadRequest(n)
  <2>1. Close("badRequest") /\ stage = "HandShake"
    BY <1>4 DEF ReadBadRequest, RequestTyped
  <2>2. client.replies = 1
    BY <2>1 DEF IInv, HandSide
  <2>3. OrderlyClose' /\ ClosedForCause'
    BY <2>1, <2>2 DEF Close, OrderlyClose, ClosedForCause
  <2> QED
    BY <2>1, <2>3, CloseKeepsEnd
<1>5. CASE \E n \in 1..MaxBuf : ReplyFails(n)
  <2>1. Close("sendFailed") /\ client.rst
    BY <1>5 DEF ReplyFails
  <2>2. OrderlyClose' /\ ClosedForCause'
    BY <2>1 DEF Close, OrderlyClose, ClosedForCause
  <2> QED
    BY <2>1, <2>2, CloseKeepsEnd
<1>6. CASE \E n \in 0..MaxBuf : RemoteReadBad(n)
  <2>1. Close("badFrame") /\ \E k \in 1..Len(dn) : dn[k].kind # "data"
    BY <1>6, RefusedForCause DEF RemoteReadBad, RefusedFrame
  <2>2. OrderlyClose' /\ ClosedForCause'
    BY <2>1 DEF Close, OrderlyClose, ClosedForCause, downstream
  <2> QED
    BY <2>1, <2>2, CloseKeepsEnd
<1> QED
  BY <1>1, <1>2, <1>3, <1>4, <1>5, <1>6

-----------------------------------------------------------------------------
(***************************************************************************)
(* The steps of a session that stays open: the client's side.              *)
(***************************************************************************)
LEMMA AcceptKeepsEnd ==
    ASSUME IInv, EndInv, Accept
    PROVE  EndInv'
<1>1. /\ life = "none" /\ life' = "open"
      /\ UNCHANGED <<cause, stage, rstage, lread, lwrite, rread, rwrite, client, peer,
                     up, upSent, dn, dnSent>>
  BY DEF Accept, bufs, upstream, downstream
<1>2. lwrite = EmptyIO
  BY <1>1 DEF IInv, Idle
<1>3. Room'
  BY <1>1, <1>2, EmptyOffsets DEF EndInv, Room
<1>4. FrameSide' /\ Quiet'
  BY <1>1 DEF EndInv, FrameSide, Quiet
<1>5. EndSide'
  BY <1>1, StillOpen
<1> QED
  BY <1>3, <1>4, <1>5 DEF EndInv

LEMMA ReadPartKeepsEnd ==
    ASSUME IInv, EndInv, NEW n, ReadPart(n)
    PROVE  EndInv'
<1>1. /\ ReadReturns(n) /\ lread' = AppendBuffer(lread, n)
      /\ stage = "Init" => lread.total + n < GreetLen
      /\ stage = "HandShake" => lread.total + n < ReqLen
      /\ UNCHANGED <<life, cause, stage, rstage, watch, lwrite, rread, rwrite, client, peer,
                     up, upSent, dn, dnSent>>
  BY DEF ReadPart, ctl, upstream, downstream
<1>2. life = "open" /\ lread'.total = lread.total + n
  BY <1>1, ReadContext
<1>3. Room'
  BY <1>1, <1>2 DEF EndInv, Room
<1>4. FrameSide' /\ Quiet'
  BY <1>1 DEF EndInv, FrameSide, Quiet
<1>5. EndSide'
  BY <1>1, <1>2, StillOpen
<1> QED
  BY <1>3, <1>4, <1>5 DEF EndInv

LEMMA ReadGreetingKeepsEnd ==
    ASSUME IInv, EndInv, NEW n, NEW ok \in BOOLEAN, ReadGreeting(n, ok)
    PROVE  EndInv'
<1>1. /\ ReadReturns(n) /\ stage = "Init"
      /\ stage' \in {"Init", "HandShake"}
      /\ lread' = ResetBuffer(AppendBuffer(lread, n))
      /\ client' = [client EXCEPT !.replies = IF ok THEN 1 ELSE 0]
      /\ UNCHANGED <<life, cause, rstage, watch, lwrite, rread, rwrite, peer,
                     up, upSent, dn, dnSent>>
  BY DEF ReadGreeting, upstream, downstream
<1>2. life = "open" /\ lread'.total = 0
  BY <1>1, ReadContext, ResetOffsets
<1>3. client'.got = client.got
  BY <1>1 DEF IInv, TypeOK
<1>4. Room'
  BY <1>1, <1>2, SizeFacts, ConstantTypes DEF EndInv, Room
<1>5. FrameSide' /\ Quiet'
  BY <1>1, <1>3 DEF EndInv, FrameSide, Quiet
<1>6. EndSide'
  BY <1>1, <1>2, StillOpen
<1> QED
  BY <1>4, <1>5, <1>6 DEF EndInv

LEMMA ReadRequestKeepsEnd ==
    ASSUME IInv, EndInv, NEW n, ReadRequest(n)
    PROVE  EndInv'
<1> DEFINE io == AppendBuffer(rwrite, HdrLen)
<1>1. /\ ReadReturns(n) /\ stage = "HandShake"
      /\ stage' = "Connect" /\ rstage' = "Connecting"
      /\ rwrite' = AppendBuffer(io, AuthLen)
      /\ watch' = Turn(watch, "lr", "rw")
      /\ client' = [client EXCEPT !.replies = 2]
      /\ UNCHANGED <<life, cause, lwrite, rread, upSent, dn, dnSent>>
  BY DEF ReadRequest, RequestThere, downstream
<1>2. life = "open"
  BY <1>1, ReadContext
<1>3. rwrite \in IOType /\ lwrite \in IOType /\ rstage = "none"
  BY <1>1, <1>2 DEF IInv, TypeOK, TurnTaking
<1>4. rwrite.total = 0
  <2>1. up = <<>> /\ NextIn(rwrite) = WireEnd(up)
    BY <1>1, <1>2 DEF IInv, UpSide
  <2>2. NextIn(rwrite) = 0
    BY <2>1, NoFrames
  <2>3. Pending(rwrite) = 0
    BY <1>3, <2>2, IOOffsets
  <2> QED
    BY <2>3 DEF EndInv, Room
<1>5. /\ rwrite'.total = HdrLen + AuthLen
      /\ Pending(rwrite') > 0
  <2>1. /\ io \in IOType /\ io.total = HdrLen /\ Pending(io) = Pending(rwrite) + HdrLen
    BY <1>3, <1>4, AppendOffsets, ConstantTypes
  <2>2. Pending(rwrite) \in Nat
    BY <1>3, IOOffsets
  <2> HIDE DEF io
  <2>3. rwrite'.total = io.total + AuthLen /\ Pending(rwrite') = Pending(io) + AuthLen
    BY <1>1, <2>1, AppendOffsets, ConstantTypes
  <2> QED
    BY <2>1, <2>2, <2>3, ConstantTypes
<1>6. client'.got = client.got
  BY <1>1 DEF IInv, TypeOK
<1>7. Room'
  BY <1>1, <1>5, SizeFacts, ConstantTypes DEF EndInv, Room, Turn
<1>8. FrameSide' /\ Quiet'
  BY <1>1, <1>2, <1>3, <1>6 DEF EndInv, FrameSide, Quiet
<1>9. EndSide'
  BY <1>1, <1>2, StillOpen
<1> QED
  BY <1>7, <1>8, <1>9 DEF EndInv

LEMMA ReadDataKeepsEnd ==
    ASSUME IInv, EndInv, NEW n, ReadData(n)
    PROVE  EndInv'
<1>1. /\ ReadReturns(n) /\ stage = "Connect"
      /\ UNCHANGED <<life, cause, stage, rstage, lwrite, rread, client, peer,
                     upSent, dn, dnSent>>
  BY DEF ReadData, ctl, downstream
<1>2. /\ life = "open" /\ n \in Nat \ {0} /\ lread.total \in Nat
      /\ "lr" \in watch /\ lread.total + n <= MaxBuf
  BY <1>1, ReadContext, ConstantTypes DEF ReadReturns
<1>3. Pending(rwrite) = 0 /\ rwrite \in IOType
  <2>1. rwrite \in IOType
    BY DEF IInv, TypeOK
  <2>2. ~(Pending(rwrite) > 0)
    BY <1>1, <1>2 DEF IInv, TurnTaking
  <2> QED
    BY <2>1, <2>2, IOOffsets
<1>4. rwrite.total = 0
  BY <1>3 DEF EndInv, Room
<1>5. PICK c \in Cuts(lread.total + n) :
         /\ rwrite' = AppendBuffer(rwrite, EncodedLen(c))
         /\ watch' = Turn(watch, "lr", "rw")
  BY <1>3 DEF ReadData
<1>6. /\ rwrite'.total = EncodedLen(c) /\ Pending(rwrite') = EncodedLen(c)
      /\ EncodedLen(c) \in Nat \ {0} /\ EncodedLen(c) <= RealBuf
  <2>1. lread.total + n \in Nat \ {0}
    BY <1>2
  <2>2. /\ EncodedLen(c) <= (lread.total + n) + (HdrLen + FieldLen) * MaxFrames
        /\ EncodedLen(c) \in Nat \ {0}
    BY <2>1, EncodedFits, EncodeProperties, NoFrames
  <2>3. (lread.total + n) + (HdrLen + FieldLen) * MaxFrames <= RealBuf
    BY <1>2, <2>1, SizeFacts
  <2>4. (HdrLen + FieldLen) * MaxFrames \in Nat
    BY FrameAssumption
  <2>5. EncodedLen(c) <= RealBuf
    BY <2>1, <2>2, <2>3, <2>4, ConstantTypes
  <2>6. EncodedLen(c) \in Nat
    BY <2>2
  <2>7. /\ rwrite'.total = rwrite.total + EncodedLen(c)
        /\ Pending(rwrite') = Pending(rwrite) + EncodedLen(c)
    BY <1>3, <1>5, <2>6, AppendOffsets
  <2> QED
    BY <1>3, <1>4, <2>2, <2>5, <2>7
<1>7. Room'
  BY <1>1, <1>5, <1>6 DEF EndInv, Room, Turn
<1>8. FrameSide' /\ Quiet'
  BY <1>1 DEF EndInv, FrameSide, Quiet
<1>9. EndSide'
  BY <1>1, <1>2, StillOpen
<1> QED
  BY <1>7, <1>8, <1>9 DEF EndInv

LEMMA WriteKeepsEnd ==
    ASSUME IInv, EndInv, NEW n, Write(n)
    PROVE  EndInv'
<1>1. /\ "lw" \in watch
      /\ lwrite' = ResetIfDrained(Consume(lwrite, n))
      /\ watch' = (IF n = Pending(lwrite) THEN Turn(watch, "lw", "rr") ELSE watch)
      /\ n \in 1..Pending(lwrite)
      /\ UNCHANGED <<life, cause, stage, rstage, lread, rread, rwrite, up, upSent, dn, dnSent>>
  BY DEF Write, TurnBack, upstream, downstream
<1>2. life = "open" /\ rstage = "Connected"
  BY <1>1 DEF IInv, TypeOK, TurnTaking
<1>3. lwrite \in IOType /\ Pending(lwrite) \in Nat /\ n \in Nat /\ n <= Pending(lwrite)
  BY <1>1, IOOffsets DEF IInv, TypeOK
<1>4. /\ Pending(lwrite') = Pending(lwrite) - n
      /\ n = Pending(lwrite) => lwrite'.total = 0
      /\ lwrite'.total <= lwrite.total /\ lwrite'.total \in Nat /\ lwrite.total \in Nat
  BY <1>1, <1>3, WrittenOffsets, IOOffsets
<1>5. Room'
  BY <1>1, <1>3, <1>4, ConstantTypes DEF EndInv, Room
<1>6. FrameSide' /\ Quiet'
  BY <1>1, <1>2 DEF EndInv, FrameSide, Quiet
<1>7. EndSide'
  BY <1>1, <1>2, StillOpen
<1> QED
  BY <1>5, <1>6, <1>7 DEF EndInv

-----------------------------------------------------------------------------
(***************************************************************************)
(* The peer's side.                                                        *)
(***************************************************************************)
LEMMA RemoteWriteKeepsEnd ==
    ASSUME IInv, EndInv, NEW n, RemoteWrite(n)
    PROVE  EndInv'
<1>1. /\ "rw" \in watch /\ n \in 0..Pending(rwrite)
      /\ rwrite' = ResetIfDrained(Consume(rwrite, n))
      /\ watch \ {"rw"} \subseteq watch'
      /\ rstage' = "Connected"
      /\ UNCHANGED <<life, cause, stage, lread, lwrite, rread, client, dn, dnSent>>
  BY DEF RemoteWrite, TurnBack, Turn, downstream
<1>2. life = "open"
  BY <1>1 DEF IInv, TypeOK, TurnTaking
<1>3. rwrite \in IOType /\ Pending(rwrite) \in Nat /\ n \in Nat /\ n <= Pending(rwrite)
  BY <1>1, IOOffsets DEF IInv, TypeOK
<1>4. /\ Pending(rwrite') = Pending(rwrite) - n
      /\ n = Pending(rwrite) => rwrite'.total = 0
      /\ rwrite'.total <= rwrite.total /\ rwrite'.total \in Nat /\ rwrite.total \in Nat
  BY <1>1, <1>3, WrittenOffsets, IOOffsets
<1>5. Room'
  BY <1>1, <1>3, <1>4, ConstantTypes DEF EndInv, Room
<1>6. FrameSide' /\ Quiet'
  BY <1>1 DEF EndInv, FrameSide, Quiet
<1>7. EndSide'
  BY <1>1, <1>2, StillOpen
<1> QED
  BY <1>5, <1>6, <1>7 DEF EndInv

LEMMA RemoteReadPartKeepsEnd ==
    ASSUME IInv, EndInv, NEW n, RemoteReadPart(n) \/ RemoteReadHeaderOnly(n)
    PROVE  EndInv'
<1>1. /\ RemoteReadReturns(n) /\ NothingComplete(n)
      /\ rread' = AppendBuffer(rread, n)
      /\ watch' = watch \/ watch' = Turn(watch, "rr", "lw")
      /\ UNCHANGED <<life, cause, stage, rstage, lread, lwrite, rwrite, client,
                     up, upSent, dn, dnSent>>
  BY DEF RemoteReadPart, RemoteReadHeaderOnly, ctl, upstream, downstream
<1>2. /\ life = "open" /\ rstage = "Connected"
      /\ NextOut(rread') = NextOut(rread) /\ NextIn(rread') = NextIn(rread) + n
  BY <1>1, RemoteReadContext
<1>3. Room'
  BY <1>1 DEF EndInv, Room, Turn
<1>4. FrameSide' /\ Quiet'
  BY <1>1, <1>2 DEF EndInv, FrameSide, Quiet, NothingComplete
<1>5. EndSide'
  BY <1>1, <1>2, StillOpen
<1> QED
  BY <1>3, <1>4, <1>5 DEF EndInv

\* What is queued for the client is no longer than the frames it came in,
\* and those were in the read buffer.
LEMMA RemoteReadFramesKeepsEnd ==
    ASSUME IInv, EndInv, NEW n, RemoteReadFrames(n)
    PROVE  EndInv'
<1> DEFINE io == AppendBuffer(rread, n)
           to == NextIn(rread) + n
           k == Decoded(n)
           more == AEnd(dn, k) - NextIn(lwrite)
           taken == WEnd(dn, k) - NextOut(rread)
<1>1. /\ RemoteReadReturns(n) /\ ~RefusedFrame(n)
      /\ lwrite' = AppendBuffer(lwrite, more)
      /\ rread' = Compack(Consume(io, taken))
      /\ watch' = Turn(watch, "rr", "lw")
      /\ UNCHANGED <<life, cause, stage, rstage, lread, rwrite, client,
                     up, upSent, dn, dnSent>>
  BY DEF RemoteReadFrames, upstream, downstream
<1>2. /\ n \in Nat /\ life = "open" /\ rstage = "Connected" /\ "lw" \notin watch
      /\ io \in IOType /\ io.startPos = 0 /\ NextOut(io) = NextOut(rread) /\ NextIn(io) = to
      /\ to \in Nat /\ NextOut(rread) \in Nat /\ NextOut(rread) <= to
  BY <1>1, RemoteReadContext
<1>3. /\ lwrite \in IOType /\ dn \in Seq(Frame) /\ Ordered(dn) /\ NextIn(lwrite) \in Nat
      /\ Boundary(dn, 0, NextOut(rread), NextIn(lwrite))
  BY <1>2, IOOffsets DEF IInv, TypeOK, DownSide
<1>4. lwrite.total = 0
  <2>1. ~(Pending(lwrite) > 0)
    BY <1>2 DEF EndInv, Room
  <2> QED
    BY <1>3, <2>1, IOOffsets DEF EndInv, Room
<1>5. /\ k \in 0..Len(dn) /\ WEnd(dn, k) \in Nat /\ AEnd(dn, k) \in Nat
      /\ NextOut(rread) <= WEnd(dn, k) /\ WEnd(dn, k) <= to /\ NextIn(lwrite) <= AEnd(dn, k)
  <2>1. ~Refused(dn, NextOut(rread), to, HdrLen + 1)
    BY <1>1 DEF RefusedFrame
  <2> QED
    BY <1>2, <1>3, <2>1, DecodeProperties DEF Decoded
<1>6. more <= taken
  <2>1. Framed(dn, 0) /\ 0 \in Nat
    BY DEF EndInv, FrameSide
  <2> HIDE DEF k
  <2> QED
    BY <1>3, <1>5, <2>1, DataIsShorter
<1>7. io.total <= MaxBuf /\ io.total = Pending(io) /\ to = NextOut(rread) + io.total
      /\ io.total \in Nat
  <2>1. rread \in IOType /\ n \in 0..(MaxBuf - rread.total) /\ rread.total \in Nat
    BY <1>1, IOOffsets DEF RemoteReadReturns, IInv, TypeOK
  <2>2. io.total = rread.total + n
    BY <1>2, <2>1, AppendOffsets
  <2> QED
    BY <1>2, <2>1, <2>2, IOOffsets, ConstantTypes
<1>8. Complete(dn, WEnd(dn, k), to) = {}
  BY <1>2, <1>3, NoneLeftComplete DEF Decoded
<1> HIDE DEF io, to, k
<1>9. more \in Nat /\ taken \in Nat /\ taken <= Pending(io) /\ more <= MaxBuf
  BY <1>2, <1>3, <1>5, <1>6, <1>7, ConstantTypes
<1>10. NextOut(io) + taken = WEnd(dn, k)
  BY <1>2, <1>5
<1> HIDE DEF more, taken
<1>11. lwrite'.total = more /\ more <= RealBuf /\ (Pending(lwrite') = 0 => lwrite'.total = 0)
  <2>1. /\ lwrite'.total = lwrite.total + more
        /\ Pending(lwrite') = Pending(lwrite) + more
    BY <1>1, <1>3, <1>9, AppendOffsets
  <2>2. Pending(lwrite) = 0 \/ Pending(lwrite) > 0
    BY <1>3, IOOffsets
  <2>3. Pending(lwrite) = 0
    BY <1>2, <2>2 DEF EndInv, Room
  <2> QED
    BY <1>4, <1>9, <2>1, <2>3, SizeFacts, ConstantTypes
<1>12. NextOut(rread') = WEnd(dn, k) /\ NextIn(rread') = to
  <2>1. /\ Consume(io, taken) \in IOType /\ NextOut(Consume(io, taken)) = WEnd(dn, k)
        /\ NextIn(Consume(io, taken)) = to
    BY <1>2, <1>9, <1>10, ConsumeOffsets
  <2> QED
    BY <1>1, <2>1, CompackOffsets
<1>13. Room'
  BY <1>1, <1>11 DEF EndInv, Room, Turn
<1>14. FrameSide' /\ Quiet'
  BY <1>1, <1>2, <1>8, <1>12 DEF EndInv, FrameSide, Quiet
<1>15. EndSide'
  BY <1>1, <1>2, StillOpen
<1> QED
  BY <1>13, <1>14, <1>15 DEF EndInv

-----------------------------------------------------------------------------
(***************************************************************************)
(* The environment.                                                        *)
(***************************************************************************)
LEMMA ClientAndConnectionsKeepEnd ==
    ASSUME IInv, EndInv,
           \/ \E n \in 1..(HandshakeLen + MaxUp) : ClientSends(n)
           \/ ClientCloses \/ ClientResets \/ PeerCloses \/ PeerResets
           \/ \E result \in {"up", "refused"} : ConnectEnds(result)
    PROVE  EndInv'
<1>1. /\ life = "open"
      /\ UNCHANGED <<life, cause, stage, rstage, watch, lread, lwrite, rread, rwrite,
                     up, upSent, dn, dnSent>>
  BY DEF ClientSends, ClientCloses, ClientResets, PeerCloses, PeerResets, ConnectEnds,
         ctl, bufs, upstream, downstream
<1>2. client'.got = client.got
  <2>1. client \in [sent: Nat, replies: 0..2, got: Nat, early: BOOLEAN,
                    fin: BOOLEAN, rst: BOOLEAN]
    BY DEF IInv, TypeOK
  <2> QED
    BY <2>1 DEF ClientSends, ClientCloses, ClientResets, PeerCloses, PeerResets, ConnectEnds
<1>3. Room' /\ FrameSide' /\ Quiet'
  BY <1>1, <1>2 DEF EndInv, Room, FrameSide, Quiet
<1>4. EndSide'
  BY <1>1, StillOpen
<1> QED
  BY <1>3, <1>4 DEF EndInv

\* What the peer adds is behind everything read, also behind what was relayed
\* when the session closed.
LEMMA PeerGoesOnKeepsEnd ==
    ASSUME IInv, EndInv, PeerGoesOn, Framed(dn', 0)
    PROVE  EndInv'
<1>1. /\ UNCHANGED <<life, cause, stage, rstage, watch, timer, lread, lwrite, rread, rwrite,
                     client, peer, up, upSent>>
      /\ dn' \in Seq(Frame) /\ Ordered(dn') /\ Continues(dn', dn)
      /\ life = "closed" => dnSent' = dnSent
  BY DEF PeerGoesOn, ctl, bufs, upstream
<1>2. /\ dn \in Seq(Frame) /\ dnSent \in Nat /\ dnSent <= WireEnd(dn) /\ WireEnd(dn) \in Nat
      /\ NextOut(rread) \in Nat /\ NextIn(rread) \in Nat
      /\ life # "closed" => NextIn(rread) <= dnSent
  BY EndsAreNaturals, IOOffsets DEF IInv, TypeOK, DownSide
<1>3. FrameSide'
  <2>1. life # "closed" => NextIn(rread) <= WireEnd(dn)
    BY <1>2
  <2>2. life # "closed" => Complete(dn', NextOut(rread), NextIn(rread)) = {}
    BY <1>1, <1>2, <2>1, ContinuedComplete DEF EndInv, FrameSide
  <2> QED
    BY <1>1, <2>2 DEF FrameSide
<1>4. Room' /\ Quiet'
  BY <1>1 DEF EndInv, Room, Quiet
<1>5. EndSide'
  <2>1. CASE life # "closed"
    BY <1>1, <2>1, StillOpen
  <2>2. CASE life = "closed"
    <3>1. dnSent' = dnSent
      BY <1>1, <2>2
    <3>2. /\ WEnd(dn', LastComplete(dn', dnSent)) = WEnd(dn, LastComplete(dn, dnSent))
          /\ AEnd(dn', LastComplete(dn', dnSent)) = AEnd(dn, LastComplete(dn, dnSent))
      BY <1>1, <1>2, ContinuedLast
    <3>3. OrderlyClose'
      BY <1>1, <3>1, <3>2 DEF EndInv, EndSide, OrderlyClose
    <3>4. (\E k \in 1..Len(dn) : dn[k].kind # "data")
             => \E k \in 1..Len(dn') : dn'[k].kind # "data"
      <4>1. Len(dn) \in Nat /\ Len(dn') \in Nat
        BY <1>1, <1>2, EndsAreNaturals
      <4>2. \A k \in 1..Len(dn) : k \in 1..Len(dn') /\ dn'[k] = dn[k]
        BY <1>1, <4>1 DEF Continues
      <4> QED
        BY <4>2
    <3>5. ClosedForCause'
      BY <1>1, <3>4 DEF EndInv, EndSide, ClosedForCause
    <3> QED
      BY <1>1, <2>2, <3>3, <3>5 DEF EndSide
  <2> QED
    BY <2>1, <2>2
<1> QED
  BY <1>3, <1>4, <1>5 DEF EndInv

LEMMA PeerSendsFramed ==
    ASSUME IInv, EndInv,
           \/ PeerSendsRest
           \/ \E size \in 1..MaxChunk, kind \in Kinds \ {"auth"},
                 n \in 0..(HdrLen + FieldLen + MaxChunk) : PeerEncodes(size, kind, n)
    PROVE  Framed(dn', 0)
<1>1. dn \in Seq(Frame) /\ Framed(dn, 0) /\ 0 \in Nat
  BY DEF IInv, TypeOK, EndInv, FrameSide
<1>2. CASE PeerSendsRest
  BY <1>1, <1>2 DEF PeerSendsRest
<1>3. CASE \E size \in 1..MaxChunk, kind \in Kinds \ {"auth"},
              n \in 0..(HdrLen + FieldLen + MaxChunk) : PeerEncodes(size, kind, n)
  <2> PICK size \in 1..MaxChunk, kind \in Kinds \ {"auth"},
           n \in 0..(HdrLen + FieldLen + MaxChunk) : PeerEncodes(size, kind, n)
    BY <1>3
  <2> DEFINE f == PeerFrame(size, kind)
  <2>1. /\ dn' = Append(dn, f) /\ f \in Frame
        /\ f.w - WireEnd(dn) <= LongestFrame /\ f.a - AppEnd(dn) <= f.w - WireEnd(dn)
    BY PeerEncodesNext
  <2> HIDE DEF f
  <2>2. Framed(Append(dn, f), 0)
    BY <1>1, <2>1, AppendKeepsFramed
  <2> QED
    BY <2>1, <2>2
<1> QED
  BY <1>2, <1>3

-----------------------------------------------------------------------------
LEMMA EndStepPreserves == IInv /\ EndInv /\ [Next]_vars => EndInv'
<1> SUFFICES ASSUME IInv, EndInv, [Next]_vars PROVE EndInv'
  OBVIOUS
<1>1. CASE Accept
  BY <1>1, AcceptKeepsEnd
<1>2. CASE ReadCallback
  <2>1. CASE ReadEof
    BY <2>1, ReadEofKeepsEnd
  <2>2. CASE \/ ReadError
             \/ \E n \in 1..MaxBuf : ReadBadRequest(n) \/ ReadRequestFails(n) \/ ReplyFails(n)
    BY <2>2, OtherEndsKeepEnd
  <2>3. ASSUME NEW n \in 1..MaxBuf, ReadPart(n)
        PROVE  EndInv'
    BY <2>3, ReadPartKeepsEnd
  <2>4. ASSUME NEW n \in 1..MaxBuf, NEW ok \in BOOLEAN, ReadGreeting(n, ok)
        PROVE  EndInv'
    BY <2>4, ReadGreetingKeepsEnd
  <2>5. ASSUME NEW n \in 1..MaxBuf, ReadRequest(n)
        PROVE  EndInv'
    BY <2>5, ReadRequestKeepsEnd
  <2>6. ASSUME NEW n \in 1..MaxBuf, ReadData(n)
        PROVE  EndInv'
    BY <2>6, ReadDataKeepsEnd
  <2> QED
    BY <1>2, <2>1, <2>2, <2>3, <2>4, <2>5, <2>6 DEF ReadCallback
<1>3. CASE RemoteWriteCallback
  <2>1. ASSUME NEW n \in 0..RealBuf, RemoteWrite(n)
        PROVE  EndInv'
    BY <2>1, RemoteWriteKeepsEnd
  <2> QED
    BY <1>3, <2>1, OtherEndsKeepEnd DEF RemoteWriteCallback
<1>4. CASE RemoteTimeout
  BY <1>4, OtherEndsKeepEnd
<1>5. CASE RemoteReadCallback
  <2>1. CASE RemoteReadEof
    BY <2>1, RemoteReadEofKeepsEnd
  <2>2. CASE RemoteReadError \/ \E n \in 0..MaxBuf : RemoteReadBad(n)
    BY <2>2, OtherEndsKeepEnd
  <2>3. ASSUME NEW n \in 0..MaxBuf, RemoteReadPart(n) \/ RemoteReadHeaderOnly(n)
        PROVE  EndInv'
    BY <2>3, RemoteReadPartKeepsEnd
  <2>4. ASSUME NEW n \in 0..MaxBuf, RemoteReadFrames(n)
        PROVE  EndInv'
    BY <2>4, RemoteReadFramesKeepsEnd
  <2> QED
    BY <1>5, <2>1, <2>2, <2>3, <2>4 DEF RemoteReadCallback
<1>6. CASE WriteCallback \/ WriteNothing
  <2>1. ASSUME NEW n \in 1..RealBuf, Write(n)
        PROVE  EndInv'
    BY <2>1, WriteKeepsEnd
  <2> QED
    BY <1>6, <2>1, OtherEndsKeepEnd DEF WriteCallback
<1>7. CASE Environment
  BY <1>7, ClientAndConnectionsKeepEnd, PeerSends, PeerSendsFramed, PeerGoesOnKeepsEnd DEF Environment
<1>8. CASE UNCHANGED vars
  BY <1>8 DEF vars, ctl, bufs, upstream, downstream, EndInv, Room, FrameSide, Quiet,
              EndSide, OrderlyClose, ClosedForCause
<1> QED
  BY <1>1, <1>2, <1>3, <1>4, <1>5, <1>6, <1>7, <1>8 DEF Next

LEMMA EndHolds == Spec => [](IInv /\ EndInv)
<1>1. Init => IInv /\ EndInv
  BY InitEstablishes, InitEstablishesEnd
<1>2. (IInv /\ EndInv) /\ [Next]_vars => (IInv /\ EndInv)'
  BY StepPreserves, EndStepPreserves
<1> QED
  BY <1>1, <1>2, PTL DEF Spec

\* A started reader finds room, and what is put in a buffer fits.
LEMMA RoomForAll == IInv /\ EndInv => BuffersFit
<1> SUFFICES ASSUME IInv, EndInv PROVE BuffersFit
  OBVIOUS
<1>1. MaxBuf \in Nat \ {0}
  BY SizeFacts, ConstantTypes
<1>2. lread.total < MaxBuf
  <2>1. lread \in IOType /\ lread.total \in Nat
    BY IOOffsets DEF IInv, TypeOK
  <2>2. CASE stage = "Connect"
    <3>1. life = "open"
      BY <2>2 DEF IInv, Idle
    <3> QED
      BY <1>1, <2>2, <3>1 DEF IInv, UpSide
  <2>3. CASE stage # "Connect"
    BY <1>1, <2>1, <2>3, SizeFacts, ConstantTypes DEF IInv, TypeOK, EndInv, Room
  <2> QED
    BY <2>2, <2>3
<1>3. rread.total < MaxBuf
  <2>1. rread \in IOType /\ dn \in Seq(Frame) /\ dnSent \in Nat
    BY DEF IInv, TypeOK
  <2>2. CASE life # "open"
    BY <1>1, <2>2, EmptyOffsets DEF IInv, Idle
  <2>3. CASE life = "open"
    <3>1. /\ Ordered(dn) /\ dnSent <= WireEnd(dn) /\ NextIn(rread) <= dnSent
          /\ rread.startPos = 0
          /\ Boundary(dn, 0, NextOut(rread), NextIn(lwrite))
      BY <2>3 DEF IInv, DownSide
    <3>2. Framed(dn, 0) /\ Complete(dn, NextOut(rread), NextIn(rread)) = {}
      BY <2>3 DEF EndInv, FrameSide
    <3>3. /\ NextOut(rread) \in Nat /\ NextIn(rread) \in Nat /\ rread.total \in Nat
          /\ NextIn(rread) = NextOut(rread) + rread.total
      BY <2>1, <3>1, IOOffsets
    <3>4. WireEnd(dn) \in Nat /\ 0 \in Nat
      BY <2>1, EndsAreNaturals
    <3>5. NextOut(rread) <= NextIn(rread) /\ NextIn(rread) <= WireEnd(dn)
      BY <2>1, <3>1, <3>3, <3>4
    <3>6. NextIn(rread) - NextOut(rread) < LongestFrame
      BY <2>1, <3>1, <3>2, <3>3, <3>4, <3>5, RestIsShort
    <3> QED
      BY <1>1, <3>3, <3>6, SizeFacts
  <2> QED
    BY <2>2, <2>3
<1>4. lread.total \in Nat /\ rread.total \in Nat
  BY IOOffsets DEF IInv, TypeOK
<1> QED
  BY <1>1, <1>2, <1>3, <1>4 DEF EndInv, Room, BuffersFit

\* All that the session promises.
Promises ==
    /\ TurnTaking /\ BuffersFit /\ UpstreamIntegrity /\ DownstreamIntegrity
    /\ NothingDropped /\ OrderlyClose /\ ClosedForCause

LEMMA PromisesAreKept == IInv /\ EndInv => Promises
<1>1. IInv => TurnTaking /\ UpstreamIntegrity /\ DownstreamIntegrity /\ NothingDropped
  BY DEF IInv, UpSide, UpstreamIntegrity, DownSide, DownstreamIntegrity, Boundary, HandSide
<1>2. EndInv => OrderlyClose /\ ClosedForCause
  BY DEF EndInv, EndSide
<1> QED
  BY <1>1, <1>2, RoomForAll DEF Promises

(***************************************************************************)
(* appendBuffer needs no bounds check: with the sizes of the source (what  *)
(* LocalAssumption says of them) no buffer is ever filled past its end,    *)
(* and a started read watcher always has room to read into.                *)
(***************************************************************************)
THEOREM LocalBuffersFit == Spec => []BuffersFit
BY RoomForAll, EndHolds, PTL

(***************************************************************************)
(* A session closed at an end of stream has relayed that stream: all the   *)
(* client sent is written to the peer, or every whole frame the peer sent  *)
(* is written to the client.                                               *)
(***************************************************************************)
THEOREM LocalClosesInOrder == Spec => []OrderlyClose
<1>1. EndInv => OrderlyClose
  BY DEF EndInv, EndSide
<1> QED
  BY <1>1, EndHolds, PTL

(***************************************************************************)
(* The reason a session is closed for is real; in particular the connect   *)
(* timer never ends a session that has begun to relay.                     *)
(***************************************************************************)
THEOREM SessionsEndForCause == Spec => []ClosedForCause
<1>1. EndInv => ClosedForCause
  BY DEF EndInv, EndSide
<1> QED
  BY <1>1, EndHolds, PTL

-----------------------------------------------------------------------------
(***************************************************************************)
(* What a callback does, as far as it can be told from outside: it ends    *)
(* the session, at the peer's end of stream only while it reads the peer,  *)
(* or it adds frames behind those encoded, writes on, and never leaves     *)
(* writeCallback with nothing to write once it is so.                      *)
(***************************************************************************)
Callback ==
    \/ Accept \/ ReadCallback \/ RemoteWriteCallback \/ RemoteTimeout
    \/ RemoteReadCallback \/ WriteCallback \/ WriteNothing

NothingToWrite == "lw" \in watch /\ Pending(lwrite) = 0

EncodesFirst ==
    /\ up = <<>>
    /\ \E from \in Nat : up' = <<[w |-> HdrLen + AuthLen, a |-> from, kind |-> "auth"]>>

EncodesMore ==
    /\ up # <<>>
    /\ \E n \in Nat \ {0} : \E c \in Cuts(n) : up' = Encode(up, c)

Ending ==
    /\ life' = "closed" /\ UNCHANGED <<client, upstream>>
    /\ cause' = "peerEof" => peer.fin /\ ~NothingToWrite

GoingOn ==
    /\ life' # "closed" /\ cause' = cause
    /\ upSent' \in Nat /\ upSent <= upSent'
    /\ up' = up \/ EncodesFirst \/ EncodesMore
    /\ \/ client'.got = client.got
       \/ client'.got > client.got /\ ~NothingToWrite /\ ~NothingToWrite'
    /\ NothingToWrite => NothingToWrite'

CallbackStep ==
    /\ life # "closed"
    /\ UNCHANGED downstream /\ client'.sent = client.sent /\ peer'.fin = peer.fin
    /\ Ending \/ GoingOn

LEMMA CloseIsStep ==
    ASSUME IInv, life # "closed", NEW why, Close(why),
           why = "peerEof" => peer.fin /\ ~NothingToWrite
    PROVE  CallbackStep
BY DEF Close, CallbackStep, Ending

\* The callbacks of the client's read watcher that do not close.
LEMMA ReadIsStep ==
    ASSUME IInv, NEW n,
           \/ ReadPart(n)
           \/ \E ok \in BOOLEAN : ReadGreeting(n, ok)
           \/ ReadRequest(n)
           \/ ReadData(n)
    PROVE  CallbackStep
<1>1. ReadReturns(n)
  BY DEF ReadPart, ReadGreeting, ReadRequest, ReadData
<1>2. /\ n \in Nat \ {0} /\ life = "open" /\ upSent \in Nat
      /\ NextIn(lread) \in Nat /\ NextOut(lread) \in Nat /\ lread.total \in Nat
      /\ client \in [sent: Nat, replies: 0..2, got: Nat, early: BOOLEAN,
                     fin: BOOLEAN, rst: BOOLEAN]
      /\ peer \in [conn: {"none", "pending", "up", "refused"}, fin: BOOLEAN, rst: BOOLEAN]
  BY <1>1, ReadContext DEF IInv, TypeOK
<1>3. CASE ReadPart(n) \/ \E ok \in BOOLEAN : ReadGreeting(n, ok)
  <2>1. /\ UNCHANGED <<life, cause, watch, lwrite, peer, up, upSent, dn, dnSent>>
        /\ client'.sent = client.sent /\ client'.got = client.got
    <3>1. CASE ReadPart(n)
      BY <3>1 DEF ReadPart, ctl, upstream, downstream
    <3>2. CASE \E ok \in BOOLEAN : ReadGreeting(n, ok)
      BY <1>2, <3>2 DEF ReadGreeting, upstream, downstream
    <3> QED
      BY <1>3, <3>1, <3>2
  <2> QED
    BY <1>2, <2>1 DEF CallbackStep, GoingOn, NothingToWrite, downstream
<1>4. CASE ReadRequest(n)
  <2>1. /\ stage = "HandShake" /\ up = <<>>
        /\ up' = <<[w |-> HdrLen + AuthLen, a |-> NextIn(lread) + n, kind |-> "auth"]>>
    BY <1>2, <1>4 DEF ReadRequest, RequestThere, IInv, UpSide
  <2>2. EncodesFirst
    BY <1>2, <2>1 DEF EncodesFirst
  <2>3. /\ UNCHANGED <<life, cause, lwrite, upSent, dn, dnSent>>
        /\ watch' = Turn(watch, "lr", "rw")
        /\ client' = [client EXCEPT !.replies = 2] /\ peer' = [peer EXCEPT !.conn = "pending"]
    BY <1>4 DEF ReadRequest, downstream
  <2>4. client'.sent = client.sent /\ client'.got = client.got /\ peer'.fin = peer.fin
    BY <1>2, <2>3
  <2> QED
    BY <1>2, <2>2, <2>3, <2>4 DEF CallbackStep, GoingOn, NothingToWrite, downstream, Turn
<1>5. CASE ReadData(n)
  <2>1. up' = up \/ EncodesMore
    <3>1. CASE Pending(rwrite) # 0
      BY <1>5, <3>1 DEF ReadData
    <3>2. CASE Pending(rwrite) = 0
      <4>1. up # <<>>
        BY <1>2, <1>5 DEF ReadData, IInv, UpSide
      <4>2. \E c \in Cuts(lread.total + n) : up' = Encode(up, c)
        BY <1>5, <3>2 DEF ReadData
      <4>3. lread.total + n \in Nat \ {0}
        BY <1>2
      <4> QED
        BY <4>1, <4>2, <4>3 DEF EncodesMore
    <3> QED
      BY <3>1, <3>2
  <2>2. /\ UNCHANGED <<life, cause, lwrite, client, peer, upSent, dn, dnSent>>
        /\ watch' = watch \/ watch' = Turn(watch, "lr", "rw")
    BY <1>5 DEF ReadData, ctl, downstream
  <2> QED
    BY <1>2, <2>1, <2>2 DEF CallbackStep, GoingOn, NothingToWrite, downstream, Turn
<1> QED
  BY <1>3, <1>4, <1>5

\* Those of the other three that do not close.
LEMMA RelayIsStep ==
    ASSUME IInv, NEW n,
           \/ RemoteWrite(n)
           \/ RemoteReadPart(n) \/ RemoteReadHeaderOnly(n) \/ RemoteReadFrames(n)
           \/ Write(n)
    PROVE  CallbackStep
<1>1. CASE RemoteWrite(n)
  <2>1. /\ UNCHANGED <<life, cause, lwrite, client, peer, up, dn, dnSent>> /\ upSent' = upSent + n
        /\ "lw" \in watch => "lw" \in watch' 
        /\ "rw" \in watch /\ n \in 0..Pending(rwrite)
    BY <1>1 DEF RemoteWrite, Turn, TurnBack, downstream
  <2>2. /\ life = "open" /\ upSent \in Nat /\ Pending(rwrite) \in Nat
    BY <2>1, IOOffsets DEF IInv, TypeOK, TurnTaking
  <2>3. upSent + n \in Nat /\ upSent <= upSent + n
    BY <2>1, <2>2
  <2> QED
    BY <2>1, <2>2, <2>3 DEF CallbackStep, GoingOn, NothingToWrite, downstream
<1>2. CASE RemoteReadPart(n) \/ RemoteReadHeaderOnly(n) \/ RemoteReadFrames(n)
  <2>1. RemoteReadReturns(n)
    BY <1>2 DEF RemoteReadPart, RemoteReadHeaderOnly, RemoteReadFrames
  <2>2. life = "open" /\ "lw" \notin watch /\ upSent \in Nat
    BY <2>1, RemoteReadContext DEF IInv, TypeOK
  <2>3. UNCHANGED <<life, cause, client, peer, up, upSent, dn, dnSent>>
    BY <1>2 DEF RemoteReadPart, RemoteReadHeaderOnly, RemoteReadFrames, ctl, upstream, downstream
  <2> QED
    BY <2>2, <2>3 DEF CallbackStep, GoingOn, NothingToWrite, downstream
<1>3. CASE Write(n)
  <2>1. /\ "lw" \in watch /\ n \in 1..Pending(lwrite)
        /\ lwrite' = ResetIfDrained(Consume(lwrite, n))
        /\ watch' = IF n = Pending(lwrite) THEN Turn(watch, "lw", "rr") ELSE watch
        /\ client' = [client EXCEPT !.got = @ + n]
        /\ UNCHANGED <<life, cause, peer, up, upSent, dn, dnSent>>
    BY <1>3 DEF Write, TurnBack, upstream, downstream
  <2>2. /\ life = "open" /\ upSent \in Nat /\ client.got \in Nat
        /\ lwrite \in IOType /\ Pending(lwrite) \in Nat
        /\ client \in [sent: Nat, replies: 0..2, got: Nat, early: BOOLEAN,
                       fin: BOOLEAN, rst: BOOLEAN]
    BY <2>1, IOOffsets DEF IInv, TypeOK, TurnTaking
  <2>3. n \in Nat /\ n > 0 /\ n <= Pending(lwrite)
    BY <2>1, <2>2
  <2>4. Pending(lwrite') = Pending(lwrite) - n
    BY <2>1, <2>2, <2>3, WrittenOffsets
  <2>5. ~NothingToWrite /\ ~NothingToWrite'
    <3>1. CASE n = Pending(lwrite)
      BY <2>1, <2>3, <3>1 DEF NothingToWrite, Turn
    <3>2. CASE n # Pending(lwrite)
      BY <2>2, <2>3, <2>4, <3>2 DEF NothingToWrite
    <3> QED
      BY <3>1, <3>2
  <2>6. client'.sent = client.sent /\ client'.got = client.got + n
    BY <2>1, <2>2
  <2> QED
    BY <2>1, <2>2, <2>3, <2>5, <2>6 DEF CallbackStep, GoingOn, downstream
<1> QED
  BY <1>1, <1>2, <1>3

LEMMA CallbackSteps ==
    ASSUME IInv, Callback
    PROVE  CallbackStep
<1>1. CASE Accept
  BY <1>1 DEF Accept, CallbackStep, GoingOn, NothingToWrite, IInv, TypeOK, TurnTaking,
              bufs, upstream, downstream
<1>2. CASE ReadCallback
  <2>1. ASSUME NEW why, Close(why), why # "peerEof", "lr" \in watch
        PROVE  CallbackStep
    BY <2>1, CloseIsStep DEF IInv, TurnTaking
  <2>2. CASE ReadEof \/ ReadError
    BY <2>1, <2>2 DEF ReadEof, ReadError
  <2>3. ASSUME NEW n \in 1..MaxBuf,
               ReadBadRequest(n) \/ ReadRequestFails(n) \/ ReplyFails(n)
        PROVE  CallbackStep
    BY <2>1, <2>3 DEF ReadBadRequest, ReadRequestFails, ReplyFails, ReadReturns
  <2> QED
    BY <1>2, <2>2, <2>3, ReadIsStep DEF ReadCallback
<1>3. CASE RemoteWriteCallback
  <2>1. ASSUME RemoteConnectFails \/ RemoteWriteFails
        PROVE  CallbackStep
    BY <2>1, CloseIsStep DEF RemoteConnectFails, RemoteWriteFails, IInv, TurnTaking
  <2> QED
    BY <1>3, <2>1, RelayIsStep DEF RemoteWriteCallback
<1>4. CASE RemoteTimeout
  BY <1>4, CloseIsStep DEF RemoteTimeout, IInv, TurnTaking, Idle
<1>5. CASE RemoteReadCallback
  <2>1. ASSUME RemoteReadEof
        PROVE  CallbackStep
    <3>1. "rr" \in watch /\ peer.fin /\ Close("peerEof")
      BY <2>1 DEF RemoteReadEof
    <3>2. "lw" \notin watch /\ life # "closed"
      BY <3>1 DEF IInv, TypeOK, TurnTaking
    <3> QED
      BY <3>1, <3>2, CloseIsStep DEF NothingToWrite
  <2>2. ASSUME RemoteReadError \/ \E n \in 0..MaxBuf : RemoteReadBad(n)
        PROVE  CallbackStep
    BY <2>2, CloseIsStep DEF RemoteReadError, RemoteReadBad, RemoteReadReturns, IInv, TurnTaking
  <2> QED
    BY <1>5, <2>1, <2>2, RelayIsStep DEF RemoteReadCallback
<1>6. CASE WriteCallback
  <2>1. ASSUME WriteFails
        PROVE  CallbackStep
    BY <2>1, CloseIsStep DEF WriteFails, IInv, TurnTaking
  <2> QED
    BY <1>6, <2>1, RelayIsStep DEF WriteCallback
<1>7. CASE WriteNothing
  BY <1>7, CloseIsStep DEF WriteNothing, IInv, TurnTaking
<1> QED
  BY <1>1, <1>2, <1>3, <1>4, <1>5, <1>6, <1>7 DEF Callback

=============================================================================
