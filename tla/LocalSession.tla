---------------------------- MODULE LocalSession ----------------------------
(***************************************************************************)
(* One session of a SocksTunnelLocal worker (src/SocksTunnelLocal.cpp):    *)
(* the LocalServer that talks SOCKS5 to a client and the RemoteServer that *)
(* talks frames to a SocksTunnelServer.  One action per outcome of a libev *)
(* callback.  Callbacks of a worker run one at a time, so they interleave  *)
(* with each other and with the client, the peer and the network, which    *)
(* are the environment actions.                                            *)
(*                                                                         *)
(* Streams are byte offsets (IOBuffer, FrameStream).  The client's stream  *)
(* is its greeting, its request and then its data.                         *)
(***************************************************************************)
EXTENDS IOBuffer, FrameStream

CONSTANTS
    MaxBuf,      \* MAX_SERVER_BUF, the room a read callback fills
    RealBuf,     \* REAL_SERVER_BUF, the size of every buf
    GreetLen,    \* length of the client's greeting
    ReqHead,     \* bytes of the request that must be there to tell its type (5)
    ReqLen,      \* length of the client's request
    AuthLen,     \* length of the encrypted AuthMsg
    MaxUp,       \* bound: data bytes the client sends
    MaxDown      \* bound: data bytes the peer encodes

ASSUME LocalAssumption ==
    /\ MaxBuf \in Nat /\ RealBuf \in Nat
    /\ GreetLen \in Nat \ {0} /\ ReqHead \in Nat \ {0} /\ ReqLen \in Nat
    /\ AuthLen \in Nat /\ MaxUp \in Nat /\ MaxDown \in Nat
    /\ GreetLen <= MaxBuf /\ ReqHead <= ReqLen /\ ReqLen <= MaxBuf
    /\ HdrLen + AuthLen <= RealBuf
    /\ HdrLen + FieldLen + MaxChunk <= MaxBuf
    /\ MaxBuf + (HdrLen + FieldLen) * MaxFrames <= RealBuf

VARIABLES
    life,        \* is there a LocalServer object?
    cause,       \* the reason logged when the session is closed
    stage,       \* LocalServer::stage
    rstage,      \* RemoteServer::stage; "none" while remote == NULL
    watch,       \* the started ev_io watchers
    timer,       \* is the 60 s connect timer started?
    lread, lwrite, rread, rwrite,  \* readIO and writeIO of both ends
    client,      \* the SOCKS5 client and its connection
    peer,        \* the connection to the SocksTunnelServer
    up, upSent,  \* frames encoded for the peer, wire bytes given to the kernel
    dn, dnSent   \* frames the peer encoded, wire bytes it has sent

ctl == <<life, cause, stage, rstage, watch, timer>>
bufs == <<lread, lwrite, rread, rwrite>>
upstream == <<up, upSent>>
downstream == <<dn, dnSent>>
vars == <<ctl, bufs, client, peer, upstream, downstream>>

\* lr: local readIO, lw: local writeIO, rr: remote readIO, rw: remote writeIO.
Watchers == {"lr", "lw", "rr", "rw"}

Causes == {"none", "clientEof", "peerEof", "readError", "writeError", "badRequest",
           "sendFailed", "connectFailed", "badFrame", "timeout"}

HandshakeLen == GreetLen + ReqLen

Init ==
    /\ life = "none" /\ cause = "none" /\ stage = "Init" /\ rstage = "none"
    /\ watch = {} /\ timer = FALSE
    /\ lread = EmptyIO /\ lwrite = EmptyIO /\ rread = EmptyIO /\ rwrite = EmptyIO
    /\ client = [sent |-> 0, replies |-> 0, got |-> 0, early |-> FALSE, fin |-> FALSE, rst |-> FALSE]
    /\ peer = [conn |-> "none", fin |-> FALSE, rst |-> FALSE]
    /\ up = <<>> /\ upSent = 0 /\ dn = <<>> /\ dnSent = 0

(***************************************************************************)
(* closeLocalAndRemoteServer: watchers and timers stopped, sockets closed, *)
(* both objects deleted.                                                   *)
(***************************************************************************)
Close(why) ==
    /\ life' = "closed" /\ cause' = why
    /\ stage' = "Init" /\ rstage' = "none"
    /\ watch' = {} /\ timer' = FALSE
    /\ lread' = EmptyIO /\ lwrite' = EmptyIO /\ rread' = EmptyIO /\ rwrite' = EmptyIO
    /\ UNCHANGED <<client, peer, upstream, downstream>>

\* acceptCallback: a LocalServer in stage Init, its read watcher started.
Accept ==
    /\ life = "none"
    /\ life' = "open" /\ watch' = {"lr"}
    /\ UNCHANGED <<cause, stage, rstage, timer, bufs, client, peer, upstream, downstream>>

\* ev_timer_stop and ev_timer_start of the connect timer.
LeaveConnectTimer == timer' = timer
StopConnectTimer == timer' = FALSE
StartConnectTimer == timer' = TRUE

-----------------------------------------------------------------------------
(***************************************************************************)
(* readCallback.  A read returns any positive number of the bytes that     *)
(* arrived and fit, 0 once the client has finished and all is read.  With  *)
(* 0 and a partial greeting or request in the buffer the callback returns  *)
(* without any effect, which is a stuttering step.                         *)
(***************************************************************************)
ClientDrained == NextIn(lread) = client.sent

ReadReturns(n) ==
    /\ "lr" \in watch
    /\ n \in 1..(MaxBuf - lread.total)
    /\ NextIn(lread) + n <= client.sent

\* A variant: the end of the stream goes unnoticed.
ReadEofUnnoticed ==
    /\ "lr" \in watch /\ client.rst /\ ClientDrained
    /\ lread.total = 0
    /\ Close("clientEof")

ReadEof ==
    /\ "lr" \in watch /\ client.fin /\ ClientDrained
    /\ lread.total = 0
    /\ Close("clientEof")

ReadError ==
    /\ "lr" \in watch /\ client.rst /\ ClientDrained
    /\ Close("readError")

\* "need more data": the part stays in the buffer.
ReadPart(n) ==
    /\ ReadReturns(n)
    /\ \/ stage = "Init" /\ lread.total + n < GreetLen
       \/ stage = "HandShake" /\ lread.total + n < ReqLen
    /\ lread' = AppendBuffer(lread, n)
    /\ UNCHANGED <<ctl, lwrite, rread, rwrite, client, peer, upstream, downstream>>

\* A whole greeting, answered by sendAll; ok is "version 5 and method 0".
\* A greeting that is not ok is answered too, and the stage stays Init.
ReadGreeting(n, ok) ==
    /\ ReadReturns(n)
    /\ stage = "Init" /\ lread.total + n >= GreetLen
    /\ ~client.rst
    /\ stage' = IF ok THEN "HandShake" ELSE stage
    /\ lread' = ResetBuffer(AppendBuffer(lread, n))
    /\ client' = [client EXCEPT !.replies = IF ok THEN 1 ELSE 0]
    /\ UNCHANGED <<life, cause, rstage, watch, timer, lwrite, rread, rwrite,
                   peer, upstream, downstream>>

\* The whole request is there; a variant does not wait for it.
RequestTyped(n) == stage = "HandShake" /\ lread.total + n >= ReqHead
RequestThere(n) == stage = "HandShake" /\ lread.total + n >= ReqLen

\* A request of a type other than IPv4, domain and IPv6.
ReadBadRequest(n) ==
    /\ ReadReturns(n) /\ RequestTyped(n)
    /\ Close("badRequest")

\* The whole request, but createRemoteServer returns -1.
ReadRequestFails(n) ==
    /\ ReadReturns(n) /\ RequestThere(n)
    /\ Close("connectFailed")

\* The reply to the greeting or to the request cannot be sent.
ReplyFails(n) ==
    /\ ReadReturns(n) /\ client.rst
    /\ \/ stage = "Init" /\ lread.total + n >= GreetLen
       \/ RequestThere(n)
    /\ Close("sendFailed")

(***************************************************************************)
(* The whole request: a non-blocking connect is started, the AuthMsg is    *)
(* queued for it, reading turns into waiting for the connection, and the   *)
(* client is told of success.  What was read beyond the request is         *)
(* dropped; the a of the auth frame is the client offset relaying starts   *)
(* from.                                                                   *)
(***************************************************************************)
ReadRequest(n) ==
    /\ ReadReturns(n) /\ RequestThere(n)
    /\ ~client.rst
    /\ stage' = "Connect" /\ rstage' = "Connecting" /\ StartConnectTimer
    /\ peer' = [peer EXCEPT !.conn = "pending"]
    /\ up' = <<[w |-> HdrLen + AuthLen, a |-> NextIn(lread) + n, kind |-> "auth"]>>
    /\ rwrite' = AppendBuffer(AppendBuffer(rwrite, HdrLen), AuthLen)
    /\ lread' = ResetBuffer(AppendBuffer(lread, n))
    /\ watch' = Turn(watch, "lr", "rw")
    /\ client' = [client EXCEPT !.replies = 2]
    /\ UNCHANGED <<life, cause, lwrite, rread, upSent, downstream>>

\* Data: cut, encoded and queued for the peer, then write before reading on.
ReadData(n) ==
    /\ ReadReturns(n) /\ stage = "Connect"
    /\ IF Pending(rwrite) # 0
       THEN /\ lread' = AppendBuffer(lread, n)
            /\ UNCHANGED <<ctl, rwrite, up>>
       ELSE \E c \in Cuts(lread.total + n) :
            /\ up' = Encode(up, c)
            /\ rwrite' = AppendBuffer(rwrite, EncodedLen(c))
            /\ lread' = ResetBuffer(AppendBuffer(lread, n))
            /\ watch' = Turn(watch, "lr", "rw")
            /\ UNCHANGED <<life, cause, stage, rstage, timer>>
    /\ UNCHANGED <<lwrite, rread, client, peer, upSent, downstream>>

-----------------------------------------------------------------------------
(***************************************************************************)
(* remoteWriteCallback: the connect check, then a write of any part of     *)
(* what is queued; n = 0 is EAGAIN.                                        *)
(***************************************************************************)
RemoteConnectFails ==
    /\ "rw" \in watch /\ rstage = "Connecting"
    /\ peer.conn = "refused" \/ peer.rst
    /\ Close("connectFailed")

RemoteWrite(n) ==
    /\ "rw" \in watch /\ peer.conn = "up" /\ ~peer.rst
    /\ n \in 0..Pending(rwrite)
    /\ n = 0 => rstage = "Connecting" \/ Pending(rwrite) = 0
    /\ LET drained == n = Pending(rwrite)
       IN  /\ rwrite' = ResetIfDrained(Consume(rwrite, n))
           /\ watch' = (IF drained THEN TurnBack(watch, "rw", "lr") ELSE watch)
                       \cup (IF rstage = "Connecting" THEN {"rr"} ELSE {})
    /\ rstage' = "Connected" /\ StopConnectTimer
    /\ upSent' = upSent + n
    /\ UNCHANGED <<life, cause, stage, lread, lwrite, rread, client, peer, up, downstream>>

RemoteWriteFails ==
    /\ "rw" \in watch /\ rstage = "Connected" /\ peer.rst
    /\ Close("writeError")

\* remoteTimeoutCallback.
RemoteTimeout ==
    /\ timer
    /\ Close("timeout")

-----------------------------------------------------------------------------
(***************************************************************************)
(* remoteReadCallback.  The decode loop looks at a length field only when  *)
(* a byte follows it (startPos + 4 >= total breaks).                       *)
(***************************************************************************)
PeerDrained == NextIn(rread) = dnSent

RemoteReadReturns(n) ==
    /\ "rr" \in watch
    /\ n \in 0..(MaxBuf - rread.total)
    /\ NextIn(rread) + n <= dnSent
    /\ n = 0 => peer.fin /\ PeerDrained /\ rread.total > 0

\* A variant: closed whatever is in the buffer.
RemoteReadEofAnyway ==
    /\ "rr" \in watch /\ peer.fin /\ PeerDrained
    /\ Close("peerEof")

RemoteReadEof ==
    /\ "rr" \in watch /\ peer.fin /\ PeerDrained
    /\ rread.total = 0
    /\ Close("peerEof")

RemoteReadError ==
    /\ "rr" \in watch /\ peer.rst /\ PeerDrained
    /\ Close("readError")

Decoded(n) == LastComplete(dn, NextIn(rread) + n)

NothingComplete(n) == Complete(dn, NextOut(rread), NextIn(rread) + n) = {}

RefusedFrame(n) == Refused(dn, NextOut(rread), NextIn(rread) + n, HdrLen + 1)

\* Less than a length field, or a length field and less than its payload.
RemoteReadPart(n) ==
    /\ RemoteReadReturns(n) /\ n > 0
    /\ NothingComplete(n) /\ ~RefusedFrame(n)
    /\ rread.total + n # HdrLen
    /\ rread' = AppendBuffer(rread, n)
    /\ UNCHANGED <<ctl, lread, lwrite, rwrite, client, peer, upstream, downstream>>

\* Exactly a length field: the loop breaks before it has looked at it, and
\* the callback turns to writing with nothing to write.
RemoteReadHeaderOnly(n) ==
    /\ RemoteReadReturns(n)
    /\ NothingComplete(n)
    /\ rread.total + n = HdrLen
    /\ rread' = AppendBuffer(rread, n)
    /\ watch' = Turn(watch, "rr", "lw")
    /\ UNCHANGED <<life, cause, stage, rstage, timer, lread, lwrite, rwrite,
                   client, peer, upstream, downstream>>

\* One frame or more: decoded data queued for the client, the rest kept.
RemoteReadFrames(n) ==
    /\ RemoteReadReturns(n)
    /\ ~NothingComplete(n) /\ ~RefusedFrame(n)
    /\ lwrite' = AppendBuffer(lwrite, AEnd(dn, Decoded(n)) - NextIn(lwrite))
    /\ rread' = Compack(Consume(AppendBuffer(rread, n),
                                WEnd(dn, Decoded(n)) - NextOut(rread)))
    /\ watch' = Turn(watch, "rr", "lw")
    /\ UNCHANGED <<life, cause, stage, rstage, timer, lread, rwrite,
                   client, peer, upstream, downstream>>

RemoteReadBad(n) ==
    /\ RemoteReadReturns(n) /\ RefusedFrame(n)
    /\ Close("badFrame")

-----------------------------------------------------------------------------
(***************************************************************************)
(* writeCallback.  write() of zero bytes returns 0, and count <= 0 makes   *)
(* the callback look at an errno that some earlier call left: with EAGAIN  *)
(* it returns without effect, with anything else it closes the session.    *)
(***************************************************************************)
Write(n) ==
    /\ "lw" \in watch /\ ~client.rst
    /\ n \in 1..Pending(lwrite)
    /\ lwrite' = ResetIfDrained(Consume(lwrite, n))
    /\ watch' = IF n = Pending(lwrite) THEN TurnBack(watch, "lw", "rr") ELSE watch
    /\ client' = [client EXCEPT !.got = @ + n]
    /\ UNCHANGED <<life, cause, stage, rstage, timer, lread, rread, rwrite,
                   peer, upstream, downstream>>

WriteFails ==
    /\ "lw" \in watch /\ client.rst
    /\ Close("writeError")

WriteNothing ==
    /\ "lw" \in watch /\ ~client.rst
    /\ Pending(lwrite) = 0
    /\ Close("writeError")

-----------------------------------------------------------------------------
(***************************************************************************)
(* The environment.  A client waits for the reply to its greeting.  RFC    *)
(* 1928 lets it send data after the reply to its request; one that does    *)
(* not wait for it is early.                                               *)
(***************************************************************************)
ClientMaySend == IF client.replies = 0 THEN GreetLen ELSE HandshakeLen + MaxUp

ClientSends(n) ==
    /\ life = "open" /\ ~client.fin /\ ~client.rst
    /\ n \in 1..(ClientMaySend - client.sent)
    /\ client' = [client EXCEPT !.sent = @ + n,
                                !.early = @ \/ (client.replies < 2
                                                /\ client.sent + n > HandshakeLen)]
    /\ UNCHANGED <<ctl, bufs, peer, upstream, downstream>>

ClientCloses ==
    /\ life = "open" /\ ~client.fin /\ ~client.rst
    /\ client' = [client EXCEPT !.fin = TRUE]
    /\ UNCHANGED <<ctl, bufs, peer, upstream, downstream>>

ClientResets ==
    /\ life = "open" /\ ~client.rst
    /\ client' = [client EXCEPT !.rst = TRUE]
    /\ UNCHANGED <<ctl, bufs, peer, upstream, downstream>>

ConnectEnds(result) ==
    /\ life = "open" /\ peer.conn = "pending"
    /\ peer' = [peer EXCEPT !.conn = result]
    /\ UNCHANGED <<ctl, bufs, client, upstream, downstream>>

\* The peer encodes its next frame once the one before is sent, and has
\* sent n bytes of it for now.
PeerEncodes(size, kind, n) ==
    /\ life = "open" /\ peer.conn = "up" /\ ~peer.fin /\ ~peer.rst
    /\ dnSent = WireEnd(dn)
    /\ size \in 1..MaxChunk /\ AppEnd(dn) + size <= MaxDown
    /\ LET w == WireEnd(dn) + HdrLen + FieldLen + size
       IN  /\ dn' = Append(dn, [w |-> w, a |-> AppEnd(dn) + size, kind |-> kind])
           /\ n \in 0..(w - dnSent)
           /\ dnSent' = dnSent + n
    /\ UNCHANGED <<ctl, bufs, client, peer, upstream>>

PeerSendsRest ==
    /\ life = "open" /\ ~peer.fin /\ ~peer.rst
    /\ dnSent < WireEnd(dn)
    /\ dnSent' = WireEnd(dn)
    /\ UNCHANGED <<ctl, bufs, client, peer, upstream, dn>>

PeerCloses ==
    /\ life = "open" /\ peer.conn = "up" /\ ~peer.fin /\ ~peer.rst
    /\ peer' = [peer EXCEPT !.fin = TRUE]
    /\ UNCHANGED <<ctl, bufs, client, upstream, downstream>>

PeerResets ==
    /\ life = "open" /\ peer.conn = "up" /\ ~peer.rst
    /\ peer' = [peer EXCEPT !.rst = TRUE]
    /\ UNCHANGED <<ctl, bufs, client, upstream, downstream>>

-----------------------------------------------------------------------------
ReadCallback ==
    \/ ReadEof
    \/ ReadError
    \/ \E n \in 1..MaxBuf :
          \/ ReadPart(n)
          \/ \E ok \in BOOLEAN : ReadGreeting(n, ok)
          \/ ReadBadRequest(n)
          \/ ReadRequestFails(n)
          \/ ReplyFails(n)
          \/ ReadRequest(n)
          \/ ReadData(n)

RemoteWriteCallback ==
    \/ RemoteConnectFails
    \/ \E n \in 0..RealBuf : RemoteWrite(n)
    \/ RemoteWriteFails

RemoteReadCallback ==
    \/ RemoteReadEof
    \/ RemoteReadError
    \/ \E n \in 0..MaxBuf :
          \/ RemoteReadPart(n)
          \/ RemoteReadHeaderOnly(n)
          \/ RemoteReadFrames(n)
          \/ RemoteReadBad(n)

WriteCallback ==
    \/ \E n \in 1..RealBuf : Write(n)
    \/ WriteFails

Environment ==
    \/ \E n \in 1..(HandshakeLen + MaxUp) : ClientSends(n)
    \/ ClientCloses
    \/ ClientResets
    \/ \E result \in {"up", "refused"} : ConnectEnds(result)
    \/ \E size \in 1..MaxChunk, kind \in Kinds \ {"auth"},
          n \in 0..(HdrLen + FieldLen + MaxChunk) : PeerEncodes(size, kind, n)
    \/ PeerSendsRest
    \/ PeerCloses
    \/ PeerResets

Next ==
    \/ Accept
    \/ ReadCallback
    \/ RemoteWriteCallback
    \/ RemoteTimeout
    \/ RemoteReadCallback
    \/ WriteCallback
    \/ WriteNothing
    \/ Environment

Spec == Init /\ [][Next]_vars

(***************************************************************************)
(* libev is level-triggered: a callback whose descriptor stays ready is    *)
(* invoked again, and a started timer fires.  A write that makes progress  *)
(* also needs a reader at the other end, which is assumed to drain its     *)
(* socket.  WriteNothing is left out: what errno holds is not scheduled.   *)
(***************************************************************************)
Fairness ==
    /\ WF_vars(ReadCallback)
    /\ WF_vars(RemoteWriteCallback)
    /\ WF_vars(RemoteTimeout)
    /\ WF_vars(RemoteReadCallback)
    /\ WF_vars(WriteCallback)

FairSpec == Spec /\ Fairness

-----------------------------------------------------------------------------
TypeOK ==
    /\ life \in {"none", "open", "closed"} /\ cause \in Causes
    /\ stage \in {"Init", "HandShake", "Connect"}
    /\ rstage \in {"none", "Connecting", "Connected"}
    /\ watch \subseteq Watchers /\ timer \in BOOLEAN
    /\ lread \in IOType /\ lwrite \in IOType /\ rread \in IOType /\ rwrite \in IOType
    /\ client \in [sent: Nat, replies: 0..2, got: Nat, early: BOOLEAN,
                   fin: BOOLEAN, rst: BOOLEAN]
    /\ peer \in [conn: {"none", "pending", "up", "refused"}, fin: BOOLEAN, rst: BOOLEAN]
    /\ up \in Seq(Frame) /\ upSent \in Nat
    /\ dn \in Seq(Frame) /\ dnSent \in Nat

(***************************************************************************)
(* Reading and writing of a direction take turns: in a relaying session    *)
(* exactly one watcher of each direction is started, so neither direction  *)
(* is ever left without a callback, the write watcher of the peer is       *)
(* started exactly while something is queued for it, and the connect timer *)
(* runs exactly while connecting.  Before that only the client is read,    *)
(* and afterwards nothing is started on freed memory.                      *)
(***************************************************************************)
TurnTaking ==
    /\ timer <=> rstage = "Connecting"
    /\ life # "open" => watch = {}
    /\ life = "open" /\ stage # "Connect" => watch = {"lr"} /\ rstage = "none"
    /\ life = "open" /\ stage = "Connect" =>
          /\ rstage # "none"
          /\ ("lr" \in watch) # ("rw" \in watch)
          /\ ("rw" \in watch) <=> Pending(rwrite) > 0
    /\ rstage = "Connecting" => watch \cap {"rr", "lw"} = {}
    /\ rstage = "Connected" => ("rr" \in watch) # ("lw" \in watch)

(***************************************************************************)
(* appendBuffer has no bounds check: no write buffer ever holds more than  *)
(* its REAL_SERVER_BUF bytes, and a started read watcher always finds room *)
(* to read into, so a read never returns 0 for want of room.               *)
(***************************************************************************)
BuffersFit ==
    /\ lread.total <= MaxBuf /\ rread.total <= MaxBuf
    /\ lwrite.total <= RealBuf /\ rwrite.total <= RealBuf
    /\ "lr" \in watch => lread.total < MaxBuf
    /\ "rr" \in watch => rread.total < MaxBuf

(***************************************************************************)
(* The next byte the session writes to the peer is the next byte of the    *)
(* frames it encoded, and the frames hold the client's data up to the last *)
(* byte read: nothing is lost, repeated or reordered on the way up.        *)
(***************************************************************************)
UpstreamIntegrity ==
    life = "open" =>
        /\ NextOut(rwrite) = upSent /\ NextIn(rwrite) = WireEnd(up)
        /\ NextIn(lread) <= client.sent
        /\ stage = "Connect" => AppEnd(up) = NextOut(lread)

(***************************************************************************)
(* The client received exactly the bytes written to it, what is queued for *)
(* it ends where the decoded frames end, and decoding always resumes at a  *)
(* frame boundary, behind frames that passed their check.                  *)
(***************************************************************************)
DownstreamIntegrity ==
    life = "open" =>
        /\ NextOut(lwrite) = client.got /\ NextIn(rread) <= dnSent
        /\ \E d \in 0..Len(dn) :
              /\ WEnd(dn, d) = NextOut(rread)
              /\ AEnd(dn, d) = NextIn(lwrite)
              /\ \A k \in 1..d : dn[k].kind = "data"

(***************************************************************************)
(* Relaying starts exactly after the request: resetBuffer drops nothing of *)
(* the data of a client that waits for the reply to its request.           *)
(***************************************************************************)
NothingDropped == ~client.early /\ up # <<>> => up[1].a = HandshakeLen

(***************************************************************************)
(* A session is only closed at an end of stream when that stream has been  *)
(* relayed: at the client's, every byte it sent has been written to the    *)
(* peer; at the peer's, every frame it sent has been written to the client.*)
(***************************************************************************)
OrderlyClose ==
    /\ cause = "clientEof" /\ client.replies = 2 =>
          /\ upSent = WireEnd(up) /\ AppEnd(up) = client.sent
    /\ cause = "peerEof" =>
          /\ dnSent = WEnd(dn, LastComplete(dn, dnSent))
          /\ client.got = AEnd(dn, LastComplete(dn, dnSent))

(***************************************************************************)
(* The reason a session is closed for is real: an end of stream, a reset,  *)
(* a refused connection or frame, a timer that only expires while nothing  *)
(* has been written to the peer.                                           *)
(***************************************************************************)
ClosedForCause ==
    /\ cause = "clientEof" => client.fin
    /\ cause = "peerEof" => peer.fin
    /\ cause \in {"readError", "sendFailed"} => client.rst \/ peer.rst
    /\ cause = "timeout" => upSent = 0 /\ client.got = 0
    /\ cause = "badFrame" => \E k \in 1..Len(dn) : dn[k].kind # "data"
    /\ cause = "badRequest" => client.replies = 1

\* "Write error....", the message of writeCallback (SocksTunnelLocal.cpp:301).
WriteErrorIsReal == cause = "writeError" => client.rst \/ peer.rst

(***************************************************************************)
(* A relaying session is closed once its client has finished.              *)
(***************************************************************************)
ClientEofCloses == client.fin /\ stage = "Connect" ~> life = "closed"

\* "Server close connect...", logged when the client is gone
\* (SocksTunnelLocal.cpp:64): a session is closed once its client is.
EofCloses == client.fin ~> life = "closed"
=============================================================================
