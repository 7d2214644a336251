---------------------------- MODULE ServerSession ----------------------------
(***************************************************************************)
(* One session of a SocksTunnelServer worker (src/SocksTunnelServer.cpp):  *)
(* the LocalServer that talks frames to a SocksTunnelLocal, here the       *)
(* client, and the RemoteServer that talks to the target the AuthMsg asks  *)
(* for.  One action per outcome of a libev callback, as in LocalSession.   *)
(***************************************************************************)
EXTENDS IOBuffer, FrameStream

CONSTANTS
    MaxBuf,      \* MAX_SERVER_BUF, the room a read callback fills
    RealBuf,     \* REAL_SERVER_BUF, the size of every buf
    AuthLen,     \* length of the encrypted AuthMsg
    MaxUp,       \* bound: data bytes the client encodes
    MaxDown      \* bound: data bytes the target sends

ASSUME ServerAssumption ==
    /\ MaxBuf \in Nat /\ RealBuf \in Nat
    /\ AuthLen \in Nat /\ MaxUp \in Nat /\ MaxDown \in Nat
    /\ HdrLen + AuthLen <= MaxBuf
    /\ HdrLen + FieldLen + MaxChunk <= MaxBuf
    /\ MaxBuf + (HdrLen + FieldLen) * MaxFrames <= RealBuf

VARIABLES
    life,        \* is there a LocalServer object?
    cause,       \* the reason logged when the session is closed
    stage,       \* LocalServer::stage
    rstage,      \* RemoteServer::stage; "none" while remote == NULL
    watch,       \* the started ev_io watchers
    authTimer,   \* local readIO->timer: "off", "auth" or "hangup"
    timer,       \* is the 60 s connect timer started?
    lread, lwrite, rread, rwrite,  \* readIO and writeIO of both ends
    client,      \* the connection from the SocksTunnelLocal
    target,      \* the target and the connection to it
    up, upSent,  \* frames the client encoded, wire bytes it has sent
    dn, dnSent   \* frames encoded for the client, wire bytes given to the kernel

ctl == <<life, cause, stage, rstage, watch, authTimer, timer>>
bufs == <<lread, lwrite, rread, rwrite>>
upstream == <<up, upSent>>
downstream == <<dn, dnSent>>
vars == <<ctl, bufs, client, target, upstream, downstream>>

Watchers == {"lr", "lw", "rr", "rw"}

Causes == {"none", "clientEof", "targetEof", "readError", "writeError", "badUser",
           "badAddr", "badFrame", "connectFailed", "authTimeout", "timeout"}

Init ==
    /\ life = "none" /\ cause = "none" /\ stage = "Init" /\ rstage = "none"
    /\ watch = {} /\ authTimer = "off" /\ timer = FALSE
    /\ lread = EmptyIO /\ lwrite = EmptyIO /\ rread = EmptyIO /\ rwrite = EmptyIO
    /\ client = [fin |-> FALSE, rst |-> FALSE]
    /\ target = [conn |-> "none", sent |-> 0, got |-> 0, fin |-> FALSE, rst |-> FALSE]
    /\ up = <<>> /\ upSent = 0 /\ dn = <<>> /\ dnSent = 0

(***************************************************************************)
(* closeLocalAndRemoteServer: watchers and timers stopped, sockets closed, *)
(* both objects deleted.                                                   *)
(***************************************************************************)
Close(why) ==
    /\ life' = "closed" /\ cause' = why
    /\ stage' = "Init" /\ rstage' = "none"
    /\ watch' = {} /\ authTimer' = "off" /\ timer' = FALSE
    /\ lread' = EmptyIO /\ lwrite' = EmptyIO /\ rread' = EmptyIO /\ rwrite' = EmptyIO
    /\ UNCHANGED <<client, target, upstream, downstream>>

\* acceptCallback: a LocalServer in stage Init, read and timed.
Accept ==
    /\ life = "none"
    /\ life' = "open" /\ watch' = {"lr"} /\ authTimer' = "auth"
    /\ UNCHANGED <<cause, stage, rstage, timer, bufs, client, target, upstream, downstream>>

\* ev_timer_stop and ev_timer_start of the auth timer; a timer left alone is
\* a variant.
LeaveAuthTimer == authTimer' = authTimer
StopAuthTimer == authTimer' = "off"
RestartAuthTimer == authTimer' = "hangup"

-----------------------------------------------------------------------------
(***************************************************************************)
(* readCallback.  A read of 0 with part of a message in the buffer has no  *)
(* effect.                                                                 *)
(***************************************************************************)
ClientDrained == NextIn(lread) = upSent

ReadReturns(n) ==
    /\ "lr" \in watch
    /\ n \in 1..(MaxBuf - lread.total)
    /\ NextIn(lread) + n <= upSent

\* Variants: closed whatever is in the buffer; never closed.
ReadEofAnyway ==
    /\ "lr" \in watch /\ client.fin /\ ClientDrained
    /\ Close("clientEof")
ReadEofUnnoticed ==
    /\ "lr" \in watch /\ client.rst /\ ClientDrained
    /\ Close("clientEof")

ReadEof ==
    /\ "lr" \in watch /\ client.fin /\ ClientDrained
    /\ lread.total = 0
    /\ Close("clientEof")

ReadError ==
    /\ "lr" \in watch /\ client.rst /\ ClientDrained
    /\ Close("readError")

(***************************************************************************)
(* What the case Connect does with the buffer io: watchers ws are started  *)
(* when it is reached, and out is the remote writeIO.  Nothing complete    *)
(* means return and read on; a frame refused means the session is closed.  *)
(***************************************************************************)
FrameRefused(io) == Refused(up, NextOut(io), NextIn(io), HdrLen)

PassThrough(io, ws, out) ==
    IF Pending(out) # 0 \/ Complete(up, NextOut(io), NextIn(io)) = {}
    THEN /\ lread' = io /\ rwrite' = out /\ watch' = ws
    ELSE LET k == LastComplete(up, NextIn(io))
         IN  /\ rwrite' = AppendBuffer(out, AEnd(up, k) - NextIn(out))
             /\ lread' = Compack(Consume(io, WEnd(up, k) - NextOut(io)))
             /\ watch' = Turn(ws, "lr", "rw")

ReadFrames(n) ==
    /\ ReadReturns(n) /\ stage = "Connect"
    /\ LET io == AppendBuffer(lread, n)
       IN  IF Pending(rwrite) = 0 /\ FrameRefused(io)
           THEN Close("badFrame")
           ELSE /\ PassThrough(io, watch, rwrite)
                /\ UNCHANGED <<life, cause, stage, rstage, authTimer, timer, lwrite, rread,
                               client, target, upstream, downstream>>

\* The first message: not there yet, of a refused length, or complete.
BadLength(n) == up[1].kind = "badlen" /\ lread.total + n >= HdrLen
FirstComplete(n) == up[1].kind # "badlen" /\ lread.total + n >= up[1].w

ReadAuthPart(n) ==
    /\ ReadReturns(n) /\ stage = "Init"
    /\ ~BadLength(n) /\ ~FirstComplete(n)
    /\ lread' = AppendBuffer(lread, n)
    /\ UNCHANGED <<ctl, lwrite, rread, rwrite, client, target, upstream, downstream>>

(***************************************************************************)
(* hangUpInvalidClient: a first message that is no AuthMsg gets no answer; *)
(* reading stops and the timer is started anew with 20 to 59 seconds.      *)
(***************************************************************************)
HangUpInvalidClient(n) ==
    /\ ReadReturns(n) /\ stage = "Init"
    /\ BadLength(n) \/ (FirstComplete(n) /\ up[1].kind # "auth")
    /\ watch' = watch \ {"lr"} /\ RestartAuthTimer
    /\ lread' = Consume(AppendBuffer(lread, n), IF BadLength(n) THEN 0 ELSE up[1].w)
    /\ UNCHANGED <<life, cause, stage, rstage, timer, lwrite, rread, rwrite,
                   client, target, upstream, downstream>>

AuthRead(n) ==
    /\ ReadReturns(n) /\ stage = "Init"
    /\ FirstComplete(n) /\ up[1].kind = "auth"

\* checkUser does not know the user or the password.
ReadBadUser(n) == AuthRead(n) /\ Close("badUser")

\* createRemoteServer gives no descriptor for the address.
ReadBadAddr(n) == AuthRead(n) /\ Close("badAddr")

\* The target's RemoteServer is made and connecting, the auth timer is
\* stopped, and what follows the AuthMsg is passed through at once.
ReadAuth(n) ==
    /\ AuthRead(n)
    /\ LET io == Compack(Consume(AppendBuffer(lread, n), up[1].w))
           ws == watch \cup {"rw"}
           out == [EmptyIO EXCEPT !.base = up[1].a]
       IN  IF FrameRefused(io)
           THEN Close("badFrame")
           ELSE /\ stage' = "Connect" /\ rstage' = "Connecting"
                /\ timer' = TRUE /\ StopAuthTimer
                /\ target' = [target EXCEPT !.conn = "pending"]
                /\ PassThrough(io, ws, out)
                /\ UNCHANGED <<life, cause, lwrite, rread, client, upstream, downstream>>

\* localTimeoutCallback, for both uses of the timer.
AuthTimeout ==
    /\ authTimer # "off"
    /\ Close("authTimeout")

-----------------------------------------------------------------------------
(***************************************************************************)
(* remoteWriteCallback: the connect check, then a write of any part of     *)
(* what is queued; n = 0 is EAGAIN, or nothing queued.                     *)
(***************************************************************************)
RemoteConnectFails ==
    /\ "rw" \in watch /\ rstage = "Connecting"
    /\ target.conn = "refused" \/ target.rst
    /\ Close("connectFailed")

RemoteWrite(n) ==
    /\ "rw" \in watch /\ target.conn = "up" /\ ~target.rst
    /\ n \in 0..Pending(rwrite)
    /\ n = 0 => rstage = "Connecting" \/ Pending(rwrite) = 0
    /\ LET drained == n = Pending(rwrite)
       IN  /\ rwrite' = ResetIfDrained(Consume(rwrite, n))
           /\ watch' = (IF drained THEN TurnBack(watch, "rw", "lr") ELSE watch)
                       \cup (IF rstage = "Connecting" THEN {"rr"} ELSE {})
    /\ rstage' = "Connected" /\ timer' = FALSE
    /\ target' = [target EXCEPT !.got = @ + n]
    /\ UNCHANGED <<life, cause, stage, authTimer, lread, lwrite, rread, client,
                   upstream, downstream>>

RemoteWriteFails ==
    /\ "rw" \in watch /\ rstage = "Connected" /\ target.rst
    /\ Close("writeError")

\* remoteTimeoutCallback.
RemoteTimeout ==
    /\ timer
    /\ Close("timeout")

-----------------------------------------------------------------------------
(***************************************************************************)
(* remoteReadCallback: any read of 0 closes the session; anything read is  *)
(* cut, encoded and queued for the client at once.                         *)
(***************************************************************************)
TargetDrained == NextIn(rread) = target.sent

\* A variant: the end of the target's stream goes unnoticed.
RemoteReadEofUnnoticed ==
    /\ "rr" \in watch /\ target.rst /\ TargetDrained
    /\ Close("targetEof")

RemoteReadEof ==
    /\ "rr" \in watch /\ target.fin /\ TargetDrained
    /\ Close("targetEof")

RemoteReadError ==
    /\ "rr" \in watch /\ target.rst /\ TargetDrained
    /\ Close("readError")

RemoteRead(n) ==
    /\ "rr" \in watch
    /\ n \in 1..(MaxBuf - rread.total)
    /\ NextIn(rread) + n <= target.sent
    /\ \E c \in Cuts(rread.total + n) :
          /\ dn' = Encode(dn, c)
          /\ lwrite' = AppendBuffer(lwrite, EncodedLen(c))
    /\ rread' = ResetBuffer(AppendBuffer(rread, n))
    /\ watch' = Turn(watch, "rr", "lw")
    /\ UNCHANGED <<life, cause, stage, rstage, authTimer, timer, lread, rwrite,
                   client, target, upstream, dnSent>>

-----------------------------------------------------------------------------
\* writeCallback.
Write(n) ==
    /\ "lw" \in watch /\ ~client.rst
    /\ n \in 1..Pending(lwrite)
    /\ lwrite' = ResetIfDrained(Consume(lwrite, n))
    /\ watch' = IF n = Pending(lwrite) THEN TurnBack(watch, "lw", "rr") ELSE watch
    /\ dnSent' = dnSent + n
    /\ UNCHANGED <<life, cause, stage, rstage, authTimer, timer, lread, rread, rwrite,
                   client, target, upstream, dn>>

\* The connection is reset, or there is nothing to write and errno is stale.
WriteFails ==
    /\ "lw" \in watch
    /\ client.rst \/ Pending(lwrite) = 0
    /\ Close("writeError")

-----------------------------------------------------------------------------
(***************************************************************************)
(* The environment: a SocksTunnelLocal, or something else that found the   *)
(* port, and the target.                                                   *)
(***************************************************************************)
ClientStarts(kind, n) ==
    /\ life = "open" /\ up = <<>> /\ ~client.fin /\ ~client.rst
    /\ up' = <<[w |-> HdrLen + AuthLen, a |-> 0, kind |-> kind]>>
    /\ n \in 0..(HdrLen + AuthLen)
    /\ upSent' = n
    /\ UNCHANGED <<ctl, bufs, client, target, downstream>>

ClientEncodes(size, kind, n) ==
    /\ life = "open" /\ up # <<>> /\ ~client.fin /\ ~client.rst
    /\ upSent = WireEnd(up)
    /\ size \in 1..MaxChunk /\ AppEnd(up) + size <= MaxUp
    /\ LET w == WireEnd(up) + HdrLen + FieldLen + size
       IN  /\ up' = Append(up, [w |-> w, a |-> AppEnd(up) + size, kind |-> kind])
           /\ n \in 0..(w - upSent)
           /\ upSent' = upSent + n
    /\ UNCHANGED <<ctl, bufs, client, target, downstream>>

ClientSendsRest ==
    /\ life = "open" /\ ~client.fin /\ ~client.rst
    /\ upSent < WireEnd(up)
    /\ upSent' = WireEnd(up)
    /\ UNCHANGED <<ctl, bufs, client, target, up, downstream>>

ClientCloses ==
    /\ life = "open" /\ ~client.fin /\ ~client.rst
    /\ client' = [client EXCEPT !.fin = TRUE]
    /\ UNCHANGED <<ctl, bufs, target, upstream, downstream>>

ClientResets ==
    /\ life = "open" /\ ~client.rst
    /\ client' = [client EXCEPT !.rst = TRUE]
    /\ UNCHANGED <<ctl, bufs, target, upstream, downstream>>

ConnectEnds(result) ==
    /\ life = "open" /\ target.conn = "pending"
    /\ target' = [target EXCEPT !.conn = result]
    /\ UNCHANGED <<ctl, bufs, client, upstream, downstream>>

TargetLive == life = "open" /\ target.conn = "up" /\ ~target.rst

TargetSends(n) ==
    /\ TargetLive /\ ~target.fin
    /\ n \in 1..(MaxDown - target.sent)
    /\ target' = [target EXCEPT !.sent = @ + n]
    /\ UNCHANGED <<ctl, bufs, client, upstream, downstream>>

TargetCloses ==
    /\ TargetLive /\ ~target.fin
    /\ target' = [target EXCEPT !.fin = TRUE]
    /\ UNCHANGED <<ctl, bufs, client, upstream, downstream>>

TargetResets ==
    /\ TargetLive
    /\ target' = [target EXCEPT !.rst = TRUE]
    /\ UNCHANGED <<ctl, bufs, client, upstream, downstream>>

-----------------------------------------------------------------------------
ReadCallback ==
    \/ ReadEof
    \/ ReadError
    \/ \E n \in 1..MaxBuf :
          \/ ReadAuthPart(n)
          \/ HangUpInvalidClient(n)
          \/ ReadBadUser(n)
          \/ ReadBadAddr(n)
          \/ ReadAuth(n)
          \/ ReadFrames(n)

RemoteWriteCallback ==
    \/ RemoteConnectFails
    \/ \E n \in 0..RealBuf : RemoteWrite(n)
    \/ RemoteWriteFails

RemoteReadCallback ==
    \/ RemoteReadEof
    \/ RemoteReadError
    \/ \E n \in 1..MaxBuf : RemoteRead(n)

WriteCallback ==
    \/ \E n \in 1..RealBuf : Write(n)
    \/ WriteFails

Environment ==
    \/ \E kind \in Kinds \ {"data"}, n \in 0..(HdrLen + AuthLen) : ClientStarts(kind, n)
    \/ \E size \in 1..MaxChunk, kind \in Kinds \ {"auth"},
          n \in 0..(HdrLen + FieldLen + MaxChunk) : ClientEncodes(size, kind, n)
    \/ ClientSendsRest
    \/ ClientCloses
    \/ ClientResets
    \/ \E result \in {"up", "refused"} : ConnectEnds(result)
    \/ \E n \in 1..MaxDown : TargetSends(n)
    \/ TargetCloses
    \/ TargetResets

Next ==
    \/ Accept
    \/ ReadCallback
    \/ AuthTimeout
    \/ RemoteWriteCallback
    \/ RemoteTimeout
    \/ RemoteReadCallback
    \/ WriteCallback
    \/ Environment

Spec == Init /\ [][Next]_vars

(***************************************************************************)
(* libev is level-triggered and a started timer fires; the peers drain     *)
(* their sockets, so that a write makes progress.                          *)
(***************************************************************************)
Fairness ==
    /\ WF_vars(ReadCallback)
    /\ WF_vars(AuthTimeout)
    /\ WF_vars(RemoteWriteCallback)
    /\ WF_vars(RemoteTimeout)
    /\ WF_vars(RemoteReadCallback)
    /\ WF_vars(WriteCallback)

FairSpec == Spec /\ Fairness

-----------------------------------------------------------------------------
TypeOK ==
    /\ life \in {"none", "open", "closed"} /\ cause \in Causes
    /\ stage \in {"Init", "Connect"}
    /\ rstage \in {"none", "Connecting", "Connected"}
    /\ watch \subseteq Watchers /\ authTimer \in {"off", "auth", "hangup"}
    /\ timer \in BOOLEAN
    /\ lread \in IOType /\ lwrite \in IOType /\ rread \in IOType /\ rwrite \in IOType
    /\ client \in [fin: BOOLEAN, rst: BOOLEAN]
    /\ target \in [conn: {"none", "pending", "up", "refused"}, sent: Nat, got: Nat,
                   fin: BOOLEAN, rst: BOOLEAN]
    /\ up \in Seq(Frame) /\ upSent \in Nat
    /\ dn \in Seq(Frame) /\ dnSent \in Nat

(***************************************************************************)
(* Reading and writing of a direction take turns.  The client may be read  *)
(* while the target is being connected to, but never while something is    *)
(* queued for the target; once connected exactly one watcher of each       *)
(* direction is started, and the client's writer only with something to    *)
(* write.  Nothing is started on freed memory.                             *)
(***************************************************************************)
TurnTaking ==
    /\ timer <=> rstage = "Connecting"
    /\ life # "open" => watch = {}
    /\ Pending(rwrite) > 0 => "rw" \in watch /\ "lr" \notin watch
    /\ rstage = "Connecting" => "rw" \in watch /\ watch \cap {"rr", "lw"} = {}
    /\ rstage = "Connected" =>
          /\ "lr" \in watch \/ "rw" \in watch
          /\ "lr" \in watch /\ "rw" \in watch => Pending(rwrite) = 0
          /\ ("rr" \in watch) # ("lw" \in watch)
          /\ ("lw" \in watch) <=> Pending(lwrite) > 0

(***************************************************************************)
(* A connection that has not passed authentication is always under a       *)
(* timer, and nothing is started on its behalf: no target, nothing sent.   *)
(* Once it has passed, the timer is off and its first message was an       *)
(* AuthMsg; a connection hung up on is not read any more, and its first    *)
(* message was none.                                                       *)
(***************************************************************************)
AuthFirst ==
    life = "open" =>
        /\ stage = "Init" <=> authTimer # "off"
        /\ stage = "Init" => rstage = "none" /\ dnSent = 0 /\ target.got = 0
        /\ stage = "Connect" => up[1].kind = "auth"
        /\ authTimer = "hangup" <=> watch = {}
        /\ authTimer = "hangup" => up # <<>> /\ up[1].kind # "auth"

(***************************************************************************)
(* appendBuffer has no bounds check: no write buffer ever holds more than  *)
(* its REAL_SERVER_BUF bytes, and a started read watcher always finds room *)
(* to read into.                                                           *)
(***************************************************************************)
BuffersFit ==
    /\ lread.total <= MaxBuf /\ rread.total <= MaxBuf
    /\ lwrite.total <= RealBuf /\ rwrite.total <= RealBuf
    /\ "lr" \in watch => lread.total < MaxBuf
    /\ "rr" \in watch => rread.total < MaxBuf

(***************************************************************************)
(* What is queued for the target ends where the decoded frames end, the    *)
(* target received exactly what was written to it, and decoding always     *)
(* resumes at a frame boundary, behind frames that passed their check.     *)
(***************************************************************************)
UpstreamIntegrity ==
    stage = "Connect" =>
        /\ NextOut(rwrite) = up[1].a + target.got /\ NextIn(lread) <= upSent
        /\ \E d \in 1..Len(up) :
              /\ WEnd(up, d) = NextOut(lread)
              /\ AEnd(up, d) = NextIn(rwrite)
              /\ \A k \in 2..d : up[k].kind = "data"

(***************************************************************************)
(* The next byte the session writes to the client is the next byte of the  *)
(* frames it encoded, and the frames hold all it read from the target.     *)
(***************************************************************************)
DownstreamIntegrity ==
    life = "open" =>
        /\ NextOut(lwrite) = dnSent /\ NextIn(lwrite) = WireEnd(dn)
        /\ NextOut(rread) = AppEnd(dn) /\ NextIn(rread) <= target.sent

\* What a session closed at an end of stream has relayed of that stream.
EndsRelayed ==
    /\ cause = "targetEof" => dnSent = WireEnd(dn) /\ AppEnd(dn) = target.sent
    /\ cause = "clientEof" /\ target.conn # "none" =>
          /\ upSent = WEnd(up, LastComplete(up, upSent))
          /\ up[1].a + target.got = AEnd(up, LastComplete(up, upSent))

\* The connect timer only expires before anything is written to the target,
\* and a frame is only refused behind an AuthMsg that was not.
ClosedForCause ==
    /\ cause = "clientEof" => client.fin
    /\ cause = "targetEof" => target.fin
    /\ cause \in {"readError", "writeError"} => client.rst \/ target.rst
    /\ cause = "connectFailed" => target.conn = "refused" \/ target.rst
    /\ cause = "timeout" => target.got = 0 /\ dnSent = 0
    /\ cause = "authTimeout" => target.conn = "none" /\ dnSent = 0
    /\ cause \in {"badUser", "badAddr", "badFrame"} => up # <<>> /\ up[1].kind = "auth"
    /\ cause = "badFrame" => \E k \in 2..Len(up) : up[k].kind # "data"

(***************************************************************************)
(* A session is only closed at an end of stream when that stream has been  *)
(* relayed, and whatever it is closed for is real: unlike its counterpart, *)
(* writeCallback is never left with nothing to write.                      *)
(***************************************************************************)
OrderlyClose == EndsRelayed /\ ClosedForCause

(***************************************************************************)
(* A connection is authenticated or closed.                                *)
(***************************************************************************)
AuthResolves == life = "open" /\ stage = "Init" ~> stage = "Connect" \/ life = "closed"

(***************************************************************************)
(* A session is closed once its target has finished.                       *)
(***************************************************************************)
TargetEofCloses == target.fin ~> life = "closed"

=============================================================================
