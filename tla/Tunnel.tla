------------------------------- MODULE Tunnel -------------------------------
(***************************************************************************)
(* A session through both halves: a LocalSession and a ServerSession, each *)
(* with all its callbacks, joined by the TCP connection between them.  The *)
(* peer of the one and the client of the other are no longer free to do    *)
(* what they like: what they send, and when they finish or reset, is what  *)
(* the other half and the network make of it.                              *)
(*                                                                         *)
(* Names of LocalSession are used as they are; S! and a leading s mean the *)
(* server's.  The frames up and dn are common to both: upSent wire bytes   *)
(* of up have been given to the kernel and upCame of them have arrived,    *)
(* dnGiven of dn have been given and dnSent have arrived.                  *)
(***************************************************************************)
EXTENDS LocalSession

\* What ServerSession assumes beyond LocalSession: a first message fits in
\* one read of the server (MAX_SERVER_BUF).
ASSUME TunnelAssumption == HdrLen + AuthLen <= MaxBuf

VARIABLES
    sLife, sCause, sStage, sRstage, sWatch, sAuthTimer, sTimer,
    sLread, sLwrite, sRread, sRwrite,
    sClient,     \* the server's end of the connection
    target,      \* the target and the server's connection to it
    upCame,      \* wire bytes of up that have arrived
    dnGiven,     \* wire bytes of dn given to the kernel
    wire         \* what ends each direction: "none", "fin" or "rst"

S == INSTANCE ServerSession WITH
        life <- sLife, cause <- sCause, stage <- sStage, rstage <- sRstage,
        watch <- sWatch, authTimer <- sAuthTimer, timer <- sTimer,
        lread <- sLread, lwrite <- sLwrite, rread <- sRread, rwrite <- sRwrite,
        client <- sClient, upSent <- upCame, dnSent <- dnGiven

\* The variables only one of the two changes.
localOwn == <<ctl, bufs, client, peer, upSent, dnSent>>
serverOwn == <<sLife, sCause, sStage, sRstage, sWatch, sAuthTimer, sTimer,
               sLread, sLwrite, sRread, sRwrite, sClient, target, upCame, dnGiven>>
tunnelVars == <<localOwn, serverOwn, up, dn, wire>>

TunnelInit == Init /\ S!Init /\ wire = [up |-> "none", dn |-> "none"]

(***************************************************************************)
(* close() of the connection by either half: the other end is told after   *)
(* all that was written, unless something that has arrived was not read,   *)
(* when the connection is reset and what is on its way is lost.  A         *)
(* callback that finds a reason to close may have read it just before.     *)
(***************************************************************************)
Ends(unread) == IF unread THEN {"fin", "rst"} ELSE {"fin"}

LocalCallback ==
    /\ wire' \in IF life' = "closed" /\ peer.conn = "up"
                 THEN {[wire EXCEPT !.up = end] : end \in Ends(NextIn(rread) < dnSent)}
                 ELSE {wire}
    /\ UNCHANGED serverOwn

ServerCallback ==
    /\ wire' \in IF sLife' = "closed"
                 THEN {[wire EXCEPT !.dn = end] : end \in Ends(NextIn(sLread) < upCame)}
                 ELSE {wire}
    /\ UNCHANGED localOwn

\* The callbacks of the local half, those of the server half.
LocalAccepts == Accept /\ LocalCallback
LocalReads == ReadCallback /\ LocalCallback
LocalWritesRemote == RemoteWriteCallback /\ LocalCallback
LocalTimesOut == RemoteTimeout /\ LocalCallback
LocalReadsRemote == RemoteReadCallback /\ LocalCallback
LocalWrites == WriteCallback /\ LocalCallback
LocalWritesNothing == WriteNothing /\ LocalCallback

ServerAccepts == peer.conn = "up" /\ S!Accept /\ ServerCallback
ServerReads == S!ReadCallback /\ ServerCallback
ServerAuthTimesOut == S!AuthTimeout /\ ServerCallback
ServerWritesRemote == S!RemoteWriteCallback /\ ServerCallback
ServerTimesOut == S!RemoteTimeout /\ ServerCallback
ServerReadsRemote == S!RemoteReadCallback /\ ServerCallback
ServerWrites == S!WriteCallback /\ ServerCallback

-----------------------------------------------------------------------------
(***************************************************************************)
(* The connection between them.  What is written arrives in order and in   *)
(* any parts, a fin after it, a rst at any time; what arrives at an end    *)
(* that is closed is answered by a rst.                                    *)
(***************************************************************************)
UpArrives ==
    /\ sLife = "open" /\ ~sClient.rst
    /\ upCame' \in upCame + 1 .. upSent
    /\ UNCHANGED <<localOwn, sLife, sCause, sStage, sRstage, sWatch, sAuthTimer, sTimer,
                   sLread, sLwrite, sRread, sRwrite, sClient, target, dnGiven, up, dn, wire>>

UpEnds ==
    /\ \/ wire.up = "fin" /\ upCame = upSent /\ S!ClientCloses
       \/ wire.up = "rst" /\ S!ClientResets
    /\ UNCHANGED <<localOwn, wire>>

UpRefused ==
    /\ sLife = "closed" /\ wire.dn = "fin" /\ upCame < upSent
    /\ wire' = [wire EXCEPT !.dn = "rst"]
    /\ UNCHANGED <<localOwn, serverOwn, up, dn>>

DownArrives ==
    /\ life = "open" /\ ~peer.rst
    /\ dnSent' \in dnSent + 1 .. dnGiven
    /\ UNCHANGED <<ctl, bufs, client, peer, upSent, serverOwn, up, dn, wire>>

DownEnds ==
    /\ \/ wire.dn = "fin" /\ dnSent = dnGiven /\ PeerCloses
       \/ wire.dn = "rst" /\ PeerResets
    /\ UNCHANGED <<serverOwn, wire>>

DownRefused ==
    /\ life = "closed" /\ wire.up = "fin" /\ dnSent < dnGiven
    /\ wire' = [wire EXCEPT !.up = "rst"]
    /\ UNCHANGED <<localOwn, serverOwn, up, dn>>

Network == UpArrives \/ UpEnds \/ UpRefused \/ DownArrives \/ DownEnds \/ DownRefused

\* The SOCKS5 client, the target and the two connection attempts.
LocalSide ==
    /\ \/ \E n \in 1..(HandshakeLen + MaxUp) : ClientSends(n)
       \/ ClientCloses
       \/ ClientResets
       \/ \E result \in {"up", "refused"} : ConnectEnds(result)
    /\ UNCHANGED <<serverOwn, wire>>

TargetSide ==
    /\ \/ \E result \in {"up", "refused"} : S!ConnectEnds(result)
       \/ \E n \in 1..MaxDown : S!TargetSends(n)
       \/ S!TargetCloses
       \/ S!TargetResets
    /\ UNCHANGED <<localOwn, wire>>

TunnelNext ==
    \/ LocalAccepts \/ LocalReads \/ LocalWritesRemote \/ LocalTimesOut
    \/ LocalReadsRemote \/ LocalWrites \/ LocalWritesNothing
    \/ ServerAccepts \/ ServerReads \/ ServerAuthTimesOut \/ ServerWritesRemote
    \/ ServerTimesOut \/ ServerReadsRemote \/ ServerWrites
    \/ Network
    \/ LocalSide \/ TargetSide

TunnelSpec == TunnelInit /\ [][TunnelNext]_tunnelVars

(***************************************************************************)
(* That of the two halves; the server accepts, and what is written comes   *)
(* to its end of the connection.  Nothing is assumed of client and target. *)
(***************************************************************************)
TunnelFairness ==
    /\ WF_tunnelVars(LocalReads)
    /\ WF_tunnelVars(LocalWritesRemote)
    /\ WF_tunnelVars(LocalTimesOut)
    /\ WF_tunnelVars(LocalReadsRemote)
    /\ WF_tunnelVars(LocalWrites)
    /\ WF_tunnelVars(ServerAccepts)
    /\ WF_tunnelVars(ServerReads)
    /\ WF_tunnelVars(ServerAuthTimesOut)
    /\ WF_tunnelVars(ServerWritesRemote)
    /\ WF_tunnelVars(ServerTimesOut)
    /\ WF_tunnelVars(ServerReadsRemote)
    /\ WF_tunnelVars(ServerWrites)
    /\ WF_tunnelVars(UpArrives)
    /\ WF_tunnelVars(UpEnds)
    /\ WF_tunnelVars(DownArrives)
    /\ WF_tunnelVars(DownEnds)
    /\ WF_tunnelVars(DownRefused)
    /\ WF_tunnelVars(UpRefused)

FairTunnelSpec == TunnelSpec /\ TunnelFairness

-----------------------------------------------------------------------------
(***************************************************************************)
(* The pipe from client to target begins with the first byte behind the    *)
(* request.  It ends with the server's half; it breaks when the local half *)
(* goes without having passed on all, or what it passed on is lost.        *)
(***************************************************************************)
UpIn == IF up = <<>> THEN 0 ELSE client.sent - up[1].a

UpState ==
    IF sLife = "closed"
    THEN IF cause = "clientEof" /\ sCause = "clientEof" THEN "finished" ELSE "cut"
    ELSE IF life # "closed" \/ (cause = "clientEof" /\ (wire.up = "fin" \/ sClient.fin))
    THEN "whole"
    ELSE "broken"

Up == INSTANCE Pipe WITH Most <- MaxUp, sent <- UpIn, got <- target.got, state <- UpState

(***************************************************************************)
(* The pipe from target to client ends with the local half.  It breaks     *)
(* when the server's half goes otherwise than at the end of the target's   *)
(* stream, when that end is lost, or in writeCallback with nothing to      *)
(* write.                                                                  *)
(***************************************************************************)
Stalled == "lw" \in watch /\ Pending(lwrite) = 0

DownState ==
    IF life = "closed"
    THEN IF cause = "peerEof" /\ sCause = "targetEof" THEN "finished" ELSE "cut"
    ELSE IF ~Stalled /\ (sLife # "closed"
                         \/ (sCause = "targetEof" /\ (wire.dn = "fin" \/ peer.fin)))
    THEN "whole"
    ELSE "broken"

Down == INSTANCE Pipe WITH Most <- MaxDown, sent <- target.sent, got <- client.got, state <- DownState

(***************************************************************************)
(* Both directions are pipes, through both halves and the connection.      *)
(***************************************************************************)
UpIsPipe == Up!PipeSpec
DownIsPipe == Down!PipeSpec

\* What client and target send arrives while the pipe stays whole.
BothDeliver == Up!Delivers /\ Down!Delivers

(***************************************************************************)
(* Neither half refuses what the other one encodes: no connection between  *)
(* them is hung up on or closed for a frame, and a part of a frame always  *)
(* leaves room to read the rest of it, though the length check of          *)
(* SocksTunnelServer allows frames that would not.                         *)
(***************************************************************************)
FramesAccepted ==
    /\ cause # "badFrame" /\ sCause # "badFrame" /\ sAuthTimer # "hangup"
    /\ "rr" \in watch => rread.total < MaxBuf
    /\ "lr" \in sWatch => sLread.total < MaxBuf

(***************************************************************************)
(* When one half has gone the other one goes too, unless it then holds a   *)
(* part of a frame: a read of 0 is only looked at with an empty buffer.    *)
(***************************************************************************)
HalvesEndTogether ==
    /\ life = "closed" ~> sLife # "open" \/ (sClient.fin /\ sLread.total > 0)
    /\ sLife = "closed" ~> life = "closed" \/ (peer.fin /\ rread.total > 0) \/ Stalled
=============================================================================
