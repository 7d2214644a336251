---------------------------- MODULE TunnelProofs ----------------------------
(***************************************************************************)
(* A session through both halves is a pipe in each direction, for every    *)
(* buffer size, message length and segmentation: Tunnel implements Pipe.   *)
(*                                                                         *)
(* Each half has its invariant already.  Here the one half's environment   *)
(* is the other one: what it encodes, and what arrives of it, is shown to  *)
(* be what the half's proof lets its peer do (PeerGoesOn, ClientGoesOn).   *)
(* What is left is how the two ends of a connection relate (WireLink,      *)
(* EndLink) and, for each step, what it is of a pipe.                      *)
(***************************************************************************)
EXTENDS Tunnel, LocalSessionProofs

SP == INSTANCE ServerSessionProofs WITH
        life <- sLife, cause <- sCause, stage <- sStage, rstage <- sRstage,
        watch <- sWatch, authTimer <- sAuthTimer, timer <- sTimer,
        lread <- sLread, lwrite <- sLwrite, rread <- sRread, rwrite <- sRwrite,
        client <- sClient, upSent <- upCame, dnSent <- dnGiven

\* The actions of the server half in Tunnel are those ServerSessionProofs is
\* about, only under another name.
ServerCallbacks ==
    \/ S!Accept \/ S!ReadCallback \/ S!AuthTimeout \/ S!RemoteWriteCallback
    \/ S!RemoteTimeout \/ S!RemoteReadCallback \/ S!WriteCallback

ServerEvents ==
    \/ S!ClientCloses \/ S!ClientResets \/ S!TargetCloses \/ S!TargetResets
    \/ \E result \in {"up", "refused"} : S!ConnectEnds(result)
    \/ \E n \in 1..MaxDown : S!TargetSends(n)

LEMMA SameServer ==
    /\ S!Init => SP!Init
    /\ ServerCallbacks => SP!Callback
    /\ ServerEvents => SP!Environment
<1> USE DEF S!Init, SP!Init, S!EmptyIO, SP!EmptyIO,
            S!ctl, SP!ctl, S!bufs, SP!bufs, S!upstream, SP!upstream, S!downstream, SP!downstream,
            S!Close, SP!Close, S!Turn, SP!Turn, S!TurnBack, SP!TurnBack
<1> USE DEF S!AppendBuffer, SP!AppendBuffer, S!Consume, SP!Consume,
            S!ResetBuffer, SP!ResetBuffer, S!ResetIfDrained, SP!ResetIfDrained,
            S!Compack, SP!Compack, S!Pending, SP!Pending,
            S!NextIn, SP!NextIn, S!NextOut, SP!NextOut
<1> USE DEF S!WEnd, SP!WEnd, S!AEnd, SP!AEnd, S!WireEnd, SP!WireEnd, S!AppEnd, SP!AppEnd,
            S!Cuts, SP!Cuts, S!Encode, SP!Encode, S!EncodedLen, SP!EncodedLen,
            S!Complete, SP!Complete, S!LastComplete, SP!LastComplete, S!Refused, SP!Refused
<1>1. S!Init => SP!Init
  BY Zenon
<1>2. S!Accept => SP!Accept
  BY Zenon DEF S!Accept, SP!Accept
<1>3. S!ReadCallback => SP!ReadCallback
  BY Zenon DEF S!ReadCallback, SP!ReadCallback, S!ReadEof, SP!ReadEof, S!ReadError, SP!ReadError,
       S!ClientDrained, SP!ClientDrained, S!ReadReturns, SP!ReadReturns,
       S!ReadAuthPart, SP!ReadAuthPart, S!HangUpInvalidClient, SP!HangUpInvalidClient,
       S!RestartAuthTimer, SP!RestartAuthTimer, S!StopAuthTimer, SP!StopAuthTimer,
       S!BadLength, SP!BadLength, S!FirstComplete, SP!FirstComplete, S!AuthRead, SP!AuthRead,
       S!ReadBadUser, SP!ReadBadUser, S!ReadBadAddr, SP!ReadBadAddr, S!ReadAuth, SP!ReadAuth,
       S!FrameRefused, SP!FrameRefused, S!PassThrough, SP!PassThrough,
       S!ReadFrames, SP!ReadFrames
<1>4. S!AuthTimeout => SP!AuthTimeout
  BY Zenon DEF S!AuthTimeout, SP!AuthTimeout
<1>5. S!RemoteWriteCallback => SP!RemoteWriteCallback
  BY Zenon DEF S!RemoteWriteCallback, SP!RemoteWriteCallback, S!RemoteWrite, SP!RemoteWrite,
       S!RemoteConnectFails, SP!RemoteConnectFails, S!RemoteWriteFails, SP!RemoteWriteFails
<1>6. S!RemoteTimeout => SP!RemoteTimeout
  BY Zenon DEF S!RemoteTimeout, SP!RemoteTimeout
<1>7. S!RemoteReadCallback => SP!RemoteReadCallback
  BY Zenon DEF S!RemoteReadCallback, SP!RemoteReadCallback, S!TargetDrained, SP!TargetDrained,
       S!RemoteReadEof, SP!RemoteReadEof, S!RemoteReadError, SP!RemoteReadError,
       S!RemoteRead, SP!RemoteRead
<1>8. S!WriteCallback => SP!WriteCallback
  BY Zenon DEF S!WriteCallback, SP!WriteCallback, S!Write, SP!Write, S!WriteFails, SP!WriteFails
<1>9. ServerEvents => SP!Environment
  <2>1. S!ClientCloses \/ S!ClientResets => SP!ClientCloses \/ SP!ClientResets
    BY Zenon DEF S!ClientCloses, SP!ClientCloses, S!ClientResets, SP!ClientResets
  <2>2. S!TargetCloses \/ S!TargetResets => SP!TargetCloses \/ SP!TargetResets
    BY Zenon DEF S!TargetCloses, SP!TargetCloses, S!TargetResets, SP!TargetResets,
                 S!TargetLive, SP!TargetLive
  <2>3. (\E result \in {"up", "refused"} : S!ConnectEnds(result))
           => \E result \in {"up", "refused"} : SP!ConnectEnds(result)
    BY Zenon DEF S!ConnectEnds, SP!ConnectEnds
  <2>4. (\E n \in 1..MaxDown : S!TargetSends(n)) => \E n \in 1..MaxDown : SP!TargetSends(n)
    BY Zenon DEF S!TargetSends, SP!TargetSends, S!TargetLive, SP!TargetLive
  <2> QED
    BY <2>1, <2>2, <2>3, <2>4, Zenon DEF ServerEvents, SP!Environment
<1> QED
  BY <1>1, <1>2, <1>3, <1>4, <1>5, <1>6, <1>7, <1>8, <1>9, Zenon DEF ServerCallbacks, SP!Callback

\* The same holds for what the two proofs say of streams.
LEMMA SameStreams ==
    /\ SP!Frame = Frame
    /\ \A s : SP!WireEnd(s) = WireEnd(s) /\ SP!AppEnd(s) = AppEnd(s)
    /\ \A s, k : SP!WEnd(s, k) = WEnd(s, k) /\ SP!AEnd(s, k) = AEnd(s, k)
    /\ \A s, k : SP!LastComplete(s, k) = LastComplete(s, k)
    /\ \A s : SP!Ordered(s) <=> Ordered(s)
    /\ \A s, m : SP!Framed(s, m) <=> Framed(s, m)
    /\ \A s, t : SP!Continues(t, s) <=> Continues(t, s)
    /\ \A s, c : SP!Encode(s, c) = Encode(s, c)
    /\ \A n : SP!Cuts(n) = Cuts(n)
<1> USE DEF SP!WEnd, WEnd, SP!AEnd, AEnd, SP!WireEnd, WireEnd, SP!AppEnd, AppEnd
<1>1. SP!Frame = Frame
  BY Zenon DEF SP!Frame, Frame, SP!Kinds, Kinds
<1>2. ASSUME NEW s PROVE SP!WireEnd(s) = WireEnd(s) /\ SP!AppEnd(s) = AppEnd(s)
  BY Zenon
<1>8. ASSUME NEW s, NEW k
      PROVE  /\ SP!WEnd(s, k) = WEnd(s, k) /\ SP!AEnd(s, k) = AEnd(s, k)
             /\ SP!LastComplete(s, k) = LastComplete(s, k)
  BY Zenon DEF SP!LastComplete, LastComplete
<1>3. ASSUME NEW s PROVE SP!Ordered(s) <=> Ordered(s)
  BY Zenon DEF SP!Ordered, Ordered
<1>4. ASSUME NEW s, NEW m PROVE SP!Framed(s, m) <=> Framed(s, m)
  BY Zenon DEF SP!Framed, Framed, SP!LongestFrame, LongestFrame
<1>5. ASSUME NEW s, NEW t PROVE SP!Continues(t, s) <=> Continues(t, s)
  BY Zenon DEF SP!Continues, Continues
<1>6. ASSUME NEW s, NEW c PROVE SP!Encode(s, c) = Encode(s, c)
  BY Zenon DEF SP!Encode, Encode
<1>7. ASSUME NEW n PROVE SP!Cuts(n) = Cuts(n)
  BY Zenon DEF SP!Cuts, Cuts
<1> QED
  BY <1>1, <1>2, <1>3, <1>4, <1>5, <1>6, <1>7, <1>8, Zenon

-----------------------------------------------------------------------------
(***************************************************************************)
(* What is known of the server half, in the names of this module.          *)
(***************************************************************************)
LEMMA ServerInit == S!Init => SP!IInv
BY SameServer, SP!InitEstablishes, FrameAssumption, LocalAssumption, TunnelAssumption

LEMMA ServerStep ==
    ASSUME SP!IInv, ServerCallbacks \/ ServerEvents
    PROVE  SP!IInv'
<1>1. SP!Next
  BY SameServer, Zenon DEF SP!Callback, SP!Next
<1> QED
  BY <1>1, SP!StepPreserves, FrameAssumption, LocalAssumption, TunnelAssumption

ServerView ==
    /\ up \in Seq(Frame) /\ Ordered(up) /\ Framed(up, 1)
    /\ up # <<>> => up[1].w = HdrLen + AuthLen
    /\ upCame \in Nat /\ upCame <= WireEnd(up)
    /\ dn \in Seq(Frame) /\ dnGiven \in Nat
    /\ sLife \in {"none", "open", "closed"} /\ sClient.fin \in BOOLEAN
    /\ target.sent \in Nat /\ target.got \in Nat
    /\ target.conn # "none" => up # <<>>
    /\ sLife # "closed" =>
          /\ sCause = "none"
          /\ dnGiven <= WireEnd(dn) /\ AppEnd(dn) <= target.sent
          /\ target.conn = "none" => target.got = 0
          /\ sStage = "Connect" => up # <<>> /\ up[1].a + target.got <= AppEnd(up)
    /\ sCause = "targetEof" => dnGiven = WireEnd(dn) /\ AppEnd(dn) = target.sent
    /\ sCause = "clientEof" /\ target.conn # "none" =>
          /\ upCame = WEnd(up, LastComplete(up, upCame))
          /\ up[1].a + target.got = AEnd(up, LastComplete(up, upCame))

LEMMA ServerKnows == SP!IInv => ServerView
<1> SUFFICES ASSUME SP!IInv PROVE ServerView
  OBVIOUS
<1>1. SP!Outside /\ SP!OpenOutside /\ SP!ClosedOutside
  BY SP!SeenFromOutside, FrameAssumption, LocalAssumption, TunnelAssumption
<1>2. /\ up \in Seq(Frame) /\ Ordered(up) /\ Framed(up, 1)
      /\ up # <<>> => up[1].w = HdrLen + AuthLen
      /\ upCame \in Nat /\ upCame <= WireEnd(up)
      /\ dn \in Seq(Frame) /\ dnGiven \in Nat
      /\ sLife \in {"none", "open", "closed"} /\ sClient.fin \in BOOLEAN
      /\ target.sent \in Nat /\ target.got \in Nat
      /\ target.conn # "none" => up # <<>>
  BY <1>1, SameStreams, Zenon DEF SP!Outside
<1>3. sLife # "closed" =>
         /\ sCause = "none"
         /\ dnGiven <= WireEnd(dn) /\ AppEnd(dn) <= target.sent
         /\ target.conn = "none" => target.got = 0
         /\ sStage = "Connect" => up # <<>> /\ up[1].a + target.got <= AppEnd(up)
  BY <1>1, SameStreams, Zenon DEF SP!OpenOutside
<1>4. /\ sCause = "targetEof" => dnGiven = WireEnd(dn) /\ AppEnd(dn) = target.sent
      /\ sCause = "clientEof" /\ target.conn # "none" =>
            /\ upCame = WEnd(up, LastComplete(up, upCame))
            /\ up[1].a + target.got = AEnd(up, LastComplete(up, upCame))
  BY <1>1, SameStreams, Zenon DEF SP!ClosedOutside
<1> QED
  BY <1>2, <1>3, <1>4, Zenon DEF ServerView

\* SP!CallbackSteps.
ServerEnding ==
    /\ sLife' = "closed" /\ UNCHANGED <<target, dn, dnGiven>>
    /\ sCause' = "clientEof" =>
          /\ sClient.fin
          /\ target.conn = "none" /\ up # <<>> => upCame < WireEnd(up)

ServerGoingOn ==
    /\ sLife' # "closed" /\ sCause' = sCause
    /\ dn' = dn \/ \E n \in Nat \ {0} : \E c \in Cuts(n) : dn' = Encode(dn, c)
    /\ dnGiven' \in Nat /\ dnGiven <= dnGiven'
    /\ \/ target'.got = target.got
       \/ sLife' = "open" /\ sStage' = "Connect" /\ target'.got > target.got

LEMMA ServerMoves ==
    ASSUME SP!IInv, ServerCallbacks
    PROVE  /\ sLife # "closed" /\ UNCHANGED <<sClient, up, upCame>>
           /\ target'.sent = target.sent
           /\ ServerEnding \/ ServerGoingOn
<1>1. SP!CallbackStep
  <2>1. SP!Callback
    BY SameServer
  <2> QED
    BY <2>1, SP!CallbackSteps, FrameAssumption, LocalAssumption, TunnelAssumption
<1>2. sLife # "closed" /\ UNCHANGED <<sClient, up, upCame>> /\ target'.sent = target.sent
  BY <1>1 DEF SP!CallbackStep, SP!upstream
<1>3. CASE SP!Ending
  <2>1. ServerEnding
    BY <1>3, SameStreams, Zenon DEF SP!Ending, SP!AtClientEof, SP!downstream, ServerEnding
  <2> QED
    BY <1>2, <2>1
<1>4. CASE SP!GoingOn
  <2>1. ServerGoingOn
    BY <1>4, SameStreams, Zenon DEF SP!GoingOn, SP!EncodesMore, ServerGoingOn
  <2> QED
    BY <1>2, <2>1
<1> QED
  BY <1>1, <1>3, <1>4 DEF SP!CallbackStep

\* What the local half encodes, and what arrives of it, is what the server
\* half's proof lets its client do.
LEMMA ServerSeesClient ==
    ASSUME UNCHANGED <<sLife, sCause, sStage, sRstage, sWatch, sAuthTimer, sTimer,
                       sLread, sLwrite, sRread, sRwrite, sClient, target, dn, dnGiven>>,
           up' \in Seq(Frame), Ordered(up'), Framed(up', 1), Continues(up', up),
           up' # <<>> => up'[1].w = HdrLen + AuthLen,
           upCame' \in Nat, upCame <= upCame', upCame' <= WireEnd(up'),
           sLife = "closed" => upCame' = upCame
    PROVE  SP!ClientGoesOn
<1>1. up' \in Seq(SP!Frame) /\ SP!Ordered(up') /\ SP!Framed(up', 1) /\ SP!Continues(up', up)
      /\ SP!WireEnd(up') = WireEnd(up')
  BY SameStreams, Zenon
<1>2. UNCHANGED <<SP!ctl, SP!bufs, sClient, target, SP!downstream>>
  BY DEF SP!ctl, SP!bufs, SP!downstream
<1> QED
  BY <1>1, <1>2, Zenon DEF SP!ClientGoesOn

LEMMA ServerFollows == SP!IInv /\ SP!ClientGoesOn => SP!IInv'
BY SP!ClientGoesOnKeeps, FrameAssumption, LocalAssumption, TunnelAssumption

-----------------------------------------------------------------------------
(***************************************************************************)
(* The connection between the two: what has arrived was written, what was  *)
(* written was encoded, what was encoded was read.  An end is told only    *)
(* after close() at the other, a fin only when all has come before it.     *)
(***************************************************************************)
WireLink ==
    /\ upCame <= upSent /\ upSent <= WireEnd(up)
    /\ dnSent <= dnGiven /\ dnGiven <= WireEnd(dn)
    /\ up # <<>> => client.replies = 2 /\ AppEnd(up) <= client.sent
    /\ AppEnd(dn) <= target.sent

EndLink ==
    /\ wire \in [up: {"none", "fin", "rst"}, dn: {"none", "fin", "rst"}]
    /\ wire.up # "none" => life = "closed"
    /\ sClient.fin => wire.up # "none" /\ upCame = upSent
    /\ wire.dn # "none" => sLife = "closed"
    /\ peer.fin => wire.dn # "none" /\ dnSent = dnGiven
    /\ sCause = "clientEof" => sClient.fin

TunnelInv == IInv /\ EndInv /\ SP!IInv /\ WireLink /\ EndLink

LEMMA TunnelInitEstablishes == TunnelInit => TunnelInv
<1> SUFFICES ASSUME TunnelInit PROVE TunnelInv
  OBVIOUS
<1>1. IInv /\ EndInv /\ SP!IInv
  BY InitEstablishes, InitEstablishesEnd, ServerInit DEF TunnelInit
<1>2. WireLink
  BY NoFrames DEF TunnelInit, Init, S!Init, WireLink
<1>3. EndLink
  BY DEF TunnelInit, Init, S!Init, EndLink
<1> QED
  BY <1>1, <1>2, <1>3 DEF TunnelInv

\* What is known of the local half.
LocalView ==
    /\ life \in {"none", "open", "closed"}
    /\ client.sent \in Nat /\ client.got \in Nat /\ client.replies \in 0..2
    /\ client.fin \in BOOLEAN /\ peer.fin \in BOOLEAN
    /\ up \in Seq(Frame) /\ upSent \in Nat
    /\ dn \in Seq(Frame) /\ Ordered(dn) /\ Framed(dn, 0)
    /\ dnSent \in Nat /\ dnSent <= WireEnd(dn)
    /\ life # "closed" =>
          /\ cause = "none" /\ upSent <= WireEnd(up)
          /\ up # <<>> => client.replies = 2 /\ AppEnd(up) <= client.sent
          /\ client.got <= AppEnd(dn)
    /\ OrderlyClose
    /\ cause = "peerEof" => peer.fin

LEMMA LocalKnows == IInv /\ EndInv => LocalView
<1> SUFFICES ASSUME IInv, EndInv PROVE LocalView
  OBVIOUS
<1>1. /\ life \in {"none", "open", "closed"}
      /\ client.sent \in Nat /\ client.got \in Nat /\ client.replies \in 0..2
      /\ client.fin \in BOOLEAN /\ peer.fin \in BOOLEAN
      /\ up \in Seq(Frame) /\ upSent \in Nat
      /\ dn \in Seq(Frame) /\ Ordered(dn) /\ Framed(dn, 0)
      /\ dnSent \in Nat /\ dnSent <= WireEnd(dn)
      /\ life # "closed" => cause = "none"
      /\ OrderlyClose
      /\ cause = "peerEof" => peer.fin
  BY DEF IInv, TypeOK, DownSide, EndInv, FrameSide, EndSide, ClosedForCause
<1>2. ASSUME life # "closed"
      PROVE  /\ upSent <= WireEnd(up)
             /\ up # <<>> => client.replies = 2 /\ AppEnd(up) <= client.sent
  <2>1. /\ NextOut(rwrite) = upSent /\ NextIn(rwrite) = WireEnd(up)
        /\ NextOut(rwrite) <= NextIn(rwrite)
    BY <1>2, IOOffsets DEF IInv, TypeOK, UpSide
  <2>2. ASSUME up # <<>> PROVE client.replies = 2 /\ AppEnd(up) <= client.sent
    <3>1. stage = "Connect"
      BY <1>2, <2>2 DEF IInv, UpSide
    <3>2. AppEnd(up) = NextOut(lread) /\ NextIn(lread) <= client.sent
      BY <1>2, <3>1 DEF IInv, UpSide
    <3>3. /\ NextOut(lread) <= NextIn(lread)
          /\ NextOut(lread) \in Nat /\ NextIn(lread) \in Nat
      BY IOOffsets DEF IInv, TypeOK
    <3> QED
      BY <1>1, <3>1, <3>2, <3>3 DEF IInv, HandSide
  <2> QED
    BY <2>1, <2>2
<1>3. ASSUME life # "closed"
      PROVE  client.got <= AppEnd(dn)
  <2>1. /\ NextOut(lwrite) = client.got
        /\ Boundary(dn, 0, NextOut(rread), NextIn(lwrite))
        /\ NextOut(lwrite) <= NextIn(lwrite)
        /\ NextOut(lwrite) \in Nat /\ NextIn(lwrite) \in Nat
    BY <1>3, IOOffsets DEF IInv, TypeOK, DownSide
  <2>2. PICK d \in 0..Len(dn) : AEnd(dn, d) = NextIn(lwrite)
    BY <2>1 DEF Boundary
  <2>3. /\ Len(dn) \in 0..Len(dn) /\ d <= Len(dn) /\ d \in Nat /\ Len(dn) \in Nat
        /\ AEnd(dn, d) \in Nat /\ AEnd(dn, Len(dn)) \in Nat
    BY <1>1, <2>2, EndsAreNaturals
  <2>4. AEnd(dn, d) <= AEnd(dn, Len(dn))
    BY <1>1, <2>3, EndsGrow
  <2> QED
    BY <2>1, <2>2, <2>3, <2>4 DEF AppEnd
<1> QED
  BY <1>1, <1>2, <1>3 DEF LocalView

LEMMA Views == TunnelInv => LocalView /\ ServerView
BY LocalKnows, ServerKnows DEF TunnelInv

\* What either half encodes continues the stream, in order and in frames
\* that fit.
LEMMA MoreFrames ==
    ASSUME NEW s \in Seq(Frame), NEW t, NEW m \in Nat, Ordered(s), Framed(s, m),
           t = s \/ \E n \in Nat \ {0} : \E c \in Cuts(n) : t = Encode(s, c)
    PROVE  /\ t \in Seq(Frame) /\ Ordered(t) /\ Framed(t, m) /\ Continues(t, s)
           /\ WireEnd(s) <= WireEnd(t)
           /\ s # <<>> => t # <<>> /\ t[1] = s[1]
<1>1. t \in Seq(Frame) /\ Ordered(t) /\ Framed(t, m) /\ Continues(t, s)
  <2>1. CASE t = s
    <3>1. Len(s) \in Nat
      BY EndsAreNaturals
    <3> QED
      BY <2>1, <3>1 DEF Continues
  <2>2. CASE \E n \in Nat \ {0} : \E c \in Cuts(n) : t = Encode(s, c)
    BY <2>2, EncodeProperties, EncodeContinues
  <2> QED
    BY <2>1, <2>2
<1>2. WireEnd(s) <= WireEnd(t)
  BY <1>1, ContinuedEnd
<1>3. s # <<>> => t # <<>> /\ t[1] = s[1]
  BY <1>1, ContinuedFirst
<1> QED
  BY <1>1, <1>2, <1>3

LEMMA UpGrows ==
    ASSUME up \in Seq(Frame), Ordered(up), Framed(up, 1),
           up # <<>> => up[1].w = HdrLen + AuthLen,
           up' = up \/ EncodesFirst \/ EncodesMore
    PROVE  /\ up' \in Seq(Frame) /\ Ordered(up') /\ Framed(up', 1) /\ Continues(up', up)
           /\ WireEnd(up) <= WireEnd(up')
           /\ up' # <<>> => up'[1].w = HdrLen + AuthLen
           /\ up # <<>> => up' # <<>> /\ up'[1] = up[1]
<1>1. CASE EncodesFirst
  <2>1. PICK from \in Nat : up' = <<[w |-> HdrLen + AuthLen, a |-> from, kind |-> "auth"]>>
    BY <1>1 DEF EncodesFirst
  <2> DEFINE f == [w |-> HdrLen + AuthLen, a |-> from, kind |-> "auth"]
  <2>2. up' = <<f>> /\ f \in Frame /\ f.w > 0 /\ f.w = HdrLen + AuthLen
    BY <2>1, ConstantTypes DEF Frame, Kinds
  <2>3. f.w \in Nat
    BY <2>2, ConstantTypes
  <2> HIDE DEF f
  <2>4. /\ <<f>> \in Seq(Frame) /\ <<f>>[1] = f /\ WireEnd(<<f>>) = f.w
        /\ Ordered(<<f>>) /\ Framed(<<f>>, 1) /\ Continues(<<f>>, <<>>)
    BY <2>2, FirstFrame
  <2>5. up = <<>> /\ WireEnd(up) = 0
    BY <1>1, NoFrames DEF EncodesFirst
  <2> QED
    BY <2>2, <2>3, <2>4, <2>5
<1>2. CASE up' = up \/ EncodesMore
  <2>1. up' = up \/ \E n \in Nat \ {0} : \E c \in Cuts(n) : up' = Encode(up, c)
    BY <1>2 DEF EncodesMore
  <2>2. /\ up' \in Seq(Frame) /\ Ordered(up') /\ Framed(up', 1) /\ Continues(up', up)
        /\ WireEnd(up) <= WireEnd(up')
        /\ up # <<>> => up' # <<>> /\ up'[1] = up[1]
    BY <2>1, MoreFrames
  <2> QED
    BY <1>2, <2>2 DEF EncodesMore
<1> QED
  BY <1>1, <1>2

-----------------------------------------------------------------------------
(***************************************************************************)
(* A callback of the local half: the server's half sees at most new frames *)
(* behind those it knows.                                                  *)
(***************************************************************************)
LEMMA LocalCallbackKeeps ==
    ASSUME TunnelInv, Callback, LocalCallback
    PROVE  TunnelInv'
<1>1. /\ life # "closed" /\ UNCHANGED <<dn, dnSent>>
      /\ client'.sent = client.sent /\ peer'.fin = peer.fin
      /\ Ending \/ GoingOn
  BY CallbackSteps DEF TunnelInv, CallbackStep, downstream
<1>2. IInv' /\ EndInv'
  BY StepPreserves, EndStepPreserves DEF TunnelInv, Callback, Next
<1>3. /\ UNCHANGED <<sLife, sCause, sStage, sRstage, sWatch, sAuthTimer, sTimer,
                     sLread, sLwrite, sRread, sRwrite, sClient, target, upCame, dnGiven>>
      /\ wire' \in IF life' = "closed" /\ peer.conn = "up"
                   THEN {[wire EXCEPT !.up = end] : end \in Ends(NextIn(rread) < dnSent)}
                   ELSE {wire}
  BY DEF LocalCallback, serverOwn
<1>4. LocalView /\ ServerView /\ WireLink /\ EndLink
  BY Views DEF TunnelInv
<1>5. up' = up \/ EncodesFirst \/ EncodesMore
  BY <1>1 DEF Ending, GoingOn, upstream
<1>6. /\ up' \in Seq(Frame) /\ Ordered(up') /\ Framed(up', 1) /\ Continues(up', up)
      /\ WireEnd(up) <= WireEnd(up')
      /\ up' # <<>> => up'[1].w = HdrLen + AuthLen
  BY <1>4, <1>5, UpGrows DEF ServerView
<1>7. upCame <= WireEnd(up') /\ upCame \in Nat
  <2>1. upCame \in Nat /\ upCame <= WireEnd(up) /\ WireEnd(up) \in Nat /\ WireEnd(up') \in Nat
    BY <1>4, <1>6, EndsAreNaturals DEF ServerView
  <2> QED
    BY <1>6, <2>1
<1>8. SP!IInv'
  <2>1. upCame <= upCame
    BY <1>7
  <2> QED
    BY <1>3, <1>1, <1>6, <1>7, <2>1, ServerSeesClient, ServerFollows DEF TunnelInv
<1>9. LocalView'
  BY <1>2, LocalKnows, PTL
<1>10. WireLink'
  <2>1. upCame <= upSent' /\ upSent' <= WireEnd(up')
    <3>1. CASE Ending
      BY <1>4, <3>1 DEF Ending, upstream, WireLink
    <3>2. CASE GoingOn
      <4>1. upSent' \in Nat /\ upSent <= upSent' /\ upSent' <= WireEnd(up')
        BY <1>9, <3>2 DEF GoingOn, LocalView
      <4>2. upSent \in Nat /\ upCame \in Nat /\ upCame <= upSent
        BY <1>4 DEF LocalView, ServerView, WireLink
      <4> QED
        BY <4>1, <4>2
    <3> QED
      BY <1>1, <3>1, <3>2
  <2>2. up' # <<>> => client'.replies = 2 /\ AppEnd(up') <= client'.sent
    <3>1. CASE Ending
      BY <1>4, <3>1 DEF Ending, upstream, WireLink
    <3>2. CASE GoingOn
      BY <1>9, <3>2 DEF GoingOn, LocalView
    <3> QED
      BY <1>1, <3>1, <3>2
  <2> QED
    BY <1>1, <1>3, <1>4, <2>1, <2>2 DEF WireLink
<1>11. EndLink'
  <2>1. wire.up = "none" /\ ~sClient.fin
    BY <1>1, <1>4 DEF EndLink
  <2>2. /\ wire' \in [up: {"none", "fin", "rst"}, dn: {"none", "fin", "rst"}]
        /\ wire'.up # "none" => life' = "closed"
        /\ wire'.dn = wire.dn
    BY <1>3, <1>4, <2>1 DEF EndLink, Ends
  <2> QED
    BY <1>1, <1>3, <1>4, <2>1, <2>2 DEF EndLink
<1> QED
  BY <1>2, <1>8, <1>10, <1>11 DEF TunnelInv

(***************************************************************************)
(* A callback of the server half: the local half sees at most new frames   *)
(* behind those it knows.                                                  *)
(***************************************************************************)
LEMMA ServerCallbackKeeps ==
    ASSUME TunnelInv, ServerCallbacks, ServerCallback
    PROVE  TunnelInv'
<1>1. /\ sLife # "closed" /\ UNCHANGED <<sClient, up, upCame>>
      /\ target'.sent = target.sent
      /\ ServerEnding \/ ServerGoingOn
  BY ServerMoves DEF TunnelInv
<1>2. SP!IInv'
  BY ServerStep DEF TunnelInv
<1>3. /\ UNCHANGED <<life, cause, stage, rstage, watch, timer, lread, lwrite, rread, rwrite,
                     client, peer, upSent, dnSent>>
      /\ wire' \in IF sLife' = "closed"
                   THEN {[wire EXCEPT !.dn = end] : end \in Ends(NextIn(sLread) < upCame)}
                   ELSE {wire}
  BY DEF ServerCallback, localOwn, ctl, bufs
<1>4. LocalView /\ ServerView /\ WireLink /\ EndLink
  BY Views DEF TunnelInv
<1>5. dn' = dn \/ \E n \in Nat \ {0} : \E c \in Cuts(n) : dn' = Encode(dn, c)
  BY <1>1 DEF ServerEnding, ServerGoingOn
<1>6. /\ dn' \in Seq(Frame) /\ Ordered(dn') /\ Framed(dn', 0) /\ Continues(dn', dn)
      /\ WireEnd(dn) <= WireEnd(dn')
  BY <1>4, <1>5, MoreFrames DEF LocalView
<1>7. dnSent \in Nat /\ dnSent <= dnSent /\ dnSent <= WireEnd(dn')
  <2>1. dnSent \in Nat /\ dnSent <= WireEnd(dn) /\ WireEnd(dn) \in Nat /\ WireEnd(dn') \in Nat
    BY <1>4, <1>6, EndsAreNaturals DEF LocalView
  <2> QED
    BY <1>6, <2>1
<1>8. PeerGoesOn
  BY <1>1, <1>3, <1>6, <1>7 DEF PeerGoesOn, ctl, bufs, upstream
<1>9. IInv' /\ EndInv'
  BY <1>6, <1>8, PeerGoesOnKeeps, PeerGoesOnKeepsEnd DEF TunnelInv
<1>10. ServerView'
  BY <1>2, ServerKnows, PTL
<1>11. WireLink'
  <2>1. dnSent <= dnGiven' /\ dnGiven' <= WireEnd(dn') /\ AppEnd(dn') <= target'.sent
    <3>1. CASE ServerEnding
      BY <1>4, <3>1 DEF ServerEnding, WireLink
    <3>2. CASE ServerGoingOn
      <4>1. dnGiven' \in Nat /\ dnGiven <= dnGiven' /\ dnGiven' <= WireEnd(dn')
            /\ AppEnd(dn') <= target'.sent
        BY <1>10, <3>2 DEF ServerGoingOn, ServerView
      <4>2. dnGiven \in Nat /\ dnSent \in Nat /\ dnSent <= dnGiven
        BY <1>4 DEF LocalView, ServerView, WireLink
      <4> QED
        BY <4>1, <4>2
    <3> QED
      BY <1>1, <3>1, <3>2
  <2> QED
    BY <1>1, <1>3, <1>4, <2>1 DEF WireLink
<1>12. EndLink'
  <2>1. wire.dn = "none" /\ ~peer.fin
    BY <1>1, <1>4 DEF EndLink
  <2>2. /\ wire' \in [up: {"none", "fin", "rst"}, dn: {"none", "fin", "rst"}]
        /\ wire'.dn # "none" => sLife' = "closed"
        /\ wire'.up = wire.up
    BY <1>3, <1>4, <2>1 DEF EndLink, Ends
  <2>3. sCause' = "clientEof" => sClient.fin
    BY <1>1, <1>4 DEF ServerEnding, ServerGoingOn, ServerView
  <2> QED
    BY <1>1, <1>3, <1>4, <2>1, <2>2, <2>3 DEF EndLink
<1> QED
  BY <1>2, <1>9, <1>11, <1>12 DEF TunnelInv

\* A half whose variables do not change keeps its invariant.
LEMMA LocalStays ==
    ASSUME TunnelInv, UNCHANGED <<localOwn, up, dn>>
    PROVE  IInv' /\ EndInv'
<1>1. UNCHANGED vars
  BY DEF localOwn, vars, upstream, downstream
<1> QED
  BY <1>1, StepPreserves, EndStepPreserves DEF TunnelInv

LEMMA ServerStays ==
    ASSUME TunnelInv, UNCHANGED <<sLife, sCause, sStage, sRstage, sWatch, sAuthTimer, sTimer,
                                  sLread, sLwrite, sRread, sRwrite, sClient, target,
                                  dn, dnGiven, up>>,
           upCame' \in Nat, upCame <= upCame', upCame' <= WireEnd(up),
           sLife = "closed" => upCame' = upCame
    PROVE  SP!ClientGoesOn /\ SP!IInv'
<1>1. /\ up \in Seq(Frame) /\ Ordered(up) /\ Framed(up, 1)
      /\ up # <<>> => up[1].w = HdrLen + AuthLen
  BY Views DEF ServerView
<1>2. Len(up) \in Nat
  BY <1>1, EndsAreNaturals
<1>3. Continues(up, up)
  BY <1>2 DEF Continues
<1> QED
  BY <1>1, <1>3, ServerSeesClient, ServerFollows DEF TunnelInv

LEMMA UpArrivesKeeps ==
    ASSUME TunnelInv, UpArrives
    PROVE  TunnelInv'
<1>1. LocalView /\ ServerView /\ WireLink /\ EndLink
  BY Views DEF TunnelInv
<1>2. /\ upSent \in Nat /\ upCame \in Nat /\ WireEnd(up) \in Nat
      /\ upSent <= WireEnd(up)
  BY <1>1, EndsAreNaturals DEF LocalView, ServerView, WireLink
<1>3. /\ sLife = "open" /\ upCame' \in Nat /\ upCame < upCame' /\ upCame' <= upSent
      /\ UNCHANGED <<localOwn, up, dn, wire>>
      /\ UNCHANGED <<sLife, sCause, sStage, sRstage, sWatch, sAuthTimer, sTimer, sLread, sLwrite,
                     sRread, sRwrite, sClient, target, dnGiven>>
  BY <1>2 DEF UpArrives
<1>4. upCame <= upCame' /\ upCame' <= WireEnd(up)
  BY <1>2, <1>3
<1>5. IInv' /\ EndInv'
  BY <1>3, LocalStays
<1>6. SP!IInv'
  BY <1>3, <1>4, ServerStays
<1>7. WireLink'
  BY <1>1, <1>3 DEF WireLink, localOwn
<1>8. ~sClient.fin
  BY <1>1, <1>2, <1>3 DEF EndLink
<1>9. EndLink'
  BY <1>1, <1>3, <1>8 DEF EndLink, localOwn, ctl
<1> QED
  BY <1>5, <1>6, <1>7, <1>9 DEF TunnelInv

LEMMA DownArrivesKeeps ==
    ASSUME TunnelInv, DownArrives
    PROVE  TunnelInv'
<1>1. LocalView /\ ServerView /\ WireLink /\ EndLink
  BY Views DEF TunnelInv
<1>2. /\ dnSent \in Nat /\ dnGiven \in Nat /\ WireEnd(dn) \in Nat /\ Len(dn) \in Nat
      /\ dnGiven <= WireEnd(dn) /\ dn \in Seq(Frame) /\ Ordered(dn) /\ Framed(dn, 0)
  BY <1>1, EndsAreNaturals DEF LocalView, ServerView, WireLink
<1>3. /\ life = "open" /\ dnSent' \in Nat /\ dnSent < dnSent' /\ dnSent' <= dnGiven
      /\ UNCHANGED <<ctl, bufs, client, peer, upSent, serverOwn, up, dn, wire>>
  BY <1>2 DEF DownArrives
<1>4. PeerGoesOn
  <2>1. dnSent <= dnSent' /\ dnSent' <= WireEnd(dn)
    BY <1>2, <1>3
  <2>2. Continues(dn, dn)
    BY <1>2 DEF Continues
  <2> QED
    BY <1>2, <1>3, <2>1, <2>2 DEF PeerGoesOn, upstream
<1>5. IInv' /\ EndInv'
  BY <1>2, <1>3, <1>4, PeerGoesOnKeeps, PeerGoesOnKeepsEnd DEF TunnelInv
<1>6. SP!IInv'
  <2>1. upCame \in Nat /\ upCame <= upCame /\ upCame <= WireEnd(up)
    BY <1>1 DEF ServerView
  <2> QED
    BY <1>3, <2>1, ServerStays DEF serverOwn
<1>7. WireLink'
  BY <1>1, <1>3 DEF WireLink, serverOwn
<1>8. ~peer.fin
  BY <1>1, <1>2, <1>3 DEF EndLink
<1>9. EndLink'
  BY <1>1, <1>3, <1>8 DEF EndLink, serverOwn, ctl
<1> QED
  BY <1>5, <1>6, <1>7, <1>9 DEF TunnelInv

\* What happens to the local half and its client, or to the server half and
\* its target, without a callback.
LEMMA LocalEventKeeps ==
    ASSUME TunnelInv, LocalSide \/ DownEnds
    PROVE  TunnelInv'
<1>1. LocalView /\ ServerView /\ WireLink /\ EndLink
  BY Views DEF TunnelInv
<1>2. UNCHANGED <<serverOwn, wire>> /\ Environment
  BY DEF LocalSide, DownEnds, Environment
<1>3. UNCHANGED <<ctl, bufs, up, upSent, dn, dnSent>>
  BY DEF LocalSide, DownEnds, ClientSends, ClientCloses, ClientResets, ConnectEnds,
         PeerCloses, PeerResets, upstream, downstream
<1>4. IInv' /\ EndInv'
  BY <1>2, StepPreserves, EndStepPreserves DEF TunnelInv, Next
<1>5. SP!IInv'
  <2>1. upCame \in Nat /\ upCame <= upCame /\ upCame <= WireEnd(up)
    BY <1>1 DEF ServerView
  <2> QED
    BY <1>2, <1>3, <2>1, ServerStays DEF serverOwn
<1>6. client'.replies = client.replies /\ client.sent <= client'.sent /\ client'.sent \in Nat
  <2>1. client \in [sent: Nat, replies: 0..2, got: Nat, early: BOOLEAN,
                    fin: BOOLEAN, rst: BOOLEAN]
    BY DEF TunnelInv, IInv, TypeOK
  <2>2. CASE \E n \in 1..(HandshakeLen + MaxUp) : ClientSends(n)
    <3>1. PICK n \in 1..(HandshakeLen + MaxUp) : ClientSends(n)
      BY <2>2
    <3>2. n \in Nat
      BY <3>1, ConstantTypes
    <3>3. client'.replies = client.replies /\ client'.sent = client.sent + n
      BY <2>1, <3>1 DEF ClientSends
    <3> QED
      BY <2>1, <3>2, <3>3
  <2>3. CASE ~\E n \in 1..(HandshakeLen + MaxUp) : ClientSends(n)
    BY <2>1, <2>3 DEF LocalSide, DownEnds, ClientCloses, ClientResets, ConnectEnds,
                      PeerCloses, PeerResets
  <2> QED
    BY <2>2, <2>3
<1>7. WireLink'
  <2>1. up # <<>> => AppEnd(up) <= client'.sent
    <3>1. AppEnd(up) \in Nat /\ client.sent \in Nat
      BY <1>1, EndsAreNaturals DEF LocalView
    <3> QED
      BY <1>1, <1>6, <3>1 DEF WireLink
  <2> QED
    BY <1>1, <1>2, <1>3, <1>6, <2>1 DEF WireLink, serverOwn
<1>8. peer'.fin => peer.fin \/ (wire.dn # "none" /\ dnSent = dnGiven)
  <2>1. peer \in [conn: {"none", "pending", "up", "refused"}, fin: BOOLEAN, rst: BOOLEAN]
    BY DEF TunnelInv, IInv, TypeOK
  <2> QED
    BY <2>1 DEF LocalSide, DownEnds, ClientSends, ClientCloses, ClientResets, ConnectEnds,
                PeerCloses, PeerResets
<1>9. EndLink'
  BY <1>1, <1>2, <1>3, <1>8 DEF EndLink, serverOwn, ctl
<1> QED
  BY <1>4, <1>5, <1>7, <1>9 DEF TunnelInv

LEMMA ServerEventKeeps ==
    ASSUME TunnelInv, TargetSide \/ UpEnds
    PROVE  TunnelInv'
<1>1. LocalView /\ ServerView /\ WireLink /\ EndLink
  BY Views DEF TunnelInv
<1>2. UNCHANGED <<localOwn, wire>> /\ ServerEvents
  BY DEF TargetSide, UpEnds, ServerEvents
<1>3. UNCHANGED <<sLife, sCause, sStage, sRstage, sWatch, sAuthTimer, sTimer,
                  sLread, sLwrite, sRread, sRwrite, up, upCame, dn, dnGiven>>
  BY <1>2 DEF ServerEvents, S!ClientCloses, S!ClientResets, S!ConnectEnds, S!TargetSends,
              S!TargetCloses, S!TargetResets, S!ctl, S!bufs, S!upstream, S!downstream
<1>4. IInv' /\ EndInv'
  BY <1>2, <1>3, LocalStays
<1>5. SP!IInv'
  BY <1>2, ServerStep DEF TunnelInv
<1>6. target.sent <= target'.sent /\ target'.sent \in Nat
  <2>1. /\ target \in [conn: {"none", "pending", "up", "refused"}, sent: Nat, got: Nat,
                       fin: BOOLEAN, rst: BOOLEAN]
        /\ target.sent \in Nat /\ MaxDown \in Nat
    BY LocalAssumption DEF TunnelInv, SP!IInv, SP!TypeOK
  <2>2. CASE \E n \in 1..MaxDown : S!TargetSends(n)
    <3>1. PICK n \in 1..MaxDown : S!TargetSends(n)
      BY <2>2
    <3>2. n \in Nat
      BY <2>1, <3>1
    <3>3. target'.sent = target.sent + n
      BY <2>1, <3>1 DEF S!TargetSends
    <3> QED
      BY <2>1, <3>2, <3>3
  <2>3. CASE ~\E n \in 1..MaxDown : S!TargetSends(n)
    BY <2>1, <2>3 DEF TargetSide, UpEnds, S!ClientCloses, S!ClientResets, S!ConnectEnds,
                      S!TargetCloses, S!TargetResets
  <2> QED
    BY <2>2, <2>3
<1>7. WireLink'
  <2>1. AppEnd(dn) <= target'.sent
    <3>1. AppEnd(dn) \in Nat /\ target.sent \in Nat
      BY <1>1, EndsAreNaturals DEF LocalView, ServerView
    <3> QED
      BY <1>1, <1>6, <3>1 DEF WireLink
  <2> QED
    BY <1>1, <1>2, <1>3, <2>1 DEF WireLink, localOwn
<1>8. /\ sClient'.fin => sClient.fin \/ (wire.up # "none" /\ upCame = upSent)
      /\ sClient.fin => sClient'.fin
  <2>1. sClient \in [fin: BOOLEAN, rst: BOOLEAN]
    BY DEF TunnelInv, SP!IInv, SP!TypeOK
  <2> QED
    BY <2>1 DEF TargetSide, UpEnds, S!ClientCloses, S!ClientResets, S!ConnectEnds,
                S!TargetSends, S!TargetCloses, S!TargetResets
<1>9. EndLink'
  BY <1>1, <1>2, <1>3, <1>8 DEF EndLink, localOwn, ctl
<1> QED
  BY <1>4, <1>5, <1>7, <1>9 DEF TunnelInv

\* A fin that becomes a rst, and a step that changes nothing.
LEMMA RefusalKeeps ==
    ASSUME TunnelInv, UpRefused \/ DownRefused \/ UNCHANGED tunnelVars
    PROVE  TunnelInv'
<1>1. LocalView /\ ServerView /\ WireLink /\ EndLink
  BY Views DEF TunnelInv
<1>2. /\ UNCHANGED <<localOwn, serverOwn, up, dn>>
      /\ \/ wire' = wire
         \/ wire.dn # "none" /\ wire' = [wire EXCEPT !.dn = "rst"]
         \/ wire.up # "none" /\ wire' = [wire EXCEPT !.up = "rst"]
  BY DEF UpRefused, DownRefused, tunnelVars
<1>3. IInv' /\ EndInv'
  BY <1>2, LocalStays
<1>4. SP!IInv'
  <2>1. upCame \in Nat /\ upCame <= upCame /\ upCame <= WireEnd(up)
    BY <1>1 DEF ServerView
  <2> QED
    BY <1>2, <2>1, ServerStays DEF serverOwn
<1>5. WireLink'
  BY <1>1, <1>2 DEF WireLink, localOwn, serverOwn
<1>6. EndLink'
  BY <1>1, <1>2 DEF EndLink, localOwn, serverOwn, ctl
<1> QED
  BY <1>3, <1>4, <1>5, <1>6 DEF TunnelInv

\* The steps of Tunnel, by who takes them.
LEMMA WhoSteps ==
    ASSUME [TunnelNext]_tunnelVars
    PROVE  \/ Callback /\ LocalCallback
           \/ ServerCallbacks /\ ServerCallback
           \/ UpArrives \/ DownArrives
           \/ LocalSide \/ DownEnds
           \/ TargetSide \/ UpEnds
           \/ UpRefused \/ DownRefused \/ UNCHANGED tunnelVars
BY Zenon DEF TunnelNext, Network, Callback, ServerCallbacks,
      LocalAccepts, LocalReads, LocalWritesRemote, LocalTimesOut,
      LocalReadsRemote, LocalWrites, LocalWritesNothing,
      ServerAccepts, ServerReads, ServerAuthTimesOut, ServerWritesRemote,
      ServerTimesOut, ServerReadsRemote, ServerWrites

LEMMA TunnelStepPreserves == TunnelInv /\ [TunnelNext]_tunnelVars => TunnelInv'
BY WhoSteps, LocalCallbackKeeps, ServerCallbackKeeps, UpArrivesKeeps, DownArrivesKeeps,
   LocalEventKeeps, ServerEventKeeps, RefusalKeeps, Zenon

LEMMA TunnelInvariance == TunnelSpec => []TunnelInv
BY TunnelInitEstablishes, TunnelStepPreserves, PTL DEF TunnelSpec

-----------------------------------------------------------------------------
(***************************************************************************)
(* The pipe from client to target.                                         *)
(***************************************************************************)
UpStep == [Up!Send \/ Up!Deliver \/ Up!Break \/ Up!Finish \/ Up!Cut]_(Up!pipeVars)

\* The whole of a stream is complete when all its bytes are there.
LEMMA AllComplete ==
    ASSUME NEW s \in Seq(Frame)
    PROVE  AEnd(s, LastComplete(s, WireEnd(s))) = AppEnd(s)
<1> DEFINE k == LastComplete(s, WireEnd(s))
<1>1. WireEnd(s) \in Nat /\ Len(s) \in Nat
  BY EndsAreNaturals
<1>2. k \in 0..Len(s) /\ \A j \in k+1..Len(s) : s[j].w > WireEnd(s)
  BY <1>1, LastCompleteProperties
<1> HIDE DEF k
<1>3. ASSUME k # Len(s) PROVE FALSE
  <2>1. Len(s) \in k+1..Len(s) /\ Len(s) # 0
    BY <1>1, <1>2, <1>3
  <2>2. s[Len(s)].w > WireEnd(s) /\ WireEnd(s) = s[Len(s)].w
    BY <1>2, <2>1 DEF WireEnd, WEnd
  <2> QED
    BY <1>1, <2>2
<1> QED
  BY <1>3 DEF k, AppEnd

\* The pipe begins where the request ends, before what was encoded, which is
\* before what the client sent.
UpBegins ==
    /\ UpIn \in Nat
    /\ up # <<>> => /\ up[1].a \in Nat /\ AppEnd(up) \in Nat
                    /\ up[1].a <= AppEnd(up) /\ AppEnd(up) <= client.sent

LEMMA UpHasBegun == TunnelInv => UpBegins
<1> SUFFICES ASSUME TunnelInv PROVE UpBegins
  OBVIOUS
<1>1. /\ client.sent \in Nat /\ up \in Seq(Frame) /\ Ordered(up)
      /\ up # <<>> => AppEnd(up) <= client.sent
  BY Views DEF LocalView, ServerView, TunnelInv, WireLink
<1>2. ASSUME up # <<>>
      PROVE  up[1].a \in Nat /\ AppEnd(up) \in Nat /\ up[1].a <= AppEnd(up)
  <2>1. Len(up) \in Nat \ {0}
    BY <1>1, <1>2, EmptySeq, LenProperties
  <2>2. /\ 1 \in 0..Len(up) /\ Len(up) \in 0..Len(up)
        /\ AEnd(up, 1) = up[1].a /\ AEnd(up, Len(up)) = AppEnd(up)
    BY <2>1 DEF AEnd, AppEnd
  <2>3. AEnd(up, 1) \in Nat /\ AEnd(up, Len(up)) \in Nat
    BY <1>1, <2>2, EndsAreNaturals
  <2>4. 1 < Len(up) => AEnd(up, 1) <= AEnd(up, Len(up))
    BY <1>1, <2>2, EndsGrow
  <2> QED
    BY <2>1, <2>2, <2>3, <2>4
<1>3. UpIn \in Nat
  BY <1>1, <1>2 DEF UpIn
<1> QED
  BY <1>1, <1>2, <1>3 DEF UpBegins

\* A callback of the local half encodes the request, by which all that the
\* client sent early is put in, reads and writes, or closes.
LEMMA LocalCallbackUp ==
    ASSUME TunnelInv, TunnelInv', Callback, LocalCallback
    PROVE  UpStep
<1>1. /\ life # "closed" /\ client'.sent = client.sent
      /\ Ending \/ GoingOn
  BY CallbackSteps DEF TunnelInv, CallbackStep
<1>2. /\ UNCHANGED <<sLife, sCause, sClient, target>>
      /\ wire' \in IF life' = "closed" /\ peer.conn = "up"
                   THEN {[wire EXCEPT !.up = end] : end \in Ends(NextIn(rread) < dnSent)}
                   ELSE {wire}
  BY DEF LocalCallback, serverOwn
<1>3. cause = "none" /\ ~sClient.fin /\ sCause # "clientEof"
  BY <1>1, Views DEF TunnelInv, EndLink, LocalView
<1>4. UpIn' \in Nat /\ UpIn \in Nat
  <2>1. UpBegins /\ UpBegins'
    BY UpHasBegun, PTL
  <2> QED
    BY <2>1 DEF UpBegins
<1>5. CASE Ending
  <2>1. UpIn' = UpIn /\ target'.got = target.got
    BY <1>2, <1>5 DEF Ending, upstream, UpIn
  <2>2. UpState' = UpState \/ (UpState = "whole" /\ UpState' = "broken")
    BY <1>1, <1>2, <1>3, <1>5 DEF Ending, UpState
  <2> QED
    BY <2>1, <2>2 DEF UpStep, Up!Break, Up!pipeVars
<1>6. CASE GoingOn
  <2>1. target'.got = target.got /\ UpState' = UpState /\ UpState # "finished"
    BY <1>1, <1>2, <1>3, <1>6 DEF GoingOn, UpState
  <2>2. UpIn' = UpIn \/ UpIn' > UpIn
    <3>1. CASE up = <<>>
      BY <1>4, <3>1 DEF UpIn
    <3>2. CASE up # <<>>
      <4>1. up' # <<>> /\ up'[1] = up[1]
        <5>1. /\ up \in Seq(Frame) /\ Ordered(up) /\ Framed(up, 1)
              /\ up # <<>> => up[1].w = HdrLen + AuthLen
          BY Views DEF ServerView
        <5> QED
          BY <1>6, <3>2, <5>1, UpGrows DEF GoingOn
      <4> QED
        BY <1>1, <3>2, <4>1 DEF UpIn
    <3> QED
      BY <3>1, <3>2
  <2> QED
    BY <1>4, <2>1, <2>2 DEF UpStep, Up!Send, Up!pipeVars
<1> QED
  BY <1>1, <1>5, <1>6

\* A callback of the server half delivers, or closes: then all has come out,
\* or the pipe is cut.
LEMMA UpIsComplete ==
    ASSUME TunnelInv, TunnelInv', ServerCallback, ServerEnding, sLife # "closed",
           UNCHANGED <<up, upCame>>, cause = "clientEof", sCause' = "clientEof"
    PROVE  target.got = UpIn
<1>1. /\ sClient.fin /\ target' = target
      /\ target.conn = "none" /\ up # <<>> => upCame < WireEnd(up)
  BY DEF ServerEnding
<1>2. LocalView /\ ServerView /\ ServerView' /\ UpBegins
  BY Views, UpHasBegun, PTL
<1>3. CASE up = <<>>
  <2>1. target.conn = "none" /\ target.got = 0
    BY <1>2, <1>3 DEF ServerView
  <2> QED
    BY <1>3, <2>1 DEF UpIn
<1>4. CASE up # <<>>
  <2>1. upSent = WireEnd(up) /\ AppEnd(up) = client.sent
    BY <1>2, <1>4 DEF LocalView, OrderlyClose, TunnelInv, WireLink
  <2>2. upCame = WireEnd(up)
    BY <1>1, <2>1 DEF TunnelInv, EndLink
  <2>3. WireEnd(up) \in Nat /\ target.got \in Nat /\ up \in Seq(Frame)
    BY <1>2, EndsAreNaturals DEF ServerView
  <2>4. target'.conn # "none"
    BY <1>1, <1>4, <2>2, <2>3
  <2>5. up[1].a + target.got = AEnd(up, LastComplete(up, WireEnd(up)))
    BY <1>1, <1>2, <2>2, <2>4 DEF ServerView
  <2>6. up[1].a + target.got = client.sent
    BY <2>1, <2>3, <2>5, AllComplete
  <2>7. up[1].a \in Nat
    BY <1>2, <1>4 DEF UpBegins
  <2> QED
    BY <1>4, <2>3, <2>6, <2>7 DEF UpIn
<1> QED
  BY <1>3, <1>4

LEMMA ServerCallbackUp ==
    ASSUME TunnelInv, TunnelInv', ServerCallbacks, ServerCallback
    PROVE  UpStep
<1>1. /\ sLife # "closed" /\ UNCHANGED <<sClient, up, upCame>>
      /\ ServerEnding \/ ServerGoingOn
  BY ServerMoves DEF TunnelInv
<1>2. /\ UNCHANGED <<life, cause, client>>
      /\ wire' \in IF sLife' = "closed"
                   THEN {[wire EXCEPT !.dn = end] : end \in Ends(NextIn(sLread) < upCame)}
                   ELSE {wire}
  BY DEF ServerCallback, localOwn, ctl
<1>3. UpIn' = UpIn
  BY <1>1, <1>2 DEF UpIn
<1>4. CASE ServerEnding
  <2>1. target'.got = target.got /\ sLife' = "closed"
    BY <1>4 DEF ServerEnding
  <2>2. CASE cause = "clientEof" /\ sCause' = "clientEof"
    <3>1. target.got = UpIn
      BY <1>1, <1>4, <2>2, UpIsComplete
    <3>2. UpState = "whole" /\ UpState' = "finished"
      BY <1>1, <1>2, <1>4, <2>1, <2>2 DEF ServerEnding, UpState
    <3> QED
      BY <1>3, <2>1, <3>1, <3>2 DEF UpStep, Up!Finish
  <2>3. CASE ~(cause = "clientEof" /\ sCause' = "clientEof")
    <3>1. UpState \in {"whole", "broken"} /\ UpState' = "cut"
      BY <1>1, <1>2, <2>1, <2>3 DEF UpState
    <3> QED
      BY <1>3, <2>1, <3>1 DEF UpStep, Up!Cut, Up!Flowing
  <2> QED
    BY <2>2, <2>3
<1>5. CASE ServerGoingOn
  <2>1. sLife' # "closed" /\ wire' = wire
    BY <1>2, <1>5 DEF ServerGoingOn
  <2>2. UpState' = UpState /\ UpState \in {"whole", "broken"}
    BY <1>1, <1>2, <2>1 DEF UpState
  <2>3. CASE target'.got = target.got
    BY <1>3, <2>2, <2>3 DEF UpStep, Up!pipeVars
  <2>4. CASE target'.got # target.got
    <3>1. sStage' = "Connect" /\ target'.got > target.got
      BY <1>5, <2>4 DEF ServerGoingOn
    <3>2. UpBegins /\ ServerView'
      BY Views, UpHasBegun, PTL
    <3>3. up # <<>> /\ up[1].a + target'.got <= AppEnd(up) /\ target'.got \in Nat
      BY <1>1, <2>1, <3>1, <3>2 DEF ServerView
    <3>4. client.sent \in Nat
      BY Views DEF LocalView
    <3>5. target'.got <= UpIn
      BY <3>2, <3>3, <3>4 DEF UpBegins, UpIn
    <3> QED
      BY <1>3, <2>2, <3>1, <3>3, <3>5 DEF UpStep, Up!Deliver, Up!Flowing
  <2> QED
    BY <2>3, <2>4
<1> QED
  BY <1>1, <1>4, <1>5

\* What happens between callbacks: the client sends, the end of its stream
\* is lost.
LEMMA OtherStepsUp ==
    ASSUME TunnelInv, TunnelInv',
           \/ UpArrives \/ DownArrives
           \/ LocalSide \/ DownEnds
           \/ TargetSide \/ UpEnds
           \/ UpRefused \/ DownRefused \/ UNCHANGED tunnelVars
    PROVE  UpStep
<1>1. UNCHANGED <<life, cause, sLife, sCause, up>> /\ target'.got = target.got
  <2>1. CASE UpArrives \/ UpRefused \/ DownRefused \/ UNCHANGED tunnelVars
    BY <2>1 DEF UpArrives, UpRefused, DownRefused, tunnelVars, localOwn, serverOwn, ctl
  <2>2. CASE DownArrives
    BY <2>2 DEF DownArrives, serverOwn, ctl
  <2>3. CASE LocalSide \/ DownEnds
    BY <2>3 DEF LocalSide, DownEnds, ClientSends, ClientCloses, ClientResets, ConnectEnds,
                PeerCloses, PeerResets, serverOwn, ctl, upstream
  <2>4. CASE TargetSide \/ UpEnds
    <3>1. target \in [conn: {"none", "pending", "up", "refused"}, sent: Nat, got: Nat,
                      fin: BOOLEAN, rst: BOOLEAN]
      BY DEF TunnelInv, SP!IInv, SP!TypeOK
    <3> QED
      BY <2>4, <3>1 DEF TargetSide, UpEnds, S!ClientCloses, S!ClientResets, S!ConnectEnds,
            S!TargetSends, S!TargetCloses, S!TargetResets, S!ctl, S!upstream, localOwn, ctl
  <2> QED
    BY <2>1, <2>2, <2>3, <2>4
<1>2. client'.sent = client.sent \/ (client'.sent > client.sent /\ life = "open")
  <2>1. CASE ~(LocalSide \/ DownEnds)
    BY <2>1 DEF UpArrives, DownArrives, TargetSide, UpEnds, UpRefused, DownRefused,
                tunnelVars, localOwn
  <2>2. CASE LocalSide \/ DownEnds
    <3>1. client \in [sent: Nat, replies: 0..2, got: Nat, early: BOOLEAN,
                      fin: BOOLEAN, rst: BOOLEAN]
      BY DEF TunnelInv, IInv, TypeOK
    <3>2. ASSUME NEW n \in 1..(HandshakeLen + MaxUp), ClientSends(n)
          PROVE  client'.sent > client.sent /\ life = "open"
      <4>1. n \in Nat \ {0}
        BY ConstantTypes
      <4>2. client'.sent = client.sent + n /\ life = "open"
        BY <3>1, <3>2 DEF ClientSends
      <4> QED
        BY <3>1, <4>1, <4>2
    <3> QED
      BY <2>2, <3>1, <3>2 DEF LocalSide, DownEnds, ClientCloses, ClientResets, ConnectEnds,
                              PeerCloses, PeerResets
  <2> QED
    BY <2>1, <2>2
<1>3. /\ UpIn' \in Nat /\ client.sent \in Nat /\ client'.sent \in Nat
      /\ up # <<>> => up[1].a \in Nat
      /\ life # "closed" => cause = "none"
  <2>1. UpBegins /\ UpBegins' /\ LocalView /\ LocalView'
    BY UpHasBegun, Views, PTL
  <2> QED
    BY <2>1 DEF UpBegins, LocalView
<1>4. UpState' = UpState \/ (UpState = "whole" /\ UpState' = "broken" /\ client' = client)
  <2>1. \/ wire'.up = wire.up /\ (sClient'.fin = sClient.fin \/ wire.up = "fin")
        \/ wire.up = "fin" /\ client' = client /\ sClient' = sClient
    <3>1. CASE UpArrives \/ DownArrives \/ UpRefused \/ DownRefused \/ UNCHANGED tunnelVars
      <4>1. wire \in [up: {"none", "fin", "rst"}, dn: {"none", "fin", "rst"}]
        BY DEF TunnelInv, EndLink
      <4> QED
        BY <3>1, <4>1 DEF UpArrives, DownArrives, UpRefused, DownRefused, tunnelVars,
                          localOwn, serverOwn
    <3>2. CASE LocalSide \/ DownEnds
      BY <3>2 DEF LocalSide, DownEnds, serverOwn
    <3>3. CASE TargetSide \/ UpEnds
      <4>1. sClient \in [fin: BOOLEAN, rst: BOOLEAN]
        BY DEF TunnelInv, SP!IInv, SP!TypeOK
      <4> QED
        BY <3>3, <4>1 DEF TargetSide, UpEnds, S!ClientCloses, S!ClientResets, S!ConnectEnds,
              S!TargetSends, S!TargetCloses, S!TargetResets
    <3> QED
      BY <3>1, <3>2, <3>3
  <2> QED
    BY <1>1, <2>1 DEF UpState
<1>5. UpIn' = UpIn \/ (UpIn' > UpIn /\ life = "open")
  BY <1>1, <1>2, <1>3 DEF UpIn
<1>6. CASE UpIn' = UpIn
  BY <1>1, <1>4, <1>6 DEF UpStep, Up!pipeVars, Up!Break
<1>7. CASE UpIn' # UpIn
  <2>1. UpIn' > UpIn /\ life = "open" /\ client' # client
    BY <1>1, <1>5, <1>7 DEF UpIn
  <2>2. UpState' = UpState /\ UpState # "finished"
    BY <1>3, <1>4, <2>1 DEF UpState
  <2> QED
    BY <1>1, <1>3, <2>1, <2>2 DEF UpStep, Up!Send
<1> QED
  BY <1>6, <1>7

LEMMA UpSteps == TunnelInv /\ TunnelInv' /\ [TunnelNext]_tunnelVars => UpStep
BY WhoSteps, LocalCallbackUp, ServerCallbackUp, OtherStepsUp, Zenon

LEMMA UpBeginsEmpty == TunnelInit => Up!PipeInit
BY DEF TunnelInit, Init, S!Init, Up!PipeInit, UpIn, UpState

(***************************************************************************)
(* From client to target, both halves and their connection are a pipe:     *)
(* whatever the cuts, the reads and writes, who closes when and what the   *)
(* network loses, no byte is lost, repeated or made up while it is whole,  *)
(* and it is only said to have finished when all has come out.             *)
(***************************************************************************)
THEOREM UpImplementsPipe == TunnelSpec => UpIsPipe
<1>1. TunnelInv /\ TunnelInv' /\ [TunnelNext]_tunnelVars
         => [Up!Send \/ Up!Deliver \/ Up!Break \/ Up!Finish \/ Up!Cut]_(Up!pipeVars)
  BY UpSteps DEF UpStep
<1> QED
  BY <1>1, UpBeginsEmpty, TunnelInvariance, PTL DEF TunnelSpec, UpIsPipe, Up!PipeSpec

-----------------------------------------------------------------------------
(***************************************************************************)
(* The pipe from target to client.                                         *)
(***************************************************************************)
DownStep ==
    [Down!Send \/ Down!Deliver \/ Down!Break \/ Down!Finish \/ Down!Cut]_(Down!pipeVars)

\* When both halves close at the end of the target's stream, all has come out.
LEMMA DownIsComplete ==
    ASSUME TunnelInv, TunnelInv', Ending, UNCHANGED <<dn, dnSent>>,
           cause' = "peerEof", sCause = "targetEof"
    PROVE  client.got = target.sent
<1>1. client' = client /\ peer.fin
  BY DEF Ending
<1>2. LocalView /\ LocalView' /\ ServerView
  BY Views, PTL
<1>3. dnSent = WireEnd(dn) /\ AppEnd(dn) = target.sent
  BY <1>1, <1>2 DEF TunnelInv, EndLink, ServerView
<1>4. client.got = AEnd(dn, LastComplete(dn, dnSent))
  BY <1>1, <1>2 DEF LocalView, OrderlyClose
<1>5. dn \in Seq(Frame)
  BY <1>2 DEF LocalView
<1> QED
  BY <1>3, <1>4, <1>5, AllComplete

\* A callback of the local half delivers, or breaks the pipe with nothing to
\* write, or closes.
LEMMA LocalCallbackDown ==
    ASSUME TunnelInv, TunnelInv', Callback, LocalCallback
    PROVE  DownStep
<1>1. /\ life # "closed" /\ UNCHANGED <<dn, dnSent>> /\ peer'.fin = peer.fin
      /\ Ending \/ GoingOn
  BY CallbackSteps DEF TunnelInv, CallbackStep, downstream
<1>2. /\ UNCHANGED <<sLife, sCause, target>>
      /\ wire' \in IF life' = "closed" /\ peer.conn = "up"
                   THEN {[wire EXCEPT !.up = end] : end \in Ends(NextIn(rread) < dnSent)}
                   ELSE {wire}
  BY DEF LocalCallback, serverOwn
<1>3. /\ Stalled <=> NothingToWrite
      /\ Stalled' <=> NothingToWrite'
  BY DEF Stalled, NothingToWrite
<1>4. CASE Ending
  <2>1. client' = client /\ life' = "closed"
    BY <1>4 DEF Ending
  <2>2. CASE cause' = "peerEof" /\ sCause = "targetEof"
    <3>1. client.got = target.sent
      BY <1>1, <1>4, <2>2, DownIsComplete
    <3>2. peer.fin /\ ~Stalled
      BY <1>3, <1>4, <2>2 DEF Ending
    <3>3. DownState = "whole" /\ DownState' = "finished"
      BY <1>1, <1>2, <2>1, <2>2, <3>2 DEF DownState
    <3> QED
      BY <1>2, <2>1, <3>1, <3>3 DEF DownStep, Down!Finish
  <2>3. CASE ~(cause' = "peerEof" /\ sCause = "targetEof")
    <3>1. DownState \in {"whole", "broken"} /\ DownState' = "cut"
      BY <1>1, <1>2, <2>1, <2>3 DEF DownState
    <3> QED
      BY <1>2, <2>1, <3>1 DEF DownStep, Down!Cut, Down!Flowing
  <2> QED
    BY <2>2, <2>3
<1>5. CASE GoingOn
  <2>1. life' # "closed" /\ wire' = wire
    BY <1>2, <1>5 DEF GoingOn
  <2>2. /\ DownState \in {"whole", "broken"} /\ DownState' \in {"whole", "broken"}
        /\ Stalled => DownState = "broken"
        /\ Stalled' => DownState' = "broken"
        /\ ~Stalled /\ ~Stalled' => DownState' = DownState
    BY <1>1, <1>2, <2>1 DEF DownState
  <2>3. CASE client'.got = client.got
    <3>1. Stalled => Stalled'
      BY <1>3, <1>5 DEF GoingOn
    <3>2. DownState' = DownState \/ (DownState = "whole" /\ DownState' = "broken")
      BY <2>2, <3>1
    <3> QED
      BY <1>2, <2>3, <3>2 DEF DownStep, Down!pipeVars, Down!Break
  <2>4. CASE client'.got # client.got
    <3>1. client'.got > client.got /\ ~Stalled /\ ~Stalled'
      BY <1>3, <1>5, <2>4 DEF GoingOn
    <3>2. LocalView' /\ LocalView /\ ServerView
      BY Views, PTL
    <3>3. client'.got \in Nat /\ client'.got <= AppEnd(dn) /\ AppEnd(dn) <= target.sent
      BY <1>1, <2>1, <3>2 DEF LocalView, TunnelInv, WireLink
    <3>4. AppEnd(dn) \in Nat /\ target.sent \in Nat
      BY <3>2, EndsAreNaturals DEF LocalView, ServerView
    <3>5. client'.got <= target.sent
      BY <3>3, <3>4
    <3> QED
      BY <1>2, <2>2, <3>1, <3>3, <3>5 DEF DownStep, Down!Deliver, Down!Flowing
  <2> QED
    BY <2>3, <2>4
<1> QED
  BY <1>1, <1>4, <1>5

\* A callback of the server half that closes otherwise than at the end of
\* the target's stream, or with its last bytes lost, breaks the pipe.
LEMMA ServerCallbackDown ==
    ASSUME TunnelInv, ServerCallbacks, ServerCallback
    PROVE  DownStep
<1>1. /\ sLife # "closed" /\ target'.sent = target.sent
      /\ ServerEnding \/ ServerGoingOn
  BY ServerMoves DEF TunnelInv
<1>2. /\ UNCHANGED <<life, cause, watch, lwrite, client, peer>>
      /\ wire' \in IF sLife' = "closed"
                   THEN {[wire EXCEPT !.dn = end] : end \in Ends(NextIn(sLread) < upCame)}
                   ELSE {wire}
  BY DEF ServerCallback, localOwn, ctl, bufs
<1>3. Stalled' <=> Stalled
  BY <1>2 DEF Stalled, Pending
<1>4. sCause = "none" /\ cause # "peerEof"
  BY <1>1, Views DEF TunnelInv, EndLink, LocalView, ServerView
<1>5. DownState' = DownState \/ (DownState = "whole" /\ DownState' = "broken")
  <2>1. CASE ServerEnding
    BY <1>1, <1>2, <1>3, <1>4, <2>1 DEF DownState
  <2>2. CASE ServerGoingOn
    BY <1>1, <1>2, <1>3, <2>2 DEF ServerGoingOn, DownState
  <2> QED
    BY <1>1, <2>1, <2>2
<1> QED
  BY <1>1, <1>2, <1>5 DEF DownStep, Down!Break, Down!pipeVars

\* What happens between callbacks: the target sends, the end of its stream is
\* lost.
LEMMA OtherStepsDown ==
    ASSUME TunnelInv, TunnelInv',
           \/ UpArrives \/ DownArrives
           \/ LocalSide \/ DownEnds
           \/ TargetSide \/ UpEnds
           \/ UpRefused \/ DownRefused \/ UNCHANGED tunnelVars
    PROVE  DownStep
<1>1. /\ UNCHANGED <<life, cause, sLife, sCause, watch, lwrite>> /\ client'.got = client.got
  <2>1. CASE UpArrives \/ UpRefused \/ DownRefused \/ UNCHANGED tunnelVars
    BY <2>1 DEF UpArrives, UpRefused, DownRefused, tunnelVars, localOwn, serverOwn, ctl, bufs
  <2>2. CASE DownArrives
    BY <2>2 DEF DownArrives, serverOwn, ctl, bufs
  <2>3. CASE LocalSide \/ DownEnds
    <3>1. client \in [sent: Nat, replies: 0..2, got: Nat, early: BOOLEAN,
                      fin: BOOLEAN, rst: BOOLEAN]
      BY DEF TunnelInv, IInv, TypeOK
    <3> QED
      BY <2>3, <3>1 DEF LocalSide, DownEnds, ClientSends, ClientCloses, ClientResets,
            ConnectEnds, PeerCloses, PeerResets, serverOwn, ctl, bufs
  <2>4. CASE TargetSide \/ UpEnds
    BY <2>4 DEF TargetSide, UpEnds, S!ClientCloses, S!ClientResets, S!ConnectEnds,
          S!TargetSends, S!TargetCloses, S!TargetResets, S!ctl, localOwn, ctl, bufs
  <2> QED
    BY <2>1, <2>2, <2>3, <2>4
<1>2. \/ target'.sent = target.sent
      \/ target'.sent > target.sent /\ sLife = "open" /\ UNCHANGED <<wire, peer>>
  <2>1. CASE ~(TargetSide \/ UpEnds)
    BY <2>1 DEF UpArrives, DownArrives, LocalSide, DownEnds, UpRefused, DownRefused,
                tunnelVars, serverOwn
  <2>2. CASE TargetSide \/ UpEnds
    <3>1. /\ target \in [conn: {"none", "pending", "up", "refused"}, sent: Nat, got: Nat,
                         fin: BOOLEAN, rst: BOOLEAN]
          /\ UNCHANGED <<wire, peer>>
      BY <2>2 DEF TunnelInv, SP!IInv, SP!TypeOK, TargetSide, UpEnds, localOwn
    <3>2. ASSUME NEW n \in 1..MaxDown, S!TargetSends(n)
          PROVE  target'.sent > target.sent /\ sLife = "open"
      <4>1. n \in Nat \ {0}
        BY LocalAssumption
      <4>2. target'.sent = target.sent + n /\ sLife = "open"
        BY <3>1, <3>2 DEF S!TargetSends, S!TargetLive
      <4> QED
        BY <3>1, <4>1, <4>2
    <3> QED
      BY <2>2, <3>1, <3>2 DEF TargetSide, UpEnds, S!ClientCloses, S!ClientResets,
                              S!ConnectEnds, S!TargetCloses, S!TargetResets
  <2> QED
    BY <2>1, <2>2
<1>3. DownState' = DownState \/ (DownState = "whole" /\ DownState' = "broken")
  <2>1. \/ wire'.dn = wire.dn /\ (peer'.fin = peer.fin \/ wire.dn = "fin")
        \/ wire.dn = "fin" /\ peer' = peer
    <3>1. CASE UpArrives \/ DownArrives \/ UpRefused \/ DownRefused \/ UNCHANGED tunnelVars
      <4>1. wire \in [up: {"none", "fin", "rst"}, dn: {"none", "fin", "rst"}]
        BY DEF TunnelInv, EndLink
      <4> QED
        BY <3>1, <4>1 DEF UpArrives, DownArrives, UpRefused, DownRefused, tunnelVars, localOwn
    <3>2. CASE LocalSide \/ DownEnds
      <4>1. peer \in [conn: {"none", "pending", "up", "refused"}, fin: BOOLEAN, rst: BOOLEAN]
        BY DEF TunnelInv, IInv, TypeOK
      <4> QED
        BY <3>2, <4>1 DEF LocalSide, DownEnds, ClientSends, ClientCloses, ClientResets,
                          ConnectEnds, PeerCloses, PeerResets
    <3>3. CASE TargetSide \/ UpEnds
      BY <3>3 DEF TargetSide, UpEnds, localOwn
    <3> QED
      BY <3>1, <3>2, <3>3
  <2>2. Stalled' <=> Stalled
    BY <1>1 DEF Stalled, Pending
  <2> QED
    BY <1>1, <2>1, <2>2 DEF DownState
<1>4. CASE target'.sent = target.sent
  BY <1>1, <1>3, <1>4 DEF DownStep, Down!pipeVars, Down!Break
<1>5. CASE target'.sent # target.sent
  <2>1. /\ target'.sent > target.sent /\ sLife = "open" /\ UNCHANGED <<wire, peer>>
        /\ sCause = "none" /\ target'.sent \in Nat
    <3>1. ServerView /\ ServerView'
      BY Views, PTL
    <3> QED
      BY <1>2, <1>5, <3>1 DEF ServerView
  <2>2. DownState # "finished" /\ DownState' = DownState
    BY <1>1, <2>1 DEF DownState, Stalled, Pending
  <2> QED
    BY <1>1, <2>1, <2>2 DEF DownStep, Down!Send
<1> QED
  BY <1>4, <1>5

LEMMA DownSteps == TunnelInv /\ TunnelInv' /\ [TunnelNext]_tunnelVars => DownStep
BY WhoSteps, LocalCallbackDown, ServerCallbackDown, OtherStepsDown, Zenon

LEMMA DownBeginsEmpty == TunnelInit => Down!PipeInit
BY DEF TunnelInit, Init, S!Init, Down!PipeInit, DownState, Stalled

(***************************************************************************)
(* From target to client, both halves and their connection are a pipe.     *)
(***************************************************************************)
THEOREM DownImplementsPipe == TunnelSpec => DownIsPipe
<1>1. TunnelInv /\ TunnelInv' /\ [TunnelNext]_tunnelVars
         => [Down!Send \/ Down!Deliver \/ Down!Break \/ Down!Finish \/ Down!Cut]_(Down!pipeVars)
  BY DownSteps DEF DownStep
<1> QED
  BY <1>1, DownBeginsEmpty, TunnelInvariance, PTL DEF TunnelSpec, DownIsPipe, Down!PipeSpec

-----------------------------------------------------------------------------
(***************************************************************************)
(* What being pipes means for client and target.                           *)
(***************************************************************************)
PipesInv ==
    /\ target.got \in Nat /\ UpIn \in Nat /\ target.got <= UpIn
    /\ UpState = "finished" => target.got = UpIn
    /\ client.got \in Nat /\ target.sent \in Nat /\ client.got <= target.sent
    /\ DownState = "finished" => client.got = target.sent

LEMMA PipesInvariance == TunnelSpec => []PipesInv
<1>1. TunnelInit => PipesInv
  BY UpBeginsEmpty, DownBeginsEmpty DEF Up!PipeInit, Down!PipeInit, PipesInv
<1>2. PipesInv /\ UpStep /\ DownStep => PipesInv'
  <2> SUFFICES ASSUME PipesInv, UpStep, DownStep PROVE PipesInv'
    OBVIOUS
  <2>1. /\ target'.got \in Nat /\ UpIn' \in Nat /\ target'.got <= UpIn'
        /\ UpState' = "finished" => target'.got = UpIn'
    BY DEF PipesInv, UpStep, Up!Send, Up!Deliver, Up!Break, Up!Finish, Up!Cut,
           Up!pipeVars, Up!Flowing
  <2>2. /\ client'.got \in Nat /\ target'.sent \in Nat /\ client'.got <= target'.sent
        /\ DownState' = "finished" => client'.got = target'.sent
    BY DEF PipesInv, DownStep, Down!Send, Down!Deliver, Down!Break, Down!Finish, Down!Cut,
           Down!pipeVars, Down!Flowing
  <2> QED
    BY <2>1, <2>2 DEF PipesInv
<1>3. TunnelInv /\ TunnelInv' /\ [TunnelNext]_tunnelVars => UpStep /\ DownStep
  BY UpSteps, DownSteps
<1> QED
  BY <1>1, <1>2, <1>3, TunnelInvariance, PTL DEF TunnelSpec

(***************************************************************************)
(* Neither end ever gets a byte the other one did not send, and when both  *)
(* halves have closed at the end of the sender's stream, it got them all.  *)
(***************************************************************************)
THEOREM OrderlyEndIsComplete ==
    TunnelSpec =>
        [](/\ target.got <= UpIn /\ client.got <= target.sent
           /\ sLife = "closed" /\ cause = "clientEof" /\ sCause = "clientEof" =>
                 target.got = UpIn
           /\ life = "closed" /\ cause = "peerEof" /\ sCause = "targetEof" =>
                 client.got = target.sent)
<1>1. PipesInv =>
           /\ target.got <= UpIn /\ client.got <= target.sent
           /\ sLife = "closed" /\ cause = "clientEof" /\ sCause = "clientEof" =>
                 target.got = UpIn
           /\ life = "closed" /\ cause = "peerEof" /\ sCause = "targetEof" =>
                 client.got = target.sent
  BY DEF PipesInv, UpState, DownState
<1> QED
  BY <1>1, PipesInvariance, PTL

(***************************************************************************)
(* For a client that waits for the reply to its request, the pipe to the   *)
(* target is its data: what it sent behind the request, no less when both  *)
(* halves have closed at its end of stream, and never a byte of the        *)
(* handshake.                                                              *)
(***************************************************************************)
THEOREM DataIsWhatFollowsTheRequest ==
    TunnelSpec =>
        [](~client.early /\ up # <<>> =>
              /\ target.got + HandshakeLen <= client.sent
              /\ sLife = "closed" /\ cause = "clientEof" /\ sCause = "clientEof" =>
                    target.got + HandshakeLen = client.sent)
<1>1. TunnelInv /\ PipesInv =>
         (~client.early /\ up # <<>> =>
              /\ target.got + HandshakeLen <= client.sent
              /\ sLife = "closed" /\ cause = "clientEof" /\ sCause = "clientEof" =>
                    target.got + HandshakeLen = client.sent)
  <2> SUFFICES ASSUME TunnelInv, PipesInv, ~client.early, up # <<>>
               PROVE  /\ target.got + HandshakeLen <= client.sent
                      /\ sLife = "closed" /\ cause = "clientEof" /\ sCause = "clientEof" =>
                            target.got + HandshakeLen = client.sent
    OBVIOUS
  <2>1. up[1].a = HandshakeLen /\ HandshakeLen \in Nat
    BY ConstantTypes DEF TunnelInv, IInv, HandSide, NothingDropped
  <2>2. UpIn = client.sent - HandshakeLen
    BY <2>1 DEF UpIn
  <2>3. client.sent \in Nat /\ target.got \in Nat /\ target.got <= UpIn
    BY Views DEF LocalView, PipesInv
  <2>4. sLife = "closed" /\ cause = "clientEof" /\ sCause = "clientEof" => target.got = UpIn
    BY DEF PipesInv, UpState
  <2> QED
    BY <2>1, <2>2, <2>3, <2>4
<1> QED
  BY <1>1, PipesInvariance, TunnelInvariance, PTL

(***************************************************************************)
(* What has come out is not taken back, and nothing more comes out for an  *)
(* end whose half has closed: no callback writes after closing.            *)
(***************************************************************************)
THEOREM NothingAfterTheEnd ==
    TunnelSpec =>
        [][/\ target'.got >= target.got /\ client'.got >= client.got
           /\ sLife = "closed" => target'.got = target.got
           /\ life = "closed" => client'.got = client.got]_tunnelVars
<1>1. PipesInv /\ UpStep /\ DownStep =>
           /\ target'.got >= target.got /\ client'.got >= client.got
           /\ sLife = "closed" => target'.got = target.got
           /\ life = "closed" => client'.got = client.got
  <2> SUFFICES ASSUME PipesInv, UpStep, DownStep
               PROVE  /\ target'.got >= target.got /\ client'.got >= client.got
                      /\ sLife = "closed" => target'.got = target.got
                      /\ life = "closed" => client'.got = client.got
    OBVIOUS
  <2>1. /\ target'.got >= target.got
        /\ UpState \notin {"whole", "broken"} => target'.got = target.got
    BY DEF PipesInv, UpStep, Up!Send, Up!Deliver, Up!Break, Up!Finish, Up!Cut,
           Up!pipeVars, Up!Flowing
  <2>2. /\ client'.got >= client.got
        /\ DownState \notin {"whole", "broken"} => client'.got = client.got
    BY DEF PipesInv, DownStep, Down!Send, Down!Deliver, Down!Break, Down!Finish, Down!Cut,
           Down!pipeVars, Down!Flowing
  <2>3. /\ sLife = "closed" => UpState \notin {"whole", "broken"}
        /\ life = "closed" => DownState \notin {"whole", "broken"}
    BY DEF UpState, DownState
  <2> QED
    BY <2>1, <2>2, <2>3
<1>2. TunnelInv /\ TunnelInv' /\ [TunnelNext]_tunnelVars => UpStep /\ DownStep
  BY UpSteps, DownSteps
<1> QED
  BY <1>1, <1>2, PipesInvariance, TunnelInvariance, PTL DEF TunnelSpec

-----------------------------------------------------------------------------
(***************************************************************************)
(* What the halves make of each other's frames.                            *)
(***************************************************************************)

\* Every step leaves the frames alone or adds to those of one direction.
LEMMA FrameSteps ==
    ASSUME TunnelInv, [TunnelNext]_tunnelVars
    PROVE  /\ up' = up \/ EncodesFirst \/ EncodesMore
           /\ dn' = dn \/ \E n \in Nat \ {0} : \E c \in Cuts(n) : dn' = Encode(dn, c)
<1>1. CASE Callback /\ LocalCallback
  BY <1>1, CallbackSteps DEF TunnelInv, CallbackStep, Ending, GoingOn, upstream, downstream
<1>2. CASE ServerCallbacks /\ ServerCallback
  BY <1>2, ServerMoves DEF TunnelInv, ServerEnding, ServerGoingOn
<1>3. CASE LocalSide \/ DownEnds
  BY <1>3 DEF LocalSide, DownEnds, ClientSends, ClientCloses, ClientResets, ConnectEnds,
              PeerCloses, PeerResets, upstream, downstream
<1>4. CASE TargetSide \/ UpEnds
  BY <1>4 DEF TargetSide, UpEnds, S!ClientCloses, S!ClientResets, S!ConnectEnds,
              S!TargetSends, S!TargetCloses, S!TargetResets, S!upstream, S!downstream
<1>5. CASE UpArrives \/ DownArrives \/ UpRefused \/ DownRefused \/ UNCHANGED tunnelVars
  BY <1>5 DEF UpArrives, DownArrives, UpRefused, DownRefused, tunnelVars
<1> QED
  BY <1>1, <1>2, <1>3, <1>4, <1>5, WhoSteps, Zenon

\* To the server half every step is one of its own or its client going on.
LEMMA ServerSide ==
    ASSUME TunnelInv, [TunnelNext]_tunnelVars
    PROVE  SP!ClientGoesOn \/ SP!Next
<1>1. LocalView /\ ServerView /\ WireLink
  BY Views DEF TunnelInv
<1>2. upCame \in Nat /\ upCame <= upCame /\ upCame <= WireEnd(up)
  BY <1>1 DEF ServerView
<1>3. CASE Callback /\ LocalCallback
  <2>1. UNCHANGED <<serverOwn, dn>> /\ (up' = up \/ EncodesFirst \/ EncodesMore)
    BY <1>3, CallbackSteps DEF TunnelInv, CallbackStep, Ending, GoingOn, upstream, downstream,
                               LocalCallback
  <2>2. /\ up' \in Seq(Frame) /\ Ordered(up') /\ Framed(up', 1) /\ Continues(up', up)
        /\ WireEnd(up) <= WireEnd(up')
        /\ up' # <<>> => up'[1].w = HdrLen + AuthLen
    BY <1>1, <2>1, UpGrows DEF ServerView
  <2>3. upCame <= WireEnd(up')
    <3>1. WireEnd(up) \in Nat /\ WireEnd(up') \in Nat
      BY <1>1, <2>2, EndsAreNaturals DEF ServerView
    <3> QED
      BY <1>2, <2>2, <3>1
  <2>4. SP!ClientGoesOn
    BY <1>2, <2>1, <2>2, <2>3, ServerSeesClient DEF serverOwn
  <2> QED
    BY <2>4
<1>4. CASE (ServerCallbacks /\ ServerCallback) \/ TargetSide \/ UpEnds
  <2>1. ServerCallbacks \/ ServerEvents
    BY <1>4 DEF TargetSide, UpEnds, ServerEvents
  <2> QED
    BY <2>1, SameServer, Zenon DEF SP!Callback, SP!Next
<1>5. CASE UpArrives
  <2>1. /\ upSent \in Nat /\ WireEnd(up) \in Nat /\ upSent <= WireEnd(up)
    BY <1>1, EndsAreNaturals DEF LocalView, ServerView, WireLink
  <2>2. /\ upCame' \in Nat /\ upCame <= upCame' /\ upCame' <= WireEnd(up) /\ sLife # "closed"
        /\ UNCHANGED <<sLife, sCause, sStage, sRstage, sWatch, sAuthTimer, sTimer,
                       sLread, sLwrite, sRread, sRwrite, sClient, target, dn, dnGiven, up>>
    BY <1>2, <1>5, <2>1 DEF UpArrives
  <2> QED
    BY <2>2, ServerStays
<1>6. CASE \/ DownArrives \/ LocalSide \/ DownEnds
           \/ UpRefused \/ DownRefused \/ UNCHANGED tunnelVars
  <2>1. UNCHANGED <<serverOwn, up, dn>>
    BY <1>6 DEF DownArrives, LocalSide, DownEnds, ClientSends, ClientCloses, ClientResets,
                ConnectEnds, PeerCloses, PeerResets, UpRefused, DownRefused, tunnelVars,
                upstream, downstream
  <2> QED
    BY <1>2, <2>1, ServerStays DEF serverOwn
<1> QED
  BY <1>3, <1>4, <1>5, <1>6, WhoSteps, Zenon

\* A request is followed by data, a reply is data: this is what makes the
\* reasons to refuse a frame (CauseInv) come to nothing.
KindsInv ==
    /\ up # <<>> => up[1].kind = "auth"
    /\ OnlyData(up, 1) /\ OnlyData(dn, 0)

LEMMA KindsAreKept ==
    ASSUME TunnelInv, KindsInv, [TunnelNext]_tunnelVars
    PROVE  KindsInv'
<1>1. /\ up \in Seq(Frame) /\ Ordered(up) /\ Framed(up, 1)
      /\ up # <<>> => up[1].w = HdrLen + AuthLen
      /\ dn \in Seq(Frame)
  BY Views DEF ServerView
<1>2. /\ up' = up \/ EncodesFirst \/ EncodesMore
      /\ dn' = dn \/ \E n \in Nat \ {0} : \E c \in Cuts(n) : dn' = Encode(dn, c)
  BY FrameSteps
<1>3. OnlyData(dn', 0)
  BY <1>1, <1>2, EncodedIsData DEF KindsInv
<1>4. CASE EncodesFirst
  <2>1. PICK from \in Nat : up' = <<[w |-> HdrLen + AuthLen, a |-> from, kind |-> "auth"]>>
    BY <1>4 DEF EncodesFirst
  <2>2. Len(up') = 1 /\ up'[1].kind = "auth"
    BY <2>1
  <2>3. OnlyData(up', 1)
    BY <2>2 DEF OnlyData
  <2> QED
    BY <1>3, <2>2, <2>3 DEF KindsInv
<1>5. CASE up' = up
  BY <1>3, <1>5 DEF KindsInv
<1>6. CASE EncodesMore
  <2>1. up # <<>> /\ up'[1] = up[1]
    BY <1>1, <1>6, UpGrows DEF EncodesMore
  <2>2. OnlyData(up', 1)
    BY <1>1, <1>6, EncodedIsData DEF EncodesMore, KindsInv
  <2> QED
    BY <1>3, <2>1, <2>2 DEF KindsInv
<1> QED
  BY <1>2, <1>4, <1>5, <1>6

LEMMA ServerCauses ==
    ASSUME TunnelInv, SP!CauseInv, [TunnelNext]_tunnelVars
    PROVE  SP!CauseInv'
<1>1. CASE SP!ClientGoesOn
  BY <1>1, SP!ClientGoesOnKeepsCause, FrameAssumption, LocalAssumption, TunnelAssumption
     DEF TunnelInv
<1>2. CASE SP!Next
  BY <1>2, SP!StepKeepsCause, FrameAssumption, LocalAssumption, TunnelAssumption
     DEF TunnelInv
<1> QED
  BY <1>1, <1>2, ServerSide

LEMMA KindsInvariance == TunnelSpec => [](KindsInv /\ SP!CauseInv)
<1>1. TunnelInit => KindsInv /\ SP!CauseInv
  <2> SUFFICES ASSUME TunnelInit PROVE KindsInv /\ SP!CauseInv
    OBVIOUS
  <2>1. KindsInv
    BY NoFrames DEF TunnelInit, Init, S!Init, KindsInv, OnlyData
  <2>2. SP!CauseInv
    BY SameServer, SP!InitEstablishesCause, FrameAssumption, LocalAssumption, TunnelAssumption
       DEF TunnelInit
  <2> QED
    BY <2>1, <2>2
<1>2. TunnelInv /\ (KindsInv /\ SP!CauseInv) /\ [TunnelNext]_tunnelVars
         => (KindsInv /\ SP!CauseInv)'
  BY KindsAreKept, ServerCauses
<1> QED
  BY <1>1, <1>2, TunnelInvariance, PTL DEF TunnelSpec

(***************************************************************************)
(* Neither half hangs up on the other one, closes for a frame of it, or    *)
(* fills a buffer with part of a frame so that the rest cannot be read:    *)
(* what encrypt packs, the other half's checks accept.                     *)
(***************************************************************************)
THEOREM FramesAreAccepted == TunnelSpec => []FramesAccepted
<1>1. TunnelInv /\ KindsInv /\ SP!CauseInv => FramesAccepted
  <2> SUFFICES ASSUME TunnelInv, KindsInv, SP!CauseInv PROVE FramesAccepted
    OBVIOUS
  <2>1. cause # "badFrame"
    <3>1. \A k \in 1..Len(dn) : k > 0 => dn[k].kind = "data"
      BY DEF KindsInv, OnlyData
    <3> QED
      BY <3>1 DEF TunnelInv, EndInv, EndSide, ClosedForCause
  <2>2. sCause # "badFrame"
    <3>1. \A k \in 1..Len(up) : k > 1 => up[k].kind = "data"
      BY DEF KindsInv, OnlyData
    <3> QED
      BY <3>1 DEF SP!CauseInv, SP!ClosedForCause
  <2>3. sAuthTimer # "hangup"
    BY DEF KindsInv, SP!CauseInv, SP!HungUp
  <2>4. "rr" \in watch => rread.total < MaxBuf
    BY RoomForAll DEF TunnelInv, BuffersFit
  <2>5. "lr" \in sWatch => sLread.total < MaxBuf
    BY SP!RoomForAll, FrameAssumption, LocalAssumption, TunnelAssumption
       DEF TunnelInv, SP!BuffersFit
  <2> QED
    BY <2>1, <2>2, <2>3, <2>4, <2>5 DEF FramesAccepted
<1> QED
  BY <1>1, TunnelInvariance, KindsInvariance, PTL

(***************************************************************************)
(* Frames are only added behind those that are there: what has been        *)
(* encoded is never encoded again or differently, by either half.          *)
(***************************************************************************)
THEOREM FramesAreOnlyAdded ==
    TunnelSpec => [][Continues(up', up) /\ Continues(dn', dn)]_tunnelVars
<1>1. ASSUME TunnelInv, [TunnelNext]_tunnelVars
      PROVE  Continues(up', up) /\ Continues(dn', dn)
  <2>1. LocalView /\ ServerView
    BY <1>1, Views
  <2>2. /\ up' = up \/ EncodesFirst \/ EncodesMore
        /\ dn' = dn \/ \E n \in Nat \ {0} : \E c \in Cuts(n) : dn' = Encode(dn, c)
    BY <1>1, FrameSteps
  <2>3. Continues(up', up)
    BY <2>1, <2>2, UpGrows DEF ServerView
  <2>4. Continues(dn', dn)
    BY <2>1, <2>2, MoreFrames DEF LocalView
  <2> QED
    BY <2>3, <2>4
<1> QED
  BY <1>1, TunnelInvariance, PTL DEF TunnelSpec

\* What the server half promises, in the names of Tunnel.
LEMMA ServerPromises ==
    SP!IInv /\ SP!CauseInv =>
        /\ S!TurnTaking /\ S!AuthFirst /\ S!BuffersFit
        /\ S!UpstreamIntegrity /\ S!DownstreamIntegrity /\ S!OrderlyClose
<1> SUFFICES ASSUME SP!IInv, SP!CauseInv
             PROVE  /\ S!TurnTaking /\ S!AuthFirst /\ S!BuffersFit
                    /\ S!UpstreamIntegrity /\ S!DownstreamIntegrity /\ S!OrderlyClose
  OBVIOUS
<1>1. /\ SP!TurnTaking /\ SP!AuthFirst /\ SP!BuffersFit
      /\ SP!UpstreamIntegrity /\ SP!DownstreamIntegrity /\ SP!OrderlyClose
  BY SP!PromisesAreKept, FrameAssumption, LocalAssumption, TunnelAssumption DEF SP!Promises
<1> USE DEF S!Pending, SP!Pending, S!NextIn, SP!NextIn, S!NextOut, SP!NextOut,
            S!WEnd, SP!WEnd, S!AEnd, SP!AEnd, S!WireEnd, SP!WireEnd, S!AppEnd, SP!AppEnd,
            S!LastComplete, SP!LastComplete
<1>2. S!TurnTaking /\ S!AuthFirst /\ S!BuffersFit
  BY <1>1, Zenon DEF S!TurnTaking, SP!TurnTaking, S!AuthFirst, SP!AuthFirst,
                     S!BuffersFit, SP!BuffersFit
<1>3. S!UpstreamIntegrity /\ S!DownstreamIntegrity
  BY <1>1, Zenon DEF S!UpstreamIntegrity, SP!UpstreamIntegrity,
                     S!DownstreamIntegrity, SP!DownstreamIntegrity
<1>4. S!OrderlyClose
  BY <1>1, Zenon DEF S!OrderlyClose, SP!OrderlyClose, S!EndsRelayed, SP!EndsRelayed,
                     S!ClosedForCause, SP!ClosedForCause
<1> QED
  BY <1>2, <1>3, <1>4

(***************************************************************************)
(* What each half promises with any peer it promises with the other half:  *)
(* neither is a peer the other one's model leaves out.                     *)
(***************************************************************************)
THEOREM HalvesKeepTheirPromises ==
    TunnelSpec =>
        [](/\ TurnTaking /\ BuffersFit /\ UpstreamIntegrity /\ DownstreamIntegrity
           /\ NothingDropped /\ OrderlyClose /\ ClosedForCause
           /\ S!TurnTaking /\ S!AuthFirst /\ S!BuffersFit
           /\ S!UpstreamIntegrity /\ S!DownstreamIntegrity /\ S!OrderlyClose)
<1>1. TunnelInv /\ SP!CauseInv =>
           /\ TurnTaking /\ BuffersFit /\ UpstreamIntegrity /\ DownstreamIntegrity
           /\ NothingDropped /\ OrderlyClose /\ ClosedForCause
           /\ S!TurnTaking /\ S!AuthFirst /\ S!BuffersFit
           /\ S!UpstreamIntegrity /\ S!DownstreamIntegrity /\ S!OrderlyClose
  BY PromisesAreKept, ServerPromises, Zenon DEF TunnelInv, Promises
<1> QED
  BY <1>1, TunnelInvariance, KindsInvariance, PTL

=============================================================================
