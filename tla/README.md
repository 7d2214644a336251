# SocksTunnel in TLA+

SocksTunnel is a SOCKS5 proxy in two halves. **SocksTunnelLocal** accepts SOCKS5
clients, opens one TCP connection per client to a **SocksTunnelServer** and relays
the client's bytes over it in encrypted frames of random length; SocksTunnelServer
checks the user, connects to the target the client asked for and relays to it.
Both are libev programs: each worker process is one thread running an event loop,
and every step of a session is a callback.

This directory holds the models of that behaviour, the TLC configurations that
check them on small instances and TLAPS proofs of the main safety results.

## 1. Inventory

| Component | Source | State it keeps | Operations | Status |
|---|---|---|---|---|
| Local session | `src/SocksTunnelLocal.cpp` | stage of both ends, four `IO` buffers, started watchers, connect timer | accept, read (greeting, request, data), write, remote read, remote write, remote timeout, close | `LocalSession` |
| Server session | `src/SocksTunnelServer.cpp` | the same, and the auth timer | accept, read (auth message, data), hang up, auth timeout, write, remote read, remote write, remote timeout, close | `ServerSession` |
| IO buffers, teardown | `src/Common/ServerCommon.h`, `.cpp` | `buf`, `startPos`, `total` | append, compack, reset, close both ends | `IOBuffer` |
| Framing | both `.cpp`, `src/Common/MsgResolver.h` | position in the stream | cut and encode, find and decode complete frames | `FrameStream`, `FrameChunking` |
| Auth timers | `src/SocksTunnelServer.cpp`, `SettingUtils.cpp` | deadlines in seconds | start, start anew, stop, expire | `AuthTimer` |
| Worker processes | `start`, `__doStart`, `acceptCallback`, `daemonize`, `serverInit` | children, shared listener | start, fork, accept, exit | `Worker` |
| Message codec | `src/Common/MsgResolver.cpp`, `src/Utils/Buffer*.cpp` | none | encode, decode, check | `MsgCodec` |
| Target address | `createRemoteServer` | none | resolve, connect | `Handshake` |
| Crypto chain | `src/Crypto` | list of ciphers | encrypt, decrypt in reverse order | `CryptoChain` |
| Settings | `SettingUtils.cpp`, `.h` | parsed tree, read-only | look up, with defaults; check a user | `Settings`, used by `Handshake` and `Worker` |
| JSON parser | `Json.cpp`, `Reader.cpp` | block buffer, position | parse a file | `Reader`, `Json`, `SettingsFile` |
| Both halves together | all of the above, and TCP between them | what is on its way | - | `Tunnel`, against `Pipe` |
| Random numbers | `src/Utils/RandomUtils.cpp` | - | `randInt` | a choice in `FrameChunking` |
| Logging, helper library, test scripts | `src/CommonLib`, `test` | - | - | not modelled |

How they interact: the callbacks of the two connections of a session share the
`LocalServer` and `RemoteServer` objects. A callback of one end reads into its own
`readIO`, appends to the `writeIO` of the *other* end, stops its own watcher and
starts the other end's writer; that writer starts the reader again once it has
drained its buffer. So each direction is half-duplex, and its correctness rests on
the pairing of `ev_io_stop` and `ev_io_start` in eight callbacks. The sessions of a
worker share its event loop, its descriptors and its end; the workers share the
listener, whose connections each of them is woken for.

What is hard: TCP splits and joins messages anywhere; writes are partial; either
end may finish, be reset or never answer between any two callbacks; a timer may
expire at any point; `appendBuffer` checks no bounds; and closing deletes both
objects while watchers exist. Lengths are signed chars and shorts. A worker that ends
takes its sessions along and is not started anew. The end of one half becomes the end
of the other by a TCP close that turns into a reset if something is unread. The
settings are edited by hand and read through a buffer that is never cleared.
`PROJECT.json` lists each such hazard at its line
with the properties aimed at it, and those no property covers yet with the reason.

## 2. Modules

| Module | What it is |
|---|---|
| `IOBuffer` | `struct IO` as an interval of a byte stream: `base` is the stream offset of `buf[0]`. A byte is its offset, so that a lost, repeated or reordered byte is a wrong offset. `Turn` is the stop/start pair. |
| `FrameStream` | a stream of frames `|total:4|payload|` as a sequence of end offsets, on the wire (`w`) and of the data they carry (`a`); cutting, encoding and decoding as operators on offsets. A payload that `decode` or `check` refuses is of kind `garbled`, a refused length field `badlen`. |
| `LocalSession` | one session of a SocksTunnelLocal worker with its client, its peer and the network as environment. |
| `ServerSession` | one session of a SocksTunnelServer worker, likewise. |
| `AuthTimer` | the timers of a server session before it relays, with a clock in seconds. |
| `FrameChunking` | the do-while loop that cuts a read into frames of random size, with the sizes of the code. |
| `MsgCodec` | the layouts of AuthMsg and DataMsg as sequences of bytes, with the signs of `char` and `short` and the limits of `check`. |
| `CryptoChain` | `CryptoHelper` and the list of ciphers; a cipher is an exclusive or with a stream of its own. Encryption is a recursive function, so that it can be proved about. |
| `Handshake` | what a session is about, byte by byte: greeting, request, AuthMsg, user, `createRemoteServer` (which looks a name up as a C string, `CString`), one DataMsg. Composes `MsgCodec`, `CryptoChain` and `Settings`. |
| `Pipe` | the abstract specification of one direction of a session: two counters and a state. |
| `Tunnel` | a `LocalSession` (EXTENDS) and a `ServerSession` (INSTANCE, names with a leading `s`) joined by the TCP connection between them; refinement mappings of both directions to `Pipe`. |
| `Settings` | the getters of `SettingUtils` over a parsed tree, with the defaults `Json` has for a value of another type. |
| `Reader` | `StreamReader`: the file in blocks, the buffer with what earlier blocks left in it, `eof`. |
| `Json` | `JsonParser`, one operator per function, with what `json_err_check` refuses. |
| `SettingsFile` | the file as it is written, with a slip or cut off, read once; and the grammar the parser is compared with. |
| `Worker` | main, settings, listener and the forked workers that accept from it, of either program (`setting.program`), and all the ways a worker ends. |
| `MC...` | the modules TLC runs. |
| `StreamProofs` | lemmas about the operators of `IOBuffer` and `FrameStream`. |
| `LocalSessionProofs`, `ServerSessionProofs`, `HandshakeProofs`, `AuthTimerProofs`, `FrameChunkingProofs`, `WorkerProofs`, `TunnelProofs` | the theorems. |

**State and code.** `lread`, `lwrite`, `rread`, `rwrite` are the `readIO` and
`writeIO` of the `LocalServer` and the `RemoteServer`; `watch` is the set of started
`ev_io`; `stage` and `rstage` are the `stage` fields; `timer` (and `authTimer`) the
started `ev_timer`. `up` and `dn` record the frames encoded in each direction,
`upSent` and `dnSent` how much of them has been handed to the kernel. An action is
one outcome of one callback from the `read` or `write` it begins with to its return:
for instance `ReadRequest` covers the request check, `createRemoteServer`, the
AuthMsg, the stop and the starts, the reply to the client, `resetBuffer` and the
stage. An early return without effect is a stuttering step. In `Handshake`, `have` is
`readIO->total` of the client's connection, `message` what the client sends, and the
actions are the outcomes of `readCallback` on either side. In `Worker`, `main` is the
starting process, `worker` the state of its children, `ready` the workers whose loop is
about to call `acceptCallback`, `busy` those that wait in `getaddrinfo`, `full` those in
`sendAll` on a full socket, `held` and `linked` the sessions and their second
connections, `scarce` whether the system as a whole has run out of descriptors or memory. In `Tunnel` an action is a callback of one half together with what its
close does to the connection (`wire`); what has been given to the kernel and what has
arrived at the other end are separate counters (`upSent` and `upCame`, `dnGiven` and
`dnSent`), and the peer of the one half is the other half. In `Json` a parser takes a
reader and gives a reader and a value; the reader's `status` says whether an exception
was thrown or memory was used that was never written. A few definitions called
variants (`TurnWithoutStop`, `CompackKeepsIndex`, ...) are not used by any
specification: each is what a definition would be with one plausible mistake, and
shows which property notices it.

**Abstractions.** In the session modules the contents of greeting, request and payload
are not represented (they are in `Handshake`): a greeting has one
length, a request one length and a length at which its type is known, and whether they are acceptable is a choice. `FieldLen` is one number for the
13 to 17 bytes a DataMsg adds (`FrameChunking` has the range). A greeting that is
refused is answered and waited on; that the client may try another is in `Handshake`
only. Reads and
writes return any legal number of bytes. Errors are resets; that `sendAll`
may give up on a reply after more than ten tries (`ServerCommon.cpp:173`) is in `Worker` only. What `errno` holds after
a `write` of zero bytes, which the code looks at, is a choice. `Handshake` joins the two
halves into a pipeline without failing connections, and so without a peer address that cannot
be parsed (`SocksTunnelLocal.cpp:173`). It represents a ciphered text by
its clear bytes and the set of streams they are combined with; a text whose set is not
empty after `Decrypt` is refused, so that the chance that noise decodes is left out. A key
gives a stream of its own there; ChaCha20 looks at the first 32 bytes of it only
(`Chacha20.cpp:12`), so that in the code two keys may give one stream. Left out too is the command byte of the request, which the code does not look at. `Tunnel` has one
connection between the halves and lets a close with unread data send a reset that may
overtake what was written; a callback that finds a reason to close may have read what
was there just before. In `Json` a character is a string of length one and a number is
kept as its text, which `strtod` converts; in `Settings` a number is kept in tenths, and
one outside the range of `int32_t`, whose conversion is undefined, is left out. The text
of an exception, which is put together with pointer arithmetic, is not represented: the
exception ends the program either way. `Worker` has two descriptors per session and none for other
purposes, and finitely many connections, of which `IPv6Names`, `LongNames` and `Resetters`
are those that ask for a name with IPv6 addresses only, for one of 249 bytes or more, and
that may be reset. `accept` fails without a descriptor or memory (`NoDescriptor`), or, as POSIX allows,
with the error of a connection that was broken off in the backlog. It is not interrupted:
no program installs a signal handler. Being killed, `bad_alloc` and an abort inside libev,
which can end any process anywhere, are left out. A settings path that is relative names no file once `daemonize` has
changed directory. What libev shares between forked processes is not modelled.

## 3. What the runs show

| Run | Shows |
|---|---|
| `local` | `TurnTaking`: exactly one started watcher per direction of a relaying session, none without a session. `BuffersFit`: no write buffer past `REAL_SERVER_BUF`, always room to read. `UpstreamIntegrity`, `DownstreamIntegrity`: both streams are relayed byte for byte, decoding resumes at frame boundaries. `NothingDropped`: relaying begins right after the request unless the client did not wait for the reply. `OrderlyClose`: a close for an end of stream comes after that stream was relayed. `ClosedForCause`: each reason logged is real; the connect timer never cuts a session that relays. |
| `local_empty_write` (violation) | the loop condition `startPos + 4 >= total` at `SocksTunnelLocal.cpp:375` lets a read that ends right behind a length field turn to writing with nothing to write; `write` returns 0, is taken for an error, and with a stale `errno` the session is closed though neither connection failed. |
| `local_eof` (violation) | a client that leaves in the middle of its greeting or request is never noticed (`total == 0` is required at `SocksTunnelLocal.cpp:61`) and its session stays, with a callback that is invoked again and again. |
| `server` | the same invariants for the server, where decoding starts with frames read together with the AuthMsg while the target is still being connected to, and `AuthFirst`: nothing is done for a client before its AuthMsg, it is always under a timer until then, and never afterwards; only a first message that is no AuthMsg is hung up on. `OrderlyClose` also says that every reason logged is real, as `ClosedForCause` does for the local half, and that the server has no write of nothing. `AuthResolves`, `TargetEofCloses`: each connection is authenticated or closed, and the target's end of stream closes the session. |
| `tunnel` | `UpIsPipe`, `DownIsPipe`: through both halves and the network, what comes out at one end is what was put in at the other, in order and once, and if a session ends in order all of it has come out; a direction breaks only where `UpState` and `DownState` say so. `FramesAccepted`: neither half hangs up on the other, refuses a frame of it, or fills its buffer with part of one. These are frames the other half encodes; the length check of the server, which would also let frames pass that no read can hold (`SocksTunnelServer.cpp:183`), never comes to such a one here. `BothDeliver`: all that client and target send arrives while the direction is whole. `HalvesEndTogether`: when one half has gone the other goes, unless it holds part of a frame. `ClientEofCloses`: the client's end of stream closes a relaying local session. |
| `json` | `WholeFileParsed`: a file that says something by RFC 8259 gives just that, wherever the blocks of the reader end. `AcceptedIsSaid`: what is accepted is said by a beginning of the file in the lenient reading below, so that no slip is taken for something else. `CutFileRefused`: a file that was cut off is refused, if it is shorter than a block. |
| `auth_timer` | a client that is not relayed for is due to be kicked within `auth_timeout` plus the longer of the hang-up and the connect timer, and the timer is started anew at most once. |
| `auth_deadline` (violation) | README.md:168 promises disconnection within `auth_timeout`; `hangUpInvalidClient` starts the timer anew with 20 to 59 seconds. |
| `frame_chunking` | with the numbers of the code, the loop never writes past the write buffer, encodes each byte once, and each turn encodes some (`EncodedOnce`): no frame is empty. |
| `handshake` | `DestinationIsRequested`: whatever the parts the request is read in, its type, the padding and the ciphers, the server connects to the host and port of the request as RFC 1928 lays it out, for a name to the first IPv4 address found. `OnlyKnownUsers`, `RefusedForCause`: it does so only for a user with his password and with the same ciphers, and nobody is hung up, closed or refused without one of the reasons there are; an exception ends the worker only for a domain of 249 bytes or more and where the server has no user map, whatever else its settings lack. `ActsOnWhole`: complete messages are acted on at once, but for lengths from 128 on. `DecodesOnlyWhole`, `DataIntact`: no proper prefix of a message is decoded, and data arrives as sent. A name is looked up to its first 0 byte, since `getaddrinfo` takes a C string (`ServerCommon.cpp:82-88`): `DestinationIsRequested` says of a name with one that just this much of it is looked up. A domain is closed for want of an address only after a look-up that found none. |
| `ipv6_only` (violation) | `createRemoteServer` means to report a name without IPv4 addresses (`ServerCommon.cpp:104`), but looks at `ptr->ai_family` after the search has left `ptr == NULL`: the worker ends with all its sessions. |
| `worker` | `StartedAsConfigured`: as many workers are forked as configured, within 1 and the limit, or none at all. `ExitsForCause`: a worker ends only in `accept` without a descriptor or memory, or by one connection: a broken one that `accept` reports, a write to one that was reset (SIGPIPE), a name without an IPv4 address (`ServerCommon.cpp:102`), a name too long for `assign` (`SocksTunnelLocal.cpp:201`) or an AuthMsg where the settings have no user map (`SettingUtils.cpp:29`). That connection is over then, so that none ends two workers; and losing the race for a connection ends nobody. `PendingAccepted`: a connection in the backlog is accepted in the end as long as a worker can serve, though others exit, wait for the resolver or are kept in `sendAll` by a client that does not read. |

**What the parser does with other files** (met while modelling, outside what the
properties require): a comma may follow the last member or element; a number may begin
with `+`; a word that begins like `true`, `false` or `null` is null; `[ ]` with a blank
in it is refused; what follows the value is not looked at; of two members with one name
the last counts. `eof` is set only by a read that comes short, and the buffer is not
cleared: a file whose size is a multiple of 2048 has not ended for `isEnd` when its last
character is read, so that the checks for an unexpected end pass and the parser goes on
in what the previous block left, or, in a file of one block, in the beginning of the
file. A whole settings file never gets there, because its last bracket ends it; one that
was cut off at such a size does, which is why `CutFileRefused` asks for less than a
block. A file that is a bare number reads memory that was never written.

**Bounds.** In the session runs a length field has 2 bytes, a piece at most 2, a
buffer room for 6 bytes read and 10 written, at most 2 frames per buffer: enough for
a read that ends before, in or behind a length field, in a payload, with one frame
and part of the next, and for writes in several parts. `FieldLen` is 0: it only
lengthens the payload. `MaxUp` and `MaxDown` bound the data (2 bytes each way), i.e. two frames or
one of two bytes, so that a buffer is used again after it was reset. `Tunnel` has a
length field of 1 byte, pieces of 1 byte and 1 byte of data each way: a frame can still
be split on the way, cut off by a close or a reset, and be in any of the four buffers of its
direction or on the wire when either half ends. `UpIsPipe` and `DownIsPipe` alone also hold
under `TunnelSpec` with two bytes each way (1.4 million states, two minutes), and with a
length field of two bytes; liveness at that size takes longer than a run should. With a length field of 2 bytes the local half too can be left with part of a
frame, which is why `HalvesEndTogether` makes the exception on both sides. One session is
enough for these properties because sessions share no state but the loop. `FrameChunking` uses the sizes of the code, reads at the chunk boundaries, and
the extremes of the random numbers. `AuthTimer` uses the seconds of the code.
`Handshake` has greetings of 1 to 128 methods, a request of each type with domains of
0, 1, 127, 128, 248, 249 and 255 bytes (the ends of a signed char, and where the total
length turns from negative to small), two domains with a 0 byte, as the first, and inside and at the end; read byte by byte or in one go; users and
passwords at and beyond the limits 6, 16 and 32; chains that agree, agree but for an
unknown method or the order, and differ; answers of the resolver with no, one, a later
and no IPv4 address; payloads of 1 to 799 bytes with both bytes of the length in use;
settings that are missing, or of another type, one at a time. `json` has five files with
everything the grammar has, one slip anywhere out of eleven characters put in, put in place or
left out, or the file cut off anywhere, and blocks of 3, 5, 8 and 64 characters for the
2048 of the code: a block ends at each place of each file, and the file within a block.
`Worker` has two workers, three connections, a backlog of two and three descriptors:
the least with which one worker runs out of descriptors while the other accepts. Both
programs are run, SocksTunnelServer also without a user map. One connection is ordinary, one
may be reset, and one may be reset and asks for a name that is too long for
SocksTunnelLocal, or has IPv6 addresses only for SocksTunnelServer, so that both workers can
end while a third connection waits. The counts are negative, 0, legal, with a fraction, too large, no number and missing.
`CHECK_DEADLOCK FALSE` is set where a closed session is the end.

**Fairness.** libev is level-triggered, so that a callback whose descriptor stays
ready, or a timer that is started, is invoked: weak fairness of each callback. A
write that makes progress also needs an end that reads, which is assumed; one that
never reads makes the session wait for ever, in the code too. Nothing is assumed of
clients, peers, targets and connections: they may stop at any point. `WriteNothing`
has no fairness, because what `errno` holds is nobody's schedule. In `Worker` the
starting process goes on, each loop polls and calls back, and the resolver answers in
the end, if only that it found nothing: `getaddrinfo` has a timeout of its own. Polling and
calling back are interrupted whenever the worker waits in `getaddrinfo` or `sendAll`, so
that weak fairness says too little; the loop comes back to every descriptor that is ready
again and again, hence strong fairness. Nothing is assumed of a client that keeps a worker
in `sendAll`. `Tunnel` adds that the server accepts, and that the network delivers what was
written, and the end of a stream or a reset after it: the two are hosts that stay connected.

## 4. What is proved

TLAPS checks the theorems below for every value of the constants that satisfies the
named assumptions. `LocalAssumption` and `FrameAssumption`: a greeting, a request and a
frame fit in what a read can fill, and the write buffer has room for what one read can
be cut into. `TunnelAssumption`: the first message of a local half fits in one read of the
server. `TimerAssumption`, `ChunkAssumption`, `RoomAssumption`, `WorkerAssumption`:
the ranges of the settings and sizes. `ClientAssumption`: a client lays out its greeting
and request as RFC 1928 says. `SetupsAssumption`: what the settings give as strings are
strings. `LibraryAssumption`: padding has a length `encode` may ask for, and
`getaddrinfo` gives a list of addresses. `PayloadsAssumption`: a payload is one `encode`
accepts, and a check sum has four bytes. TLC evaluates all of them on the values of the
runs.

**`StreamProofs`.** What cutting and encoding adds to a stream (`EncodeProperties`), that
decoding every complete frame moves from a frame boundary to a later one
(`DecodeProperties`, which rests on the last complete frame being well defined,
`LastCompleteProperties`), that what is left behind it is shorter than a frame
(`RestIsShort`), that what was decoded and encoded again fits (`EncodedFits`), and how
each buffer operation moves offsets.

**`LocalSessionProofs`.** All eight safety invariants of `local`: `TypeOK`, `TurnTaking`,
`UpstreamIntegrity`, `DownstreamIntegrity`, `NothingDropped`, `BuffersFit`,
`OrderlyClose`, `ClosedForCause`. None of them is inductive alone. The invariant `IInv`
adds that buffers are empty without a session (`Idle`), that between callbacks `lread`
holds nothing in stage Connect and the frames end where it begins (`UpSide`), how much a
client can have sent in each stage of the handshake (`HandSide`, from which relaying
starts at the request's end), and that the peer's frames are ordered and `rread` compact
(`DownSide`). `BuffersFit` and the two properties about the end need a second layer,
`EndInv`, that rests on the first: a reader is only started while the writer it feeds is
empty, and frames have a largest size (`Room`, `FrameSide`), a direction without a
started writer has nothing left to write (`Quiet`), and what the log of an end of stream
says of the counters (`EndSide`). There is one lemma per callback; those that close share
`CloseKeeps`.

**`ServerSessionProofs`.** All seven safety invariants of `server`: `TypeOK`,
`TurnTaking`, `AuthFirst`, `BuffersFit`, `UpstreamIntegrity`, `DownstreamIntegrity`,
`OrderlyClose`. What makes the server harder than the local half is the AuthMsg, which may
come in one read with the frames behind it: they are decoded only when the target is
connected. The invariant says in `AuthSide` that nothing has moved and a timer runs
until the AuthMsg is accepted, in `UpSide` and `RelaySide` that the decoder stands at a
boundary of the client's frames and behind the AuthMsg once it relays, in `DownSide` that
all that was read from the target has been encoded, and in `Room` what each buffer can hold
at each stage. Why a session ends needs a second invariant, `CauseInv`, proved on top of the
first: nothing has come to the target and nothing gone to the client while the connection is
being made, whatever is queued for it (`Quiet`, so that the connect timer cuts no relaying
session), and whoever is hung up on has sent a first message that is no AuthMsg (`HungUp`).
A refused frame is the hard case: the decoder must have stood behind the AuthMsg and at a
boundary, or else it refused good frames (`RefusedIsNoData`).

**`HandshakeProofs`.** All six invariants of `handshake`, for every request, padding,
segmentation, chain of ciphers and settings: `DestinationIsRequested`, `OnlyKnownUsers`,
`RefusedForCause`, `ActsOnWhole`, `DecodesOnlyWhole`, `DataIntact`. Three groups of lemmas
carry them. Codec: `decode` inverts `encode` for AuthMsg and DataMsg within the limits of
`check` (`AuthRoundTrip`, `DataRoundTrip`), and every proper prefix is refused, field by
field (`CutAuthIsRefused` and its like). Reading in parts: a greeting or request that is
there in full is seen to be, except where a signed char turns negative (`GreetingWhole`,
`RequestWhole`). Names: what `CString` gives is the part before the first 0 byte (`CStringCuts`). Ciphers: a chain and its reverse combine the same streams, so that what one
end encrypts the other deciphers if and only if both chains combine the same streams an odd
number of times (`DeciphersIfSame`). A chain has any length, so this is an induction;
the library's theorem takes a predicate as parameter, which the provers cannot instantiate,
and the proof instead takes the least element of the set of lengths at which the claim
fails (`LeastNatural`, `StepByStep`). The inductive invariant `HandshakeInv` joins to the
properties what is on the way: that the message being read is not seen to be complete
(`Unfinished`), that the wire carries the AuthMsg of the request (`AuthSent`) and whom the
server let in (`Admitted`).

**`AuthTimerProofs`.** `WaitIsBounded`, and that a client that never sends a message the
server refuses is under a deadline of `auth_timeout` itself.

**`FrameChunkingProofs`.** `NoOverflow`, and `EncodedOnce` of every turn, for all sizes
and random numbers under `RoomAssumption`, which the code's numbers satisfy: 14 pieces of
300 bytes cover 4096, and 4096 + 14 * 21 <= 5120.

**`TunnelProofs`.** `UpImplementsPipe` and `DownImplementsPipe`: every step of `Tunnel` is
a step of `Pipe` or a stutter, in both directions, so that the end-to-end promise holds for
every size and segmentation, whichever half closes first and whatever the connection
between them loses. `OrderlyEndIsComplete`, `NothingAfterTheEnd` and
`DataIsWhatFollowsTheRequest` say in the names of
`Tunnel` what that means for client and target: the last one that what the target gets is
what the client sent behind its request. The argument is assume-guarantee:

* In the proofs of the halves the environment is more general than their actions for it:
  `PeerGoesOn` and `ClientGoesOn` are all the ways to add frames in order behind those there
  are and to deliver more of them, and both invariants survive that (`PeerGoesOnKeeps`,
  `PeerGoesOnKeepsEnd`, `ClientGoesOnKeeps`).
* What a callback guarantees is `CallbackSteps` of either half: it closes, or it encodes
  frames that continue the stream, and writes on. `SeenFromOutside` says what the server's
  invariant means to somebody who does not look into its buffers.
* `SameServer` and `SameStreams` identify the server's actions in `Tunnel` with those
  `ServerSessionProofs` is about: two instances of the same module under one substitution.
* `TunnelInv` joins the two invariants with `WireLink` (what arrived was written, what was
  written was encoded, what was encoded was read) and `EndLink` (an end is told only after
  the other closed, a fin only when all has come before it). TLC checked it on the instance
  of `tunnel` and on a larger one before it was proved.
* The one step that may finish a pipe is a close for an end of stream. That all has come out
  then is `UpIsComplete` and `DownIsComplete`: `OrderlyClose` of both halves, `EndLink`
  between them, and `AllComplete`, that a stream that has arrived as a whole is complete.
* `HalvesKeepTheirPromises`: each half keeps in `Tunnel` every safety property proved of it
  with a peer that does what it likes (`Promises` of either module). To the server half every
  step of `Tunnel` is one of its own or its client going on (`ServerSide`).
* `FramesAreAccepted` needs in addition what the frames are: an AuthMsg first in one
  direction, and DataMsgs only (`KindsInv`, from `EncodedIsData`). Both halves refuse a frame
  only for cause, `ClosedForCause` and `CauseInv`, and this cause there never is. That
  there is room for the rest of a frame is `BuffersFit` of either half.
* `FramesAreOnlyAdded`: no step takes back or changes a frame, which is why counters of
  bytes can stand for what they count.

**`WorkerProofs`.** `TypeOK`, `StartedAsConfigured` and `ExitsForCause` for either program and
any number of workers, connections and descriptors. The invariant adds to `TypeOK` how `forks`
relates to how far the starting process is (`Starting`): nothing is forked and nobody can
connect before `fork`, and all are forked when it is done. `TypeOK` has `Once` as a part: a
connection is new, waits at one place of the backlog, is held by one worker, or is over. That
is what `ExitsForCause` rests on: what a worker that ends held, no other holds and the backlog
has not (`HeldIsOver`), nor what was broken off as first of the backlog (`FirstIsOver`), so
that a connection that ends a worker is over. `ExitHasCause` goes through the actions that end
one.

**Only model-checked.** Liveness (`BothDeliver`, `HalvesEndTogether`, `ClientEofCloses`,
`AuthResolves`, `TargetEofCloses`, `WaitEnds`, `PendingAccepted`), which is out of the
prover's reach; and
`WholeFileParsed`, `AcceptedIsSaid`, `CutFileRefused`: `Reader`, `Json` and `SettingsFile`
use RECURSIVE operators, which stay with TLC.

## 5. Plan

Done, in this order because it is the order of importance: `IOBuffer`, `FrameStream`,
`LocalSession`, `ServerSession`, `AuthTimer`, `FrameChunking`; then `MsgCodec`,
`CryptoChain`, `Handshake` and `Worker`; then `Pipe` and `Tunnel`, whose end-to-end
delivery replaced that of each half alone, and `Settings`, `Reader`, `Json` and
`SettingsFile`; then the proofs about `ServerSession`, the rest of `LocalSession`, `Handshake` with the
codec and the ciphers, and the refinement of `Pipe` by `Tunnel`; last why the server ends a
session and that neither half refuses the other. Left: greetings that are
repeated in `LocalSession`, with its proofs (they are in `Handshake`).

## 6. Not modelled

* What libev shares between processes forked after its loop was created
  (`ServerCommon.h:43`): the inside of a library.
* What a peer that is no SocksTunnelLocal meets with a frame whose length field is between
  `MAX_SERVER_BUF` and `REAL_SERVER_BUF` (`SocksTunnelServer.cpp:183`): the pieces in the
  frames of `ServerSession`'s client are no longer than `MaxChunk`, and `FramesAccepted` says
  that the other half sends none a read cannot hold.
* The bytes of the ciphers (arithmetic without state), the writer of JSON, `StringReader`
  and the parts of `IO` no program calls, logging, the general helper library (reference
  counts, mutexes and atomics in programs of one thread each) and the test scripts.
