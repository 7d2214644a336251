------------------------------ MODULE Handshake ------------------------------
(***************************************************************************)
(* What a session is about, byte by byte: the SOCKS5 greeting and request  *)
(* of a client as SocksTunnelLocal reads them in parts, the AuthMsg it     *)
(* sends, what SocksTunnelServer makes of it, the target createRemoteServer*)
(* connects to, and one DataMsg.  LocalSession and ServerSession have the  *)
(* same steps with their watchers, buffers and failures of connections;    *)
(* here both ends are one pipeline and only what a message says counts.    *)
(***************************************************************************)
EXTENDS MsgCodec, CryptoChain, Settings

CONSTANTS
    Greetings, Requests,   \* what clients send, as sequences of bytes
    ReadSizes,             \* how many bytes a read may give, apart from all the rest
    Setups,                \* settings of the two programs: local and server, each a Json
    AuthRnds, DataRnds,    \* what randString may return in the two encodes
    Answers,               \* what getaddrinfo may find: addresses in order; none: it fails
    Payloads               \* data to relay

\* A client lays out its greeting and its request as RFC 1928 says.
GreetingLaidOut(g) == g \in Seq(Byte) /\ Len(g) >= 2 /\ Len(g) = 2 + g[2]
RequestLaidOut(r) ==
    /\ r \in Seq(Byte) /\ Len(r) >= 5
    /\ r[4] = 1 => Len(r) = 10
    /\ r[4] = 3 => Len(r) = 7 + r[5]
    /\ r[4] = 4 => Len(r) = 22

ASSUME ClientAssumption ==
    /\ \A g \in Greetings : GreetingLaidOut(g)
    /\ \A r \in Requests : RequestLaidOut(r)
    /\ ReadSizes \subseteq Nat

\* The parser makes a sequence of every string and of every array.
ASSUME SetupsAssumption ==
    \A s \in Setups :
        /\ StringSetting(s.local, "current_user", <<>>) \in Seq(Byte)
        /\ StringSetting(s.local, "current_pwd", <<>>) \in Seq(Byte)
        /\ MethodSetting(s.local, "") \in Seq(STRING)
        /\ MethodSetting(s.server, "") \in Seq(STRING)

\* What encode asks of randString, and of getaddrinfo what it promises.
ASSUME LibraryAssumption ==
    /\ \A r \in AuthRnds : r \in Seq(Byte) /\ Sized(r, 5, 100)
    /\ \A r \in DataRnds : r \in Seq(Byte) /\ Sized(r, 5, 10)
    /\ \A found \in Answers : found \in Seq([family: {"inet", "inet6"}, addr: Seq(Byte)])

\* A payload is one that encode accepts; a check sum has four bytes.
ASSUME PayloadsAssumption ==
    \A data \in Payloads :
        /\ data \in Seq(Byte) /\ Sized(data, 0, 4096)
        /\ Crc(data) \in Seq(Byte) /\ Len(Crc(data)) = 4

Stages == {"Init", "HandShake",      \* SocksTunnelLocal reads
           "Auth",                   \* the AuthMsg is on its way
           "Connect", "Relayed",     \* the server has connected; a DataMsg has passed
           "Refused",                \* the greeting was answered with 0xff
           "HungUp", "Closed",       \* by the server, by either
           "Thrown", "Aborted"}      \* the worker is gone: an exception, a crash

VARIABLES
    stage,
    conf,       \* the settings of both programs
    message,    \* what the client sends: the greeting, then the request
    have,       \* readIO->total, how much of it has been read
    wire,       \* what was sent to the server: clear bytes, streams over them
    answer,     \* what getaddrinfo found, if it was asked
    target,     \* what the server connects to
    relayed     \* payload sent, and what decode made of it

vars == <<stage, conf, message, have, wire, answer, target, relayed>>

Nothing == [bytes |-> <<>>, text |-> {}]
NoAnswer == <<[family |-> "none", addr |-> <<>>]>>
NoTarget == [family |-> "none", addr |-> <<>>, port |-> 0, lookup |-> <<>>]

Init ==
    /\ stage = "Init"
    /\ conf \in Setups
    /\ message \in Greetings
    /\ have = 0
    /\ wire = Nothing /\ answer = NoAnswer /\ target = NoTarget
    /\ relayed = [sent |-> <<>>, got |-> <<>>]

-----------------------------------------------------------------------------
(***************************************************************************)
(* SocksTunnelLocal: readCallback                                          *)
(***************************************************************************)
\* A read gives n bytes more, buf[i - 1] after it.  Behind what was read the
\* buffer holds whatever it held; nothing may depend on it.
Read(n) ==
    /\ n \in ReadSizes \cup {Len(message) - have}
    /\ n > 0 /\ have + n <= Len(message)

Buf(total, i) == IF i <= total THEN message[i] ELSE 0

\* methodCount is a char compared with an unsigned difference, so that one
\* of 128 or more is taken for a number greater than every size.
GreetingThere(total) ==
    total >= 2 /\ Signed(Buf(total, 2)) \in 0..(total - 2)

Method0x0(total) == \E i \in 1..Buf(total, 2) : Buf(total, 2 + i) = 0

ResetRead == have' = 0

\* The greeting is there and is answered; the client goes on if it was accepted.
ReadGreeting(n) ==
    /\ stage = "Init" /\ Read(n)
    /\ GreetingThere(have + n)
    /\ IF Buf(have + n, 1) = 5 /\ Method0x0(have + n)
       THEN stage' = "HandShake" /\ message' \in Requests
       ELSE stage' = "Refused" /\ UNCHANGED message
    /\ ResetRead
    /\ UNCHANGED <<conf, wire, answer, target, relayed>>

\* The stage stays Init: the client may try another greeting.
GreetAgain ==
    /\ stage = "Refused" /\ stage' = "Init"
    /\ message' \in Greetings
    /\ UNCHANGED <<conf, have, wire, answer, target, relayed>>

AddrType(total) == Buf(total, 4)

KnownType(total) == AddrType(total) \in {1, 3, 4}

\* Variant: one byte more than a request with a domain has.
TotalLenLong(total) ==
    CASE AddrType(total) = 1 -> 4 + 4 + 2
      [] AddrType(total) = 3 -> 4 + 2 + Signed(Buf(total, 5)) + 2
      [] AddrType(total) = 4 -> 4 + 16 + 2

\* totallen; the length of a domain is a char.
TotalLen(total) ==
    CASE AddrType(total) = 1 -> 4 + 4 + 2
      [] AddrType(total) = 3 -> 4 + 1 + Signed(Buf(total, 5)) + 2
      [] AddrType(total) = 4 -> 4 + 16 + 2

\* total is unsigned: a negative totallen is greater than every total.
RequestThere(total) ==
    total >= 5 /\ KnownType(total) /\ TotalLen(total) \in 0..total

RequestRefused(total) == total >= 5 /\ ~KnownType(total)

\* Need more data, in either stage.
ReadPart(n) ==
    /\ Read(n)
    /\ \/ stage = "Init" /\ ~GreetingThere(have + n)
       \/ stage = "HandShake" /\ ~RequestThere(have + n) /\ ~RequestRefused(have + n)
    /\ have' = have + n
    /\ UNCHANGED <<stage, conf, message, wire, answer, target, relayed>>

ReadBadRequest(n) ==
    /\ stage = "HandShake" /\ Read(n)
    /\ RequestRefused(have + n)
    /\ have' = have + n
    /\ stage' = "Closed"
    /\ UNCHANGED <<conf, message, wire, answer, target, relayed>>

AddrStart(total) == IF AddrType(total) = 3 THEN 5 ELSE 4

AddrLen(total) ==
    CASE AddrType(total) = 1 -> 4
      [] AddrType(total) = 3 -> Signed(Buf(total, 5))
      [] AddrType(total) = 4 -> 16

\* assign with a negative length throws, and nothing catches it.
ReadLongDomain(n) ==
    /\ stage = "HandShake" /\ Read(n)
    /\ RequestThere(have + n) /\ AddrLen(have + n) < 0
    /\ have' = have + n
    /\ stage' = "Thrown"
    /\ UNCHANGED <<conf, message, wire, answer, target, relayed>>

\* Variant: ntohs is forgotten.
PortSwapped(total) == Buf(total, TotalLen(total) - 1) + 256 * Buf(total, TotalLen(total))
Port(total) == 256 * Buf(total, TotalLen(total) - 1) + Buf(total, TotalLen(total))

User == StringSetting(conf.local, "current_user", <<>>)
Pwd == StringSetting(conf.local, "current_pwd", <<>>)

\* What a program of either kind is given as its ciphers and their key.
Methods(js) == MethodSetting(js, "")
Key(js) == StringSetting(js, "password", "")

AuthMsgFor(total) ==
    [user |-> User, pwd |-> Pwd,
     addrType |-> AddrType(total), addrLen |-> AddrLen(total),
     addr |-> [i \in 1..AddrLen(total) |-> Buf(total, AddrStart(total) + i)],
     port |-> Port(total)]

\* The request is there: the AuthMsg is encrypted and queued behind its size.
ReadRequest(n) ==
    /\ stage = "HandShake" /\ Read(n)
    /\ RequestThere(have + n) /\ AddrLen(have + n) >= 0
    /\ \E rnd \in AuthRnds :
          wire' = [bytes |-> Framed(AuthEncode(AuthMsgFor(have + n), rnd)),
                   text |-> Encrypt({}, Methods(conf.local), Key(conf.local))]
    /\ ResetRead
    /\ stage' = "Auth"
    /\ UNCHANGED <<conf, message, answer, target, relayed>>

-----------------------------------------------------------------------------
(***************************************************************************)
(* SocksTunnelServer: readCallback and createRemoteServer                  *)
(***************************************************************************)
\* What is not deciphered completely is noise, which decode or check refuses
\* (but for a chance that is left out).
Deciphered(w) == Decrypt(w.text, Methods(conf.server), Key(conf.server)) = {}

Msg == IF Deciphered(wire) THEN AuthDecode(wire.bytes) ELSE Refused

AuthAccepted == Msg.ok /\ AuthCheck(Msg)

HangUp ==
    /\ stage = "Auth" /\ ~AuthAccepted
    /\ stage' = "HungUp"
    /\ UNCHANGED <<conf, message, have, wire, answer, target, relayed>>

\* Nothing catches the exception of a map without the member "user".
NoUserMap ==
    /\ stage = "Auth" /\ AuthAccepted
    /\ UserMapThrows(conf.server)
    /\ stage' = "Thrown"
    /\ UNCHANGED <<conf, message, have, wire, answer, target, relayed>>

BadUser ==
    /\ stage = "Auth" /\ AuthAccepted
    /\ ~UserMapThrows(conf.server) /\ ~CheckUser(conf.server, Msg.user, Msg.pwd)
    /\ stage' = "Closed"
    /\ UNCHANGED <<conf, message, have, wire, answer, target, relayed>>

Accepted == stage = "Auth" /\ AuthAccepted /\ CheckUser(conf.server, Msg.user, Msg.pwd)

Host == SubSeq(Msg.addr, 1, Msg.addrLen)

\* IPv4 and IPv6 addresses are copied.
ConnectAddr ==
    /\ Accepted /\ Msg.addrType \in {1, 4}
    /\ target' = [family |-> IF Msg.addrType = 1 THEN "inet" ELSE "inet6",
                  addr |-> Host, port |-> Msg.port, lookup |-> <<>>]
    /\ stage' = "Connect"
    /\ UNCHANGED <<conf, message, have, wire, answer, relayed>>

IPv4s(found) == {i \in DOMAIN found : found[i].family = "inet"}

\* getaddrinfo reads a string up to its first 0 byte.
CString(bytes) ==
    LET zeros == {i \in 1..Len(bytes) : bytes[i] = 0}
    IN  IF zeros = {} THEN bytes ELSE SubSeq(bytes, 1, Min(zeros) - 1)

\* The name is looked up and the first IPv4 address taken.
ConnectDomain ==
    /\ Accepted /\ Msg.addrType = 3
    /\ \E found \in Answers :
          /\ IPv4s(found) # {}
          /\ answer' = found
          /\ target' = [family |-> "inet", addr |-> found[Min(IPv4s(found))].addr,
                        port |-> Msg.port, lookup |-> CString(Host)]
    /\ stage' = "Connect"
    /\ UNCHANGED <<conf, message, have, wire, relayed>>

ResolveFails ==
    /\ Accepted /\ Msg.addrType = 3
    /\ <<>> \in Answers /\ answer' = <<>>
    /\ stage' = "Closed"
    /\ UNCHANGED <<conf, message, have, wire, target, relayed>>

\* Addresses but no IPv4 address: the search ends behind the last one, and
\* the test that follows reads through the null pointer.
ResolveIPv6Only ==
    /\ Accepted /\ Msg.addrType = 3
    /\ \E found \in Answers \ {<<>>} : IPv4s(found) = {} /\ answer' = found
    /\ stage' = "Aborted"
    /\ UNCHANGED <<conf, message, have, wire, target, relayed>>

-----------------------------------------------------------------------------
\* A DataMsg of either direction: encode, encrypt, decrypt, decode, check.
Relay ==
    /\ stage = "Connect"
    /\ \E data \in Payloads, rnd \in DataRnds :
          LET bytes == Framed(DataEncode(data, rnd))
              text  == Encrypt({}, Methods(conf.local), Key(conf.local))
              m     == DataDecode(bytes)
          IN  /\ wire' = [bytes |-> bytes, text |-> text]
              /\ relayed' = [sent |-> data,
                             got |-> IF Deciphered(wire') /\ m.ok /\ DataCheck(m)
                                     THEN m.data ELSE <<>>]
    /\ stage' = "Relayed"
    /\ UNCHANGED <<conf, message, have, answer, target>>

ReadCallback ==
    \E n \in 1..Len(message) :
        \/ ReadGreeting(n) \/ ReadPart(n) \/ ReadBadRequest(n)
        \/ ReadLongDomain(n) \/ ReadRequest(n)

ServerReadCallback ==
    \/ HangUp \/ NoUserMap \/ BadUser
    \/ ConnectAddr \/ ConnectDomain \/ ResolveFails \/ ResolveIPv6Only

Next == GreetAgain \/ ReadCallback \/ ServerReadCallback \/ Relay

Spec == Init /\ [][Next]_vars

-----------------------------------------------------------------------------
(***************************************************************************)
(* Properties                                                              *)
(***************************************************************************)
\* The request as RFC 1928 lays it out, for the client's own reading of it.
DomainAsked == stage \notin {"Init", "Refused"} /\ message[4] = 3
LongDomain == DomainAsked /\ message[5] > 127
HostAsked ==
    IF DomainAsked THEN SubSeq(message, 6, 5 + message[5])
                   ELSE SubSeq(message, 5, Len(message) - 2)
PortAsked == 256 * message[Len(message) - 1] + message[Len(message)]

\* The part of a host before its first 0 byte; all of it, where it has none.
CutName(name, host) ==
    /\ Len(name) <= Len(host) /\ name = SubSeq(host, 1, Len(name))
    /\ \A i \in 1..Len(name) : name[i] # 0
    /\ Len(name) = Len(host) \/ host[Len(name) + 1] = 0

\* The server connects to the host and port the client asked for, whatever
\* the parts the request was read in, its type, the random padding and the
\* ciphers.  A name is looked up as far as a string in C goes, that is
\* unchanged but for one with a 0 byte, and its first IPv4 address taken.
DestinationIsRequested ==
    stage \in {"Connect", "Relayed"} =>
        /\ target.port = PortAsked
        /\ IF DomainAsked
           THEN /\ CutName(target.lookup, HostAsked)
                /\ \E i \in DOMAIN answer :
                      /\ answer[i] = [family |-> "inet", addr |-> target.addr]
                      /\ \A j \in 1..(i - 1) : answer[j].family # "inet"
           ELSE /\ target.addr = HostAsked
                /\ target.family = IF message[4] = 1 THEN "inet" ELSE "inet6"

SameCiphers ==
    Encrypt({}, Methods(conf.local), Key(conf.local))
        = Encrypt({}, Methods(conf.server), Key(conf.server))

\* The server connects for a client only if its SocksTunnelLocal has the
\* name and the password of a user and the ciphers of the server.
OnlyKnownUsers ==
    target # NoTarget =>
        /\ User \in DOMAIN UserMap(conf.server) /\ UserMap(conf.server)[User] = JsonString(Pwd)
        /\ SameCiphers

\* A session ends early for a reason only: hung up when name or password
\* have a size README.md rules out (6-16 and 6-32) or the ciphers differ,
\* closed for an address type that does not exist, an unknown user or a name
\* that was looked up and not found, refused without the method the code can.  An exception
\* ends the worker only for a domain of 249 bytes or more, and where the
\* server's settings have no user map: whatever else the settings lack, or
\* have of another type, is an error of the session.
RefusedForCause ==
    /\ stage = "HungUp" =>
         Len(User) \notin 6..16 \/ Len(Pwd) \notin 6..32 \/ ~SameCiphers
    /\ stage = "Closed" =>
         \/ message[4] \notin {1, 3, 4}
         \/ User \notin DOMAIN UserMap(conf.server)
         \/ UserMap(conf.server)[User] # JsonString(Pwd)
         \/ DomainAsked /\ answer = <<>>
    /\ stage = "Thrown" =>
         \/ DomainAsked /\ message[5] > 248
         \/ "user" \notin DOMAIN ObjectValue(conf.server)
    /\ stage = "Refused" => message[1] # 5 \/ \A i \in 3..Len(message) : message[i] # 0

\* A greeting or request that has been read completely is acted on at once,
\* but for lengths from 128 on, which are waited for in vain.
ActsOnWhole ==
    /\ stage = "Init" /\ have = Len(message) => message[2] > 127
    /\ stage = "HandShake" /\ have = Len(message) => LongDomain

\* No proper prefix of a message is decoded: a field that is cut off is
\* noticed, whichever it is.
DecodesOnlyWhole ==
    /\ stage = "Auth" =>
         \A n \in 0..(Len(wire.bytes) - 1) : ~AuthDecode(SubSeq(wire.bytes, 1, n)).ok
    /\ stage = "Relayed" =>
         \A n \in 0..(Len(wire.bytes) - 1) : ~DataDecode(SubSeq(wire.bytes, 1, n)).ok

\* A DataMsg carries its data unchanged, for sizes of one and of two bytes.
DataIntact == stage = "Relayed" => relayed.got = relayed.sent

\* The server's answer to a name without an IPv4 address is an error and a
\* closed session: no session crashes its worker.
NoIPv4IsAnError == stage # "Aborted"
=============================================================================
