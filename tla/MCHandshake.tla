----------------------------- MODULE MCHandshake -----------------------------
(***************************************************************************)
(* Handshake with greetings of few, many and too many methods, a request   *)
(* of each address type with domains at the boundaries of a signed char    *)
(* and with a 0 byte inside, at the end and first, settings of legal and   *)
(* illegal sizes, and payloads around 2^7 and 2^8 and at the ends of what  *)
(* the encode loop cuts.                                                   *)
(***************************************************************************)
EXTENDS Handshake, TLC

Letters(n, first) == [i \in 1..n |-> first + (i % 7)]

\* A check sum that tells apart payloads by size, first and last byte.
MCCrc(data) ==
    Short(Len(data)) \o (IF data = <<>> THEN <<0, 0>> ELSE <<data[1], data[Len(data)]>>)

SomeGreetings ==
    {<<5, 1, 0>>, <<5, 2, 2, 0>>, <<5, 1, 2>>, <<4, 1, 0>>, <<5, 127>> \o [i \in 1..127 |-> 0],
     <<5, 128>> \o [i \in 1..128 |-> 0]}

Request(type, host, port) == <<5, 1, 0, type>> \o host \o Short(port)
Domain(n) == <<n>> \o Letters(n, 97)

SomeRequests ==
    {Request(1, <<10, 0, 0, 255>>, 80), Request(1, <<192, 168, 3, 1>>, 8080),
     Request(4, Letters(16, 250 - 6), 443), Request(2, <<1, 1>>, 80)}
    \cup {Request(3, Domain(n), 65535) : n \in {0, 1, 127, 128, 248, 249, 255}}
    \cup {Request(3, <<5, 97, 98, 0, 99, 0>>, 443), Request(3, <<2, 0, 97>>, 443)}

Name(n) == Letters(n, 65)
Word(n) == Letters(n, 48)

\* ms: the methods, key: the password, where the settings have them.
Ciphers(ms, key) ==
    [method |-> JsonArray([i \in DOMAIN ms |-> JsonString(ms[i])]), password |-> JsonString(key)]

Local(u, p, ciphers) ==
    JsonObject([current_user |-> JsonString(Name(u)), current_pwd |-> JsonString(Word(p))] @@ ciphers)

Users == [user |-> JsonObject([u \in {Name(n) : n \in {5, 6, 11, 16, 17}} |->
            IF Len(u) = 11 THEN JsonNumber(120) ELSE JsonString(Word(Len(u) + 1))])]

Both == Ciphers(<<"xor", "rc4">>, "key")
OneMethod == [method |-> JsonString("rc4"), password |-> JsonString("key")]
NoUsers == JsonObject(Both)
SomeUsers == JsonObject(Users @@ Both)

\* Names and passwords of legal and illegal sizes, unknown, and of another
\* type; ciphers that are and are not the server's; methods that are no
\* list, on one side and on both, and settings that are missing.
SomeSetups ==
    [local: {Local(6, 7, Both), Local(16, 17, Ciphers(<<"rc4", "none", "xor">>, "key")),
             Local(16, 32, Both), Local(6, 33, Both), Local(5, 6, Both), Local(17, 18, Both),
             Local(9, 10, Both), Local(11, 12, Both), JsonObject(Both),
             Local(6, 7, Ciphers(<<"xor", "rc4">>, "other")), Local(6, 7, Ciphers(<<"xor">>, "key")),
             Local(6, 7, OneMethod), JsonNil},
     server: {SomeUsers}]
    \cup [local: {Local(6, 7, OneMethod)}, server: {JsonObject(Users @@ OneMethod)}]
    \cup [local: {Local(6, 7, Both)}, server: {NoUsers}]

ShortReads == {1}
SomeAuthRnds == {Letters(5, 200), Letters(99, 200)}
SomeDataRnds == {Letters(5, 200), Letters(9, 0)}

Addr(family, byte) == [family |-> family, addr |-> <<byte, 0, 0, byte>>]
SomeAnswers ==
    {<<>>, <<Addr("inet", 9)>>, <<Addr("inet6", 1), Addr("inet", 8), Addr("inet", 7)>>,
     <<Addr("inet6", 1)>>}

SomePayloads == {Letters(n, 120) : n \in {1, 127, 128, 255, 256, 300, 799}}
=============================================================================
