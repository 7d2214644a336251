------------------------------ MODULE MsgCodec ------------------------------
(***************************************************************************)
(* The layouts of AuthMsg and DataMsg, as BufferWriter writes and          *)
(* BufferReader reads them.  A byte is a number of 0 .. 255, a message a   *)
(* sequence of bytes; a char is signed, a reader of lengths casts it back. *)
(***************************************************************************)
EXTENDS Integers, Sequences

CONSTANT Crc(_)    \* crc32 of zlib: the four bytes of a check sum

Byte == 0..255

\* The value of a char, and of a short of two bytes in network order.
Signed(byte) == IF byte > 127 THEN byte - 256 ELSE byte
SignedShort(hi, lo) == 256 * Signed(hi) + lo

\* Variant: writeShort without htons, as if the order did not matter.
ShortSwapped(n) == <<n % 256, n \div 256>>
Short(n) == <<n \div 256, n % 256>>

\* writeByte of the length, then writeString.
Counted(str) == <<Len(str)>> \o str

\* appendInt of the size, then appendBuffer.  Sizes are below 2^16.
Framed(body) == <<0, 0>> \o Short(Len(body)) \o body

\* readString behind the byte at n + 1 that counts it: the bytes consumed.
\* What has run past the end stays past the end, as a check that failed ends
\* the decoding.
CountedEnd(s, n) == IF n < Len(s) THEN n + 1 + s[n + 1] ELSE Len(s) + 1

Refused == [ok |-> FALSE]

\* __CHECK_STRING_SIZE__
Sized(str, least, most) == least <= Len(str) /\ Len(str) <= most

-----------------------------------------------------------------------------
(***************************************************************************)
(* AuthMsg                                                                 *)
(***************************************************************************)
CredentialsSized(m) == Sized(m.user, 6, 16) /\ Sized(m.pwd, 6, 32)

\* encode leaves the buffer empty when it returns false; its caller does not
\* look at what it returns.
AuthEncode(m, rnd) ==
    IF CredentialsSized(m)
    THEN Counted(rnd) \o <<1>> \o Counted(m.user) \o Counted(m.pwd)
            \o <<m.addrType, m.addrLen>> \o m.addr \o Short(m.port)
    ELSE <<>>

\* Where the fields of s end, in the order in which they are read.
AuthFields(s) ==
    LET rnd  == CountedEnd(s, 4)
        user == CountedEnd(s, rnd + 1)
        pwd  == CountedEnd(s, user)
        addr == CountedEnd(s, pwd + 1)
    IN  [rnd |-> rnd, user |-> user, pwd |-> pwd, addr |-> addr, port |-> addr + 2]

AuthMsgOf(s) ==
    LET at == AuthFields(s)
    IN  [ok |-> TRUE,
         total |-> Signed(s[1]),     \* its sign is all check looks at
         rndChar |-> SubSeq(s, 6, at.rnd),
         type |-> s[at.rnd + 1],
         user |-> SubSeq(s, at.rnd + 3, at.user),
         pwd |-> SubSeq(s, at.user + 2, at.pwd),
         addrType |-> s[at.pwd + 1],
         addrLen |-> s[at.pwd + 2],
         addr |-> SubSeq(s, at.pwd + 3, at.addr),
         port |-> 256 * s[at.addr + 1] + s[at.addr + 2]]

\* Variant: the last field is read without a look at what is left.
AuthDecodeUnchecked(s) ==
    LET at == AuthFields(s)
    IN  IF at.addr > Len(s) THEN Refused ELSE AuthMsgOf(s \o <<0, 0>>)

AuthDecode(s) ==
    IF AuthFields(s).port > Len(s) THEN Refused ELSE AuthMsgOf(s)

AuthCheck(m) ==
    /\ m.total >= 0
    /\ Sized(m.rndChar, 5, 100)
    /\ m.type = 1
    /\ CredentialsSized(m)
    /\ m.addrType \in {1, 3, 4}
    /\ Sized(m.addr, 0, 255)

-----------------------------------------------------------------------------
(***************************************************************************)
(* DataMsg                                                                 *)
(***************************************************************************)
DataEncode(data, rnd) ==
    IF Sized(data, 0, 4096)
    THEN Counted(rnd) \o <<2>> \o Crc(data) \o Short(Len(data)) \o data
    ELSE <<>>

\* index_ + count > size is computed without sign: a negative sum is greater
\* than every size.  A negative count that passes makes assign throw.
DataDecode(s) ==
    LET rnd     == CountedEnd(s, 4)
        head    == rnd + 7               \* type, dataCheck and dataLen
        dataLen == SignedShort(s[head - 1], s[head])
    IN  IF head > Len(s) \/ head + dataLen \notin 0..Len(s)
        THEN Refused
        ELSE [ok |-> TRUE,
              total |-> Signed(s[1]),
              rndChar |-> SubSeq(s, 6, rnd),
              type |-> s[rnd + 1],
              dataCheck |-> SubSeq(s, rnd + 2, rnd + 5),
              thrown |-> dataLen < 0,
              data |-> SubSeq(s, head + 1, head + dataLen)]

DataCheck(m) ==
    /\ m.total >= 0
    /\ Sized(m.rndChar, 5, 10)
    /\ m.type = 2
    /\ Sized(m.data, 0, 8096)
    /\ m.dataCheck = Crc(m.data)
=============================================================================
