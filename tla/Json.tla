-------------------------------- MODULE Json --------------------------------
(***************************************************************************)
(* parser::JsonParser (src/CommonLib/Json.cpp): recursive descent over a   *)
(* Reader.  Every parser takes a reader and gives a reader and a value;    *)
(* the reader's status says whether json_err_check has thrown ("refused")  *)
(* or undefined memory has been used.  A number is kept as its text, which *)
(* strtod converts.                                                        *)
(***************************************************************************)
EXTENDS Reader, TLC

Nil == [tag |-> "nil", val |-> <<>>]
Bool(b) == [tag |-> "bool", val |-> <<ToString(b)>>]
Number(text) == [tag |-> "float", val |-> text]
String(text) == [tag |-> "string", val |-> text]
Array(values) == [tag |-> "array", val |-> values]
Object(members) == [tag |-> "object", val |-> members]

Parsed(r, value) == [r |-> r, value |-> value]
Good(p) == p.r.status = "reading"
Refuse(r) == Parsed([r EXCEPT !.status = IF @ = "reading" THEN "refused" ELSE @], Nil)

\* What follows, unless an exception was thrown before.
Then(p, Op(_)) == IF Good(p) THEN Op(p) ELSE p

\* buf += readChar(), on a parser whose value is still text.
Taken(r, text) == Parsed(r, Append(text, LastRead(r)))
Take(p) == Taken(Read(p.r), p.value)

\* !isEnd() and what top() finds.
At(p, chars) == ~IsEnd(p.r) /\ Top(p.r) \in chars
Looked(p) == IF IsEnd(p.r) THEN p ELSE [p EXCEPT !.r = Adjust(@)]

-----------------------------------------------------------------------------
Digit == {"0", "1", "2", "3", "4", "5", "6", "7", "8", "9"}

RECURSIVE Digits(_)
Digits(p) == IF At(p, Digit) THEN Digits(Take(p)) ELSE Looked(p)

\* json_err_check of a digit.
NeedDigits(p) == IF At(p, Digit) THEN Digits(p) ELSE Refuse(Looked(p).r)

Signed(p) == IF Top(p.r) \in {"+", "-"} THEN Take(p) ELSE Looked(p)

Integer(p) == IF At(p, {"0"}) THEN Take(p) ELSE NeedDigits(p)

Fraction(p) == IF Good(p) /\ At(p, {"."}) THEN NeedDigits(Take(p)) ELSE Looked(p)

Power(p) == IF IsEnd(p.r) THEN Refuse(p.r) ELSE NeedDigits(Signed(p))
Exponent(p) == IF Good(p) /\ At(p, {"e", "E"}) THEN Power(Take(p)) ELSE Looked(p)

ParseNumber(r) ==
    IF IsEnd(r) THEN Refuse(r)
    ELSE Then(Exponent(Fraction(Integer(Signed(Parsed(r, <<>>))))),
              LAMBDA p : Parsed(p.r, Number(p.value)))

-----------------------------------------------------------------------------
Hex == [c \in Digit \cup {"a", "b", "c", "d", "e", "f", "A", "B", "C", "D", "E", "F"} |->
            CASE c \in {"a", "A"} -> 10 [] c \in {"b", "B"} -> 11 [] c \in {"c", "C"} -> 12
              [] c \in {"d", "D"} -> 13 [] c \in {"e", "E"} -> 14 [] c \in {"f", "F"} -> 15
              [] OTHER -> CHOOSE n \in 0..9 : ToString(n) = c]

\* strtol: the digits up to the first character that is none.
RECURSIVE ToLong(_, _)
ToLong(text, n) ==
    IF text = <<>> \/ Head(text) \notin DOMAIN Hex THEN n
    ELSE ToLong(Tail(text), 16 * n + Hex[Head(text)])

\* The bytes that stand for themselves here; others are named by their number.
Ascii == (34 :> "\"") @@ (49 :> "1") @@ (97 :> "a") @@ (123 :> "{")
Byte(n) == IF n \in DOMAIN Ascii THEN Ascii[n] ELSE ToString(n)

Utf8(code) ==
    IF code < 128 THEN <<Byte(code)>>
    ELSE IF code < 2048 THEN <<Byte(192 + code \div 64), Byte(128 + (code % 64))>>
    ELSE <<Byte(224 + code \div 4096), Byte(128 + ((code \div 64) % 64)), Byte(128 + (code % 64))>>

\* \v and \a are no JSON.
Escape == [b |-> "backspace", n |-> "\n", a |-> "bell", v |-> "vtab", f |-> "\f",
           r |-> "\r", t |-> "\t"]
          @@ ("\"" :> "\"") @@ ("/" :> "/") @@ ("\\" :> "\\")

\* Four characters; a variant does not look for the end of the file.
RECURSIVE Take4Unchecked(_, _)
Take4Unchecked(p, n) == IF n = 0 THEN p ELSE Take4Unchecked(Take(p), n - 1)
RECURSIVE Take4(_, _)
Take4(p, n) == IF n = 0 THEN p ELSE IF IsEnd(p.r) THEN Refuse(p.r) ELSE Take4(Take(p), n - 1)

\* The character or characters behind a backslash.
EscapedChar(r, text) ==
    IF LastRead(r) = "u"
    THEN Then(Take4(Parsed(r, <<>>), 4),
              LAMBDA code : Parsed(code.r, text \o Utf8(ToLong(code.value, 0))))
    ELSE IF LastRead(r) \in DOMAIN Escape
    THEN Parsed(r, Append(text, Escape[LastRead(r)]))
    ELSE Refuse(r)

Escaped(p) == IF IsEnd(p.r) THEN Refuse(p.r) ELSE EscapedChar(Read(Skip(p.r)), p.value)

RECURSIVE Body(_)
Body(p) ==
    IF IsEnd(p.r) \/ Top(p.r) = "\"" \/ ~Good(Looked(p)) THEN Looked(p)
    ELSE IF Top(p.r) = "\\" THEN Body(Escaped(Looked(p)))
    ELSE Body(Take(p))

Closed(r, text) == IF LastRead(r) = "\"" THEN Parsed(r, text) ELSE Refuse(r)

Inner(r) ==
    IF IsEnd(r) THEN Refuse(r)
    ELSE Then(Body(Parsed(r, <<>>)), LAMBDA p : Closed(Read(p.r), p.value))

Text(r) == Inner(Skip(r))

ParseString(r) == Then(Text(r), LAMBDA p : Parsed(p.r, String(p.value)))

\* acquire: a word that is not the one meant is taken for null.
RECURSIVE Acquire(_, _, _)
Acquire(r, word, value) ==
    IF word = <<>> THEN Parsed(r, value)
    ELSE IF IsEnd(r) THEN Parsed(r, Nil)
    ELSE IF LastRead(Read(r)) = Head(word) THEN Acquire(Read(r), Tail(word), value)
    ELSE Parsed(Read(r), Nil)

-----------------------------------------------------------------------------
RECURSIVE ParseValue(_), Elements(_, _), Members(_, _)

\* The loop of parseJsonArray.
ElementEnds(r, values) ==
    CASE LastRead(r) = "]" -> Parsed(r, Array(values))
      [] LastRead(r) = "," -> Elements(r, values)
      [] OTHER -> Refuse(r)

Elements(r, values) ==
    IF Top(r) = "]" THEN Parsed(Skip(Adjust(r)), Array(values))
    ELSE Then(ParseValue(Adjust(r)),
              LAMBDA v : ElementEnds(ReadPastSpace(v.r), Append(values, v.value)))

\* A variant: members need no comma between them.
SeparatorsAny == {",", "\"", ":"}
Separators == {","}

\* The loop of parseJsonObject.
MemberEnds(r, members) ==
    CASE LastRead(r) = "}" -> Parsed(r, Object(members))
      [] LastRead(r) \in Separators -> Members(r, members)
      [] OTHER -> Refuse(r)

Colon(r, key, members) ==
    IF LastRead(r) # ":" THEN Refuse(r)
    ELSE Then(ParseValue(r),
              LAMBDA v : MemberEnds(ReadPastSpace(v.r), (key :> v.value) @@ members))

Member(r, members) ==
    CASE Top(r) = "}" -> Parsed(Skip(r), Object(members))
      [] Top(r) = "\"" -> Then(Text(r), LAMBDA k : Colon(ReadPastSpace(k.r), k.value, members))
      [] OTHER -> Refuse(r)

Members(r, members) == Member(SkipSpace(r), members)

\* parseFromReader.
Value(r, c) ==
    CASE c \in Digit \cup {"+", "-"} -> ParseNumber(r)
      [] c = "\"" -> ParseString(r)
      [] c = "t" -> Acquire(r, <<"t", "r", "u", "e">>, Bool(TRUE))
      [] c = "f" -> Acquire(r, <<"f", "a", "l", "s", "e">>, Bool(FALSE))
      [] c = "n" -> Acquire(r, <<"n", "u", "l", "l">>, Nil)
      [] c = "{" -> Members(Skip(r), <<>>)
      [] c = "[" -> Elements(Skip(r), <<>>)
      [] OTHER -> Refuse(r)

Begin(r) == Value(r, Top(r))
ParseValue(r) == IF IsEnd(r) THEN Refuse(r) ELSE Begin(SkipSpace(r))

\* parseFromFile of a file that is there.
ParseFromFile(file, block) == ParseValue(Open(file, block))
=============================================================================
