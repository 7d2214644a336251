---------------------------- MODULE SettingsFile ----------------------------
(***************************************************************************)
(* The settings file, which a user edits by hand: written, perhaps with a  *)
(* slip or only in part, and read once by SettingUtils::init when a        *)
(* program starts.  What it says is defined below as a grammar, apart from *)
(* how the parser reads it.                                                *)
(***************************************************************************)
EXTENDS Json

CONSTANTS
    Texts,     \* files as they are meant, sequences of characters
    Slips,     \* characters a slip may put in
    Blocks     \* values of MAX_STREAM_BUFFER

ASSUME SettingsFileAssumption == Blocks \subseteq Nat \ {0}

VARIABLES
    text,      \* the file
    state,     \* "whole", "slip" or "cut"
    block,     \* the size of the reader's buffer
    json       \* what parseFromFile has given

fileVars == <<text, state, block, json>>

Unread == [status |-> "unread", past |-> FALSE, value |-> Nil]

Init == text \in Texts /\ state = "whole" /\ block \in Blocks /\ json = Unread

Drop(t, i) == SubSeq(t, 1, i - 1) \o SubSeq(t, i + 1, Len(t))
Insert(t, i, c) == SubSeq(t, 1, i - 1) \o <<c>> \o SubSeq(t, i, Len(t))

\* A character too few, one too many, or a wrong one.
Slip ==
    /\ state = "whole" /\ json = Unread
    /\ \E i \in 1..Len(text) : text' \in {Drop(text, i)}
                                  \cup {Insert(text, i, c) : c \in Slips}
                                  \cup {[text EXCEPT ![i] = c] : c \in Slips}
    /\ state' = "slip"
    /\ UNCHANGED <<block, json>>

\* The editor, or the copy of the file, was interrupted.
Cut ==
    /\ state = "whole" /\ json = Unread
    /\ \E i \in 1..(Len(text) - 1) : text' = SubSeq(text, 1, i)
    /\ state' = "cut"
    /\ UNCHANGED <<block, json>>

\* SettingUtils::init: an exception is not caught and ends the program.
ReadSettings ==
    /\ json = Unread
    /\ LET p == ParseFromFile(text, block)
       IN  json' = [status |-> IF Good(p) THEN "parsed" ELSE p.r.status,
                    past |-> p.r.past, value |-> p.value]
    /\ UNCHANGED <<text, state, block>>

Next == Slip \/ Cut \/ ReadSettings

Spec == Init /\ [][Next]_fileVars

-----------------------------------------------------------------------------
(***************************************************************************)
(* The reference: the values a text denotes, by RFC 8259.  The parser is   *)
(* lenient in three ways: a comma may stand behind the last member or      *)
(* element, a number may have a plus sign, and a word that begins like     *)
(* true, false or null is null together with one character behind it.      *)
(***************************************************************************)
IsBlank(t) == \A i \in 1..Len(t) : t[i] \in Blank

RECURSIVE Trim(_)
Trim(t) == IF t # <<>> /\ Head(t) \in Blank THEN Trim(Tail(t))
           ELSE IF t # <<>> /\ t[Len(t)] \in Blank THEN Trim(SubSeq(t, 1, Len(t) - 1))
           ELSE t

Before(t, i) == SubSeq(t, 1, i - 1)
After(t, i) == SubSeq(t, i + 1, Len(t))
Inside(t) == SubSeq(t, 2, Len(t) - 1)
Where(t, c) == {i \in 1..Len(t) : t[i] = c}
Encloses(t, open, close) == Len(t) >= 2 /\ Head(t) = open /\ t[Len(t)] = close

AllDigits(t) == t # <<>> /\ \A i \in 1..Len(t) : t[i] \in Digit
Unsigned(t, signs) == IF t # <<>> /\ Head(t) \in signs THEN Tail(t) ELSE t

IsNumber(t, signs) ==
    \E i \in 1..Len(t) : \E j \in i..Len(t) :
        LET whole == Unsigned(SubSeq(t, 1, i), signs)
            fraction == SubSeq(t, i + 1, j)
            exponent == After(t, j)
        IN  /\ AllDigits(whole) /\ (Head(whole) = "0" => Len(whole) = 1)
            /\ fraction # <<>> => Head(fraction) = "." /\ AllDigits(Tail(fraction))
            /\ exponent # <<>> => /\ Head(exponent) \in {"e", "E"}
                                  /\ AllDigits(Unsigned(Tail(exponent), {"+", "-"}))

\* The texts between quotes: at most one.
RECURSIVE Unescaped(_)
Unescaped(t) ==
    IF t = <<>> THEN {<<>>}
    ELSE IF Head(t) = "\"" THEN {}
    ELSE IF Head(t) # "\\" THEN {<<Head(t)>> \o rest : rest \in Unescaped(Tail(t))}
    ELSE IF Len(t) >= 2 /\ t[2] \in DOMAIN Escape
    THEN {<<Escape[t[2]]>> \o rest : rest \in Unescaped(SubSeq(t, 3, Len(t)))}
    ELSE IF Len(t) >= 6 /\ t[2] = "u"
    THEN {Utf8(ToLong(SubSeq(t, 3, 6), 0)) \o rest : rest \in Unescaped(SubSeq(t, 7, Len(t)))}
    ELSE {}

Quoted(t) == IF Encloses(Trim(t), "\"", "\"") THEN Unescaped(Inside(Trim(t))) ELSE {}

Words == {[word |-> <<"t", "r", "u", "e">>, value |-> Bool(TRUE)],
          [word |-> <<"f", "a", "l", "s", "e">>, value |-> Bool(FALSE)],
          [word |-> <<"n", "u", "l", "l">>, value |-> Nil]}

Begins(t, word) == \E n \in 1..(Len(word) - 1) :
    t = SubSeq(word, 1, n) \/ (Len(t) = n + 1 /\ SubSeq(t, 1, n) = SubSeq(word, 1, n))

RECURSIVE Denoted(_, _), Listed(_, _), Mapped(_, _)

Denoted(text0, lenient) ==
    LET t == Trim(text0)
    IN  {String(s) : s \in Quoted(t)}
        \cup {Number(n) : n \in {n \in {t} : IsNumber(n, IF lenient THEN {"+", "-"} ELSE {"-"})}}
        \cup {w.value : w \in {w \in Words : t = w.word}}
        \cup {Nil : w \in {w \in Words : lenient /\ t # w.word /\ Begins(t, w.word)}}
        \cup (IF Encloses(t, "[", "]") THEN {Array(a) : a \in Listed(Inside(t), lenient)} ELSE {})
        \cup (IF Encloses(t, "{", "}") THEN {Object(m) : m \in Mapped(Inside(t), lenient)} ELSE {})

\* The elements of an array.
Listed(t, lenient) ==
    (IF IsBlank(t) THEN {<<>>} ELSE {})
    \cup {<<v>> : v \in Denoted(t, lenient)}
    \cup UNION {{<<v>> \o rest : v \in Denoted(Before(t, i), lenient),
                                 rest \in {l \in Listed(After(t, i), lenient) : lenient \/ l # <<>>}}
                : i \in Where(t, ",")}

\* The members of an object; of two with the same name the last one counts.
Mapped(t, lenient) ==
    (IF IsBlank(t) THEN {<<>>} ELSE {})
    \cup UNION {{k :> v : k \in Quoted(Before(t, i)), v \in Denoted(After(t, i), lenient)}
                : i \in Where(t, ":")}
    \cup UNION {{rest @@ first : first \in Mapped(Before(t, i), lenient) \ {<<>>},
                                 rest \in {m \in Mapped(After(t, i), lenient) : lenient \/ m # <<>>}}
                : i \in Where(t, ",")}

-----------------------------------------------------------------------------
IsContainer(t) == Encloses(Trim(t), "{", "}") \/ Encloses(Trim(t), "[", "]")

\* [ ] is refused when there is a blank in it.
HasBlankArray(t) ==
    \E i, j \in 1..Len(t) : i + 1 < j /\ t[i] = "[" /\ t[j] = "]" /\ IsBlank(SubSeq(t, i + 1, j - 1))

(***************************************************************************)
(* A settings file that says something is read, and gives what it says,    *)
(* wherever the blocks of the reader end: parseFromFile, adjust.           *)
(***************************************************************************)
WholeFileParsed ==
    json.status # "unread" /\ state # "cut" /\ IsContainer(text) /\ ~HasBlankArray(text)
        /\ Denoted(text, FALSE) # {} =>
        json.status = "parsed" /\ ~json.past /\ json.value \in Denoted(text, FALSE)

(***************************************************************************)
(* What is accepted is said by the file, or by a beginning of it, in the   *)
(* lenient reading: a slip is not taken for something else, unless the     *)
(* parser has run on into what was left in its buffer.                     *)
(***************************************************************************)
AcceptedIsSaid ==
    json.status = "parsed" /\ ~json.past =>
        \E i \in 1..Len(text) : json.value \in Denoted(SubSeq(text, 1, i), TRUE)

(***************************************************************************)
(* A file that was cut off is refused and nothing undefined is done with   *)
(* it, as long as it is less than one block: the checks for an unexpected end,  *)
(* and the quotes, brackets and commas behind them, which then find the    *)
(* beginning of the file again.                                            *)
(***************************************************************************)
CutFileRefused ==
    json.status # "unread" /\ state = "cut" /\ Len(text) < block
        /\ Denoted(text, FALSE) = {} =>
        json.status = "refused"
=============================================================================
