--------------------------- MODULE MCSettingsFile ---------------------------
(***************************************************************************)
(* Settings files for TLC: nested objects and arrays, blanks, words,       *)
(* numbers, escapes, a name given twice.                                   *)
(***************************************************************************)
EXTENDS SettingsFile

Chars(s) == [i \in 1..Len(s) |-> SubSeq(s, i, i)]

MCTexts == {Chars(s) : s \in {
    "{\"a\":1,\"b\":{\"a\":[]}}",
    "{ \"a\" : [ \"1\" , -0.1e+1 ] , \"b\" : true }\n",
    "{\"\\u0061\\\"\":\"\\n\"}",
    "{\"a\":[null,{},1],\"a\":\"a\"}",
    "[{\"a\":{\"b\":10}},false]"}}

MCSlips == {"{", "}", "[", "]", "\"", ":", ",", " ", "1", "+", "\\"}
=============================================================================
