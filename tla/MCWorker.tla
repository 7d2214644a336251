------------------------------ MODULE MCWorker ------------------------------
(***************************************************************************)
(* Worker with two workers at most, of either program: settings with every *)
(* kind of count, a count that is no number or missing, a server without   *)
(* user map, a file without settings, an address that cannot be bound, a   *)
(* path that is relative and a file that is malformed.                     *)
(***************************************************************************)
EXTENDS Worker, TLC

Setup(program, file, addr, js) == [program |-> program, file |-> file, addr |-> addr, js |-> js]

Users == "user" :> JsonObject(<<>>)
Item(program) == CountItem([program |-> program])
Counting(program, json) == JsonObject(Item(program) :> json @@ Users)
Two(program) == Counting(program, JsonNumber(20))

SomeSetups ==
    {Setup("local", "absolute", TRUE, Counting("local", JsonNumber(n))) : n \in {10, 29}}
    \cup {Setup("server", "absolute", TRUE, Counting("server", JsonNumber(n))) : n \in {-10, 0, 1010}}
    \cup {Setup("server", "absolute", TRUE, js) :
            js \in {JsonObject(Item("server") :> JsonNumber(20)),
                   Counting("server", JsonString("2")), JsonObject(Users)}}
    \cup {Setup("local", "absolute", FALSE, JsonNil), Setup("server", "absolute", FALSE, Two("server")),
          Setup("local", "relative", TRUE, Two("local")), Setup("server", "malformed", TRUE, Two("server"))}
==============================================================================
