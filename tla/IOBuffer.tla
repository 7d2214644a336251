------------------------------ MODULE IOBuffer ------------------------------
(***************************************************************************)
(* struct IO of Common/ServerCommon.h: a byte buffer with a read index     *)
(* (startPos) and a fill index (total).  Bytes are not represented; every  *)
(* byte is identified by its offset in the stream it belongs to, and base  *)
(* is the offset of the byte at buf[0].  The buffer therefore holds the    *)
(* interval base .. base+total-1 of its stream, and losing, repeating or   *)
(* reordering bytes shows as a wrong offset.                               *)
(***************************************************************************)
EXTENDS Naturals

EmptyIO == [base |-> 0, startPos |-> 0, total |-> 0]

IOType == {io \in [base: Nat, startPos: Nat, total: Nat] : io.startPos <= io.total}

Pending(io) == io.total - io.startPos

\* The stream offset of the next byte to take out, and to put in.
NextOut(io) == io.base + io.startPos
NextIn(io) == io.base + io.total

AppendBuffer(io, n) == [io EXCEPT !.total = @ + n]

\* startPos += n, in every callback that writes or decodes.
Consume(io, n) == [io EXCEPT !.startPos = @ + n]

\* Whatever was not taken out is gone: the next byte put in is buf[0].
ResetBuffer(io) == [base |-> NextIn(io), startPos |-> 0, total |-> 0]

\* Variants of compack: startPos left alone, and nothing done.
CompackKeepsIndex(io) == [base |-> NextOut(io), startPos |-> io.startPos, total |-> Pending(io)]
NoCompack(io) == io

Compack(io) == [base |-> NextOut(io), startPos |-> 0, total |-> Pending(io)]

\* resetBuffer is called on a write buffer only once it is drained.
ResetIfDrained(io) == IF io.startPos = io.total THEN ResetBuffer(io) ELSE io

(***************************************************************************)
(* Every IO has an ev_io watcher.  Callbacks end with ev_io_stop of one    *)
(* watcher and ev_io_start of another; a variant forgets the first.        *)
(***************************************************************************)
TurnWithoutStop(ws, stopped, started) == ws \cup {started}
Turn(ws, stopped, started) == (ws \ {stopped}) \cup {started}

\* A writer that has drained its buffer hands back to the reader; a variant
\* only stops.
TurnBackWithoutStart(ws, writer, reader) == ws \ {writer}
TurnBack(ws, writer, reader) == Turn(ws, writer, reader)
=============================================================================
