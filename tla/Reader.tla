------------------------------- MODULE Reader -------------------------------
(***************************************************************************)
(* io::Reader over a StreamReader (src/CommonLib/Reader.cpp): a file read  *)
(* block by block into a buffer that is never cleared.  A character is a   *)
(* string of length one, a file a sequence of them.  Reading stays on the  *)
(* buffer after the file has ended, and then finds what is left in it.     *)
(***************************************************************************)
EXTENDS Naturals, Sequences

Unset == "unset"      \* what no read has put there, inside the buffer or behind it

Blank == {" ", "\n", "\t"}

\* past: has anything been read for when the file had no more?
Open(file, block) ==
    [file |-> file, block |-> block, pos |-> 0, buf |-> [i \in 0..(block - 1) |-> Unset],
     index |-> 0, total |-> 0, eof |-> FALSE, past |-> FALSE, status |-> "reading"]

Cell(r, i) == IF i < r.block THEN r.buf[i] ELSE Unset
Here(r) == Cell(r, r.index)

\* read and gcount of the stream: what is not overwritten stays.
Refill(r) ==
    LET left == Len(r.file) - r.pos
        n == IF left < r.block THEN left ELSE r.block
    IN  [r EXCEPT !.buf = [i \in DOMAIN @ |-> IF i < n THEN r.file[r.pos + 1 + i] ELSE @[i]],
                  !.pos = @ + n, !.index = 0, !.total = n,
                  !.eof = @ \/ n < r.block, !.past = @ \/ n = 0]

\* A use of a character that was never read is undefined.
Checked(r) ==
    IF Here(r) = Unset /\ r.status = "reading"
    THEN [r EXCEPT !.status = "undefined"] ELSE r

\* A variant: the index is not set back with a new block.
AdjustKeepsIndex(r) ==
    Checked(IF r.index = r.total THEN [Refill(r) EXCEPT !.index = r.index] ELSE r)

Adjust(r) == Checked(IF r.index = r.total THEN Refill(r) ELSE r)

IsEnd(r) == r.eof /\ r.index = r.total

Top(r) == Here(Adjust(r))

\* readChar, and the character it has returned.
Read(r) == [Adjust(r) EXCEPT !.index = @ + 1]
LastRead(r) == Cell(r, r.index - 1)

Skip(r) == IF IsEnd(r) THEN r ELSE Read(r)

\* skip(skipSpace), followed by the adjust of a top().
RECURSIVE SkipSpace(_)
SkipSpace(r) ==
    IF ~IsEnd(r) /\ Top(r) \in Blank THEN SkipSpace(Skip(Adjust(r))) ELSE Adjust(r)

\* readChar(skipSpace).
RECURSIVE ReadPastSpace(_)
ReadPastSpace(r) == IF Top(r) \in Blank THEN ReadPastSpace(Read(r)) ELSE Read(r)
=============================================================================
