----------------------------- MODULE JournalFile -----------------------------
(***************************************************************************)
(* The file behind sensetrace.journal.Journal: JSON records, one per line. *)
(* A file is the sequence of its newline-terminated lines and what follows *)
(* the last newline.  An unterminated tail is "torn" when it does not      *)
(* decode and "whole" when it is a complete JSON object that only lacks    *)
(* its newline: Journal.read treats both as a recoverable partial record.  *)
(* A terminated line that does not decode is Malformed.                    *)
(***************************************************************************)
EXTENDS Naturals, Sequences

CONSTANT Malformed

Tails == {"none", "torn", "whole"}

Files(Record) == [lines : Seq(Record \cup {Malformed}), tail : Tails]

EmptyFile == [lines |-> <<>>, tail |-> "none"]

\* Journal.read returns events (rather than raising JournalCorruptionError)
\* exactly when every terminated line decodes.
Readable(file) == \A i \in 1..Len(file.lines) : file.lines[i] # Malformed

\* JournalRead.trailing_partial
TrailingPartial(file) == file.tail # "none"

\* Journal.append writes the record and its newline at the end of the file,
\* whatever is there: after an unterminated tail the two run together into
\* one line that no longer decodes.
Append1(file, record) ==
    [lines |-> Append(file.lines, IF TrailingPartial(file) THEN Malformed ELSE record),
     tail  |-> "none"]

\* The tails an append can leave when the process dies inside it: nothing of
\* the record, a part of it, or all of it but the newline.
TornAppends(file) ==
    IF TrailingPartial(file)
    THEN {file, [file EXCEPT !.tail = "torn"]}
    ELSE {[file EXCEPT !.tail = t] : t \in Tails}

\* Mutant: truncates one line too many.
TruncateLastLine(file) ==
    [lines |-> IF file.lines = <<>> THEN <<>> ELSE SubSeq(file.lines, 1, Len(file.lines) - 1),
     tail  |-> "none"]

\* Journal.recover, its first half: truncate the file to the last newline.
TruncateTail(file) == [file EXCEPT !.tail = "none"]

=============================================================================
