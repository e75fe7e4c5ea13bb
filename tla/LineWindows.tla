----------------------------- MODULE LineWindows ------------------------------
(***************************************************************************)
(* The windows of the lines of a file that read_file and read_lines answer *)
(* with (fs_tools.py): the lines, and the number of the first of them.     *)
(***************************************************************************)
EXTENDS Integers, Sequences

\* Python's slice of a sequence from index first up to index last, without it.
Slice(lines, first, last) ==
  SubSeq(lines, first + 1, IF last < Len(lines) THEN last ELSE Len(lines))

\* read_file: the lines of the head or the tail, and the number of the first.
ReadFile(lines, head, tail) ==
  LET first == IF tail > Len(lines) THEN 0 ELSE Len(lines) - tail
  IN  CASE head # -1 -> [lines |-> Slice(lines, 0, head), number |-> 1]
        [] head = -1 /\ tail # -1 -> [lines |-> Slice(lines, first, Len(lines)), number |-> first + 1]
        [] OTHER -> [lines |-> lines, number |-> 1]

Refused == [lines |-> <<>>, number |-> 0]
\* read_lines: from start to end, both included; -1 is the end of the file.
ReadLines(lines, start, end) ==
  CASE start < 1 -> Refused
    [] start >= 1 /\ end = -1 -> [lines |-> Slice(lines, start - 1, Len(lines)), number |-> start]
    [] start >= 1 /\ end # -1 /\ end < start -> Refused
    [] OTHER -> [lines |-> Slice(lines, start - 1, end), number |-> start]
=============================================================================
