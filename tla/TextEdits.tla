------------------------------ MODULE TextEdits -------------------------------
(***************************************************************************)
(* Positions in texts, and edits by position (ls_utils.py TextStepper and  *)
(* TextUtils, ls.py apply_text_edits_to_file and SymbolBody).  A text is a *)
(* sequence of characters of which only line ends matter; an index counts  *)
(* the characters before it, a position is a line and a column, from 0.    *)
(***************************************************************************)
EXTENDS Integers, Sequences, FiniteSets

LF == "lf"
CR == "cr"
Invalid == -1                \* InvalidTextLocationError
NoText == <<"no text">>      \* what is deleted or read then

Upto(text, n) == SubSeq(text, 1, n)             \* text[:n]
From(text, n) == SubSeq(text, n + 1, Len(text)) \* text[n:]

-----------------------------------------------------------------------------
(* TextStepper.                                                              *)

Stepper0 == [line |-> 0, col |-> 0, idx |-> 0, start |-> 0, newline |-> FALSE,
             prevStart |-> 0, prevEnd |-> 0]

\* Faulty variant: \r\n counts as two line ends.
NewlineEndByte(text, i) == i + 1
\* The index after the newline sequence that begins at index i.
NewlineEnd(text, i) ==
  IF text[i + 1] = CR /\ i + 1 < Len(text) /\ text[i + 2] = LF THEN i + 2 ELSE i + 1

\* step_line: past the next newline sequence, or to the end of the text.
StepLine(text, s) ==
  LET ends == {i \in s.idx .. Len(text) - 1 : text[i + 1] \in {LF, CR}}
      first == CHOOSE i \in ends : \A j \in ends : i <= j
      next == NewlineEnd(text, first)
  IN  IF ends = {}
        THEN [s EXCEPT !.idx = Len(text), !.col = Len(text) - s.start, !.newline = FALSE]
        ELSE [line |-> s.line + 1, col |-> 0, idx |-> next, start |-> next, newline |-> TRUE,
              prevStart |-> s.start, prevEnd |-> first]

\* The stepper after k steps; a step at the end of the text changes nothing.
Stepped(text) ==
  LET after[k \in 0 .. Len(text) + 1] ==
        IF k = 0 THEN Stepper0
        ELSE IF after[k - 1].idx >= Len(text) THEN after[k - 1]
        ELSE StepLine(text, after[k - 1])
  IN  after

\* process_all
AtEnd(text) == Stepped(text)[Len(text) + 1]

\* process_all_gather_lines without line ends; the last line has none and may be empty.
Lines(text) ==
  LET steps == Stepped(text)
      line(k) == SubSeq(text, steps[k].prevStart + 1, steps[k].prevEnd)
  IN  [k \in 1 .. AtEnd(text).line |-> line(k)] \o <<From(text, AtEnd(text).start)>>

-----------------------------------------------------------------------------
(* TextUtils.                                                                *)

\* get_index_from_line_col: the column is added to the start of the line, unchecked.
IndexOf(text, line, col) ==
  LET steps == Stepped(text)
      there == {k \in DOMAIN steps : steps[k].line = line}
  IN  IF there = {} THEN Invalid ELSE steps[CHOOSE k \in there : TRUE].start + col

\* get_line_col_from_index
PositionOf(text, index) ==
  LET steps == Stepped(text)
      past == {k \in DOMAIN steps : steps[k].idx > index}
      s == steps[CHOOSE k \in past : \A j \in past : k <= j]
      end == AtEnd(text)
  IN  CASE past = {} /\ index > end.idx -> <<Invalid, Invalid>>
        [] past = {} -> <<end.line, end.col>>
        [] past # {} /\ s.newline /\ index > s.prevEnd -> <<s.line, 0>>
        [] past # {} /\ s.newline /\ index <= s.prevEnd -> <<s.line - 1, index - s.prevStart>>
        [] OTHER -> <<s.line, index - s.start>>

\* _get_updated_position_from_line_and_column_and_edit
PositionAfter(line, col, new) ==
  LET end == AtEnd(new)
  IN  IF end.line > 0 THEN <<line + end.line, end.col>> ELSE <<line, col + end.col>>

\* One line past the last, which a range through the end of a text may name.
IsPastEnd(text, line, col) == line = AtEnd(text).line + 1 /\ col = 0

\* insert_text_at_position: past the end, the missing line end is added.
Inserted(text, line, col, new) ==
  LET at == IndexOf(text, line, col)
      end == AtEnd(text)
      put(i, l, c, what) == [text |-> Upto(text, i) \o what \o From(text, i),
                             end |-> PositionAfter(l, c, what)]
  IN  CASE at # Invalid -> put(at, line, col, new)
        [] at = Invalid /\ IsPastEnd(text, line, col) ->
             put(Len(text), end.line, end.col, <<LF>> \o new)
        [] OTHER -> [text |-> text, end |-> <<Invalid, Invalid>>]

\* delete_text_between_positions: an end past the last line is the end of the text.
Deleted(text, from, to) ==
  LET first == IndexOf(text, from[1], from[2])
      at == IndexOf(text, to[1], to[2])
      last == IF at = Invalid /\ IsPastEnd(text, to[1], to[2]) THEN Len(text) ELSE at
  IN  IF Invalid \in {first, last}
        THEN [text |-> text, deleted |-> NoText]
        ELSE [text |-> Upto(text, first) \o From(text, last),
              deleted |-> SubSeq(text, first + 1, last)]

-----------------------------------------------------------------------------
(* apply_text_edits_to_file, and SymbolBody.                                 *)

Before(p, q) == p[1] < q[1] \/ (p[1] = q[1] /\ p[2] < q[2])

\* A sort that keeps the order of those of which neither goes ahead of the other.
SortedBy(seq, Ahead(_, _)) ==
  LET precedes(j, i) == Ahead(seq[j], seq[i]) \/ (~Ahead(seq[i], seq[j]) /\ j <= i)
      place(i) == Cardinality({j \in DOMAIN seq : precedes(j, i)})
  IN  [k \in DOMAIN seq |-> seq[CHOOSE i \in DOMAIN seq : place(i) = k]]

\* Faulty variant: the edits are applied from the first on.
FirstOnTop(edits) == SortedBy(edits, LAMBDA d, e : Before(d.from, e.from))
\* Edits sorted by their start, latest first; those with one start stay in order.
LatestFirst(edits) == SortedBy(edits, LAMBDA d, e : Before(e.from, d.from))

\* Each edit deletes its range and inserts its text at the start.
Applied(text, edit) ==
  Inserted(Deleted(text, edit.from, edit.to).text, edit.from[1], edit.from[2], edit.new).text

AppliedAll(text, edits) ==
  LET sorted == LatestFirst(edits)
      after[k \in 0 .. Len(edits)] == IF k = 0 THEN text ELSE Applied(after[k - 1], sorted[k])
  IN  after[Len(edits)]

\* Join, split and cut of get_text: lines end in LF alone, a range may end past the end.
SplitLines(text) ==
  LET ends == {i \in 1 .. Len(text) : text[i] = LF} \cup {0, Len(text) + 1}
      cut(k) == CHOOSE i \in ends : Cardinality({j \in ends : j < i}) = k
  IN  [k \in 1 .. Cardinality(ends) - 1 |-> SubSeq(text, cut(k - 1) + 1, cut(k) - 1)]

Joined(lines) ==
  LET upto[k \in 0 .. Len(lines)] == CASE k = 0 -> <<>>
                                       [] k = 1 -> lines[1]
                                       [] OTHER -> upto[k - 1] \o <<LF>> \o lines[k]
  IN  upto[Len(lines)]

BodyOf(text, from, to) ==
  LET lines == SplitLines(text)
      past == to[1] = Len(lines) /\ to[2] = 0
      last == IF past THEN Len(lines) ELSE to[1] + 1
      cut == IF past THEN 0 ELSE Len(lines[last]) - to[2]
      whole == From(Joined(SubSeq(lines, from[1] + 1, last)), from[2])
  IN  IF to[1] >= Len(lines) /\ ~past THEN NoText
      ELSE IF cut > 0 THEN Upto(whole, Len(whole) - cut) ELSE whole
=============================================================================
