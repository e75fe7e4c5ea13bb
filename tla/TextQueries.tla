----------------------------- MODULE TextQueries ------------------------------
(***************************************************************************)
(* Questions about texts: edits and positions in a text, and windows of    *)
(* the lines of a file.  A behaviour is one question and its answer; the   *)
(* answer, which the code finds by line and column, is compared with one   *)
(* that is found by index.                                                 *)
(***************************************************************************)
EXTENDS TextEdits, LineWindows, Functions

CONSTANTS MaxText,   \* bound: characters of a text
          MaxEdits,  \* bound: edits of one answer
          MaxLines   \* bound: lines of a file

ASSUME TextBoundsAssumption == MaxText \in Nat /\ MaxEdits \in Nat /\ MaxLines \in Nat

VARIABLES question, answer
vars == <<question, answer>>

-----------------------------------------------------------------------------
(* Texts.                                                                    *)

Texts(chars) == UNION {[1 .. n -> chars] : n \in 0 .. MaxText}
News == {<<>>, <<"a">>, <<"a", LF>>}

\* Buffers hold texts with LF only, as files are read.  Ranges by index, one after the
\* other, of edits that are sent in any order; the last range may be named by the line
\* past the end.
EditQuestions ==
  UNION {{q \in [kind : {"edits"}, text : Texts({"x", LF}), from : [1 .. n -> 0 .. MaxText],
                 to : [1 .. n -> 0 .. MaxText], new : [1 .. n -> News],
                 order : {p \in [1 .. n -> 1 .. n] : IsInjective(p)}, past : BOOLEAN] :
            /\ \A i \in 1 .. n : q.from[i] <= q.to[i] /\ q.to[i] <= Len(q.text)
            /\ \A i \in 1 .. n - 1 : q.to[i] <= q.from[i + 1] /\ q.from[i] < q.from[i + 1]
            /\ q.past => n > 0 /\ q.to[n] = Len(q.text)} : n \in 0 .. MaxEdits}

PositionQuestions ==
  {q \in [kind : {"position"}, text : Texts({"x", LF, CR}), first : 0 .. MaxText,
          last : 0 .. MaxText, new : News] :
     q.first <= q.last /\ q.last <= Len(q.text)}

WindowQuestions ==
  [kind : {"window"}, size : 0 .. MaxLines, head : -1 .. MaxLines + 1, tail : -1 .. MaxLines + 1,
   start : 0 .. MaxLines + 1, end : -1 .. MaxLines + 1]

\* The places after which a line begins, and the position of an index.
Breaks(text) == {i \in 1 .. Len(text) : text[i] = LF \/ (text[i] = CR /\ (i = Len(text) \/ text[i + 1] # LF))}
Position(text, index) ==
  LET before == {i \in Breaks(text) : i <= index} \cup {0}
  IN  <<Cardinality(before) - 1, index - (CHOOSE i \in before : \A j \in before : j <= i)>>
InNewline(text, index) ==
  0 < index /\ index < Len(text) /\ text[index] = CR /\ text[index + 1] = LF
\* The line past the last.
End(text) == <<Cardinality(Breaks(text)) + 1, 0>>

EditsOf(q) ==
  LET n == Len(q.new)
      to(i) == IF q.past /\ i = n THEN End(q.text) ELSE Position(q.text, q.to[i])
      edit(i) == [from |-> Position(q.text, q.from[i]), to |-> to(i), new |-> q.new[i]]
  IN  [k \in 1 .. n |-> edit(q.order[k])]

\* The text with every range replaced, from the end of the text on.
Replaced(q) ==
  LET n == Len(q.new)
      to(i) == IF i = 0 THEN 0 ELSE q.to[i]
      after[k \in 0 .. n] ==
        IF k = 0 THEN From(q.text, to(n))
        ELSE SubSeq(q.text, to(n - k) + 1, q.from[n - k + 1]) \o q.new[n - k + 1] \o after[k - 1]
  IN  after[n]

Positioned(q) ==
  LET from == Position(q.text, q.first)
      to == Position(q.text, q.last)
      end == End(q.text)
  IN  [at |-> PositionOf(q.text, q.first),
       back |-> IndexOf(q.text, from[1], from[2]),
       lines |-> Lines(q.text),
       inserted |-> Inserted(q.text, from[1], from[2], q.new),
       added |-> Inserted(q.text, end[1], end[2], q.new),
       deleted |-> Deleted(q.text, from, to),
       body |-> BodyOf(q.text, from, to),
       tail |-> BodyOf(q.text, from, end)]

Window(q) ==
  LET lines == [i \in 1 .. q.size |-> i]
  IN  [file |-> ReadFile(lines, q.head, q.tail), range |-> ReadLines(lines, q.start, q.end)]

-----------------------------------------------------------------------------
TextInit ==
  /\ answer = <<>>
  /\ question \in EditQuestions \/ question \in PositionQuestions \/ question \in WindowQuestions

Asked(kind) == question.kind = kind /\ answer = <<>> /\ UNCHANGED question

AskEdits == Asked("edits") /\ answer' = <<AppliedAll(question.text, EditsOf(question))>>
AskPosition == Asked("position") /\ answer' = <<Positioned(question)>>
AskWindow == Asked("window") /\ answer' = <<Window(question)>>

TextNext == AskEdits \/ AskPosition \/ AskWindow

TextSpec == TextInit /\ [][TextNext]_vars

Answered(kind) == question.kind = kind /\ answer # <<>>

-----------------------------------------------------------------------------
(* Properties.                                                               *)

\* A text without carriage returns.
IsUnix(text) == \A i \in DOMAIN text : text[i] # CR
AtMost(n, limit) == IF n < limit THEN n ELSE limit

\* apply_text_edits_to_file: edits of one answer, in whatever order they come, change the
\* text as if each were applied to the text as it was, which is what the server means.
EditsAreSimultaneous == Answered("edits") => answer[1] = Replaced(question)

InsertionsAgree(q, a) ==
  /\ a.inserted.text = Upto(q.text, q.first) \o q.new \o From(q.text, q.first)
  /\ ~InNewline(q.text, q.first) =>
       a.inserted.end = Position(a.inserted.text, q.first + Len(q.new))
  /\ IsUnix(q.text) =>
       a.added.text = q.text \o <<LF>> \o q.new
         /\ a.added.end = Position(a.added.text, Len(a.added.text))

DeletionsAgree(q, a) ==
  LET between == SubSeq(q.text, q.first + 1, q.last)
  IN  /\ a.deleted = [text |-> Upto(q.text, q.first) \o From(q.text, q.last), deleted |-> between]
      /\ IsUnix(q.text) => a.body = between /\ a.tail = From(q.text, q.first)

\* Every character but line ends is in the line and the column of its position, and
\* nothing else is in the lines.
LinesAgree(q, a) ==
  LET plain == {i \in 0 .. Len(q.text) - 1 : q.text[i + 1] \notin {LF, CR}}
      at(i) == Position(q.text, i)
  IN  /\ Len(a.lines) = Cardinality(Breaks(q.text)) + 1
      /\ \A i \in plain : /\ at(i)[1] + 1 \in DOMAIN a.lines
                          /\ at(i)[2] + 1 \in DOMAIN a.lines[at(i)[1] + 1]
                          /\ a.lines[at(i)[1] + 1][at(i)[2] + 1] = q.text[i + 1]
      /\ \A k \in DOMAIN a.lines : \A c \in DOMAIN a.lines[k] : \E i \in plain : at(i) = <<k - 1, c - 1>>

\* The two ways between index and position are inverse to each other, except that an
\* index inside \r\n is the start of the next line; what is inserted, deleted and read as
\* a symbol's body by position is what the indexes say; and the line that a window of a
\* file numbers n is its line n.
PositionsAgree ==
  /\ Answered("position") =>
       LET q == question
           a == answer[1]
           there == Position(q.text, q.first)
       IN  /\ a.at = IF InNewline(q.text, q.first) THEN <<there[1] + 1, 0>> ELSE there
           /\ a.back = q.first
           /\ InsertionsAgree(q, a) /\ DeletionsAgree(q, a) /\ LinesAgree(q, a)
  /\ Answered("window") =>
       LET numbered(w) == \A k \in DOMAIN w.lines : w.lines[k] = w.number + k - 1
           q == question
           file == answer[1].file
           range == {n \in 1 .. q.size : q.start <= n /\ (q.end = -1 \/ n <= q.end)}
       IN  /\ numbered(file) /\ numbered(answer[1].range)
           /\ q.head # -1 => Len(file.lines) = AtMost(q.head, q.size)
           /\ q.head = -1 /\ q.tail # -1 => Len(file.lines) = AtMost(q.tail, q.size)
                                             /\ file.number + Len(file.lines) = q.size + 1
           /\ q.start >= 1 => Range(answer[1].range.lines) = range
=============================================================================
