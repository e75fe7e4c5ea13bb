----------------------------- MODULE QueriesProofs ----------------------------
(***************************************************************************)
(* Theorems about TextQueries, for texts, edits and files of any size: a   *)
(* set of edits is as if all were made at once, positions and indexes lead *)
(* to each other, and windows show the lines they number.  And about       *)
(* SymbolPositions, for any document: the symbol at a position is the      *)
(* innermost, and so is the one that contains it.                          *)
(*                                                                         *)
(* A behaviour is one question and its answer, so the inductive invariant  *)
(* only says that the answer is that to the question (Truthful).  The rest *)
(* is about the operators: where the stepper stands after k steps          *)
(* (Standing) gives positions, lines and bodies; the edits are sorted with *)
(* the latest first (LatestAreFirst), so that the text before the next one *)
(* is still what it was (EditsReplace).  Of finitely many sort keys one is *)
(* least (LeastIs), and a range inside another has the lesser key          *)
(* (InsideGoesAhead).                                                      *)
(***************************************************************************)
EXTENDS TextQueries, SymbolPositions, TLAPS, FiniteSetTheorems, WellFoundedInduction

\* The characters of the questions; only line ends matter.
Letters == {"a", "x", LF, CR}
Text == Seq(Letters)
Newlines == {LF, CR}

-----------------------------------------------------------------------------
(* Induction over natural numbers, by sets.                                  *)

\* A set of natural numbers that has a member has a smallest one.
LEMMA Smallest ==
  ASSUME NEW S \in SUBSET Nat, S # {}
  PROVE  \E x \in S : \A y \in S : x <= y
<1>1. PICK x \in S : \A y \in S : ~ (<<y, x>> \in OpToRel(<, Nat))
  BY NatLessThanWellFounded, WFMin
<1>2. \A y \in S : x =< y
  <2> SUFFICES ASSUME NEW y \in S PROVE x =< y
    OBVIOUS
  <2>1. <<y, x>> \in Nat \X Nat => ~ (y < x)
    BY <1>1 DEF OpToRel
  <2> QED BY <2>1
<1> QED BY <1>2

\* A set that has 0 and with every number the next one has all of them.
LEMMA Induct ==
  ASSUME NEW N \in Nat, NEW S, 0 \in S, \A k \in 0 .. N - 1 : k \in S => k + 1 \in S
  PROVE  \A k \in 0 .. N : k \in S
<1> DEFINE Bad == {k \in 0 .. N : k \notin S}
<1> SUFFICES ASSUME Bad # {} PROVE FALSE
  OBVIOUS
<1>1. Bad \in SUBSET Nat
  OBVIOUS
<1>2. \E b \in Bad : \A y \in Bad : b <= y
  <2> HIDE DEF Bad
  <2> QED BY <1>1, Smallest
<1>3. PICK b \in Bad : \A y \in Bad : b <= y
  BY <1>2
<1>4. b # 0 /\ b - 1 \in 0 .. N - 1 /\ b - 1 \notin Bad
  BY <1>3
<1> QED BY <1>3, <1>4

\* A function that is defined step by step exists.
LEMMA Recursion ==
  ASSUME NEW X, NEW x0 \in X, NEW N \in Nat, NEW step \in [1 .. N -> [X -> X]]
  PROVE  \E f \in [0 .. N -> X] : f[0] = x0 /\ \A k \in 1 .. N : f[k] = step[k][f[k - 1]]
<1> DEFINE Upward(m, f) == /\ f \in [0 .. m -> X] /\ f[0] = x0
                           /\ \A k \in 1 .. m : f[k] = step[k][f[k - 1]]
           S == {m \in 0 .. N : \E f \in [0 .. m -> X] : Upward(m, f)}
<1>1. 0 \in S
  <2>1. Upward(0, [k \in 0 .. 0 |-> x0])
    OBVIOUS
  <2>2. \E f \in [0 .. 0 -> X] : Upward(0, f)
    BY <2>1
  <2> QED BY <2>2
<1>2. ASSUME NEW m \in 0 .. N - 1, m \in S PROVE m + 1 \in S
  <2>1. PICK f \in [0 .. m -> X] : Upward(m, f)
    BY <1>2
  <2> DEFINE g == [k \in 0 .. m + 1 |-> IF k <= m THEN f[k] ELSE step[m + 1][f[m]]]
  <2>2. g \in [0 .. m + 1 -> X] /\ g[0] = x0
    BY <2>1
  <2>3. \A k \in 1 .. m + 1 : g[k] = step[k][g[k - 1]]
    BY <2>1
  <2>4. Upward(m + 1, g)
    BY <2>2, <2>3
  <2> HIDE DEF g, Upward
  <2>5. \E h \in [0 .. m + 1 -> X] : Upward(m + 1, h)
    BY <2>4, <2>2
  <2>6. m + 1 \in 0 .. N
    OBVIOUS
  <2> QED BY <2>5, <2>6
<1>3. N \in S
  <2>1. \A m \in 0 .. N - 1 : m \in S => m + 1 \in S
    BY <1>2
  <2> HIDE DEF S
  <2>2. \A m \in 0 .. N : m \in S
    BY <1>1, <2>1, Induct
  <2> QED BY <2>2
<1> QED BY <1>3 DEF S

-----------------------------------------------------------------------------
(* Positions.                                                                *)

Begins(text, i) == {b \in Breaks(text) : b <= i} \cup {0}
Top(S) == CHOOSE b \in S : \A j \in S : j <= b

\* A bounded set of numbers that is not empty has a largest one.
LEMMA TopIn ==
  ASSUME NEW N \in Nat, NEW S \in SUBSET (0 .. N), S # {}
  PROVE  Top(S) \in S
<1> DEFINE D == {d \in 0 .. N : N - d \in S}
<1>1. D \in SUBSET Nat
  OBVIOUS
<1>2. D # {}
  <2>1. PICK x \in S : TRUE
    OBVIOUS
  <2>2. N - x \in D
    OBVIOUS
  <2> QED BY <2>2
<1>3. PICK d \in D : \A y \in D : d <= y
  <2> HIDE DEF D
  <2> QED BY <1>1, <1>2, Smallest
<1>4. N - d \in S /\ \A j \in S : j <= N - d
  <2>1. \A j \in S : N - j \in D
    OBVIOUS
  <2> QED BY <1>3, <2>1
<1> QED BY <1>4 DEF Top

\* The row counts the beginnings of lines up to an index, the column starts at the last.
LEMMA PositionIs ==
  ASSUME NEW text, NEW i \in Int
  PROVE  Position(text, i) = <<Cardinality(Begins(text, i)) - 1, i - Top(Begins(text, i))>>
<1> QED BY DEF Position, Begins, Top

\* A text begins in row and column 0.
LEMMA PositionZero ==
  ASSUME NEW text \in Text
  PROVE  Position(text, 0) = <<0, 0>>
<1>1. Begins(text, 0) = {0}
  BY DEF Breaks, Begins
<1>2. Cardinality({0}) = 1
  BY FS_Singleton
<1>3. Top({0}) = 0
  BY DEF Top
<1> QED BY <1>1, <1>2, <1>3, PositionIs

\* The position of the next index.
LEMMA PositionNext ==
  ASSUME NEW text \in Text, NEW i \in 0 .. Len(text) - 1, Position(text, i) \in Nat \X Nat
  PROVE  Position(text, i + 1) = IF i + 1 \in Breaks(text) THEN <<Position(text, i)[1] + 1, 0>>
                                 ELSE <<Position(text, i)[1], Position(text, i)[2] + 1>>
<1> DEFINE A == Begins(text, i)
           C == Begins(text, i + 1)
<1>1. Position(text, i) = <<Cardinality(A) - 1, i - Top(A)>>
      /\ Position(text, i + 1) = <<Cardinality(C) - 1, (i + 1) - Top(C)>>
  <2>1. i \in Int /\ i + 1 \in Int
    OBVIOUS
  <2>2. Position(text, i) = <<Cardinality(Begins(text, i)) - 1, i - Top(Begins(text, i))>>
    BY <2>1, PositionIs
  <2>3. Position(text, i + 1) = <<Cardinality(Begins(text, i + 1)) - 1, (i + 1) - Top(Begins(text, i + 1))>>
    BY <2>1, PositionIs
  <2> QED BY <2>2, <2>3
<1>2. A \subseteq 0 .. i /\ C \subseteq 0 .. i + 1
  BY DEF Breaks, Begins
<1>3. IsFiniteSet(A) /\ Cardinality(A) \in Nat
  <2>1. IsFiniteSet(0 .. i)
    BY FS_Interval
  <2> QED BY <1>2, <2>1, FS_Subset, FS_CardinalityType
<1>4. A # {}
  BY DEF Begins
<1>5. Top(A) \in 0 .. i
  <2>1. i \in Nat /\ A \in SUBSET (0 .. i)
    BY <1>2
  <2> HIDE DEF A
  <2>2. Top(A) \in A
    BY <2>1, <1>4, TopIn
  <2> QED BY <2>1, <2>2
<1>6. CASE i + 1 \in Breaks(text)
  <2>1. C = A \cup {i + 1} /\ i + 1 \notin A
    BY <1>6, <1>2 DEF Breaks, Begins
  <2>2. Cardinality(C) = Cardinality(A) + 1
    BY <2>1, <1>3, FS_AddElement
  <2>3. Top(C) = i + 1
    BY <2>1, <1>2 DEF Top
  <2> HIDE DEF A, C
  <2> QED BY <1>1, <2>2, <2>3, <1>6, <1>3
<1>7. CASE i + 1 \notin Breaks(text)
  <2>1. C = A
    BY <1>7 DEF Breaks, Begins
  <2> HIDE DEF A, C
  <2>3. Top(C) = Top(A) /\ Cardinality(C) = Cardinality(A)
    BY <2>1
  <2>4. Top(A) \in Int
    BY <1>5
  <2> QED BY <1>1, <2>3, <2>4, <1>7, <1>3
<1> QED BY <1>6, <1>7

\* Rows and columns are natural numbers.
LEMMA PositionType ==
  ASSUME NEW text \in Text
  PROVE  \A i \in 0 .. Len(text) : Position(text, i) \in Nat \X Nat
<1> DEFINE S == {i \in 0 .. Len(text) : Position(text, i) \in Nat \X Nat}
<1>1. 0 \in S
  BY PositionZero DEF Text
<1>2. \A i \in 0 .. Len(text) - 1 : i \in S => i + 1 \in S
  <2> SUFFICES ASSUME NEW i \in 0 .. Len(text) - 1, i \in S PROVE i + 1 \in S
    OBVIOUS
  <2>1. Position(text, i) \in Nat \X Nat
    OBVIOUS
  <2>2. Position(text, i + 1) = IF i + 1 \in Breaks(text) THEN <<Position(text, i)[1] + 1, 0>>
                                ELSE <<Position(text, i)[1], Position(text, i)[2] + 1>>
    BY <2>1, PositionNext
  <2>3. Position(text, i + 1) \in Nat \X Nat
    BY <2>1, <2>2
  <2> QED BY <2>3
<1>3. Len(text) \in Nat
  BY DEF Text
<1>4. \A i \in 0 .. Len(text) : i \in S
  <2> HIDE DEF S
  <2> QED BY <1>1, <1>2, <1>3, Induct
<1> QED BY <1>4

\* Line and column of an index.
Row(text, i) == Position(text, i)[1]
Col(text, i) == Position(text, i)[2]

\* What the next character does to row and column.
LEMMA RowCol ==
  ASSUME NEW text \in Text
  PROVE  /\ \A i \in 0 .. Len(text) : /\ Row(text, i) \in Nat /\ Col(text, i) \in Nat
                                      /\ Position(text, i) = <<Row(text, i), Col(text, i)>>
         /\ Row(text, 0) = 0 /\ Col(text, 0) = 0
         /\ \A i \in 0 .. Len(text) - 1 :
              IF i + 1 \in Breaks(text)
                THEN Row(text, i + 1) = Row(text, i) + 1 /\ Col(text, i + 1) = 0
                ELSE Row(text, i + 1) = Row(text, i) /\ Col(text, i + 1) = Col(text, i) + 1
<1>1. ASSUME NEW i \in 0 .. Len(text)
      PROVE  /\ Row(text, i) \in Nat /\ Col(text, i) \in Nat
             /\ Position(text, i) = <<Row(text, i), Col(text, i)>>
  <2>1. Position(text, i) \in Nat \X Nat
    BY PositionType
  <2> QED BY <2>1 DEF Row, Col
<1>2. Row(text, 0) = 0 /\ Col(text, 0) = 0
  BY PositionZero DEF Row, Col
<1>3. ASSUME NEW i \in 0 .. Len(text) - 1
      PROVE  IF i + 1 \in Breaks(text)
               THEN Row(text, i + 1) = Row(text, i) + 1 /\ Col(text, i + 1) = 0
               ELSE Row(text, i + 1) = Row(text, i) /\ Col(text, i + 1) = Col(text, i) + 1
  <2>1. Position(text, i) \in Nat \X Nat
    BY PositionType DEF Text
  <2>2. Position(text, i + 1) = IF i + 1 \in Breaks(text) THEN <<Position(text, i)[1] + 1, 0>>
                                ELSE <<Position(text, i)[1], Position(text, i)[2] + 1>>
    BY <2>1, PositionNext
  <2> QED BY <2>2 DEF Row, Col
<1> QED BY <1>1, <1>2, <1>3

\* Within a line the column grows with the index.
LEMMA SameRow ==
  ASSUME NEW text \in Text, NEW i \in 0 .. Len(text), NEW j \in i .. Len(text),
         \A b \in i + 1 .. j : b \notin Breaks(text)
  PROVE  Row(text, j) = Row(text, i) /\ Col(text, j) = Col(text, i) + (j - i)
<1> DEFINE S == {d \in 0 .. j - i : /\ Row(text, i + d) = Row(text, i)
                                    /\ Col(text, i + d) = Col(text, i) + d}
<1>0. Len(text) \in Nat
  BY DEF Text
<1>1. 0 \in S
  BY <1>0, RowCol
<1>2. \A d \in 0 .. (j - i) - 1 : d \in S => d + 1 \in S
  <2> SUFFICES ASSUME NEW d \in 0 .. (j - i) - 1, d \in S PROVE d + 1 \in S
    OBVIOUS
  <2>1. i + d \in 0 .. Len(text) - 1 /\ (i + d) + 1 \notin Breaks(text)
    BY <1>0
  <2>2. Row(text, (i + d) + 1) = Row(text, i + d) /\ Col(text, (i + d) + 1) = Col(text, i + d) + 1
    BY <2>1, RowCol
  <2>3. (i + d) + 1 = i + (d + 1) /\ Col(text, i) \in Nat
    BY RowCol
  <2> QED BY <2>2, <2>3
<1>3. \A d \in 0 .. j - i : d \in S
  <2>1. j - i \in Nat
    BY <1>0
  <2> HIDE DEF S
  <2> QED BY <1>1, <1>2, <2>1, Induct
<1>4. j - i \in S /\ i + (j - i) = j
  BY <1>3, <1>0
<1> QED BY <1>4

\* A later index has a later position.
LEMMA Later ==
  ASSUME NEW text \in Text, NEW i \in 0 .. Len(text), NEW j \in i .. Len(text)
  PROVE  /\ Row(text, i) <= Row(text, j)
         /\ i < j => Row(text, i) < Row(text, j) \/ (Row(text, i) = Row(text, j) /\ Col(text, i) < Col(text, j))
<1> DEFINE Ahead(k) == \/ Row(text, i) < Row(text, k)
                       \/ Row(text, i) = Row(text, k) /\ Col(text, i) + (k - i) = Col(text, k)
           S == {d \in 0 .. j - i : Ahead(i + d)}
<1>0. Len(text) \in Nat
  BY DEF Text
<1>1. 0 \in S
  BY <1>0, RowCol
<1>2. \A d \in 0 .. (j - i) - 1 : d \in S => d + 1 \in S
  <2> SUFFICES ASSUME NEW d \in 0 .. (j - i) - 1, d \in S PROVE d + 1 \in S
    OBVIOUS
  <2>1. i + d \in 0 .. Len(text) - 1
    BY <1>0
  <2>2. \/ Row(text, (i + d) + 1) = Row(text, i + d) + 1
        \/ Row(text, (i + d) + 1) = Row(text, i + d) /\ Col(text, (i + d) + 1) = Col(text, i + d) + 1
    BY <2>1, RowCol
  <2>3. (i + d) + 1 = i + (d + 1) /\ Row(text, i) \in Nat /\ Col(text, i) \in Nat
        /\ Row(text, i + d) \in Nat
    BY <2>1, RowCol
  <2>4. Ahead(i + d)
    OBVIOUS
  <2>5. Ahead((i + d) + 1)
    BY <2>2, <2>3, <2>4
  <2> HIDE DEF Ahead
  <2> QED BY <2>5, <2>3
<1>3. \A d \in 0 .. j - i : d \in S
  <2>1. j - i \in Nat
    BY <1>0
  <2> HIDE DEF S
  <2> QED BY <1>1, <1>2, <2>1, Induct
<1>4. Ahead(j)
  <2>1. j - i \in S /\ i + (j - i) = j
    BY <1>3, <1>0
  <2> QED BY <2>1
<1> QED BY <1>4, <1>0, RowCol

\* The line of an index begins at an index: after a break, or at the beginning.
LEMMA RowStart ==
  ASSUME NEW text \in Text, NEW i \in 0 .. Len(text)
  PROVE  /\ i - Col(text, i) \in 0 .. i
         /\ \A b \in (i - Col(text, i)) + 1 .. i : b \notin Breaks(text)
         /\ i - Col(text, i) \in Breaks(text) \cup {0}
         /\ Row(text, i - Col(text, i)) = Row(text, i) /\ Col(text, i - Col(text, i)) = 0
<1> DEFINE At(k) == k - Col(text, k)
           Starts(k) == /\ At(k) \in 0 .. k
                        /\ \A b \in At(k) + 1 .. k : b \notin Breaks(text)
                        /\ At(k) \in Breaks(text) \cup {0}
                        /\ Row(text, At(k)) = Row(text, k) /\ Col(text, At(k)) = 0
           S == {k \in 0 .. Len(text) : Starts(k)}
<1>0. Len(text) \in Nat
  BY DEF Text
<1>1. 0 \in S
  BY <1>0, RowCol
<1>2. \A k \in 0 .. Len(text) - 1 : k \in S => k + 1 \in S
  <2> SUFFICES ASSUME NEW k \in 0 .. Len(text) - 1, k \in S PROVE k + 1 \in S
    OBVIOUS
  <2>1. Starts(k) /\ Col(text, k) \in Nat /\ k + 1 \in 0 .. Len(text)
    BY RowCol, <1>0
  <2>2. CASE k + 1 \in Breaks(text)
    <3>1. Col(text, k + 1) = 0 /\ At(k + 1) = k + 1
      BY <2>2, RowCol, <1>0
    <3> QED BY <3>1, <2>2, <2>1
  <2>3. CASE k + 1 \notin Breaks(text)
    <3>1. Col(text, k + 1) = Col(text, k) + 1 /\ Row(text, k + 1) = Row(text, k)
      BY <2>3, RowCol, <1>0
    <3>2. At(k + 1) = At(k)
      BY <3>1, <2>1
    <3> QED BY <3>1, <3>2, <2>3, <2>1
  <2> QED BY <2>2, <2>3
<1>3. \A k \in 0 .. Len(text) : k \in S
  <2> HIDE DEF S
  <2> QED BY <1>1, <1>2, <1>0, Induct
<1>4. Starts(i)
  BY <1>3
<1> QED BY <1>4

-----------------------------------------------------------------------------
(* TextStepper.                                                              *)

StepperType == [line : Nat, col : Int, idx : Nat, start : Nat, newline : BOOLEAN,
                prevStart : Nat, prevEnd : Nat]

\* No line end among the characters after the first from, up to the first to.
Plain(text, from, to) == \A i \in from + 1 .. to : text[i] \notin Newlines
Unbroken(text, from, to) == \A b \in from + 1 .. to : b \notin Breaks(text)

\* No line begins where there is no newline character.
LEMMA PlainIsUnbroken ==
  ASSUME NEW text, NEW from, NEW to, Plain(text, from, to)
  PROVE  Unbroken(text, from, to)
<1> QED BY DEF Plain, Unbroken, Breaks, Newlines

\* A line begins after a newline sequence, not within it.
LEMMA NewlineEndIsBreak ==
  ASSUME NEW text \in Text, NEW first \in 0 .. Len(text) - 1, text[first + 1] \in Newlines
  PROVE  LET next == NewlineEnd(text, first)
         IN  /\ next \in first + 1 .. first + 2 /\ next <= Len(text)
             /\ next \in Breaks(text) /\ Unbroken(text, first, next - 1)
             /\ text[next] \in Newlines
             /\ next = first + 2 => text[first + 1] = CR /\ text[first + 2] = LF
<1>0. Len(text) \in Nat
  BY DEF Text
<1>1. CASE text[first + 1] = CR /\ first + 1 < Len(text) /\ text[first + 2] = LF
  <2>1. NewlineEnd(text, first) = first + 2
    BY <1>1 DEF NewlineEnd
  <2>2. first + 2 \in Breaks(text) /\ first + 1 \notin Breaks(text)
    BY <1>0, <1>1 DEF Breaks, CR, LF
  <2>3. Unbroken(text, first, first + 1)
    BY <2>2 DEF Unbroken
  <2> QED BY <1>0, <1>1, <2>1, <2>2, <2>3 DEF Newlines
<1>2. CASE ~(text[first + 1] = CR /\ first + 1 < Len(text) /\ text[first + 2] = LF)
  <2>1. NewlineEnd(text, first) = first + 1
    BY <1>2 DEF NewlineEnd
  <2>2. first + 1 \in Breaks(text)
    BY <1>0, <1>2 DEF Breaks, Newlines
  <2>3. Unbroken(text, first, first)
    BY DEF Unbroken
  <2> QED BY <1>0, <2>1, <2>2, <2>3
<1> QED BY <1>1, <1>2

\* What step_line does.
LEMMA StepLineIs ==
  ASSUME NEW text \in Text, NEW s \in StepperType, s.idx < Len(text)
  PROVE  \/ /\ Plain(text, s.idx, Len(text))
            /\ StepLine(text, s) = [s EXCEPT !.idx = Len(text), !.col = Len(text) - s.start, !.newline = FALSE]
         \/ \E first \in s.idx .. Len(text) - 1 :
              /\ text[first + 1] \in Newlines /\ Plain(text, s.idx, first)
              /\ StepLine(text, s) = [line |-> s.line + 1, col |-> 0, idx |-> NewlineEnd(text, first),
                                      start |-> NewlineEnd(text, first), newline |-> TRUE,
                                      prevStart |-> s.start, prevEnd |-> first]
<1> DEFINE ends == {i \in s.idx .. Len(text) - 1 : text[i + 1] \in {LF, CR}}
           first == CHOOSE i \in ends : \A j \in ends : i <= j
<1>0. Len(text) \in Nat /\ s.idx \in Nat
  BY DEF Text, StepperType
<1>1. StepLine(text, s) =
        IF ends = {}
          THEN [s EXCEPT !.idx = Len(text), !.col = Len(text) - s.start, !.newline = FALSE]
          ELSE [line |-> s.line + 1, col |-> 0, idx |-> NewlineEnd(text, first),
                start |-> NewlineEnd(text, first), newline |-> TRUE,
                prevStart |-> s.start, prevEnd |-> first]
  BY Zenon DEF StepLine
<1>2. CASE ends = {}
  <2>1. \A i \in s.idx + 1 .. Len(text) : i - 1 \in s.idx .. Len(text) - 1 /\ (i - 1) + 1 = i
    BY <1>0
  <2>2. Plain(text, s.idx, Len(text))
    BY <1>2, <2>1 DEF Plain, Newlines
  <2> QED BY <1>1, <1>2, <2>2
<1>3. CASE ends # {}
  <2>1. ends \in SUBSET Nat
    BY <1>0
  <2>2. \E x \in ends : \A y \in ends : x <= y
    <3> HIDE DEF ends
    <3> QED BY <2>1, <1>3, Smallest
  <2>3. first \in ends /\ \A y \in ends : first <= y
    <3> HIDE DEF ends
    <3> QED BY <2>2
  <2>4. first \in s.idx .. Len(text) - 1 /\ text[first + 1] \in Newlines
    <3> HIDE DEF first
    <3> QED BY <2>3 DEF Newlines
  <2>5. Plain(text, s.idx, first)
    <3> HIDE DEF first
    <3>1. \A i \in s.idx + 1 .. first : i - 1 \notin ends /\ i - 1 \in s.idx .. Len(text) - 1 /\ (i - 1) + 1 = i
      BY <1>0, <2>3, <2>4
    <3> QED BY <3>1 DEF Plain, Newlines
  <2> HIDE DEF first, ends
  <2> QED BY <1>1, <1>3, <2>4, <2>5
<1> QED BY <1>2, <1>3

\* A step gives a stepper.
LEMMA StepLineType ==
  ASSUME NEW text \in Text, NEW s \in StepperType, s.idx < Len(text)
  PROVE  StepLine(text, s) \in StepperType
<1>0. Len(text) \in Nat
  BY DEF Text
<1>1. CASE StepLine(text, s) = [s EXCEPT !.idx = Len(text), !.col = Len(text) - s.start, !.newline = FALSE]
  <2>1. Len(text) - s.start \in Int
    BY <1>0 DEF StepperType
  <2> DEFINE c == Len(text) - s.start
  <2>2. c \in Int
    BY <2>1
  <2> HIDE DEF c
  <2>3. [s EXCEPT !.idx = Len(text), !.col = c, !.newline = FALSE] \in StepperType
    BY <1>0, <2>2 DEF StepperType
  <2> QED BY <1>1, <2>3 DEF c
<1>2. ASSUME NEW first \in s.idx .. Len(text) - 1, text[first + 1] \in Newlines,
             StepLine(text, s) = [line |-> s.line + 1, col |-> 0, idx |-> NewlineEnd(text, first),
                                      start |-> NewlineEnd(text, first), newline |-> TRUE,
                                      prevStart |-> s.start, prevEnd |-> first]
      PROVE  StepLine(text, s) \in StepperType
  <2>1. first \in 0 .. Len(text) - 1
    BY <1>0 DEF StepperType
  <2>2. NewlineEnd(text, first) \in Nat
    BY <1>2, <2>1, NewlineEndIsBreak
  <2> QED BY <1>2, <2>1, <2>2 DEF StepperType
<1> QED BY <1>1, <1>2, StepLineIs

\* The steppers one after the other: the recursion has a solution.
Steps(text, steps) ==
  /\ steps \in [0 .. Len(text) + 1 -> StepperType]
  /\ steps[0] = Stepper0
  /\ \A k \in 1 .. Len(text) + 1 :
       steps[k] = IF steps[k - 1].idx >= Len(text) THEN steps[k - 1] ELSE StepLine(text, steps[k - 1])

\* The function of the steps is the one that its definition describes.
LEMMA SteppedIs ==
  ASSUME NEW text \in Text
  PROVE  Steps(text, Stepped(text))
<1> DEFINE n == Len(text) + 1
           one == [s \in StepperType |-> IF s.idx >= Len(text) THEN s ELSE StepLine(text, s)]
           step == [k \in 1 .. n |-> one]
<1>0. Len(text) \in Nat /\ n \in Nat
  BY DEF Text
<1>1. Stepper0 \in StepperType
  BY DEF Stepper0, StepperType
<1>2. one \in [StepperType -> StepperType]
  <2>1. \A s \in StepperType : s.idx \in Nat
    BY DEF StepperType
  <2> QED BY StepLineType, <2>1, <1>0
<1>3. step \in [1 .. n -> [StepperType -> StepperType]]
  <2> HIDE DEF one, n
  <2> QED BY <1>2
<1>4. \E f \in [0 .. n -> StepperType] : f[0] = Stepper0 /\ \A k \in 1 .. n : f[k] = step[k][f[k - 1]]
  <2> HIDE DEF step, n
  <2> QED BY <1>0, <1>1, <1>3, Recursion
<1>5. PICK f \in [0 .. n -> StepperType] : f[0] = Stepper0 /\ \A k \in 1 .. n : f[k] = step[k][f[k - 1]]
  BY <1>4
<1>6. \A k \in 1 .. n : f[k] = IF f[k - 1].idx >= Len(text) THEN f[k - 1] ELSE StepLine(text, f[k - 1])
  <2> SUFFICES ASSUME NEW k \in 1 .. n
               PROVE f[k] = IF f[k - 1].idx >= Len(text) THEN f[k - 1] ELSE StepLine(text, f[k - 1])
    OBVIOUS
  <2>1. f[k] = one[f[k - 1]]
    <3> HIDE DEF one, n
    <3> QED BY <1>5
  <2>2. f[k - 1] \in StepperType
    BY <1>0
  <2> QED BY <2>1, <2>2
<1>7. f = [k \in 0 .. n |-> IF k = 0 THEN Stepper0
                           ELSE IF f[k - 1].idx >= Len(text) THEN f[k - 1] ELSE StepLine(text, f[k - 1])]
  <2>1. \A k \in 0 .. n : k # 0 => k \in 1 .. n
    BY <1>0
  <2> HIDE DEF n
  <2> QED BY <1>5, <1>6, <2>1
<1>8. Stepped(text) = [k \in 0 .. n |->
        IF k = 0 THEN Stepper0
        ELSE IF Stepped(text)[k - 1].idx >= Len(text) THEN Stepped(text)[k - 1]
        ELSE StepLine(text, Stepped(text)[k - 1])]
  BY <1>7, Zenon DEF Stepped
<1>9. Stepped(text)[0] = Stepper0
      /\ \A k \in 1 .. n : Stepped(text)[k] = IF Stepped(text)[k - 1].idx >= Len(text) THEN Stepped(text)[k - 1]
                                              ELSE StepLine(text, Stepped(text)[k - 1])
  <2>1. 0 \in 0 .. n /\ \A k \in 1 .. n : k \in 0 .. n /\ k # 0
    BY <1>0
  <2> HIDE DEF n
  <2> QED BY <1>8, <2>1
<1> HIDE DEF one, step
<1> DEFINE g == Stepped(text)
           S == {k \in 0 .. n : g[k] \in StepperType}
<1>10. \A k \in 0 .. n : k \in S
  <2>1. 0 \in S
    BY <1>0, <1>1, <1>9
  <2>2. \A k \in 0 .. n - 1 : k \in S => k + 1 \in S
    <3> SUFFICES ASSUME NEW k \in 0 .. n - 1, g[k] \in StepperType PROVE g[k + 1] \in StepperType
      BY <1>0
    <3>1. k + 1 \in 1 .. n /\ (k + 1) - 1 = k
      BY <1>0
    <3>2. g[k + 1] = IF g[k].idx >= Len(text) THEN g[k] ELSE StepLine(text, g[k])
      <4>1. g[k + 1] = IF g[(k + 1) - 1].idx >= Len(text) THEN g[(k + 1) - 1] ELSE StepLine(text, g[(k + 1) - 1])
        BY <1>9, <3>1
      <4> QED BY <4>1, <3>1
    <3>3. g[k].idx \in Nat
      BY DEF StepperType
    <3> HIDE DEF g
    <3> QED BY <3>2, <3>3, <1>0, StepLineType
  <2> HIDE DEF S, n
  <2> QED BY <2>1, <2>2, <1>0, Induct
<1>11. g \in [0 .. n -> StepperType]
  <2>1. \A k \in 0 .. n : g[k] \in StepperType
    BY <1>10
  <2>2. g = [k \in 0 .. n |-> g[k]]
    BY <1>8
  <2> HIDE DEF g, n
  <2> QED BY <2>1, <2>2
<1> QED BY <1>9, <1>11 DEF Steps

\* What the stepper knows of the line it has left behind, after a newline.
Newlined(text, s) ==
  /\ s.prevEnd \in 0 .. Len(text) - 1 /\ s.prevStart \in 0 .. s.prevEnd
  /\ Row(text, s.prevStart) = s.line - 1 /\ Col(text, s.prevStart) = 0
  /\ Plain(text, s.prevStart, s.prevEnd) /\ text[s.prevEnd + 1] \in Newlines
  /\ s.start = NewlineEnd(text, s.prevEnd)

\* The stepper after k steps stands at the start of a line, or at the end of the text.
Standing(text, k, s) ==
  /\ s.start \in 0 .. Len(text) /\ s.idx \in s.start .. Len(text) /\ s.col = s.idx - s.start
  /\ Row(text, s.start) = s.line /\ Col(text, s.start) = 0
  /\ Unbroken(text, s.start, s.idx)
  /\ s.idx = Len(text) \/ (s.idx >= k /\ s.idx = s.start)
  /\ s.newline => s.idx = s.start /\ Newlined(text, s)
  /\ ~s.newline => Plain(text, s.start, s.idx)
  /\ \/ s.line = k /\ (k > 0 => s.newline)
     \/ s.line < k /\ s.idx = Len(text)

\* The first stepper stands at the start of the text.
LEMMA Stepper0Stands == ASSUME NEW text \in Text PROVE Standing(text, 0, Stepper0)
<1>1. Len(text) \in Nat
  BY DEF Text
<1>2. Row(text, 0) = 0 /\ Col(text, 0) = 0
  BY RowCol
<1> QED BY <1>1, <1>2 DEF Standing, Stepper0, Unbroken, Plain

\* A step moves a stepper from one line to the next, or to the end of the text.
LEMMA StepLineStands ==
  ASSUME NEW text \in Text, NEW k \in Nat, NEW s \in StepperType, s.idx < Len(text), Standing(text, k, s)
  PROVE  Standing(text, k + 1, StepLine(text, s))
<1> DEFINE t == StepLine(text, s)
<1>0. Len(text) \in Nat /\ s.idx \in Nat /\ s.start \in Nat /\ s.line \in Nat
  BY DEF Text, StepperType
<1>1. /\ s.idx = s.start /\ s.line = k /\ s.idx >= k
      /\ s.start \in 0 .. Len(text) /\ Row(text, s.start) = s.line /\ Col(text, s.start) = 0
  BY <1>0 DEF Standing
<1>2. CASE /\ Plain(text, s.idx, Len(text))
           /\ t = [s EXCEPT !.idx = Len(text), !.col = Len(text) - s.start, !.newline = FALSE]
  <2>1. t.idx = Len(text) /\ t.col = Len(text) - s.start /\ t.newline = FALSE /\ t.start = s.start /\ t.line = s.line
    BY <1>2 DEF StepperType
  <2>2. Plain(text, t.start, t.idx)
    BY <1>2, <2>1, <1>1
  <2>3. Unbroken(text, t.start, t.idx)
    BY <2>2, PlainIsUnbroken
  <2> HIDE DEF t
  <2>4. ~t.newline
    BY <2>1
  <2>5. /\ t.start \in 0 .. Len(text) /\ t.idx \in t.start .. Len(text) /\ t.col = t.idx - t.start
        /\ Row(text, t.start) = t.line /\ Col(text, t.start) = 0
        /\ t.idx = Len(text) /\ t.line < k + 1
    BY <1>0, <1>1, <2>1
  <2> HIDE DEF t
  <2>6. Standing(text, k + 1, t)
    BY <2>2, <2>3, <2>4, <2>5 DEF Standing
  <2> QED BY <2>6 DEF t
<1>3. ASSUME NEW first \in s.idx .. Len(text) - 1,
             text[first + 1] \in Newlines, Plain(text, s.idx, first),
             t = [line |-> s.line + 1, col |-> 0, idx |-> NewlineEnd(text, first),
                  start |-> NewlineEnd(text, first), newline |-> TRUE,
                  prevStart |-> s.start, prevEnd |-> first]
      PROVE  Standing(text, k + 1, t)
  <2> DEFINE next == NewlineEnd(text, first)
  <2>0. first \in 0 .. Len(text) - 1
    BY <1>0
  <2>1. /\ t.line = s.line + 1 /\ t.col = 0 /\ t.idx = next /\ t.start = next /\ t.newline = TRUE
        /\ t.prevStart = s.start /\ t.prevEnd = first
    BY <1>3
  <2> HIDE DEF t
  <2>2. /\ next \in first + 1 .. first + 2 /\ next <= Len(text)
        /\ next \in Breaks(text) /\ Unbroken(text, first, next - 1)
    BY <1>3, <2>0, NewlineEndIsBreak
  <2> HIDE DEF next
  <2>3. \A b \in s.start + 1 .. next - 1 : b \notin Breaks(text)
    <3>1. Unbroken(text, s.start, first)
      BY <1>1, <1>3, PlainIsUnbroken
    <3>2. \A b \in s.start + 1 .. next - 1 : b \in s.start + 1 .. first \/ b \in first + 1 .. next - 1
      BY <1>0, <2>0, <2>2
    <3> QED BY <2>2, <3>1, <3>2 DEF Unbroken
  <2>4. next - 1 \in s.start .. Len(text) /\ next - 1 \in 0 .. Len(text) - 1 /\ (next - 1) + 1 = next
    BY <1>0, <1>1, <2>0, <2>2
  <2>5. Row(text, next - 1) = s.line
    BY <1>1, <2>3, <2>4, SameRow
  <2>6. Row(text, next) = s.line + 1 /\ Col(text, next) = 0
    BY <2>2, <2>4, <2>5, RowCol
  <2>7. Newlined(text, t)
    BY <1>0, <1>1, <1>3, <2>0, <2>1 DEF Newlined, next
  <2>8. Unbroken(text, next, next)
    BY <2>2, <2>0 DEF Unbroken
  <2> QED BY <1>0, <1>1, <2>0, <2>1, <2>2, <2>6, <2>7, <2>8 DEF Standing
<1> HIDE DEF t
<1> QED BY <1>2, <1>3, StepLineIs DEF t

\* Every stepper of the sequence stands so.
LEMMA AllStand ==
  ASSUME NEW text \in Text
  PROVE  \A k \in 0 .. Len(text) + 1 : Standing(text, k, Stepped(text)[k])
<1> DEFINE n == Len(text) + 1
           g == Stepped(text)
           S == {k \in 0 .. n : Standing(text, k, g[k])}
<1>0. Len(text) \in Nat /\ n \in Nat
  BY DEF Text
<1>1. /\ g \in [0 .. n -> StepperType] /\ g[0] = Stepper0
      /\ \A k \in 1 .. n : g[k] = IF g[k - 1].idx >= Len(text) THEN g[k - 1] ELSE StepLine(text, g[k - 1])
  BY SteppedIs DEF Steps
<1> HIDE DEF g
<1>2. 0 \in S
  BY <1>0, <1>1, Stepper0Stands
<1>3. \A k \in 0 .. n - 1 : k \in S => k + 1 \in S
  <2> SUFFICES ASSUME NEW k \in 0 .. n - 1, Standing(text, k, g[k]) PROVE Standing(text, k + 1, g[k + 1])
    BY <1>0
  <2>0. k \in Nat /\ k + 1 \in 1 .. n /\ (k + 1) - 1 = k
    BY <1>0
  <2>1. g[k + 1] = IF g[k].idx >= Len(text) THEN g[k] ELSE StepLine(text, g[k])
    <3>1. g[k + 1] = IF g[(k + 1) - 1].idx >= Len(text) THEN g[(k + 1) - 1] ELSE StepLine(text, g[(k + 1) - 1])
      BY <1>1, <2>0
    <3> QED BY <3>1, <2>0
  <2>2. g[k] \in StepperType /\ g[k].idx \in Nat /\ g[k].line \in Nat
    BY <1>1 DEF StepperType
  <2>3. CASE g[k].idx >= Len(text)
    <3>1. g[k].idx = Len(text)
      BY <2>2, <2>3, <1>0 DEF Standing
    <3>2. g[k].line < k + 1
      BY <2>0, <2>2 DEF Standing
    <3>3. g[k + 1] = g[k]
      BY <2>1, <2>3
    <3> QED BY <3>1, <3>2, <3>3, Zenon DEF Standing
  <2>4. CASE g[k].idx < Len(text)
    BY <2>0, <2>1, <2>2, <2>4, <1>0, StepLineStands
  <2> QED BY <2>2, <2>3, <2>4, <1>0
<1>4. \A k \in 0 .. n : k \in S
  <2> HIDE DEF S, n
  <2> QED BY <1>2, <1>3, <1>0, Induct
<1> QED BY <1>4 DEF g

\* What is known of the steppers, for the proofs that follow.
LEMMA StepperTypes ==
  ASSUME NEW text \in Text
  PROVE  /\ Len(text) \in Nat
         /\ \A k \in 0 .. Len(text) + 1 :
              /\ Stepped(text)[k] \in StepperType
              /\ Stepped(text)[k].line \in Nat /\ Stepped(text)[k].idx \in 0 .. Len(text)
              /\ Stepped(text)[k].start \in 0 .. Stepped(text)[k].idx
         /\ DOMAIN Stepped(text) = 0 .. Len(text) + 1
<1>0. Len(text) \in Nat
  BY DEF Text
<1>1. Stepped(text) \in [0 .. Len(text) + 1 -> StepperType]
  BY SteppedIs DEF Steps
<1>2. ASSUME NEW k \in 0 .. Len(text) + 1
      PROVE  /\ Stepped(text)[k] \in StepperType
             /\ Stepped(text)[k].line \in Nat /\ Stepped(text)[k].idx \in 0 .. Len(text)
             /\ Stepped(text)[k].start \in 0 .. Stepped(text)[k].idx
  <2>1. Stepped(text)[k] \in StepperType
    BY <1>1
  <2>2. Standing(text, k, Stepped(text)[k])
    BY AllStand
  <2> QED BY <1>0, <2>1, <2>2 DEF Standing, StepperType
<1> QED BY <1>0, <1>1, <1>2

\* process_all ends at the end of the text, with its line and its column.
LEMMA AtEndIs ==
  ASSUME NEW text \in Text
  PROVE  /\ AtEnd(text).idx = Len(text)
         /\ AtEnd(text).line = Row(text, Len(text)) /\ AtEnd(text).col = Col(text, Len(text))
         /\ AtEnd(text).start = Len(text) - Col(text, Len(text))
<1> DEFINE e == AtEnd(text)
<1>0. Len(text) \in Nat /\ Len(text) + 1 \in 0 .. Len(text) + 1
  BY DEF Text
<1>1. Standing(text, Len(text) + 1, e)
  BY <1>0, AllStand DEF AtEnd
<1> HIDE DEF e
<1>2. /\ e.start \in 0 .. Len(text) /\ e.idx = Len(text) /\ e.col = Len(text) - e.start
      /\ Row(text, e.start) = e.line /\ Col(text, e.start) = 0
      /\ \A b \in e.start + 1 .. Len(text) : b \notin Breaks(text)
  BY <1>0, <1>1 DEF Standing, Unbroken
<1>3. Row(text, Len(text)) = Row(text, e.start)
      /\ Col(text, Len(text)) = Col(text, e.start) + (Len(text) - e.start)
  <2>1. e.start \in 0 .. Len(text) /\ Len(text) \in e.start .. Len(text)
    BY <1>0, <1>2
  <2>2. \A b \in e.start + 1 .. Len(text) : b \notin Breaks(text)
    BY <1>2
  <2> QED BY <2>1, <2>2, SameRow
<1> QED BY <1>0, <1>2, <1>3 DEF e

\* Two indexes have two positions.
LEMMA OneIndex ==
  ASSUME NEW text \in Text, NEW i \in 0 .. Len(text), NEW j \in 0 .. Len(text),
         Row(text, i) = Row(text, j), Col(text, i) = Col(text, j)
  PROVE  i = j
<1>0. Len(text) \in Nat
  BY DEF Text
<1>1. Row(text, i) \in Nat /\ Col(text, i) \in Nat /\ Row(text, j) \in Nat /\ Col(text, j) \in Nat
  BY RowCol
<1>2. ~(i < j)
  BY <1>0, <1>1, Later
<1>3. ~(j < i)
  BY <1>0, <1>1, Later
<1> QED BY <1>0, <1>2, <1>3

\* The stepper moves from line to line.
LEMMA NextStep ==
  ASSUME NEW text \in Text, NEW k \in 1 .. Len(text) + 1
  PROVE  \/ /\ Stepped(text)[k - 1].idx = Len(text)
            /\ Stepped(text)[k] = Stepped(text)[k - 1]
         \/ /\ Stepped(text)[k - 1].idx < Len(text)
            /\ ~Stepped(text)[k].newline
            /\ Stepped(text)[k].line = Stepped(text)[k - 1].line
            /\ Stepped(text)[k].start = Stepped(text)[k - 1].start
         \/ /\ Stepped(text)[k - 1].idx < Len(text)
            /\ Stepped(text)[k].newline
            /\ Stepped(text)[k].line = Stepped(text)[k - 1].line + 1
            /\ Stepped(text)[k].prevStart = Stepped(text)[k - 1].start
<1> DEFINE s == Stepped(text)[k - 1]
           t == Stepped(text)[k]
<1>0. k - 1 \in 0 .. Len(text) + 1
  BY StepperTypes
<1>1. s \in StepperType /\ s.idx \in 0 .. Len(text)
  BY <1>0, StepperTypes
<1>2. t = IF s.idx >= Len(text) THEN s ELSE StepLine(text, s)
  BY SteppedIs DEF Steps
<1>3. Len(text) \in Nat
  BY DEF Text
<1> HIDE DEF s, t
<1>4. CASE s.idx >= Len(text)
  BY <1>1, <1>2, <1>3, <1>4 DEF s, t
<1>5. CASE s.idx < Len(text)
  <2>1. t = StepLine(text, s)
    BY <1>1, <1>2, <1>3, <1>5
  <2>2. CASE t = [s EXCEPT !.idx = Len(text), !.col = Len(text) - s.start, !.newline = FALSE]
    <3>1. t.newline = FALSE /\ t.line = s.line /\ t.start = s.start
      BY <1>1, <2>2 DEF StepperType
    <3> QED BY <3>1, <1>5 DEF s, t
  <2>3. ASSUME NEW first \in s.idx .. Len(text) - 1,
               t = [line |-> s.line + 1, col |-> 0, idx |-> NewlineEnd(text, first),
                    start |-> NewlineEnd(text, first), newline |-> TRUE,
                    prevStart |-> s.start, prevEnd |-> first]
        PROVE  t.newline = TRUE /\ t.line = s.line + 1 /\ t.prevStart = s.start
    BY <2>3
  <2>4. CASE t.newline = TRUE /\ t.line = s.line + 1 /\ t.prevStart = s.start
    BY <2>4, <1>5 DEF s, t
  <2> QED BY <2>1, <2>2, <2>3, <2>4, <1>1, <1>5, StepLineIs
<1> QED BY <1>1, <1>3, <1>4, <1>5

\* The lines that the stepper sees are those of the indexes.
LEMMA LineFound ==
  ASSUME NEW text \in Text, NEW i \in 0 .. Len(text)
  PROVE  /\ \E k \in 0 .. Len(text) + 1 : Stepped(text)[k].line = Row(text, i)
         /\ \A k \in 0 .. Len(text) + 1 :
              Stepped(text)[k].line = Row(text, i) => Stepped(text)[k].start = i - Col(text, i)
<1> DEFINE g == Stepped(text)
           n == Len(text) + 1
           S == {k \in 0 .. n : g[k].line >= Row(text, i)}
<1>0. Len(text) \in Nat /\ n \in Nat /\ Row(text, i) \in Nat
  BY RowCol DEF Text
<1>1. \A k \in 0 .. n : g[k].line \in Nat
  BY StepperTypes
<1>2. \E k \in 0 .. n : g[k].line = Row(text, i)
  <2>1. n \in S
    <3>1. g[n].line = Row(text, Len(text))
      BY AtEndIs DEF AtEnd
    <3>2. Row(text, i) <= Row(text, Len(text))
      BY <1>0, Later
    <3> QED BY <1>0, <3>1, <3>2, RowCol
  <2>2. \E k \in S : \A j \in S : k <= j
    <3>1. S \in SUBSET Nat
      OBVIOUS
    <3> HIDE DEF S
    <3> QED BY <2>1, <3>1, Smallest
  <2>3. PICK k \in S : \A j \in S : k <= j
    BY <2>2
  <2>4. CASE k = 0
    <3>1. g[0].line = 0
      BY SteppedIs DEF Steps, Stepper0
    <3> QED BY <1>0, <2>3, <2>4, <3>1
  <2>5. CASE k # 0
    <3>1. k \in 1 .. n /\ k - 1 \in 0 .. n /\ k - 1 \notin S
      BY <1>0, <2>3, <2>5
    <3>2. g[k].line = g[k - 1].line \/ g[k].line = g[k - 1].line + 1
      BY <3>1, NextStep
    <3>3. g[k].line >= Row(text, i) /\ ~(g[k - 1].line >= Row(text, i))
      BY <3>1, <2>3
    <3> HIDE DEF g
    <3>4. g[k].line = Row(text, i)
      BY <1>0, <1>1, <3>1, <3>2, <3>3
    <3> QED BY <3>1, <3>4
  <2> QED BY <2>4, <2>5
<1>3. ASSUME NEW k \in 0 .. n, g[k].line = Row(text, i)
      PROVE  g[k].start = i - Col(text, i)
  <2>1. /\ g[k].start \in 0 .. Len(text)
        /\ Row(text, g[k].start) = Row(text, i) /\ Col(text, g[k].start) = 0
    BY <1>3, AllStand DEF Standing
  <2>2. /\ i - Col(text, i) \in 0 .. Len(text)
        /\ Row(text, i - Col(text, i)) = Row(text, i) /\ Col(text, i - Col(text, i)) = 0
    BY <1>0, RowStart
  <2> HIDE DEF g
  <2> QED BY <2>1, <2>2, OneIndex
<1> QED BY <1>2, <1>3

\* The position of an index leads back to it.
LEMMA IndexOfPosition ==
  ASSUME NEW text \in Text, NEW i \in 0 .. Len(text)
  PROVE  IndexOf(text, Row(text, i), Col(text, i)) = i
<1> DEFINE there == {k \in DOMAIN Stepped(text) : Stepped(text)[k].line = Row(text, i)}
           c == CHOOSE k \in there : TRUE
<1>1. there # {}
  BY LineFound, StepperTypes
<1>2. c \in there
  BY <1>1
<1>3. IndexOf(text, Row(text, i), Col(text, i)) = Stepped(text)[c].start + Col(text, i)
  BY <1>1 DEF IndexOf
<1>4. Stepped(text)[c].start = i - Col(text, i)
  <2> HIDE DEF c
  <2> QED BY <1>2, LineFound, StepperTypes
<1>5. Col(text, i) \in Nat
  BY RowCol
<1> HIDE DEF c
<1> QED BY <1>3, <1>4, <1>5, StepperTypes

\* There is no index for a line past the last.
LEMMA NoIndex ==
  ASSUME NEW text \in Text, NEW line \in Nat, line > Row(text, Len(text)), NEW col
  PROVE  IndexOf(text, line, col) = Invalid
<1>1. \A k \in 0 .. Len(text) + 1 : Stepped(text)[k].line # line
  <2> SUFFICES ASSUME NEW k \in 0 .. Len(text) + 1 PROVE Stepped(text)[k].line # line
    OBVIOUS
  <2>1. /\ Stepped(text)[k].start \in 0 .. Len(text)
        /\ Row(text, Stepped(text)[k].start) = Stepped(text)[k].line
    BY AllStand DEF Standing
  <2>2. Row(text, Stepped(text)[k].start) <= Row(text, Len(text))
    BY <2>1, Later, StepperTypes
  <2>3. Row(text, Len(text)) \in Nat
    BY RowCol, StepperTypes
  <2> QED BY <2>1, <2>2, <2>3, StepperTypes
<1> QED BY <1>1, StepperTypes DEF IndexOf

\* get_line_col_from_index, but for an index inside \r\n, is the position of the index.
LEMMA PositionOfIs ==
  ASSUME NEW text \in Text, NEW i \in 0 .. Len(text)
  PROVE  PositionOf(text, i) = IF InNewline(text, i) THEN <<Row(text, i) + 1, 0>>
                               ELSE <<Row(text, i), Col(text, i)>>
<1> DEFINE past == {k \in DOMAIN Stepped(text) : Stepped(text)[k].idx > i}
           first == CHOOSE k \in past : \A j \in past : k <= j
           s == Stepped(text)[first]
           end == AtEnd(text)
<1>0. Len(text) \in Nat /\ Row(text, i) \in Nat /\ Col(text, i) \in Nat
  BY RowCol DEF Text
<1>1. PositionOf(text, i) =
        CASE past = {} /\ i > end.idx -> <<Invalid, Invalid>>
          [] past = {} -> <<end.line, end.col>>
          [] past # {} /\ s.newline /\ i > s.prevEnd -> <<s.line, 0>>
          [] past # {} /\ s.newline /\ i <= s.prevEnd -> <<s.line - 1, i - s.prevStart>>
          [] OTHER -> <<s.line, i - s.start>>
  BY Zenon DEF PositionOf
<1>2. CASE past = {}
  <2>1. end.idx = Len(text) /\ end.line = Row(text, Len(text)) /\ end.col = Col(text, Len(text))
    BY AtEndIs
  <2>2. ~(end.idx > i)
    <3>1. Len(text) + 1 \in DOMAIN Stepped(text) /\ Stepped(text)[Len(text) + 1] = end
      BY <1>0, StepperTypes DEF AtEnd
    <3> QED BY <1>2, <3>1
  <2>3. i = Len(text) /\ ~(i > end.idx)
    BY <1>0, <2>1, <2>2
  <2>4. ~InNewline(text, i)
    BY <1>0, <2>3 DEF InNewline
  <2> HIDE DEF past, end, s
  <2> QED BY <1>1, <1>2, <2>1, <2>3, <2>4
<1>3. CASE past # {}
  <2>1. past \in SUBSET (0 .. Len(text) + 1) /\ past \in SUBSET Nat
    BY <1>0, StepperTypes
  <2>2. \E k \in past : \A j \in past : k <= j
    <3> HIDE DEF past
    <3> QED BY <2>1, <1>3, Smallest
  <2>3. first \in past /\ \A j \in past : first <= j
    <3> HIDE DEF past
    <3> QED BY <2>2
  <2> DEFINE r == Stepped(text)[first - 1]
  <2> HIDE DEF first
  <2>4. first \in 0 .. Len(text) + 1 /\ s.idx > i
    BY <2>1, <2>3
  <2>5. first # 0
    <3>1. Stepped(text)[0].idx = 0
      BY SteppedIs DEF Steps, Stepper0
    <3> QED BY <1>0, <2>4, <3>1
  <2>6. first \in 1 .. Len(text) + 1 /\ first - 1 \in 0 .. Len(text) + 1
    BY <1>0, <2>4, <2>5
  <2>7. ~(r.idx > i)
    <3>1. first - 1 \notin past
      BY <2>1, <2>3, <2>6
    <3> QED BY <3>1, <2>6, StepperTypes
  <2>8. /\ r.idx \in 0 .. Len(text) /\ s.idx \in 0 .. Len(text) /\ r.idx <= i /\ i < s.idx
        /\ r \in StepperType /\ s \in StepperType /\ s.line \in Nat
    BY <1>0, <2>4, <2>6, <2>7, StepperTypes
  <2>9. r.idx < Len(text) /\ r.idx = r.start
    <3>1. Standing(text, first - 1, r)
      BY <2>6, AllStand
    <3> HIDE DEF r, s
    <3> QED BY <1>0, <2>8, <3>1 DEF Standing
  <2>10. Standing(text, first, s)
    BY <2>4, AllStand
  <2>11. \/ ~s.newline /\ s.start = r.idx
         \/ s.newline /\ s.prevStart = r.idx
    BY <2>6, <2>9, NextStep
  <2> HIDE DEF r, s, past, end
  <2>12. CASE ~s.newline /\ s.start = r.idx
    <3>1. Plain(text, s.start, s.idx) /\ Row(text, s.start) = s.line /\ Col(text, s.start) = 0
      BY <2>10, <2>12 DEF Standing
    <3>2. \A b \in s.start + 1 .. i : b \notin Breaks(text)
      BY <3>1, <2>8, PlainIsUnbroken, <1>0, <2>12 DEF Unbroken
    <3>3. s.start \in 0 .. Len(text) /\ i \in s.start .. Len(text)
      BY <1>0, <2>8, <2>12
    <3>4. Row(text, i) = s.line /\ Col(text, i) = i - s.start
      BY <3>1, <3>2, <3>3, SameRow, <1>0
    <3>5. ~InNewline(text, i)
      <4>1. i + 1 \in s.start + 1 .. s.idx
        BY <1>0, <2>8, <2>12
      <4> QED BY <3>1, <4>1 DEF Plain, Newlines, InNewline
    <3> QED BY <1>1, <1>3, <2>12, <3>4, <3>5
  <2>13. CASE s.newline /\ s.prevStart = r.idx
    <3>1. /\ s.idx = s.start /\ Newlined(text, s)
      BY <2>10, <2>13 DEF Standing
    <3>2. /\ s.prevEnd \in 0 .. Len(text) - 1 /\ s.prevStart \in 0 .. s.prevEnd
          /\ Row(text, s.prevStart) = s.line - 1 /\ Col(text, s.prevStart) = 0
          /\ Plain(text, s.prevStart, s.prevEnd) /\ text[s.prevEnd + 1] \in Newlines
          /\ s.start = NewlineEnd(text, s.prevEnd)
      BY <3>1 DEF Newlined
    <3>3. /\ s.start \in s.prevEnd + 1 .. s.prevEnd + 2 /\ Unbroken(text, s.prevEnd, s.start - 1)
          /\ s.start = s.prevEnd + 2 => text[s.prevEnd + 1] = CR /\ text[s.prevEnd + 2] = LF
      BY <3>2, NewlineEndIsBreak
    <3>4. \A b \in s.prevStart + 1 .. i : b \notin Breaks(text)
      <4>1. Unbroken(text, s.prevStart, s.prevEnd)
        BY <3>2, PlainIsUnbroken
      <4>2. \A b \in s.prevStart + 1 .. i : b \in s.prevStart + 1 .. s.prevEnd \/ b \in s.prevEnd + 1 .. s.start - 1
        BY <1>0, <3>1, <3>2, <3>3, <2>8
      <4> QED BY <4>1, <4>2, <3>3 DEF Unbroken
    <3>5. s.prevStart \in 0 .. Len(text) /\ i \in s.prevStart .. Len(text)
      BY <1>0, <2>8, <2>13, <3>2
    <3>6. Row(text, i) = s.line - 1 /\ Col(text, i) = i - s.prevStart
      BY <3>2, <3>4, <3>5, SameRow, <1>0
    <3>7. CASE i > s.prevEnd
      <4>1. i = s.prevEnd + 1 /\ s.start = s.prevEnd + 2
        BY <1>0, <3>1, <3>2, <3>3, <3>7, <2>8
      <4>2. InNewline(text, i)
        <5>1. i + 1 = s.prevEnd + 2 /\ 0 < i
          BY <4>1, <3>2, <1>0
        <5>2. text[i] = CR /\ text[i + 1] = LF
          BY <4>1, <3>3, <5>1
        <5>3. i < Len(text)
          BY <4>1, <3>1, <2>8, <1>0
        <5> QED BY <5>1, <5>2, <5>3 DEF InNewline
      <4>3. Row(text, i) + 1 = s.line
        BY <3>6, <2>8
      <4>4. ~(i <= s.prevEnd)
        BY <3>7, <3>2, <1>0
      <4>5. PositionOf(text, i) = <<s.line, 0>>
        BY <1>1, <1>3, <2>13, <3>7, <4>4
      <4> QED BY <4>2, <4>3, <4>5
    <3>8. CASE i <= s.prevEnd
      <4>1. ~InNewline(text, i)
        <5> SUFFICES ASSUME InNewline(text, i) PROVE FALSE
          OBVIOUS
        <5>1. 0 < i /\ i < Len(text) /\ text[i] = CR /\ text[i + 1] = LF
          BY DEF InNewline
        <5>2. i = s.prevStart
          <6>1. ~(i \in s.prevStart + 1 .. s.prevEnd)
            BY <5>1, <3>2 DEF Plain, Newlines
          <6> QED BY <6>1, <3>5, <3>8, <3>2, <1>0
        <5>3. i \in Breaks(text)
          <6>1. Col(text, i) = 0
            BY <5>2, <3>2
          <6> QED BY <6>1, <5>1, <1>0, RowStart
        <5> QED BY <5>1, <5>3 DEF Breaks, CR, LF
      <4>2. ~(i > s.prevEnd)
        BY <3>8, <3>2, <1>0
      <4> QED BY <1>1, <1>3, <2>13, <3>6, <3>8, <4>1, <4>2
    <3> QED BY <3>7, <3>8, <3>2, <1>0
  <2> QED BY <2>11, <2>12, <2>13
<1> QED BY <1>2, <1>3

-----------------------------------------------------------------------------
(* process_all_gather_lines.                                                 *)

\* The last line is as many lines down as there are breaks.
LEMMA RowsAreBreaks ==
  ASSUME NEW text \in Text
  PROVE  Cardinality(Breaks(text)) = Row(text, Len(text))
<1>0. Len(text) \in Nat
  BY DEF Text
<1>1. Begins(text, Len(text)) = Breaks(text) \cup {0} /\ 0 \notin Breaks(text)
  BY <1>0 DEF Begins, Breaks
<1>2. IsFiniteSet(Breaks(text)) /\ Cardinality(Breaks(text)) \in Nat
  <2>1. IsFiniteSet(1 .. Len(text)) /\ Breaks(text) \subseteq 1 .. Len(text)
    BY <1>0, FS_Interval DEF Breaks
  <2> QED BY <2>1, FS_Subset, FS_CardinalityType
<1>3. Cardinality(Begins(text, Len(text))) = Cardinality(Breaks(text)) + 1
  BY <1>1, <1>2, FS_AddElement
<1>4. Row(text, Len(text)) = Cardinality(Begins(text, Len(text))) - 1
  BY <1>0, PositionIs DEF Row
<1> QED BY <1>2, <1>3, <1>4

\* After k steps the stepper is in line k, until it has seen them all.
LEMMA StepOfLine ==
  ASSUME NEW text \in Text, NEW k \in 0 .. Row(text, Len(text))
  PROVE  /\ k \in 0 .. Len(text) + 1
         /\ Stepped(text)[k].line = k /\ (k > 0 => Stepped(text)[k].newline)
<1> DEFINE s == Stepped(text)[k]
<1>0. Len(text) \in Nat /\ Len(text) + 1 \in 0 .. Len(text) + 1
  BY DEF Text
<1>1. Row(text, Len(text)) \in Nat /\ Row(text, Len(text)) <= Len(text) + 1
  <2>1. Standing(text, Len(text) + 1, AtEnd(text)) /\ AtEnd(text).line = Row(text, Len(text))
    BY <1>0, AllStand, AtEndIs DEF AtEnd
  <2>2. Row(text, Len(text)) \in Nat
    BY <1>0, RowCol
  <2> QED BY <1>0, <2>1, <2>2 DEF Standing
<1>2. k \in 0 .. Len(text) + 1
  BY <1>0, <1>1
<1>3. Standing(text, k, s)
  BY <1>2, AllStand
<1> HIDE DEF s
<1>4. ~(s.line < k /\ s.idx = Len(text))
  <2> SUFFICES ASSUME s.line < k, s.idx = Len(text) PROVE FALSE
    OBVIOUS
  <2>1. /\ s.start \in 0 .. Len(text) /\ Len(text) \in s.start .. Len(text)
        /\ Row(text, s.start) = s.line /\ \A b \in s.start + 1 .. Len(text) : b \notin Breaks(text)
    BY <1>0, <1>3 DEF Standing, Unbroken
  <2>2. Row(text, Len(text)) = Row(text, s.start)
    BY <2>1, SameRow
  <2>3. s.line \in Nat
    BY <1>2, StepperTypes DEF s
  <2> QED BY <1>1, <2>1, <2>2, <2>3
<1>5. s.line = k /\ (k > 0 => s.newline)
  BY <1>3, <1>4 DEF Standing
<1> QED BY <1>2, <1>5 DEF s

\* A line is what the text has between its start and its newline sequence.
IsLine(text, r, a, b) ==
  /\ b \in 0 .. Len(text) /\ a \in 0 .. b
  /\ Lines(text)[r + 1] = SubSeq(text, a + 1, b)
  /\ Row(text, a) = r /\ Col(text, a) = 0 /\ Plain(text, a, b)
  /\ \A i \in 0 .. Len(text) - 1 : Row(text, i) = r /\ text[i + 1] \notin Newlines => a <= i /\ i < b

\* A sequence with one element appended.
LEMMA OneMore ==
  ASSUME NEW S, NEW s \in Seq(S), NEW x \in S
  PROVE  /\ Len(s \o <<x>>) = Len(s) + 1 /\ DOMAIN (s \o <<x>>) = 1 .. Len(s) + 1
         /\ \A k \in 1 .. Len(s) : (s \o <<x>>)[k] = s[k]
         /\ (s \o <<x>>)[Len(s) + 1] = x
<1>1. <<x>> \in Seq(S) /\ Len(<<x>>) = 1 /\ <<x>>[1] = x /\ 1 \in 1 .. 1
  OBVIOUS
<1>2. Len(s) \in Nat
  OBVIOUS
<1> DEFINE one == <<x>>
<1> HIDE DEF one
<1>3. /\ Len(s \o one) = Len(s) + Len(one) /\ DOMAIN (s \o one) = 1 .. Len(s) + Len(one)
      /\ \A k \in 1 .. Len(s) : (s \o one)[k] = s[k]
      /\ \A k \in 1 .. Len(one) : (s \o one)[Len(s) + k] = one[k]
  BY <1>1 DEF one
<1>4. (s \o one)[Len(s) + 1] = one[1] /\ Len(one) = 1 /\ one[1] = x
  BY <1>1, <1>3 DEF one
<1> QED BY <1>2, <1>3, <1>4 DEF one

\* The lines are as many as the rows, and each is a stretch of the text.
LEMMA LinesAre ==
  ASSUME NEW text \in Text
  PROVE  /\ Len(Lines(text)) = Row(text, Len(text)) + 1
         /\ DOMAIN Lines(text) = 1 .. Row(text, Len(text)) + 1
         /\ \A r \in 0 .. Row(text, Len(text)) :
              \E a \in 0 .. Len(text) : \E b \in 0 .. Len(text) : IsLine(text, r, a, b)
<1> DEFINE last == Row(text, Len(text))
           at == AtEnd(text).start
           line(k) == SubSeq(text, Stepped(text)[k].prevStart + 1, Stepped(text)[k].prevEnd)
           head == [k \in 1 .. last |-> line(k)]
           L == Lines(text)
<1>0. Len(text) \in Nat /\ last \in Nat
  BY RowCol DEF Text
<1>1. L = head \o <<From(text, at)>>
  <2>1. AtEnd(text).line = last
    BY AtEndIs
  <2> QED BY <2>1 DEF Lines
<1>2. head \in Seq(Seq(Letters)) /\ Len(head) = last
  <2>1. \A k \in 1 .. last : line(k) \in Seq(Letters)
    <3> SUFFICES ASSUME NEW k \in 1 .. last PROVE line(k) \in Seq(Letters)
      OBVIOUS
    <3>1. k \in 0 .. last /\ k > 0 /\ k \in 0 .. Len(text) + 1
      BY <1>0, StepOfLine
    <3>2. Standing(text, k, Stepped(text)[k]) /\ Stepped(text)[k].newline
      BY <3>1, StepOfLine, AllStand
    <3>3. Newlined(text, Stepped(text)[k])
      BY <3>2 DEF Standing
    <3> QED BY <1>0, <3>3 DEF Newlined, Text
  <2> HIDE DEF line, last
  <2> QED BY <2>1, <1>0
<1>3. From(text, at) \in Seq(Letters)
  <2>1. at \in 0 .. Len(text)
    <3>1. Len(text) + 1 \in 0 .. Len(text) + 1
      BY <1>0
    <3> QED BY <1>0, <3>1, AllStand DEF AtEnd, Standing
  <2> QED BY <2>1, <1>0 DEF From, Text
<1> HIDE DEF last, at, head, L
<1>4. /\ Len(L) = last + 1 /\ DOMAIN L = 1 .. last + 1
      /\ \A k \in 1 .. last : L[k] = head[k]
      /\ L[last + 1] = From(text, at)
  <2> DEFINE tail == From(text, at)
             S == Seq(Letters)
  <2>1. L = head \o <<tail>> /\ tail \in S /\ head \in Seq(S) /\ Len(head) = last
    BY <1>1, <1>2, <1>3
  <2> HIDE DEF tail, S
  <2>2. /\ Len(head \o <<tail>>) = Len(head) + 1 /\ DOMAIN (head \o <<tail>>) = 1 .. Len(head) + 1
        /\ \A k \in 1 .. Len(head) : (head \o <<tail>>)[k] = head[k]
        /\ (head \o <<tail>>)[Len(head) + 1] = tail
    BY <2>1, OneMore
  <2> QED BY <2>1, <2>2 DEF tail
<1>5. ASSUME NEW r \in 0 .. last
      PROVE  \E a \in 0 .. Len(text) : \E b \in 0 .. Len(text) : IsLine(text, r, a, b)
  <2>1. CASE r = last
    <3>1. Len(text) + 1 \in 0 .. Len(text) + 1
      BY <1>0
    <3>2. Standing(text, Len(text) + 1, AtEnd(text)) /\ AtEnd(text).line = last /\ AtEnd(text).idx = Len(text)
      BY <3>1, AllStand, AtEndIs DEF AtEnd, last
    <3>3. at \in 0 .. Len(text) /\ Row(text, at) = last /\ Col(text, at) = 0
      BY <3>2, <1>0 DEF Standing, at
    <3>4. Plain(text, at, Len(text))
      <4>1. CASE AtEnd(text).newline
        <5>1. at = Len(text)
          BY <3>2, <4>1 DEF Standing, at
        <5> QED BY <5>1, <1>0 DEF Plain
      <4>2. CASE ~AtEnd(text).newline
        BY <3>2, <4>2 DEF Standing, at
      <4> QED BY <4>1, <4>2
    <3>5. L[r + 1] = SubSeq(text, at + 1, Len(text))
      BY <1>4, <2>1 DEF From
    <3>6. \A i \in 0 .. Len(text) - 1 : Row(text, i) = r => at <= i /\ i < Len(text)
      <4> SUFFICES ASSUME NEW i \in 0 .. Len(text) - 1, Row(text, i) = r PROVE at <= i
        BY <1>0
      <4>1. ~(i < at)
        <5>1. Col(text, i) \in Nat /\ i \in 0 .. Len(text) /\ Row(text, i) \in Nat
          BY <1>0, RowCol
        <5>2. i < at => Row(text, i) < Row(text, at) \/ (Row(text, i) = Row(text, at) /\ Col(text, i) < Col(text, at))
          BY <3>3, <1>0, Later
        <5> QED BY <5>1, <5>2, <3>3, <2>1, <1>0
      <4> QED BY <4>1, <3>3, <1>0
    <3>7. IsLine(text, r, at, Len(text))
      BY <1>0, <2>1, <3>3, <3>4, <3>5, <3>6 DEF IsLine, L
    <3> QED BY <3>7, <3>3, <1>0
  <2>2. CASE r # last
    <3> DEFINE s == Stepped(text)[r + 1]
    <3>0. r + 1 \in 1 .. last /\ r + 1 \in 0 .. last
      BY <1>0, <2>2
    <3>1. Standing(text, r + 1, s) /\ s.newline /\ s.line = r + 1
      <4>1. r + 1 \in 0 .. Len(text) + 1 /\ s.line = r + 1 /\ s.newline
        BY <3>0, <1>0, StepOfLine DEF last
      <4> QED BY <4>1, AllStand
    <3>2. L[r + 1] = SubSeq(text, s.prevStart + 1, s.prevEnd)
      BY <1>4, <3>0 DEF head
    <3> HIDE DEF s
    <3>3. /\ s.prevEnd \in 0 .. Len(text) - 1 /\ s.prevStart \in 0 .. s.prevEnd
          /\ Row(text, s.prevStart) = r /\ Col(text, s.prevStart) = 0
          /\ Plain(text, s.prevStart, s.prevEnd) /\ text[s.prevEnd + 1] \in Newlines
          /\ s.start = NewlineEnd(text, s.prevEnd)
          /\ s.start \in 0 .. Len(text) /\ Row(text, s.start) = r + 1 /\ Col(text, s.start) = 0
      BY <3>1 DEF Standing, Newlined
    <3>4. ASSUME NEW i \in 0 .. Len(text) - 1, Row(text, i) = r, text[i + 1] \notin Newlines
          PROVE  s.prevStart <= i /\ i < s.prevEnd
      <4>0. Col(text, i) \in Nat /\ i \in 0 .. Len(text) /\ s.prevStart \in 0 .. Len(text)
        BY <1>0, <3>3, RowCol
      <4>1. ~(i < s.prevStart)
        <5>1. i < s.prevStart => Row(text, i) < Row(text, s.prevStart)
                                 \/ (Row(text, i) = Row(text, s.prevStart) /\ Col(text, i) < Col(text, s.prevStart))
          BY <4>0, <1>0, Later
        <5> QED BY <5>1, <4>0, <3>3, <3>4, <1>0
      <4>2. i < s.start
        <5>1. s.start <= i => Row(text, s.start) <= Row(text, i)
          BY <4>0, <3>3, <1>0, Later
        <5> QED BY <5>1, <3>3, <3>4, <4>0, <1>0
      <4>3. /\ s.start \in s.prevEnd + 1 .. s.prevEnd + 2
            /\ s.start = s.prevEnd + 2 => text[s.prevEnd + 2] = LF
        BY <3>3, NewlineEndIsBreak
      <4>4. i # s.prevEnd
        BY <3>3, <3>4
      <4>5. i # s.prevEnd + 1
        <5> SUFFICES ASSUME i = s.prevEnd + 1 PROVE FALSE
          OBVIOUS
        <5>1. s.start = s.prevEnd + 2 /\ i + 1 = s.prevEnd + 2
          BY <4>2, <4>3, <3>3
        <5> QED BY <5>1, <4>3, <3>4 DEF Newlines
      <4>6. s.prevEnd \in Int /\ s.prevStart \in Int /\ s.start \in Int /\ i \in Int
        BY <3>3, <1>0
      <4>7. i < s.prevEnd + 2
        BY <4>2, <4>3, <4>6
      <4> QED BY <4>1, <4>4, <4>5, <4>6, <4>7
    <3>5. IsLine(text, r, s.prevStart, s.prevEnd)
      BY <1>0, <3>2, <3>3, <3>4 DEF IsLine, L
    <3> QED BY <3>3, <3>5, <1>0
  <2> QED BY <2>1, <2>2
<1> QED BY <1>4, <1>5 DEF L, last

\* Every character but line ends is found in the lines by its position, and nothing else.
LEMMA LinesFound ==
  ASSUME NEW q, NEW a, q.text \in Text, a.lines = Lines(q.text)
  PROVE  LinesAgree(q, a)
<1> DEFINE text == q.text
           L == a.lines
           plain == {i \in 0 .. Len(text) - 1 : text[i + 1] \notin {LF, CR}}
<1>0. text \in Text /\ L = Lines(text)
  OBVIOUS
<1> HIDE DEF text, L
<1>1. Len(text) \in Nat /\ Row(text, Len(text)) \in Nat
  BY <1>0, RowCol DEF Text
<1>2. Len(L) = Cardinality(Breaks(text)) + 1
  BY <1>0, LinesAre, RowsAreBreaks
<1>3. DOMAIN L = 1 .. Row(text, Len(text)) + 1
  BY <1>0, LinesAre
<1>4. ASSUME NEW r \in 0 .. Row(text, Len(text))
      PROVE  \E x \in 0 .. Len(text) : \E y \in 0 .. Len(text) :
               /\ x <= y /\ L[r + 1] = SubSeq(text, x + 1, y)
               /\ DOMAIN L[r + 1] = 1 .. y - x
               /\ \A c \in 1 .. y - x : L[r + 1][c] = text[x + c]
               /\ \A i \in x .. y - 1 : i \in plain /\ Row(text, i) = r /\ Col(text, i) = i - x
               /\ \A i \in plain : Row(text, i) = r => i \in x .. y - 1
  <2>1. PICK x \in 0 .. Len(text), y \in 0 .. Len(text) : IsLine(text, r, x, y)
    BY <1>0, LinesAre
  <2>2. x <= y /\ L[r + 1] = SubSeq(text, x + 1, y)
    BY <2>1, <1>0 DEF IsLine
  <2>3. DOMAIN L[r + 1] = 1 .. y - x /\ \A c \in 1 .. y - x : L[r + 1][c] = text[x + c]
    BY <2>2, <1>0, <1>1 DEF Text
  <2>4. ASSUME NEW i \in x .. y - 1
        PROVE  i \in plain /\ Row(text, i) = r /\ Col(text, i) = i - x
    <3>1. Plain(text, x, y) /\ Row(text, x) = r /\ Col(text, x) = 0
      BY <2>1 DEF IsLine
    <3>2. i \in 0 .. Len(text) - 1 /\ i + 1 \in x + 1 .. y /\ i \in x .. Len(text)
      BY <1>1
    <3>3. i \in plain
      BY <3>1, <3>2 DEF Plain, Newlines
    <3>4. \A b \in x + 1 .. i : b \notin Breaks(text)
      <4>1. \A b \in x + 1 .. i : b \in x + 1 .. y
        BY <1>1
      <4> QED BY <3>1, <4>1, PlainIsUnbroken DEF Unbroken
    <3>5. Row(text, i) = Row(text, x) /\ Col(text, i) = Col(text, x) + (i - x)
      BY <1>0, <3>2, <3>4, SameRow
    <3> QED BY <3>1, <3>2, <3>3, <3>5
  <2>5. ASSUME NEW i \in plain, Row(text, i) = r PROVE i \in x .. y - 1
    <3>1. i \in 0 .. Len(text) - 1 /\ text[i + 1] \notin Newlines
      BY DEF Newlines
    <3>2. x <= i /\ i < y
      BY <2>1, <2>5, <3>1 DEF IsLine
    <3> QED BY <3>1, <3>2, <1>1
  <2> QED BY <2>2, <2>3, <2>4, <2>5
<1>5. \A i \in 0 .. Len(text) : /\ Position(text, i) = <<Row(text, i), Col(text, i)>>
                                /\ Row(text, i) \in Nat /\ Col(text, i) \in Nat
  BY <1>0, RowCol
<1>6. ASSUME NEW i \in plain
      PROVE  /\ Position(text, i)[1] + 1 \in DOMAIN L
             /\ Position(text, i)[2] + 1 \in DOMAIN L[Position(text, i)[1] + 1]
             /\ L[Position(text, i)[1] + 1][Position(text, i)[2] + 1] = text[i + 1]
  <2> DEFINE r == Row(text, i)
  <2>1. i \in 0 .. Len(text) - 1 /\ i \in 0 .. Len(text)
    BY <1>1
  <2>2. r \in 0 .. Row(text, Len(text))
    <3>1. Row(text, i) <= Row(text, Len(text))
      BY <1>0, <1>1, <2>1, Later
    <3> QED BY <1>1, <1>5, <2>1, <3>1
  <2>3. PICK x \in 0 .. Len(text), y \in 0 .. Len(text) :
               /\ x <= y /\ L[r + 1] = SubSeq(text, x + 1, y)
               /\ DOMAIN L[r + 1] = 1 .. y - x
               /\ \A c \in 1 .. y - x : L[r + 1][c] = text[x + c]
               /\ \A j \in x .. y - 1 : j \in plain /\ Row(text, j) = r /\ Col(text, j) = j - x
               /\ \A j \in plain : Row(text, j) = r => j \in x .. y - 1
    BY <1>4, <2>2
  <2>4. i \in x .. y - 1
    BY <2>3
  <2>5. Col(text, i) = i - x
    BY <2>3, <2>4
  <2>6. Col(text, i) + 1 \in 1 .. y - x /\ x + (Col(text, i) + 1) = i + 1
    BY <2>4, <2>5, <2>1
  <2>7. r + 1 \in DOMAIN L /\ Col(text, i) + 1 \in DOMAIN L[r + 1]
        /\ L[r + 1][Col(text, i) + 1] = text[i + 1]
    <3>1. r + 1 \in DOMAIN L
      BY <1>1, <1>3, <2>2
    <3> HIDE DEF r
    <3> QED BY <2>3, <2>6, <3>1
  <2>8. Position(text, i)[1] = r /\ Position(text, i)[2] = Col(text, i)
    BY <1>5, <2>1
  <2> QED BY <2>7, <2>8
<1>7. ASSUME NEW k \in DOMAIN L, NEW c \in DOMAIN L[k]
      PROVE  \E i \in plain : Position(text, i) = <<k - 1, c - 1>>
  <2>1. k - 1 \in 0 .. Row(text, Len(text)) /\ (k - 1) + 1 = k
    BY <1>1, <1>3
  <2>2. PICK x \in 0 .. Len(text), y \in 0 .. Len(text) :
               /\ x <= y /\ DOMAIN L[(k - 1) + 1] = 1 .. y - x
               /\ \A j \in x .. y - 1 : j \in plain /\ Row(text, j) = k - 1 /\ Col(text, j) = j - x
    BY <1>4, <2>1
  <2>3. c \in 1 .. y - x
    BY <2>1, <2>2
  <2>4. x + (c - 1) \in x .. y - 1 /\ (x + (c - 1)) - x = c - 1
    BY <2>3
  <2>5. x + (c - 1) \in plain /\ Row(text, x + (c - 1)) = k - 1 /\ Col(text, x + (c - 1)) = c - 1
    BY <2>2, <2>4
  <2>6. x + (c - 1) \in 0 .. Len(text)
    BY <2>5, <1>1
  <2>7. Position(text, x + (c - 1)) = <<k - 1, c - 1>>
    BY <1>5, <2>5, <2>6
  <2> QED BY <2>5, <2>7
<1> QED BY <1>2, <1>6, <1>7 DEF LinesAgree, text, L

-----------------------------------------------------------------------------
(* Texts put together.                                                       *)

\* The characters of two texts put together.
LEMMA Joint ==
  ASSUME NEW s \in Text, NEW t \in Text
  PROVE  /\ s \o t \in Text /\ Len(s) \in Nat /\ Len(t) \in Nat
         /\ Len(s \o t) = Len(s) + Len(t)
         /\ \A k \in 1 .. Len(s) : (s \o t)[k] = s[k]
         /\ \A k \in 1 .. Len(t) : (s \o t)[Len(s) + k] = t[k]
<1> QED BY DEF Text

\* The characters of the two parts of a text.
LEMMA Parts ==
  ASSUME NEW text \in Text, NEW i \in 0 .. Len(text)
  PROVE  /\ Upto(text, i) \in Text /\ Len(Upto(text, i)) = i
         /\ \A k \in 1 .. i : Upto(text, i)[k] = text[k]
         /\ From(text, i) \in Text /\ Len(From(text, i)) = Len(text) - i
         /\ \A k \in 1 .. Len(text) - i : From(text, i)[k] = text[i + k]
<1> QED BY DEF Text, Upto, From

\* Two texts with one length and the same characters are one.
LEMMA SameText ==
  ASSUME NEW s \in Text, NEW t \in Text, Len(s) = Len(t), \A k \in 1 .. Len(s) : s[k] = t[k]
  PROVE  s = t
<1> QED BY DEF Text

\* A text of which the characters between two indexes are replaced.
LEMMA Spliced ==
  ASSUME NEW text \in Text, NEW i \in 0 .. Len(text), NEW j \in i .. Len(text), NEW new \in Text
  PROVE  LET t == Upto(text, i) \o new \o From(text, j)
         IN  /\ t \in Text /\ Len(t) = (i + Len(new)) + (Len(text) - j)
             /\ \A k \in 1 .. i : t[k] = text[k]
             /\ \A k \in 1 .. Len(new) : t[i + k] = new[k]
             /\ \A k \in 1 .. Len(text) - j : t[(i + Len(new)) + k] = text[j + k]
<1> DEFINE u == Upto(text, i)
           v == u \o new
           w == From(text, j)
           t == v \o w
<1>0. Len(text) \in Nat /\ Len(new) \in Nat /\ j \in 0 .. Len(text)
  BY DEF Text
<1>1. u \in Text /\ Len(u) = i /\ \A k \in 1 .. i : u[k] = text[k]
  BY Parts
<1>2. w \in Text /\ Len(w) = Len(text) - j /\ \A k \in 1 .. Len(text) - j : w[k] = text[j + k]
  BY Parts, <1>0
<1> HIDE DEF u, w
<1>3. v \in Text /\ Len(v) = i + Len(new)
      /\ (\A k \in 1 .. i : v[k] = text[k]) /\ (\A k \in 1 .. Len(new) : v[i + k] = new[k])
  BY <1>1, Joint
<1> HIDE DEF v
<1>4. t \in Text /\ Len(t) = Len(v) + Len(w)
      /\ (\A k \in 1 .. Len(v) : t[k] = v[k]) /\ (\A k \in 1 .. Len(w) : t[Len(v) + k] = w[k])
  BY <1>2, <1>3, Joint
<1> HIDE DEF t
<1>5. \A k \in 1 .. i : k \in 1 .. Len(v)
  BY <1>3, <1>0
<1>6. \A k \in 1 .. Len(new) : i + k \in 1 .. Len(v)
  BY <1>3, <1>0
<1>7. /\ t \in Text /\ Len(t) = (i + Len(new)) + (Len(text) - j)
      /\ \A k \in 1 .. i : t[k] = text[k]
      /\ \A k \in 1 .. Len(new) : t[i + k] = new[k]
      /\ \A k \in 1 .. Len(text) - j : t[(i + Len(new)) + k] = text[j + k]
  BY <1>2, <1>3, <1>4, <1>5, <1>6
<1> QED BY <1>7 DEF t, v, u, w

\* Positions depend only on the breaks before them.
LEMMA SameBreaks ==
  ASSUME NEW t \in Text, NEW u \in Text, NEW N \in Nat, N <= Len(t), N <= Len(u),
         \A b \in 1 .. N : b \in Breaks(t) <=> b \in Breaks(u)
  PROVE  \A j \in 0 .. N : Row(t, j) = Row(u, j) /\ Col(t, j) = Col(u, j)
<1> DEFINE S == {j \in 0 .. N : Row(t, j) = Row(u, j) /\ Col(t, j) = Col(u, j)}
<1>0. Len(t) \in Nat /\ Len(u) \in Nat
  BY DEF Text
<1>1. 0 \in S
  BY RowCol
<1>2. \A j \in 0 .. N - 1 : j \in S => j + 1 \in S
  <2> SUFFICES ASSUME NEW j \in 0 .. N - 1, Row(t, j) = Row(u, j), Col(t, j) = Col(u, j)
               PROVE Row(t, j + 1) = Row(u, j + 1) /\ Col(t, j + 1) = Col(u, j + 1)
    OBVIOUS
  <2>1. j \in 0 .. Len(t) - 1 /\ j \in 0 .. Len(u) - 1 /\ j + 1 \in 1 .. N
    BY <1>0
  <2>2. IF j + 1 \in Breaks(t)
          THEN Row(t, j + 1) = Row(t, j) + 1 /\ Col(t, j + 1) = 0
          ELSE Row(t, j + 1) = Row(t, j) /\ Col(t, j + 1) = Col(t, j) + 1
    BY <2>1, RowCol
  <2>3. IF j + 1 \in Breaks(u)
          THEN Row(u, j + 1) = Row(u, j) + 1 /\ Col(u, j + 1) = 0
          ELSE Row(u, j + 1) = Row(u, j) /\ Col(u, j + 1) = Col(u, j) + 1
    BY <2>1, RowCol
  <2> QED BY <2>1, <2>2, <2>3
<1>3. \A j \in 0 .. N : j \in S
  <2> HIDE DEF S
  <2> QED BY <1>1, <1>2, Induct
<1> QED BY <1>3

\* The position in a text from a position on: lines are added, columns within the first.
LEMMA PositionsAdd ==
  ASSUME NEW t \in Text, NEW new \in Text, NEW i \in Nat, i + Len(new) <= Len(t),
         \A b \in 1 .. Len(new) : i + b \in Breaks(t) <=> b \in Breaks(new)
  PROVE  LET m == Len(new)
         IN  /\ Row(t, i + m) = Row(t, i) + Row(new, m)
             /\ Col(t, i + m) = IF Row(new, m) > 0 THEN Col(new, m) ELSE Col(t, i) + Col(new, m)
<1> DEFINE m == Len(new)
           Added(j) == /\ Row(t, i + j) = Row(t, i) + Row(new, j)
                       /\ Col(t, i + j) = IF Row(new, j) > 0 THEN Col(new, j) ELSE Col(t, i) + Col(new, j)
           S == {j \in 0 .. m : Added(j)}
<1>0. Len(t) \in Nat /\ m \in Nat /\ i \in 0 .. Len(t)
  BY DEF Text
<1>1. Row(t, i) \in Nat /\ Col(t, i) \in Nat
  BY <1>0, RowCol
<1>2. 0 \in S
  <2>1. Row(new, 0) = 0 /\ Col(new, 0) = 0 /\ i + 0 = i
    BY RowCol
  <2> QED BY <1>0, <1>1, <2>1
<1>3. \A j \in 0 .. m - 1 : j \in S => j + 1 \in S
  <2> SUFFICES ASSUME NEW j \in 0 .. m - 1, Added(j) PROVE Added(j + 1)
    BY <1>0
  <2>1. /\ i + j \in 0 .. Len(t) - 1 /\ j \in 0 .. Len(new) - 1 /\ j + 1 \in 1 .. Len(new)
        /\ i + (j + 1) = (i + j) + 1 /\ j \in 0 .. Len(new)
    BY <1>0
  <2>2. IF i + (j + 1) \in Breaks(t)
          THEN Row(t, i + (j + 1)) = Row(t, i + j) + 1 /\ Col(t, i + (j + 1)) = 0
          ELSE Row(t, i + (j + 1)) = Row(t, i + j) /\ Col(t, i + (j + 1)) = Col(t, i + j) + 1
    BY <2>1, RowCol
  <2>3. IF j + 1 \in Breaks(new)
          THEN Row(new, j + 1) = Row(new, j) + 1 /\ Col(new, j + 1) = 0
          ELSE Row(new, j + 1) = Row(new, j) /\ Col(new, j + 1) = Col(new, j) + 1
    BY <2>1, RowCol
  <2>4. Row(new, j) \in Nat /\ Col(new, j) \in Nat
    BY <2>1, RowCol
  <2>5. i + (j + 1) \in Breaks(t) <=> j + 1 \in Breaks(new)
    BY <2>1
  <2>6. /\ Row(t, i + j) = Row(t, i) + Row(new, j)
        /\ Col(t, i + j) = IF Row(new, j) > 0 THEN Col(new, j) ELSE Col(t, i) + Col(new, j)
    OBVIOUS
  <2>7. CASE j + 1 \in Breaks(new)
    <3>1. /\ Row(t, i + (j + 1)) = Row(t, i + j) + 1 /\ Col(t, i + (j + 1)) = 0
          /\ Row(new, j + 1) = Row(new, j) + 1 /\ Col(new, j + 1) = 0
      BY <2>2, <2>3, <2>5, <2>7
    <3>2. Row(t, i + j) = Row(t, i) + Row(new, j)
      BY <2>6
    <3>3. Row(new, j + 1) > 0
      BY <2>4, <3>1
    <3>4. Row(t, i + (j + 1)) = Row(t, i) + Row(new, j + 1)
      <4> HIDE DEF m
      <4> QED BY <1>1, <2>4, <3>1, <3>2
    <3> QED BY <3>1, <3>3, <3>4
  <2>8. CASE j + 1 \notin Breaks(new)
    <3>1. Row(t, i + (j + 1)) = Row(t, i) + Row(new, j + 1)
      BY <2>2, <2>3, <2>5, <2>6, <2>8
    <3>2. CASE Row(new, j) > 0
      BY <1>1, <2>2, <2>3, <2>4, <2>5, <2>6, <2>8, <3>1, <3>2
    <3>3. CASE ~(Row(new, j) > 0)
      BY <1>1, <2>2, <2>3, <2>4, <2>5, <2>6, <2>8, <3>1, <3>3
    <3> QED BY <3>2, <3>3
  <2> QED BY <2>7, <2>8
<1>4. \A j \in 0 .. m : j \in S
  <2> HIDE DEF S, m
  <2> QED BY <1>0, <1>2, <1>3, Induct
<1> QED BY <1>4, <1>0

\* The end that insert_text_at_position reports for what it has inserted at an index.
LEMMA PositionAfterIs ==
  ASSUME NEW text \in Text, NEW i \in 0 .. Len(text), NEW new \in Text, \A k \in 1 .. Len(new) : new[k] # CR,
         i > 0 /\ text[i] = CR /\ Len(new) > 0 => new[1] # LF /\ i \in Breaks(text)
  PROVE  Position(Upto(text, i) \o new \o From(text, i), i + Len(new))
           = PositionAfter(Row(text, i), Col(text, i), new)
<1> DEFINE t == Upto(text, i) \o new \o From(text, i)
           m == Len(new)
<1>0. Len(text) \in Nat /\ m \in Nat /\ i \in i .. Len(text)
  BY DEF Text
<1>1. /\ t \in Text /\ Len(t) = (i + m) + (Len(text) - i)
      /\ \A k \in 1 .. i : t[k] = text[k]
      /\ \A k \in 1 .. m : t[i + k] = new[k]
      /\ \A k \in 1 .. Len(text) - i : t[(i + m) + k] = text[i + k]
  BY <1>0, Spliced
<1> HIDE DEF t
<1>2. \A b \in 1 .. m : i + b \in Breaks(t) <=> b \in Breaks(new)
  <2> SUFFICES ASSUME NEW b \in 1 .. m PROVE i + b \in Breaks(t) <=> b \in Breaks(new)
    OBVIOUS
  <2>1. t[i + b] = new[b] /\ new[b] # CR /\ i + b \in 1 .. Len(t)
    BY <1>0, <1>1
  <2> QED BY <2>1 DEF Breaks
<1>3. \A b \in 1 .. i : b \in Breaks(t) <=> b \in Breaks(text)
  <2> SUFFICES ASSUME NEW b \in 1 .. i PROVE b \in Breaks(t) <=> b \in Breaks(text)
    OBVIOUS
  <2>1. t[b] = text[b] /\ b \in 1 .. Len(t) /\ b \in 1 .. Len(text)
    BY <1>0, <1>1
  <2>2. CASE b < i
    <3>1. t[b + 1] = text[b + 1]
      <4>1. b + 1 \in 1 .. i
        BY <2>2, <1>0
      <4> QED BY <4>1, <1>1
    <3>2. b # Len(t) /\ b # Len(text)
      BY <2>2, <1>0, <1>1
    <3> QED BY <2>1, <3>1, <3>2 DEF Breaks
  <2>3. CASE b = i
    <3>1. CASE m = 0
      <4>1. i < Len(text) => t[i + 1] = text[i + 1]
        <5> SUFFICES ASSUME i < Len(text) PROVE t[i + 1] = text[i + 1]
          OBVIOUS
        <5>1. 1 \in 1 .. Len(text) - i /\ (i + m) + 1 = i + 1
          BY <1>0, <3>1
        <5>2. t[(i + m) + 1] = text[i + 1]
          BY <1>1, <5>1
        <5> QED BY <5>1, <5>2
      <4>2. Len(t) = Len(text)
        BY <1>0, <1>1, <3>1
      <4>3. i = Len(text) \/ i < Len(text)
        BY <1>0
      <4> QED BY <2>1, <2>3, <4>1, <4>2, <4>3 DEF Breaks
    <3>2. CASE m > 0
      <4>1. t[i + 1] = new[1]
        BY <1>0, <1>1, <3>2
      <4>2. text[i] = CR => new[1] # LF /\ i \in Breaks(text)
        BY <2>3, <3>2
      <4> QED BY <2>1, <2>3, <4>1, <4>2 DEF Breaks
    <3> QED BY <1>0, <3>1, <3>2
  <2> QED BY <1>0, <2>2, <2>3
<1>4. Row(t, i) = Row(text, i) /\ Col(t, i) = Col(text, i)
  <2>1. i \in Nat /\ i <= Len(t) /\ i <= Len(text) /\ i \in 0 .. i
    BY <1>0, <1>1
  <2> QED BY <1>1, <1>3, <2>1, SameBreaks
<1>5. /\ Row(t, i + m) = Row(t, i) + Row(new, m)
      /\ Col(t, i + m) = IF Row(new, m) > 0 THEN Col(new, m) ELSE Col(t, i) + Col(new, m)
  <2>1. i \in Nat /\ i + m <= Len(t)
    BY <1>0, <1>1
  <2> QED BY <1>1, <1>2, <2>1, PositionsAdd
<1>6. Position(t, i + m) = <<Row(t, i + m), Col(t, i + m)>>
  <2>1. i + m \in 0 .. Len(t)
    BY <1>0, <1>1
  <2> QED BY <1>1, <2>1, RowCol
<1>7. AtEnd(new).line = Row(new, m) /\ AtEnd(new).col = Col(new, m)
  BY AtEndIs
<1>8. PositionAfter(Row(text, i), Col(text, i), new)
        = IF Row(new, m) > 0 THEN <<Row(text, i) + Row(new, m), Col(new, m)>>
          ELSE <<Row(text, i), Col(text, i) + Col(new, m)>>
  <2> HIDE DEF m
  <2> QED BY <1>7 DEF PositionAfter
<1>9. Row(new, m) \in Nat /\ Row(text, i) \in Nat
  BY <1>0, RowCol
<1> HIDE DEF m
<1>10. Position(t, i + m) = PositionAfter(Row(text, i), Col(text, i), new)
  BY <1>4, <1>5, <1>6, <1>8, <1>9
<1> QED BY <1>10 DEF t, m

-----------------------------------------------------------------------------
(* TextUtils: what is inserted and deleted by position.                      *)

\* An index is not taken for the answer that there is none.
LEMMA NotInvalid == \A i \in Nat : i # Invalid
<1> QED BY DEF Invalid

\* insert_text_at_position, at the position of an index.
LEMMA InsertedAt ==
  ASSUME NEW text \in Text, NEW i \in 0 .. Len(text), NEW new
  PROVE  Inserted(text, Row(text, i), Col(text, i), new)
           = [text |-> Upto(text, i) \o new \o From(text, i),
              end |-> PositionAfter(Row(text, i), Col(text, i), new)]
<1>1. IndexOf(text, Row(text, i), Col(text, i)) = i
  BY IndexOfPosition
<1>2. i # Invalid
  BY NotInvalid
<1> QED BY <1>1, <1>2 DEF Inserted

\* insert_text_at_position, one line past the last.
LEMMA InsertedPastEnd ==
  ASSUME NEW text \in Text, NEW new
  PROVE  Inserted(text, Row(text, Len(text)) + 1, 0, new)
           = [text |-> Upto(text, Len(text)) \o (<<LF>> \o new) \o From(text, Len(text)),
              end |-> PositionAfter(Row(text, Len(text)), Col(text, Len(text)), <<LF>> \o new)]
<1> DEFINE line == Row(text, Len(text)) + 1
<1>0. Len(text) \in Nat /\ Row(text, Len(text)) \in Nat
  BY RowCol DEF Text
<1>1. IndexOf(text, line, 0) = Invalid
  <2>1. line \in Nat /\ line > Row(text, Len(text))
    BY <1>0
  <2> HIDE DEF line
  <2> QED BY <2>1, NoIndex
<1>2. AtEnd(text).line = Row(text, Len(text)) /\ AtEnd(text).col = Col(text, Len(text))
  BY AtEndIs
<1>3. IsPastEnd(text, line, 0)
  BY <1>2 DEF IsPastEnd
<1>4. Inserted(text, line, 0, new) = [text |-> Upto(text, Len(text)) \o (<<LF>> \o new) \o From(text, Len(text)),
              end |-> PositionAfter(AtEnd(text).line, AtEnd(text).col, <<LF>> \o new)]
  <2> HIDE DEF line
  <2> QED BY <1>1, <1>3 DEF Inserted
<1> QED BY <1>2, <1>4

\* delete_text_between_positions, between the positions of two indexes.
LEMMA DeletedBetween ==
  ASSUME NEW text \in Text, NEW i \in 0 .. Len(text), NEW j \in 0 .. Len(text)
  PROVE  Deleted(text, <<Row(text, i), Col(text, i)>>, <<Row(text, j), Col(text, j)>>)
           = [text |-> Upto(text, i) \o From(text, j), deleted |-> SubSeq(text, i + 1, j)]
<1>1. IndexOf(text, Row(text, i), Col(text, i)) = i /\ IndexOf(text, Row(text, j), Col(text, j)) = j
  BY IndexOfPosition
<1>2. i # Invalid /\ j # Invalid
  BY NotInvalid
<1> QED BY <1>1, <1>2 DEF Deleted

\* delete_text_between_positions, from the position of an index to one line past the last.
LEMMA DeletedToEnd ==
  ASSUME NEW text \in Text, NEW i \in 0 .. Len(text)
  PROVE  Deleted(text, <<Row(text, i), Col(text, i)>>, <<Row(text, Len(text)) + 1, 0>>)
           = [text |-> Upto(text, i) \o From(text, Len(text)), deleted |-> SubSeq(text, i + 1, Len(text))]
<1> DEFINE line == Row(text, Len(text)) + 1
<1>0. Len(text) \in Nat /\ Row(text, Len(text)) \in Nat
  BY RowCol DEF Text
<1>1. IndexOf(text, Row(text, i), Col(text, i)) = i
  BY IndexOfPosition
<1>2. i # Invalid /\ Len(text) # Invalid
  BY NotInvalid, <1>0
<1>3. IndexOf(text, line, 0) = Invalid
  <2>1. line \in Nat /\ line > Row(text, Len(text))
    BY <1>0
  <2> HIDE DEF line
  <2> QED BY <2>1, NoIndex
<1>4. IsPastEnd(text, line, 0)
  BY AtEndIs DEF IsPastEnd
<1> HIDE DEF line
<1>5. Deleted(text, <<Row(text, i), Col(text, i)>>, <<line, 0>>)
        = [text |-> Upto(text, i) \o From(text, Len(text)), deleted |-> SubSeq(text, i + 1, Len(text))]
  BY <1>1, <1>2, <1>3, <1>4 DEF Deleted
<1> QED BY <1>5 DEF line

\* The letters that the proofs tell apart.
LEMMA LettersDiffer == "a" \in Letters /\ LF \in Letters /\ "a" # LF /\ "a" # CR /\ LF # CR
<1> QED BY DEF LF, CR, Letters

\* The texts that are inserted.
LEMMA NewsAre ==
  ASSUME NEW new \in News
  PROVE  /\ new \in Text /\ \A k \in 1 .. Len(new) : new[k] # CR
         /\ Len(new) > 0 => new[1] # LF
<1>1. CASE new = <<>>
  BY <1>1 DEF Text
<1>2. CASE new = <<"a">>
  <2>1. new \in Text /\ Len(new) = 1 /\ new[1] = "a"
    BY <1>2, LettersDiffer DEF Text
  <2> QED BY <2>1, LettersDiffer
<1>3. CASE new = <<"a", LF>>
  <2>1. new \in Text /\ Len(new) = 2 /\ new[1] = "a" /\ new[2] = LF
    BY <1>3, LettersDiffer DEF Text
  <2>2. \A k \in 1 .. 2 : k = 1 \/ k = 2
    OBVIOUS
  <2> QED BY <2>1, <2>2, LettersDiffer
<1> QED BY <1>1, <1>2, <1>3 DEF News

\* The place past the end is one row below the last.
LEMMA EndIs ==
  ASSUME NEW text \in Text
  PROVE  End(text) = <<Row(text, Len(text)) + 1, 0>>
<1> QED BY RowsAreBreaks DEF End

\* Insertions by position are insertions by index.
LEMMA InsertionsFound ==
  ASSUME NEW q, NEW a, q.text \in Text, q.first \in 0 .. Len(q.text), q.new \in News,
         a.inserted = Inserted(q.text, Position(q.text, q.first)[1], Position(q.text, q.first)[2], q.new),
         a.added = Inserted(q.text, End(q.text)[1], End(q.text)[2], q.new)
  PROVE  InsertionsAgree(q, a)
<1> DEFINE text == q.text
           i == q.first
           new == q.new
<1>0. /\ text \in Text /\ i \in 0 .. Len(text) /\ new \in News
      /\ a.inserted = Inserted(text, Position(text, i)[1], Position(text, i)[2], new)
      /\ a.added = Inserted(text, End(text)[1], End(text)[2], new)
  OBVIOUS
<1> HIDE DEF text, i, new
<1>1. Len(text) \in Nat /\ new \in Text /\ (\A k \in 1 .. Len(new) : new[k] # CR) /\ (Len(new) > 0 => new[1] # LF)
  BY <1>0, NewsAre DEF Text
<1>2. a.inserted = [text |-> Upto(text, i) \o new \o From(text, i),
                    end |-> PositionAfter(Row(text, i), Col(text, i), new)]
  <2>1. Position(text, i)[1] = Row(text, i) /\ Position(text, i)[2] = Col(text, i)
    BY DEF Row, Col
  <2> QED BY <1>0, <2>1, InsertedAt
<1>3. a.inserted.text = Upto(text, i) \o new \o From(text, i)
  BY <1>2
<1>4. ASSUME ~InNewline(text, i)
      PROVE  a.inserted.end = Position(a.inserted.text, i + Len(new))
  <2>1. i > 0 /\ text[i] = CR => i \in Breaks(text)
    BY <1>0, <1>1, <1>4 DEF InNewline, Breaks
  <2>2. Position(Upto(text, i) \o new \o From(text, i), i + Len(new))
          = PositionAfter(Row(text, i), Col(text, i), new)
    BY <1>0, <1>1, <2>1, PositionAfterIs
  <2> QED BY <1>2, <2>2
<1>5. ASSUME IsUnix(text)
      PROVE  a.added.text = text \o <<LF>> \o new
             /\ a.added.end = Position(a.added.text, Len(a.added.text))
  <2> DEFINE more == <<LF>> \o new
             n == Len(text)
             t == Upto(text, n) \o more \o From(text, n)
  <2>1. a.added = [text |-> t, end |-> PositionAfter(Row(text, n), Col(text, n), more)]
    <3>1. End(text)[1] = Row(text, n) + 1 /\ End(text)[2] = 0
      BY <1>0, EndIs
    <3> QED BY <1>0, <3>1, InsertedPastEnd
  <2>2. more \in Text /\ Len(more) = 1 + Len(new) /\ \A k \in 1 .. Len(more) : more[k] # CR
    <3>1. <<LF>> \in Text /\ Len(<<LF>>) = 1 /\ <<LF>>[1] # CR
      BY LettersDiffer DEF Text
    <3>2. /\ more \in Text /\ Len(more) = 1 + Len(new) /\ more[1] # CR
          /\ \A k \in 1 .. Len(new) : more[1 + k] # CR
      BY <1>1, <3>1, Joint
    <3>3. \A k \in 1 .. Len(more) : k = 1 \/ (k - 1 \in 1 .. Len(new) /\ 1 + (k - 1) = k)
      BY <1>1, <3>2
    <3> HIDE DEF more
    <3> QED BY <3>2, <3>3
  <2> HIDE DEF more
  <2>3. n \in 0 .. Len(text) /\ (n > 0 => text[n] # CR)
    BY <1>0, <1>1, <1>5 DEF IsUnix, Text
  <2>4. Position(t, n + Len(more)) = PositionAfter(Row(text, n), Col(text, n), more)
    BY <1>0, <2>2, <2>3, PositionAfterIs
  <2>5. Len(t) = n + Len(more) /\ t = text \o more
    <3>1. From(text, n) = <<>>
      <4>1. From(text, n) \in Text /\ Len(From(text, n)) = 0
        BY <1>0, <1>1, <2>3, Parts
      <4> QED BY <4>1 DEF Text
    <3>2. Upto(text, n) = text
      <4>1. /\ Upto(text, n) \in Text /\ Len(Upto(text, n)) = Len(text)
            /\ \A k \in 1 .. Len(Upto(text, n)) : Upto(text, n)[k] = text[k]
        BY <1>0, <1>1, <2>3, Parts
      <4> QED BY <1>0, <4>1, SameText
    <3>3. t = text \o more
      BY <1>0, <2>2, <3>1, <3>2 DEF Text
    <3>4. Len(text \o more) = Len(text) + Len(more)
      BY <1>0, <2>2, Joint
    <3> QED BY <3>3, <3>4
  <2>6. text \o more = text \o <<LF>> \o new
    BY <1>0, <1>1 DEF more, Text
  <2> HIDE DEF t, n
  <2> QED BY <2>1, <2>4, <2>5, <2>6
<1> QED BY <1>3, <1>4, <1>5, Zenon DEF InsertionsAgree, text, i, new

-----------------------------------------------------------------------------
(* SymbolBody.get_text: lines are split at LF, joined again and cut.         *)

\* Without carriage returns lines end in line feeds.
LEMMA UnixBreaks ==
  ASSUME NEW text \in Text, IsUnix(text)
  PROVE  Breaks(text) = {i \in 1 .. Len(text) : text[i] = LF}
<1>1. \A i \in 1 .. Len(text) : text[i] # CR
  BY DEF IsUnix, Text
<1> QED BY <1>1 DEF Breaks

\* Where the lines of a text begin; the last is followed by an end past the text.
IsCutAt(text, c) ==
  LET last == Row(text, Len(text))
  IN  /\ c \in [0 .. last + 1 -> 0 .. Len(text) + 1] /\ c[last + 1] = Len(text) + 1
      /\ \A r \in 0 .. last : c[r] \in 0 .. Len(text) /\ Row(text, c[r]) = r /\ Col(text, c[r]) = 0
      /\ \A r \in 1 .. last : text[c[r]] = LF
      /\ Len(SplitLines(text)) = last + 1 /\ SplitLines(text) \in Seq(Text)
      /\ \A r \in 0 .. last : SplitLines(text)[r + 1] = SubSeq(text, c[r] + 1, c[r + 1] - 1)

\* split gives the stretches between line feeds.
LEMMA SplitIs ==
  ASSUME NEW text \in Text, IsUnix(text)
  PROVE  \E c : IsCutAt(text, c)
<1> DEFINE n == Len(text)
           last == Row(text, n)
           B == Breaks(text)
           ends == {i \in 1 .. n : text[i] = LF} \cup {0, n + 1}
           under(i) == {j \in ends : j < i}
           cut(k) == CHOOSE i \in ends : Cardinality(under(i)) = k
           c == [k \in 0 .. last + 1 |-> cut(k)]
           lines == [k \in 1 .. Cardinality(ends) - 1 |-> SubSeq(text, cut(k - 1) + 1, cut(k) - 1)]
<1>0. n \in Nat /\ last \in Nat
  BY RowCol DEF Text
<1>1. SplitLines(text) = lines
  BY DEF SplitLines
<1>2. ends = B \cup {0, n + 1} /\ B \subseteq 1 .. n
  BY UnixBreaks DEF Breaks
<1>3. \A i \in 0 .. n : Cardinality(Begins(text, i)) = Row(text, i) + 1
  <2> SUFFICES ASSUME NEW i \in 0 .. n PROVE Cardinality(Begins(text, i)) = Row(text, i) + 1
    OBVIOUS
  <2>1. IsFiniteSet(Begins(text, i))
    <3>1. IsFiniteSet(0 .. n)
      <4> HIDE DEF n
      <4> QED BY <1>0, FS_Interval
    <3>2. Begins(text, i) \subseteq 0 .. n
      BY <1>0 DEF Begins, Breaks
    <3> QED BY <3>1, <3>2, FS_Subset
  <2>2. Cardinality(Begins(text, i)) \in Nat
    BY <2>1, FS_CardinalityType
  <2>3. Row(text, i) = Cardinality(Begins(text, i)) - 1
    BY <1>0, PositionIs DEF Row
  <2> QED BY <2>2, <2>3
<1> HIDE DEF n, last, ends
<1>4. ASSUME NEW i \in B PROVE Cardinality(under(i)) = Row(text, i)
  <2>1. i \in 1 .. n /\ i - 1 \in 0 .. n - 1 /\ (i - 1) + 1 = i /\ i - 1 \in 0 .. n
    BY <1>0, <1>2
  <2>2. under(i) = Begins(text, i - 1)
    BY <1>0, <1>2, <2>1 DEF Begins
  <2>3. Row(text, i) = Row(text, i - 1) + 1
    BY <2>1, RowCol DEF n
  <2> QED BY <2>1, <2>2, <2>3, <1>3
<1>5. Cardinality(under(0)) = 0
  <2>1. under(0) = {}
    BY <1>0, <1>2
  <2> QED BY <2>1, FS_EmptySet
<1>6. Cardinality(under(n + 1)) = last + 1 /\ Cardinality(ends) = last + 2
  <2>1. under(n + 1) = Begins(text, n) /\ ends = Begins(text, n) \cup {n + 1} /\ n + 1 \notin Begins(text, n)
    BY <1>0, <1>2 DEF Begins
  <2>2. IsFiniteSet(Begins(text, n))
    <3>1. IsFiniteSet(0 .. n) /\ Begins(text, n) \subseteq 0 .. n
      BY <1>0, <1>2, FS_Interval DEF Begins
    <3> QED BY <3>1, FS_Subset
  <2>3. Cardinality(Begins(text, n)) = last + 1
    BY <1>0, <1>3 DEF last
  <2>4. Cardinality(ends) = Cardinality(Begins(text, n)) + 1
    BY <2>1, <2>2, FS_AddElement
  <2> QED BY <2>1, <2>3, <2>4, <1>0
<1>7. \A i \in ends : i \in B \/ i = 0 \/ i = n + 1
  BY <1>2
<1>8. \A i \in B \cup {0} : i \in 0 .. n /\ Cardinality(under(i)) = Row(text, i)
  <2>1. Row(text, 0) = 0 /\ 0 \in 0 .. n
    BY <1>0, RowCol
  <2>2. \A i \in B : i \in 0 .. n
    BY <1>0, <1>2
  <2> HIDE DEF under, B
  <2> QED BY <2>1, <2>2, <1>4, <1>5
<1> HIDE DEF under
<1>9. ASSUME NEW r \in 0 .. last
      PROVE  cut(r) \in B \cup {0} /\ cut(r) \in 0 .. n /\ Row(text, cut(r)) = r /\ Col(text, cut(r)) = 0
  <2>1. PICK a \in 0 .. n : Row(text, a) = r /\ Col(text, a) = 0
    BY LinesAre DEF IsLine, last, n
  <2>2. a \in B \cup {0}
    <3>1. a - Col(text, a) = a
      BY <2>1, <1>0
    <3> QED BY <2>1, <3>1, RowStart DEF n
  <2>3. \E i \in ends : Cardinality(under(i)) = r
    BY <1>2, <1>8, <2>1, <2>2
  <2>4. cut(r) \in ends /\ Cardinality(under(cut(r))) = r
    BY <2>3
  <2> HIDE DEF cut
  <2>5. cut(r) # n + 1
    BY <2>4, <1>6, <1>0
  <2>6. cut(r) \in B \cup {0}
    BY <2>4, <2>5, <1>7
  <2>7. cut(r) \in 0 .. n /\ Row(text, cut(r)) = r
    BY <1>8, <2>4, <2>6
  <2>8. Col(text, cut(r)) = 0
    <3>1. CASE cut(r) = 0
      BY <3>1, RowCol
    <3>2. CASE cut(r) \in B
      <4>1. cut(r) - 1 \in 0 .. n - 1 /\ (cut(r) - 1) + 1 = cut(r)
        BY <1>0, <1>2, <3>2
      <4> QED BY <4>1, <3>2, RowCol DEF n
    <3> QED BY <2>6, <3>1, <3>2
  <2> QED BY <2>6, <2>7, <2>8
<1>10. cut(last + 1) = n + 1
  <2>1. \E i \in ends : Cardinality(under(i)) = last + 1
    BY <1>2, <1>6
  <2>2. cut(last + 1) \in ends /\ Cardinality(under(cut(last + 1))) = last + 1
    BY <2>1
  <2> HIDE DEF cut
  <2>3. \A i \in B \cup {0} : Cardinality(under(i)) # last + 1
    <3> SUFFICES ASSUME NEW i \in B \cup {0} PROVE Cardinality(under(i)) # last + 1
      OBVIOUS
    <3>1. i \in 0 .. n /\ Cardinality(under(i)) = Row(text, i)
      BY <1>8
    <3>2. Row(text, i) <= last /\ Row(text, i) \in Nat
      BY <3>1, <1>0, Later, RowCol DEF last, n
    <3> QED BY <3>1, <3>2, <1>0
  <2> QED BY <2>2, <2>3, <1>7
<1> HIDE DEF cut, B
<1>11. \A r \in 1 .. last : text[cut(r)] = LF
  <2> SUFFICES ASSUME NEW r \in 1 .. last PROVE text[cut(r)] = LF
    OBVIOUS
  <2>1. r \in 0 .. last /\ r # 0
    BY <1>0
  <2>2. cut(r) # 0
    BY <1>9, <2>1, RowCol
  <2>3. cut(r) \in B
    BY <1>9, <2>1, <2>2
  <2> QED BY <2>3, UnixBreaks DEF B
<1>12. \A r \in 0 .. last + 1 : cut(r) \in 0 .. n + 1
  <2>1. \A r \in 0 .. last + 1 : r \in 0 .. last \/ r = last + 1
    BY <1>0
  <2> QED BY <1>0, <1>9, <1>10, <2>1
<1>13. c \in [0 .. last + 1 -> 0 .. n + 1] /\ c[last + 1] = n + 1
  BY <1>0, <1>10, <1>12
<1>14. \A r \in 0 .. last : c[r] = cut(r) /\ c[r + 1] = cut(r + 1)
  BY <1>0
<1>15. lines = [k \in 1 .. last + 1 |-> SubSeq(text, cut(k - 1) + 1, cut(k) - 1)]
  <2>1. Cardinality(ends) - 1 = last + 1
    BY <1>6, <1>0
  <2> QED BY <2>1
<1>16. \A k \in 1 .. last + 1 : SubSeq(text, cut(k - 1) + 1, cut(k) - 1) \in Text
  <2> SUFFICES ASSUME NEW k \in 1 .. last + 1 PROVE SubSeq(text, cut(k - 1) + 1, cut(k) - 1) \in Text
    OBVIOUS
  <2>1. cut(k - 1) \in 0 .. n + 1 /\ cut(k) \in 0 .. n + 1
    <3>1. k - 1 \in 0 .. last + 1 /\ k \in 0 .. last + 1
      BY <1>0
    <3> QED BY <3>1, <1>12
  <2> QED BY <2>1, <1>0 DEF Text, n
<1>17. lines \in Seq(Text) /\ Len(lines) = last + 1
  <2> DEFINE line(k) == SubSeq(text, cut(k - 1) + 1, cut(k) - 1)
  <2>1. lines = [k \in 1 .. last + 1 |-> line(k)] /\ \A k \in 1 .. last + 1 : line(k) \in Text
    BY <1>15, <1>16
  <2>2. last + 1 \in Nat
    BY <1>0
  <2> HIDE DEF line, lines
  <2> QED BY <2>1, <2>2
<1>18. \A r \in 0 .. last : lines[r + 1] = SubSeq(text, c[r] + 1, c[r + 1] - 1)
  <2> SUFFICES ASSUME NEW r \in 0 .. last PROVE lines[r + 1] = SubSeq(text, c[r] + 1, c[r + 1] - 1)
    OBVIOUS
  <2>1. r + 1 \in 1 .. last + 1 /\ (r + 1) - 1 = r
    BY <1>0
  <2>2. lines[r + 1] = SubSeq(text, cut(r) + 1, cut(r + 1) - 1)
    BY <1>15, <2>1
  <2> HIDE DEF lines, c
  <2> QED BY <2>2, <1>14
<1> HIDE DEF lines, c
<1>19. \A r \in 1 .. last : text[c[r]] = LF
  <2>1. \A r \in 1 .. last : r \in 0 .. last
    BY <1>0
  <2> QED BY <1>11, <1>14, <2>1
<1>20. \A r \in 0 .. last : c[r] \in 0 .. n /\ Row(text, c[r]) = r /\ Col(text, c[r]) = 0
  BY <1>9, <1>14
<1>21. IsCutAt(text, c)
  BY <1>1, <1>13, <1>17, <1>18, <1>19, <1>20 DEF IsCutAt, last, n
<1> QED BY <1>21

\* A sequence of texts, each made from the one before it, exists.
LEMMA TextRecursion ==
  ASSUME NEW none \in Text, NEW N \in Nat, NEW step \in [1 .. N -> [Text -> Text]]
  PROVE  \E f \in [0 .. N -> Text] : f[0] = none /\ \A k \in 1 .. N : f[k] = step[k][f[k - 1]]
<1> QED BY Recursion

\* Lines joined one after the other.
LEMMA JoinedIs ==
  ASSUME NEW lines \in Seq(Text), Len(lines) > 0
  PROVE  \E g : /\ g[1] = lines[1]
                /\ \A k \in 2 .. Len(lines) : g[k] = g[k - 1] \o <<LF>> \o lines[k]
                /\ Joined(lines) = g[Len(lines)]
<1> DEFINE N == Len(lines)
           one(k) == [x \in Text |-> IF k = 1 THEN lines[1] ELSE x \o <<LF>> \o lines[k]]
           step == [k \in 1 .. N |-> one(k)]
<1>0. N \in Nat /\ 1 \in 1 .. N /\ \A k \in 1 .. N : lines[k] \in Text
  OBVIOUS
<1>1. <<>> \in Text /\ <<LF>> \in Text
  BY LettersDiffer DEF Text
<1>2. ASSUME NEW k \in 1 .. N PROVE one(k) \in [Text -> Text]
  <2>1. \A x \in Text : x \o <<LF>> \o lines[k] \in Text
    BY <1>0, <1>1, Joint
  <2>2. lines[1] \in Text
    BY <1>0
  <2> QED BY <2>1, <2>2
<1>3. step \in [1 .. N -> [Text -> Text]]
  <2> HIDE DEF one
  <2> QED BY <1>2
<1>4. \E f \in [0 .. N -> Text] : f[0] = <<>> /\ \A k \in 1 .. N : f[k] = step[k][f[k - 1]]
  <2> DEFINE none == <<>>
  <2>1. none \in Text /\ N \in Nat
    BY <1>0, <1>1
  <2> HIDE DEF step, N, none
  <2>2. \E f \in [0 .. N -> Text] : f[0] = none /\ \A k \in 1 .. N : f[k] = step[k][f[k - 1]]
    BY <1>3, <2>1, TextRecursion
  <2> QED BY <2>2 DEF none
<1>5. PICK f \in [0 .. N -> Text] : f[0] = <<>> /\ \A k \in 1 .. N : f[k] = step[k][f[k - 1]]
  BY <1>4
<1>6. ASSUME NEW k \in 1 .. N
      PROVE  f[k] = IF k = 1 THEN lines[1] ELSE f[k - 1] \o <<LF>> \o lines[k]
  <2>1. f[k] = one(k)[f[k - 1]]
    <3> HIDE DEF one
    <3> QED BY <1>5
  <2>2. f[k - 1] \in Text
    BY <1>0
  <2> QED BY <2>1, <2>2
<1> DEFINE Next(g) == [k \in 0 .. N |-> CASE k = 0 -> <<>>
                                          [] k = 1 -> lines[1]
                                          [] OTHER -> g[k - 1] \o <<LF>> \o lines[k]]
<1>7. f = Next(f)
  <2>1. \A k \in 0 .. N : k # 0 => k \in 1 .. N
    BY <1>0
  <2>2. \A k \in 0 .. N : f[k] = CASE k = 0 -> <<>>
                                   [] k = 1 -> lines[1]
                                   [] OTHER -> f[k - 1] \o <<LF>> \o lines[k]
    <3> SUFFICES ASSUME NEW k \in 0 .. N
                 PROVE f[k] = CASE k = 0 -> <<>>
                                [] k = 1 -> lines[1]
                                [] OTHER -> f[k - 1] \o <<LF>> \o lines[k]
      OBVIOUS
    <3>1. CASE k = 0
      BY <3>1, <1>5
    <3>2. CASE k = 1
      BY <3>2, <1>0, <1>6
    <3>3. CASE k # 0 /\ k # 1
      <4>1. f[k] = f[k - 1] \o <<LF>> \o lines[k]
        BY <3>3, <1>6, <2>1
      <4> QED BY <4>1, <3>3
    <3> QED BY <3>1, <3>2, <3>3
  <2> HIDE DEF N
  <2> QED BY <1>5, <2>2
<1>8. \E g : g = Next(g) /\ Joined(lines) = g[N]
  BY <1>7, Zenon DEF Joined
<1>9. PICK g : g = Next(g) /\ Joined(lines) = g[N]
  BY <1>8
<1>10. g[1] = lines[1]
  BY <1>0, <1>9
<1>11. ASSUME NEW k \in 2 .. N PROVE g[k] = g[k - 1] \o <<LF>> \o lines[k]
  <2>1. k \in 0 .. N /\ k # 0 /\ k # 1
    BY <1>0
  <2>2. g[k] = CASE k = 0 -> <<>>
                 [] k = 1 -> lines[1]
                 [] OTHER -> g[k - 1] \o <<LF>> \o lines[k]
    <3> HIDE DEF N
    <3> QED BY <1>9, <2>1
  <2> QED BY <2>1, <2>2
<1> QED BY <1>9, <1>10, <1>11

\* Two parts of a text on either side of a line end.
LEMMA Seam ==
  ASSUME NEW text \in Text, NEW x \in 0 .. Len(text), NEW y \in x + 1 .. Len(text),
         NEW z \in y .. Len(text), text[y] = LF
  PROVE  SubSeq(text, x + 1, y - 1) \o <<LF>> \o SubSeq(text, y + 1, z) = SubSeq(text, x + 1, z)
<1> DEFINE u == SubSeq(text, x + 1, y - 1)
           v == u \o <<LF>>
           w == SubSeq(text, y + 1, z)
           t == SubSeq(text, x + 1, z)
<1>0. Len(text) \in Nat
  BY DEF Text
<1>1. u \in Text /\ Len(u) = (y - 1) - x /\ \A k \in 1 .. (y - 1) - x : u[k] = text[x + k]
  BY <1>0 DEF Text
<1>2. w \in Text /\ Len(w) = z - y /\ \A k \in 1 .. z - y : w[k] = text[y + k]
  BY <1>0 DEF Text
<1>3. t \in Text /\ Len(t) = z - x /\ \A k \in 1 .. z - x : t[k] = text[x + k]
  BY <1>0 DEF Text
<1>4. <<LF>> \in Text /\ Len(<<LF>>) = 1 /\ <<LF>>[1] = LF
  BY LettersDiffer DEF Text
<1> HIDE DEF u, w, t
<1>5. /\ v \in Text /\ Len(v) = y - x /\ \A k \in 1 .. (y - 1) - x : v[k] = u[k]
      /\ v[y - x] = LF
  <2>1. v \in Text /\ Len(v) = Len(u) + 1 /\ (\A k \in 1 .. Len(u) : v[k] = u[k]) /\ v[Len(u) + 1] = LF
    <3> DEFINE one == <<LF>>
    <3>1. one \in Text /\ Len(one) = 1 /\ one[1] = LF /\ 1 \in 1 .. 1 /\ u \in Text
      BY <1>1, <1>4
    <3> HIDE DEF one
    <3>2. /\ u \o one \in Text /\ Len(u \o one) = Len(u) + Len(one)
          /\ \A k \in 1 .. Len(u) : (u \o one)[k] = u[k]
          /\ \A k \in 1 .. Len(one) : (u \o one)[Len(u) + k] = one[k]
      BY <3>1, Joint
    <3>3. (u \o one)[Len(u) + 1] = one[1] /\ Len(u \o one) = Len(u) + 1
      BY <3>1, <3>2
    <3> QED BY <3>1, <3>2, <3>3 DEF one
  <2>2. Len(u) + 1 = y - x
    BY <1>0, <1>1
  <2> QED BY <2>1, <2>2, <1>1
<1> HIDE DEF v
<1>6. /\ v \o w \in Text /\ Len(v \o w) = z - x /\ \A k \in 1 .. y - x : (v \o w)[k] = v[k]
      /\ \A k \in 1 .. z - y : (v \o w)[(y - x) + k] = w[k]
  <2>1. (y - x) + (z - y) = z - x
    BY <1>0
  <2>2. v \in Text /\ w \in Text /\ Len(v) = y - x /\ Len(w) = z - y
    BY <1>2, <1>5
  <2>3. /\ v \o w \in Text /\ Len(v \o w) = Len(v) + Len(w)
        /\ \A k \in 1 .. Len(v) : (v \o w)[k] = v[k]
        /\ \A k \in 1 .. Len(w) : (v \o w)[Len(v) + k] = w[k]
    BY <2>2, Joint
  <2> QED BY <2>1, <2>2, <2>3
<1>7. ASSUME NEW k \in 1 .. z - x PROVE (v \o w)[k] = t[k]
  <2>1. CASE k < y - x
    <3>1. k \in 1 .. (y - 1) - x /\ k \in 1 .. y - x
      BY <2>1, <1>0
    <3> QED BY <3>1, <1>1, <1>3, <1>5, <1>6
  <2>2. CASE k = y - x
    <3>1. k \in 1 .. y - x /\ x + k = y
      BY <2>2, <1>0
    <3> QED BY <3>1, <2>2, <1>3, <1>5, <1>6
  <2>3. CASE k > y - x
    <3>1. k - (y - x) \in 1 .. z - y /\ (y - x) + (k - (y - x)) = k /\ y + (k - (y - x)) = x + k
      BY <2>3, <1>0
    <3>2. (v \o w)[k] = w[k - (y - x)]
      BY <3>1, <1>6
    <3>3. w[k - (y - x)] = text[x + k]
      BY <3>1, <1>2
    <3> QED BY <3>2, <3>3, <1>3
  <2>4. k < y - x \/ k = y - x \/ k > y - x
    BY <1>0
  <2> QED BY <2>1, <2>2, <2>3, <2>4
<1>8. v \o w = t
  BY <1>3, <1>6, <1>7, SameText
<1> QED BY <1>8 DEF v, u, w, t

\* A part of a part of a text.
LEMMA PartOfPart ==
  ASSUME NEW text \in Text, NEW x \in 0 .. Len(text), NEW i \in x .. Len(text),
         NEW j \in i .. Len(text), NEW z \in j .. Len(text)
  PROVE  /\ From(SubSeq(text, x + 1, z), i - x) = SubSeq(text, i + 1, z)
         /\ Len(SubSeq(text, i + 1, z)) = z - i
         /\ Upto(SubSeq(text, i + 1, z), j - i) = SubSeq(text, i + 1, j)
<1> DEFINE u == SubSeq(text, x + 1, z)
           v == SubSeq(text, i + 1, z)
           w == SubSeq(text, i + 1, j)
<1>0. Len(text) \in Nat
  BY DEF Text
<1>1. u \in Text /\ Len(u) = z - x /\ \A k \in 1 .. z - x : u[k] = text[x + k]
  BY <1>0 DEF Text
<1>2. v \in Text /\ Len(v) = z - i /\ \A k \in 1 .. z - i : v[k] = text[i + k]
  BY <1>0 DEF Text
<1>3. w \in Text /\ Len(w) = j - i /\ \A k \in 1 .. j - i : w[k] = text[i + k]
  BY <1>0 DEF Text
<1> HIDE DEF u, v, w
<1>4. From(u, i - x) = v
  <2>1. i - x \in 0 .. Len(u) /\ Len(u) - (i - x) = z - i
    BY <1>0, <1>1
  <2>2. /\ From(u, i - x) \in Text /\ Len(From(u, i - x)) = z - i
        /\ \A k \in 1 .. z - i : From(u, i - x)[k] = u[(i - x) + k]
    <3>1. /\ From(u, i - x) \in Text /\ Len(From(u, i - x)) = Len(u) - (i - x)
          /\ \A k \in 1 .. Len(u) - (i - x) : From(u, i - x)[k] = u[(i - x) + k]
      BY <1>1, <2>1, Parts
    <3> QED BY <2>1, <3>1
  <2>3. \A k \in 1 .. z - i : (i - x) + k \in 1 .. z - x /\ x + ((i - x) + k) = i + k
    BY <1>0
  <2>4. \A k \in 1 .. z - i : From(u, i - x)[k] = v[k]
    BY <1>1, <1>2, <2>2, <2>3
  <2> QED BY <1>2, <2>2, <2>4, SameText
<1>5. Upto(v, j - i) = w
  <2>1. j - i \in 0 .. Len(v)
    BY <1>0, <1>2
  <2>2. /\ Upto(v, j - i) \in Text /\ Len(Upto(v, j - i)) = j - i
        /\ \A k \in 1 .. j - i : Upto(v, j - i)[k] = v[k]
    BY <1>2, <2>1, Parts
  <2>3. \A k \in 1 .. j - i : k \in 1 .. z - i
    BY <1>0
  <2>4. \A k \in 1 .. j - i : Upto(v, j - i)[k] = w[k]
    BY <1>2, <1>3, <2>2, <2>3
  <2> QED BY <1>3, <2>2, <2>4, SameText
<1> QED BY <1>2, <1>4, <1>5 DEF u, v, w

\* Lines begin one after the other, and an index lies in the line of its position.
LEMMA CutsRise ==
  ASSUME NEW text \in Text, NEW c, IsCutAt(text, c)
  PROVE  LET last == Row(text, Len(text))
         IN  /\ \A r \in 0 .. last : \A s \in r + 1 .. last + 1 : c[r] < c[s]
             /\ \A i \in 0 .. Len(text) : /\ Row(text, i) \in 0 .. last
                                          /\ c[Row(text, i)] = i - Col(text, i)
                                          /\ i < c[Row(text, i) + 1]
<1> DEFINE last == Row(text, Len(text))
<1>0. Len(text) \in Nat /\ last \in Nat
  BY RowCol DEF Text
<1>1. /\ c \in [0 .. last + 1 -> 0 .. Len(text) + 1] /\ c[last + 1] = Len(text) + 1
      /\ \A r \in 0 .. last : c[r] \in 0 .. Len(text) /\ Row(text, c[r]) = r /\ Col(text, c[r]) = 0
  BY DEF IsCutAt
<1> HIDE DEF last
<1>2. ASSUME NEW r \in 0 .. last, NEW s \in r + 1 .. last + 1 PROVE c[r] < c[s]
  <2>1. CASE s = last + 1
    BY <1>0, <1>1, <2>1
  <2>2. CASE s # last + 1
    <3>1. s \in 0 .. last
      BY <1>0, <2>2
    <3>2. /\ c[r] \in 0 .. Len(text) /\ Row(text, c[r]) = r
          /\ c[s] \in 0 .. Len(text) /\ Row(text, c[s]) = s
      BY <1>1, <3>1
    <3>3. c[s] <= c[r] => Row(text, c[s]) <= Row(text, c[r])
      <4> SUFFICES ASSUME c[s] <= c[r] PROVE Row(text, c[s]) <= Row(text, c[r])
        OBVIOUS
      <4>1. c[r] \in c[s] .. Len(text)
        BY <1>0, <3>2
      <4> QED BY <3>2, <4>1, Later
    <3> QED BY <1>0, <3>2, <3>3
  <2> QED BY <2>1, <2>2
<1>3. ASSUME NEW i \in 0 .. Len(text)
      PROVE  /\ Row(text, i) \in 0 .. last
             /\ c[Row(text, i)] = i - Col(text, i)
             /\ i < c[Row(text, i) + 1]
  <2> DEFINE r == Row(text, i)
             x == i - Col(text, i)
  <2>1. r \in 0 .. last
    <3>1. Len(text) \in i .. Len(text) /\ r \in Nat
      BY <1>0, RowCol
    <3>2. Row(text, i) <= Row(text, Len(text))
      BY <3>1, Later
    <3> QED BY <1>0, <3>1, <3>2 DEF last
  <2>2. x \in 0 .. i /\ x \in 0 .. Len(text) /\ Row(text, x) = r /\ Col(text, x) = 0
    <3>1. x \in 0 .. i /\ Row(text, x) = r /\ Col(text, x) = 0
      BY RowStart
    <3> HIDE DEF x
    <3> QED BY <1>0, <3>1
  <2> HIDE DEF r, x
  <2>3. c[r] \in 0 .. Len(text) /\ Row(text, c[r]) = r /\ Col(text, c[r]) = 0
    BY <1>1, <2>1
  <2>4. c[r] = x
    BY <2>2, <2>3, OneIndex
  <2>5. i < c[r + 1]
    <3>1. CASE r = last
      BY <1>0, <1>1, <3>1
    <3>2. CASE r # last
      <4>1. r + 1 \in 0 .. last
        BY <1>0, <2>1, <3>2
      <4>2. c[r + 1] \in 0 .. Len(text) /\ Row(text, c[r + 1]) = r + 1
        BY <1>1, <4>1
      <4>3. c[r + 1] <= i => Row(text, c[r + 1]) <= Row(text, i)
        <5> SUFFICES ASSUME c[r + 1] <= i PROVE Row(text, c[r + 1]) <= Row(text, i)
          OBVIOUS
        <5>1. i \in c[r + 1] .. Len(text)
          BY <1>0, <4>2
        <5> QED BY <4>2, <5>1, Later
      <4> QED BY <1>0, <2>1, <4>2, <4>3 DEF r
    <3> QED BY <3>1, <3>2
  <2> QED BY <2>1, <2>4, <2>5 DEF r, x
<1> QED BY <1>2, <1>3 DEF last

\* Lines that are split and joined again are what the text has between them.
LEMMA JoinedLines ==
  ASSUME NEW text \in Text, NEW c, IsCutAt(text, c),
         NEW a \in 0 .. Row(text, Len(text)), NEW b \in a .. Row(text, Len(text))
  PROVE  Joined(SubSeq(SplitLines(text), a + 1, b + 1)) = SubSeq(text, c[a] + 1, c[b + 1] - 1)
<1> DEFINE last == Row(text, Len(text))
           all == SplitLines(text)
           lines == SubSeq(all, a + 1, b + 1)
<1>0. Len(text) \in Nat /\ last \in Nat
  BY RowCol DEF Text
<1>1. /\ c \in [0 .. last + 1 -> 0 .. Len(text) + 1] /\ c[last + 1] = Len(text) + 1
      /\ \A r \in 0 .. last : c[r] \in 0 .. Len(text)
      /\ \A r \in 1 .. last : text[c[r]] = LF
      /\ all \in Seq(Text) /\ Len(all) = last + 1
      /\ \A r \in 0 .. last : all[r + 1] = SubSeq(text, c[r] + 1, c[r + 1] - 1)
  BY DEF IsCutAt
<1>2. \A r \in 0 .. last : \A s \in r + 1 .. last + 1 : c[r] < c[s]
  BY CutsRise
<1> HIDE DEF last, all
<1>3. lines \in Seq(Text) /\ Len(lines) = (b - a) + 1 /\ \A k \in 1 .. (b - a) + 1 : lines[k] = all[a + k]
  BY <1>0, <1>1 DEF last
<1>4. \A d \in 0 .. b - a : lines[d + 1] = SubSeq(text, c[a + d] + 1, c[a + (d + 1)] - 1)
  <2> SUFFICES ASSUME NEW d \in 0 .. b - a
               PROVE lines[d + 1] = SubSeq(text, c[a + d] + 1, c[a + (d + 1)] - 1)
    OBVIOUS
  <2>1. d + 1 \in 1 .. (b - a) + 1 /\ a + (d + 1) = (a + d) + 1 /\ a + d \in 0 .. last
    BY <1>0 DEF last
  <2>2. lines[d + 1] = all[(a + d) + 1]
    BY <1>3, <2>1
  <2> HIDE DEF lines
  <2> QED BY <1>1, <2>1, <2>2
<1> HIDE DEF lines
<1>5. PICK g : /\ g[1] = lines[1]
               /\ \A k \in 2 .. Len(lines) : g[k] = g[k - 1] \o <<LF>> \o lines[k]
               /\ Joined(lines) = g[Len(lines)]
  <2>1. Len(lines) > 0
    BY <1>0, <1>3 DEF last
  <2> QED BY <1>3, <2>1, JoinedIs
<1> DEFINE S == {d \in 0 .. b - a : g[d + 1] = SubSeq(text, c[a] + 1, c[a + (d + 1)] - 1)}
<1>6. 0 \in S
  <2>1. 0 \in 0 .. b - a /\ a + 0 = a /\ 0 + 1 = 1
    BY <1>0
  <2> QED BY <1>4, <1>5, <2>1
<1>7. \A d \in 0 .. (b - a) - 1 : d \in S => d + 1 \in S
  <2> SUFFICES ASSUME NEW d \in 0 .. (b - a) - 1,
                      g[d + 1] = SubSeq(text, c[a] + 1, c[a + (d + 1)] - 1)
               PROVE  g[(d + 1) + 1] = SubSeq(text, c[a] + 1, c[a + ((d + 1) + 1)] - 1)
    BY <1>0
  <2> DEFINE x == c[a]
             y == c[a + (d + 1)]
             z == c[a + ((d + 1) + 1)] - 1
  <2>1. d + 1 \in 0 .. b - a /\ (d + 1) + 1 \in 2 .. Len(lines) /\ ((d + 1) + 1) - 1 = d + 1
    BY <1>0, <1>3
  <2>2. lines[(d + 1) + 1] = SubSeq(text, y + 1, z)
    BY <1>4, <2>1
  <2>3. g[(d + 1) + 1] = g[d + 1] \o <<LF>> \o lines[(d + 1) + 1]
    BY <1>5, <2>1
  <2>4. /\ a \in 0 .. last /\ a + (d + 1) \in 0 .. last /\ a + (d + 1) \in 1 .. last
        /\ a + (d + 1) \in a + 1 .. last + 1
        /\ a + ((d + 1) + 1) \in (a + (d + 1)) + 1 .. last + 1 /\ a + ((d + 1) + 1) \in 0 .. last + 1
    BY <1>0 DEF last
  <2>5. x < y /\ y < c[a + ((d + 1) + 1)] /\ c[a + ((d + 1) + 1)] \in 0 .. Len(text) + 1
    BY <1>1, <1>2, <2>4
  <2>6. x \in 0 .. Len(text) /\ y \in 0 .. Len(text) /\ text[y] = LF
    BY <1>1, <2>4
  <2> HIDE DEF x, y
  <2>7. y \in x + 1 .. Len(text) /\ z \in y .. Len(text)
    BY <1>0, <2>5, <2>6
  <2> HIDE DEF z
  <2>8. SubSeq(text, x + 1, y - 1) \o <<LF>> \o SubSeq(text, y + 1, z) = SubSeq(text, x + 1, z)
    BY <2>6, <2>7, Seam
  <2>9. g[d + 1] = SubSeq(text, x + 1, y - 1)
    BY DEF x, y
  <2>10. g[(d + 1) + 1] = SubSeq(text, x + 1, z)
    BY <2>2, <2>3, <2>8, <2>9
  <2> QED BY <2>10 DEF x, z
<1>8. \A d \in 0 .. b - a : d \in S
  <2>1. b - a \in Nat
    BY <1>0
  <2> HIDE DEF S
  <2> QED BY <1>6, <1>7, <2>1, Induct
<1>9. g[(b - a) + 1] = SubSeq(text, c[a] + 1, c[a + ((b - a) + 1)] - 1) /\ a + ((b - a) + 1) = b + 1
  <2>1. b - a \in 0 .. b - a /\ a + ((b - a) + 1) = b + 1
    BY <1>0
  <2> QED BY <1>8, <2>1
<1> QED BY <1>3, <1>5, <1>9 DEF lines, all

\* A symbol's body between two indexes, and from an index to the end, whether that is
\* named by its own position or by the line past the last.
LEMMA BodyBetween ==
  ASSUME NEW text \in Text, IsUnix(text), NEW i \in 0 .. Len(text), NEW j \in i .. Len(text)
  PROVE  BodyOf(text, <<Row(text, i), Col(text, i)>>, <<Row(text, j), Col(text, j)>>)
           = SubSeq(text, i + 1, j)
<1> DEFINE last == Row(text, Len(text))
           ri == Row(text, i)
           ci == Col(text, i)
           rj == Row(text, j)
           cj == Col(text, j)
           lines == SplitLines(text)
           whole == From(Joined(SubSeq(lines, ri + 1, rj + 1)), ci)
           cut == Len(lines[rj + 1]) - cj
<1>0. Len(text) \in Nat /\ last \in Nat /\ j \in 0 .. Len(text)
  BY RowCol DEF Text
<1>1. PICK c : IsCutAt(text, c)
  BY SplitIs
<1>2. ri \in 0 .. last /\ c[ri] = i - ci /\ rj \in 0 .. last /\ c[rj] = j - cj /\ j < c[rj + 1]
  BY <1>0, <1>1, CutsRise
<1>3. ri <= rj /\ ci \in Nat /\ cj \in Nat
  BY <1>0, Later, RowCol
<1>4. /\ c \in [0 .. last + 1 -> 0 .. Len(text) + 1] /\ Len(lines) = last + 1
      /\ lines[rj + 1] = SubSeq(text, c[rj] + 1, c[rj + 1] - 1) /\ c[rj] \in 0 .. Len(text)
      /\ c[ri] \in 0 .. Len(text)
  BY <1>1, <1>2 DEF IsCutAt
<1>5. Joined(SubSeq(lines, ri + 1, rj + 1)) = SubSeq(text, c[ri] + 1, c[rj + 1] - 1)
  <2>1. rj \in ri .. last
    BY <1>0, <1>2, <1>3
  <2> QED BY <1>1, <1>2, <2>1, JoinedLines
<1> HIDE DEF lines, last, ri, ci, rj, cj
<1> DEFINE z == c[rj + 1] - 1
<1>6. z \in j .. Len(text)
  <2>1. c[rj + 1] \in 0 .. Len(text) + 1
    <3>1. rj + 1 \in 0 .. last + 1
      BY <1>0, <1>2
    <3> QED BY <1>4, <3>1
  <2> QED BY <1>0, <1>2, <2>1
<1>7. Len(lines[rj + 1]) = z - c[rj]
  <2> DEFINE x == c[rj]
  <2>1. x <= j /\ x \in 0 .. Len(text)
    BY <1>0, <1>2, <1>3, <1>4
  <2>2. lines[rj + 1] = SubSeq(text, x + 1, z)
    BY <1>4
  <2> HIDE DEF z, x
  <2>3. Len(SubSeq(text, x + 1, z)) = z - x
    BY <1>0, <1>6, <2>1 DEF Text
  <2> QED BY <2>2, <2>3 DEF x
<1>8. whole = SubSeq(text, i + 1, z) /\ Len(whole) = z - i
  <2> DEFINE x == c[ri]
  <2>0. x \in 0 .. Len(text) /\ x = i - ci /\ ci \in Nat
    BY <1>2, <1>3, <1>4
  <2>1. Joined(SubSeq(lines, ri + 1, rj + 1)) = SubSeq(text, x + 1, z)
    BY <1>5
  <2> HIDE DEF z, x
  <2>2. ci = i - x /\ i \in x .. Len(text) /\ j \in i .. Len(text)
    BY <1>0, <2>0
  <2>3. From(SubSeq(text, x + 1, z), i - x) = SubSeq(text, i + 1, z) /\ Len(SubSeq(text, i + 1, z)) = z - i
    BY <1>6, <2>0, <2>2, PartOfPart
  <2> QED BY <2>1, <2>2, <2>3
<1>9. cut = z - j
  <2> DEFINE x == c[rj]
  <2>1. x \in Int /\ cj \in Int /\ x = j - cj /\ j \in Int
    BY <1>0, <1>2, <1>3, <1>4
  <2>2. z \in Int /\ cut = (z - x) - cj
    BY <1>6, <1>7
  <2> HIDE DEF z, x, cut
  <2> QED BY <2>1, <2>2
<1>10. IF cut > 0 THEN Upto(whole, Len(whole) - cut) = SubSeq(text, i + 1, j)
       ELSE whole = SubSeq(text, i + 1, j)
  <2>0. i \in i .. Len(text) /\ i \in 0 .. Len(text)
    BY <1>0
  <2>1. (z - i) - (z - j) = j - i /\ (z - j > 0 \/ z = j)
    BY <1>0, <1>6
  <2> HIDE DEF z, whole, cut
  <2>2. Upto(SubSeq(text, i + 1, z), j - i) = SubSeq(text, i + 1, j)
    BY <1>6, <2>0, PartOfPart
  <2> QED BY <1>8, <1>9, <2>1, <2>2
<1>11. rj # Len(lines) /\ ~(rj >= Len(lines))
  BY <1>0, <1>2, <1>4
<1> HIDE DEF z
<1>12. BodyOf(text, <<ri, ci>>, <<rj, cj>>) = IF cut > 0 THEN Upto(whole, Len(whole) - cut) ELSE whole
  BY <1>11 DEF BodyOf, lines
<1> HIDE DEF whole, cut
<1>13. BodyOf(text, <<ri, ci>>, <<rj, cj>>) = SubSeq(text, i + 1, j)
  <2>1. CASE cut > 0
    BY <1>10, <1>12, <2>1
  <2>2. CASE ~(cut > 0)
    BY <1>10, <1>12, <2>2
  <2> QED BY <2>1, <2>2
<1> QED BY <1>13 DEF ri, ci, rj, cj

\* A body whose range ends one row past the last is the rest of the text.
LEMMA BodyToEnd ==
  ASSUME NEW text \in Text, IsUnix(text), NEW i \in 0 .. Len(text)
  PROVE  BodyOf(text, <<Row(text, i), Col(text, i)>>, <<Row(text, Len(text)) + 1, 0>>) = From(text, i)
<1> DEFINE last == Row(text, Len(text))
           ri == Row(text, i)
           ci == Col(text, i)
           lines == SplitLines(text)
           whole == From(Joined(SubSeq(lines, ri + 1, last + 1)), ci)
<1>0. Len(text) \in Nat /\ last \in Nat
  BY RowCol DEF Text
<1>1. PICK c : IsCutAt(text, c)
  BY SplitIs
<1>2. ri \in 0 .. last /\ c[ri] = i - ci
  BY <1>0, <1>1, CutsRise
<1>3. ci \in Nat
  BY RowCol
<1>4. c[ri] \in 0 .. Len(text) /\ c[last + 1] = Len(text) + 1 /\ Len(lines) = last + 1
  BY <1>1, <1>2 DEF IsCutAt
<1>5. Joined(SubSeq(lines, ri + 1, last + 1)) = SubSeq(text, c[ri] + 1, Len(text))
  <2>1. last \in ri .. last /\ (Len(text) + 1) - 1 = Len(text)
    BY <1>0, <1>2
  <2>2. Joined(SubSeq(SplitLines(text), ri + 1, last + 1)) = SubSeq(text, c[ri] + 1, c[last + 1] - 1)
    BY <1>1, <1>2, <2>1, JoinedLines
  <2> HIDE DEF last, ri
  <2> QED BY <1>4, <2>1, <2>2
<1>6. whole = From(text, i)
  <2>1. ci = i - c[ri] /\ i \in c[ri] .. Len(text) /\ Len(text) \in i .. Len(text) /\ Len(text) \in Len(text) .. Len(text)
    BY <1>0, <1>2, <1>3, <1>4
  <2> HIDE DEF lines, ri, ci
  <2>2. From(SubSeq(text, c[ri] + 1, Len(text)), i - c[ri]) = SubSeq(text, i + 1, Len(text))
    BY <1>4, <2>1, PartOfPart
  <2> QED BY <1>5, <2>1, <2>2 DEF From
<1> HIDE DEF ri, ci, lines
<1>7. BodyOf(text, <<ri, ci>>, <<last + 1, 0>>) = From(Joined(SubSeq(lines, ri + 1, Len(lines))), ci)
  BY <1>4 DEF BodyOf, lines
<1>8. BodyOf(text, <<ri, ci>>, <<last + 1, 0>>) = From(text, i)
  BY <1>4, <1>6, <1>7
<1> QED BY <1>8 DEF ri, ci

\* Deletions and bodies by position are those by index.
LEMMA DeletionsFound ==
  ASSUME NEW q, NEW a, q.text \in Text, q.first \in 0 .. Len(q.text), q.last \in q.first .. Len(q.text),
         a.deleted = Deleted(q.text, Position(q.text, q.first), Position(q.text, q.last)),
         a.body = BodyOf(q.text, Position(q.text, q.first), Position(q.text, q.last)),
         a.tail = BodyOf(q.text, Position(q.text, q.first), End(q.text))
  PROVE  DeletionsAgree(q, a)
<1> DEFINE text == q.text
           i == q.first
           j == q.last
<1>0. /\ text \in Text /\ i \in 0 .. Len(text) /\ j \in i .. Len(text)
      /\ a.deleted = Deleted(text, Position(text, i), Position(text, j))
      /\ a.body = BodyOf(text, Position(text, i), Position(text, j))
      /\ a.tail = BodyOf(text, Position(text, i), End(text))
  OBVIOUS
<1> HIDE DEF text, i, j
<1>1. Len(text) \in Nat /\ j \in 0 .. Len(text)
  BY <1>0 DEF Text
<1>2. Position(text, i) = <<Row(text, i), Col(text, i)>> /\ Position(text, j) = <<Row(text, j), Col(text, j)>>
  BY <1>0, <1>1, RowCol
<1>3. a.deleted = [text |-> Upto(text, i) \o From(text, j), deleted |-> SubSeq(text, i + 1, j)]
  BY <1>0, <1>1, <1>2, DeletedBetween
<1>4. ASSUME IsUnix(text) PROVE a.body = SubSeq(text, i + 1, j) /\ a.tail = From(text, i)
  <2>1. a.body = SubSeq(text, i + 1, j)
    BY <1>0, <1>2, <1>4, BodyBetween
  <2>2. a.tail = From(text, i)
    BY <1>0, <1>2, <1>4, BodyToEnd, EndIs
  <2> QED BY <2>1, <2>2
<1> QED BY <1>3, <1>4, Zenon DEF DeletionsAgree, text, i, j

-----------------------------------------------------------------------------
(* read_file and read_lines.                                                 *)

\* A slice of lines that are numbered from 1.
LEMMA SliceIs ==
  ASSUME NEW size \in Nat, NEW first \in Nat, NEW last \in Nat
  PROVE  LET s == Slice([i \in 1 .. size |-> i], first, last)
             m == AtMost(last, size)
         IN  /\ DOMAIN s = 1 .. Len(s) /\ Len(s) = IF first <= m THEN m - first ELSE 0
             /\ \A k \in DOMAIN s : s[k] = first + k
<1> DEFINE lines == [i \in 1 .. size |-> i]
           m == AtMost(last, size)
           s == Slice(lines, first, last)
<1>1. m \in Nat /\ m <= size
  BY DEF AtMost
<1>2. lines \in Seq(Nat) /\ Len(lines) = size /\ \A i \in 1 .. size : lines[i] = i
  OBVIOUS
<1> HIDE DEF lines
<1>3. s = SubSeq(lines, first + 1, m)
  BY <1>2 DEF Slice, AtMost
<1> HIDE DEF m
<1> DEFINE t == SubSeq(lines, first + 1, m)
<1>4. t \in Seq(Nat) /\ Len(t) = IF first <= m THEN m - first ELSE 0
  BY <1>1, <1>2
<1>5. \A k \in 1 .. Len(t) : t[k] = first + k
  <2> SUFFICES ASSUME NEW k \in 1 .. Len(t) PROVE t[k] = first + k
    OBVIOUS
  <2>1. first <= m /\ k \in 1 .. m - first
    BY <1>1, <1>4
  <2>2. t[k] = lines[first + k]
    BY <1>1, <1>2, <2>1
  <2>3. first + k \in 1 .. size
    BY <1>1, <2>1
  <2> QED BY <1>2, <2>2, <2>3
<1>6. DOMAIN t = 1 .. Len(t)
  BY <1>4
<1> HIDE DEF t
<1> QED BY <1>3, <1>4, <1>5, <1>6 DEF t, m, lines

\* read_file shows as many lines as it was asked for, under their numbers.
LEMMA FileWindow ==
  ASSUME NEW size \in Nat, NEW head \in Nat \cup {-1}, NEW tail \in Nat \cup {-1}
  PROVE  LET w == ReadFile([i \in 1 .. size |-> i], head, tail)
         IN  /\ \A k \in DOMAIN w.lines : w.lines[k] = w.number + k - 1
             /\ head # -1 => Len(w.lines) = AtMost(head, size)
             /\ head = -1 /\ tail # -1 => Len(w.lines) = AtMost(tail, size)
                                          /\ w.number + Len(w.lines) = size + 1
<1> DEFINE lines == [i \in 1 .. size |-> i]
           w == ReadFile(lines, head, tail)
           first == IF tail > size THEN 0 ELSE size - tail
<1>0. Len(lines) = size /\ DOMAIN lines = 1 .. size /\ \A k \in 1 .. size : lines[k] = k
  OBVIOUS
<1>1. CASE head # -1
  <2>1. w = [lines |-> Slice(lines, 0, head), number |-> 1]
    <3> HIDE DEF lines
    <3> QED BY <1>1 DEF ReadFile
  <2>2. head \in Nat /\ 0 \in Nat
    BY <1>1
  <2> DEFINE s == Slice(lines, 0, head)
  <2>3. /\ Len(s) = IF 0 <= AtMost(head, size) THEN AtMost(head, size) - 0 ELSE 0
        /\ \A k \in DOMAIN s : s[k] = 0 + k
        /\ DOMAIN s = 1 .. Len(s)
    BY <2>2, SliceIs
  <2>4. AtMost(head, size) \in Nat
    BY <2>2 DEF AtMost
  <2> HIDE DEF s
  <2>5. Len(s) = AtMost(head, size)
    BY <2>3, <2>4
  <2>6. \A k \in DOMAIN s : s[k] = 1 + k - 1
    BY <2>3, <2>4, <2>5
  <2> HIDE DEF lines
  <2> QED BY <1>1, <2>1, <2>5, <2>6 DEF s, lines
<1>2. CASE head = -1 /\ tail # -1
  <2>1. w = [lines |-> Slice(lines, first, size), number |-> first + 1]
    <3> HIDE DEF lines
    <3> QED BY <1>0, <1>2 DEF ReadFile
  <2>2. tail \in Nat /\ first \in Nat /\ first <= size /\ size - first = AtMost(tail, size)
    BY <1>2 DEF AtMost
  <2> DEFINE s == Slice(lines, first, size)
  <2> HIDE DEF first
  <2>3. /\ Len(s) = IF first <= AtMost(size, size) THEN AtMost(size, size) - first ELSE 0
        /\ \A k \in DOMAIN s : s[k] = first + k
        /\ DOMAIN s = 1 .. Len(s)
    BY <2>2, SliceIs
  <2>4. AtMost(size, size) = size
    BY DEF AtMost
  <2> HIDE DEF s
  <2>5. Len(s) = AtMost(tail, size) /\ Len(s) = size - first
    BY <2>2, <2>3, <2>4
  <2>6. \A k \in DOMAIN s : s[k] = (first + 1) + k - 1
    BY <2>2, <2>3, <2>5
  <2>7. (first + 1) + Len(s) = size + 1
    BY <2>2, <2>5
  <2> HIDE DEF lines
  <2> QED BY <1>2, <2>1, <2>5, <2>6, <2>7 DEF s, lines
<1>3. CASE head = -1 /\ tail = -1
  <2>1. w = [lines |-> lines, number |-> 1]
    BY <1>3 DEF ReadFile
  <2>2. \A k \in DOMAIN lines : lines[k] = 1 + k - 1
    BY <1>0
  <2> HIDE DEF lines
  <2> QED BY <1>3, <2>1, <2>2 DEF lines
<1> QED BY <1>1, <1>2, <1>3

\* read_lines shows the lines from start to end, under their numbers.
LEMMA LinesWindow ==
  ASSUME NEW size \in Nat, NEW start \in Nat, NEW end \in Nat \cup {-1}
  PROVE  LET w == ReadLines([i \in 1 .. size |-> i], start, end)
         IN  /\ \A k \in DOMAIN w.lines : w.lines[k] = w.number + k - 1
             /\ start >= 1 => Range(w.lines) = {n \in 1 .. size : start <= n /\ (end = -1 \/ n <= end)}
<1> DEFINE lines == [i \in 1 .. size |-> i]
           w == ReadLines(lines, start, end)
           range == {n \in 1 .. size : start <= n /\ (end = -1 \/ n <= end)}
<1>0. Len(lines) = size
  OBVIOUS
<1> HIDE DEF lines
<1>1. CASE start < 1 \/ (end # -1 /\ end < start)
  <2>1. w = [lines |-> <<>>, number |-> 0]
    BY <1>1 DEF ReadLines, Refused
  <2>2. Range(<<>>) = {} /\ DOMAIN <<>> = {}
    BY DEF Range
  <2>3. start >= 1 => range = {}
    BY <1>1
  <2> HIDE DEF range
  <2> QED BY <2>1, <2>2, <2>3 DEF range, lines
<1>2. CASE start >= 1 /\ ~(end # -1 /\ end < start)
  <2> DEFINE to == IF end = -1 THEN size ELSE end
             s == Slice(lines, start - 1, to)
  <2>1. w = [lines |-> s, number |-> start]
    BY <1>0, <1>2 DEF ReadLines
  <2>2. to \in Nat /\ start - 1 \in Nat
    BY <1>2
  <2> HIDE DEF to
  <2>3. /\ DOMAIN s = 1 .. Len(s)
        /\ Len(s) = IF start - 1 <= AtMost(to, size) THEN AtMost(to, size) - (start - 1) ELSE 0
        /\ \A k \in DOMAIN s : s[k] = (start - 1) + k
    BY <2>2, SliceIs DEF lines
  <2> HIDE DEF s
  <2>4. \A k \in DOMAIN s : s[k] = start + k - 1
    <3>1. AtMost(to, size) \in Nat
      BY <2>2 DEF AtMost
    <3>2. DOMAIN s \subseteq Int
      BY <2>2, <2>3, <3>1
    <3> QED BY <2>2, <2>3, <3>2
  <2>5. Range(s) = range
    <3>1. AtMost(to, size) \in Nat /\ range = start .. AtMost(to, size)
      BY <1>2, <2>2 DEF AtMost, to
    <3> DEFINE m == AtMost(to, size)
    <3> HIDE DEF m, range
    <3>2. Range(s) = {s[k] : k \in DOMAIN s}
      BY DEF Range
    <3>3. DOMAIN s = 1 .. m - (start - 1)
      BY <2>2, <2>3, <3>1 DEF m
    <3>4. \A k \in 1 .. m - (start - 1) : s[k] \in start .. m
      BY <2>2, <2>3, <3>1, <3>3 DEF m
    <3>5. \A n \in start .. m : n - (start - 1) \in DOMAIN s /\ s[n - (start - 1)] = n
      <4>1. \A n \in start .. m : n - (start - 1) \in DOMAIN s /\ (start - 1) + (n - (start - 1)) = n
        BY <2>2, <3>1, <3>3 DEF m
      <4> QED BY <4>1, <2>3
    <3> QED BY <3>1, <3>2, <3>3, <3>4, <3>5 DEF m
  <2> HIDE DEF range
  <2> QED BY <2>1, <2>4, <2>5 DEF range, lines
<1> QED BY <1>1, <1>2

-----------------------------------------------------------------------------
(* The answers.                                                              *)

\* The inductive invariant: an answer is that to the question.
AnswerIs(questions, a) == question \in questions /\ (answer = <<>> \/ answer = <<a>>)
Truthful ==
  \/ question.kind = "edits" /\ AnswerIs(EditQuestions, AppliedAll(question.text, EditsOf(question)))
  \/ question.kind = "position" /\ AnswerIs(PositionQuestions, Positioned(question))
  \/ question.kind = "window" /\ AnswerIs(WindowQuestions, Window(question))

\* An answer of the tools is what they work out for the question that was asked.
THEOREM Answers == TextSpec => []Truthful
<1>1. TextInit => Truthful
  <2> SUFFICES ASSUME TextInit PROVE Truthful
    OBVIOUS
  <2>1. CASE question \in EditQuestions
    <3>1. question.kind = "edits"
      BY <2>1 DEF EditQuestions
    <3> QED BY <2>1, <3>1 DEF TextInit, Truthful, AnswerIs
  <2>2. CASE question \in PositionQuestions
    <3>1. question.kind = "position"
      BY <2>2 DEF PositionQuestions
    <3> QED BY <2>2, <3>1 DEF TextInit, Truthful, AnswerIs
  <2>3. CASE question \in WindowQuestions
    <3>1. question.kind = "window"
      BY <2>3 DEF WindowQuestions
    <3> QED BY <2>3, <3>1 DEF TextInit, Truthful, AnswerIs
  <2> QED BY <2>1, <2>2, <2>3 DEF TextInit
<1>2. Truthful /\ [TextNext]_vars => Truthful'
  <2> SUFFICES ASSUME Truthful, [TextNext]_vars PROVE Truthful'
    OBVIOUS
  <2>1. CASE AskEdits
    <3>1. question.kind = "edits" /\ question' = question
          /\ answer' = <<AppliedAll(question.text, EditsOf(question))>>
      BY <2>1 DEF AskEdits, Asked
    <3>2. question \in EditQuestions
      BY <3>1 DEF Truthful, AnswerIs
    <3> QED BY <3>1, <3>2 DEF Truthful, AnswerIs
  <2>2. CASE AskPosition
    <3>1. question.kind = "position" /\ question' = question /\ answer' = <<Positioned(question)>>
      BY <2>2 DEF AskPosition, Asked
    <3>2. question \in PositionQuestions
      BY <3>1 DEF Truthful, AnswerIs
    <3> QED BY <3>1, <3>2 DEF Truthful, AnswerIs
  <2>3. CASE AskWindow
    <3>1. question.kind = "window" /\ question' = question /\ answer' = <<Window(question)>>
      BY <2>3 DEF AskWindow, Asked
    <3>2. question \in WindowQuestions
      BY <3>1 DEF Truthful, AnswerIs
    <3> QED BY <3>1, <3>2 DEF Truthful, AnswerIs
  <2>4. CASE UNCHANGED vars
    BY <2>4 DEF Truthful, AnswerIs, vars
  <2> QED BY <2>1, <2>2, <2>3, <2>4 DEF TextNext
<1> QED BY <1>1, <1>2, PTL DEF TextSpec

\* The texts of the questions are texts.
LEMMA TextsAreTexts ==
  ASSUME NEW chars \in SUBSET Letters, NEW text \in Texts(chars)
  PROVE  text \in Text /\ \A i \in DOMAIN text : text[i] \in chars
<1>1. PICK n \in 0 .. MaxText : text \in [1 .. n -> chars]
  BY DEF Texts
<1>2. n \in Nat
  BY TextBoundsAssumption
<1> QED BY <1>1, <1>2 DEF Text

\* Everything that PositionsAgree says of the answer about a position.
LEMMA PositionsAnswered ==
  ASSUME NEW q \in PositionQuestions
  PROVE  LET a == Positioned(q)
             there == Position(q.text, q.first)
         IN  /\ a.at = IF InNewline(q.text, q.first) THEN <<there[1] + 1, 0>> ELSE there
             /\ a.back = q.first
             /\ InsertionsAgree(q, a) /\ DeletionsAgree(q, a) /\ LinesAgree(q, a)
<1> DEFINE a == Positioned(q)
<1>1. /\ q.text \in Texts({"x", LF, CR}) /\ q.first \in 0 .. MaxText /\ q.last \in 0 .. MaxText
      /\ q.new \in News /\ q.first <= q.last /\ q.last <= Len(q.text)
  BY DEF PositionQuestions
<1>2. q.text \in Text
  <2>1. {"x", LF, CR} \in SUBSET Letters
    BY DEF Letters
  <2> QED BY <1>1, <2>1, TextsAreTexts
<1>3. q.first \in 0 .. Len(q.text) /\ q.last \in q.first .. Len(q.text)
  BY <1>1, <1>2, TextBoundsAssumption DEF Text
<1>4. /\ a.at = PositionOf(q.text, q.first)
      /\ a.back = IndexOf(q.text, Position(q.text, q.first)[1], Position(q.text, q.first)[2])
      /\ a.lines = Lines(q.text)
      /\ a.inserted = Inserted(q.text, Position(q.text, q.first)[1], Position(q.text, q.first)[2], q.new)
      /\ a.added = Inserted(q.text, End(q.text)[1], End(q.text)[2], q.new)
      /\ a.deleted = Deleted(q.text, Position(q.text, q.first), Position(q.text, q.last))
      /\ a.body = BodyOf(q.text, Position(q.text, q.first), Position(q.text, q.last))
      /\ a.tail = BodyOf(q.text, Position(q.text, q.first), End(q.text))
  BY DEF Positioned
<1> HIDE DEF a
<1>5. Position(q.text, q.first) = <<Row(q.text, q.first), Col(q.text, q.first)>>
  BY <1>2, <1>3, RowCol
<1>6. a.at = IF InNewline(q.text, q.first) THEN <<Position(q.text, q.first)[1] + 1, 0>>
             ELSE Position(q.text, q.first)
  BY <1>2, <1>3, <1>4, <1>5, PositionOfIs
<1>7. a.back = q.first
  BY <1>2, <1>3, <1>4, <1>5, IndexOfPosition
<1>8. InsertionsAgree(q, a)
  BY <1>1, <1>2, <1>3, <1>4, InsertionsFound
<1>9. DeletionsAgree(q, a)
  BY <1>2, <1>3, <1>4, DeletionsFound
<1>10. LinesAgree(q, a)
  BY <1>2, <1>4, LinesFound
<1> QED BY <1>6, <1>7, <1>8, <1>9, <1>10 DEF a

\* Everything that PositionsAgree says of the answer about a window.
LEMMA WindowsAnswered ==
  ASSUME NEW q \in WindowQuestions
  PROVE  LET numbered(w) == \A k \in DOMAIN w.lines : w.lines[k] = w.number + k - 1
             file == Window(q).file
             range == {n \in 1 .. q.size : q.start <= n /\ (q.end = -1 \/ n <= q.end)}
         IN  /\ numbered(file) /\ numbered(Window(q).range)
             /\ q.head # -1 => Len(file.lines) = AtMost(q.head, q.size)
             /\ q.head = -1 /\ q.tail # -1 => Len(file.lines) = AtMost(q.tail, q.size)
                                               /\ file.number + Len(file.lines) = q.size + 1
             /\ q.start >= 1 => Range(Window(q).range.lines) = range
<1>1. /\ q.size \in Nat /\ q.head \in Nat \cup {-1} /\ q.tail \in Nat \cup {-1}
      /\ q.start \in Nat /\ q.end \in Nat \cup {-1}
  BY TextBoundsAssumption DEF WindowQuestions
<1>2. /\ Window(q).file = ReadFile([i \in 1 .. q.size |-> i], q.head, q.tail)
      /\ Window(q).range = ReadLines([i \in 1 .. q.size |-> i], q.start, q.end)
  BY DEF Window
<1>3. LET w == Window(q).file
      IN  /\ \A k \in DOMAIN w.lines : w.lines[k] = w.number + k - 1
          /\ q.head # -1 => Len(w.lines) = AtMost(q.head, q.size)
          /\ q.head = -1 /\ q.tail # -1 => Len(w.lines) = AtMost(q.tail, q.size)
                                            /\ w.number + Len(w.lines) = q.size + 1
  <2>1. LET w == ReadFile([i \in 1 .. q.size |-> i], q.head, q.tail)
        IN  /\ \A k \in DOMAIN w.lines : w.lines[k] = w.number + k - 1
            /\ q.head # -1 => Len(w.lines) = AtMost(q.head, q.size)
            /\ q.head = -1 /\ q.tail # -1 => Len(w.lines) = AtMost(q.tail, q.size)
                                              /\ w.number + Len(w.lines) = q.size + 1
    BY <1>1, FileWindow
  <2> QED BY <1>2, <2>1, Zenon
<1>4. LET w == Window(q).range
      IN  /\ \A k \in DOMAIN w.lines : w.lines[k] = w.number + k - 1
          /\ q.start >= 1 => Range(w.lines) = {n \in 1 .. q.size : q.start <= n /\ (q.end = -1 \/ n <= q.end)}
  <2>1. LET w == ReadLines([i \in 1 .. q.size |-> i], q.start, q.end)
        IN  /\ \A k \in DOMAIN w.lines : w.lines[k] = w.number + k - 1
            /\ q.start >= 1 => Range(w.lines) = {n \in 1 .. q.size : q.start <= n /\ (q.end = -1 \/ n <= q.end)}
    <3> DEFINE size == q.size
               start == q.start
               end == q.end
    <3>1. size \in Nat /\ start \in Nat /\ end \in Nat \cup {-1}
      BY <1>1
    <3> HIDE DEF size, start, end
    <3>2. LET w == ReadLines([i \in 1 .. size |-> i], start, end)
          IN  /\ \A k \in DOMAIN w.lines : w.lines[k] = w.number + k - 1
              /\ start >= 1 => Range(w.lines) = {n \in 1 .. size : start <= n /\ (end = -1 \/ n <= end)}
      BY <3>1, LinesWindow
    <3> QED BY <3>2 DEF size, start, end
  <2> QED BY <1>2, <2>1, Zenon
<1> QED BY <1>3, <1>4, Zenon

\* TextStepper, TextUtils, SymbolBody, read_file and read_lines, for texts of any length:
\* positions and indexes lead to each other, and what is inserted, deleted, read as a
\* symbol's body or gathered as a line by position is what the indexes say.
THEOREM PositionsLeadBack == TextSpec => []PositionsAgree
<1>1. Truthful => PositionsAgree
  <2> SUFFICES ASSUME Truthful PROVE PositionsAgree
    OBVIOUS
  <2>1. ASSUME Answered("position")
        PROVE  question \in PositionQuestions /\ answer[1] = Positioned(question)
    <3>1. question.kind = "position" /\ answer # <<>>
      BY <2>1 DEF Answered
    <3>2. AnswerIs(PositionQuestions, Positioned(question))
      BY <3>1 DEF Truthful
    <3> QED BY <3>1, <3>2 DEF AnswerIs
  <2>2. ASSUME Answered("window")
        PROVE  question \in WindowQuestions /\ answer[1] = Window(question)
    <3>1. question.kind = "window" /\ answer # <<>>
      BY <2>2 DEF Answered
    <3>2. AnswerIs(WindowQuestions, Window(question))
      BY <3>1 DEF Truthful
    <3> QED BY <3>1, <3>2 DEF AnswerIs
  <2> DEFINE a == answer[1]
  <2> HIDE DEF a
  <2>3. ASSUME Answered("position")
        PROVE  LET q == question
                   there == Position(q.text, q.first)
               IN  /\ a.at = IF InNewline(q.text, q.first) THEN <<there[1] + 1, 0>> ELSE there
                   /\ a.back = q.first
                   /\ InsertionsAgree(q, a) /\ DeletionsAgree(q, a) /\ LinesAgree(q, a)
    <3>1. question \in PositionQuestions /\ a = Positioned(question)
      BY <2>1, <2>3 DEF a
    <3> QED BY <3>1, PositionsAnswered, Zenon
  <2>4. ASSUME Answered("window")
        PROVE  LET numbered(w) == \A k \in DOMAIN w.lines : w.lines[k] = w.number + k - 1
                   q == question
                   file == a.file
                   range == {n \in 1 .. q.size : q.start <= n /\ (q.end = -1 \/ n <= q.end)}
               IN  /\ numbered(file) /\ numbered(a.range)
                   /\ q.head # -1 => Len(file.lines) = AtMost(q.head, q.size)
                   /\ q.head = -1 /\ q.tail # -1 => Len(file.lines) = AtMost(q.tail, q.size)
                                                     /\ file.number + Len(file.lines) = q.size + 1
                   /\ q.start >= 1 => Range(a.range.lines) = range
    <3>1. question \in WindowQuestions /\ a = Window(question)
      BY <2>2, <2>4 DEF a
    <3> QED BY <3>1, WindowsAnswered, Zenon
  <2> QED BY <2>3, <2>4, Zenon DEF PositionsAgree, a
<1> QED BY <1>1, Answers, PTL

-----------------------------------------------------------------------------
(* apply_text_edits_to_file: the order in which edits are applied.           *)

UnixText == Seq({"a", "x", LF})

\* Texts of letters and line feeds.
LEMMA UnixTexts ==
  ASSUME NEW text \in UnixText
  PROVE  text \in Text /\ IsUnix(text)
<1>1. {"a", "x", LF} \subseteq Letters /\ CR \notin {"a", "x", LF}
  BY DEF Letters, LF, CR
<1> QED BY <1>1 DEF UnixText, Text, IsUnix

EditAt(q, i) ==
  [from |-> Position(q.text, q.from[i]),
   to |-> IF q.past /\ i = Len(q.new) THEN End(q.text) ELSE Position(q.text, q.to[i]),
   new |-> q.new[i]]

\* The ranges of a question about edits are in its text, one after the other.
LEMMA EditQuestionIs ==
  ASSUME NEW q \in EditQuestions
  PROVE  LET n == Len(q.new)
         IN  /\ n \in Nat /\ q.text \in UnixText /\ q.past \in BOOLEAN
             /\ q.from \in [1 .. n -> Nat] /\ q.to \in [1 .. n -> Nat] /\ q.new \in [1 .. n -> News]
             /\ q.order \in [1 .. n -> 1 .. n] /\ IsInjective(q.order)
             /\ \A i \in 1 .. n : q.from[i] <= q.to[i] /\ q.to[i] <= Len(q.text)
             /\ \A i \in 1 .. n - 1 : q.to[i] <= q.from[i + 1] /\ q.from[i] < q.from[i + 1]
             /\ q.past => n > 0 /\ q.to[n] = Len(q.text)
<1>1. PICK n \in 0 .. MaxEdits :
        /\ q \in [kind : {"edits"}, text : Texts({"x", LF}), from : [1 .. n -> 0 .. MaxText],
                  to : [1 .. n -> 0 .. MaxText], new : [1 .. n -> News],
                  order : {p \in [1 .. n -> 1 .. n] : IsInjective(p)}, past : BOOLEAN]
        /\ \A i \in 1 .. n : q.from[i] <= q.to[i] /\ q.to[i] <= Len(q.text)
        /\ \A i \in 1 .. n - 1 : q.to[i] <= q.from[i + 1] /\ q.from[i] < q.from[i + 1]
        /\ q.past => n > 0 /\ q.to[n] = Len(q.text)
  BY DEF EditQuestions
<1>2. n \in Nat /\ 0 .. MaxText \subseteq Nat
  BY TextBoundsAssumption
<1>3. /\ q.from \in [1 .. n -> Nat] /\ q.to \in [1 .. n -> Nat] /\ q.new \in [1 .. n -> News]
      /\ q.order \in [1 .. n -> 1 .. n] /\ IsInjective(q.order) /\ q.past \in BOOLEAN
      /\ q.text \in Texts({"x", LF})
  BY <1>1, <1>2
<1>4. Len(q.new) = n
  BY <1>2, <1>3
<1>5. q.text \in UnixText
  <2>1. {"x", LF} \in SUBSET Letters
    BY DEF Letters
  <2>2. q.text \in Text /\ \A i \in DOMAIN q.text : q.text[i] \in {"x", LF}
    BY <1>3, <2>1, TextsAreTexts
  <2> QED BY <2>2 DEF Text, UnixText
<1> QED BY <1>1, <1>2, <1>3, <1>4, <1>5

\* Edits later in the text start later.
LEMMA StartsRise ==
  ASSUME NEW q \in EditQuestions, NEW i \in 1 .. Len(q.new), NEW j \in i + 1 .. Len(q.new)
  PROVE  q.from[i] < q.from[j]
<1> DEFINE n == Len(q.new)
           S == {d \in 0 .. j - (i + 1) : q.from[i] < q.from[(i + 1) + d]}
<1>0. /\ n \in Nat /\ q.from \in [1 .. n -> Nat]
      /\ \A k \in 1 .. n - 1 : q.from[k] < q.from[k + 1]
  BY EditQuestionIs
<1> HIDE DEF n
<1>1. i \in 1 .. n /\ j \in i + 1 .. n
  BY DEF n
<1>2. 0 \in S
  <2>1. i \in 1 .. n - 1 /\ (i + 1) + 0 = i + 1 /\ 0 \in 0 .. j - (i + 1)
    BY <1>0, <1>1
  <2> QED BY <1>0, <2>1
<1>3. \A d \in 0 .. (j - (i + 1)) - 1 : d \in S => d + 1 \in S
  <2> SUFFICES ASSUME NEW d \in 0 .. (j - (i + 1)) - 1, q.from[i] < q.from[(i + 1) + d]
               PROVE  q.from[i] < q.from[(i + 1) + (d + 1)] /\ d + 1 \in 0 .. j - (i + 1)
    BY <1>1
  <2>1. /\ (i + 1) + d \in 1 .. n - 1 /\ (i + 1) + (d + 1) = ((i + 1) + d) + 1
        /\ d + 1 \in 0 .. j - (i + 1) /\ (i + 1) + (d + 1) \in 1 .. n /\ (i + 1) + d \in 1 .. n
    BY <1>0, <1>1
  <2>2. q.from[(i + 1) + d] < q.from[(i + 1) + (d + 1)]
    BY <1>0, <2>1
  <2>3. q.from[i] \in Nat /\ q.from[(i + 1) + d] \in Nat /\ q.from[(i + 1) + (d + 1)] \in Nat
    BY <1>0, <1>1, <2>1
  <2> QED BY <2>1, <2>2, <2>3
<1>4. j - (i + 1) \in Nat
  BY <1>0, <1>1
<1>5. j - (i + 1) \in S
  <2> HIDE DEF S
  <2>1. \A d \in 0 .. j - (i + 1) : d \in S
    BY <1>2, <1>3, <1>4, Induct
  <2> QED BY <1>4, <2>1
<1>6. (i + 1) + (j - (i + 1)) = j
  BY <1>0, <1>1
<1> QED BY <1>5, <1>6

\* Where the ranges start and end.
LEMMA StartsInside ==
  ASSUME NEW q \in EditQuestions
  PROVE  /\ Len(q.text) \in Nat
         /\ \A i \in 1 .. Len(q.new) : q.to[i] \in 0 .. Len(q.text) /\ q.from[i] \in 0 .. q.to[i]
                                       /\ q.from[i] \in 0 .. Len(q.text)
<1>1. q.text \in Text
  BY EditQuestionIs, UnixTexts
<1>2. Len(q.text) \in Nat
  BY <1>1 DEF Text
<1> DEFINE n == Len(q.new)
           N == Len(q.text)
<1>3. /\ q.from \in [1 .. n -> Nat] /\ q.to \in [1 .. n -> Nat]
      /\ \A i \in 1 .. n : q.from[i] <= q.to[i] /\ q.to[i] <= N
  BY EditQuestionIs
<1> HIDE DEF n, N
<1>4. ASSUME NEW i \in 1 .. n PROVE q.to[i] \in 0 .. N /\ q.from[i] \in 0 .. q.to[i] /\ q.from[i] \in 0 .. N
  <2>1. q.from[i] \in Nat /\ q.to[i] \in Nat /\ q.from[i] <= q.to[i] /\ q.to[i] <= N
    BY <1>3
  <2> QED BY <2>1, <1>2 DEF N
<1> QED BY <1>2, <1>4 DEF n, N

\* Starts compare as the edits' places in the text.
LEMMA StartsCompare ==
  ASSUME NEW q \in EditQuestions, NEW i \in 1 .. Len(q.new), NEW j \in 1 .. Len(q.new)
  PROVE  Before(EditAt(q, i).from, EditAt(q, j).from) <=> i < j
<1> DEFINE n == Len(q.new)
           R(k) == Row(q.text, q.from[k])
           C(k) == Col(q.text, q.from[k])
<1>0. n \in Nat /\ q.text \in Text /\ i \in 1 .. n /\ j \in 1 .. n
  BY EditQuestionIs, UnixTexts
<1>1. ASSUME NEW k \in 1 .. n
      PROVE EditAt(q, k).from = <<R(k), C(k)>> /\ R(k) \in Nat /\ C(k) \in Nat
  <2>1. q.from[k] \in 0 .. Len(q.text)
    BY StartsInside
  <2> QED BY <1>0, <2>1, RowCol DEF EditAt
<1>2. ASSUME NEW k \in 1 .. n, NEW m \in 1 .. n, k < m
      PROVE  R(k) < R(m) \/ (R(k) = R(m) /\ C(k) < C(m))
  <2>1. q.from[k] < q.from[m]
    <3>1. m \in k + 1 .. n
      BY <1>2, <1>0
    <3> QED BY <3>1, StartsRise
  <2>2. q.from[k] \in 0 .. Len(q.text) /\ q.from[m] \in q.from[k] .. Len(q.text)
    BY <2>1, StartsInside
  <2> QED BY <1>0, <2>1, <2>2, Later
<1>3. Before(EditAt(q, i).from, EditAt(q, j).from) <=> R(i) < R(j) \/ (R(i) = R(j) /\ C(i) < C(j))
  <2> HIDE DEF R, C
  <2> QED BY <1>0, <1>1 DEF Before
<1>4. R(i) \in Nat /\ C(i) \in Nat /\ R(j) \in Nat /\ C(j) \in Nat
  BY <1>0, <1>1
<1> HIDE DEF R, C, n
<1>5. CASE i < j
  BY <1>0, <1>2, <1>3, <1>5
<1>6. CASE j < i
  BY <1>0, <1>2, <1>3, <1>4, <1>6
<1>7. CASE i = j
  BY <1>3, <1>4, <1>7
<1> QED BY <1>0, <1>5, <1>6, <1>7

\* Where an edit comes when they are sorted: after those that start later.
LEMMA PlaceIs ==
  ASSUME NEW n \in Nat, NEW order \in [1 .. n -> 1 .. n], IsInjective(order), NEW i \in 1 .. n
  PROVE  Cardinality({j \in 1 .. n : order[j] >= order[i]}) = (n + 1) - order[i]
<1> DEFINE S == {j \in 1 .. n : order[j] >= order[i]}
           T == order[i] .. n
           f == [j \in S |-> order[j]]
<1>0. order[i] \in 1 .. n
  OBVIOUS
<1>1. \A a \in 1 .. n : \A b \in 1 .. n : order[a] = order[b] => a = b
  BY DEF IsInjective
<1>2. IsFiniteSet(1 .. n)
  BY FS_Interval
<1>3. \A v \in 1 .. n : \E j \in 1 .. n : order[j] = v
  <2>1. order \in Injection(1 .. n, 1 .. n)
    BY DEF Injection
  <2>2. order \in Surjection(1 .. n, 1 .. n)
    BY <1>2, <2>1, FS_Injection
  <2> QED BY <2>2 DEF Surjection
<1>4. f \in [S -> T]
  BY <1>0
<1>5. f \in Injection(S, T)
  <2>1. \A a \in S : \A b \in S : f[a] = f[b] => a = b
    BY <1>1
  <2> HIDE DEF f, S, T
  <2> QED BY <1>4, <2>1 DEF Injection, IsInjective
<1>6. f \in Surjection(S, T)
  <2>1. \A v \in T : \E j \in S : f[j] = v
    <3> SUFFICES ASSUME NEW v \in T PROVE \E j \in S : f[j] = v
      OBVIOUS
    <3>1. v \in 1 .. n /\ v >= order[i]
      BY <1>0
    <3>2. PICK j \in 1 .. n : order[j] = v
      BY <1>3, <3>1
    <3>3. j \in S /\ f[j] = v
      BY <3>1, <3>2
    <3> QED BY <3>3
  <2> HIDE DEF f, S, T
  <2> QED BY <1>4, <2>1 DEF Surjection
<1>7. IsFiniteSet(T) /\ Cardinality(T) = (n + 1) - order[i]
  <2>1. IsFiniteSet(T) /\ Cardinality(T) = IF order[i] > n THEN 0 ELSE n - order[i] + 1
    BY <1>0, FS_Interval
  <2> QED BY <1>0, <2>1
<1>8. Cardinality(S) = Cardinality(T)
  <2> HIDE DEF f, S, T
  <2> QED BY <1>5, <1>6, <1>7, FS_Injection
<1> QED BY <1>7, <1>8

\* An injection of finitely many numbers into themselves is onto.
LEMMA SomePlace ==
  ASSUME NEW n \in Nat, NEW order \in [1 .. n -> 1 .. n], IsInjective(order), NEW v \in 1 .. n
  PROVE  \E j \in 1 .. n : order[j] = v
<1>1. IsFiniteSet(1 .. n)
  BY FS_Interval
<1>2. order \in Injection(1 .. n, 1 .. n)
  BY DEF Injection
<1>3. order \in Surjection(1 .. n, 1 .. n)
  BY <1>1, <1>2, FS_Injection
<1> QED BY <1>3 DEF Surjection

\* In whatever order the edits come, the k-th to be applied is the k-th from the end.
LEMMA LatestAreFirst ==
  ASSUME NEW q \in EditQuestions
  PROVE  LET n == Len(q.new)
             sorted == LatestFirst(EditsOf(q))
         IN  /\ Len(EditsOf(q)) = n
             /\ \A k \in 1 .. n : sorted[k] = EditAt(q, (n + 1) - k)
<1> DEFINE n == Len(q.new)
           E == EditsOf(q)
           order == q.order
           Ahead(d, e) == Before(e.from, d.from)
           precedes(j, i) == Ahead(E[j], E[i]) \/ (~Ahead(E[i], E[j]) /\ j <= i)
           place(i) == Cardinality({j \in DOMAIN E : precedes(j, i)})
<1>0. n \in Nat /\ order \in [1 .. n -> 1 .. n] /\ IsInjective(order)
  BY EditQuestionIs
<1>1. E = [k \in 1 .. n |-> EditAt(q, order[k])]
  BY DEF EditsOf, EditAt
<1>2. DOMAIN E = 1 .. n /\ Len(E) = n /\ \A k \in 1 .. n : E[k] = EditAt(q, order[k])
  BY <1>0, <1>1
<1>3. LatestFirst(E) = [k \in DOMAIN E |-> E[CHOOSE i \in DOMAIN E : place(i) = k]]
  BY DEF LatestFirst, SortedBy
<1> HIDE DEF E, order
<1>4. ASSUME NEW i \in 1 .. n, NEW j \in 1 .. n
      PROVE  precedes(j, i) <=> order[j] >= order[i]
  <2>1. order[i] \in 1 .. n /\ order[j] \in 1 .. n
    BY <1>0
  <2>2. Ahead(E[j], E[i]) <=> order[i] < order[j]
    BY <1>2, <2>1, StartsCompare
  <2>3. Ahead(E[i], E[j]) <=> order[j] < order[i]
    BY <1>2, <2>1, StartsCompare
  <2>4. order[i] = order[j] => i = j
    BY <1>0 DEF IsInjective
  <2> HIDE DEF Ahead
  <2> QED BY <1>0, <2>1, <2>2, <2>3, <2>4
<1> HIDE DEF precedes
<1>5. ASSUME NEW i \in 1 .. n PROVE place(i) = (n + 1) - order[i]
  <2>1. {j \in DOMAIN E : precedes(j, i)} = {j \in 1 .. n : order[j] >= order[i]}
    BY <1>2, <1>4
  <2> HIDE DEF n
  <2> QED BY <1>0, <2>1, PlaceIs
<1> HIDE DEF place
<1>6. ASSUME NEW k \in 1 .. n
      PROVE  LatestFirst(E)[k] = EditAt(q, (n + 1) - k)
  <2>1. (n + 1) - k \in 1 .. n
    BY <1>0
  <2>2. \E i \in 1 .. n : order[i] = (n + 1) - k
    <3> HIDE DEF n
    <3> QED BY <1>0, <2>1, SomePlace
  <2>3. \A i \in 1 .. n : place(i) = k <=> order[i] = (n + 1) - k
    <3> SUFFICES ASSUME NEW i \in 1 .. n PROVE place(i) = k <=> order[i] = (n + 1) - k
      OBVIOUS
    <3>1. order[i] \in 1 .. n /\ place(i) = (n + 1) - order[i]
      BY <1>0, <1>5
    <3>2. n \in Int /\ k \in Int /\ order[i] \in Int
      BY <1>0, <3>1
    <3>3. (n + 1) - order[i] = k <=> order[i] = (n + 1) - k
      BY <3>2
    <3> QED BY <3>1, <3>3
  <2> DEFINE i == CHOOSE i \in 1 .. n : place(i) = k
  <2>4. i \in 1 .. n /\ place(i) = k
    BY <2>2, <2>3
  <2> HIDE DEF i
  <2>5. order[i] = (n + 1) - k
    BY <2>3, <2>4
  <2>6. LatestFirst(E)[k] = E[i]
    BY <1>2, <1>3 DEF i
  <2> QED BY <1>2, <2>4, <2>5, <2>6
<1> QED BY <1>2, <1>6 DEF E

-----------------------------------------------------------------------------
(* apply_text_edits_to_file: what the edits make of the text.                *)

\* The two parts of a text that is put together.
LEMMA TwoParts ==
  ASSUME NEW s \in Text, NEW t \in Text
  PROVE  Upto(s \o t, Len(s)) = s /\ From(s \o t, Len(s)) = t
<1> DEFINE u == s \o t
<1>1. /\ u \in Text /\ Len(s) \in Nat /\ Len(t) \in Nat /\ Len(u) = Len(s) + Len(t)
      /\ \A k \in 1 .. Len(s) : u[k] = s[k]
      /\ \A k \in 1 .. Len(t) : u[Len(s) + k] = t[k]
  BY Joint
<1> HIDE DEF u
<1>2. Len(s) \in 0 .. Len(u) /\ Len(u) - Len(s) = Len(t)
  BY <1>1
<1>3. /\ Upto(u, Len(s)) \in Text /\ Len(Upto(u, Len(s))) = Len(s)
      /\ \A k \in 1 .. Len(s) : Upto(u, Len(s))[k] = u[k]
      /\ From(u, Len(s)) \in Text /\ Len(From(u, Len(s))) = Len(t)
      /\ \A k \in 1 .. Len(t) : From(u, Len(s))[k] = u[Len(s) + k]
  <2> DEFINE n == Len(s)
  <2>1. n \in 0 .. Len(u) /\ Len(u) - n = Len(t)
    BY <1>2
  <2> HIDE DEF n
  <2>2. Upto(u, n) \in Text /\ Len(Upto(u, n)) = n /\ \A k \in 1 .. n : Upto(u, n)[k] = u[k]
    BY <1>1, <2>1, Parts
  <2>3. /\ From(u, n) \in Text /\ Len(From(u, n)) = Len(u) - n
        /\ \A k \in 1 .. Len(u) - n : From(u, n)[k] = u[n + k]
    BY <1>1, <2>1, Parts
  <2> QED BY <2>1, <2>2, <2>3 DEF n
<1>4. Upto(u, Len(s)) = s
  BY <1>1, <1>3, SameText
<1>5. From(u, Len(s)) = t
  BY <1>1, <1>3, SameText
<1> QED BY <1>4, <1>5 DEF u

\* Texts that begin with the same characters have the same positions in them.
LEMMA SamePositions ==
  ASSUME NEW text \in UnixText, NEW N \in 0 .. Len(text), NEW s \in UnixText
  PROVE  \A j \in 0 .. N : Row(Upto(text, N) \o s, j) = Row(text, j) /\ Col(Upto(text, N) \o s, j) = Col(text, j)
<1> DEFINE u == Upto(text, N)
           t == u \o s
<1>1. text \in Text /\ IsUnix(text) /\ Len(text) \in Nat
  BY UnixTexts DEF Text
<1>2. u \in Text /\ Len(u) = N /\ \A k \in 1 .. N : u[k] = text[k]
  BY <1>1, Parts
<1>3. u \in UnixText
  BY <1>1 DEF UnixText, Upto
<1> HIDE DEF u
<1>4. t \in UnixText
  BY <1>3 DEF UnixText
<1>5. t \in Text /\ IsUnix(t) /\ s \in Text
  BY <1>4, UnixTexts
<1>6. Len(s) \in Nat /\ Len(t) = N + Len(s) /\ \A k \in 1 .. N : t[k] = u[k]
  BY <1>2, <1>5, Joint
<1> HIDE DEF t
<1>7. N \in Nat /\ N <= Len(t) /\ N <= Len(text)
  BY <1>1, <1>6
<1>8. \A b \in 1 .. N : b \in Breaks(t) <=> b \in Breaks(text)
  <2>1. Breaks(t) = {i \in 1 .. Len(t) : t[i] = LF}
    BY <1>5, UnixBreaks
  <2>2. Breaks(text) = {i \in 1 .. Len(text) : text[i] = LF}
    BY <1>1, UnixBreaks
  <2> QED BY <2>1, <2>2, <1>1, <1>2, <1>6, <1>7
<1>9. \A j \in 0 .. N : Row(t, j) = Row(text, j) /\ Col(t, j) = Col(text, j)
  BY <1>1, <1>5, <1>7, <1>8, SameBreaks
<1> QED BY <1>9 DEF t, u

\* An edit of a text of which only what comes later has been edited.
LEMMA AppliedIs ==
  ASSUME NEW text \in UnixText, NEW to \in 0 .. Len(text), NEW from \in 0 .. to, NEW s \in UnixText,
         NEW new \in UnixText, NEW edit, edit.from = Position(text, from), edit.new = new,
         \/ edit.to = Position(text, to)
         \/ edit.to = End(text) /\ to = Len(text) /\ s = <<>>
  PROVE  Applied(Upto(text, to) \o s, edit) = Upto(text, from) \o new \o s
<1> DEFINE t == Upto(text, to) \o s
           d == Upto(text, from) \o s
           r == Row(text, from)
           c == Col(text, from)
<1>1. text \in Text /\ Len(text) \in Nat /\ s \in Text /\ new \in Text
  BY UnixTexts DEF Text
<1>2. from \in 0 .. Len(text) /\ to \in from .. Len(text) /\ to \in to .. Len(text)
  BY <1>1
<1>3. edit.from = <<r, c>>
  BY <1>1, <1>2, RowCol
<1>4. Upto(text, to) \in Text /\ Len(Upto(text, to)) = to
  BY <1>1, <1>2, Parts
<1>5. Upto(text, from) \in Text /\ Len(Upto(text, from)) = from
  BY <1>1, <1>2, Parts
<1>6. t \in Text /\ Len(t) = to + Len(s) /\ Len(s) \in Nat /\ From(t, to) = s /\ Upto(t, to) = Upto(text, to)
  <2> DEFINE u == Upto(text, to)
  <2>1. u \in Text /\ Len(u) = to
    BY <1>4
  <2> HIDE DEF u
  <2>2. u \o s \in Text /\ Len(u \o s) = Len(u) + Len(s) /\ Len(s) \in Nat
    BY <1>1, <2>1, Joint
  <2>3. Upto(u \o s, Len(u)) = u /\ From(u \o s, Len(u)) = s
    BY <1>1, <2>1, TwoParts
  <2> QED BY <2>1, <2>2, <2>3 DEF u
<1>7. d \in Text /\ Len(d) = from + Len(s) /\ From(d, from) = s /\ Upto(d, from) = Upto(text, from)
  <2> DEFINE u == Upto(text, from)
  <2>1. u \in Text /\ Len(u) = from
    BY <1>5
  <2> HIDE DEF u
  <2>2. u \o s \in Text /\ Len(u \o s) = Len(u) + Len(s) /\ Len(s) \in Nat
    BY <1>1, <2>1, Joint
  <2>3. Upto(u \o s, Len(u)) = u /\ From(u \o s, Len(u)) = s
    BY <1>1, <2>1, TwoParts
  <2> QED BY <2>1, <2>2, <2>3 DEF u
<1>8. Upto(t, from) = Upto(text, from)
  <2> HIDE DEF t
  <2>1. from \in 0 .. Len(t)
    BY <1>1, <1>6
  <2>2. /\ Upto(t, from) \in Text /\ Len(Upto(t, from)) = from
        /\ \A k \in 1 .. from : Upto(t, from)[k] = t[k]
    BY <1>6, <2>1, Parts
  <2>3. \A k \in 1 .. from : Upto(text, from)[k] = text[k]
    BY <1>1, <1>2, Parts
  <2>4. \A k \in 1 .. from : t[k] = text[k]
    <3>1. \A k \in 1 .. to : Upto(t, to)[k] = t[k] /\ Upto(text, to)[k] = text[k]
      <4>1. to \in 0 .. Len(t)
        BY <1>1, <1>6
      <4>2. \A k \in 1 .. to : Upto(t, to)[k] = t[k]
        BY <1>6, <4>1, Parts
      <4>3. \A k \in 1 .. to : Upto(text, to)[k] = text[k]
        BY <1>1, Parts
      <4> QED BY <4>2, <4>3
    <3>2. \A k \in 1 .. from : k \in 1 .. to
      BY <1>2
    <3> QED BY <1>6, <3>1, <3>2
  <2> QED BY <1>5, <2>2, <2>3, <2>4, SameText
<1>9. Row(t, from) = r /\ Col(t, from) = c /\ Row(t, to) = Row(text, to) /\ Col(t, to) = Col(text, to)
  BY <1>2, SamePositions
<1>10. Row(d, from) = r /\ Col(d, from) = c
  <2>1. from \in 0 .. from
    BY <1>2
  <2> QED BY <1>2, <2>1, SamePositions
<1>11. Deleted(t, edit.from, edit.to).text = d
  <2>0. from \in 0 .. Len(t) /\ to \in 0 .. Len(t)
    BY <1>1, <1>6
  <2>1. CASE edit.to = Position(text, to)
    <3>1. edit.to = <<Row(t, to), Col(t, to)>>
      BY <1>1, <1>9, <2>1, RowCol
    <3>2. Deleted(t, <<Row(t, from), Col(t, from)>>, <<Row(t, to), Col(t, to)>>)
            = [text |-> Upto(t, from) \o From(t, to), deleted |-> SubSeq(t, from + 1, to)]
      <4> HIDE DEF t
      <4> QED BY <1>6, <2>0, DeletedBetween
    <3>3. edit.from = <<Row(t, from), Col(t, from)>>
      BY <1>3, <1>9
    <3>4. Deleted(t, edit.from, edit.to).text = Upto(t, from) \o From(t, to)
      <4> HIDE DEF t
      <4>1. Deleted(t, edit.from, edit.to)
              = [text |-> Upto(t, from) \o From(t, to), deleted |-> SubSeq(t, from + 1, to)]
        BY <3>1, <3>2, <3>3, Zenon
      <4> QED BY <4>1
    <3> QED BY <1>6, <1>8, <3>4
  <2>2. CASE edit.to = End(text) /\ to = Len(text) /\ s = <<>>
    <3>1. Len(s) = 0
      BY <2>2
    <3>2. Len(t) = to
      <4> HIDE DEF t
      <4> QED BY <1>1, <1>6, <3>1
    <3>3. edit.to = <<Row(t, Len(t)) + 1, 0>>
      <4>1. edit.to = <<Row(text, Len(text)) + 1, 0>>
        BY <1>1, <2>2, EndIs
      <4> HIDE DEF t
      <4> QED BY <1>9, <2>2, <3>2, <4>1
    <3>4. Deleted(t, <<Row(t, from), Col(t, from)>>, <<Row(t, Len(t)) + 1, 0>>)
            = [text |-> Upto(t, from) \o From(t, Len(t)), deleted |-> SubSeq(t, from + 1, Len(t))]
      <4> HIDE DEF t
      <4> QED BY <1>6, <2>0, DeletedToEnd
    <3>5. edit.from = <<Row(t, from), Col(t, from)>>
      BY <1>3, <1>9
    <3>6. Deleted(t, edit.from, edit.to).text = Upto(t, from) \o From(t, to)
      <4> HIDE DEF t
      <4>1. Deleted(t, edit.from, edit.to)
              = [text |-> Upto(t, from) \o From(t, Len(t)), deleted |-> SubSeq(t, from + 1, Len(t))]
        BY <3>3, <3>4, <3>5, Zenon
      <4> QED BY <3>2, <4>1
    <3> QED BY <1>6, <1>8, <3>6
  <2> QED BY <2>1, <2>2
<1>12. Inserted(d, r, c, new).text = Upto(text, from) \o new \o s
  <2>1. from \in 0 .. Len(d)
    <3> HIDE DEF d
    <3> QED BY <1>1, <1>2, <1>6, <1>7
  <2>2. Inserted(d, Row(d, from), Col(d, from), new)
          = [text |-> Upto(d, from) \o new \o From(d, from), end |-> PositionAfter(Row(d, from), Col(d, from), new)]
    <3> HIDE DEF d
    <3> QED BY <1>7, <2>1, InsertedAt
  <2> HIDE DEF d, r, c
  <2> QED BY <1>7, <1>10, <2>2
<1>13. Applied(t, edit) = Inserted(d, r, c, new).text
  <2> HIDE DEF t, d, r, c
  <2> QED BY <1>3, <1>11 DEF Applied
<1> QED BY <1>12, <1>13

\* Putting texts together is associative.
LEMMA Associative ==
  ASSUME NEW s \in Text, NEW t \in Text, NEW u \in Text
  PROVE  (s \o t) \o u = s \o (t \o u)
<1> DEFINE a == s \o t
           b == t \o u
<1>1. /\ a \in Text /\ Len(s) \in Nat /\ Len(t) \in Nat /\ Len(a) = Len(s) + Len(t)
      /\ (\A k \in 1 .. Len(s) : a[k] = s[k]) /\ (\A k \in 1 .. Len(t) : a[Len(s) + k] = t[k])
  BY Joint
<1>2. /\ b \in Text /\ Len(u) \in Nat /\ Len(b) = Len(t) + Len(u)
      /\ (\A k \in 1 .. Len(t) : b[k] = t[k]) /\ (\A k \in 1 .. Len(u) : b[Len(t) + k] = u[k])
  BY Joint
<1> HIDE DEF a, b
<1>3. /\ a \o u \in Text /\ Len(a \o u) = Len(a) + Len(u)
      /\ (\A k \in 1 .. Len(a) : (a \o u)[k] = a[k]) /\ (\A k \in 1 .. Len(u) : (a \o u)[Len(a) + k] = u[k])
  BY <1>1, Joint
<1>4. /\ s \o b \in Text /\ Len(s \o b) = Len(s) + Len(b)
      /\ (\A k \in 1 .. Len(s) : (s \o b)[k] = s[k]) /\ (\A k \in 1 .. Len(b) : (s \o b)[Len(s) + k] = b[k])
  BY <1>2, Joint
<1>5. Len(a \o u) = Len(s \o b)
  BY <1>1, <1>2, <1>3, <1>4
<1>6. ASSUME NEW k \in 1 .. Len(a \o u) PROVE (a \o u)[k] = (s \o b)[k]
  <2>0. k \in 1 .. (Len(s) + Len(t)) + Len(u)
    BY <1>1, <1>3
  <2>1. CASE k <= Len(s)
    <3>1. k \in 1 .. Len(s) /\ k \in 1 .. Len(a)
      BY <1>1, <2>0, <2>1
    <3> QED BY <3>1, <1>1, <1>3, <1>4
  <2>2. CASE Len(s) < k /\ k <= Len(s) + Len(t)
    <3>1. /\ k - Len(s) \in 1 .. Len(t) /\ k \in 1 .. Len(a) /\ k - Len(s) \in 1 .. Len(b)
          /\ Len(s) + (k - Len(s)) = k
      BY <1>1, <1>2, <2>0, <2>2
    <3>2. (a \o u)[k] = t[k - Len(s)]
      BY <3>1, <1>1, <1>3
    <3>3. (s \o b)[k] = t[k - Len(s)]
      BY <3>1, <1>2, <1>4
    <3> QED BY <3>2, <3>3
  <2>3. CASE Len(s) + Len(t) < k
    <3>1. /\ k - Len(a) \in 1 .. Len(u) /\ Len(a) + (k - Len(a)) = k
          /\ k - Len(s) \in 1 .. Len(b) /\ Len(s) + (k - Len(s)) = k
          /\ Len(t) + (k - Len(a)) = k - Len(s)
      BY <1>1, <1>2, <2>0, <2>3
    <3>2. (a \o u)[k] = u[k - Len(a)]
      BY <3>1, <1>3
    <3>3. (s \o b)[k] = b[k - Len(s)]
      BY <3>1, <1>4
    <3>4. b[k - Len(s)] = u[k - Len(a)]
      BY <3>1, <1>2
    <3> QED BY <3>2, <3>3, <3>4
  <2>4. k <= Len(s) \/ (Len(s) < k /\ k <= Len(s) + Len(t)) \/ Len(s) + Len(t) < k
    BY <1>1, <2>0
  <2> QED BY <2>1, <2>2, <2>3, <2>4
<1>7. a \o u = s \o b
  BY <1>3, <1>4, <1>5, <1>6, SameText
<1> QED BY <1>7 DEF a, b

\* A text is put together of what comes before an index and what comes after it.
LEMMA Split ==
  ASSUME NEW text \in Text, NEW x \in 0 .. Len(text), NEW y \in x .. Len(text)
  PROVE  /\ SubSeq(text, x + 1, y) \in Text
         /\ Upto(text, x) \o SubSeq(text, x + 1, y) = Upto(text, y)
         /\ Upto(text, x) \o From(text, x) = text
<1>0. Len(text) \in Nat /\ y \in 0 .. Len(text) /\ Len(text) \in x .. Len(text)
  BY DEF Text
<1>1. ASSUME NEW z \in x .. Len(text)
      PROVE  SubSeq(text, x + 1, z) \in Text /\ Upto(text, x) \o SubSeq(text, x + 1, z) = SubSeq(text, 1, z)
  <2> DEFINE u == Upto(text, x)
             v == SubSeq(text, x + 1, z)
             w == SubSeq(text, 1, z)
  <2>1. u \in Text /\ Len(u) = x /\ \A k \in 1 .. x : u[k] = text[k]
    BY Parts
  <2>2. v \in Text /\ Len(v) = z - x /\ \A k \in 1 .. z - x : v[k] = text[x + k]
    BY <1>0 DEF Text
  <2>3. w \in Text /\ Len(w) = z /\ \A k \in 1 .. z : w[k] = text[k]
    BY <1>0 DEF Text
  <2> HIDE DEF u, v, w
  <2>4. /\ u \o v \in Text /\ Len(u \o v) = Len(u) + Len(v)
        /\ (\A k \in 1 .. Len(u) : (u \o v)[k] = u[k]) /\ (\A k \in 1 .. Len(v) : (u \o v)[Len(u) + k] = v[k])
    BY <2>1, <2>2, Joint
  <2>5. Len(u \o v) = Len(w)
    BY <1>0, <2>1, <2>2, <2>3, <2>4
  <2>6. ASSUME NEW k \in 1 .. Len(u \o v) PROVE (u \o v)[k] = w[k]
    <3>0. k \in 1 .. z
      BY <2>3, <2>5
    <3>1. CASE k <= x
      <4>1. k \in 1 .. x
        BY <3>0, <3>1
      <4> QED BY <4>1, <3>0, <2>1, <2>3, <2>4
    <3>2. CASE x < k
      <4>1. k - x \in 1 .. z - x /\ x + (k - x) = k
        BY <1>0, <3>0, <3>2
      <4>2. (u \o v)[k] = v[k - x]
        BY <4>1, <2>1, <2>2, <2>4
      <4> QED BY <4>1, <4>2, <3>0, <2>2, <2>3
    <3>3. k <= x \/ x < k
      BY <3>0
    <3> QED BY <3>1, <3>2, <3>3
  <2>7. u \o v = w
    BY <2>3, <2>4, <2>5, <2>6, SameText
  <2> QED BY <2>2, <2>7 DEF u, v, w
<1>2. Upto(text, x) \o SubSeq(text, x + 1, y) = Upto(text, y) /\ SubSeq(text, x + 1, y) \in Text
  BY <1>1 DEF Upto
<1>3. Upto(text, x) \o From(text, x) = text
  <2>1. Upto(text, x) \o SubSeq(text, x + 1, Len(text)) = SubSeq(text, 1, Len(text))
    BY <1>0, <1>1
  <2>2. SubSeq(text, 1, Len(text)) = text
    <3>1. /\ SubSeq(text, 1, Len(text)) \in Text /\ Len(SubSeq(text, 1, Len(text))) = Len(text)
          /\ \A k \in 1 .. Len(text) : SubSeq(text, 1, Len(text))[k] = text[k]
      BY <1>0 DEF Text
    <3> QED BY <3>1, SameText
  <2> QED BY <2>1, <2>2 DEF From
<1> QED BY <1>2, <1>3

\* The end of the range of an edit, and the beginning of the text.
EndOf(q, i) == IF i = 0 THEN 0 ELSE q.to[i]

\* What has become of the text behind the range before the last k edits.
IsSuffix(q, g) ==
  LET n == Len(q.new)
  IN  /\ g \in [0 .. n -> UnixText]
      /\ g[0] = From(q.text, EndOf(q, n))
      /\ \A k \in 1 .. n : g[k] = SubSeq(q.text, EndOf(q, n - k) + 1, q.from[n - k + 1])
                                    \o q.new[n - k + 1] \o g[k - 1]

\* A range begins after the one before it has ended.
LEMMA EndsInside ==
  ASSUME NEW q \in EditQuestions
  PROVE  /\ \A i \in 0 .. Len(q.new) : EndOf(q, i) \in 0 .. Len(q.text)
         /\ \A i \in 1 .. Len(q.new) : q.from[i] \in EndOf(q, i - 1) .. Len(q.text)
<1> DEFINE n == Len(q.new)
           N == Len(q.text)
<1>0. n \in Nat /\ N \in Nat
  BY EditQuestionIs, StartsInside
<1>1. \A i \in 1 .. n : q.to[i] \in 0 .. N /\ q.from[i] \in 0 .. N
  BY StartsInside
<1>2. \A i \in 1 .. n - 1 : q.to[i] <= q.from[i + 1]
  BY EditQuestionIs
<1> HIDE DEF n, N
<1>3. \A i \in 0 .. n : EndOf(q, i) \in 0 .. N
  BY <1>0, <1>1 DEF EndOf
<1>4. ASSUME NEW i \in 1 .. n PROVE q.from[i] \in EndOf(q, i - 1) .. N
  <2>1. CASE i = 1
    BY <1>0, <1>1, <2>1 DEF EndOf
  <2>2. CASE i # 1
    <3>1. i - 1 \in 1 .. n - 1 /\ (i - 1) + 1 = i /\ i - 1 # 0 /\ i - 1 \in 1 .. n
      BY <1>0, <2>2
    <3>2. q.to[i - 1] <= q.from[i] /\ EndOf(q, i - 1) = q.to[i - 1]
      BY <1>2, <3>1 DEF EndOf
    <3> QED BY <1>0, <1>1, <3>1, <3>2
  <2> QED BY <2>1, <2>2
<1> QED BY <1>3, <1>4 DEF n, N

\* What is inserted has no carriage returns.
LEMMA NewsAreUnix == ASSUME NEW new \in News PROVE new \in UnixText
<1>1. new \in Text /\ \A k \in 1 .. Len(new) : new[k] # CR
  BY NewsAre
<1>2. \A k \in 1 .. Len(new) : new[k] \in {"a", "x", LF}
  BY <1>1 DEF Text, Letters
<1> QED BY <1>1, <1>2 DEF Text, UnixText

\* Recursion on texts without carriage returns.
LEMMA UnixRecursion ==
  ASSUME NEW none \in UnixText, NEW N \in Nat, NEW step \in [1 .. N -> [UnixText -> UnixText]]
  PROVE  \E f \in [0 .. N -> UnixText] : f[0] = none /\ \A k \in 1 .. N : f[k] = step[k][f[k - 1]]
<1> QED BY Recursion

\* The text with every range replaced is built from its end on.
LEMMA ReplacedIs ==
  ASSUME NEW q \in EditQuestions
  PROVE  \E g : IsSuffix(q, g) /\ Replaced(q) = g[Len(q.new)]
<1> DEFINE n == Len(q.new)
           text == q.text
           part(k) == SubSeq(text, EndOf(q, n - k) + 1, q.from[n - k + 1])
           one(k) == [x \in UnixText |-> part(k) \o q.new[n - k + 1] \o x]
           step == [k \in 1 .. n |-> one(k)]
           none == From(text, EndOf(q, n))
<1>0. n \in Nat /\ text \in UnixText /\ q.new \in [1 .. n -> News] /\ Len(text) \in Nat
  BY EditQuestionIs, StartsInside
<1>1. none \in UnixText
  <2>1. EndOf(q, n) \in 0 .. Len(text)
    BY <1>0, EndsInside
  <2> QED BY <1>0, <2>1 DEF UnixText, From
<1>2. ASSUME NEW k \in 1 .. n PROVE part(k) \in UnixText /\ q.new[n - k + 1] \in UnixText
  <2> DEFINE i == n - k + 1
  <2>1. i \in 1 .. n /\ i - 1 = n - k /\ n - k \in 0 .. n
    BY <1>0
  <2>2. q.from[i] \in EndOf(q, i - 1) .. Len(text) /\ EndOf(q, n - k) \in 0 .. Len(text)
    BY <2>1, EndsInside
  <2>3. q.new[i] \in UnixText
    BY <1>0, <2>1, NewsAreUnix
  <2>4. part(k) \in UnixText
    <3> DEFINE a == EndOf(q, n - k)
               b == q.from[i]
    <3>1. a \in 0 .. Len(text) /\ b \in a .. Len(text)
      BY <2>1, <2>2
    <3> HIDE DEF a, b, text
    <3>2. SubSeq(text, a + 1, b) \in UnixText
      BY <1>0, <3>1 DEF UnixText
    <3> QED BY <3>2 DEF a, b, text
  <2> QED BY <2>3, <2>4
<1>3. ASSUME NEW k \in 1 .. n PROVE one(k) \in [UnixText -> UnixText]
  <2> DEFINE u == part(k)
             v == q.new[n - k + 1]
  <2>1. u \in UnixText /\ v \in UnixText
    BY <1>2
  <2> HIDE DEF u, v
  <2>2. \A x \in UnixText : u \o v \o x \in UnixText
    BY <2>1 DEF UnixText
  <2> QED BY <2>2 DEF u, v
<1>4. step \in [1 .. n -> [UnixText -> UnixText]]
  <2> HIDE DEF one
  <2> QED BY <1>3
<1>5. \E f \in [0 .. n -> UnixText] : f[0] = none /\ \A k \in 1 .. n : f[k] = step[k][f[k - 1]]
  <2> HIDE DEF step, n, none
  <2> QED BY <1>0, <1>1, <1>4, UnixRecursion
<1>6. PICK f \in [0 .. n -> UnixText] : f[0] = none /\ \A k \in 1 .. n : f[k] = step[k][f[k - 1]]
  BY <1>5
<1>7. ASSUME NEW k \in 1 .. n
      PROVE  f[k] = part(k) \o q.new[n - k + 1] \o f[k - 1]
  <2>1. f[k] = one(k)[f[k - 1]]
    <3> HIDE DEF one
    <3> QED BY <1>6
  <2>2. f[k - 1] \in UnixText
    BY <1>0, <1>6
  <2> HIDE DEF part
  <2> QED BY <2>1, <2>2
<1> DEFINE Next(g) == [k \in 0 .. n |-> IF k = 0 THEN none ELSE part(k) \o q.new[n - k + 1] \o g[k - 1]]
<1>8. f = Next(f)
  <2>1. \A k \in 0 .. n : k # 0 => k \in 1 .. n
    BY <1>0
  <2> HIDE DEF n, part, none
  <2> QED BY <1>6, <1>7, <2>1
<1>9. \E g : g = Next(g) /\ Replaced(q) = g[n]
  BY <1>8, Zenon DEF Replaced, EndOf
<1>10. PICK g : g = Next(g) /\ Replaced(q) = g[n]
  BY <1>9
<1>11. /\ g[0] = none
       /\ \A k \in 1 .. n : g[k] = part(k) \o q.new[n - k + 1] \o g[k - 1]
  <2>1. 0 \in 0 .. n /\ \A k \in 1 .. n : k \in 0 .. n /\ k # 0
    BY <1>0
  <2> HIDE DEF n, part, none
  <2> QED BY <1>10, <2>1
<1>12. g \in [0 .. n -> UnixText]
  <2> DEFINE S == {k \in 0 .. n : g[k] \in UnixText}
  <2>1. 0 \in S
    BY <1>0, <1>1, <1>11
  <2>2. \A k \in 0 .. n - 1 : k \in S => k + 1 \in S
    <3> SUFFICES ASSUME NEW k \in 0 .. n - 1, g[k] \in UnixText PROVE g[k + 1] \in UnixText
      BY <1>0
    <3>1. k + 1 \in 1 .. n /\ (k + 1) - 1 = k
      BY <1>0
    <3> DEFINE u == part(k + 1)
               v == q.new[n - (k + 1) + 1]
    <3>2. u \in UnixText /\ v \in UnixText
      BY <1>2, <3>1
    <3>3. g[k + 1] = u \o v \o g[k]
      BY <1>11, <3>1
    <3> HIDE DEF u, v
    <3> QED BY <3>2, <3>3 DEF UnixText
  <2>3. \A k \in 0 .. n : k \in S
    <3> HIDE DEF S, n
    <3> QED BY <1>0, <2>1, <2>2, Induct
  <2>4. \A k \in 0 .. n : g[k] \in UnixText
    BY <2>3
  <2> HIDE DEF n
  <2> QED BY <1>10, <2>4
<1> QED BY <1>10, <1>11, <1>12, Zenon DEF IsSuffix

\* After k edits the text is as it was up to the end of the range before them, and
\* behind that what those edits make of the rest.
LEMMA EditsReplace ==
  ASSUME NEW q \in EditQuestions
  PROVE  AppliedAll(q.text, EditsOf(q)) = Replaced(q)
<1> DEFINE n == Len(q.new)
           text == q.text
           sorted == LatestFirst(EditsOf(q))
<1>0. n \in Nat /\ text \in UnixText /\ q.new \in [1 .. n -> News] /\ Len(text) \in Nat
      /\ (q.past => n > 0 /\ q.to[n] = Len(text))
  BY EditQuestionIs, StartsInside
<1>1. text \in Text
  BY <1>0, UnixTexts
<1>2. Len(EditsOf(q)) = n /\ \A k \in 1 .. n : sorted[k] = EditAt(q, (n + 1) - k)
  BY LatestAreFirst
<1>3. PICK g : IsSuffix(q, g) /\ Replaced(q) = g[n]
  BY ReplacedIs
<1>4. /\ g \in [0 .. n -> UnixText]
      /\ g[0] = From(text, EndOf(q, n))
      /\ \A k \in 1 .. n : g[k] = SubSeq(text, EndOf(q, n - k) + 1, q.from[n - k + 1])
                                    \o q.new[n - k + 1] \o g[k - 1]
  BY <1>3 DEF IsSuffix
<1> HIDE DEF sorted
<1> DEFINE f == [k \in 0 .. n |-> Upto(text, EndOf(q, n - k)) \o g[k]]
<1>5. f[0] = text
  <2>1. EndOf(q, n) \in 0 .. Len(text) /\ Len(text) \in EndOf(q, n) .. Len(text)
    BY <1>0, EndsInside
  <2>2. Upto(text, EndOf(q, n)) \o From(text, EndOf(q, n)) = text
    BY <1>1, <2>1, Split
  <2>3. 0 \in 0 .. n /\ n - 0 = n
    BY <1>0
  <2> HIDE DEF text, n
  <2> QED BY <1>4, <2>2, <2>3
<1>6. ASSUME NEW k \in 1 .. n PROVE f[k] = Applied(f[k - 1], sorted[k])
  <2> DEFINE i == n - k + 1
             s == g[k - 1]
             new == q.new[i]
             from == q.from[i]
             to == q.to[i]
             before == EndOf(q, i - 1)
             edit == EditAt(q, i)
  <2>1. /\ i \in 1 .. n /\ i \in 0 .. n /\ i # 0 /\ i - 1 = n - k /\ i - 1 \in 0 .. n /\ n - (k - 1) = i
        /\ (n + 1) - k = i /\ k - 1 \in 0 .. n /\ k \in 0 .. n
    BY <1>0
  <2>2. sorted[k] = edit
    BY <1>2, <2>1
  <2>3. f[k - 1] = Upto(text, to) \o s
    <3>1. EndOf(q, i) = to
      BY <2>1 DEF EndOf
    <3>2. f[k - 1] = Upto(text, EndOf(q, n - (k - 1))) \o g[k - 1]
      BY <2>1
    <3> HIDE DEF f, text, n, i
    <3> QED BY <2>1, <3>1, <3>2
  <2>4. s \in UnixText /\ s \in Text
    <3>1. s \in UnixText
      BY <1>4, <2>1
    <3> HIDE DEF s
    <3> QED BY <3>1, UnixTexts
  <2>5. new \in UnixText /\ new \in Text
    <3>1. new \in News
      BY <1>0, <2>1
    <3> HIDE DEF new
    <3> QED BY <3>1, NewsAreUnix, UnixTexts
  <2>6. /\ to \in 0 .. Len(text) /\ from \in 0 .. to /\ from \in 0 .. Len(text)
        /\ before \in 0 .. Len(text) /\ from \in before .. Len(text)
    BY <2>1, StartsInside, EndsInside
  <2>7. edit.from = Position(text, from) /\ edit.new = new
        /\ edit.to = IF q.past /\ i = n THEN End(text) ELSE Position(text, to)
    BY DEF EditAt
  <2>8. \/ edit.to = Position(text, to)
        \/ edit.to = End(text) /\ to = Len(text) /\ s = <<>>
    <3>1. CASE q.past /\ i = n
      <4>1. k - 1 = 0 /\ to = Len(text) /\ n # 0
        BY <1>0, <3>1
      <4>2. EndOf(q, n) = Len(text)
        BY <3>1, <4>1 DEF EndOf
      <4>3. s = From(text, Len(text))
        <5> HIDE DEF text, n
        <5> QED BY <1>4, <4>1, <4>2
      <4>4. From(text, Len(text)) = <<>>
        <5> HIDE DEF text
        <5>1. Len(text) \in 0 .. Len(text)
          BY <1>0
        <5>2. From(text, Len(text)) \in Text /\ Len(From(text, Len(text))) = Len(text) - Len(text)
          BY <1>1, <5>1, Parts
        <5>3. Len(From(text, Len(text))) = 0
          BY <1>0, <5>2
        <5> QED BY <5>2, <5>3 DEF Text
      <4> HIDE DEF text, n, i, s, to, edit
      <4> QED BY <2>7, <3>1, <4>1, <4>3, <4>4
    <3>2. CASE ~(q.past /\ i = n)
      <4> HIDE DEF text, n, i, s, to, edit
      <4> QED BY <2>7, <3>2
    <3> QED BY <3>1, <3>2
  <2>9. f[k] = Upto(text, before) \o (SubSeq(text, before + 1, from) \o new \o s)
    <3>1. f[k] = Upto(text, EndOf(q, n - k)) \o g[k]
      BY <2>1
    <3>2. g[k] = SubSeq(text, EndOf(q, n - k) + 1, from) \o new \o s
      BY <1>4
    <3>3. EndOf(q, n - k) = before
      BY <2>1
    <3> HIDE DEF f, text, from, new, s, before
    <3> QED BY <3>1, <3>2, <3>3
  <2> HIDE DEF f, text, n, i, s, new, from, to, before, edit
  <2>10. Applied(Upto(text, to) \o s, edit) = Upto(text, from) \o new \o s
    BY <1>0, <2>4, <2>5, <2>6, <2>7, <2>8, AppliedIs
  <2>11. Upto(text, before) \o (SubSeq(text, before + 1, from) \o new \o s) = Upto(text, from) \o new \o s
    <3> DEFINE u == Upto(text, before)
               v == SubSeq(text, before + 1, from)
    <3>1. u \in Text /\ v \in Text /\ u \o v = Upto(text, from)
      BY <1>1, <2>6, Split, Parts
    <3> HIDE DEF u, v
    <3>2. v \o new \in Text
      BY <2>5, <3>1, Joint
    <3>3. u \o ((v \o new) \o s) = (u \o (v \o new)) \o s
      BY <2>4, <3>1, <3>2, Associative
    <3>4. u \o (v \o new) = (u \o v) \o new
      BY <2>5, <3>1, Associative
    <3> QED BY <3>1, <3>3, <3>4 DEF u, v
  <2> QED BY <2>2, <2>3, <2>9, <2>10, <2>11
<1> DEFINE Next(h) == [k \in 0 .. n |-> IF k = 0 THEN text ELSE Applied(h[k - 1], sorted[k])]
<1>7. f = Next(f)
  <2>1. \A k \in 0 .. n : k # 0 => k \in 1 .. n
    BY <1>0
  <2>2. \A k \in 0 .. n : f[k] = IF k = 0 THEN text ELSE Applied(f[k - 1], sorted[k])
    <3> HIDE DEF f, n, text
    <3> QED BY <1>5, <1>6, <2>1
  <2>3. DOMAIN f = 0 .. n /\ f = [k \in 0 .. n |-> f[k]]
    OBVIOUS
  <2> HIDE DEF f, n, text
  <2> QED BY <2>2, <2>3
<1>8. \E h : h = Next(h) /\ AppliedAll(text, EditsOf(q)) = h[n]
  <2>1. Len(EditsOf(q)) = n
    BY <1>2
  <2> DEFINE Same(h) == [k \in 0 .. Len(EditsOf(q)) |-> IF k = 0 THEN text ELSE Applied(h[k - 1], sorted[k])]
  <2>2. f = Same(f)
    <3> HIDE DEF f, text
    <3> QED BY <1>7, <2>1
  <2>3. \E h : h = Same(h) /\ AppliedAll(text, EditsOf(q)) = h[Len(EditsOf(q))]
    BY <2>2, Zenon DEF AppliedAll, sorted
  <2> HIDE DEF n, text
  <2> QED BY <2>1, <2>3
<1>9. PICK h : h = Next(h) /\ AppliedAll(text, EditsOf(q)) = h[n]
  BY <1>8
<1> HIDE DEF f
<1>10. \A k \in 0 .. n : h[k] = f[k]
  <2> DEFINE S == {k \in 0 .. n : h[k] = f[k]}
  <2>1. 0 \in S
    <3>1. 0 \in 0 .. n
      BY <1>0
    <3>2. h[0] = text
      <4> HIDE DEF n, text
      <4> QED BY <1>9, <3>1
    <3> QED BY <1>5, <3>1, <3>2
  <2>2. \A k \in 0 .. n - 1 : k \in S => k + 1 \in S
    <3> SUFFICES ASSUME NEW k \in 0 .. n - 1, h[k] = f[k] PROVE h[k + 1] = f[k + 1]
      BY <1>0
    <3>1. k + 1 \in 0 .. n /\ k + 1 # 0 /\ (k + 1) - 1 = k /\ k + 1 \in 1 .. n
      BY <1>0
    <3>2. h[k + 1] = Applied(h[(k + 1) - 1], sorted[k + 1])
      <4> HIDE DEF n, text
      <4> QED BY <1>9, <3>1
    <3>3. f[k + 1] = Applied(f[(k + 1) - 1], sorted[k + 1])
      BY <1>6, <3>1
    <3> HIDE DEF n, text
    <3> QED BY <3>1, <3>2, <3>3
  <2>3. \A k \in 0 .. n : k \in S
    <3> HIDE DEF S, n
    <3> QED BY <1>0, <2>1, <2>2, Induct
  <2> QED BY <2>3
<1>11. f[n] = g[n]
  <2>1. n \in 0 .. n /\ n - n = 0
    BY <1>0
  <2>2. f[n] = Upto(text, EndOf(q, n - n)) \o g[n]
    BY <2>1 DEF f
  <2>3. EndOf(q, n - n) = 0
    BY <2>1 DEF EndOf
  <2>4. Upto(text, 0) = <<>>
    <3> HIDE DEF text
    <3>1. 0 \in 0 .. Len(text)
      BY <1>0
    <3>2. Upto(text, 0) \in Text /\ Len(Upto(text, 0)) = 0
      BY <1>1, <3>1, Parts
    <3> QED BY <3>2 DEF Text
  <2>5. g[n] \in Text
    <3>1. g[n] \in UnixText
      BY <1>4, <2>1
    <3> QED BY <3>1, UnixTexts
  <2>6. <<>> \o g[n] = g[n]
    BY <2>5 DEF Text
  <2> HIDE DEF n, text
  <2> QED BY <2>2, <2>3, <2>4, <2>6
<1>12. n \in 0 .. n
  BY <1>0
<1> QED BY <1>3, <1>9, <1>10, <1>11, <1>12

\* apply_text_edits_to_file, for texts of any length and any number of edits in any order:
\* the edits of one answer change the text as if each were applied to it as it was.
THEOREM Simultaneous == TextSpec => []EditsAreSimultaneous
<1>1. Truthful => EditsAreSimultaneous
  <2> SUFFICES ASSUME Truthful, Answered("edits") PROVE answer[1] = Replaced(question)
    BY DEF EditsAreSimultaneous
  <2>1. question.kind = "edits" /\ answer # <<>>
    BY DEF Answered
  <2>2. AnswerIs(EditQuestions, AppliedAll(question.text, EditsOf(question)))
    BY <2>1 DEF Truthful
  <2>3. question \in EditQuestions /\ answer[1] = AppliedAll(question.text, EditsOf(question))
    BY <2>1, <2>2 DEF AnswerIs
  <2> QED BY <2>3, EditsReplace
<1> QED BY <1>1, Answers, PTL

-----------------------------------------------------------------------------
(* The symbol at a position and its container: the least key.               *)

\* Among finitely many numbers there is one with the smallest value.
LEMMA SmallestValue ==
  ASSUME NEW L \in Nat, NEW S \in SUBSET (1 .. L), S # {}, NEW g \in [S -> Int]
  PROVE  \E x \in S : \A y \in S : g[x] <= g[y]
<1> DEFINE T == {k \in 0 .. L : S \cap 1 .. k # {} =>
                                  \E x \in S \cap 1 .. k : \A y \in S \cap 1 .. k : g[x] <= g[y]}
<1>1. 0 \in T
  OBVIOUS
<1>2. ASSUME NEW k \in 0 .. L - 1, k \in T PROVE k + 1 \in T
  <2>1. k + 1 \in 0 .. L /\ \A y \in S : y \in 1 .. k + 1 <=> y \in 1 .. k \/ y = k + 1
    OBVIOUS
  <2>2. CASE k + 1 \notin S
    BY <1>2, <2>1, <2>2
  <2>3. CASE k + 1 \in S /\ S \cap 1 .. k = {}
    BY <2>1, <2>3
  <2>4. CASE k + 1 \in S /\ S \cap 1 .. k # {}
    <3>1. PICK x \in S \cap 1 .. k : \A y \in S \cap 1 .. k : g[x] <= g[y]
      BY <1>2, <2>4
    <3>2. CASE g[x] <= g[k + 1]
      BY <2>1, <3>1, <3>2
    <3>3. CASE g[k + 1] < g[x]
      <4>1. \A y \in S \cap 1 .. k + 1 : g[k + 1] <= g[y]
        BY <2>1, <2>4, <3>1, <3>3
      <4> QED BY <2>1, <2>4, <4>1
    <3> QED BY <2>4, <3>2, <3>3
  <2> QED BY <2>2, <2>3, <2>4
<1>3. L \in T
  <2>1. \A k \in 0 .. L : k \in T
    <3> HIDE DEF T
    <3> QED BY <1>1, <1>2, Induct
  <2> QED BY <2>1
<1>4. S \cap 1 .. L = S
  OBVIOUS
<1> QED BY <1>3, <1>4

\* The first n parts of two keys are the same; the first key goes ahead within n parts.
SameUpto(x, y, n) == \A m \in 1 .. n : x[m] = y[m]
LowUpto(x, y, n) == SameUpto(x, y, n) \/ \E m \in 1 .. n : x[m] < y[m] /\ SameUpto(x, y, m - 1)

\* Of finitely many keys one is the lowest.
LEMMA Lowest ==
  ASSUME NEW L \in Nat, NEW S \in SUBSET (1 .. L), S # {}, NEW N \in Nat, NEW f \in [S -> [1 .. N -> Int]]
  PROVE  \E i \in S : \A j \in S : LowUpto(f[i], f[j], N)
<1> DEFINE T == {n \in 0 .. N : \E i \in S : \A j \in S : LowUpto(f[i], f[j], n)}
<1>1. 0 \in T
  <2>1. \A x, y : LowUpto(x, y, 0)
    BY DEF LowUpto, SameUpto
  <2>2. PICK i \in S : TRUE
    OBVIOUS
  <2>3. \A j \in S : LowUpto(f[i], f[j], 0)
    BY <2>1
  <2>4. 0 \in 0 .. N
    OBVIOUS
  <2> QED BY <2>2, <2>3, <2>4
<1>2. ASSUME NEW n \in 0 .. N - 1, n \in T PROVE n + 1 \in T
  <2>1. PICK i \in S : \A j \in S : LowUpto(f[i], f[j], n)
    BY <1>2
  <2> DEFINE E == {j \in S : SameUpto(f[i], f[j], n)}
             g == [j \in E |-> f[j][n + 1]]
  <2>2. i \in E /\ E \in SUBSET (1 .. L)
    BY DEF SameUpto
  <2>3. g \in [E -> Int]
    <3>1. n + 1 \in 1 .. N
      OBVIOUS
    <3>2. \A j \in E : f[j][n + 1] \in Int
      BY <3>1
    <3> HIDE DEF E
    <3> QED BY <3>2
  <2>4. PICK a \in E : \A y \in E : g[a] <= g[y]
    <3> HIDE DEF E, g
    <3> QED BY <2>2, <2>3, SmallestValue
  <2>5. ASSUME NEW j \in S PROVE LowUpto(f[a], f[j], n + 1)
    <3>1. SameUpto(f[i], f[a], n)
      BY <2>4
    <3>2. CASE j \in E
      <4>1. f[a][n + 1] <= f[j][n + 1] /\ f[a][n + 1] \in Int /\ f[j][n + 1] \in Int
        BY <2>4, <3>2
      <4>2. SameUpto(f[a], f[j], n)
        BY <3>1, <3>2 DEF SameUpto
      <4>3. CASE f[a][n + 1] = f[j][n + 1]
        <5>1. \A m \in 1 .. n + 1 : m \in 1 .. n \/ m = n + 1
          OBVIOUS
        <5> HIDE DEF E, g
        <5> QED BY <4>2, <4>3, <5>1 DEF LowUpto, SameUpto
      <4>4. CASE f[a][n + 1] < f[j][n + 1]
        <5>1. n + 1 \in 1 .. n + 1 /\ (n + 1) - 1 = n
          OBVIOUS
        <5> HIDE DEF E, g
        <5> QED BY <4>2, <4>4, <5>1 DEF LowUpto
      <4> QED BY <4>1, <4>3, <4>4
    <3>3. CASE j \notin E
      <4>1. PICK m \in 1 .. n : f[i][m] < f[j][m] /\ SameUpto(f[i], f[j], m - 1)
        BY <2>1, <3>3 DEF LowUpto
      <4>2. f[a][m] < f[j][m] /\ SameUpto(f[a], f[j], m - 1)
        BY <3>1, <4>1 DEF SameUpto
      <4> QED BY <4>2 DEF LowUpto
    <3> QED BY <3>2, <3>3
  <2>6. n + 1 \in 0 .. N /\ a \in S
    BY <2>4
  <2> QED BY <2>5, <2>6
<1>3. \A n \in 0 .. N : n \in T
  <2> HIDE DEF T
  <2> QED BY <1>1, <1>2, Induct
<1> QED BY <1>3

\* The least key is that of a candidate, and no candidate goes ahead of it.
LEMMA LeastIs ==
  ASSUME NEW L \in Nat, NEW S \in SUBSET (1 .. L), S # {}, NEW N \in Nat, NEW key \in [S -> [1 .. N -> Int]]
  PROVE  Least(key) \in S /\ \A j \in S : LowUpto(key[Least(key)], key[j], N)
<1> DEFINE full(i) == key[i] \o <<i>>
           f == [i \in S |-> full(i)]
<1>1. ASSUME NEW i \in S
      PROVE  /\ full(i) \in [1 .. N + 1 -> Int] /\ DOMAIN full(i) = 1 .. N + 1
             /\ \A m \in 1 .. N : full(i)[m] = key[i][m]
             /\ full(i)[N + 1] = i
  <2>1. key[i] \in Seq(Int) /\ Len(key[i]) = N /\ i \in Int
    OBVIOUS
  <2> DEFINE k == key[i]
  <2>2. /\ Len(k \o <<i>>) = Len(k) + 1 /\ DOMAIN (k \o <<i>>) = 1 .. Len(k) + 1
        /\ \A m \in 1 .. Len(k) : (k \o <<i>>)[m] = k[m]
        /\ (k \o <<i>>)[Len(k) + 1] = i
    <3> HIDE DEF k
    <3> QED BY <2>1, OneMore DEF k
  <2>3. k \o <<i>> \in Seq(Int)
    BY <2>1
  <2>4. full(i) \in [1 .. N + 1 -> Int]
    <3>1. full(i) \in Seq(Int) /\ Len(full(i)) = N + 1
      BY <2>1, <2>2, <2>3
    <3> HIDE DEF full
    <3> QED BY <3>1
  <2> QED BY <2>1, <2>2, <2>4
<1>2. f \in [S -> [1 .. N + 1 -> Int]]
  <2> HIDE DEF full
  <2> QED BY <1>1
<1>3. PICK i \in S : \A j \in S : LowUpto(f[i], f[j], N + 1)
  <2>1. N + 1 \in Nat
    OBVIOUS
  <2> HIDE DEF f
  <2> QED BY <1>2, <2>1, Lowest
<1>4. \A j \in S \ {i} : Less(full(i), full(j))
  <2> SUFFICES ASSUME NEW j \in S, j # i PROVE Less(full(i), full(j))
    OBVIOUS
  <2>1. LowUpto(full(i), full(j), N + 1)
    BY <1>3
  <2>2. full(i)[N + 1] # full(j)[N + 1]
    <3> HIDE DEF full
    <3> QED BY <1>1
  <2>3. DOMAIN full(i) = 1 .. N + 1
    BY <1>1
  <2>4. N + 1 \in 1 .. N + 1
    OBVIOUS
  <2>5. ~ SameUpto(full(i), full(j), N + 1)
    <3> HIDE DEF full
    <3> QED BY <2>2, <2>4 DEF SameUpto
  <2>6. PICK m \in 1 .. N + 1 : full(i)[m] < full(j)[m] /\ SameUpto(full(i), full(j), m - 1)
    <3> HIDE DEF full
    <3> QED BY <2>1, <2>5 DEF LowUpto
  <2> HIDE DEF full
  <2> QED BY <2>3, <2>6 DEF SameUpto, Less
<1>5. DOMAIN key = S
  OBVIOUS
<1> DEFINE l == Least(key)
<1>6. l \in S /\ \A j \in S \ {l} : Less(full(l), full(j))
  BY <1>4, <1>5 DEF Least
<1>7. ASSUME NEW j \in S PROVE LowUpto(key[l], key[j], N)
  <2>1. CASE j = l
    BY <2>1 DEF LowUpto, SameUpto
  <2>2. CASE j # l
    <3> HIDE DEF l, full
    <3>1. Less(full(l), full(j)) /\ DOMAIN full(l) = 1 .. N + 1
      BY <1>1, <1>6, <2>2
    <3>2. PICK m \in 1 .. N + 1 : full(l)[m] < full(j)[m] /\ \A o \in 1 .. m - 1 : full(l)[o] = full(j)[o]
      BY <3>1 DEF Less
    <3>3. CASE m = N + 1
      <4>1. \A o \in 1 .. N : key[l][o] = key[j][o]
        BY <1>1, <1>6, <3>2, <3>3
      <4> QED BY <4>1 DEF LowUpto, SameUpto
    <3>4. CASE m \in 1 .. N
      <4>1. key[l][m] < key[j][m] /\ \A o \in 1 .. m - 1 : key[l][o] = key[j][o]
        BY <1>1, <1>6, <3>2, <3>4
      <4> QED BY <3>4, <4>1 DEF LowUpto, SameUpto
    <3> QED BY <3>3, <3>4
  <2> QED BY <2>1, <2>2
<1> QED BY <1>6, <1>7

\* What a lower key says of its first parts.
LEMMA LowerParts ==
  ASSUME NEW N \in Nat, NEW x \in [1 .. N -> Int], NEW y \in [1 .. N -> Int], LowUpto(x, y, N)
  PROVE  /\ 1 <= N => x[1] <= y[1]
         /\ 2 <= N /\ x[1] = y[1] => x[2] <= y[2]
         /\ 3 <= N /\ x[1] = y[1] /\ x[2] = y[2] => x[3] <= y[3]
<1>1. CASE SameUpto(x, y, N)
  BY <1>1 DEF SameUpto
<1>2. CASE \E m \in 1 .. N : x[m] < y[m] /\ SameUpto(x, y, m - 1)
  BY <1>2 DEF SameUpto
<1> QED BY <1>1, <1>2 DEF LowUpto

-----------------------------------------------------------------------------
(* The symbol at a position and its container: what they find.              *)

\* Documents whose ranges do not end before they start; a client gets no others.
Place == Nat \X Nat
Span == {r \in [start : Place, end : Place] : ~ Before(r.end, r.start)}
Document(names, kinds) == Seq([name : names, kind : kinds, parent : Nat, range : Span, selection : Span])

\* The sort key is a sequence of five numbers.
LEMMA KeyIs ==
  ASSUME NEW symbol, symbol.range \in Span, NEW n \in Nat
  PROVE  LET key == SortKey(symbol, n)
             from == symbol.range.start
             to == symbol.range.end
         IN  /\ key \in [1 .. 5 -> Int]
             /\ key[1] = n /\ key[2] = to[1] - from[1]
             /\ key[3] = IF to[1] - from[1] = 0 THEN to[2] - from[2] ELSE to[2]
<1> DEFINE from == symbol.range.start
           to == symbol.range.end
<1>1. from \in Place /\ to \in Place
  BY DEF Span
<1>2. /\ SortKey(symbol, n)
           = <<n, to[1] - from[1], IF to[1] - from[1] = 0 THEN to[2] - from[2] ELSE to[2], from[1], from[2]>>
  BY DEF SortKey, Line, Column
<1>3. from[1] \in Nat /\ from[2] \in Nat /\ to[1] \in Nat /\ to[2] \in Nat
  BY <1>1 DEF Place
<1> HIDE DEF from, to
<1>4. \A a, b, c, d, e \in Int : /\ <<a, b, c, d, e>> \in [1 .. 5 -> Int]
                                /\ <<a, b, c, d, e>>[1] = a /\ <<a, b, c, d, e>>[2] = b
                                /\ <<a, b, c, d, e>>[3] = c
  OBVIOUS
<1>5. (IF to[1] - from[1] = 0 THEN to[2] - from[2] ELSE to[2]) \in Int
  BY <1>3
<1>6. to[1] - from[1] \in Int
  BY <1>3
<1>7. n \in Int
  OBVIOUS
<1> DEFINE key == SortKey(symbol, n)
<1>8. /\ key \in [1 .. 5 -> Int]
      /\ key[1] = n /\ key[2] = to[1] - from[1]
      /\ key[3] = IF to[1] - from[1] = 0 THEN to[2] - from[2] ELSE to[2]
  <2> DEFINE c == IF to[1] - from[1] = 0 THEN to[2] - from[2] ELSE to[2]
             a == to[1] - from[1]
  <2>1. key = <<n, a, c, from[1], from[2]>> /\ a \in Int /\ c \in Int
        /\ from[1] \in Int /\ from[2] \in Int
    BY <1>2, <1>3, <1>5, <1>6 DEF from, to
  <2>2. key \in [1 .. 5 -> Int] /\ key[1] = n /\ key[2] = a /\ key[3] = c
    <3> HIDE DEF key, a, c
    <3> QED BY <1>4, <1>7, <2>1
  <2> HIDE DEF key
  <2> QED BY <2>2
<1> HIDE DEF key
<1> QED BY <1>8 DEF from, to, key

\* The order of matches: a symbol that lies clearly inside another goes ahead of it.
LEMMA InsideGoesAhead ==
  ASSUME NEW inner \in Span, NEW outer \in Span, ClearlyInside(inner, outer)
  PROVE  LET lines(r) == r.end[1] - r.start[1]
             columns(r) == IF lines(r) = 0 THEN r.end[2] - r.start[2] ELSE r.end[2]
         IN  \/ lines(inner) < lines(outer)
             \/ lines(inner) = lines(outer) /\ columns(inner) < columns(outer)
<1>1. /\ inner.start \in Place /\ inner.end \in Place /\ outer.start \in Place /\ outer.end \in Place
      /\ ~ Before(inner.end, inner.start) /\ ~ Before(outer.end, outer.start)
  BY DEF Span
<1>2. inner.start # outer.start \/ inner.end # outer.end
  <2>1. inner = [start |-> inner.start, end |-> inner.end] /\ outer = [start |-> outer.start, end |-> outer.end]
    BY DEF Span
  <2>2. inner # outer
    BY DEF ClearlyInside
  <2> QED BY <2>1, <2>2
<1>3. /\ ~ Before(inner.start, outer.start) /\ ~ Before(outer.end, inner.end)
      /\ ~ (/\ inner.end[1] - inner.start[1] = outer.end[1] - outer.start[1]
            /\ inner.end[1] - inner.start[1] > 0 /\ inner.end = outer.end)
  BY DEF ClearlyInside, Line
<1>4. \A q \in Place : q[1] \in Nat /\ q[2] \in Nat /\ q = <<q[1], q[2]>>
  BY DEF Place
<1>5. /\ inner.start[1] = outer.start[1] /\ inner.start[2] = outer.start[2] => inner.start = outer.start
      /\ inner.end[1] = outer.end[1] /\ inner.end[2] = outer.end[2] => inner.end = outer.end
  BY <1>1, <1>4
<1> QED BY <1>1, <1>2, <1>3, <1>4, <1>5 DEF Before

\* A place on the line of a position, at its column or after it.
OnLine(q, p) == Line(q) = Line(p) /\ Column(p) <= Column(q)

\* What the priorities stand for.
LEMMA PriorityIs ==
  ASSUME NEW symbol, NEW p
  PROVE  LET n == Priority(symbol, p)
             matches(range) == MatchesRange(range, p)
         IN  /\ n \in {0, 1, 4, 5, 6}
             /\ n = 0 <=> matches(symbol.selection)
             /\ n = 1 <=> ~ matches(symbol.selection) /\ matches(symbol.range)
             /\ n # 6 <=> \/ matches(symbol.selection) \/ matches(symbol.range)
                          \/ OnLine(symbol.selection.start, p) \/ OnLine(symbol.range.start, p)
<1> DEFINE s == MatchesRange(symbol.selection, p)
           t == MatchesRange(symbol.range, p)
           u == OnLine(symbol.selection.start, p)
           v == OnLine(symbol.range.start, p)
<1>1. /\ s => Priority(symbol, p) = 0
      /\ ~ s /\ t => Priority(symbol, p) = 1
      /\ ~ s /\ ~ t /\ u => Priority(symbol, p) = 4
      /\ ~ s /\ ~ t /\ ~ u /\ v => Priority(symbol, p) = 5
      /\ ~ s /\ ~ t /\ ~ u /\ ~ v => Priority(symbol, p) = 6
  BY DEF Priority, OnLine
<1> HIDE DEF s, t, u, v
<1>2. LET n == Priority(symbol, p)
      IN  /\ n \in {0, 1, 4, 5, 6}
          /\ n = 0 <=> s
          /\ n = 1 <=> ~ s /\ t
          /\ n # 6 <=> s \/ t \/ u \/ v
  BY <1>1
<1> QED BY <1>2 DEF s, t, u, v

\* _request_symbol_at_location, for any document: the symbol that it finds at a position is
\* one whose name, or whose range where no name does, holds the position, and none of these
\* lies clearly inside it; where there are none, a symbol that begins further on in the line.
THEOREM InnermostIsFound ==
  ASSUME NEW names, NEW kinds, NEW doc \in Document(names, kinds), NEW p \in Place
  PROVE  InnermostMatches(doc, p, SymbolAtLocation(doc, p))
<1> DEFINE n(i) == Priority(doc[i], p)
           S == {i \in DOMAIN doc : n(i) < 6}
           key == [i \in S |-> SortKey(doc[i], n(i))]
           found == SymbolAtLocation(doc, p)
           named == {k \in DOMAIN doc : MatchesRange(doc[k].selection, p)}
           around == {k \in DOMAIN doc : MatchesRange(doc[k].range, p)}
           near == {k \in DOMAIN doc : \E from \in {doc[k].selection.start, doc[k].range.start} :
                                         Line(from) = Line(p) /\ ~ Before(from, p)}
<1>1. Len(doc) \in Nat /\ DOMAIN doc = 1 .. Len(doc)
  BY DEF Document
<1>2. ASSUME NEW i \in DOMAIN doc
      PROVE  /\ doc[i].range \in Span /\ doc[i].selection \in Span
             /\ doc[i].selection.start \in Place /\ doc[i].range.start \in Place
  <2>1. doc[i] \in [name : names, kind : kinds, parent : Nat, range : Span, selection : Span]
    <3> DEFINE Symbols == [name : names, kind : kinds, parent : Nat, range : Span, selection : Span]
    <3>1. doc \in Seq(Symbols) /\ i \in 1 .. Len(doc)
      BY <1>1, <1>2 DEF Document
    <3> HIDE DEF Symbols
    <3>2. doc[i] \in Symbols
      BY <3>1
    <3> QED BY <3>2 DEF Symbols
  <2> QED BY <2>1 DEF Span
<1>3. ASSUME NEW i \in DOMAIN doc
      PROVE  /\ n(i) \in {0, 1, 4, 5, 6}
             /\ n(i) = 0 <=> i \in named
             /\ n(i) = 1 <=> i \notin named /\ i \in around
             /\ n(i) # 6 <=> i \in named \/ i \in around \/ i \in near
  <2>1. \A q \in Place : OnLine(q, p) <=> Line(q) = Line(p) /\ ~ Before(q, p)
    BY DEF OnLine, Before, Line, Column, Place
  <2>2. i \in near <=> OnLine(doc[i].selection.start, p) \/ OnLine(doc[i].range.start, p)
    BY <1>2, <2>1
  <2>3. /\ n(i) \in {0, 1, 4, 5, 6}
        /\ n(i) = 0 <=> MatchesRange(doc[i].selection, p)
        /\ n(i) = 1 <=> ~ MatchesRange(doc[i].selection, p) /\ MatchesRange(doc[i].range, p)
        /\ n(i) # 6 <=> \/ MatchesRange(doc[i].selection, p) \/ MatchesRange(doc[i].range, p)
                        \/ OnLine(doc[i].selection.start, p) \/ OnLine(doc[i].range.start, p)
    BY PriorityIs
  <2> HIDE DEF n, near
  <2> QED BY <2>2, <2>3
<1>4. S = named \cup around \cup near
  <2>1. \A i \in DOMAIN doc : i \in S <=> n(i) # 6
    <3> HIDE DEF n
    <3> QED BY <1>3
  <2>2. S \subseteq DOMAIN doc /\ named \cup around \cup near \subseteq DOMAIN doc
    OBVIOUS
  <2> HIDE DEF S, named, around, near, n
  <2> QED BY <1>3, <2>1, <2>2
<1>5. found = IF S = {} THEN NoSymbol ELSE Least(key)
  BY DEF SymbolAtLocation
<1>6. ASSUME S # {}
      PROVE  found \in S /\ \A k \in S : LowUpto(key[found], key[k], 5)
  <2>1. S \in SUBSET (1 .. Len(doc))
    BY <1>1
  <2>2. \A i \in S : SortKey(doc[i], n(i)) \in [1 .. 5 -> Int]
    <3> SUFFICES ASSUME NEW i \in S PROVE SortKey(doc[i], n(i)) \in [1 .. 5 -> Int]
      OBVIOUS
    <3>1. n(i) \in Nat /\ doc[i].range \in Span
      BY <1>2, <1>3
    <3> HIDE DEF n, S
    <3> QED BY <3>1, KeyIs
  <2>3. key \in [S -> [1 .. 5 -> Int]]
    <3> HIDE DEF S, n
    <3> QED BY <2>2
  <2> HIDE DEF S, key
  <2> QED BY <1>1, <1>5, <1>6, <2>1, <2>3, LeastIs
<1>7. ASSUME NEW k \in S, S # {}
      PROVE  /\ n(found) <= n(k)
             /\ n(found) = n(k) => ~ ClearlyInside(doc[k].range, doc[found].range)
  <2>1. found \in S /\ LowUpto(key[found], key[k], 5)
    BY <1>6, <1>7
  <2>2. /\ n(found) \in Nat /\ n(k) \in Nat
        /\ doc[found].range \in Span /\ doc[k].range \in Span
    <3>1. found \in DOMAIN doc /\ k \in DOMAIN doc
      BY <2>1
    <3> HIDE DEF n, found
    <3> QED BY <1>2, <1>3, <3>1
  <2>3. key[found] = SortKey(doc[found], n(found)) /\ key[k] = SortKey(doc[k], n(k))
    <3> HIDE DEF found, S, n
    <3> QED BY <2>1
  <2> DEFINE lines(r) == r.end[1] - r.start[1]
             columns(r) == IF lines(r) = 0 THEN r.end[2] - r.start[2] ELSE r.end[2]
  <2>4. /\ key[found] \in [1 .. 5 -> Int] /\ key[found][1] = n(found)
        /\ key[found][2] = lines(doc[found].range) /\ key[found][3] = columns(doc[found].range)
    <3> HIDE DEF found, n, key
    <3> QED BY <2>2, <2>3, KeyIs
  <2>5. /\ key[k] \in [1 .. 5 -> Int] /\ key[k][1] = n(k)
        /\ key[k][2] = lines(doc[k].range) /\ key[k][3] = columns(doc[k].range)
    <3> HIDE DEF found, n, key
    <3> QED BY <2>2, <2>3, KeyIs
  <2>6. /\ key[found][1] <= key[k][1]
        /\ key[found][1] = key[k][1] => key[found][2] <= key[k][2]
        /\ key[found][1] = key[k][1] /\ key[found][2] = key[k][2] => key[found][3] <= key[k][3]
    <3> DEFINE x == key[found]
               y == key[k]
    <3>1. x \in [1 .. 5 -> Int] /\ y \in [1 .. 5 -> Int] /\ LowUpto(x, y, 5)
      BY <2>1, <2>4, <2>5
    <3> HIDE DEF x, y
    <3>2. /\ 1 <= 5 => x[1] <= y[1]
          /\ 2 <= 5 /\ x[1] = y[1] => x[2] <= y[2]
          /\ 3 <= 5 /\ x[1] = y[1] /\ x[2] = y[2] => x[3] <= y[3]
      BY <3>1, LowerParts
    <3> QED BY <3>2 DEF x, y
  <2>7. ClearlyInside(doc[k].range, doc[found].range) =>
          \/ lines(doc[k].range) < lines(doc[found].range)
          \/ /\ lines(doc[k].range) = lines(doc[found].range)
             /\ columns(doc[k].range) < columns(doc[found].range)
    <3> HIDE DEF found
    <3> QED BY <2>2, InsideGoesAhead
  <2>8. key[found][1] \in Int /\ key[found][2] \in Int /\ key[found][3] \in Int
        /\ key[k][1] \in Int /\ key[k][2] \in Int /\ key[k][3] \in Int
    <3> HIDE DEF found, key, n, lines, columns
    <3> QED BY <2>4, <2>5
  <2> HIDE DEF found, key, n, lines, columns
  <2> QED BY <2>4, <2>5, <2>6, <2>7, <2>8
<1> DEFINE best == IF named # {} THEN named ELSE around
           innermost(i) == IF best # {} THEN /\ i \in best
                                             /\ \A k \in best : ~ ClearlyInside(doc[k].range, doc[i].range)
                           ELSE IF near = {} THEN i = NoSymbol ELSE i \in near
<1>0. InnermostMatches(doc, p, found) <=> innermost(found)
  <2> HIDE DEF found
  <2> QED BY Zenon DEF InnermostMatches
<1> SUFFICES innermost(found)
  <2> HIDE DEF found
  <2> QED BY <1>0 DEF found
<1>8. CASE best # {}
  <2>1. S # {} /\ best \subseteq S
    <3> HIDE DEF S, named, around, near
    <3> QED BY <1>4, <1>8
  <2>2. PICK b \in best : TRUE
    BY <1>8
  <2>3. found \in S /\ found \in DOMAIN doc
    BY <1>6, <2>1
  <2>4. \A k \in best : k \in S /\ k \in DOMAIN doc /\ n(k) = IF named # {} THEN 0 ELSE 1
    <3> HIDE DEF S, n
    <3> QED BY <1>3, <2>1
  <2>5. n(found) \in {0, 1, 4, 5, 6} /\ (n(found) = 0 <=> found \in named)
        /\ (n(found) = 1 <=> found \notin named /\ found \in around)
    <3> HIDE DEF n, named, around, found
    <3> QED BY <1>3, <2>3
  <2>6. n(found) <= n(b)
    <3> HIDE DEF n, found, S, best
    <3> QED BY <1>7, <2>1, <2>2, <2>4
  <2>7. found \in best /\ n(found) = IF named # {} THEN 0 ELSE 1
    <3> HIDE DEF n, named, around, found, S
    <3> QED BY <2>2, <2>4, <2>5, <2>6
  <2>8. \A k \in best : ~ ClearlyInside(doc[k].range, doc[found].range)
    <3> HIDE DEF n, named, around, found, S, best
    <3> QED BY <1>7, <2>1, <2>4, <2>7
  <2> HIDE DEF found, best, near
  <2> QED BY <1>8, <2>7, <2>8
<1>9. CASE best = {}
  <2>1. S = near
    <3> HIDE DEF S, named, around, near
    <3> QED BY <1>4, <1>9
  <2>2. IF near = {} THEN found = NoSymbol ELSE found \in near
    <3> HIDE DEF S, near, found
    <3> QED BY <1>5, <1>6, <2>1
  <2> HIDE DEF found, best, near
  <2> QED BY <1>9, <2>2
<1> QED BY <1>8, <1>9

\* request_containing_symbol, for any document: what it finds may contain symbols and contains
\* the position, and nothing that may and does begins on a later line.
THEOREM ContainerIsFound ==
  ASSUME NEW names, NEW kinds, NEW doc \in Document(names, kinds), NEW p \in Place, NEW strict \in BOOLEAN
  PROVE  LET holders == Holders(doc, p, strict)
             i == ContainingSymbol(doc, p, strict)
         IN  IF holders = {} THEN i = NoSymbol
             ELSE i \in holders /\ \A k \in holders : Line(doc[k].range.start) <= Line(doc[i].range.start)
<1> DEFINE candidate(i) == \/ doc[i].kind \in Containers /\ Line(doc[i].range.start) # Line(doc[i].range.end)
                           \/ doc[i].kind = "variable"
           S == {i \in DOMAIN doc : candidate(i) /\ IsPositionInRange(doc[i].range, p, strict)}
           order(i) == IF doc[i].kind = "variable" THEN Len(doc) + i ELSE i
           key == [i \in S |-> <<- Line(doc[i].range.start), order(i)>>]
           found == ContainingSymbol(doc, p, strict)
           holders == Holders(doc, p, strict)
<1>1. Len(doc) \in Nat /\ DOMAIN doc = 1 .. Len(doc)
  BY DEF Document
<1>2. ASSUME NEW i \in DOMAIN doc
      PROVE  doc[i].range.start \in Place /\ doc[i].range.end \in Place
  <2>1. doc[i] \in [name : names, kind : kinds, parent : Nat, range : Span, selection : Span]
    <3> DEFINE Symbols == [name : names, kind : kinds, parent : Nat, range : Span, selection : Span]
    <3>1. doc \in Seq(Symbols) /\ i \in 1 .. Len(doc)
      BY <1>1, <1>2 DEF Document
    <3> HIDE DEF Symbols
    <3>2. doc[i] \in Symbols
      BY <3>1
    <3> QED BY <3>2 DEF Symbols
  <2> QED BY <2>1 DEF Span
<1>3. S = holders
  <2>1. ASSUME NEW range, range.start \in Place
        PROVE  IsPositionInRange(range, p, strict) <=>
                 /\ Line(p) <= Line(range.end) /\ ~ Before(p, range.start)
                 /\ strict => Line(p) # Line(range.start)
    BY <2>1 DEF IsPositionInRange, Before, Line, Column, Place
  <2> QED BY <1>2, <2>1 DEF Holders
<1>4. found = IF S = {} THEN NoSymbol ELSE Least(key)
  BY DEF ContainingSymbol
<1>5. ASSUME S # {}
      PROVE  found \in S /\ \A k \in S : Line(doc[k].range.start) <= Line(doc[found].range.start)
  <2>1. S \in SUBSET (1 .. Len(doc))
    BY <1>1
  <2>2. ASSUME NEW i \in S
        PROVE  /\ Line(doc[i].range.start) \in Nat
               /\ key[i] = <<- Line(doc[i].range.start), order(i)>>
               /\ key[i] \in [1 .. 2 -> Int] /\ key[i][1] = - Line(doc[i].range.start)
    <3>1. Line(doc[i].range.start) \in Nat
      BY <1>2 DEF Line, Place
    <3>2. order(i) \in Int
      BY <1>1
    <3>3. key[i] = <<- Line(doc[i].range.start), order(i)>>
      <4> HIDE DEF S, order
      <4> QED OBVIOUS
    <3> HIDE DEF key, S, order
    <3> QED BY <3>1, <3>2, <3>3
  <2>3. key \in [S -> [1 .. 2 -> Int]]
    <3>1. key = [i \in S |-> key[i]]
      <4> HIDE DEF S, order
      <4> QED OBVIOUS
    <3> HIDE DEF key, S
    <3> QED BY <2>2, <3>1
  <2>4. found \in S /\ \A k \in S : LowUpto(key[found], key[k], 2)
    <3> HIDE DEF S, key
    <3> QED BY <1>1, <1>4, <1>5, <2>1, <2>3, LeastIs
  <2>5. ASSUME NEW k \in S PROVE key[found][1] <= key[k][1]
    <3> DEFINE x == key[found]
               y == key[k]
    <3>1. x \in [1 .. 2 -> Int] /\ y \in [1 .. 2 -> Int] /\ LowUpto(x, y, 2)
      <4> HIDE DEF S, key, found
      <4> QED BY <2>2, <2>4
    <3> HIDE DEF x, y
    <3>2. 1 <= 2 => x[1] <= y[1]
      BY <3>1, LowerParts
    <3> QED BY <3>2 DEF x, y
  <2> HIDE DEF S, key, found, order
  <2> QED BY <2>2, <2>4, <2>5
<1> DEFINE contains(i) ==
      IF holders = {} THEN i = NoSymbol
      ELSE i \in holders /\ \A k \in holders : Line(doc[k].range.start) <= Line(doc[i].range.start)
<1>6. contains(found)
  <2> HIDE DEF S, key, found, holders
  <2> QED BY <1>3, <1>4, <1>5
<1> QED BY <1>6
=============================================================================
