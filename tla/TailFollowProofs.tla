-------------------------- MODULE TailFollowProofs ---------------------------
(***************************************************************************)
(* Theorems about TailFollow, for any number of callers and files of any   *)
(* length: a byte is returned twice only if it raced some call, and of a   *)
(* file that only grows nothing is missed.                                 *)
(***************************************************************************)
EXTENDS TailFollow, TLAPS

-----------------------------------------------------------------------------
(* Type correctness.                                                         *)

LEMMA TypeInit == Init => TypeOK
<1> SUFFICES ASSUME Init PROVE TypeOK
  OBVIOUS
<1>1. NoStat \in Stat
  BY InodesAssumption DEF NoStat, Stat
<1>2. returned \in [Bytes -> 0 .. 2]
  BY DEF Init, Bytes
<1> QED BY <1>1, <1>2 DEF Init, TypeOK, Cursor

\* A byte that comes to the path.
LEMMA TypeNewByte ==
  ASSUME TypeOK, NewByte
  PROVE  /\ written' = written + 1 /\ Bytes' = Bytes \cup {written + 1}
         /\ returned' \in [Bytes' -> 0 .. 2] /\ raced' \subseteq Bytes'
         /\ returned'[written + 1] = 0
         /\ \A b \in Bytes : returned'[b] = returned[b]
<1> USE DEF TypeOK, Bytes
<1>1. written' = written + 1 /\ Bytes' = Bytes \cup {written + 1}
  BY DEF NewByte
<1>2. raced' \subseteq Bytes'
  BY <1>1 DEF NewByte
<1>3. returned' = [b \in 1 .. written + 1 |-> IF b \in 1 .. written THEN returned[b] ELSE 0]
  BY DEF NewByte
<1> QED BY <1>1, <1>2, <1>3

LEMMA TypeStep == TypeOK /\ [Next]_vars => TypeOK'
<1> SUFFICES ASSUME TypeOK, [Next]_vars PROVE TypeOK'
  OBVIOUS
<1> USE DEF TypeOK
<1>0. NoStat \in Stat
  BY InodesAssumption DEF NoStat, Stat
<1>1. ASSUME NEW c \in Callers, StatFile(c) PROVE TypeOK'
  <2>1. [inode |-> inode, size |-> Len(content)] \in Stat
    BY DEF Stat
  <2> QED BY <1>1, <2>1 DEF StatFile, fileVars, Bytes
<1>2. ASSUME NEW c \in Callers, PlaceCursor(c) PROVE TypeOK'
  <2>1. CursorAt(c) \in Cursor /\ st[c].size \in Nat
    BY DEF CursorAt, Cursor, Stat
  <2> QED BY <1>0, <1>2, <2>1 DEF PlaceCursor, Return, fileVars, Bytes
<1>3. ASSUME NEW c \in Callers, ReadNew(c) PROVE TypeOK'
  <2>1. NextCursor(c) \in Cursor
    BY DEF NextCursor, CursorAt, Cursor, Stat
  <2>2. cursor' \in Cursor
    BY <1>3, <2>1 DEF ReadNew
  <2>3. returned' \in [Bytes -> 0 .. 2]
    BY <1>3 DEF ReadNew
  <2> QED BY <1>0, <1>3, <2>2, <2>3 DEF ReadNew, Return, fileVars, Bytes
<1>4. CASE AppendByte
  <2>1. NewByte /\ content' = Append(content, written + 1)
    BY <1>4 DEF AppendByte
  <2>2. content' \in Seq(Nat) /\ \A p \in 1 .. Len(content') : content'[p] \in Bytes'
    BY <2>1, TypeNewByte
  <2>3. written' \in Nat /\ returned' \in [Bytes' -> 0 .. 2] /\ raced' \subseteq Bytes'
    BY <2>1, TypeNewByte
  <2> QED BY <1>4, <2>2, <2>3 DEF AppendByte
<1>5. CASE Truncate
  <2>1. PICK size \in 0 .. Len(content) - 1 : content' = SubSeq(content, 1, size)
    BY <1>5 DEF Truncate
  <2>2. content' \in Seq(Nat) /\ \A p \in 1 .. Len(content') : content'[p] \in Bytes
    BY <2>1
  <2> QED BY <1>5, <2>2 DEF Truncate, Bytes
<1>6. CASE Remove
  <2>1. content' \in Seq(Nat) /\ Len(content') = 0
    BY <1>6 DEF Remove
  <2>2. \A p \in 1 .. Len(content') : content'[p] \in Bytes'
    BY <2>1
  <2> QED BY <1>6, <2>1, <2>2 DEF Remove, Bytes
<1>7. CASE Create
  BY <1>7 DEF Create, Bytes
<1>8. CASE UNCHANGED vars
  BY <1>8 DEF vars, fileVars, Bytes
<1> QED BY <1>1, <1>2, <1>3, <1>4, <1>5, <1>6, <1>7, <1>8 DEF Next

\* Every variable keeps its type.
THEOREM TypeCorrect == Spec => []TypeOK
  BY TypeInit, TypeStep, PTL DEF Spec

-----------------------------------------------------------------------------
(* Repeats.  Whatever stands behind the size a call has seen came after its     *)
(* stat, so a cursor set to that size passes over raced bytes only.          *)

BehindStatIsRaced ==
  \A c \in Callers :
    pc[c] = "statted" => \A p \in st[c].size + 1 .. Len(content) : content[p] \in raced

ReturnedIsPassed ==
  \A p \in 1 .. Len(content) :
    (returned[content[p]] > 0 /\ content[p] \notin raced) => cursor.set /\ p <= cursor.offset

RepeatsInv == BehindStatIsRaced /\ ReturnedIsPassed /\ RepeatsAreRaced

LEMMA RepeatsInit == Init => RepeatsInv
<1> SUFFICES ASSUME Init PROVE RepeatsInv
  OBVIOUS
<1>1. Len(content) = 0 /\ Bytes = {}
  BY DEF Init, Bytes
<1> QED BY <1>1 DEF Init, RepeatsInv, BehindStatIsRaced, ReturnedIsPassed, RepeatsAreRaced

\* The file is the same and a call returns, its cursor set to the size it saw.
LEMMA RepeatsPlaced ==
  ASSUME TypeOK, RepeatsInv, NEW c \in Callers, pc[c] = "statted",
         cursor' = CursorAt(c), Return(c), UNCHANGED <<fileVars, raced>>
  PROVE  BehindStatIsRaced' /\ ReturnedIsPassed'
<1>1. /\ cursor'.set /\ cursor'.offset = st[c].size
      /\ content' = content /\ raced' = raced
  BY DEF CursorAt, fileVars
<1>2. st[c].size \in Nat
  BY DEF TypeOK, Stat
<1>3. \A p \in 1 .. Len(content) : content[p] \in raced \/ p <= st[c].size
  BY <1>2 DEF RepeatsInv, BehindStatIsRaced
<1>4. ReturnedIsPassed'
  BY <1>1, <1>3 DEF ReturnedIsPassed
<1>5. BehindStatIsRaced'
  BY <1>1 DEF RepeatsInv, BehindStatIsRaced, Return, TypeOK
<1> QED BY <1>4, <1>5

LEMMA RepeatsStep == TypeOK /\ RepeatsInv /\ [Next]_vars => RepeatsInv'
<1> SUFFICES ASSUME TypeOK, RepeatsInv, [Next]_vars PROVE RepeatsInv'
  OBVIOUS
<1> USE DEF TypeOK
<1>1. ASSUME NEW c \in Callers, StatFile(c) PROVE RepeatsInv'
  <2>1. /\ UNCHANGED <<content, cursor, returned, raced, written>>
        /\ pc' = [pc EXCEPT ![c] = "statted"]
        /\ st' = [st EXCEPT ![c] = [inode |-> inode, size |-> Len(content)]]
    BY <1>1 DEF StatFile, fileVars
  <2>2. BehindStatIsRaced'
    BY <2>1 DEF RepeatsInv, BehindStatIsRaced
  <2> QED BY <2>1, <2>2 DEF RepeatsInv, ReturnedIsPassed, RepeatsAreRaced, Bytes
<1>2. ASSUME NEW c \in Callers, PlaceCursor(c) PROVE RepeatsInv'
  <2>1. /\ pc[c] = "statted" /\ cursor' = CursorAt(c) /\ Return(c)
        /\ UNCHANGED <<fileVars, raced, returned>>
    BY <1>2 DEF PlaceCursor
  <2>2. BehindStatIsRaced' /\ ReturnedIsPassed'
    BY <2>1, RepeatsPlaced
  <2> QED BY <2>1, <2>2 DEF RepeatsInv, RepeatsAreRaced, Bytes, fileVars
<1>3. ASSUME NEW c \in Callers, ReadNew(c) PROVE RepeatsInv'
  <2>1. pc[c] = "statted" /\ Return(c) /\ UNCHANGED <<fileVars, raced>>
    BY <1>3 DEF ReadNew
  <2>2. CASE exists
    <3>1. /\ cursor' = CursorAt(c)
          /\ returned' = [b \in Bytes |->
               IF b \in NewBytes /\ returned[b] < 2 THEN returned[b] + 1 ELSE returned[b]]
      BY <1>3, <2>2 DEF ReadNew, NextCursor
    <3>2. BehindStatIsRaced' /\ ReturnedIsPassed'
      BY <2>1, <3>1, RepeatsPlaced
    <3>3. ASSUME NEW b \in Bytes, returned'[b] = 2 PROVE b \in raced
      <4>1. CASE returned[b] = 2
        BY <4>1 DEF RepeatsInv, RepeatsAreRaced
      <4>2. CASE returned[b] # 2
        <5>1. b \in NewBytes /\ returned[b] = 1
          BY <3>1, <3>3, <4>2
        <5>2. PICK p \in cursor.offset + 1 .. Len(content) : b = content[p]
          BY <5>1 DEF NewBytes
        <5>3. p \in 1 .. Len(content) /\ ~(p <= cursor.offset)
          BY <5>2 DEF Cursor
        <5> QED BY <5>1, <5>2, <5>3 DEF RepeatsInv, ReturnedIsPassed
      <4> QED BY <4>1, <4>2
    <3> QED BY <2>1, <3>2, <3>3 DEF RepeatsInv, RepeatsAreRaced, Bytes, fileVars
  <2>3. CASE ~exists
    <3>1. UNCHANGED <<returned, cursor, content, raced, written>>
      BY <1>3, <2>3 DEF ReadNew, fileVars
    <3>2. BehindStatIsRaced'
      BY <2>1, <3>1 DEF RepeatsInv, BehindStatIsRaced, Return
    <3> QED BY <3>1, <3>2 DEF RepeatsInv, ReturnedIsPassed, RepeatsAreRaced, Bytes
  <2> QED BY <2>2, <2>3
<1>4. CASE AppendByte
  <2>1. /\ NewByte /\ content' = Append(content, written + 1)
        /\ UNCHANGED <<cursor, pc, st>>
    BY <1>4 DEF AppendByte
  <2>2. /\ Bytes' = Bytes \cup {written + 1} /\ returned'[written + 1] = 0
        /\ \A b \in Bytes : returned'[b] = returned[b]
    BY <2>1, TypeNewByte
  <2>3. /\ Len(content') = Len(content) + 1 /\ content'[Len(content) + 1] = written + 1
        /\ \A p \in 1 .. Len(content) : content'[p] = content[p]
    BY <2>1
  <2>4. raced \subseteq raced' /\ (InFlight => written + 1 \in raced') /\ raced' \ raced \subseteq {written + 1}
    BY <2>1 DEF NewByte
  <2>5. BehindStatIsRaced'
    BY <2>1, <2>3, <2>4 DEF RepeatsInv, BehindStatIsRaced, InFlight, Stat
  <2>6. ReturnedIsPassed'
    BY <2>1, <2>2, <2>3, <2>4 DEF RepeatsInv, ReturnedIsPassed
  <2>7. RepeatsAreRaced'
    BY <2>2, <2>4 DEF RepeatsInv, RepeatsAreRaced
  <2> QED BY <2>5, <2>6, <2>7 DEF RepeatsInv
<1>5. CASE Truncate
  <2>1. PICK size \in 0 .. Len(content) - 1 : content' = SubSeq(content, 1, size)
    BY <1>5 DEF Truncate
  <2>2. /\ Len(content') = size /\ \A p \in 1 .. size : content'[p] = content[p]
        /\ \A p \in 1 .. size : p \in 1 .. Len(content)
    BY <2>1
  <2>3. UNCHANGED <<cursor, pc, st, returned, raced, written>>
    BY <1>5 DEF Truncate
  <2>4. \A c \in Callers : \A p \in st[c].size + 1 .. size :
          p \in 1 .. size /\ p \in st[c].size + 1 .. Len(content)
    BY <2>1 DEF Stat
  <2>5. BehindStatIsRaced'
    BY <2>2, <2>3, <2>4, Zenon DEF RepeatsInv, BehindStatIsRaced
  <2>6. ReturnedIsPassed'
    BY <2>2, <2>3, Zenon DEF RepeatsInv, ReturnedIsPassed
  <2> QED BY <2>3, <2>5, <2>6 DEF RepeatsInv, RepeatsAreRaced, Bytes
<1>6. CASE Remove
  <2>1. Len(content') = 0 /\ UNCHANGED <<cursor, pc, st, returned, raced, written>>
    BY <1>6 DEF Remove
  <2>2. \A c \in Callers : st[c].size \in Nat
    BY DEF Stat
  <2>3. BehindStatIsRaced'
    <3>1. \A c \in Callers : st'[c].size + 1 .. Len(content') = {}
      BY <2>1, <2>2
    <3> QED BY <3>1, Zenon DEF BehindStatIsRaced
  <2>4. ReturnedIsPassed'
    BY <2>1 DEF ReturnedIsPassed
  <2> QED BY <2>1, <2>3, <2>4 DEF RepeatsInv, RepeatsAreRaced, Bytes
<1>7. CASE Create \/ UNCHANGED vars
  <2>1. UNCHANGED <<content, cursor, pc, st, returned, raced, written>>
    BY <1>7 DEF Create, vars, fileVars
  <2> QED BY <2>1 DEF RepeatsInv, BehindStatIsRaced, ReturnedIsPassed, RepeatsAreRaced, Bytes
<1> QED BY <1>1, <1>2, <1>3, <1>4, <1>5, <1>6, <1>7 DEF Next

\* However calls interleave, and however the file is truncated, removed and created
\* again, a byte that raced no call is returned at most once.
THEOREM RepeatsNeedARace == Spec => []RepeatsAreRaced
<1>1. RepeatsInv => RepeatsAreRaced
  BY DEF RepeatsInv
<1> QED BY <1>1, RepeatsInit, RepeatsStep, TypeCorrect, PTL DEF Spec

-----------------------------------------------------------------------------
(* A file that only grows: neither truncated nor removed, one inode.          *)

\* Until it is disturbed, sizes seen and the cursor stay inside the file, which is
\* always the same one.
SoundCursor ==
  /\ exists
  /\ \A c \in Callers :
       pc[c] = "statted" => st[c].inode = inode /\ st[c].size <= Len(content)
  /\ cursor.set => cursor.offset <= Len(content)

GrowingInv == onlyGrew => SoundCursor /\ NothingMissed

LEMMA GrowingInit == Init => GrowingInv
  BY DEF Init, GrowingInv, SoundCursor, NothingMissed

LEMMA GrowingStep == TypeOK /\ GrowingInv /\ [Next]_vars => GrowingInv'
<1> SUFFICES ASSUME TypeOK, GrowingInv, [Next]_vars, onlyGrew'
             PROVE  (SoundCursor /\ NothingMissed)'
  BY DEF GrowingInv
<1>0. onlyGrew /\ SoundCursor /\ NothingMissed
  BY DEF GrowingInv, Next, vars, fileVars, StatFile, PlaceCursor, ReadNew, AppendByte,
         Truncate, Remove, Create
<1> USE <1>0 DEF TypeOK, SoundCursor
<1>1. ASSUME NEW c \in Callers, StatFile(c) PROVE (SoundCursor /\ NothingMissed)'
  BY <1>1 DEF StatFile, fileVars, NothingMissed
<1>2. ASSUME NEW c \in Callers, PlaceCursor(c) PROVE (SoundCursor /\ NothingMissed)'
  <2>1. /\ pc[c] = "statted" /\ StartsOver(c) /\ cursor' = CursorAt(c) /\ Return(c)
        /\ UNCHANGED <<exists, inode, content, returned>>
        /\ base' = IF (reset[c] \/ ~cursor.set \/ cursor.inode # st[c].inode)
                       /\ st[c].size > base THEN st[c].size ELSE base
    BY <1>2 DEF PlaceCursor, fileVars
  <2>2. st[c].size \in Nat /\ cursor.offset \in Nat /\ base \in Nat /\ base' \in Nat /\ base <= base'
    BY <2>1 DEF Stat, Cursor
  <2>3. cursor'.set /\ cursor'.offset = st[c].size
    BY <2>1 DEF CursorAt
  <2>4. CASE reset[c] \/ ~cursor.set \/ cursor.inode # st[c].inode
    <3>1. st[c].size <= base'
      BY <2>1, <2>2, <2>4
    <3>2. NothingMissed'
      BY <2>2, <2>3, <3>1 DEF NothingMissed
    <3> QED BY <2>1, <2>3, <3>2 DEF Return
  <2>5. CASE ~(reset[c] \/ ~cursor.set \/ cursor.inode # st[c].inode)
    <3>1. cursor.set /\ st[c].size < cursor.offset /\ base' = base
      BY <2>1, <2>5 DEF StartsOver
    <3>2. NothingMissed'
      BY <2>1, <2>2, <2>3, <3>1 DEF NothingMissed
    <3> QED BY <2>1, <2>3, <3>2 DEF Return
  <2> QED BY <2>4, <2>5
<1>3. ASSUME NEW c \in Callers, ReadNew(c) PROVE (SoundCursor /\ NothingMissed)'
  <2>1. /\ pc[c] = "statted" /\ ~StartsOver(c) /\ cursor' = CursorAt(c) /\ Return(c)
        /\ UNCHANGED <<exists, inode, content, written, base>>
        /\ returned' = [b \in Bytes |->
             IF b \in NewBytes /\ returned[b] < 2 THEN returned[b] + 1 ELSE returned[b]]
    BY <1>3 DEF ReadNew, NextCursor, fileVars
  <2>2. /\ cursor.set /\ cursor'.set /\ cursor'.offset = st[c].size
        /\ st[c].size \in Nat /\ cursor.offset \in Nat /\ st[c].size <= Len(content)
    BY <2>1 DEF CursorAt, StartsOver, Stat, Cursor
  <2>3. ASSUME NEW p \in 1 .. st[c].size PROVE p <= base \/ returned'[content[p]] > 0
    <3>1. p \in 1 .. Len(content) /\ content[p] \in Bytes
      BY <2>2
    <3> DEFINE b == content[p]
    <3>0. /\ returned[b] \in 0 .. 2
          /\ returned'[b] = IF b \in NewBytes /\ returned[b] < 2 THEN returned[b] + 1 ELSE returned[b]
      BY <2>1, <3>1
    <3> HIDE DEF b
    <3>2. CASE p <= cursor.offset
      <4>1. p <= base \/ returned[b] > 0
        BY <2>2, <3>2 DEF NothingMissed, b
      <4>2. returned[b] > 0 => returned'[b] > 0
        BY <3>0
      <4> QED BY <4>1, <4>2 DEF b
    <3>3. CASE ~(p <= cursor.offset)
      <4>1. b \in NewBytes
        BY <2>2, <3>1, <3>3 DEF NewBytes, b
      <4>2. returned'[b] > 0
        BY <3>0, <4>1
      <4> QED BY <4>2 DEF b
    <3> QED BY <3>2, <3>3
  <2>4. NothingMissed'
    BY <2>1, <2>2, <2>3 DEF NothingMissed
  <2> QED BY <2>1, <2>2, <2>4 DEF Return
<1>4. CASE AppendByte
  <2>1. /\ NewByte /\ content' = Append(content, written + 1)
        /\ UNCHANGED <<cursor, pc, st, inode, exists, base>>
    BY <1>4 DEF AppendByte
  <2>2. \A b \in Bytes : returned'[b] = returned[b]
    BY <2>1, TypeNewByte
  <2>3. Len(content') = Len(content) + 1 /\ \A p \in 1 .. Len(content) : content'[p] = content[p]
    BY <2>1
  <2>4. NothingMissed'
    <3>1. ASSUME cursor.set, NEW p \in 1 .. cursor.offset
          PROVE  p <= base \/ returned'[content'[p]] > 0
      <4>1. p \in 1 .. Len(content) /\ content[p] \in Bytes
        BY <3>1 DEF Cursor
      <4>2. returned'[content'[p]] = returned[content[p]]
        BY <2>2, <2>3, <4>1, Zenon
      <4> QED BY <3>1, <4>2 DEF NothingMissed
    <3> QED BY <2>1, <3>1 DEF NothingMissed
  <2> QED BY <2>1, <2>3, <2>4 DEF Stat, Cursor
<1>5. CASE Truncate \/ Remove \/ Create
  BY <1>5 DEF Truncate, Remove, Create
<1>6. CASE UNCHANGED vars
  BY <1>6 DEF vars, fileVars, NothingMissed
<1> QED BY <1>1, <1>2, <1>3, <1>4, <1>5, <1>6 DEF Next

\* As long as a file only grows, the calls together return every byte behind the place
\* where a caller asked to start.
THEOREM GrowingFileMissesNothing == Spec => []NothingMissed
<1>1. GrowingInv => NothingMissed
  BY DEF GrowingInv, NothingMissed
<1> QED BY <1>1, GrowingInit, GrowingStep, TypeCorrect, PTL DEF Spec
=============================================================================
