-------------------------- MODULE EditProtocolProofs --------------------------
(***************************************************************************)
(* Theorems about EditSessions: the order in which the server is told of a *)
(* file, the text that it is told, and the text that a call leaves in the  *)
(* file, for any threads, files, tools and bound.  They are about a file   *)
(* on which no call looked the buffer up in a gap, no two edits overlap    *)
(* and no opening fails; what can disturb such a file is narrowed down to  *)
(* the one thread that steps.                                              *)
(***************************************************************************)
EXTENDS EditSessionsProofs

-----------------------------------------------------------------------------
(* Who works on a file.                                                      *)

\* The call of c is in a with-block of file f.
Using(c, f) == Depth(c) # 0 /\ File(c) = f

Opens(c) == pc[c] = "did open"
Changes(c) == pc[c] \in {"did delete", "did insert"}

\* The steps from which the server is told of a change of an open document.
Tells(c) == \/ pc[c] \in {"delete", "insert"} \/ Changes(c)
            \/ pc[c] = "store" /\ ~Lazy(c)

OneEditor(f) == \A c, d \in InFlight(f) : Edits(c) /\ Edits(d) => c = d

\* What the server knows of f: one thread at most is about to open it, a buffer that is
\* opened there is or will be, and versions grow from the server's to the one a call is
\* about to send and to the buffer's.
InOrder(f) ==
  /\ ~server[f].broken
  /\ \A c \in Threads : Using(c, f) =>
       /\ Opens(c) => ~server[f].open /\ \A d \in Threads : Using(d, f) /\ Opens(d) => d = c
       /\ (buffers[Buffer(c)].opened /\ pc[c] # "del") =>
            server[f].open \/ \E d \in Threads : Using(d, f) /\ Opens(d)
       /\ Tells(c) => server[f].open
       /\ server[f].open => server[f].version <= buffers[Buffer(c)].version
       /\ Changes(c) => /\ server[f].version < job[c].note[1]
                        /\ job[c].note[1] <= buffers[Buffer(c)].version

ProtocolInv ==
  \A f \in Files : /\ "edit" \notin stirred[f] => OneEditor(f)
                   /\ stirred[f] \cap {"window", "edit", "unread"} = {} => InOrder(f)

-----------------------------------------------------------------------------
(* Interference, and one editor.                                             *)

\* A failed opening leaves the with-block, or never was in it.
LEMMA OpenFailsJob ==
  ASSUME Types, NEW c \in Threads, OpenFails(c)
  PROVE  \/ Lazy(c) /\ FailWith(c, "unread", job[c])
         \/ ~Lazy(c) /\ FailWith(c, "unread", [job[c] EXCEPT !.held = Front(job[c].held)])
<1>1. [job[c] EXCEPT !.held = Front(@)] = [job[c] EXCEPT !.held = Front(job[c].held)]
  BY Mine DEF JobType
<1>2. FailWith(c, "unread", IF Lazy(c) THEN job[c] ELSE [job[c] EXCEPT !.held = Front(@)])
  BY Zenon DEF OpenFails
<1> QED BY <1>1, <1>2

\* Between its beginning and its end a call does not change what it was asked for.
LEMMA AskedStays ==
  ASSUME Types, Local, NEW c \in Threads, Step(c), ~Begin(c), ~Return(c)
  PROVE  /\ job'[c].op = job[c].op /\ job'[c].file = job[c].file /\ job'[c].n = job[c].n
         /\ job'[c].before = job[c].before /\ pc[c] # "idle"
<1> DEFINE Same(j) == /\ j.op = job[c].op /\ j.file = job[c].file /\ j.n = job[c].n
                      /\ j.before = job[c].before
<1> DEFINE Patched(j) ==
      \/ \E x : j \in {[job[c] EXCEPT !.held = x], [job[c] EXCEPT !.note = x],
                       [job[c] EXCEPT !.next = x], [job[c] EXCEPT !.failed = x]}
      \/ \E x, y : j \in {[job[c] EXCEPT !.held = x, !.next = y],
                          [job[c] EXCEPT !.at = x, !.failed = y],
                          [job[c] EXCEPT !.at = x, !.plan = y],
                          [job[c] EXCEPT !.held = x, !.failed = y],
                          [job[c] EXCEPT !.fb = x, !.out = y]}
      \/ \E x, y, z : j \in {[job[c] EXCEPT !.held = x, !.failed = y, !.plan = z],
                             [job[c] EXCEPT !.fb = x, !.out = y, !.failed = z],
                             [job[c] EXCEPT !.fb = x, !.out = y, !.saved = z]}
<1>1. \A j : Patched(j) => Same(j)
  BY Mine, ZenonT(30) DEF JobType
<1>2. Same(job[c])
  OBVIOUS
<1>3. \A j : SetJob(c, j) => job'[c] = j
  BY DEF SetJob, Types
<1> HIDE DEF Same
<1>4. \A why : FailWith(c, why, job[c]) => Same(job'[c])
  BY <1>1, <1>3 DEF FailWith
<1>5. \A symbols : Located(c, symbols) => Same(job'[c])
  <2> SUFFICES ASSUME NEW symbols, Located(c, symbols) PROVE Same(job'[c])
    OBVIOUS
  <2>1. PICK why : SetJob(c, [job[c] EXCEPT !.at = symbols, !.failed = why])
    BY Zenon DEF Located
  <2> QED BY <1>1, <1>3, <2>1
<1>6. \A why : AfterDrop(c, [job[c] EXCEPT !.held = Front(@), !.failed = why]) => Same(job'[c])
  <2> SUFFICES ASSUME NEW why, AfterDrop(c, [job[c] EXCEPT !.held = Front(@), !.failed = why])
               PROVE  Same(job'[c])
    OBVIOUS
  <2> DEFINE j == [job[c] EXCEPT !.held = Front(@), !.failed = why]
  <2>1. SetJob(c, j) \/ SetJob(c, [j EXCEPT !.plan = Tail(@)])
    BY Zenon DEF AfterDrop
  <2>2. \E z : [j EXCEPT !.plan = Tail(@)] = [job[c] EXCEPT !.held = Front(@), !.failed = why, !.plan = z]
    BY Mine DEF JobType
  <2>3. Same(j) /\ Same([j EXCEPT !.plan = Tail(@)])
    BY <1>1, <2>2
  <2> QED BY <1>3, <2>1, <2>3
<1>7. Same(job'[c])
  <2>1. CASE Open(c)
    <3>1. \/ \E x, y : SetJob(c, [job[c] EXCEPT !.held = x, !.next = y])
          \/ FailWith(c, "assertion", job[c])
      BY <2>1, Zenon DEF Open
    <3> QED BY <1>1, <1>3, <1>4, <3>1
  <2>2. CASE EnsureOpen(c) \/ DidOpen(c) \/ Store(c) \/ DidChange(c)
    BY <1>1, <1>2, <1>3, <2>2 DEF EnsureOpen, DidOpen, Store, DidChange
  <2>3. CASE LookInCache(c)
    BY <1>1, <1>3, <1>5, <2>3 DEF LookInCache
  <2>4. CASE Ask(c)
    <3>1. CASE \E symbols \in [Files -> Nat] :
                 (job[c].op = "rename" => symbols[File(c)] = 0) /\ Located(c, symbols)
      BY <1>5, <3>1
    <3>2. CASE ~ \E symbols \in [Files -> Nat] :
                   (job[c].op = "rename" => symbols[File(c)] = 0) /\ Located(c, symbols)
      <4>1. PICK symbols \in [Files -> Nat], plan \in Seq({"ask", "edit"} \X Files) :
              /\ job[c].op = "rename" /\ pc'[c] = "drop"
              /\ job'[c] = [job[c] EXCEPT !.at = symbols, !.plan = plan]
              /\ plan # <<>> /\ Head(plan) = job[c].plan[1] /\ plan[1] = job[c].plan[1]
              /\ \A i \in 2 .. Len(plan) : plan[i][1] = "edit" /\ symbols[plan[i][2]] >= 1
        BY <2>4, <3>2, AskCases
      <4>2. Same([job[c] EXCEPT !.at = symbols, !.plan = plan])
        BY <1>1
      <4>3. job'[c] = [job[c] EXCEPT !.at = symbols, !.plan = plan]
        BY <4>1
      <4> QED BY <4>2, <4>3
    <3> QED BY <3>1, <3>2
  <2>5. CASE Drop(c)
    BY <1>2, <1>6, <2>5, DropLeaves
  <2>6. CASE Close(c) \/ Truncate(c) \/ Put(c)
    BY <1>2, <2>6 DEF Close, Truncate, Put
  <2>7. CASE Del(c)
    BY <1>6, <2>7, DelLeaves
  <2>8. CASE Validate(c)
    BY <1>2, <1>4, <2>8 DEF Validate
  <2>9. CASE Delete(c) \/ Insert(c)
    <3>1. File(c) \in Files
      BY <2>9, DepthBound DEF Delete, Insert
    <3> QED BY <1>1, <1>3, <1>4, <2>9, <3>1, ChangeCases DEF Delete, Insert
  <2>10. CASE Save(c) \/ Stamp(c)
    <3>1. \/ \E x, y : SetJob(c, [job[c] EXCEPT !.fb = x, !.out = y])
          \/ FailWith(c, "key", job[c])
          \/ \E x, y, z : SetJob(c, [job[c] EXCEPT !.fb = x, !.out = y, !.saved = z])
      BY <2>10, Zenon DEF Save, Stamp
    <3> QED BY <1>1, <1>3, <1>4, <3>1
  <2>11. CASE OpenFails(c)
    <3>1. \/ FailWith(c, "unread", job[c])
          \/ \E x : FailWith(c, "unread", [job[c] EXCEPT !.held = x])
      BY <2>11, OpenFailsJob
    <3>2. ASSUME NEW x, FailWith(c, "unread", [job[c] EXCEPT !.held = x]) PROVE Same(job'[c])
      <4>1. job'[c] = [job[c] EXCEPT !.held = x, !.failed = "unread"]
        BY <1>3, <3>2, Mine DEF FailWith, JobType
      <4> QED BY <1>1, <4>1
    <3> QED BY <1>4, <3>1, <3>2
  <2>12. CASE ReadFails(c)
    <3>1. job'[c] = [job[c] EXCEPT !.fb = 0, !.out = <<>>, !.failed = "unread"]
      BY <1>3, <2>12, Mine DEF ReadFails, FailWith, JobType
    <3> QED BY <1>1, <3>1
  <2> QED BY <2>1, <2>2, <2>3, <2>4, <2>5, <2>6, <2>7, <2>8, <2>9, <2>10, <2>11, <2>12 DEF Step
<1>8. pc[c] # "idle"
  BY DEF Step, Open, EnsureOpen, OpenFails, ReadFails, DidOpen, Store, Drop, Close, Del, LookInCache, Ask, Validate, Delete,
         Insert, DidChange, Save, Truncate, Put, Stamp
<1> QED BY <1>7, <1>8 DEF Same

\* An edit that begins while another is under way is noticed.
LEMMA OneEditorStep ==
  ASSUME Types, Local, Next, NEW f \in Files, "edit" \notin stirred[f] => OneEditor(f),
         "edit" \notin stirred'[f]
  PROVE  OneEditor(f)'
<1>1. CASE "edit" \in stirred[f]
  <2>1. InFlight(f)' = {}
    BY <1>1, KindStays, NobodyLeft
  <2> QED BY <2>1 DEF OneEditor
<1>2. CASE "edit" \notin stirred[f]
  <2>1. OneEditor(f)
    BY <1>2
  <2>2. ASSUME NEW g \in Files, Outside(g) PROVE OneEditor(f)'
    BY <2>1, <2>2 DEF Outside, WriteOutside, RemoveOutside, RestoreOutside, OneEditor, InFlight,
                      Touches, Edits
  <2>3. ASSUME NEW c \in Threads, Step(c) PROVE OneEditor(f)'
    <3>1. \A d \in Threads \ {c} :
            (d \in InFlight(f))' /\ Edits(d)' => d \in InFlight(f) /\ Edits(d)
      BY <2>3, OthersStay DEF InFlight, Touches, Edits
    <3>2. CASE Return(c)
      <4>1. pc'[c] = "idle"
        BY <3>2 DEF Return, Goto, Types, TypeOK
      <4>2. c \notin InFlight(f)'
        BY <4>1 DEF InFlight
      <4> QED BY <2>1, <3>1, <4>2 DEF OneEditor, InFlight
    <3>3. CASE Begin(c)
      <4>1. PICK op \in Ops, h \in Files :
              /\ job'[c] = [NoJob EXCEPT !.op = op, !.n = effort', !.file = h,
                                         !.plan = Plan(op, h), !.before = disk]
              /\ stirred' = [g \in Files |->
                   stirred[g] \cup
                     IF op \in {"replace", "before", "after", "rename"} /\ (g = h \/ op = "rename")
                       THEN Meets(g) ELSE {}]
        BY <3>3 DEF Begin, SetJob, Types
      <4>2. job'[c].op = op /\ job'[c].file = h
        BY <4>1 DEF NoJob
      <4>3. ASSUME c \in InFlight(f)', Edits(c)', NEW d \in InFlight(f), Edits(d) PROVE FALSE
        <5>1. op \in {"replace", "before", "after", "rename"} /\ (f = h \/ op = "rename")
          BY <4>2, <4>3 DEF InFlight, Touches, Edits
        <5>2. stirred'[f] = stirred[f] \cup Meets(f) /\ "edit" \in Meets(f)
          BY <4>1, <4>3, <5>1 DEF Meets
        <5> QED BY <5>2
      <4> QED BY <2>1, <3>1, <4>3 DEF OneEditor, InFlight
    <3>4. CASE ~Return(c) /\ ~Begin(c)
      <4>1. job'[c].op = job[c].op /\ job'[c].file = job[c].file /\ pc[c] # "idle"
        BY <2>3, <3>4, AskedStays
      <4>2. (c \in InFlight(f))' /\ Edits(c)' => c \in InFlight(f) /\ Edits(c)
        BY <4>1 DEF InFlight, Touches, Edits
      <4> QED BY <2>1, <3>1, <4>2 DEF OneEditor, InFlight
    <3> QED BY <3>2, <3>3, <3>4
  <2> QED BY <2>2, <2>3 DEF Next
<1> QED BY <1>1, <1>2

\* A call that is at the change of a document edits it.
LEMMA ChangesEdit ==
  ASSUME Types, Local, NEW c \in Threads, Changes(c) \/ pc[c] \in {"delete", "insert"}
  PROVE  Edits(c) /\ Depth(c) # 0 /\ c \in InFlight(File(c)) /\ Doing(c) = "edit"
<1>1. Placed(c) /\ Planned(c)
  BY DEF Local
<1>2. Depth(c) # 0 /\ Doing(c) = "edit"
  <2>1. CASE pc[c] \in {"delete", "did delete"}
    <3>1. Depth(c) = 2 /\ Twice(c)
      BY <1>1, <2>1 DEF Placed
    <3> QED BY <3>1 DEF Twice
  <2>2. CASE pc[c] \in {"insert", "did insert"}
    <3>1. (Depth(c) = 2 /\ Twice(c)) \/ (Depth(c) = 1 /\ Doing(c) = "edit")
      BY <1>1, <2>2 DEF Placed
    <3> QED BY <3>1 DEF Twice
  <2> QED BY <2>1, <2>2 DEF Changes
<1>3. job[c].plan # <<>> /\ 1 \in 1 .. Len(job[c].plan) /\ Phase(c) = job[c].plan[1]
  BY <1>2, DepthBound, Mine
<1>4. Edits(c)
  BY <1>1, <1>2, <1>3 DEF Planned, Doing
<1> QED BY <1>2, <1>4, InFlightOf

-----------------------------------------------------------------------------
(* The buffer in use.                                                        *)

\* While nobody looks the file up in a gap its users have one buffer.
LEMMA OneInUse ==
  ASSUME Types, Local, NEW f \in Files, Exclusive(f), NEW c \in Threads, Using(c, f)
  PROVE  /\ \A i \in 1 .. Depth(c) : job[c].held[i] = Buffer(c)
         /\ \A d \in Threads : Using(d, f) => Buffer(d) = Buffer(c)
         /\ ~Creating(c) => open_file_buffers[f] = Buffer(c)
<1>1. /\ Depth(c) \in 1 .. 2 /\ Depth(c) \in 1 .. Depth(c) /\ Buffer(c) = job[c].held[Depth(c)]
      /\ Buffer(c) \in BufferIds
  BY DepthBound DEF Using
<1>2. \A i \in 1 .. Depth(c) : job[c].held[i] = Buffer(c)
  BY <1>1 DEF Exclusive, Using
<1>3. ASSUME NEW d \in Threads, Using(d, f) PROVE Buffer(d) = Buffer(c)
  <2>1. Depth(d) \in 1 .. Depth(d) /\ Buffer(d) = job[d].held[Depth(d)]
    BY <1>3, DepthBound DEF Using
  <2>2. CASE d = c
    BY <2>2
  <2>3. CASE d # c
    <3>1. open_file_buffers[f] = Buffer(d) /\ open_file_buffers[f] = Buffer(c)
      BY <1>1, <1>3, <2>1, <2>3 DEF Exclusive, Using
    <3> QED BY <3>1
  <2> QED BY <2>2, <2>3
<1>4. ~Creating(c) => open_file_buffers[f] = Buffer(c)
  BY <1>1 DEF Exclusive, Using
<1> QED BY <1>2, <1>3, <1>4

\* So nobody uses the file when its buffer is being closed.
LEMMA AloneAtClose ==
  ASSUME Types, Local, Table, NEW f \in Files, Exclusive(f), NEW c \in Threads, Using(c, f),
         pc[c] \in {"close", "del"}
  PROVE  Depth(c) = 1 /\ \A d \in Threads : Using(d, f) => d = c
<1>1. ASSUME NEW d \in Threads, Using(d, f) PROVE d = c
  <2>1. Depth(d) \in 1 .. Depth(d) /\ job[d].held[Depth(d)] = Buffer(d)
    BY <1>1, DepthBound DEF Using
  <2>2. Buffer(d) = Buffer(c)
    BY <1>1, OneInUse
  <2> QED BY <2>1, <2>2 DEF Table, Closing
<1>2. Depth(c) = 1
  <2>1. Depth(c) \in 1 .. 2 /\ 1 \in 1 .. Depth(c)
    BY DepthBound DEF Using
  <2>2. job[c].held[1] = Buffer(c)
    BY <2>1, OneInUse
  <2> QED BY <2>1, <2>2 DEF Table, Closing
<1> QED BY <1>1, <1>2

-----------------------------------------------------------------------------
(* What a step changes in the buffers that are held.                         *)

\* A step opens a buffer, or counts up its version, or does neither.
SameDocument(b) == /\ buffers'[b].opened = buffers[b].opened
                   /\ buffers'[b].version = buffers[b].version

LEMMA PutKeeps ==
  ASSUME Types, NEW a \in BufferIds, NEW r, buffers' = [buffers EXCEPT ![a] = r],
         r.opened = buffers[a].opened, r.version = buffers[a].version, NEW b \in BufferIds
  PROVE  SameDocument(b)
BY DEF SameDocument, Types, TypeOK

LEMMA WrittenSame ==
  ASSUME Types, NEW f, NEW text, Written(f, text), NEW b \in BufferIds
  PROVE  SameDocument(b)
<1>1. buffers'[b] = buffers[b] \/ buffers'[b] = [buffers[b] EXCEPT !.newer = TRUE]
  BY DEF Written
<1> QED BY <1>1, FreshKeeps DEF BufferType, SameDocument

\* The steps that pass a buffer for open, and those that count up its version.
Marks(c) == EnsureOpen(c) \/ OpenFails(c)
Counts(c) == Delete(c) \/ Insert(c) \/ ReadFails(c)

LEMMA DocumentKept ==
  ASSUME Types, Local, Table, NEW c \in Threads, Step(c), NEW b \in BufferIds,
         NEW d \in Threads, NEW i \in 1 .. Depth(d), i \in 1 .. Depth(d)',
         job[d].held[i] = b, job'[d].held[i] = b
  PROVE  /\ buffers'[b].opened = buffers[b].opened \/ (Marks(c) /\ b = Buffer(c))
         /\ \/ buffers'[b].version = buffers[b].version
            \/ Counts(c) /\ b = open_file_buffers[File(c)]
<1>1. Placed(c)
  BY DEF Local
<1>2. CASE UNCHANGED buffers
  BY <1>2
<1>3. b \notin Garbage
  <2>1. b \in ToSet(job[d].held)
    BY DEF ToSet, Depth
  <2> QED BY <2>1 DEF Garbage
<1>4. CASE Open(c)
  <2> DEFINE a == open_file_buffers[File(c)]
             new == CHOOSE g \in Garbage : TRUE
  <2>1. pc[c] = "open" /\ File(c) \in Files
    BY <1>1, <1>4, Mine DEF Open, Placed
  <2>2. new \in Garbage
    BY <2>1, GarbageExists DEF Table
  <2>3. a \in BufferIds \cup {0}
    BY <2>1 DEF Types, TypeOK
  <2>4. \/ buffers' = [buffers EXCEPT ![new] = [NoBuffer EXCEPT !.file = File(c), !.refs = 1]]
        \/ a # 0 /\ buffers' = [buffers EXCEPT ![a].refs = @ + 1]
        \/ UNCHANGED buffers
    BY <1>4, Zenon DEF Open
  <2> HIDE DEF a, new
  <2>5. CASE buffers' = [buffers EXCEPT ![new] = [NoBuffer EXCEPT !.file = File(c), !.refs = 1]]
    BY <1>3, <2>2, <2>5 DEF Types, TypeOK
  <2>6. CASE a # 0 /\ buffers' = [buffers EXCEPT ![a].refs = @ + 1]
    <3>1. buffers' = [buffers EXCEPT ![a] = [buffers[a] EXCEPT !.refs = @ + 1]]
      BY <2>3, <2>6 DEF Types, TypeOK
    <3>2. LET r == [buffers[a] EXCEPT !.refs = @ + 1]
          IN  r.opened = buffers[a].opened /\ r.version = buffers[a].version
      BY <2>3, <2>6, FreshKeeps DEF BufferType
    <3> QED BY <2>3, <2>6, <3>1, <3>2, PutKeeps DEF SameDocument
  <2> QED BY <1>2, <2>4, <2>5, <2>6
<1>5. CASE EnsureOpen(c)
  <2>1. Buffer(c) \in BufferIds
    <3>1. Depth(c) # 0
      BY <1>5, DepthBound DEF EnsureOpen
    <3> QED BY <3>1, DepthBound
  <2>2. \/ UNCHANGED buffers
        \/ buffers' = [buffers EXCEPT ![Buffer(c)] = [Fresh(Buffer(c)) EXCEPT !.opened = TRUE]]
    BY <1>5 DEF EnsureOpen
  <2>3. [Fresh(Buffer(c)) EXCEPT !.opened = TRUE].version = buffers[Buffer(c)].version
    BY <2>1, FreshKeeps DEF BufferType
  <2>4. ASSUME buffers' = [buffers EXCEPT ![Buffer(c)] = [Fresh(Buffer(c)) EXCEPT !.opened = TRUE]]
        PROVE  /\ buffers'[b].version = buffers[b].version
               /\ b # Buffer(c) => buffers'[b].opened = buffers[b].opened
    <3>1. CASE b = Buffer(c)
      BY <2>3, <2>4, <3>1 DEF Types, TypeOK
    <3>2. CASE b # Buffer(c)
      BY <2>4, <3>2 DEF Types, TypeOK
    <3> QED BY <3>1, <3>2
  <2> QED BY <1>2, <1>5, <2>2, <2>4 DEF Marks
<1>6. CASE Drop(c)
  <2>1. Buffer(c) \in BufferIds
    BY <1>6, DepthBound DEF Drop
  <2>2. buffers' = [buffers EXCEPT ![Buffer(c)] = [buffers[Buffer(c)] EXCEPT !.refs = @ - 1]]
    BY <1>6, <2>1 DEF Drop, Types, TypeOK
  <2>3. LET r == [buffers[Buffer(c)] EXCEPT !.refs = @ - 1]
        IN  r.opened = buffers[Buffer(c)].opened /\ r.version = buffers[Buffer(c)].version
    BY <2>1, FreshKeeps DEF BufferType
  <2> QED BY <2>1, <2>2, <2>3, PutKeeps DEF SameDocument
<1>7. CASE Del(c)
  <2>1. Depth(c) \in 1 .. Depth(c) /\ pc[c] = "del" /\ Depth(c) \in 1 .. 2
    BY <1>7, DepthBound DEF Del
  <2>2. Depth(c)' = Depth(c) - 1
    BY <1>7, <2>1, DelLeaves, LeaveKeeps
  <2>3. b # Buffer(c)
    <3> SUFFICES ASSUME b = Buffer(c) PROVE FALSE
      OBVIOUS
    <3>1. d = c /\ i = Depth(c)
      BY <2>1 DEF Table, Closing
    <3> QED BY <2>1, <2>2, <3>1
  <2>4. UNCHANGED buffers \/ buffers' = [buffers EXCEPT ![Buffer(c)] = NoBuffer]
    BY <1>7 DEF Del
  <2> QED BY <1>2, <2>3, <2>4 DEF Types, TypeOK
<1>8. CASE LookInCache(c)
  <2>1. Buffer(c) \in BufferIds
    BY <1>8, DepthBound DEF LookInCache
  <2>2. buffers' = [buffers EXCEPT ![Buffer(c)] = Fresh(Buffer(c))]
    BY <1>8 DEF LookInCache
  <2> QED BY <2>1, <2>2, FreshKeeps, PutKeeps DEF SameDocument
<1>9. CASE Delete(c) \/ Insert(c)
  <2>1. File(c) \in Files
    BY <1>9, DepthBound DEF Delete, Insert
  <2> DEFINE a == open_file_buffers[File(c)]
  <2>2. \/ UNCHANGED buffers
        \/ a \in BufferIds /\ buffers' = [buffers EXCEPT ![a] = [Fresh(a) EXCEPT !.version = @ + 1]]
        \/ a \in BufferIds
             /\ buffers' = [buffers EXCEPT ![a] =
                              [Fresh(a) EXCEPT !.version = @ + 1, !.text = Changed(c, @)]]
    BY <1>9, <2>1, ChangeCases DEF Delete, Insert
  <2> HIDE DEF a
  <2>3. ASSUME a \in BufferIds, NEW r, buffers' = [buffers EXCEPT ![a] = r],
               \/ r = [Fresh(a) EXCEPT !.version = @ + 1]
               \/ r = [Fresh(a) EXCEPT !.version = @ + 1, !.text = Changed(c, @)]
        PROVE  /\ buffers'[b].opened = buffers[b].opened
               /\ buffers'[b].version = buffers[b].version \/ b = a
    <3>1. PICK text, read, newer :
            Fresh(a) = [buffers[a] EXCEPT !.text = text, !.read = read, !.newer = newer]
      BY <2>3, FreshKeeps
    <3>2. r.opened = buffers[a].opened
      BY <2>3, <3>1, FreshKeeps DEF BufferType
    <3>3. CASE b = a
      BY <2>3, <3>2, <3>3 DEF Types, TypeOK
    <3>4. CASE b # a
      BY <2>3, <3>4 DEF Types, TypeOK
    <3> QED BY <3>3, <3>4
  <2>4. buffers'[b].opened = buffers[b].opened /\ (buffers'[b].version = buffers[b].version \/ b = a)
    BY <2>2, <2>3
  <2> QED BY <1>9, <2>4 DEF a, Counts
<1>10. CASE Save(c)
  <2>1. File(c) \in Files
    BY <1>10, DepthBound DEF Save
  <2> DEFINE a == open_file_buffers[File(c)]
  <2>2. a \in BufferIds \cup {0}
    BY <2>1 DEF Types, TypeOK
  <2>3. UNCHANGED buffers \/ (a # 0 /\ buffers' = [buffers EXCEPT ![a] = Fresh(a)])
    BY <1>10 DEF Save
  <2> HIDE DEF a
  <2>4. ASSUME a # 0, buffers' = [buffers EXCEPT ![a] = Fresh(a)] PROVE SameDocument(b)
    BY <2>2, <2>4, FreshKeeps, PutKeeps
  <2> QED BY <1>2, <2>3, <2>4 DEF SameDocument
<1>11. CASE Truncate(c) \/ Put(c)
  BY <1>11, WrittenSame DEF Truncate, Put, SameDocument
<1>12. CASE Stamp(c)
  <2>1. job[c].fb \in BufferIds
    BY <1>1, <1>12, Mine DEF Stamp, Placed, JobType
  <2>2. buffers' = [buffers EXCEPT ![job[c].fb] = [buffers[job[c].fb] EXCEPT !.newer = FALSE]]
    BY <1>12 DEF Stamp
  <2>3. LET r == [buffers[job[c].fb] EXCEPT !.newer = FALSE]
        IN  /\ r.opened = buffers[job[c].fb].opened /\ r.version = buffers[job[c].fb].version
    BY <2>1, FreshKeeps DEF BufferType
  <2> QED BY <2>1, <2>2, <2>3, PutKeeps DEF SameDocument
<1>13. CASE \/ Begin(c) \/ Return(c) \/ DidOpen(c) \/ Store(c) \/ Close(c) \/ Ask(c) \/ Validate(c)
            \/ DidChange(c)
  BY <1>2, <1>13 DEF Begin, Return, DidOpen, Store, Close, Ask, Validate, DidChange
<1>14. CASE OpenFails(c)
  <2>1. pc[c] = "ensure" /\ Buffer(c) \in BufferIds /\ Depth(c) \in 1 .. 2
    BY <1>14, DepthBound DEF OpenFails
  <2>2. PICK r : /\ buffers' = [buffers EXCEPT ![Buffer(c)] = r]
                 /\ \/ \E n \in 0 .. 1 : r = [buffers[Buffer(c)] EXCEPT !.opened = TRUE, !.lost = @ + n]
                    \/ ~Lazy(c) /\ ~HeldElsewhere(Buffer(c), c)
    BY <1>14, <2>1, OpenFailsBuffers
  <2>3. CASE b # Buffer(c)
    BY <2>2, <2>3 DEF Types, TypeOK
  <2>4. CASE b = Buffer(c)
    <3>1. Lazy(c) \/ HeldElsewhere(Buffer(c), c)
      <4>1. CASE d # c
        <5>1. b \in ToSet(job[d].held)
          BY DEF ToSet, Depth
        <5> QED BY <2>4, <4>1, <5>1 DEF HeldElsewhere
      <4>2. CASE d = c /\ ~Lazy(c)
        <5>1. Depth(c)' = Depth(c) - 1
          BY <1>14, <4>2, OpenFailsKeeps
        <5>2. i \in 1 .. Depth(c) - 1 /\ Len(job[c].held) # 0
          BY <2>1, <4>2, <5>1 DEF Depth
        <5>3. job[c].held \in Seq(BufferIds)
          BY Mine
        <5>4. Front(job[c].held)[i] = b /\ i \in 1 .. Len(Front(job[c].held))
          BY <4>2, <5>2, <5>3, FrontType DEF Depth
        <5>5. b \in ToSet(Front(job[c].held))
          BY <5>4 DEF ToSet
        <5> QED BY <2>4, <5>5 DEF HeldElsewhere
      <4> QED BY <4>1, <4>2
    <3>2. PICK n \in 0 .. 1 : r = [buffers[Buffer(c)] EXCEPT !.opened = TRUE, !.lost = @ + n]
      BY <2>2, <3>1
    <3>3. [buffers[Buffer(c)] EXCEPT !.opened = TRUE, !.lost = @ + n].version
            = buffers[Buffer(c)].version
      BY <2>1, FreshKeeps, Zenon DEF BufferType
    <3>4. buffers'[b].version = buffers[b].version
      BY <2>1, <2>2, <2>4, <3>2, <3>3 DEF Types, TypeOK
    <3> QED BY <1>14, <2>4, <3>4 DEF Marks
  <2> QED BY <2>3, <2>4
<1>15. CASE ReadFails(c)
  <2>1. File(c) \in Files
    BY <1>15, DepthBound DEF ReadFails
  <2> DEFINE a == open_file_buffers[File(c)]
  <2>2. a \in BufferIds \cup {0}
    BY <2>1 DEF Types, TypeOK
  <2>3. UNCHANGED buffers \/ (a # 0 /\ buffers' = [buffers EXCEPT ![a].version = NextVersion(@)])
    BY <1>15 DEF ReadFails
  <2> HIDE DEF a
  <2>4. ASSUME a # 0, buffers' = [buffers EXCEPT ![a].version = NextVersion(@)]
        PROVE  /\ buffers'[b].opened = buffers[b].opened
               /\ buffers'[b].version = buffers[b].version \/ b = a
    <3>1. a \in BufferIds /\ buffers[a] \in BufferType /\ buffers[b] \in BufferType
      BY <2>2, <2>4, FreshKeeps
    <3>2. CASE b = a
      <4>1. buffers'[b] = [buffers[b] EXCEPT !.version = NextVersion(@)]
        BY <2>4, <3>1, <3>2 DEF Types, TypeOK
      <4> QED BY <3>1, <3>2, <4>1 DEF BufferType
    <3>3. CASE b # a
      BY <2>4, <3>1, <3>3 DEF Types, TypeOK
    <3> QED BY <3>2, <3>3
  <2> QED BY <1>2, <1>15, <2>3, <2>4 DEF a, Counts
<1> QED BY <1>4, <1>5, <1>6, <1>7, <1>8, <1>9, <1>10, <1>11, <1>12, <1>13, <1>14, <1>15 DEF Step

-----------------------------------------------------------------------------
(* Missing files and failed openings.                                        *)

LEMMA UsingInFlight ==
  Types /\ Local => \A d \in Threads : \A g \in Files : Using(d, g) => d \in InFlight(g)
BY InFlightOf DEF Using

\* Steps of another thread.
LEMMA OtherUsing ==
  ASSUME Types, NEW c \in Threads, Step(c), NEW d \in Threads, d # c, NEW f \in Files
  PROVE  /\ Using(d, f)' <=> Using(d, f)
         /\ Depth(d)' = Depth(d) /\ File(d)' = File(d) /\ Buffer(d)' = Buffer(d)
         /\ Opens(d)' <=> Opens(d)
         /\ Tells(d)' <=> Tells(d)
         /\ Changes(d)' <=> Changes(d)
         /\ job'[d] = job[d] /\ pc'[d] = pc[d]
<1>1. job'[d] = job[d] /\ pc'[d] = pc[d]
  BY OthersStay
<1>2. Lazy(d)' <=> Lazy(d)
  BY <1>1 DEF Lazy, Doing, Phase
<1> QED BY <1>1, <1>2 DEF Using, Depth, File, Phase, Buffer, Opens, Tells, Changes

\* What an opening that failed leaves in a buffer that is registered or in use, and a file
\* that is missing while a call works on it, are noticed.
InUse(b, f) == \/ open_file_buffers[f] = b
               \/ \E d \in Threads : Using(d, f) /\ \E i \in 1 .. Depth(d) : job[d].held[i] = b
LostNoted(f) == \A b \in BufferIds : buffers[b].lost > 0 /\ InUse(b, f) => "unread" \in stirred[f]
MissingNoted(f) == f \in missing /\ InFlight(f) # {} => "outside" \in stirred[f]
Noticed == \A f \in Files : LostNoted(f) /\ MissingNoted(f)

\* A buffer in use is one of the file.
LEMMA InUseFile ==
  ASSUME Types, Local, Table, NEW f \in Files, NEW b \in BufferIds, InUse(b, f)
  PROVE  buffers[b].file = f
<1>1. CASE open_file_buffers[f] = b
  BY <1>1, NotZero DEF Table, Registered
<1>2. CASE \E d \in Threads : Using(d, f) /\ \E i \in 1 .. Depth(d) : job[d].held[i] = b
  BY <1>2 DEF Table, HeldTyped, Using
<1> QED BY <1>1, <1>2 DEF InUse

\* Of the steps that enter or leave a with-block, what they hold afterwards.
LEMMA HeldBefore ==
  ASSUME Types, Local, NEW c \in Threads, Drop(c) \/ Close(c) \/ Del(c) \/ OpenFails(c),
         NEW f \in Files, NEW d \in Threads, Using(d, f)', NEW i \in 1 .. Depth(d)'
  PROVE  Using(d, f) /\ i \in 1 .. Depth(d) /\ job'[d].held[i] = job[d].held[i]
<1>1. Step(c)
  BY DEF Step
<1>2. CASE d # c
  BY <1>1, <1>2, OtherUsing
<1>3. CASE d = c
  <2>1. Depth(c) \in 1 .. 2 /\ pc[c] \in {"drop", "close", "del", "ensure"}
    BY DepthBound DEF Drop, Close, Del, OpenFails
  <2>2. CASE job'[c].held = job[c].held /\ job'[c].plan = job[c].plan
    BY <1>3, <2>2 DEF Using, File, Phase, Depth
  <2>3. CASE /\ Depth(c)' = Depth(c) - 1
             /\ Depth(c)' # 0 => File(c)' = File(c)
             /\ \A k \in 1 .. Depth(c)' : job'[c].held[k] = job[c].held[k]
    BY <1>3, <2>1, <2>3 DEF Using
  <2>4. CASE Drop(c)
    <3>1. pc[c] = "drop"
      BY <2>4 DEF Drop
    <3>2. \/ UNCHANGED job
          \/ AfterDrop(c, [job[c] EXCEPT !.held = Front(@), !.failed = job[c].failed])
      BY <2>4, DropLeaves
    <3> QED BY <2>2, <2>3, <3>1, <3>2, LeaveKeeps
  <2>5. CASE Close(c)
    BY <2>2, <2>5 DEF Close
  <2>6. CASE Del(c)
    <3>1. PICK why : AfterDrop(c, [job[c] EXCEPT !.held = Front(@), !.failed = why])
      BY <2>6, DelLeaves
    <3>2. pc[c] = "del"
      BY <2>6 DEF Del
    <3> QED BY <2>3, <3>1, <3>2, LeaveKeeps
  <2>7. CASE OpenFails(c) /\ Lazy(c)
    BY <2>2, <2>7, OpenFailsJob, FailKeeps
  <2>8. CASE OpenFails(c) /\ ~Lazy(c)
    BY <2>3, <2>8, OpenFailsKeeps
  <2> QED BY <2>4, <2>5, <2>6, <2>7, <2>8
<1> QED BY <1>2, <1>3

\* A step loses a user of a buffer when an opening of it fails, which is noticed.
LEMMA LostBefore ==
  ASSUME Types, Local, Table, NEW c \in Threads, Step(c), NEW f \in Files, NEW b \in BufferIds,
         buffers'[b].lost > 0, InUse(b, f)', "unread" \notin stirred'[f], LostNoted(f),
         "unread" \notin stirred[f]
  PROVE  FALSE
<1>1. ~(buffers[b].lost > 0 /\ InUse(b, f))
  BY DEF LostNoted
<1>2. CASE Quiet(c) /\ ~OpenFails(c)
  <2>1. buffers'[b].lost = buffers[b].lost
    BY <1>2, QuietBuffers DEF Table, SameBuffers
  <2>2. ASSUME NEW d \in Threads, Using(d, f)', NEW i \in 1 .. Depth(d)', job'[d].held[i] = b
        PROVE  InUse(b, f)
    <3>1. CASE d # c
      BY <2>2, <3>1, OtherUsing DEF InUse
    <3>2. CASE d = c
      <4>1. job'[c].held = job[c].held /\ (Depth(c) # 0 => File(c)' = File(c))
        BY <1>2, QuietOwn
      <4> QED BY <2>2, <3>2, <4>1 DEF Using, Depth, InUse
    <3> QED BY <3>1, <3>2
  <2>3. ASSUME open_file_buffers'[f] = b PROVE InUse(b, f)
    <3>1. CASE open_file_buffers'[f] = open_file_buffers[f]
      BY <2>3, <3>1 DEF InUse
    <3>2. CASE open_file_buffers'[f] # open_file_buffers[f]
      <4>1. PICK d \in Threads : Depth(d) # 0 /\ File(d) = f /\ open_file_buffers'[f] = Buffer(d)
        BY <1>2, <3>2, QuietEntries DEF HeldEntries
      <4> QED BY <2>3, <4>1, DepthBound DEF InUse, Using
    <3> QED BY <3>1, <3>2
  <2> QED BY <1>1, <2>1, <2>2, <2>3 DEF InUse
<1>3. CASE Drop(c) \/ Close(c) \/ Del(c) \/ OpenFails(c)
  <2>1. Depth(c) # 0 /\ File(c) \in Files /\ Buffer(c) \in BufferIds
    BY <1>3, DepthBound DEF Drop, Close, Del, OpenFails
  <2>2. open_file_buffers'[f] \in {open_file_buffers[f], 0}
    BY <1>3, <2>1 DEF Drop, Close, Del, OpenFails, Types, TypeOK
  <2>3. InUse(b, f)
    BY <1>3, <2>2, HeldBefore, NotZero DEF InUse
  <2>4. buffers[b].file = f /\ buffers[Buffer(c)].file = File(c)
    BY <2>1, <2>3, InUseFile, HeldFile
  <2>5. CASE OpenFails(c)
    <3>1. PICK r : /\ buffers' = [buffers EXCEPT ![Buffer(c)] = r]
                   /\ \/ \E n \in 0 .. 1 :
                           /\ r = [buffers[Buffer(c)] EXCEPT !.opened = TRUE, !.lost = @ + n]
                           /\ \/ Lazy(c) \/ HeldElsewhere(Buffer(c), c)
                              \/ open_file_buffers[File(c)] = Buffer(c)
                      \/ r = NoBuffer
      BY <2>1, <2>5, OpenFailsBuffers
    <3>2. b = Buffer(c)
      BY <1>1, <2>3, <3>1 DEF Types, TypeOK
    <3>3. buffers'[b] = r
      BY <3>1, <3>2 DEF Types, TypeOK
    <3>4. \/ Lazy(c) \/ HeldElsewhere(Buffer(c), c)
          \/ open_file_buffers[File(c)] = Buffer(c)
      BY <3>1, <3>3 DEF NoBuffer
    <3>5. "unread" \in stirred'[File(c)]
      BY <2>1, <2>5, <3>4 DEF OpenFails, Stir, Types, TypeOK
    <3> QED BY <2>4, <3>2, <3>5
  <2>6. CASE Drop(c)
    <3>1. buffers' = [buffers EXCEPT ![Buffer(c)] = [buffers[Buffer(c)] EXCEPT !.refs = @ - 1]]
      BY <2>1, <2>6 DEF Drop, Types, TypeOK
    <3>2. [buffers[Buffer(c)] EXCEPT !.refs = @ - 1].lost = buffers[Buffer(c)].lost
      BY <2>1, FreshKeeps DEF BufferType
    <3>3. buffers'[b].lost = buffers[b].lost
      <4>1. CASE b = Buffer(c)
        BY <3>1, <3>2, <4>1 DEF Types, TypeOK
      <4>2. CASE b # Buffer(c)
        BY <3>1, <4>2 DEF Types, TypeOK
      <4> QED BY <4>1, <4>2
    <3> QED BY <1>1, <2>3, <3>3
  <2>7. CASE Close(c) \/ Del(c)
    <3>1. UNCHANGED buffers \/ buffers' = [buffers EXCEPT ![Buffer(c)] = NoBuffer]
      BY <2>7 DEF Close, Del
    <3>2. buffers'[b] \in {buffers[b], NoBuffer}
      BY <3>1 DEF Types, TypeOK
    <3> QED BY <1>1, <2>3, <3>2 DEF NoBuffer
  <2> QED BY <1>3, <2>5, <2>6, <2>7
<1>4. CASE Open(c) /\ ~FailWith(c, "assertion", job[c])
  <2> DEFINE a == open_file_buffers[File(c)]
             new == CHOOSE g \in Garbage : TRUE
  <2>1. pc[c] = "open" /\ File(c) \in Files /\ UNCHANGED open_file_buffers
    BY <1>4, Mine DEF Open, Local, Placed
  <2>2. new \in Garbage /\ new \in BufferIds /\ a \in BufferIds \cup {0}
    <3>1. Garbage # {}
      BY <2>1, GarbageExists DEF Table
    <3> QED BY <2>1, <3>1 DEF Garbage, Types, TypeOK
  <2>3. \/ /\ a = 0 /\ SetJob(c, [job[c] EXCEPT !.held = Append(@, new), !.next = "store"])
           /\ buffers' = [buffers EXCEPT ![new] = [NoBuffer EXCEPT !.file = File(c), !.refs = 1]]
        \/ /\ a # 0
           /\ SetJob(c, [job[c] EXCEPT !.held = Append(@, a), !.next = Inside(c, Depth(c) + 1)])
           /\ buffers' = [buffers EXCEPT ![a].refs = @ + 1]
    BY <1>4, Zenon DEF Open
  <2> HIDE DEF a, new
  <2>4. PICK x, step : /\ SetJob(c, [job[c] EXCEPT !.held = Append(@, x), !.next = step])
                       /\ \/ /\ x = new
                             /\ buffers' = [buffers EXCEPT ![new] = [NoBuffer EXCEPT !.file = File(c), !.refs = 1]]
                          \/ x = a /\ a # 0 /\ buffers' = [buffers EXCEPT ![a].refs = @ + 1]
    BY <2>3
  <2>5. job'[c].held = Append(job[c].held, x) /\ File(c)' = File(c)
    <3>1. job'[c] = [job[c] EXCEPT !.held = Append(@, x), !.next = step]
      BY <2>4 DEF SetJob, Types
    <3> QED BY <3>1, Mine DEF JobType, File, Phase
  <2>6. buffers'[b].lost = buffers[b].lost /\ b # new
    <3>1. CASE buffers' = [buffers EXCEPT ![new] = [NoBuffer EXCEPT !.file = File(c), !.refs = 1]]
      <4>1. [NoBuffer EXCEPT !.file = File(c), !.refs = 1].lost = 0
        BY DEF NoBuffer
      <4>2. b # new
        BY <2>2, <3>1, <4>1 DEF Types, TypeOK
      <4> QED BY <3>1, <4>2 DEF Types, TypeOK
    <3>2. CASE x = a /\ a # 0 /\ buffers' = [buffers EXCEPT ![a].refs = @ + 1]
      <4>1. a \in BufferIds /\ buffers[a] \in BufferType /\ buffers[b] \in BufferType
        BY <2>2, <3>2, FreshKeeps
      <4>2. buffers'[b] \in {buffers[b], [buffers[b] EXCEPT !.refs = @ + 1]}
        BY <3>2, <4>1 DEF Types, TypeOK
      <4>3. buffers'[b].lost = buffers[b].lost
        BY <4>1, <4>2 DEF BufferType
      <4>4. InUse(b, f)' => b # new
        <5> SUFFICES ASSUME b = new PROVE FALSE
          OBVIOUS
        <5>1. \A g \in Files : open_file_buffers[g] # new
          BY <2>2 DEF Garbage
        <5>2. \A d \in Threads : \A i \in 1 .. Depth(d) : job[d].held[i] # new
          <6> SUFFICES ASSUME NEW d \in Threads, NEW i \in 1 .. Depth(d) PROVE job[d].held[i] # new
            OBVIOUS
          <6>1. job[d].held[i] \in ToSet(job[d].held)
            BY DEF ToSet, Depth
          <6> QED BY <2>2, <6>1 DEF Garbage
        <5>3. x # new
          BY <2>1, <3>2, <5>1 DEF a
        <5>4. PICK d \in Threads : \E i \in 1 .. Depth(d)' : job'[d].held[i] = new
          BY <2>1, <5>1 DEF InUse
        <5>5. PICK i \in 1 .. Depth(d)' : job'[d].held[i] = new
          BY <5>4
        <5>6. CASE d # c
          BY <5>2, <5>5, <5>6, OtherUsing
        <5>7. CASE d = c
          <6>1. job'[c].held = Append(job[c].held, x) /\ job[c].held \in Seq(BufferIds)
            BY <2>5, Mine
          <6>2. i \in 1 .. Len(Append(job[c].held, x)) /\ Append(job[c].held, x)[i] = new
            BY <5>5, <5>7, <6>1 DEF Depth
          <6>3. CASE i \in 1 .. Len(job[c].held)
            BY <5>2, <6>1, <6>2, <6>3 DEF Depth
          <6>4. CASE i \notin 1 .. Len(job[c].held)
            BY <5>3, <6>1, <6>2, <6>4
          <6> QED BY <6>3, <6>4
        <5> QED BY <5>6, <5>7
      <4> QED BY <4>3, <4>4
    <3> QED BY <2>4, <3>1, <3>2
  <2>7. InUse(b, f)
    <3>1. CASE open_file_buffers'[f] = b
      BY <2>1, <3>1 DEF InUse
    <3>2. CASE open_file_buffers'[f] # b
      <4>1. PICK d \in Threads : Using(d, f)' /\ \E i \in 1 .. Depth(d)' : job'[d].held[i] = b
        BY <3>2 DEF InUse
      <4>2. PICK i \in 1 .. Depth(d)' : job'[d].held[i] = b
        BY <4>1
      <4>3. CASE d # c
        BY <4>1, <4>2, <4>3, OtherUsing DEF InUse
      <4>4. CASE d = c
        <5>1. File(c) = f
          BY <2>5, <4>1, <4>4 DEF Using
        <5>2. CASE i \in 1 .. Depth(c)
          <6>1. job[c].held[i] = b /\ Depth(c) # 0
            BY <2>5, <4>2, <4>4, <5>2, Mine DEF Depth
          <6> QED BY <5>1, <5>2, <6>1 DEF InUse, Using
        <5>3. CASE i \notin 1 .. Depth(c)
          <6>1. b = x
            BY <2>5, <4>2, <4>4, <5>3, Mine DEF Depth
          <6>2. b = a
            BY <2>4, <2>6, <6>1
          <6> QED BY <5>1, <6>2 DEF InUse, a
        <5> QED BY <5>2, <5>3
      <4> QED BY <4>3, <4>4
    <3> QED BY <3>1, <3>2
  <2> QED BY <1>1, <2>6, <2>7
<1> QED BY <1>2, <1>3, <1>4 DEF Step, Quiet

\* Steps of other programs leave the counts and what is held as they are.
LEMMA OutsideKeeps ==
  ASSUME Types, Local, NEW g \in Files, Outside(g)
  PROVE  /\ UNCHANGED <<open_file_buffers, server, pc, job>> /\ SameBuffers
         /\ UNCHANGED buffers \/ \E text : Written(g, text)
         /\ missing' \subseteq missing \cup {g} /\ Interfere(g)
<1>1. /\ UNCHANGED <<open_file_buffers, server, pc, job>>
      /\ UNCHANGED buffers \/ \E text : Written(g, text)
      /\ missing' \subseteq missing \cup {g} /\ Interfere(g)
  BY DEF Outside, WriteOutside, RemoveOutside, RestoreOutside
<1>2. SameBuffers
  BY <1>1, WrittenKeeps DEF SameBuffers
<1> QED BY <1>1, <1>2

LEMMA LostNotedStep ==
  ASSUME Types, Local, Table, Next, NEW f \in Files, LostNoted(f)
  PROVE  LostNoted(f)'
<1> SUFFICES ASSUME NEW b \in BufferIds, buffers'[b].lost > 0, InUse(b, f)', "unread" \notin stirred'[f]
             PROVE  FALSE
  BY DEF LostNoted
<1>1. CASE "unread" \in stirred[f]
  <2>1. PICK c \in Threads : Return(c) /\ InFlight(f) \subseteq {c}
    BY <1>1, KindStays
  <2>2. InFlight(f)' = {}
    BY <2>1, NobodyLeft
  <2>3. Types' /\ Local'
    BY TypesStep, LocalStep
  <2>4. (\A d \in Threads : \A g \in Files : Using(d, g) => d \in InFlight(g))'
    BY <2>3, UsingInFlight, PTL
  <2>5. \A d \in Threads : ~Using(d, f)'
    BY <2>2, <2>4
  <2>6. open_file_buffers'[f] = 0
    BY <1>1, <2>1 DEF Return
  <2> QED BY <2>5, <2>6, NotZero DEF InUse
<1>2. CASE "unread" \notin stirred[f]
  <2>1. CASE \E c \in Threads : Step(c)
    BY <1>2, <2>1, LostBefore
  <2>2. CASE \E g \in Files : Outside(g)
    <3>1. PICK g \in Files : Outside(g)
      BY <2>2
    <3>2. UNCHANGED <<open_file_buffers, pc, job>> /\ SameBuffers
      BY <3>1, OutsideKeeps
    <3>3. InUse(b, f) /\ buffers[b].lost > 0
      BY <3>2 DEF InUse, Using, Depth, File, Phase, SameBuffers
    <3> QED BY <1>2, <3>3 DEF LostNoted
  <2> QED BY <2>1, <2>2 DEF Next
<1> QED BY <1>1, <1>2

\* A call that begins finds its file there, or is told that another of its files is missing.
LEMMA MissingNotedStep ==
  ASSUME Types, Local, Next, NEW f \in Files, MissingNoted(f)
  PROVE  MissingNoted(f)'
<1> SUFFICES ASSUME f \in missing', InFlight(f)' # {}, "outside" \notin stirred'[f]
             PROVE  FALSE
  BY DEF MissingNoted
<1>1. "outside" \notin stirred[f]
  <2> SUFFICES ASSUME "outside" \in stirred[f] PROVE FALSE
    OBVIOUS
  <2>1. PICK c \in Threads : Return(c) /\ InFlight(f) \subseteq {c}
    BY KindStays
  <2> QED BY <2>1, NobodyLeft
<1>2. f \notin missing \/ InFlight(f) = {}
  BY <1>1 DEF MissingNoted
<1>3. CASE \E g \in Files : Outside(g)
  <2>1. PICK g \in Files : Outside(g)
    BY <1>3
  <2>2. UNCHANGED <<pc, job>> /\ missing' \subseteq missing \cup {g} /\ Interfere(g)
    BY <2>1, OutsideKeeps
  <2>3. InFlight(f) # {}
    BY <2>2 DEF InFlight, Touches
  <2>4. f = g
    BY <1>2, <2>2, <2>3
  <2> QED BY <2>2, <2>3, <2>4 DEF Interfere, Stir, Types, TypeOK
<1>4. CASE \E c \in Threads : Step(c)
  <2>1. PICK c \in Threads : Step(c)
    BY <1>4
  <2>2. missing' \subseteq missing
    BY <2>1 DEF Step, Begin, Return, Open, EnsureOpen, OpenFails, ReadFails, DidOpen, Store, Drop, Close,
                Del, LookInCache, Ask, Validate, Delete, Insert, DidChange, Save, Truncate, Put, Stamp
  <2>3. InFlight(f) = {}
    BY <1>2, <2>2
  <2>4. \A d \in Threads : d # c => d \notin InFlight(f)'
    BY <2>1, <2>3, OthersStay DEF InFlight, Touches
  <2>5. pc'[c] # "idle" /\ f \in Touches(c)'
    BY <2>4 DEF InFlight
  <2>6. CASE Begin(c)
    <3>1. PICK op \in Ops, h \in Files :
            /\ h \notin missing
            /\ job'[c] = [NoJob EXCEPT !.op = op, !.n = effort', !.file = h,
                                       !.plan = Plan(op, h), !.before = disk]
            /\ stirred' = [g \in Files |->
                 stirred[g] \cup
                   IF op \in {"replace", "before", "after", "rename"} /\ (g = h \/ op = "rename")
                     THEN Meets(g) ELSE {}]
      BY <2>6 DEF Begin, SetJob, Types
    <3>2. job'[c].op = op /\ job'[c].file = h
      BY <3>1 DEF NoJob
    <3>3. f # h
      BY <2>2, <3>1
    <3>4. op = "rename"
      BY <2>5, <3>2, <3>3 DEF Touches
    <3>5. Meets(f) \subseteq stirred'[f] /\ "outside" \in Meets(f)
      BY <2>2, <3>1, <3>4 DEF Meets
    <3> QED BY <3>5
  <2>7. CASE Return(c)
    BY <2>5, <2>7 DEF Return, Goto, Types, TypeOK
  <2>8. CASE ~Begin(c) /\ ~Return(c)
    <3>1. job'[c].op = job[c].op /\ job'[c].file = job[c].file /\ pc[c] # "idle"
      BY <2>1, <2>8, AskedStays
    <3> QED BY <2>3, <2>5, <3>1 DEF InFlight, Touches
  <2> QED BY <2>6, <2>7, <2>8
<1> QED BY <1>3, <1>4 DEF Next

THEOREM NoticedKept == Spec => [](SessionsInv /\ AloneInGaps /\ Noticed)
<1>1. Init => Noticed
  BY DEF Init, Noticed, LostNoted, MissingNoted, NoBuffer
<1>2. SessionsInv /\ AloneInGaps /\ Noticed /\ [Next]_vars => Noticed'
  <2> SUFFICES ASSUME SessionsInv, Noticed, [Next]_vars PROVE Noticed'
    OBVIOUS
  <2>1. CASE Next
    BY <2>1, LostNotedStep, MissingNotedStep DEF SessionsInv, Noticed
  <2>2. CASE UNCHANGED vars
    BY <2>2 DEF vars, Noticed, LostNoted, MissingNoted, InUse, Using, Depth, File, Phase, InFlight, Touches
  <2> QED BY <2>1, <2>2
<1> QED BY <1>1, <1>2, TableKept, AloneKept, PTL DEF Spec

-----------------------------------------------------------------------------
(* Steps that leave the order as it is.                                      *)

\* Thread d goes on in its with-block of f and comes no nearer to a message.
Stays(d, f) ==
  /\ Using(d, f) /\ Buffer(d)' = Buffer(d) /\ SameDocument(Buffer(d))
  /\ Opens(d)' => Opens(d)
  /\ pc[d] = "del" => pc'[d] = "del"
  /\ Tells(d)' => Tells(d) \/ server[f].open
  /\ Changes(d)' => Changes(d) /\ job'[d].note = job[d].note

LEMMA KeepsOrder ==
  ASSUME NEW f \in Files, InOrder(f), server'[f] = server[f],
         \A d \in Threads : Using(d, f)' => Stays(d, f),
         \A d \in Threads : Using(d, f) /\ Opens(d) => (Using(d, f) /\ Opens(d))'
  PROVE  InOrder(f)'
<1> SUFFICES ASSUME NEW c \in Threads, Using(c, f)'
             PROVE  (/\ Opens(c) => ~server[f].open /\ \A d \in Threads : Using(d, f) /\ Opens(d) => d = c
                     /\ (buffers[Buffer(c)].opened /\ pc[c] # "del") =>
                          server[f].open \/ \E d \in Threads : Using(d, f) /\ Opens(d)
                     /\ Tells(c) => server[f].open
                     /\ server[f].open => server[f].version <= buffers[Buffer(c)].version
                     /\ Changes(c) => /\ server[f].version < job[c].note[1]
                                      /\ job[c].note[1] <= buffers[Buffer(c)].version)'
  BY DEF InOrder
<1>1. Stays(c, f) /\ Using(c, f)
  BY DEF Stays
<1>2. /\ Opens(c) => ~server[f].open /\ \A d \in Threads : Using(d, f) /\ Opens(d) => d = c
      /\ (buffers[Buffer(c)].opened /\ pc[c] # "del") =>
           server[f].open \/ \E d \in Threads : Using(d, f) /\ Opens(d)
      /\ Tells(c) => server[f].open
      /\ server[f].open => server[f].version <= buffers[Buffer(c)].version
      /\ Changes(c) => /\ server[f].version < job[c].note[1]
                       /\ job[c].note[1] <= buffers[Buffer(c)].version
  BY <1>1 DEF InOrder
<1>3. buffers'[Buffer(c)'].opened = buffers[Buffer(c)].opened
      /\ buffers'[Buffer(c)'].version = buffers[Buffer(c)].version
  BY <1>1 DEF Stays, SameDocument
<1>4. (Opens(c) => ~server[f].open /\ \A d \in Threads : Using(d, f) /\ Opens(d) => d = c)'
  BY <1>1, <1>2 DEF Stays
<1>5. (Changes(c) => /\ server[f].version < job[c].note[1]
                     /\ job[c].note[1] <= buffers[Buffer(c)].version)'
  BY <1>1, <1>2, <1>3 DEF Stays
<1>6. ((buffers[Buffer(c)].opened /\ pc[c] # "del") =>
           server[f].open \/ \E d \in Threads : Using(d, f) /\ Opens(d))'
  BY <1>1, <1>2, <1>3 DEF Stays
<1> QED BY <1>1, <1>2, <1>3, <1>4, <1>5, <1>6 DEF Stays

LEMMA OtherStays ==
  ASSUME Types, NEW c \in Threads, Step(c), NEW d \in Threads, d # c, NEW f \in Files,
         Using(d, f)', SameDocument(Buffer(d))
  PROVE  Stays(d, f)
BY OtherUsing DEF Stays

LEMMA OtherSame ==
  ASSUME Types, Local, Table, NEW c \in Threads, Step(c), NEW d \in Threads, d # c, Depth(d) # 0,
         ~(Marks(c) /\ Buffer(d) = Buffer(c)),
         ~(Counts(c) /\ Buffer(d) = open_file_buffers[File(c)])
  PROVE  SameDocument(Buffer(d))
<1>1. /\ Depth(d) \in 1 .. Depth(d) /\ Buffer(d) = job[d].held[Depth(d)] /\ Buffer(d) \in BufferIds
      /\ File(d) \in Files
  BY DepthBound
<1>2. Depth(d)' = Depth(d) /\ job'[d] = job[d]
  BY <1>1, OtherUsing
<1>3. Depth(d) \in 1 .. Depth(d)' /\ job'[d].held[Depth(d)] = Buffer(d)
  BY <1>1, <1>2
<1> QED BY <1>1, <1>3, DocumentKept DEF SameDocument

\* A thread that works elsewhere.
LEMMA ElsewhereSame ==
  ASSUME Types, Local, Table, NEW c \in Threads, Step(c), NEW f \in Files, ~Using(c, f),
         NEW d \in Threads, d # c, Using(d, f)
  PROVE  SameDocument(Buffer(d))
<1>1. Depth(d) # 0 /\ File(d) = f /\ Buffer(d) \in BufferIds /\ buffers[Buffer(d)].file = f
  BY HeldFile DEF Using
<1>2. ASSUME Marks(c), Buffer(d) = Buffer(c) PROVE FALSE
  <2>1. Depth(c) # 0
    BY <1>2, DepthBound DEF Marks, EnsureOpen, OpenFails
  <2>2. buffers[Buffer(c)].file = File(c)
    BY <2>1, HeldFile
  <2> QED BY <1>1, <1>2, <2>1, <2>2 DEF Using
<1>3. ASSUME Counts(c), Buffer(d) = open_file_buffers[File(c)] PROVE FALSE
  <2>1. Depth(c) # 0 /\ File(c) \in Files
    BY <1>3, DepthBound DEF Counts, Delete, Insert, ReadFails
  <2>2. open_file_buffers[File(c)] # 0
    BY <1>1, <1>3, NotZero
  <2>3. buffers[open_file_buffers[File(c)]].file = File(c)
    BY <2>1, <2>2 DEF Table, Registered
  <2> QED BY <1>1, <1>3, <2>1, <2>3 DEF Using
<1> QED BY <1>1, <1>2, <1>3, OtherSame

LEMMA ElsewhereOrder ==
  ASSUME Types, Local, Table, NEW f \in Files, InOrder(f), NEW c \in Threads, Step(c),
         ~Using(c, f), ~Using(c, f)', server'[f] = server[f]
  PROVE  InOrder(f)'
<1>1. ASSUME NEW d \in Threads, Using(d, f)' PROVE Stays(d, f)
  <2>1. d # c
    BY <1>1
  <2>2. Using(d, f)
    BY <1>1, <2>1, OtherUsing
  <2> QED BY <1>1, <2>1, <2>2, ElsewhereSame, OtherStays
<1>2. ASSUME NEW d \in Threads, Using(d, f), Opens(d) PROVE (Using(d, f) /\ Opens(d))'
  <2>1. d # c
    BY <1>2
  <2> QED BY <1>2, <2>1, OtherUsing
<1> QED BY <1>1, <1>2, KeepsOrder

LEMMA TopBuffer ==
  Types /\ Local =>
    \A d \in Threads : Depth(d) \in 0 .. 2 /\ (Depth(d) # 0 => Buffer(d) = job[d].held[Depth(d)])
BY DepthBound

\* The thread that steps, in a with-block of f that it stays in.
LEMMA OwnSame ==
  ASSUME Types, Local, Table, NEW f \in Files, Exclusive(f), NEW c \in Threads, Step(c), Using(c, f),
         Using(c, f)', Depth(c)' <= Depth(c),
         \A i \in 1 .. Depth(c)' : job'[c].held[i] = job[c].held[i]
  PROVE  /\ Buffer(c)' = Buffer(c)
         /\ ~(Marks(c) \/ Counts(c)) \/ UNCHANGED buffers => SameDocument(Buffer(c))
<1>1. Depth(c) \in 1 .. 2 /\ Buffer(c) \in BufferIds
  BY DepthBound DEF Using
<1>2. Types' /\ Local'
  BY TypesStep, LocalStep DEF Next
<1>3. (\A d \in Threads : Depth(d) \in 0 .. 2 /\ (Depth(d) # 0 => Buffer(d) = job[d].held[Depth(d)]))'
  BY <1>2, TopBuffer, PTL
<1>4. Depth(c)' \in 1 .. 2 /\ Buffer(c)' = job'[c].held[Depth(c)']
  BY <1>3 DEF Using
<1>5. Depth(c)' \in 1 .. Depth(c) /\ Depth(c)' \in 1 .. Depth(c)'
  BY <1>1, <1>4
<1>6. job[c].held[Depth(c)'] = Buffer(c)
  BY <1>5, OneInUse
<1>7. job'[c].held[Depth(c)'] = job[c].held[Depth(c)']
  BY <1>5
<1>8. ~(Marks(c) \/ Counts(c)) \/ UNCHANGED buffers => SameDocument(Buffer(c))
  BY <1>1, <1>5, <1>6, <1>7, DocumentKept DEF SameDocument
<1> QED BY <1>4, <1>6, <1>7, <1>8

\* What the others know is disturbed by none but a step that opens or edits.
LEMMA OwnOrder ==
  ASSUME Types, Local, Table, NEW f \in Files, InOrder(f), NEW c \in Threads, Step(c),
         ~(Marks(c) \/ Counts(c)) \/ UNCHANGED buffers,
         server'[f] = server[f], Using(c, f)' => Stays(c, f), ~Opens(c)
  PROVE  InOrder(f)'
<1>1. ASSUME NEW d \in Threads, Using(d, f)' PROVE Stays(d, f)
  <2>1. CASE d = c
    BY <1>1, <2>1
  <2>2. CASE d # c
    <3>1. Using(d, f)
      BY <1>1, <2>2, OtherUsing
    <3>2. SameDocument(Buffer(d))
      <4>1. CASE UNCHANGED buffers
        BY <4>1 DEF SameDocument
      <4>2. CASE ~(Marks(c) \/ Counts(c))
        BY <2>2, <3>1, <4>2, OtherSame DEF Using
      <4> QED BY <4>1, <4>2
    <3> QED BY <1>1, <2>2, <3>2, OtherStays
  <2> QED BY <2>1, <2>2
<1>2. ASSUME NEW d \in Threads, Using(d, f), Opens(d) PROVE (Using(d, f) /\ Opens(d))'
  <2>1. d # c
    BY <1>2
  <2> QED BY <1>2, <2>1, OtherUsing
<1> QED BY <1>1, <1>2, KeepsOrder

\* Steps within a with-block that are about other things.
LEMMA PlainOrder ==
  ASSUME Types, Local, Table, NEW f \in Files, Exclusive(f), InOrder(f), NEW c \in Threads,
         \/ Store(c) \/ LookInCache(c) \/ Ask(c) \/ Save(c) \/ Truncate(c) \/ Put(c) \/ Stamp(c)
         \/ (Open(c) /\ FailWith(c, "assertion", job[c])) \/ (ReadFails(c) /\ UNCHANGED buffers),
         Using(c, f)
  PROVE  InOrder(f)'
<1>1. Step(c) /\ Quiet(c) /\ server' = server
  BY DEF Step, Quiet, Store, LookInCache, Ask, Save, Truncate, Put, Stamp, Open, ReadFails
<1>2. job'[c].held = job[c].held /\ pc[c] # "del" /\ File(c)' = File(c)
  BY <1>1, QuietOwn DEF Using
<1>3. Depth(c)' = Depth(c) /\ Depth(c) \in 0 .. 2
  BY <1>2, DepthBound DEF Depth
<1>4. ~Opens(c) /\ (~(Marks(c) \/ Counts(c)) \/ UNCHANGED buffers)
  BY DEF Opens, Store, LookInCache, Ask, Save, Truncate, Put, Stamp, Open, Marks, EnsureOpen, OpenFails,
         Counts, Delete, Insert, ReadFails
<1>5. ~Opens(c)' /\ ~Changes(c)' /\ (Tells(c)' => Tells(c))
  <2>1. CASE Store(c)
    <3>1. pc'[c] = Inside(c, Depth(c)) /\ pc[c] = "store"
      BY <2>1 DEF Store, Goto, Types, TypeOK
    <3>2. Doing(c) \in {"ask", "edit"}
      BY <3>1, DepthBound, Mine
    <3>3. Inside(c, Depth(c)) \in {"look", "ask", "insert", "open", "delete"}
      BY <3>2 DEF Inside, Lazy
    <3>4. Inside(c, Depth(c)) \in {"insert", "delete"} => ~Lazy(c)
      BY <3>2 DEF Inside, Lazy
    <3> QED BY <3>1, <3>3, <3>4 DEF Opens, Changes, Tells
  <2>2. CASE LookInCache(c) \/ Ask(c)
    <3>1. pc'[c] \in {"ensure", "drop"}
      BY <2>2 DEF LookInCache, Ask, Located, Goto, Types, TypeOK
    <3> QED BY <3>1 DEF Opens, Changes, Tells
  <2>3. CASE Save(c) \/ Truncate(c) \/ Put(c) \/ Stamp(c) \/ (Open(c) /\ FailWith(c, "assertion", job[c]))
    <3>1. pc'[c] \in {"return", "truncate", "put", "stamp", "drop"}
      BY <2>3 DEF Save, Truncate, Put, Stamp, FailWith, Goto, Types, TypeOK
    <3> QED BY <3>1 DEF Opens, Changes, Tells
  <2>4. CASE ReadFails(c)
    <3>1. pc'[c] \in {"return", "drop"}
      BY <2>4 DEF ReadFails, FailWith, Goto, Types, TypeOK
    <3> QED BY <3>1 DEF Opens, Changes, Tells
  <2> QED BY <2>1, <2>2, <2>3, <2>4
<1>6. ASSUME Using(c, f)' PROVE Stays(c, f)
  <2>1. Buffer(c)' = Buffer(c) /\ SameDocument(Buffer(c))
    BY <1>1, <1>2, <1>3, <1>4, <1>6, OwnSame
  <2> QED BY <1>2, <1>5, <2>1 DEF Stays
<1> QED BY <1>1, <1>4, <1>6, OwnOrder

LEMMA DropOrder ==
  ASSUME Types, Local, Table, NEW f \in Files, Exclusive(f), InOrder(f), NEW c \in Threads, Drop(c),
         Using(c, f)
  PROVE  InOrder(f)'
<1>1. Step(c) /\ server' = server /\ pc[c] = "drop" /\ ~(Marks(c) \/ Counts(c))
  BY DEF Step, Drop, Marks, EnsureOpen, OpenFails, Counts, Delete, Insert, ReadFails
<1>2. ~Opens(c)' /\ ~Changes(c)' /\ ~Tells(c)'
  <2>1. pc'[c] \in {"close", "return", "drop", "save", "validate", "open"}
    BY DEF Drop, AfterDrop, Goto, Types, TypeOK
  <2> QED BY <2>1 DEF Opens, Changes, Tells
<1>3. ASSUME Using(c, f)' PROVE Stays(c, f)
  <2>1. Depth(c)' <= Depth(c) /\ \A i \in 1 .. Depth(c)' : job'[c].held[i] = job[c].held[i]
    <3>1. Depth(c) \in 0 .. 2
      BY DepthBound
    <3>2. CASE UNCHANGED job
      BY <3>1, <3>2 DEF Depth
    <3>3. CASE \E why : AfterDrop(c, [job[c] EXCEPT !.held = Front(@), !.failed = why])
      <4>1. PICK why : AfterDrop(c, [job[c] EXCEPT !.held = Front(@), !.failed = why])
        BY <3>3
      <4>2. /\ Depth(c)' = Depth(c) - 1
            /\ \A i \in 1 .. Depth(c)' : job'[c].held[i] = job[c].held[i]
        BY <1>1, <4>1, LeaveKeeps
      <4> QED BY <3>1, <4>2
    <3> QED BY <3>2, <3>3, DropLeaves
  <2>2. Buffer(c)' = Buffer(c) /\ SameDocument(Buffer(c))
    BY <1>1, <1>3, <2>1, OwnSame
  <2> QED BY <1>1, <1>2, <2>2 DEF Stays
<1> QED BY <1>1, <1>3, OwnOrder DEF Opens

-----------------------------------------------------------------------------
(* Steps that the server or the buffer in use sees.                          *)

LEMMA CloseOrder ==
  ASSUME Types, Local, Table, NEW f \in Files, Exclusive(f), InOrder(f), NEW c \in Threads, Close(c),
         Using(c, f)
  PROVE  InOrder(f)'
<1>1. /\ Step(c) /\ pc[c] = "close" /\ pc'[c] = "del" /\ job' = job /\ buffers' = buffers
      /\ File(c) = f /\ server[f] \in [open : BOOLEAN, text : Seq(Int), version : Nat, broken : BOOLEAN]
  BY DEF Step, Close, Goto, Types, TypeOK, Using
<1>2. \A d \in Threads : Using(d, f) => d = c
  BY <1>1, AloneAtClose
<1>3. \A d \in Threads : Using(d, f)' => d = c
  BY <1>1, <1>2, OtherUsing
<1>4. ~Opens(c)' /\ ~Changes(c)' /\ ~Tells(c)' /\ ~Opens(c)
  BY <1>1 DEF Opens, Changes, Tells
<1>5. /\ ~server'[f].broken
      /\ server'[f].open => server[f].open /\ server'[f].version = server[f].version
  <2>1. CASE buffers[Buffer(c)].opened
    <3>1. server[f].open
      BY <1>1, <1>2, <1>4, <2>1 DEF InOrder
    <3>2. server'[f] = [Unopened EXCEPT !.broken = server[f].broken \/ ~server[f].open]
      BY <1>1, <2>1 DEF Close, Types, TypeOK
    <3>3. ~server[f].broken
      BY DEF InOrder
    <3> QED BY <3>1, <3>2, <3>3 DEF Unopened
  <2>2. CASE ~buffers[Buffer(c)].opened
    BY <2>2 DEF Close, InOrder
  <2> QED BY <2>1, <2>2
<1>6. server[f].open => server[f].version <= buffers[Buffer(c)].version
  BY DEF InOrder
<1>7. Buffer(c)' = Buffer(c)
  BY <1>1 DEF Buffer
<1> QED BY <1>1, <1>3, <1>4, <1>5, <1>6, <1>7 DEF InOrder

LEMMA DelOrder ==
  ASSUME Types, Local, Table, NEW f \in Files, Exclusive(f), InOrder(f), NEW c \in Threads, Del(c),
         Using(c, f)
  PROVE  InOrder(f)'
<1>1. Step(c) /\ pc[c] = "del" /\ server' = server
  BY DEF Step, Del
<1>2. Depth(c) = 1 /\ \A d \in Threads : Using(d, f) => d = c
  BY <1>1, AloneAtClose
<1>3. Depth(c)' = Depth(c) - 1
  <2>1. PICK why : AfterDrop(c, [job[c] EXCEPT !.held = Front(@), !.failed = why])
    BY DelLeaves
  <2> QED BY <1>1, <2>1, LeaveKeeps
<1>4. \A d \in Threads : ~Using(d, f)'
  <2>1. ~Using(c, f)'
    BY <1>2, <1>3 DEF Using
  <2> QED BY <1>1, <1>2, <2>1, OtherUsing
<1> QED BY <1>1, <1>4 DEF InOrder

\* The buffer's version is counted up, and the call will tell the server of it, or fails.
LEMMA ChangeOrder ==
  ASSUME Types, Local, Table, NEW f \in Files, Exclusive(f), InOrder(f), NEW c \in Threads,
         Delete(c) \/ Insert(c) \/ (ReadFails(c) /\ pc[c] \in {"delete", "insert"}), Using(c, f)
  PROVE  InOrder(f)'
<1>1. /\ Step(c) /\ Quiet(c) /\ server' = server /\ pc[c] \in {"delete", "insert"}
      /\ File(c) = f
  BY DEF Step, Quiet, Delete, Insert, ReadFails, Using
<1>2. ~Creating(c) /\ ~Opens(c) /\ ~Changes(c) /\ Tells(c)
  BY <1>1 DEF Creating, Opens, Changes, Tells
<1>3. /\ open_file_buffers[f] = Buffer(c) /\ Buffer(c) \in BufferIds /\ Buffer(c) # 0
      /\ \A d \in Threads : Using(d, f) => Buffer(d) = Buffer(c)
  BY <1>1, <1>2, OneInUse, DepthBound, NotZero DEF Using
<1>4. job'[c].held = job[c].held
  BY <1>1, QuietOwn
<1>5. Buffer(c)' = Buffer(c)
  BY <1>4 DEF Buffer
<1>6. /\ server[f].open /\ server[f].version <= buffers[Buffer(c)].version
      /\ ~server[f].broken
  BY <1>2 DEF InOrder
<1>7. /\ server[f].version \in Nat /\ \A b \in BufferIds : buffers[b].version \in Nat
  BY DEF Types, TypeOK
<1>8. /\ buffers'[Buffer(c)].opened = buffers[Buffer(c)].opened
      /\ buffers'[Buffer(c)].version = buffers[Buffer(c)].version + 1
      /\ \/ pc'[c] \in {"drop", "return"}
         \/ job'[c].note = <<buffers[Buffer(c)].version + 1>> /\ Changes(c)'
  <2> DEFINE b == Buffer(c)
  <2>1. \/ /\ FailWith(c, "location", job[c])
           /\ buffers' = [buffers EXCEPT ![b] = [Fresh(b) EXCEPT !.version = @ + 1]]
        \/ /\ buffers' = [buffers EXCEPT ![b] =
                [Fresh(b) EXCEPT !.version = @ + 1, !.text = Changed(c, @)]]
           /\ SetJob(c, [job[c] EXCEPT !.note = <<Fresh(b).version + 1>>])
           /\ Goto(c, "did delete") \/ Goto(c, "did insert")
        \/ ReadFails(c)
    BY <1>1, <1>3, ChangeCases DEF Delete, Insert
  <2>2. /\ Fresh(b) \in BufferType
        /\ Fresh(b).opened = buffers[b].opened /\ Fresh(b).version = buffers[b].version
    BY <1>1, <1>3, HeldFile, FreshKeeps, FreshTyped DEF Using
  <2> HIDE DEF b
  <2>3. CASE /\ FailWith(c, "location", job[c])
             /\ buffers' = [buffers EXCEPT ![b] = [Fresh(b) EXCEPT !.version = @ + 1]]
    <3>1. pc'[c] \in {"drop", "return"}
      BY <2>3 DEF FailWith, Goto, Types, TypeOK
    <3>2. buffers'[b] = [Fresh(b) EXCEPT !.version = @ + 1]
      BY <1>3, <2>3 DEF Types, TypeOK, b
    <3> QED BY <2>2, <3>1, <3>2 DEF BufferType, b
  <2>4. CASE /\ buffers' = [buffers EXCEPT ![b] =
                  [Fresh(b) EXCEPT !.version = @ + 1, !.text = Changed(c, @)]]
             /\ SetJob(c, [job[c] EXCEPT !.note = <<Fresh(b).version + 1>>])
             /\ Goto(c, "did delete") \/ Goto(c, "did insert")
    <3>1. Changes(c)'
      BY <2>4 DEF Goto, Types, TypeOK, Changes
    <3>2. job'[c].note = <<Fresh(b).version + 1>>
      BY <2>4, Mine DEF SetJob, Types, JobType
    <3>3. buffers'[b] = [Fresh(b) EXCEPT !.version = @ + 1, !.text = Changed(c, @)]
      BY <1>3, <2>4 DEF Types, TypeOK, b
    <3> QED BY <2>2, <3>1, <3>2, <3>3 DEF BufferType, b
  <2>5. CASE ReadFails(c)
    <3>1. pc'[c] \in {"drop", "return"}
      BY <2>5 DEF ReadFails, FailWith, Goto, Types, TypeOK
    <3>2. buffers' = [buffers EXCEPT ![b].version = NextVersion(@)]
      BY <1>1, <1>3, <2>5 DEF ReadFails, b
    <3>3. buffers'[b] = [buffers[b] EXCEPT !.version = @ + 1]
      BY <1>3, <3>2 DEF Types, TypeOK, b, NextVersion
    <3>4. buffers[b] \in BufferType
      BY <1>3, FreshKeeps DEF b
    <3>5. buffers'[b].opened = buffers[b].opened /\ buffers'[b].version = buffers[b].version + 1
      BY <3>3, <3>4 DEF BufferType
    <3> QED BY <3>1, <3>5 DEF b
  <2> QED BY <2>1, <2>3, <2>4, <2>5
<1>9. \A d \in Threads : Using(d, f)' => Using(d, f) /\ Buffer(d)' = Buffer(c)
  <2>1. Using(c, f)' => Using(c, f)
    OBVIOUS
  <2> QED BY <1>1, <1>3, <1>5, <2>1, OtherUsing
<1>10. \A d \in Threads : Using(d, f)' => ~Opens(d)'
  <2>1. ~Opens(c)'
    BY <1>8 DEF Opens, Changes
  <2>2. \A d \in Threads : Using(d, f) => ~Opens(d)
    BY <1>6 DEF InOrder
  <2> QED BY <1>1, <1>9, <2>1, <2>2, OtherUsing
<1>11. ASSUME NEW d \in Threads, Using(d, f)', Changes(d)'
       PROVE  server[f].version < job'[d].note[1] /\ job'[d].note[1] <= buffers'[Buffer(c)].version
  <2>1. CASE d = c
    <3>1. job'[c].note = <<buffers[Buffer(c)].version + 1>>
      BY <1>8, <1>11, <2>1 DEF Changes
    <3> QED BY <1>3, <1>6, <1>7, <1>8, <2>1, <3>1
  <2>2. CASE d # c
    <3>1. Using(d, f) /\ Changes(d) /\ job'[d] = job[d]
      BY <1>1, <1>11, <2>2, OtherUsing
    <3>2. server[f].version < job[d].note[1] /\ job[d].note[1] <= buffers[Buffer(c)].version
      BY <1>3, <3>1 DEF InOrder
    <3>3. job[d].note[1] \in Nat
      BY <3>1 DEF Changes, Local, Placed
    <3> QED BY <1>3, <1>7, <1>8, <3>1, <3>2, <3>3
  <2> QED BY <2>1, <2>2
<1>12. server[f].version <= buffers'[Buffer(c)].version
  BY <1>3, <1>6, <1>7, <1>8
<1> QED BY <1>1, <1>6, <1>9, <1>10, <1>11, <1>12 DEF InOrder

\* Only one call edits the file, so that nobody else has a change to tell of.
LEMMA DidChangeOrder ==
  ASSUME Types, Local, Table, NEW f \in Files, Exclusive(f), InOrder(f), OneEditor(f),
         NEW c \in Threads, DidChange(c), Using(c, f)
  PROVE  InOrder(f)'
<1>1. /\ Step(c) /\ Quiet(c) /\ buffers' = buffers /\ File(c) = f /\ Changes(c)
      /\ pc'[c] \in {"insert", "drop", "save"}
  BY DEF Step, Quiet, DidChange, Using, Changes, Goto, Types, TypeOK
<1>2. ~Opens(c)' /\ ~Changes(c)'
  BY <1>1 DEF Opens, Changes
<1>3. /\ server[f].open /\ ~server[f].broken
      /\ server[f].version < job[c].note[1] /\ job[c].note[1] <= buffers[Buffer(c)].version
  BY <1>1 DEF InOrder, Tells
<1>4. server[f].version \in Nat /\ job[c].note[1] \in Nat
  BY <1>1 DEF Types, TypeOK, Local, Placed, Changes
<1>5. server'[f].open /\ ~server'[f].broken /\ server'[f].version = job[c].note[1]
  <2> DEFINE s == server[f]
  <2>1. \E text : server' = [server EXCEPT ![f] =
          [s EXCEPT !.text = text, !.version = job[c].note[1],
                    !.broken = s.broken \/ job[c].note[1] <= s.version]]
    BY <1>1, <1>3 DEF DidChange
  <2>2. s \in [open : BOOLEAN, text : Seq(Int), version : Nat, broken : BOOLEAN]
    BY DEF Types, TypeOK
  <2>3. ~(job[c].note[1] <= s.version)
    BY <1>3, <1>4
  <2> HIDE DEF s
  <2>4. PICK text : server'[f] =
          [s EXCEPT !.text = text, !.version = job[c].note[1],
                    !.broken = s.broken \/ job[c].note[1] <= s.version]
    BY <2>1 DEF Types, TypeOK
  <2> QED BY <1>3, <2>2, <2>3, <2>4 DEF s
<1>6. job'[c].held = job[c].held
  BY <1>1, QuietOwn
<1>7. Buffer(c)' = Buffer(c)
  BY <1>6 DEF Buffer
<1>8. \A d \in Threads : Using(d, f)' => Using(d, f) /\ Buffer(d)' = Buffer(c)
  <2>1. \A d \in Threads : Using(d, f) => Buffer(d) = Buffer(c)
    BY OneInUse
  <2> QED BY <1>1, <1>7, <2>1, OtherUsing
<1>9. \A d \in Threads : Using(d, f)' => ~Opens(d)' /\ ~Changes(d)'
  <2>1. ASSUME NEW d \in Threads, d # c, Using(d, f), Changes(d) PROVE FALSE
    <3>1. c \in InFlight(f) /\ Edits(c) /\ d \in InFlight(f) /\ Edits(d)
      BY <1>1, <2>1, ChangesEdit DEF Using
    <3> QED BY <2>1, <3>1 DEF OneEditor
  <2>2. \A d \in Threads : Using(d, f) => ~Opens(d)
    BY <1>3 DEF InOrder
  <2> QED BY <1>1, <1>2, <1>8, <2>1, <2>2, OtherUsing
<1> QED BY <1>1, <1>3, <1>5, <1>8, <1>9 DEF InOrder

\* What didOpen and the end of an opening are followed by.
LEMMA NextStep ==
  ASSUME Types, Local, NEW c \in Threads, pc[c] = "ensure" \/ Opens(c)
  PROVE  /\ job[c].next \in {"store", "look", "ask", "insert", "open", "delete"}
         /\ (Lazy(c) /\ job[c].next # "ask") => job[c].next \in {"store", "look"}
<1>1. job[c].next \in {"store", Inside(c, Depth(c))} \/ job[c].next = "ask"
  BY DEF Local, Placed, Opens
<1>2. Doing(c) \in {"ask", "edit"}
  BY DepthBound, Mine DEF Opens
<1>3. /\ Inside(c, Depth(c)) \in {"look", "ask", "insert", "open", "delete"}
      /\ Lazy(c) => Inside(c, Depth(c)) = "look"
  BY <1>2 DEF Inside, Lazy
<1> QED BY <1>1, <1>3

LEMMA DidOpenOrder ==
  ASSUME Types, Local, Table, NEW f \in Files, Exclusive(f), InOrder(f), NEW c \in Threads,
         DidOpen(c), Using(c, f)
  PROVE  InOrder(f)'
<1>1. /\ Step(c) /\ Quiet(c) /\ buffers' = buffers /\ File(c) = f /\ Opens(c)
      /\ pc'[c] = job[c].next
  BY DEF Step, Quiet, DidOpen, Using, Opens, Goto, Types, TypeOK
<1>2. ~Opens(c)' /\ ~Changes(c)'
  BY <1>1, NextStep DEF Opens, Changes
<1>3. /\ ~server[f].open /\ ~server[f].broken
      /\ \A d \in Threads : Using(d, f) /\ Opens(d) => d = c
  BY <1>1 DEF InOrder
<1>4. server'[f].open /\ ~server'[f].broken /\ server'[f].version = 0
  <2>1. server'[f] = [open |-> TRUE, text |-> job[c].note, version |-> 0,
                      broken |-> server[f].broken \/ server[f].open]
    BY <1>1 DEF DidOpen, Types, TypeOK
  <2>2. /\ server'[f].open /\ server'[f].version = 0
        /\ server'[f].broken = (server[f].broken \/ server[f].open)
    BY <2>1
  <2> QED BY <1>3, <2>2
<1>5. job'[c].held = job[c].held
  BY <1>1, QuietOwn
<1>6. Buffer(c)' = Buffer(c)
  BY <1>5 DEF Buffer
<1>7. \A d \in Threads : Using(d, f)' => Using(d, f) /\ Buffer(d)' = Buffer(c)
  <2>1. \A d \in Threads : Using(d, f) => Buffer(d) = Buffer(c)
    BY OneInUse
  <2> QED BY <1>1, <1>6, <2>1, OtherUsing
<1>8. \A d \in Threads : Using(d, f)' => ~Opens(d)' /\ ~Changes(d)'
  <2>1. \A d \in Threads : Using(d, f) => ~Changes(d)
    BY <1>3 DEF InOrder, Tells
  <2> QED BY <1>1, <1>2, <1>3, <1>7, <2>1, OtherUsing
<1>9. 0 <= buffers[Buffer(c)].version
  BY <1>1, DepthBound DEF Using, Types, TypeOK
<1> QED BY <1>1, <1>4, <1>7, <1>8, <1>9 DEF InOrder

\* The server has open only what a call in a with-block of the file has opened.
LEMMA OpenIsUsed ==
  ASSUME Types, Local, Table, NEW f \in Files, Exclusive(f), server[f].open
  PROVE  \E d \in Threads : Using(d, f) /\ buffers[Buffer(d)].opened
<1>1. PICK d \in Threads : \E i \in 1 .. Depth(d) : File(d) = f /\ buffers[job[d].held[i]].opened
  BY DEF Table, ServerHeld, Intact
<1>2. PICK i \in 1 .. Depth(d) : File(d) = f /\ buffers[job[d].held[i]].opened
  BY <1>1
<1>3. Using(d, f)
  BY <1>2, DepthBound DEF Using
<1>4. job[d].held[i] = Buffer(d)
  BY <1>2, <1>3, OneInUse
<1> QED BY <1>2, <1>3, <1>4

\* Nobody else is in a gap when a look-up or an opening goes unnoticed.
LEMMA NobodyBetween ==
  ASSUME Types, NEW c \in Threads, NEW f \in Files, File(c) = f, Open(c) \/ EnsureOpen(c),
         "window" \notin stirred'[f], NEW d \in Threads, d # c, File(d) = f
  PROVE  ~Opens(d) /\ pc[d] # "del" /\ ~Creating(d)
<1>1. "window" \notin OthersBetween(c)
  <2>1. CASE Open(c)
    BY <2>1 DEF Open, Stir, Types, TypeOK
  <2>2. CASE EnsureOpen(c)
    <3>1. \/ stirred' = Stir(f, OthersBetween(c))
          \/ stirred' = Stir(f, OthersBetween(c) \cup Truncated(c))
      BY <2>2 DEF EnsureOpen
    <3> QED BY <3>1 DEF Stir, Types, TypeOK
  <2> QED BY <2>1, <2>2
<1>2. Between(f) \ {c} = {}
  BY <1>1 DEF OthersBetween
<1>3. d \notin Between(f)
  BY <1>2
<1>4. /\ pc[d] \notin {"did open", "store", "close", "del"}
      /\ ~(pc[d] = "ensure" /\ job[d].next = "store")
  BY <1>3 DEF Between
<1> QED BY <1>4 DEF Opens, Creating

LEMMA EnsureOpenOrder ==
  ASSUME Types, Local, Table, NEW f \in Files, Exclusive(f), InOrder(f), NEW c \in Threads,
         EnsureOpen(c), Using(c, f), "window" \notin stirred'[f]
  PROVE  InOrder(f)'
<1>1. /\ Step(c) /\ Quiet(c) /\ server' = server /\ File(c) = f /\ pc[c] = "ensure"
      /\ ~Opens(c) /\ ~Changes(c) /\ ~Tells(c)
  BY DEF Step, Quiet, EnsureOpen, Using, Opens, Changes, Tells
<1>2. \A d \in Threads : d # c /\ Using(d, f) => ~Opens(d) /\ pc[d] # "del"
  BY <1>1, NobodyBetween DEF Using
<1>3. job'[c].held = job[c].held /\ File(c)' = File(c)
  BY <1>1, QuietOwn DEF Using
<1>4. Buffer(c)' = Buffer(c) /\ Depth(c)' = Depth(c)
  BY <1>3 DEF Buffer, Depth
<1>5. Buffer(c) \in BufferIds
  BY DepthBound DEF Using
<1>6. CASE UNCHANGED buffers
  <2>1. CASE Opened(c)
    <3>1. pc'[c] = job[c].next /\ job' = job
      BY <1>1, <2>1 DEF EnsureOpen, Goto, Types, TypeOK
    <3>2. ~Opens(c)' /\ ~Changes(c)'
      BY <1>1, <3>1, NextStep DEF Opens, Changes
    <3>3. Tells(c)' => server[f].open
      <4>1. CASE buffers[Buffer(c)].opened
        <5>1. server[f].open \/ \E d \in Threads : Using(d, f) /\ Opens(d)
          BY <1>1, <4>1 DEF InOrder
        <5> QED BY <1>1, <1>2, <5>1
      <4>2. CASE Lazy(c) /\ job[c].next # "ask"
        <5>1. Lazy(c)'
          BY <3>1, <4>2 DEF Lazy, Doing, Phase
        <5>2. pc'[c] \in {"store", "look"}
          BY <1>1, <3>1, <4>2, NextStep
        <5> QED BY <3>2, <5>1, <5>2 DEF Tells
      <4> QED BY <2>1, <4>1, <4>2 DEF Opened
    <3>4. Using(c, f)' => Stays(c, f)
      BY <1>1, <1>4, <1>6, <3>2, <3>3 DEF Stays, SameDocument
    <3> QED BY <1>1, <1>6, <3>4, OwnOrder
  <2>2. CASE ~Opened(c)
    <3>1. buffers'[Buffer(c)] = [Fresh(Buffer(c)) EXCEPT !.opened = TRUE]
      BY <1>5, <2>2 DEF EnsureOpen, Types, TypeOK
    <3>2. Fresh(Buffer(c)) \in BufferType
      BY <1>1, <1>5, HeldFile, FreshTyped DEF Using
    <3>3. buffers'[Buffer(c)].opened
      BY <3>1, <3>2 DEF BufferType
    <3> QED BY <1>6, <2>2, <3>3 DEF Opened
  <2> QED BY <2>1, <2>2
<1>7. CASE ~ UNCHANGED buffers
  <2>1. /\ ~buffers[Buffer(c)].opened
        /\ buffers' = [buffers EXCEPT ![Buffer(c)] = [Fresh(Buffer(c)) EXCEPT !.opened = TRUE]]
        /\ pc'[c] = "did open"
    BY <1>7 DEF EnsureOpen, Opened, Goto, Types, TypeOK
  <2>2. Opens(c)' /\ ~Changes(c)' /\ ~Tells(c)' /\ Using(c, f)'
    BY <1>1, <1>3, <1>4, <2>1 DEF Opens, Changes, Tells, Using
  <2>3. ~server[f].open
    <3> SUFFICES ASSUME server[f].open PROVE FALSE
      OBVIOUS
    <3>1. PICK d \in Threads : Using(d, f) /\ buffers[Buffer(d)].opened
      BY OpenIsUsed
    <3>2. Buffer(d) = Buffer(c)
      BY <3>1, OneInUse
    <3> QED BY <2>1, <3>1, <3>2
  <2>4. \A d \in Threads : Using(d, f) => ~Tells(d) /\ ~Changes(d)
    BY <2>3 DEF InOrder, Tells
  <2>5. \A d \in Threads : d # c /\ Using(d, f)' => ~Opens(d)' /\ ~Tells(d)' /\ ~Changes(d)'
    BY <1>1, <1>2, <2>4, OtherUsing
  <2>6. ~server[f].broken
    BY DEF InOrder
  <2> QED BY <1>1, <2>2, <2>3, <2>5, <2>6 DEF InOrder
<1> QED BY <1>6, <1>7

\* An opening that fails and goes unnoticed leaves nobody who uses the file.
LEMMA OpenFailsOrder ==
  ASSUME Types, Local, Table, NEW f \in Files, Exclusive(f), InOrder(f), NEW c \in Threads,
         OpenFails(c), Using(c, f), "unread" \notin stirred'[f]
  PROVE  InOrder(f)'
<1>1. /\ Step(c) /\ server' = server /\ File(c) = f /\ pc[c] = "ensure"
      /\ Buffer(c) \in BufferIds /\ Depth(c) \in 1 .. 2 /\ Depth(c) \in 1 .. Depth(c)
      /\ Buffer(c) = job[c].held[Depth(c)]
  BY DepthBound DEF Step, OpenFails, Using
<1>2. ~Lazy(c) /\ ~HeldElsewhere(Buffer(c), c) /\ open_file_buffers[f] # Buffer(c)
  BY <1>1 DEF OpenFails, Stir, Types, TypeOK
<1>3. Depth(c) = 1 /\ \A d \in Threads \ {c} : ~Using(d, f)
  BY <1>1, <1>2 DEF Exclusive, Using
<1>4. Depth(c)' = Depth(c) - 1
  BY <1>2, OpenFailsKeeps
<1>5. \A d \in Threads : ~Using(d, f)'
  <2>1. ~Using(c, f)'
    BY <1>3, <1>4 DEF Using
  <2> QED BY <1>1, <1>3, <2>1, OtherUsing
<1> QED BY <1>1, <1>5 DEF InOrder

\* A with-block is entered: with the buffer in use, or with a new one when there is none.
LEMMA OpenOrder ==
  ASSUME Types, Local, Table, NEW f \in Files, Exclusive(f), InOrder(f), NEW c \in Threads,
         Open(c), File(c) = f, "window" \notin stirred'[f], LostNoted(f), "unread" \notin stirred[f]
  PROVE  InOrder(f)'
<1> DEFINE b == open_file_buffers[f]
           new == CHOOSE g \in Garbage : TRUE
<1>1. /\ Step(c) /\ server' = server /\ pc[c] = "open" /\ ~Creating(c)
      /\ ~(Marks(c) \/ Counts(c)) /\ ~Opens(c) /\ ~Changes(c) /\ ~Tells(c)
  BY DEF Step, Open, Creating, Marks, EnsureOpen, OpenFails, Counts, Delete, Insert, ReadFails, Opens,
         Changes, Tells
<1>2. \A d \in Threads : d # c /\ Using(d, f) => ~Opens(d) /\ pc[d] # "del" /\ ~Creating(d)
  BY NobodyBetween DEF Using
<1>3. \A d \in Threads : Using(d, f) => open_file_buffers[f] = Buffer(d) /\ Buffer(d) \in BufferIds
  <2> SUFFICES ASSUME NEW d \in Threads, Using(d, f)
               PROVE  open_file_buffers[f] = Buffer(d) /\ Buffer(d) \in BufferIds
    OBVIOUS
  <2>1. ~Creating(d)
    BY <1>1, <1>2
  <2> QED BY <2>1, OneInUse, DepthBound DEF Using
<1>4. CASE FailWith(c, "assertion", job[c])
  <2>1. CASE Using(c, f)
    BY <1>4, <2>1, PlainOrder
  <2>2. CASE ~Using(c, f)
    <3>1. job'[c].held = job[c].held
      BY <1>4, FailKeeps
    <3>2. ~Using(c, f)'
      BY <2>2, <3>1 DEF Using, Depth
    <3> QED BY <1>1, <2>2, <3>2, ElsewhereOrder
  <2> QED BY <2>1, <2>2
<1>5. CASE ~FailWith(c, "assertion", job[c])
  <2>1. PICK a, step :
          /\ SetJob(c, [job[c] EXCEPT !.held = Append(@, a), !.next = step])
          /\ Goto(c, "ensure")
          /\ \/ /\ b = 0 /\ a = new
                /\ buffers' = [buffers EXCEPT ![new] = [NoBuffer EXCEPT !.file = f, !.refs = 1]]
             \/ b # 0 /\ a = b /\ buffers' = [buffers EXCEPT ![b].refs = @ + 1]
    <3>1. CASE /\ b = 0 /\ SetJob(c, [job[c] EXCEPT !.held = Append(@, new), !.next = "store"])
               /\ Goto(c, "ensure")
               /\ buffers' = [buffers EXCEPT ![new] = [NoBuffer EXCEPT !.file = f, !.refs = 1]]
      BY <3>1, Zenon
    <3>2. CASE /\ b # 0
               /\ SetJob(c, [job[c] EXCEPT !.held = Append(@, b), !.next = Inside(c, Depth(c) + 1)])
               /\ Goto(c, "ensure") /\ buffers' = [buffers EXCEPT ![b].refs = @ + 1]
      BY <3>2, Zenon
    <3> QED BY <1>5, <3>1, <3>2 DEF Open
  <2>2. f \in Files /\ b \in BufferIds \cup {0} /\ new \in Garbage
    <3>1. Garbage # {}
      BY <1>1, GarbageExists DEF Table
    <3> QED BY <3>1 DEF Types, TypeOK
  <2>3. a \in BufferIds
    BY <2>1, <2>2 DEF Garbage
  <2> HIDE DEF new, b
  <2>4. pc'[c] = "ensure" /\ ~Opens(c)' /\ ~Changes(c)' /\ ~Tells(c)'
    BY <2>1 DEF Goto, Types, TypeOK, Opens, Changes, Tells
  <2>5. job'[c].held = Append(job[c].held, a) /\ File(c)' = f
    <3>1. job'[c] = [job[c] EXCEPT !.held = Append(@, a), !.next = step]
      BY <2>1 DEF SetJob, Types
    <3> QED BY <3>1, Mine DEF JobType, File, Phase
  <2>6. Buffer(c)' = a
    BY <2>3, <2>5, Mine DEF Buffer, Last
  <2>7. \A d \in Threads : d # c /\ Using(d, f) => SameDocument(Buffer(d))
    BY <1>1, OtherSame DEF Using
  <2>8. CASE b = 0
    <3>1. \A d \in Threads : ~Using(d, f)
      BY <1>3, <2>8, NotZero DEF b
    <3>2. ~server[f].open
      BY <3>1, OpenIsUsed
    <3>3. ~server[f].broken
      BY DEF InOrder
    <3>4. \A d \in Threads : Using(d, f)' => d = c
      BY <1>1, <3>1, OtherUsing
    <3>5. ~buffers'[a].opened
      <4>1. a = new /\ buffers' = [buffers EXCEPT ![new] = [NoBuffer EXCEPT !.file = f, !.refs = 1]]
        BY <2>1, <2>8
      <4>2. buffers'[a] = [NoBuffer EXCEPT !.file = f, !.refs = 1]
        BY <2>3, <4>1 DEF Types, TypeOK
      <4> QED BY <4>2 DEF NoBuffer
    <3> QED BY <1>1, <2>4, <2>6, <3>2, <3>3, <3>4, <3>5 DEF InOrder
  <2>9. CASE b # 0
    <3>1. a = b /\ buffers' = [buffers EXCEPT ![b].refs = @ + 1] /\ b \in BufferIds
      BY <2>1, <2>2, <2>9
    <3>2. buffers'[a] = [buffers[b] EXCEPT !.refs = @ + 1]
      BY <3>1 DEF Types, TypeOK
    <3>3. buffers'[a].opened = buffers[b].opened /\ buffers'[a].version = buffers[b].version
      <4>1. buffers[b] \in BufferType
        BY <3>1, FreshKeeps
      <4> QED BY <3>2, <4>1 DEF BufferType
    <3>4. PICK e \in Threads : Using(e, f)
      <4>0. ~(buffers[b].lost > 0)
        BY <2>2, <2>9 DEF LostNoted, InUse, b
      <4>1. PICK e \in Threads : \E i \in 1 .. Depth(e) : job[e].held[i] = b
        BY <2>9, <4>0 DEF Table, Registered, b
      <4>2. buffers[b].file = f
        BY <2>9 DEF Table, Registered, b
      <4>3. Depth(e) # 0 /\ File(e) = f
        BY <4>1, <4>2, DepthBound DEF Table, HeldTyped
      <4> QED BY <4>3 DEF Using
    <3>5. Buffer(e) = b
      BY <1>3, <3>4 DEF b
    <3>6. /\ buffers[b].opened => server[f].open
          /\ server[f].open => server[f].version <= buffers[b].version
      <4>1. \A d \in Threads : Using(d, f) => ~Opens(d)
        BY <1>1, <1>2
      <4>2. pc[e] # "del"
        BY <1>1, <1>2, <3>4
      <4> QED BY <3>4, <3>5, <4>1, <4>2 DEF InOrder
    <3>7. ASSUME NEW d \in Threads, Using(d, f)'
          PROVE  (/\ Opens(d) => ~server[f].open /\ \A g \in Threads : Using(g, f) /\ Opens(g) => g = d
                  /\ (buffers[Buffer(d)].opened /\ pc[d] # "del") => server[f].open
                  /\ Tells(d) => server[f].open
                  /\ server[f].open => server[f].version <= buffers[Buffer(d)].version
                  /\ Changes(d) => /\ server[f].version < job[d].note[1]
                                   /\ job[d].note[1] <= buffers[Buffer(d)].version)'
      <4>1. CASE d = c
        BY <1>1, <2>4, <2>6, <3>3, <3>6, <4>1
      <4>2. CASE d # c
        <5>1. Using(d, f) /\ Buffer(d)' = Buffer(d) /\ SameDocument(Buffer(d)) /\ Buffer(d) = b
          BY <1>1, <1>3, <2>7, <3>7, <4>2, OtherUsing DEF b
        <5>2. ~Opens(d)' /\ (Tells(d)' => Tells(d)) /\ (Changes(d)' => Changes(d) /\ job'[d] = job[d])
          BY <1>1, <1>2, <4>2, <5>1, OtherUsing
        <5> QED BY <1>1, <3>6, <5>1, <5>2 DEF InOrder, SameDocument
      <4> QED BY <4>1, <4>2
    <3>8. ~server[f].broken
      BY DEF InOrder
    <3> QED BY <1>1, <3>7, <3>8 DEF InOrder
  <2> QED BY <2>8, <2>9
<1> QED BY <1>4, <1>5

-----------------------------------------------------------------------------
(* The invariant.                                                            *)

\* A thread comes to use a file by opening it.
LEMMA StaysOut ==
  ASSUME Types, Local, Table, NEW c \in Threads, Step(c), NEW f \in Files, ~Using(c, f),
         ~(Open(c) /\ File(c) = f)
  PROVE  ~Using(c, f)'
<1>1. CASE Quiet(c)
  <2>1. job'[c].held = job[c].held /\ (Depth(c) # 0 => File(c)' = File(c))
    BY <1>1, QuietOwn
  <2> QED BY <2>1 DEF Using, Depth
<1>2. CASE Open(c) /\ ~FailWith(c, "assertion", job[c])
  <2>1. \E x, y : SetJob(c, [job[c] EXCEPT !.held = x, !.next = y])
    BY <1>2, Zenon DEF Open
  <2>2. job'[c].plan = job[c].plan
    BY <2>1, Mine DEF SetJob, Types, JobType
  <2>3. File(c)' = File(c)
    BY <2>2 DEF File, Phase
  <2> QED BY <1>2, <2>3 DEF Using
<1>3. CASE Drop(c) \/ Close(c) \/ Del(c)
  <2>1. Depth(c) # 0 /\ pc[c] \in {"drop", "close", "del"}
    BY <1>3, DepthBound DEF Drop, Close, Del
  <2>2. CASE UNCHANGED job
    BY <2>1, <2>2 DEF Using, File, Phase, Depth
  <2>3. CASE pc[c] # "close" /\ \E why : AfterDrop(c, [job[c] EXCEPT !.held = Front(@), !.failed = why])
    <3>1. PICK why : AfterDrop(c, [job[c] EXCEPT !.held = Front(@), !.failed = why])
      BY <2>3
    <3>2. Depth(c)' # 0 => File(c)' = File(c)
      BY <2>1, <2>3, <3>1, LeaveKeeps
    <3> QED BY <2>1, <3>2 DEF Using
  <2>4. CASE Drop(c)
    BY <2>2, <2>3, <2>4, DropLeaves DEF Drop
  <2>5. CASE Close(c)
    BY <2>2, <2>5 DEF Close
  <2>6. CASE Del(c)
    <3>1. \E why : AfterDrop(c, [job[c] EXCEPT !.held = Front(@), !.failed = why])
      BY <2>6, DelLeaves
    <3> QED BY <2>3, <2>6, <3>1 DEF Del
  <2> QED BY <1>3, <2>4, <2>5, <2>6
<1>4. CASE OpenFails(c) /\ ~Lazy(c)
  <2>1. Depth(c) # 0 /\ (Depth(c)' # 0 => File(c)' = File(c))
    BY <1>4, OpenFailsKeeps, DepthBound DEF OpenFails
  <2> QED BY <2>1 DEF Using
<1> QED BY <1>1, <1>2, <1>3, <1>4 DEF Step, Quiet

LEMMA ServerElsewhere ==
  ASSUME Types, Local, NEW c \in Threads, Step(c), NEW f \in Files, ~Using(c, f), ~server[f].broken
  PROVE  server'[f] = server[f]
<1>1. CASE Return(c)
  <2>1. server'[f] \in {server[f], [server[f] EXCEPT !.broken = FALSE]}
    BY <1>1 DEF Return
  <2>2. server[f] \in [open : BOOLEAN, text : Seq(Int), version : Nat, broken : BOOLEAN]
    BY DEF Types, TypeOK
  <2>3. [server[f] EXCEPT !.broken = FALSE] = server[f]
    BY <2>2
  <2> QED BY <2>1, <2>3
<1>2. CASE DidOpen(c) \/ Close(c) \/ DidChange(c)
  <2>1. File(c) # f
    BY <1>2, DepthBound DEF DidOpen, Close, DidChange, Using
  <2>2. \E r : server' = server \/ server' = [server EXCEPT ![File(c)] = r]
    BY <1>2, Zenon DEF DidOpen, Close, DidChange
  <2> QED BY <2>1, <2>2 DEF Types, TypeOK
<1>3. CASE ~Return(c) /\ ~(DidOpen(c) \/ Close(c) \/ DidChange(c))
  <2>1. server' = server
    BY <1>3 DEF Step, Begin, Open, EnsureOpen, OpenFails, ReadFails, Store, Drop, Del, LookInCache, Ask,
                Validate, Delete, Insert, Save, Truncate, Put, Stamp
  <2> QED BY <2>1
<1> QED BY <1>1, <1>2, <1>3

LEMMA OutsideOrder ==
  ASSUME Types, Local, NEW g \in Files, Outside(g), NEW f \in Files, InOrder(f)
  PROVE  InOrder(f)'
<1>1. UNCHANGED <<server, pc, job>> /\ (UNCHANGED buffers \/ \E text : Written(g, text))
  BY DEF Outside, WriteOutside, RemoveOutside, RestoreOutside
<1>2. \A d \in Threads : /\ Using(d, f)' <=> Using(d, f)
                         /\ Buffer(d)' = Buffer(d) /\ (Opens(d)' <=> Opens(d))
                         /\ Tells(d)' <=> Tells(d)
                         /\ Changes(d)' <=> Changes(d)
  BY <1>1 DEF Using, Depth, File, Phase, Buffer, Opens, Tells, Changes, Lazy, Doing
<1>3. \A d \in Threads : Using(d, f) => SameDocument(Buffer(d))
  <2>1. \A d \in Threads : Using(d, f) => Buffer(d) \in BufferIds
    BY DepthBound DEF Using
  <2>2. CASE UNCHANGED buffers
    BY <2>2 DEF SameDocument
  <2>3. CASE \E text : Written(g, text)
    BY <2>1, <2>3, WrittenSame
  <2> QED BY <1>1, <2>2, <2>3
<1> QED BY <1>1, <1>2, <1>3, KeepsOrder DEF Stays

\* A step of a thread, while the file stays undisturbed.
LEMMA OrderStep ==
  ASSUME Types, Local, Table, NEW f \in Files, Exclusive(f), InOrder(f), OneEditor(f),
         "window" \notin stirred'[f], "unread" \notin stirred[f], "unread" \notin stirred'[f],
         LostNoted(f), NEW c \in Threads, Step(c)
  PROVE  InOrder(f)'
<1>1. CASE Open(c) /\ File(c) = f
  BY <1>1, OpenOrder
<1>2. CASE ~Using(c, f) /\ ~(Open(c) /\ File(c) = f)
  <2>1. server'[f] = server[f]
    BY <1>2, ServerElsewhere DEF InOrder
  <2> QED BY <1>2, <2>1, StaysOut, ElsewhereOrder
<1>3. CASE Using(c, f) /\ ~(Open(c) /\ File(c) = f)
  <2>1. ~(Begin(c) \/ Return(c) \/ Validate(c) \/ Open(c))
    BY <1>3, DepthBound DEF Begin, Return, Validate, Using
  <2>2. CASE EnsureOpen(c)
    BY <1>3, <2>2, EnsureOpenOrder
  <2>3. CASE DidOpen(c)
    BY <1>3, <2>3, DidOpenOrder
  <2>4. CASE Drop(c)
    BY <1>3, <2>4, DropOrder
  <2>5. CASE Close(c)
    BY <1>3, <2>5, CloseOrder
  <2>6. CASE Del(c)
    BY <1>3, <2>6, DelOrder
  <2>7. CASE Delete(c) \/ Insert(c)
    BY <1>3, <2>7, ChangeOrder
  <2>8. CASE DidChange(c)
    BY <1>3, <2>8, DidChangeOrder
  <2>9. CASE Store(c) \/ LookInCache(c) \/ Ask(c) \/ Save(c) \/ Truncate(c) \/ Put(c) \/ Stamp(c)
    BY <1>3, <2>9, PlainOrder
  <2>10. CASE OpenFails(c)
    BY <1>3, <2>10, OpenFailsOrder
  <2>11. CASE ReadFails(c)
    <3>1. UNCHANGED buffers \/ pc[c] \in {"delete", "insert"}
      BY <2>11 DEF ReadFails
    <3> QED BY <1>3, <2>11, <3>1, PlainOrder, ChangeOrder
  <2> QED BY <2>1, <2>2, <2>3, <2>4, <2>5, <2>6, <2>7, <2>8, <2>9, <2>10, <2>11 DEF Step
<1> QED BY <1>1, <1>2, <1>3

LEMMA ProtocolStep ==
  ASSUME Types, Local, Table, AloneInGaps, Noticed, ProtocolInv, Next
  PROVE  ProtocolInv'
<1> SUFFICES ASSUME NEW f \in Files
             PROVE  /\ "edit" \notin stirred'[f] => OneEditor(f)'
                    /\ stirred'[f] \cap {"window", "edit", "unread"} = {} => InOrder(f)'
  BY DEF ProtocolInv
<1>1. "edit" \notin stirred'[f] => OneEditor(f)'
  BY OneEditorStep DEF ProtocolInv
<1>2. ASSUME stirred'[f] \cap {"window", "edit", "unread"} = {} PROVE InOrder(f)'
  <2>1. CASE stirred[f] \cap {"window", "edit", "unread"} # {}
    <3>1. PICK kind \in {"window", "edit", "unread"} : kind \in stirred[f] /\ kind \notin stirred'[f]
      BY <1>2, <2>1
    <3>2. PICK c \in Threads : Return(c) /\ InFlight(f) \subseteq {c}
      BY <3>1, KindStays
    <3>3. InFlight(f)' = {}
      BY <3>2, NobodyLeft
    <3>4. Types' /\ Local'
      BY TypesStep, LocalStep
    <3>5. (\A d \in Threads : \A g \in Files : Using(d, g) => d \in InFlight(g))'
      BY <3>4, UsingInFlight, PTL
    <3>6. \A d \in Threads : ~Using(d, f)'
      BY <3>3, <3>5
    <3>7. ~server'[f].broken
      <4>1. server'[f] = [server[f] EXCEPT !.broken = FALSE]
        BY <3>2 DEF Return
      <4>2. server[f] \in [open : BOOLEAN, text : Seq(Int), version : Nat, broken : BOOLEAN]
        BY DEF Types, TypeOK
      <4> QED BY <4>1, <4>2
    <3> QED BY <3>6, <3>7 DEF InOrder
  <2>2. CASE stirred[f] \cap {"window", "edit", "unread"} = {}
    <3>1. /\ "window" \notin stirred[f] /\ "edit" \notin stirred[f] /\ "window" \notin stirred'[f]
          /\ "unread" \notin stirred[f] /\ "unread" \notin stirred'[f]
      BY <1>2, <2>2
    <3>2. Exclusive(f) /\ OneEditor(f) /\ InOrder(f) /\ LostNoted(f)
      BY <2>2, <3>1 DEF AloneInGaps, ProtocolInv, Noticed
    <3>3. CASE \E g \in Files : Outside(g)
      BY <3>2, <3>3, OutsideOrder
    <3>4. CASE \E c \in Threads : Step(c)
      BY <3>1, <3>2, <3>4, OrderStep
    <3> QED BY <3>3, <3>4 DEF Next
  <2> QED BY <2>1, <2>2
<1> QED BY <1>1, <1>2

THEOREM OrderKept == Spec => [](SessionsInv /\ AloneInGaps /\ Noticed /\ ProtocolInv)
<1>1. Init => ProtocolInv
  <2> SUFFICES ASSUME Init, NEW f \in Files PROVE OneEditor(f) /\ InOrder(f)
    BY DEF ProtocolInv
  <2>1. \A c \in Threads : Depth(c) = 0 /\ pc[c] = "idle"
    BY DEF Init, NoJob, Depth
  <2>2. ~server[f].broken
    BY DEF Init, Unopened
  <2> QED BY <2>1, <2>2 DEF OneEditor, InOrder, InFlight, Using
<1>2. SessionsInv /\ AloneInGaps /\ Noticed /\ ProtocolInv /\ [Next]_vars => ProtocolInv'
  <2> SUFFICES ASSUME SessionsInv, AloneInGaps, Noticed, ProtocolInv, [Next]_vars PROVE ProtocolInv'
    OBVIOUS
  <2>1. CASE Next
    BY <2>1, ProtocolStep DEF SessionsInv
  <2>2. CASE UNCHANGED vars
    <3>1. UNCHANGED <<buffers, server, pc, job, stirred>>
      BY <2>2 DEF vars
    <3>2. ASSUME NEW f \in Files, OneEditor(f) PROVE OneEditor(f)'
      BY <3>1, <3>2 DEF OneEditor, InFlight, Touches, Edits
    <3>3. ASSUME NEW f \in Files, InOrder(f) PROVE InOrder(f)'
      <4>1. \A d \in Threads :
              /\ Using(d, f)' <=> Using(d, f)
              /\ Buffer(d)' = Buffer(d) /\ SameDocument(Buffer(d)) /\ (Opens(d)' <=> Opens(d))
              /\ Tells(d)' <=> Tells(d)
              /\ Changes(d)' <=> Changes(d)
        BY <3>1 DEF Using, Depth, File, Phase, Buffer, Opens, Tells, Changes, Lazy, Doing, SameDocument
      <4> QED BY <3>1, <3>3, <4>1, KeepsOrder DEF Stays
    <3> QED BY <3>1, <3>2, <3>3 DEF ProtocolInv
  <2> QED BY <2>1, <2>2
<1> QED BY <1>1, <1>2, NoticedKept, PTL DEF Spec

\* The server is told of a document in the order the protocol asks for, unless openings
\* or edits of the file overlapped or an opening could not read the file.
THEOREM Protocol == Spec => []ProtocolKept
<1>1. ProtocolInv => ProtocolKept
  BY DEF ProtocolInv, ProtocolKept, InOrder
<1> QED BY <1>1, OrderKept, PTL

-----------------------------------------------------------------------------
(* The text that the server was told.                                        *)

\* The text of the buffer is on its way to the file.
Saves(c) == pc[c] \in {"truncate", "put", "stamp"}

Writing(f) == \E c \in Threads : Using(c, f) /\ pc[c] = "put"
Changing(f) == \E c \in Threads : Using(c, f) /\ Changes(c)

\* A file on which nothing interfered but, perhaps, an insertion past its end, after which
\* the server has another text.
Calm(f) == stirred[f] \subseteq {"end"}
Apart(f) == "end" \in stirred[f]
ApartStays(f) == Apart(f) => Apart(f)'

\* Buffer b of file f: what is open has been read, a newer file has the same text unless
\* it is being written, and the server has the text unless it is about to be told of a change.
InStep(b, f) ==
  /\ buffers[b].opened => buffers[b].read
  /\ server[f].open => buffers[b].opened
  /\ (buffers[b].read /\ buffers[b].newer) => buffers[b].text = disk[f] \/ Writing(f)
  /\ (server[f].open /\ ~Apart(f)) => server[f].text = buffers[b].text \/ Changing(f)

\* What the call of c is about to send or to write is the buffer's text.
Carries(c, f) ==
  LET b == Buffer(c)
  IN  /\ Opens(c) => job[c].note = buffers[b].text
      /\ (Changes(c) /\ ~Apart(f)) => buffers[b].text = Mirror(c, server[f].text)
      /\ Saves(c) => job[c].fb = b /\ buffers[b].read /\ job[c].out = buffers[b].text
      /\ pc[c] = "put" => disk[f] = <<>>

Matching(f) == \A c \in Threads : Using(c, f) => InStep(Buffer(c), f) /\ Carries(c, f)

MatchingInv == \A f \in Files : Calm(f) => Matching(f)

\* A buffer keeps its text once it is read, and reads the file at first.
Reads(b) ==
  /\ buffers[b].read => buffers'[b].read /\ buffers'[b].text = buffers[b].text
  /\ buffers'[b].read /\ ~buffers[b].read => buffers'[b].text = disk[buffers[b].file]

\* It is neither opened nor closed, nor is its time older than that of the file for a
\* new reason.
Steady(b) ==
  /\ buffers'[b].opened = buffers[b].opened
  /\ Reads(b)
  /\ buffers'[b].newer => buffers[b].newer /\ buffers'[b].read = buffers[b].read

LEMMA PutSteady ==
  ASSUME Types, NEW a \in BufferIds, NEW r, buffers' = [buffers EXCEPT ![a] = r],
         r.opened = buffers[a].opened,
         buffers[a].read => r.read /\ r.text = buffers[a].text,
         r.read /\ ~buffers[a].read => r.text = disk[buffers[a].file],
         r.newer => buffers[a].newer /\ r.read = buffers[a].read,
         NEW b \in BufferIds
  PROVE  Steady(b)
<1>1. CASE b = a
  BY <1>1 DEF Reads, Steady, Types, TypeOK
<1>2. CASE b # a
  BY <1>2 DEF Reads, Steady, Types, TypeOK
<1> QED BY <1>1, <1>2

\* A count or a time that is set leaves the texts alone.
LEMMA CountSteady ==
  ASSUME Types, Local, NEW c \in Threads, Drop(c) \/ Stamp(c), NEW b \in BufferIds
  PROVE  Steady(b)
<1>1. CASE Drop(c)
  <2>1. Buffer(c) \in BufferIds
    BY <1>1, DepthBound DEF Drop
  <2>2. buffers' = [buffers EXCEPT ![Buffer(c)] = [buffers[Buffer(c)] EXCEPT !.refs = @ - 1]]
    BY <1>1, <2>1 DEF Drop, Types, TypeOK
  <2>3. LET r == [buffers[Buffer(c)] EXCEPT !.refs = @ - 1]
        IN  /\ r.opened = buffers[Buffer(c)].opened /\ r.read = buffers[Buffer(c)].read
            /\ r.text = buffers[Buffer(c)].text /\ r.newer = buffers[Buffer(c)].newer
    BY <2>1, FreshKeeps DEF BufferType
  <2> QED BY <2>1, <2>2, <2>3, PutSteady
<1>2. CASE Stamp(c)
  <2>1. job[c].fb \in BufferIds
    BY <1>2, Mine DEF Stamp, Local, Placed, JobType
  <2>2. buffers' = [buffers EXCEPT ![job[c].fb] = [buffers[job[c].fb] EXCEPT !.newer = FALSE]]
    BY <1>2 DEF Stamp
  <2> DEFINE b0 == buffers[job[c].fb]
             r  == [b0 EXCEPT !.newer = FALSE]
  <2>4. b0 \in BufferType
    BY <2>1, FreshKeeps
  <2> HIDE DEF b0
  <2>3. r.opened = b0.opened /\ r.read = b0.read /\ r.text = b0.text /\ ~r.newer
    BY <2>4 DEF BufferType
  <2> USE DEF b0
  <2> QED BY <2>1, <2>2, <2>3, PutSteady
<1> QED BY <1>1, <1>2

\* A step changes the text of the buffer that it is about, and marks those of a file
\* that it writes.
LEMMA TextKept ==
  ASSUME Types, Local, Table, NEW c \in Threads, Step(c), NEW b \in BufferIds,
         NEW d \in Threads, NEW i \in 1 .. Depth(d), i \in 1 .. Depth(d)',
         job[d].held[i] = b, job'[d].held[i] = b,
         ~((EnsureOpen(c) \/ OpenFails(c) \/ LookInCache(c)) /\ b = Buffer(c)),
         ~((Delete(c) \/ Insert(c) \/ ReadFails(c) \/ Save(c)) /\ b = open_file_buffers[File(c)]),
         ~((Truncate(c) \/ Put(c)) /\ buffers[b].file = File(c))
  PROVE  Steady(b)
<1>1. Placed(c)
  BY DEF Local
<1>2. CASE buffers'[b] = buffers[b]
  BY <1>2 DEF Reads, Steady
<1>3. b \notin Garbage
  <2>1. b \in ToSet(job[d].held)
    BY DEF ToSet, Depth
  <2> QED BY <2>1 DEF Garbage
<1>4. CASE Open(c)
  <2> DEFINE a == open_file_buffers[File(c)]
             new == CHOOSE g \in Garbage : TRUE
  <2>1. pc[c] = "open" /\ File(c) \in Files
    BY <1>1, <1>4, Mine DEF Open, Placed
  <2>2. new \in Garbage
    BY <2>1, GarbageExists DEF Table
  <2>3. a \in BufferIds \cup {0}
    BY <2>1 DEF Types, TypeOK
  <2>4. \/ buffers' = [buffers EXCEPT ![new] = [NoBuffer EXCEPT !.file = File(c), !.refs = 1]]
        \/ a # 0 /\ buffers' = [buffers EXCEPT ![a].refs = @ + 1]
        \/ UNCHANGED buffers
    BY <1>4, Zenon DEF Open
  <2> HIDE DEF a, new
  <2>5. CASE buffers' = [buffers EXCEPT ![new] = [NoBuffer EXCEPT !.file = File(c), !.refs = 1]]
    BY <1>2, <1>3, <2>2, <2>5 DEF Types, TypeOK
  <2>6. CASE a # 0 /\ buffers' = [buffers EXCEPT ![a].refs = @ + 1]
    <3>1. buffers' = [buffers EXCEPT ![a] = [buffers[a] EXCEPT !.refs = @ + 1]]
      BY <2>3, <2>6 DEF Types, TypeOK
    <3>2. LET r == [buffers[a] EXCEPT !.refs = @ + 1]
          IN  /\ r.opened = buffers[a].opened /\ r.read = buffers[a].read
              /\ r.text = buffers[a].text /\ r.newer = buffers[a].newer
      BY <2>3, <2>6, FreshKeeps DEF BufferType
    <3> QED BY <2>3, <2>6, <3>1, <3>2, PutSteady
  <2> QED BY <1>2, <2>4, <2>5, <2>6
<1>5. CASE Drop(c) \/ Stamp(c)
  BY <1>5, CountSteady
<1>6. CASE Del(c)
  <2>1. Depth(c) \in 1 .. Depth(c) /\ pc[c] = "del" /\ Depth(c) \in 1 .. 2
    BY <1>6, DepthBound DEF Del
  <2>2. Depth(c)' = Depth(c) - 1
    BY <1>6, <2>1, DelLeaves, LeaveKeeps
  <2>3. b # Buffer(c)
    <3> SUFFICES ASSUME b = Buffer(c) PROVE FALSE
      OBVIOUS
    <3>1. d = c /\ i = Depth(c)
      BY <2>1 DEF Table, Closing
    <3> QED BY <2>1, <2>2, <3>1
  <2>4. UNCHANGED buffers \/ buffers' = [buffers EXCEPT ![Buffer(c)] = NoBuffer]
    BY <1>6 DEF Del
  <2> QED BY <1>2, <2>3, <2>4 DEF Types, TypeOK
<1>7. CASE EnsureOpen(c) \/ OpenFails(c) \/ LookInCache(c)
  <2>1. Buffer(c) \in BufferIds /\ b # Buffer(c)
    BY <1>7, DepthBound DEF EnsureOpen, OpenFails, LookInCache
  <2>2. \E r : UNCHANGED buffers \/ buffers' = [buffers EXCEPT ![Buffer(c)] = r]
    <3>1. CASE OpenFails(c)
      BY <2>1, <3>1, OpenFailsBuffers
    <3>2. CASE EnsureOpen(c) \/ LookInCache(c)
      BY <3>2 DEF EnsureOpen, LookInCache
    <3> QED BY <1>7, <3>1, <3>2
  <2> QED BY <1>2, <2>1, <2>2 DEF Types, TypeOK
<1>8. CASE Delete(c) \/ Insert(c) \/ ReadFails(c) \/ Save(c)
  <2>1. File(c) \in Files
    BY <1>8, DepthBound DEF Delete, Insert, ReadFails, Save
  <2>2. \E r : UNCHANGED buffers \/ buffers' = [buffers EXCEPT ![open_file_buffers[File(c)]] = r]
    <3>1. CASE Save(c)
      BY <3>1, Zenon DEF Save
    <3>2. CASE Delete(c) \/ Insert(c)
      BY <2>1, <3>2, ChangeCases DEF Delete, Insert
    <3>3. CASE ReadFails(c)
      BY <3>3, Zenon DEF ReadFails
    <3> QED BY <1>8, <3>1, <3>2, <3>3
  <2> QED BY <1>2, <1>8, <2>2 DEF Types, TypeOK
<1>9. CASE Truncate(c) \/ Put(c)
  <2>1. PICK text : Written(File(c), text)
    BY <1>9 DEF Truncate, Put
  <2>2. buffers[b].file # File(c)
    BY <1>9
  <2>3. buffers'[b] = buffers[b]
    BY <2>1, <2>2 DEF Written
  <2> QED BY <1>2, <2>3
<1>10. CASE \/ Begin(c) \/ Return(c) \/ DidOpen(c) \/ Store(c) \/ Close(c) \/ Ask(c) \/ Validate(c)
            \/ DidChange(c)
  BY <1>2, <1>10 DEF Begin, Return, DidOpen, Store, Close, Ask, Validate, DidChange
<1> QED BY <1>4, <1>5, <1>6, <1>7, <1>8, <1>9, <1>10 DEF Step
-----------------------------------------------------------------------------
(* Steps after which the texts are the same.                                 *)

LEMMA MirrorSame ==
  ASSUME NEW c \in Threads, job'[c] = job[c], pc'[c] = pc[c], NEW f \in Files, server'[f] = server[f]
  PROVE  Mirror(c, server[f].text)' = Mirror(c, server[f].text)
BY DEF Mirror, Place, NewLine, Replaces, Filled, File, Phase

LEMMA KeepsMatching ==
  ASSUME Types, Local, Table, NEW f \in Files, InOrder(f), Matching(f), NEW c \in Threads, Step(c),
         ApartStays(f), disk'[f] = disk[f], server'[f] = server[f],
         Using(c, f) => pc[c] # "put" /\ ~Changes(c),
         \A d \in Threads : Using(d, f)' => /\ \E e \in Threads : Using(e, f) /\ Buffer(e) = Buffer(d)'
                                            /\ Steady(Buffer(d)'),
         Using(c, f)' => Carries(c, f)'
  PROVE  Matching(f)'
<1> SUFFICES ASSUME NEW d \in Threads, Using(d, f)'
             PROVE  InStep(Buffer(d), f)' /\ Carries(d, f)'
  BY DEF Matching
<1>1. PICK b : b = Buffer(d)'
  OBVIOUS
<1>2. InStep(b, f) /\ Steady(b)
  BY <1>1 DEF Matching
<1>3. /\ Writing(f) => Writing(f)'
      /\ Changing(f) => Changing(f)'
  <2>1. ASSUME NEW e \in Threads, Using(e, f), pc[e] = "put" \/ Changes(e)
        PROVE  /\ Using(e, f)'
               /\ pc'[e] = pc[e]
               /\ Changes(e) => Changes(e)'
    BY <2>1, OtherUsing
  <2> QED BY <2>1 DEF Writing, Changing
<1>5. InStep(Buffer(d), f)'
  BY <1>1, <1>2, <1>3 DEF InStep, Reads, Steady, ApartStays
<1>6. CASE d = c
  BY <1>5, <1>6
<1>7. CASE d # c
  <2>1. Using(d, f) /\ Buffer(d) = b /\ job'[d] = job[d] /\ pc'[d] = pc[d]
        /\ (Opens(d)' <=> Opens(d)) /\ (Changes(d)' <=> Changes(d))
    BY <1>1, <1>7, OtherUsing
  <2>2. Carries(d, f)
    BY <2>1 DEF Matching
  <2>3. Opens(d) => buffers[b].read
    BY <1>2, <2>1 DEF Opens, Table, Opening, Intact, InStep
  <2>4. Changes(d) => buffers[b].read
    BY <1>2, <2>1 DEF InOrder, Tells, InStep
  <2>5. (Opens(d) => job[d].note = buffers[Buffer(d)].text)'
    BY <1>1, <1>2, <2>1, <2>2, <2>3 DEF Carries, Reads, Steady
  <2>6. (Changes(d) /\ ~Apart(f) => buffers[Buffer(d)].text = Mirror(d, server[f].text))'
    <3>1. Mirror(d, server[f].text)' = Mirror(d, server[f].text)
      BY <2>1, MirrorSame
    <3> QED BY <1>1, <1>2, <2>1, <2>2, <2>4, <3>1 DEF Carries, Reads, Steady, ApartStays
  <2>7. (Saves(d) => /\ job[d].fb = Buffer(d) /\ buffers[Buffer(d)].read
                     /\ job[d].out = buffers[Buffer(d)].text)'
    BY <1>1, <1>2, <2>1, <2>2 DEF Carries, Reads, Steady, Saves
  <2>8. (pc[d] = "put" => disk[f] = <<>>)'
    BY <2>1, <2>2 DEF Carries
  <2> QED BY <1>5, <2>5, <2>6, <2>7, <2>8 DEF Carries
<1> QED BY <1>6, <1>7

\* A thread that works elsewhere.
LEMMA DiskElsewhere ==
  ASSUME Types, Local, NEW c \in Threads, Step(c), NEW f \in Files, ~Using(c, f)
  PROVE  disk'[f] = disk[f]
<1>1. CASE Truncate(c) \/ Put(c)
  <2>1. File(c) # f
    BY <1>1, DepthBound DEF Truncate, Put, Using
  <2>2. PICK text : disk' = [disk EXCEPT ![File(c)] = text]
    BY <1>1, Zenon DEF Truncate, Put, Written
  <2> QED BY <2>1, <2>2 DEF Types, TypeOK
<1>2. CASE ~(Truncate(c) \/ Put(c))
  <2>1. disk' = disk
    BY <1>2 DEF Step, Begin, Return, Open, EnsureOpen, OpenFails, ReadFails, DidOpen, Store, Drop, Close,
                Del, LookInCache, Ask, Validate, Delete, Insert, DidChange, Save, Stamp
  <2> QED BY <2>1
<1> QED BY <1>1, <1>2

LEMMA OthersSteady ==
  ASSUME Types, Local, Table, NEW f \in Files, NEW c \in Threads, Step(c), ~Using(c, f), ~Using(c, f)',
         NEW d \in Threads, Using(d, f)'
  PROVE  Using(d, f) /\ Buffer(d)' = Buffer(d) /\ Steady(Buffer(d))
<1>1. d # c
  OBVIOUS
<1>2. Using(d, f) /\ Buffer(d)' = Buffer(d) /\ Depth(d)' = Depth(d) /\ job'[d] = job[d]
  BY <1>1, OtherUsing
<1>3. /\ Depth(d) \in 1 .. Depth(d) /\ job[d].held[Depth(d)] = Buffer(d) /\ Buffer(d) \in BufferIds
      /\ buffers[Buffer(d)].file = f
  BY <1>2, DepthBound, HeldFile DEF Using
<1>4. ASSUME EnsureOpen(c) \/ OpenFails(c) \/ LookInCache(c), Buffer(d) = Buffer(c) PROVE FALSE
  <2>1. Depth(c) # 0
    BY <1>4, DepthBound DEF EnsureOpen, OpenFails, LookInCache
  <2> QED BY <1>3, <1>4, <2>1, HeldFile DEF Using
<1>5. ASSUME Delete(c) \/ Insert(c) \/ ReadFails(c) \/ Save(c), Buffer(d) = open_file_buffers[File(c)]
      PROVE  FALSE
  <2>1. Depth(c) # 0 /\ File(c) \in Files
    BY <1>5, DepthBound DEF Delete, Insert, ReadFails, Save
  <2>2. buffers[open_file_buffers[File(c)]].file = File(c)
    BY <1>3, <1>5, <2>1, NotZero DEF Table, Registered
  <2> QED BY <1>3, <1>5, <2>1, <2>2 DEF Using
<1>6. ASSUME Truncate(c) \/ Put(c), buffers[Buffer(d)].file = File(c) PROVE FALSE
  <2>1. Depth(c) # 0
    BY <1>6, DepthBound DEF Truncate, Put
  <2> QED BY <1>3, <1>6, <2>1 DEF Using
<1>7. Depth(d) \in 1 .. Depth(d)' /\ job'[d].held[Depth(d)] = Buffer(d)
  BY <1>2, <1>3
<1>8. Steady(Buffer(d))
  BY <1>3, <1>4, <1>5, <1>6, <1>7, TextKept
<1> QED BY <1>2, <1>8

LEMMA ElsewhereMatching ==
  ASSUME Types, Local, Table, NEW f \in Files, InOrder(f), Matching(f), ApartStays(f), NEW c \in Threads, Step(c),
         ~Using(c, f), ~Using(c, f)'
  PROVE  Matching(f)'
<1>1. server'[f] = server[f] /\ disk'[f] = disk[f]
  BY ServerElsewhere, DiskElsewhere DEF InOrder
<1> QED BY <1>1, OthersSteady, KeepsMatching

\* Whoever uses the file after a step of c in its with-block uses the buffer of c.
LEMMA SharedAfter ==
  ASSUME Types, Local, NEW f \in Files, Exclusive(f), NEW c \in Threads, Step(c), Using(c, f),
         Using(c, f)' => Buffer(c)' = Buffer(c), NEW d \in Threads, Using(d, f)'
  PROVE  Buffer(d)' = Buffer(c)
<1>1. CASE d = c
  BY <1>1
<1>2. CASE d # c
  <2>1. Using(d, f) /\ Buffer(d)' = Buffer(d)
    BY <1>2, OtherUsing
  <2> QED BY <2>1, OneInUse
<1> QED BY <1>1, <1>2

\* The thread that steps, in a with-block of f.
LEMMA OwnMatching ==
  ASSUME Types, Local, Table, NEW f \in Files, Exclusive(f), InOrder(f), Matching(f), ApartStays(f),
         NEW c \in Threads, Step(c), Using(c, f), disk'[f] = disk[f], server'[f] = server[f],
         pc[c] # "put", ~Changes(c), Steady(Buffer(c)),
         Using(c, f)' => Buffer(c)' = Buffer(c) /\ Carries(c, f)'
  PROVE  Matching(f)'
<1> QED BY SharedAfter, KeepsMatching

\* A step within a with-block does not change the buffer in use.
LEMMA SameBlock ==
  ASSUME Types, Local, Table, NEW f \in Files, Exclusive(f), NEW c \in Threads,
         Quiet(c) \/ Drop(c), Using(c, f), Using(c, f)'
  PROVE  Buffer(c)' = Buffer(c)
<1>1. CASE Quiet(c)
  <2>1. job'[c].held = job[c].held
    BY <1>1, QuietOwn
  <2> QED BY <2>1 DEF Buffer
<1>2. CASE Drop(c)
  <2>1. Depth(c) \in 0 .. 2 /\ pc[c] = "drop" /\ Step(c)
    BY <1>2, DepthBound DEF Drop, Step
  <2>2. Depth(c)' <= Depth(c) /\ \A i \in 1 .. Depth(c)' : job'[c].held[i] = job[c].held[i]
    <3>1. CASE UNCHANGED job
      BY <2>1, <3>1 DEF Depth
    <3>2. CASE \E why : AfterDrop(c, [job[c] EXCEPT !.held = Front(@), !.failed = why])
      <4>1. PICK why : AfterDrop(c, [job[c] EXCEPT !.held = Front(@), !.failed = why])
        BY <3>2
      <4>2. /\ Depth(c)' = Depth(c) - 1
            /\ \A i \in 1 .. Depth(c)' : job'[c].held[i] = job[c].held[i]
        BY <2>1, <4>1, LeaveKeeps
      <4> QED BY <2>1, <4>2
    <3> QED BY <1>2, <3>1, <3>2, DropLeaves
  <2> QED BY <2>1, <2>2, OwnSame
<1> QED BY <1>1, <1>2

\* A call that is at none of the messages and writes carries nothing.
LEMMA CarriesNothing ==
  ASSUME NEW c \in Threads, NEW f, ~Opens(c)', ~Changes(c)', ~Saves(c)'
  PROVE  Carries(c, f)'
BY DEF Carries, Saves

LEMMA PlainMatching ==
  ASSUME Types, Local, Table, NEW f \in Files, Exclusive(f), InOrder(f), Matching(f), ApartStays(f),
         NEW c \in Threads, Using(c, f),
         \/ Store(c) \/ Ask(c) \/ Drop(c) \/ Stamp(c)
         \/ Open(c) /\ FailWith(c, "assertion", job[c])
         \/ EnsureOpen(c) /\ Opened(c)
  PROVE  Matching(f)'
<1>1. /\ Step(c) /\ server' = server /\ disk' = disk /\ (Quiet(c) \/ Drop(c))
      /\ pc[c] # "put" /\ ~Changes(c)
  BY DEF Step, Quiet, Store, Ask, Drop, Stamp, Open, EnsureOpen, Changes
<1>2. pc'[c] \notin {"did open", "did delete", "did insert", "truncate", "put", "stamp"}
  <2>1. CASE Store(c)
    <3>1. pc'[c] = Inside(c, Depth(c)) /\ pc[c] = "store"
      BY <2>1 DEF Store, Goto, Types, TypeOK
    <3>2. Doing(c) \in {"ask", "edit"}
      BY <3>1, DepthBound, Mine
    <3>3. Inside(c, Depth(c)) \in {"look", "ask", "insert", "open", "delete"}
      BY <3>2 DEF Inside, Lazy
    <3> QED BY <3>1, <3>3
  <2>2. CASE Ask(c)
    BY <2>2 DEF Ask, Located, Goto, Types, TypeOK
  <2>3. CASE Drop(c)
    BY <2>3 DEF Drop, AfterDrop, Goto, Types, TypeOK
  <2>4. CASE Stamp(c) \/ (Open(c) /\ FailWith(c, "assertion", job[c]))
    BY <2>4 DEF Stamp, FailWith, Goto, Types, TypeOK
  <2>5. CASE EnsureOpen(c) /\ Opened(c)
    <3>1. pc'[c] = job[c].next /\ pc[c] = "ensure"
      BY <2>5 DEF EnsureOpen, Goto, Types, TypeOK
    <3> QED BY <3>1, NextStep
  <2> QED BY <2>1, <2>2, <2>3, <2>4, <2>5
<1>3. Carries(c, f)'
  BY <1>2, CarriesNothing DEF Opens, Changes, Saves
<1>4. Steady(Buffer(c))
  <2>1. CASE Drop(c) \/ Stamp(c)
    BY <2>1, CountSteady, DepthBound DEF Using
  <2>2. CASE ~(Drop(c) \/ Stamp(c))
    <3>1. buffers' = buffers
      <4>1. ASSUME Open(c), FailWith(c, "assertion", job[c]) PROVE buffers' = buffers
        <5>1. pc'[c] # "ensure"
          BY <4>1, FailKeeps
        <5>2. ~Goto(c, "ensure")
          BY <5>1 DEF Goto, Types, TypeOK
        <5> QED BY <4>1, <5>2 DEF Open
      <4> QED BY <2>2, <4>1 DEF Store, Ask, EnsureOpen
    <3> QED BY <3>1 DEF Reads, Steady
  <2> QED BY <2>1, <2>2
<1>5. Using(c, f)' => Buffer(c)' = Buffer(c)
  BY <1>1, SameBlock
<1> QED BY <1>1, <1>3, <1>4, <1>5, OwnMatching

\* What is read again is what was read, while nobody writes the file.
LEMMA ReadAgain ==
  ASSUME Types, Local, Table, NEW f \in Files, Matching(f), NEW c \in Threads, Using(c, f),
         pc[c] # "put", Truncated(c) = {}
  PROVE  LET b == Buffer(c)
         IN  /\ b \in BufferIds
             /\ Fresh(b).read /\ ~Fresh(b).newer /\ Fresh(b).opened = buffers[b].opened
             /\ buffers[b].read => Fresh(b).text = buffers[b].text
             /\ ~buffers[b].read => Fresh(b).text = disk[buffers[b].file]
<1>1. ~Writing(f)
  <2> SUFFICES ASSUME NEW d \in Threads, Using(d, f), pc[d] = "put" PROVE FALSE
    BY DEF Writing
  <2>1. d \in Threads \ {c} /\ File(d) = File(c)
    BY DEF Using
  <2> QED BY <2>1 DEF Truncated
<1>2. InStep(Buffer(c), f)
  BY DEF Matching
<1>3. Buffer(c) \in BufferIds /\ buffers[Buffer(c)].file = f /\ buffers[Buffer(c)] \in BufferType
  BY HeldFile, FreshKeeps DEF Using
<1>4. buffers[Buffer(c)].read /\ buffers[Buffer(c)].newer => buffers[Buffer(c)].text = disk[f]
  BY <1>1, <1>2 DEF InStep
<1>5. CASE ~buffers[Buffer(c)].read \/ buffers[Buffer(c)].newer
  <2>1. Fresh(Buffer(c)) =
          [buffers[Buffer(c)] EXCEPT !.text = disk[f], !.read = TRUE, !.newer = FALSE]
    BY <1>3, <1>5 DEF Fresh
  <2> QED BY <1>3, <1>4, <1>5, <2>1 DEF BufferType
<1>6. CASE buffers[Buffer(c)].read /\ ~buffers[Buffer(c)].newer
  BY <1>3, <1>6 DEF Fresh
<1> QED BY <1>3, <1>5, <1>6 DEF BufferType

\* What an undisturbed step did not meet.
LEMMA NotStirred ==
  ASSUME Types, NEW f \in Files, NEW kinds, stirred' = Stir(f, kinds), Calm(f)', NEW c
  PROVE  /\ Truncated(c) \subseteq kinds => Truncated(c) = {}
         /\ OthersBetween(c) \subseteq kinds => OthersBetween(c) = {}
         /\ "end" \in kinds => Apart(f)'
<1>1. kinds \subseteq stirred'[f]
  BY DEF Stir, Types, TypeOK
<1> QED BY <1>1 DEF Calm, Apart, Truncated, OthersBetween

LEMMA LookMatching ==
  ASSUME Types, Local, Table, NEW f \in Files, Exclusive(f), InOrder(f), Matching(f), ApartStays(f),
         NEW c \in Threads, Using(c, f), LookInCache(c), Calm(f)'
  PROVE  Matching(f)'
<1>1. /\ Step(c) /\ Quiet(c) /\ server' = server /\ disk' = disk /\ pc[c] = "look" /\ ~Changes(c)
      /\ buffers' = [buffers EXCEPT ![Buffer(c)] = Fresh(Buffer(c))]
      /\ stirred' = Stir(f, Truncated(c))
  BY DEF Step, Quiet, LookInCache, Changes, Using
<1>2. pc'[c] \in {"ensure", "drop"}
  BY DEF LookInCache, Located, Goto, Types, TypeOK
<1>3. Carries(c, f)'
  BY <1>2, CarriesNothing DEF Opens, Changes, Saves
<1>4. Steady(Buffer(c))
  <2>1. Truncated(c) = {}
    BY <1>1, NotStirred
  <2> QED BY <1>1, <2>1, ReadAgain, PutSteady
<1> QED BY <1>1, <1>3, <1>4, SameBlock, OwnMatching

LEMMA SaveMatching ==
  ASSUME Types, Local, Table, NEW f \in Files, Exclusive(f), InOrder(f), Matching(f), ApartStays(f),
         NEW c \in Threads, Using(c, f), Save(c), Calm(f)'
  PROVE  Matching(f)'
<1> DEFINE b == Buffer(c)
<1>1. /\ Step(c) /\ Quiet(c) /\ server' = server /\ disk' = disk /\ pc[c] = "save" /\ ~Changes(c)
      /\ ~Creating(c) /\ File(c) = f
  BY DEF Step, Quiet, Save, Changes, Creating, Using
<1>2. open_file_buffers[f] = b /\ b \in BufferIds /\ b # 0
  BY <1>1, OneInUse, DepthBound, NotZero DEF Using
<1>3. /\ buffers' = [buffers EXCEPT ![b] = Fresh(b)]
      /\ SetJob(c, [job[c] EXCEPT !.fb = b, !.out = Fresh(b).text])
      /\ Goto(c, "truncate")
      /\ stirred' = Stir(f, Truncated(c))
  BY <1>1, <1>2 DEF Save
<1>4. Truncated(c) = {}
  BY <1>3, NotStirred
<1>5. Fresh(b).read /\ Steady(b)
  BY <1>1, <1>3, <1>4, ReadAgain, PutSteady
<1>6. pc'[c] = "truncate" /\ job'[c].fb = b /\ job'[c].out = Fresh(b).text
  BY <1>3, Mine DEF Goto, SetJob, Types, TypeOK, JobType
<1>7. buffers'[b] = Fresh(b)
  BY <1>2, <1>3 DEF Types, TypeOK
<1>8. Using(c, f)' => Buffer(c)' = b
  BY <1>1, SameBlock
<1>9. Using(c, f)' => Carries(c, f)'
  BY <1>5, <1>6, <1>7, <1>8 DEF Carries, Opens, Changes, Saves
<1> QED BY <1>1, <1>5, <1>8, <1>9, OwnMatching
-----------------------------------------------------------------------------
(* Steps that change the texts.                                              *)

\* A call that writes the file edits it.
LEMMA SavesEdit ==
  ASSUME Types, Local, NEW c \in Threads, Saves(c)
  PROVE  Edits(c)
<1>1. Depth(c) = 1 /\ Doing(c) = "edit"
  BY DEF Local, Placed, Saves
<1>2. job[c].plan # <<>> /\ 1 \in 1 .. Len(job[c].plan) /\ Phase(c) = job[c].plan[1]
  BY <1>1, DepthBound, Mine
<1> QED BY <1>1, <1>2 DEF Local, Planned, Doing

LEMMA OtherEdits ==
  ASSUME Types, Local, NEW f \in Files, OneEditor(f), NEW c \in Threads, Using(c, f), Edits(c),
         NEW d \in Threads, d # c, Using(d, f)
  PROVE  ~Changes(d) /\ ~Saves(d)
<1>1. c \in InFlight(f) /\ d \in InFlight(f)
  BY InFlightOf DEF Using
<1>2. ~Edits(d)
  BY <1>1 DEF OneEditor
<1> QED BY <1>2, ChangesEdit, SavesEdit

\* The file is truncated and written while only this call edits it.
LEMMA WriteMatching ==
  ASSUME Types, Local, Table, NEW f \in Files, Exclusive(f), OneEditor(f), InOrder(f), Matching(f), ApartStays(f),
         NEW c \in Threads, Using(c, f), Truncate(c) \/ Put(c)
  PROVE  Matching(f)'
<1> DEFINE b == Buffer(c)
<1>1. /\ Step(c) /\ Quiet(c) /\ server' = server /\ job' = job /\ Saves(c) /\ File(c) = f
      /\ pc'[c] = IF pc[c] = "truncate" THEN "put" ELSE "stamp"
  BY DEF Step, Quiet, Truncate, Put, Saves, Goto, Using, Types, TypeOK
<1>2. /\ InStep(b, f) /\ b \in BufferIds
      /\ buffers[b].read /\ job[c].fb = b /\ job[c].out = buffers[b].text
      /\ pc[c] = "put" => disk[f] = <<>>
  BY <1>1, DepthBound DEF Matching, Carries, Using
<1>3. disk'[f] = IF pc[c] = "truncate" THEN <<>> ELSE buffers[b].text
  <2>1. CASE Truncate(c)
    BY <1>1, <2>1 DEF Truncate, Written, Types, TypeOK
  <2>2. CASE Put(c)
    <3>1. disk'[f] = job[c].out \o SubSeq(disk[f], Len(job[c].out) + 1, Len(disk[f])) /\ pc[c] = "put"
      BY <1>1, <2>2 DEF Put, Written, Types, TypeOK
    <3>2. job[c].out \in Seq(Int)
      BY Mine DEF JobType, Text
    <3>3. disk[f] = <<>> /\ Len(job[c].out) \in Nat
      BY <1>2, <3>1, <3>2
    <3>4. ASSUME NEW n \in Nat PROVE SubSeq(<<>>, n + 1, Len(<<>>)) = <<>>
      OBVIOUS
    <3>5. ASSUME NEW out \in Seq(Int) PROVE out \o <<>> = out
      OBVIOUS
    <3>6. disk'[f] = job[c].out \o <<>>
      BY <3>1, <3>3, <3>4
    <3>7. disk'[f] = job[c].out
      BY <3>2, <3>5, <3>6
    <3> QED BY <1>2, <3>1, <3>7
  <2> QED BY <2>1, <2>2
<1>4. /\ buffers'[b].opened = buffers[b].opened /\ buffers'[b].read
      /\ buffers'[b].text = buffers[b].text
  <2>1. buffers'[b] = buffers[b] \/ buffers'[b] = [buffers[b] EXCEPT !.newer = TRUE]
    BY <1>2 DEF Truncate, Put, Written
  <2>2. buffers[b] \in BufferType
    BY <1>2, FreshKeeps
  <2> HIDE DEF b
  <2> QED BY <1>2, <2>1, <2>2 DEF BufferType
<1>5. \A d \in Threads : d # c /\ Using(d, f) => ~Changes(d) /\ ~Saves(d)
  BY <1>1, SavesEdit, OtherEdits
<1>6. \A d \in Threads : Using(d, f)' =>
        /\ Using(d, f) /\ Buffer(d)' = b /\ job'[d] = job[d]
        /\ Opens(d)' => Opens(d)
        /\ ~Changes(d)'
        /\ Saves(d)' => d = c
  <2> SUFFICES ASSUME NEW d \in Threads, Using(d, f)'
               PROVE  /\ Using(d, f) /\ Buffer(d)' = b /\ job'[d] = job[d]
                      /\ Opens(d)' => Opens(d)
                      /\ ~Changes(d)'
                      /\ Saves(d)' => d = c
    OBVIOUS
  <2>1. CASE d = c
    BY <1>1, <2>1, SameBlock DEF Opens, Changes
  <2>2. CASE d # c
    <3>1. /\ Using(d, f) /\ Buffer(d)' = Buffer(d) /\ job'[d] = job[d] /\ pc'[d] = pc[d]
      BY <1>1, <2>2, OtherUsing
    <3>2. Buffer(d) = b
      BY <3>1, OneInUse
    <3> QED BY <1>5, <2>2, <3>1, <3>2 DEF Opens, Changes, Saves
  <2> QED BY <2>1, <2>2
<1>7. ~Changing(f)
  BY <1>1, <1>5 DEF Changing, Changes, Saves
<1>8. pc[c] = "truncate" => Writing(f)'
  <2>1. Using(c, f)'
    <3>1. job' = job
      BY <1>1
    <3> QED BY <3>1 DEF Using, Depth, File, Phase
  <2> QED BY <1>1, <2>1 DEF Writing
<1> HIDE DEF b
<1> SUFFICES ASSUME NEW d \in Threads, Using(d, f)'
             PROVE  InStep(Buffer(d), f)' /\ Carries(d, f)'
  BY DEF Matching
<1>9. Buffer(d)' = b /\ Using(d, f) /\ job'[d] = job[d]
  BY <1>6
<1>10. InStep(Buffer(d), f)'
  BY <1>1, <1>2, <1>3, <1>4, <1>7, <1>8, <1>9 DEF InStep, ApartStays
<1>11. Opens(d) => job[d].note = buffers[b].text
  <2>1. Buffer(d) = b
    BY <1>9, OneInUse DEF b
  <2> QED BY <1>9, <2>1 DEF Matching, Carries
<1>12. pc'[d] = "put" => d = c
  BY <1>6 DEF Saves
<1>13. Carries(d, f)'
  BY <1>1, <1>2, <1>3, <1>4, <1>6, <1>9, <1>11, <1>12 DEF Carries, Saves
<1> QED BY <1>10, <1>13
\* What an edit makes of the text, while only this call edits: past the end it sets the
\* server's text apart, or it fails and leaves the text as it was.
LEMMA ChangeTexts ==
  ASSUME Types, Local, Table, NEW f \in Files, Exclusive(f), OneEditor(f), InOrder(f), Matching(f),
         NEW c \in Threads, Using(c, f), Delete(c) \/ Insert(c), Calm(f)'
  PROVE  LET b == Buffer(c)
             t == buffers[b].text
         IN  /\ b \in BufferIds /\ open_file_buffers[f] = b
             /\ server[f].open /\ buffers[b].read /\ buffers[b].opened
             /\ \A d \in Threads : d # c /\ Using(d, f) => ~Changes(d) /\ ~Saves(d) /\ ~Opens(d)
             /\ t \in Seq(Int) /\ Len(t) \in Nat /\ Place(c) \in Nat
             /\ buffers'[b].opened /\ buffers'[b].read /\ ~buffers'[b].newer
             /\ (Place(c) > Len(t) => Apart(f)') /\ (Apart(f)' => Apart(f) \/ Place(c) > Len(t))
             /\ \/ /\ buffers'[b].text = Changed(c, t)
                   /\ pc[c] = "delete" => Place(c) <= Len(t)
                   /\ pc'[c] = IF pc[c] = "delete" THEN "did delete" ELSE "did insert"
                   /\ \E note : job'[c] = [job[c] EXCEPT !.note = note]
                \/ /\ buffers'[b].text = t /\ Place(c) > Len(t)
                   /\ pc[c] = "insert" => Place(c) > Len(t) + 1
                   /\ FailWith(c, "location", job[c])
<1> DEFINE b == Buffer(c)
           t == buffers[b].text
           past == IF pc[c] = "delete" THEN 0 ELSE 1
           kinds == Truncated(c) \cup IF Place(c) > Len(Fresh(b).text) THEN {"end"} ELSE {}
           done == /\ buffers' = [buffers EXCEPT ![b] =
                                   [Fresh(b) EXCEPT !.version = @ + 1, !.text = Changed(c, @)]]
                   /\ SetJob(c, [job[c] EXCEPT !.note = <<Fresh(b).version + 1>>])
                   /\ Goto(c, IF pc[c] = "delete" THEN "did delete" ELSE "did insert")
                   /\ Place(c) <= Len(Fresh(b).text) + past
           failed == /\ buffers' = [buffers EXCEPT ![b] = [Fresh(b) EXCEPT !.version = @ + 1]]
                     /\ FailWith(c, "location", job[c])
                     /\ ~ (Place(c) <= Len(Fresh(b).text) + past)
<1>1. /\ pc[c] \in {"delete", "insert"} /\ ~Creating(c) /\ File(c) = f /\ pc[c] # "put" /\ Edits(c)
  BY ChangesEdit DEF Delete, Insert, Creating, Using
<1>2. open_file_buffers[f] = b /\ b \in BufferIds /\ b # 0
  BY <1>1, OneInUse, DepthBound, NotZero DEF Using
<1>3. server[f].open
  BY <1>1 DEF InOrder, Tells
<1>4. \A d \in Threads : d # c /\ Using(d, f) => ~Changes(d) /\ ~Saves(d) /\ ~Opens(d)
  BY <1>1, <1>3, OtherEdits DEF InOrder
<1>5. buffers[b].opened /\ buffers[b].read
  BY <1>3 DEF Matching, InStep
<1>6. t \in Seq(Int) /\ Len(t) \in Nat /\ Place(c) \in Nat
  <2>1. buffers[b] \in BufferType
    BY <1>2, FreshKeeps
  <2>2. t \in Seq(Int)
    BY <2>1 DEF BufferType
  <2>3. Place(c) \in Nat
    BY <1>1, EditType DEF Editing
  <2> HIDE DEF t
  <2> QED BY <2>2, <2>3
<1>7. stirred' = Stir(f, kinds) /\ (done \/ failed)
  <2>1. CASE Delete(c)
    <3>1. pc[c] = "delete" /\ Change(c, 0, "did delete")
      BY <2>1 DEF Delete
    <3> QED BY <1>1, <1>2, <3>1, ChangeCases
  <2>2. CASE Insert(c)
    <3>1. pc[c] = "insert" /\ Change(c, 1, "did insert")
      BY <2>2 DEF Insert
    <3> QED BY <1>1, <1>2, <3>1, ChangeCases
  <2> QED BY <2>1, <2>2
<1>8. /\ Truncated(c) = {} /\ (Place(c) > Len(Fresh(b).text) => Apart(f)')
      /\ Apart(f)' => Apart(f) \/ Place(c) > Len(Fresh(b).text)
  <2>1. Truncated(c) \subseteq kinds
    OBVIOUS
  <2>2. Place(c) > Len(Fresh(b).text) => "end" \in kinds
    OBVIOUS
  <2>3. stirred'[f] = stirred[f] \cup kinds
    BY <1>7 DEF Stir, Types, TypeOK
  <2>4. Apart(f)' => Apart(f) \/ Place(c) > Len(Fresh(b).text)
    BY <2>3 DEF Apart, Truncated
  <2> HIDE DEF kinds
  <2> QED BY <1>7, <2>1, <2>2, <2>4, NotStirred
<1>9. /\ Fresh(b).text = t /\ Fresh(b).read /\ ~Fresh(b).newer /\ Fresh(b).opened
      /\ Fresh(b) \in BufferType
  <2>1. Fresh(b).text = t /\ Fresh(b).read /\ ~Fresh(b).newer /\ Fresh(b).opened
    BY <1>1, <1>5, <1>8, ReadAgain
  <2>2. Fresh(b) \in BufferType
    BY <1>1, <1>2, HeldFile, FreshTyped DEF Using
  <2> QED BY <2>1, <2>2
<1>10. CASE done
  <2> DEFINE r == Fresh(b)
             v == Fresh(b).version + 1
  <2>1. buffers'[b] = [r EXCEPT !.version = @ + 1, !.text = Changed(c, @)]
    BY <1>2, <1>10 DEF Types, TypeOK
  <2>2. /\ buffers'[b].text = Changed(c, t) /\ buffers'[b].opened /\ buffers'[b].read
        /\ ~buffers'[b].newer
    <3>1. r \in BufferType /\ r.text = t /\ r.read /\ ~r.newer /\ r.opened
      BY <1>9
    <3> HIDE DEF r, t
    <3> QED BY <2>1, <3>1 DEF BufferType
  <2>3. pc'[c] = IF pc[c] = "delete" THEN "did delete" ELSE "did insert"
    BY <1>10 DEF Goto, Types, TypeOK
  <2>4. \E note : job'[c] = [job[c] EXCEPT !.note = note]
    <3> HIDE DEF v
    <3>1. job'[c] = [job[c] EXCEPT !.note = <<v>>]
      BY <1>10 DEF SetJob, Types, v
    <3> QED BY <3>1
  <2>5. pc[c] = "delete" => Place(c) <= Len(t)
    <3>1. ASSUME NEW p \in Nat, NEW n \in Nat, p <= n + 0 PROVE p <= n
      BY <3>1
    <3>2. pc[c] = "delete" => Place(c) <= Len(t) + 0
      BY <1>9, <1>10
    <3> HIDE DEF t
    <3> QED BY <1>6, <3>1, <3>2
  <2> QED BY <1>2, <1>3, <1>4, <1>5, <1>6, <1>8, <1>9, <2>2, <2>3, <2>4, <2>5
<1>11. CASE failed
  <2> DEFINE r == Fresh(b)
  <2>1. buffers'[b] = [r EXCEPT !.version = @ + 1]
    BY <1>2, <1>11 DEF Types, TypeOK
  <2>2. buffers'[b].text = t /\ buffers'[b].opened /\ buffers'[b].read /\ ~buffers'[b].newer
    <3>1. r \in BufferType /\ r.text = t /\ r.read /\ ~r.newer /\ r.opened
      BY <1>9
    <3> HIDE DEF r, t
    <3> QED BY <2>1, <3>1 DEF BufferType
  <2>3. Place(c) > Len(t)
    <3>1. ASSUME NEW p \in Nat, NEW n \in Nat, NEW e \in {0, 1}, ~(p <= n + e) PROVE p > n
      BY <3>1
    <3>2. ~(Place(c) <= Len(t) + past) /\ past \in {0, 1}
      BY <1>9, <1>11
    <3> HIDE DEF t, past
    <3> QED BY <1>6, <3>1, <3>2
  <2>4. FailWith(c, "location", job[c])
    BY <1>11
  <2>5. pc[c] = "insert" => Place(c) > Len(t) + 1
    <3>1. ASSUME NEW p \in Nat, NEW n \in Nat, ~(p <= n + 1) PROVE p > n + 1
      BY <3>1
    <3>2. pc[c] = "insert" => ~(Place(c) <= Len(t) + 1)
      BY <1>9, <1>11
    <3> HIDE DEF t
    <3> QED BY <1>6, <3>1, <3>2
  <2> QED BY <1>2, <1>3, <1>4, <1>5, <1>6, <1>8, <1>9, <2>2, <2>3, <2>4, <2>5
<1> HIDE DEF done, failed
<1> QED BY <1>7, <1>10, <1>11

\* An edit, while only this call edits: the server has the text, unless it was set apart,
\* and will be told of the change that it makes.
LEMMA ChangeMatching ==
  ASSUME Types, Local, Table, NEW f \in Files, Exclusive(f), OneEditor(f), InOrder(f), Matching(f),
         ApartStays(f), NEW c \in Threads, Using(c, f), Delete(c) \/ Insert(c), Calm(f)'
  PROVE  Matching(f)'
<1> DEFINE b == Buffer(c)
           t == buffers[b].text
<1>1. /\ Step(c) /\ Quiet(c) /\ server' = server /\ disk' = disk /\ pc[c] \in {"delete", "insert"}
      /\ File(c) = f /\ pc[c] # "put" /\ ~Changes(c)
  BY DEF Step, Quiet, Delete, Insert, Using, Changes
<1>2. /\ b \in BufferIds /\ server[f].open /\ buffers[b].read /\ buffers[b].opened
      /\ \A d \in Threads : d # c /\ Using(d, f) => ~Changes(d) /\ ~Saves(d) /\ ~Opens(d)
      /\ Len(t) \in Nat /\ Place(c) \in Nat
      /\ buffers'[b].opened /\ buffers'[b].read /\ ~buffers'[b].newer
      /\ Place(c) > Len(t) => Apart(f)'
  BY ChangeTexts
<1>3. CASE /\ buffers'[b].text = t
           /\ FailWith(c, "location", job[c])
  <2>1. Carries(c, f)'
    <3>1. pc'[c] \in {"drop", "return"}
      BY <1>3, FailCases DEF Failures
    <3> QED BY <3>1, CarriesNothing DEF Opens, Changes, Saves
  <2>2. Steady(b)
    BY <1>2, <1>3 DEF Reads, Steady
  <2> QED BY <1>1, <2>1, <2>2, SameBlock, OwnMatching
<1>4. CASE /\ buffers'[b].text = Changed(c, t)
           /\ pc'[c] = IF pc[c] = "delete" THEN "did delete" ELSE "did insert"
           /\ \E note : job'[c] = [job[c] EXCEPT !.note = note]
  <2>1. /\ job'[c].held = job[c].held /\ job'[c].plan = job[c].plan
        /\ job'[c].op = job[c].op /\ job'[c].at = job[c].at /\ job'[c].n = job[c].n
    BY <1>4, Mine DEF JobType
  <2>2. Using(c, f)' /\ Buffer(c)' = b /\ Place(c)' = Place(c) /\ NewLine(c)' = NewLine(c)
    BY <1>1, <2>1 DEF Using, Depth, Buffer, File, Phase, Place, NewLine
  <2>2a. (Replaces(c)' <=> Replaces(c)) /\ \A line : Filled(c, line)' = Filled(c, line)
    BY <2>1 DEF Replaces, Filled, NewLine
  <2>3. ~Apart(f)' => Mirror(c, server[f].text)' = Changed(c, t)
    <3> SUFFICES ASSUME ~Apart(f)' PROVE Mirror(c, server[f].text)' = Changed(c, t)
      OBVIOUS
    <3>1. server'[f].text = t
      <4>1. ~Changing(f)
        BY <1>1, <1>2 DEF Changing, Changes
      <4>2. ~Apart(f)
        BY DEF ApartStays
      <4> QED BY <1>1, <1>2, <4>1, <4>2 DEF Matching, InStep
    <3>2. Place(c) <= Len(t) /\ ~(Place(c) > Len(t))
      <4>1. ASSUME NEW p \in Nat, NEW n \in Nat, ~(p > n) PROVE p <= n
        BY <4>1
      <4> HIDE DEF t
      <4> QED BY <1>2, <4>1
    <3> HIDE DEF t
    <3>3. CASE pc[c] = "delete"
      BY <1>4, <2>2, <3>1, <3>2, <3>3 DEF Mirror, Changed
    <3>4. CASE pc[c] = "insert"
      <4> DEFINE put == IF Replaces(c) THEN ReplaceAt(t, Place(c), Filled(c, t[Place(c)]))
                                       ELSE InsertAt(t, Place(c), NewLine(c))
      <4>1. pc'[c] = "did insert"
        BY <1>4, <3>4
      <4>2. Changed(c, t) = put
        BY <3>2, <3>4 DEF Changed
      <4>3. Mirror(c, server[f].text)' = put
        BY <2>2, <2>2a, <3>1, <3>2, <4>1 DEF Mirror
      <4> QED BY <4>2, <4>3
    <3> QED BY <1>1, <3>3, <3>4
  <2>4. Carries(c, f)'
    BY <1>1, <1>4, <2>2, <2>3 DEF Carries, Opens, Saves
  <2>5. Changing(f)'
    BY <1>1, <1>4, <2>2 DEF Changing, Changes
  <2> HIDE DEF b, t
  <2> SUFFICES ASSUME NEW d \in Threads, Using(d, f)'
               PROVE  InStep(Buffer(d), f)' /\ Carries(d, f)'
    BY DEF Matching
  <2>6. Buffer(d)' = b /\ (d # c => ~Changes(d)' /\ ~Saves(d)' /\ ~Opens(d)')
    <3>1. CASE d = c
      BY <2>2, <3>1
    <3>2. CASE d # c
      <4>1. Using(d, f) /\ Buffer(d)' = Buffer(d) /\ pc'[d] = pc[d]
        BY <1>1, <3>2, OtherUsing
      <4>2. Buffer(d) = b
        BY <4>1, OneInUse DEF b
      <4> QED BY <1>2, <3>2, <4>1, <4>2 DEF Opens, Changes, Saves
    <3> QED BY <3>1, <3>2
  <2>7. InStep(Buffer(d), f)'
    BY <1>2, <2>5, <2>6 DEF InStep
  <2>8. Carries(d, f)'
    BY <2>4, <2>6, CarriesNothing
  <2> QED BY <2>7, <2>8
<1> QED BY <1>3, <1>4, ChangeTexts

\* The server is told of it.
LEMMA DidChangeMatching ==
  ASSUME Types, Local, Table, NEW f \in Files, Exclusive(f), OneEditor(f), InOrder(f), Matching(f), ApartStays(f),
         NEW c \in Threads, Using(c, f), DidChange(c)
  PROVE  Matching(f)'
<1> DEFINE b == Buffer(c)
<1>1. /\ Step(c) /\ Quiet(c) /\ disk' = disk /\ buffers' = buffers /\ File(c) = f /\ Changes(c)
      /\ pc'[c] \in {"insert", "drop", "save"} /\ Edits(c)
  BY ChangesEdit DEF Step, Quiet, DidChange, Using, Changes, Goto, Types, TypeOK
<1>2. server[f].open /\ InStep(b, f) /\ Carries(c, f)
  BY <1>1 DEF InOrder, Tells, Matching
<1>3. \A d \in Threads : d # c /\ Using(d, f) => ~Changes(d) /\ ~Saves(d) /\ ~Opens(d)
  BY <1>1, <1>2, OtherEdits DEF InOrder
<1>4. ~Apart(f) => server'[f].text = buffers[b].text
  <2> SUFFICES ASSUME ~Apart(f) PROVE server'[f].text = buffers[b].text
    OBVIOUS
  <2> DEFINE s == server[f]
             t == Mirror(c, server[f].text)
  <2>1. \E version, broken : server' = [server EXCEPT ![f] =
          [s EXCEPT !.text = t, !.version = version, !.broken = broken]]
    BY <1>1, <1>2 DEF DidChange
  <2>2. s \in [open : BOOLEAN, text : Seq(Int), version : Nat, broken : BOOLEAN]
    BY DEF Types, TypeOK
  <2>3. t = buffers[b].text
    BY <1>1, <1>2 DEF Carries
  <2> HIDE DEF s, t
  <2>4. PICK version, broken : server' = [server EXCEPT ![f] =
          [s EXCEPT !.text = t, !.version = version, !.broken = broken]]
    BY <2>1
  <2>5. server'[f] = [s EXCEPT !.text = t, !.version = version, !.broken = broken]
    BY <2>4 DEF Types, TypeOK
  <2> QED BY <2>2, <2>3, <2>5
<1> HIDE DEF b
<1> SUFFICES ASSUME NEW d \in Threads, Using(d, f)'
             PROVE  InStep(Buffer(d), f)' /\ Carries(d, f)'
  BY DEF Matching
<1>5. Buffer(d)' = b /\ ~Changes(d)' /\ ~Saves(d)' /\ ~Opens(d)'
  <2>1. CASE d = c
    BY <1>1, <2>1, SameBlock DEF b, Opens, Changes, Saves
  <2>2. CASE d # c
    <3>1. Using(d, f) /\ Buffer(d)' = Buffer(d) /\ pc'[d] = pc[d]
      BY <1>1, <2>2, OtherUsing
    <3>2. Buffer(d) = b
      BY <3>1, OneInUse DEF b
    <3> QED BY <1>3, <2>2, <3>1, <3>2 DEF Opens, Changes, Saves
  <2> QED BY <2>1, <2>2
<1>6. Writing(f) => Writing(f)'
  <2>1. ASSUME NEW e \in Threads, Using(e, f), pc[e] = "put" PROVE FALSE
    BY <1>1, <1>3, <2>1 DEF Changes, Saves
  <2> QED BY <2>1 DEF Writing
<1>7. InStep(Buffer(d), f)'
  BY <1>1, <1>2, <1>4, <1>5, <1>6 DEF InStep, ApartStays
<1>8. Carries(d, f)'
  BY <1>5, CarriesNothing
<1> QED BY <1>7, <1>8
\* The document is opened with the text that was read.
LEMMA DidOpenMatching ==
  ASSUME Types, Local, Table, NEW f \in Files, Exclusive(f), InOrder(f), Matching(f), ApartStays(f),
         NEW c \in Threads, Using(c, f), DidOpen(c)
  PROVE  Matching(f)'
<1> DEFINE b == Buffer(c)
<1>1. /\ Step(c) /\ Quiet(c) /\ disk' = disk /\ buffers' = buffers /\ File(c) = f /\ Opens(c)
      /\ pc'[c] = job[c].next /\ pc[c] # "put"
  BY DEF Step, Quiet, DidOpen, Using, Opens, Goto, Types, TypeOK
<1>2. /\ ~server[f].open /\ InStep(b, f) /\ Carries(c, f)
      /\ buffers[b].opened
      /\ \A d \in Threads : Using(d, f) /\ Opens(d) => d = c
  BY <1>1 DEF InOrder, Matching, Table, Opening, Intact, Opens
<1>3. server'[f].text = buffers[b].text
  <2>1. server'[f] = [open |-> TRUE, text |-> job[c].note, version |-> 0,
                      broken |-> server[f].broken \/ server[f].open]
    BY <1>1 DEF DidOpen, Types, TypeOK
  <2> QED BY <1>1, <1>2, <2>1 DEF Carries
<1>4. ~Opens(c)' /\ ~Changes(c)' /\ ~Saves(c)'
  BY <1>1, NextStep DEF Opens, Changes, Saves
<1> HIDE DEF b
<1> SUFFICES ASSUME NEW d \in Threads, Using(d, f)'
             PROVE  InStep(Buffer(d), f)' /\ Carries(d, f)'
  BY DEF Matching
<1>5. Buffer(d)' = b
  <2>1. CASE d = c
    BY <1>1, <2>1, SameBlock DEF b
  <2>2. CASE d # c
    <3>1. Using(d, f) /\ Buffer(d)' = Buffer(d)
      BY <1>1, <2>2, OtherUsing
    <3> QED BY <3>1, OneInUse DEF b
  <2> QED BY <2>1, <2>2
<1>6. Writing(f) => Writing(f)'
  <2>1. ASSUME NEW e \in Threads, Using(e, f), pc[e] = "put" PROVE Using(e, f)' /\ pc'[e] = "put"
    BY <1>1, <2>1, OtherUsing
  <2> QED BY <2>1 DEF Writing
<1>7. InStep(Buffer(d), f)'
  BY <1>1, <1>2, <1>3, <1>5, <1>6 DEF InStep
<1>8. Carries(d, f)'
  <2>1. CASE d = c
    BY <1>4, <2>1, CarriesNothing
  <2>2. CASE d # c
    <3>1. /\ Using(d, f) /\ Buffer(d)' = Buffer(d) /\ pc'[d] = pc[d] /\ job'[d] = job[d]
          /\ ~Changes(d) /\ ~Opens(d)
      BY <1>1, <1>2, <2>2, OtherUsing DEF InOrder, Tells
    <3>2. Carries(d, f)
      BY <3>1 DEF Matching
    <3> QED BY <1>1, <3>1, <3>2 DEF Carries, Opens, Changes, Saves
  <2> QED BY <2>1, <2>2
<1> QED BY <1>7, <1>8

\* The text to open the document with is read.
LEMMA OpeningMatching ==
  ASSUME Types, Local, Table, NEW f \in Files, Exclusive(f), InOrder(f), Matching(f), ApartStays(f),
         NEW c \in Threads, Using(c, f), EnsureOpen(c), Calm(f)',
         ~Opened(c)
  PROVE  Matching(f)'
<1> DEFINE b == Buffer(c)
<1>1. /\ Step(c) /\ Quiet(c) /\ server' = server /\ disk' = disk /\ pc[c] = "ensure" /\ File(c) = f
      /\ ~buffers[b].opened /\ pc'[c] = "did open"
      /\ buffers' = [buffers EXCEPT ![b] = [Fresh(b) EXCEPT !.opened = TRUE]]
      /\ job'[c] = [job[c] EXCEPT !.note = Fresh(b).text]
      /\ stirred' = Stir(f, OthersBetween(c) \cup Truncated(c))
  BY DEF Step, Quiet, EnsureOpen, Opened, Using, Goto, SetJob, Types, TypeOK
<1>2. Truncated(c) = {} /\ OthersBetween(c) = {}
  <2>1. Truncated(c) \subseteq OthersBetween(c) \cup Truncated(c)
        /\ OthersBetween(c) \subseteq OthersBetween(c) \cup Truncated(c)
    OBVIOUS
  <2> QED BY <1>1, <2>1, NotStirred
<1>3. \A d \in Threads : d # c /\ Using(d, f) => ~Opens(d)
  BY <1>1, NobodyBetween DEF Using, Calm
<1>4. ~server[f].open /\ InStep(b, f)
  BY <1>1 DEF Matching, InStep
<1>5. /\ b \in BufferIds
      /\ Fresh(b).read /\ ~Fresh(b).newer
      /\ buffers[b].read => Fresh(b).text = buffers[b].text
  BY <1>1, <1>2, ReadAgain
<1>6. /\ buffers'[b].read /\ ~buffers'[b].newer /\ buffers'[b].opened
      /\ buffers'[b].text = Fresh(b).text
  <2> DEFINE r == Fresh(b)
  <2>1. r \in BufferType
    BY <1>1, <1>5, HeldFile, FreshTyped DEF Using
  <2>2. buffers'[b] = [r EXCEPT !.opened = TRUE]
    BY <1>1, <1>5 DEF Types, TypeOK
  <2>3. r.read /\ ~r.newer
    BY <1>5
  <2> HIDE DEF r
  <2>4. /\ buffers'[b].read /\ ~buffers'[b].newer /\ buffers'[b].opened
        /\ buffers'[b].text = r.text
    BY <2>1, <2>2, <2>3 DEF BufferType
  <2> QED BY <2>4 DEF r
<1>7. job'[c].note = Fresh(b).text
  BY <1>1, Mine DEF JobType
<1> HIDE DEF b
<1> SUFFICES ASSUME NEW d \in Threads, Using(d, f)'
             PROVE  InStep(Buffer(d), f)' /\ Carries(d, f)'
  BY DEF Matching
<1>8. Buffer(d)' = b
  <2>1. CASE d = c
    BY <1>1, <2>1, SameBlock DEF b
  <2>2. CASE d # c
    <3>1. Using(d, f) /\ Buffer(d)' = Buffer(d)
      BY <1>1, <2>2, OtherUsing
    <3> QED BY <3>1, OneInUse DEF b
  <2> QED BY <2>1, <2>2
<1>9. InStep(Buffer(d), f)'
  BY <1>1, <1>4, <1>6, <1>8 DEF InStep
<1>10. Carries(d, f)'
  <2>1. CASE d = c
    BY <1>1, <1>6, <1>7, <1>8, <2>1 DEF Carries, Changes, Saves
  <2>2. CASE d # c
    <3>1. /\ Using(d, f) /\ Buffer(d)' = Buffer(d) /\ pc'[d] = pc[d] /\ job'[d] = job[d]
          /\ ~Changes(d) /\ ~Opens(d)
      BY <1>1, <1>3, <1>4, <2>2, OtherUsing DEF InOrder, Tells
    <3>2. Carries(d, f) /\ Buffer(d) = b
      BY <1>8, <3>1 DEF Matching
    <3>4. Using(d, f)' /\ Buffer(d)' = b /\ ~Opens(d)' /\ ~Changes(d)' /\ (Saves(d)' => Saves(d))
      BY <1>8, <3>1, <3>2 DEF Opens, Changes, Saves
    <3>5. /\ Saves(d) => job[d].fb = b /\ buffers[b].read /\ job[d].out = buffers[b].text
          /\ pc[d] = "put" => disk[f] = <<>>
      BY <3>2 DEF Carries
    <3>6. disk' = disk /\ buffers'[b].read /\ (buffers[b].read => buffers'[b].text = buffers[b].text)
      BY <1>1, <1>5, <1>6
    <3> QED BY <3>1, <3>4, <3>5, <3>6 DEF Carries
  <2> QED BY <2>1, <2>2
<1> QED BY <1>9, <1>10

\* The two ways of entering a with-block.
LEMMA OpenCases ==
  ASSUME Types, Local, Table, NEW c \in Threads, Open(c), ~FailWith(c, "assertion", job[c])
  PROVE  LET f == File(c)
             b == open_file_buffers[f]
         IN  /\ f \in Files /\ File(c)' = f /\ Buffer(c)' \in BufferIds
             /\ pc'[c] = "ensure"
             /\ \/ b = 0 /\ buffers'[Buffer(c)'] = [NoBuffer EXCEPT !.file = f, !.refs = 1]
                \/ /\ b \in BufferIds /\ b # 0 /\ Buffer(c)' = b
                   /\ buffers' = [buffers EXCEPT ![b] = [buffers[b] EXCEPT !.refs = @ + 1]]
<1> DEFINE f == File(c)
           b == open_file_buffers[f]
           new == CHOOSE g \in Garbage : TRUE
<1>1. pc[c] = "open" /\ f \in Files /\ b \in BufferIds \cup {0}
  BY Mine DEF Open, Local, Placed, Types, TypeOK
<1>2. new \in Garbage
  BY <1>1, GarbageExists DEF Table
<1>3. PICK a, step :
        /\ SetJob(c, [job[c] EXCEPT !.held = Append(@, a), !.next = step])
        /\ Goto(c, "ensure")
        /\ \/ /\ b = 0 /\ a = new
              /\ buffers' = [buffers EXCEPT ![new] = [NoBuffer EXCEPT !.file = f, !.refs = 1]]
           \/ b # 0 /\ a = b /\ buffers' = [buffers EXCEPT ![b].refs = @ + 1]
  <2>1. CASE /\ b = 0 /\ SetJob(c, [job[c] EXCEPT !.held = Append(@, new), !.next = "store"])
             /\ Goto(c, "ensure")
             /\ buffers' = [buffers EXCEPT ![new] = [NoBuffer EXCEPT !.file = f, !.refs = 1]]
    BY <2>1, Zenon
  <2>2. CASE /\ b # 0
             /\ SetJob(c, [job[c] EXCEPT !.held = Append(@, b), !.next = Inside(c, Depth(c) + 1)])
             /\ Goto(c, "ensure") /\ buffers' = [buffers EXCEPT ![b].refs = @ + 1]
    BY <2>2, Zenon
  <2> QED BY <2>1, <2>2 DEF Open
<1>4. a \in BufferIds
  BY <1>1, <1>2, <1>3 DEF Garbage
<1> HIDE DEF b, new
<1>5. pc'[c] = "ensure"
  BY <1>3 DEF Goto, Types, TypeOK
<1>6. job'[c].held = Append(job[c].held, a) /\ File(c)' = f
  <2>1. job'[c] = [job[c] EXCEPT !.held = Append(@, a), !.next = step]
    BY <1>3 DEF SetJob, Types
  <2> QED BY <2>1, Mine DEF JobType, File, Phase
<1>7. Buffer(c)' = a
  BY <1>4, <1>6, Mine DEF Buffer, Last
<1>8. CASE b = 0
  <2>1. buffers'[a] = [NoBuffer EXCEPT !.file = f, !.refs = 1]
    BY <1>3, <1>4, <1>8 DEF Types, TypeOK
  <2> QED BY <1>1, <1>4, <1>5, <1>6, <1>7, <1>8, <2>1 DEF b
<1>9. CASE b # 0
  <2>1. b \in BufferIds /\ a = b /\ buffers' = [buffers EXCEPT ![b].refs = @ + 1]
    BY <1>1, <1>3, <1>9
  <2>2. buffers' = [buffers EXCEPT ![b] = [buffers[b] EXCEPT !.refs = @ + 1]]
    BY <2>1 DEF Types, TypeOK
  <2> QED BY <1>1, <1>4, <1>5, <1>6, <1>7, <1>9, <2>1, <2>2 DEF b
<1> QED BY <1>8, <1>9

LEMMA OpenMatching ==
  ASSUME Types, Local, Table, NEW f \in Files, Exclusive(f), InOrder(f), Matching(f), ApartStays(f),
         NEW c \in Threads, Open(c), File(c) = f, "window" \notin stirred'[f], LostNoted(f),
         "unread" \notin stirred[f]
  PROVE  Matching(f)'
<1> DEFINE b == open_file_buffers[f]
<1>1. /\ Step(c) /\ server' = server /\ disk' = disk /\ pc[c] = "open" /\ ~Creating(c)
      /\ ~Changes(c) /\ pc[c] # "put"
  BY DEF Step, Open, Creating, Changes
<1>2. \A d \in Threads : Using(d, f) => b = Buffer(d)
  <2> SUFFICES ASSUME NEW d \in Threads, Using(d, f) PROVE b = Buffer(d)
    OBVIOUS
  <2>1. ~Creating(d)
    BY <1>1, NobodyBetween DEF Using
  <2> QED BY <2>1, OneInUse
<1>3. CASE FailWith(c, "assertion", job[c])
  <2>1. CASE Using(c, f)
    BY <1>3, <2>1, PlainMatching
  <2>2. CASE ~Using(c, f)
    <3>1. job'[c].held = job[c].held
      BY <1>3, FailKeeps
    <3>2. ~Using(c, f)'
      BY <2>2, <3>1 DEF Using, Depth
    <3> QED BY <1>1, <2>2, <3>2, ElsewhereMatching
  <2> QED BY <2>1, <2>2
<1>4. CASE ~FailWith(c, "assertion", job[c])
  <2>1. /\ Buffer(c)' \in BufferIds /\ pc'[c] = "ensure"
        /\ \/ b = 0 /\ buffers'[Buffer(c)'] = [NoBuffer EXCEPT !.file = f, !.refs = 1]
           \/ /\ b \in BufferIds /\ b # 0 /\ Buffer(c)' = b
              /\ buffers' = [buffers EXCEPT ![b] = [buffers[b] EXCEPT !.refs = @ + 1]]
    BY <1>4, OpenCases
  <2>2. Carries(c, f)'
    BY <2>1, CarriesNothing DEF Opens, Changes, Saves
  <2>3. CASE b = 0
    <3>1. \A d \in Threads : ~Using(d, f)
      BY <1>2, <2>3, DepthBound, NotZero DEF Using
    <3>2. ~server[f].open
      BY <3>1, OpenIsUsed
    <3>3. \A d \in Threads : Using(d, f)' => d = c
      BY <1>1, <3>1, OtherUsing
    <3>4. buffers'[Buffer(c)'] = [NoBuffer EXCEPT !.file = f, !.refs = 1]
      BY <2>1, <2>3
    <3>5. ~buffers'[Buffer(c)'].opened /\ ~buffers'[Buffer(c)'].read
      BY <3>4 DEF NoBuffer
    <3>6. InStep(Buffer(c), f)'
      BY <1>1, <3>2, <3>5 DEF InStep
    <3> QED BY <2>2, <3>3, <3>6 DEF Matching
  <2>4. CASE b # 0
    <3> HIDE DEF b
    <3>1. /\ b \in BufferIds /\ Buffer(c)' = b
          /\ buffers' = [buffers EXCEPT ![b] = [buffers[b] EXCEPT !.refs = @ + 1]]
      BY <2>1, <2>4
    <3>2. LET r == [buffers[b] EXCEPT !.refs = @ + 1]
          IN  /\ r.opened = buffers[b].opened /\ r.read = buffers[b].read
              /\ r.text = buffers[b].text /\ r.newer = buffers[b].newer
      BY <3>1, FreshKeeps DEF BufferType
    <3>3. Steady(b)
      BY <3>1, <3>2, PutSteady
    <3>4. PICK e \in Threads : Using(e, f)
      <4>0. ~(buffers[b].lost > 0)
        BY <3>1 DEF LostNoted, InUse, b
      <4>1. PICK e \in Threads : \E i \in 1 .. Depth(e) : job[e].held[i] = b
        BY <2>4, <4>0 DEF Table, Registered, b
      <4>2. buffers[b].file = f
        BY <2>4 DEF Table, Registered, b
      <4>3. Depth(e) # 0 /\ File(e) = f
        BY <4>1, <4>2, DepthBound DEF Table, HeldTyped
      <4> QED BY <4>3 DEF Using
    <3>5. ASSUME NEW d \in Threads, Using(d, f)' PROVE Buffer(d)' = b
      <4>1. CASE d = c
        BY <3>1, <4>1
      <4>2. CASE d # c
        BY <1>1, <1>2, <3>5, <4>2, OtherUsing
      <4> QED BY <4>1, <4>2
    <3>6. Buffer(e) = b
      BY <1>2, <3>4
    <3> QED BY <1>1, <2>2, <3>3, <3>4, <3>5, <3>6, KeepsMatching
  <2> QED BY <2>3, <2>4
<1> QED BY <1>3, <1>4

\* The document is closed by its only user.
LEMMA CloseMatching ==
  ASSUME Types, Local, Table, NEW f \in Files, Exclusive(f), Matching(f), ApartStays(f),
         NEW c \in Threads, Close(c), Using(c, f)
  PROVE  Matching(f)'
<1>1. /\ Step(c) /\ pc[c] = "close" /\ pc'[c] = "del" /\ job' = job /\ buffers' = buffers
      /\ disk' = disk /\ File(c) = f
  BY DEF Step, Close, Goto, Types, TypeOK, Using
<1>2. \A d \in Threads : Using(d, f) => d = c
  BY <1>1, AloneAtClose
<1>3. \A d \in Threads : Using(d, f)' => d = c
  BY <1>1, <1>2, OtherUsing
<1>4. Buffer(c)' = Buffer(c) /\ InStep(Buffer(c), f) /\ ~Writing(f)
  BY <1>1, <1>2 DEF Buffer, Matching, Writing
<1>5. ~server'[f].open
  <2>1. CASE buffers[Buffer(c)].opened
    <3>1. server'[f] = [Unopened EXCEPT !.broken = server[f].broken \/ ~server[f].open]
      BY <1>1, <2>1 DEF Close, Types, TypeOK
    <3> QED BY <3>1 DEF Unopened
  <2>2. CASE ~buffers[Buffer(c)].opened
    BY <1>4, <2>2 DEF Close, InStep
  <2> QED BY <2>1, <2>2
<1>6. InStep(Buffer(c), f)'
  BY <1>1, <1>4, <1>5 DEF InStep
<1>7. Carries(c, f)'
  BY <1>1, CarriesNothing DEF Opens, Changes, Saves
<1> QED BY <1>3, <1>6, <1>7 DEF Matching

LEMMA DelMatching ==
  ASSUME Types, Local, Table, NEW f \in Files, Exclusive(f), NEW c \in Threads, Del(c), Using(c, f)
  PROVE  Matching(f)'
<1>1. Step(c) /\ pc[c] = "del"
  BY DEF Step, Del
<1>2. Depth(c) = 1 /\ \A d \in Threads : Using(d, f) => d = c
  BY <1>1, AloneAtClose
<1>3. Depth(c)' = Depth(c) - 1
  <2>1. PICK why : AfterDrop(c, [job[c] EXCEPT !.held = Front(@), !.failed = why])
    BY DelLeaves
  <2> QED BY <1>1, <2>1, LeaveKeeps
<1>4. \A d \in Threads : ~Using(d, f)'
  <2>1. ~Using(c, f)'
    BY <1>2, <1>3 DEF Using
  <2> QED BY <1>1, <1>2, <2>1, OtherUsing
<1> QED BY <1>4 DEF Matching

\* Another program writes or removes another file, or one that nobody uses.
LEMMA OutsideMatching ==
  ASSUME Types, Local, Table, NEW g \in Files, Outside(g), NEW f \in Files, Matching(f), ApartStays(f),
         Calm(f)'
  PROVE  Matching(f)'
<1>1. /\ UNCHANGED <<server, pc, job>> /\ Interfere(g)
      /\ \/ \E text : Written(g, text)
         \/ UNCHANGED buffers /\ \E text : disk' = [disk EXCEPT ![g] = text]
  BY DEF Outside, WriteOutside, RemoveOutside, RestoreOutside
<1>2. \A d \in Threads : (Using(d, f)' <=> Using(d, f)) /\ Buffer(d)' = Buffer(d)
  BY <1>1 DEF Using, Depth, File, Phase, Buffer
<1>3. CASE f = g
  <2>1. InFlight(f) = {}
    BY <1>1, <1>3 DEF Interfere, Stir, Types, TypeOK, Calm
  <2>2. \A d \in Threads : ~Using(d, f)
    BY <2>1, UsingInFlight
  <2> QED BY <1>2, <2>2 DEF Matching
<1>4. CASE f # g
  <2>1. disk'[f] = disk[f]
    BY <1>1, <1>4 DEF Written, Types, TypeOK
  <2>2. \A d \in Threads : Using(d, f) => buffers'[Buffer(d)] = buffers[Buffer(d)]
    BY <1>1, <1>4, HeldFile DEF Written, Using
  <2>3. (Writing(f)' <=> Writing(f)) /\ (Changing(f)' <=> Changing(f))
    BY <1>1, <1>2 DEF Writing, Changing, Changes
  <2> SUFFICES ASSUME NEW d \in Threads, Using(d, f)'
               PROVE  InStep(Buffer(d), f)' /\ Carries(d, f)'
    BY DEF Matching
  <2>4. Using(d, f) /\ Buffer(d)' = Buffer(d) /\ buffers'[Buffer(d)] = buffers[Buffer(d)]
    BY <1>2, <2>2
  <2>5. InStep(Buffer(d), f) /\ Carries(d, f)
    BY <2>4 DEF Matching
  <2>6. InStep(Buffer(d), f)'
    BY <1>1, <2>1, <2>3, <2>4, <2>5 DEF InStep, ApartStays
  <2>7. Mirror(d, server[f].text)' = Mirror(d, server[f].text)
    BY <1>1, MirrorSame
  <2>8. Carries(d, f)'
    BY <1>1, <2>1, <2>4, <2>5, <2>7 DEF Carries, Opens, Changes, Saves, ApartStays
  <2> QED BY <2>6, <2>8
<1> QED BY <1>3, <1>4

\* An undisturbed file on which a call works is there.
LEMMA NoneMissing ==
  ASSUME Types, Local, NEW f \in Files, Calm(f), MissingNoted(f), NEW c \in Threads, Using(c, f)
  PROVE  f \notin missing
<1>1. InFlight(f) # {}
  BY UsingInFlight
<1> QED BY <1>1 DEF MissingNoted, Calm

\* A step of a thread, while the file stays undisturbed.
LEMMA ThreadMatching ==
  ASSUME Types, Local, Table, NEW f \in Files, Exclusive(f), InOrder(f), OneEditor(f), Matching(f), ApartStays(f),
         Calm(f), Calm(f)', LostNoted(f), MissingNoted(f), NEW c \in Threads, Step(c)
  PROVE  Matching(f)'
<1>1. CASE Open(c) /\ File(c) = f
  BY <1>1, OpenMatching DEF Calm
<1>2. CASE ~Using(c, f) /\ ~(Open(c) /\ File(c) = f)
  BY <1>2, StaysOut, ElsewhereMatching
<1>3. CASE Using(c, f) /\ ~(Open(c) /\ File(c) = f)
  <2>1. ~(Begin(c) \/ Return(c) \/ Validate(c) \/ Open(c))
    BY <1>3, DepthBound DEF Begin, Return, Validate, Using
  <2>2. CASE EnsureOpen(c)
    BY <1>3, <2>2, PlainMatching, OpeningMatching
  <2>3. CASE DidOpen(c)
    BY <1>3, <2>3, DidOpenMatching
  <2>4. CASE Store(c) \/ Ask(c) \/ Drop(c) \/ Stamp(c)
    BY <1>3, <2>4, PlainMatching
  <2>5. CASE Close(c)
    BY <1>3, <2>5, CloseMatching
  <2>6. CASE Del(c)
    BY <1>3, <2>6, DelMatching
  <2>7. CASE Delete(c) \/ Insert(c)
    BY <1>3, <2>7, ChangeMatching
  <2>8. CASE DidChange(c)
    BY <1>3, <2>8, DidChangeMatching
  <2>9. CASE LookInCache(c)
    BY <1>3, <2>9, LookMatching
  <2>10. CASE Save(c)
    BY <1>3, <2>10, SaveMatching
  <2>11. CASE Truncate(c) \/ Put(c)
    BY <1>3, <2>11, WriteMatching
  <2>12. ~OpenFails(c) /\ ~ReadFails(c)
    BY <1>3, NoneMissing, HeldFile DEF OpenFails, ReadFails, Raises, Using
  <2> QED BY <2>1, <2>2, <2>3, <2>4, <2>5, <2>6, <2>7, <2>8, <2>9, <2>10, <2>11, <2>12 DEF Step
<1> QED BY <1>1, <1>2, <1>3

LEMMA MatchingStep ==
  ASSUME Types, Local, Table, AloneInGaps, Noticed, ProtocolInv, MatchingInv, Next
  PROVE  MatchingInv'
<1> SUFFICES ASSUME NEW f \in Files, Calm(f)' PROVE Matching(f)'
  BY DEF MatchingInv
<1>1. CASE ~Calm(f) \/ ~ApartStays(f)
  <2>1. PICK kind : kind \in stirred[f] /\ kind \notin stirred'[f]
    BY <1>1 DEF Calm, ApartStays, Apart
  <2>2. PICK c \in Threads : Return(c) /\ InFlight(f) \subseteq {c}
    BY <2>1, KindStays
  <2>3. InFlight(f)' = {}
    BY <2>2, NobodyLeft
  <2>4. Types' /\ Local'
    BY TypesStep, LocalStep
  <2>5. (\A d \in Threads : \A g \in Files : Using(d, g) => d \in InFlight(g))'
    BY <2>4, UsingInFlight, PTL
  <2>6. \A d \in Threads : ~Using(d, f)'
    BY <2>3, <2>5
  <2> QED BY <2>6 DEF Matching
<1>2. CASE Calm(f) /\ ApartStays(f)
  <2>1. Exclusive(f) /\ OneEditor(f) /\ InOrder(f) /\ Matching(f) /\ LostNoted(f) /\ MissingNoted(f)
    BY <1>2 DEF AloneInGaps, ProtocolInv, MatchingInv, Calm, Noticed
  <2>2. CASE \E g \in Files : Outside(g)
    BY <1>2, <2>1, <2>2, OutsideMatching
  <2>3. CASE \E c \in Threads : Step(c)
    BY <1>2, <2>1, <2>3, ThreadMatching
  <2> QED BY <2>2, <2>3 DEF Next
<1> QED BY <1>1, <1>2

THEOREM MatchingKept == Spec => []MatchingInv
<1>1. Init => MatchingInv
  <2> SUFFICES ASSUME Init, NEW f \in Files PROVE Matching(f)
    BY DEF MatchingInv
  <2>1. \A c \in Threads : Depth(c) = 0
    BY DEF Init, NoJob, Depth
  <2> QED BY <2>1 DEF Matching, Using
<1>2. SessionsInv /\ AloneInGaps /\ Noticed /\ ProtocolInv /\ MatchingInv /\ [Next]_vars => MatchingInv'
  <2> SUFFICES ASSUME SessionsInv, AloneInGaps, Noticed, ProtocolInv, MatchingInv, [Next]_vars
               PROVE  MatchingInv'
    OBVIOUS
  <2>1. CASE Next
    BY <2>1, MatchingStep DEF SessionsInv
  <2>2. CASE UNCHANGED vars
    <3>1. UNCHANGED <<disk, buffers, server, pc, job, stirred>>
      BY <2>2 DEF vars
    <3> SUFFICES ASSUME NEW f \in Files, Matching(f) PROVE Matching(f)'
      BY <3>1 DEF MatchingInv, Calm
    <3>2. \A d \in Threads :
            /\ (Using(d, f)' <=> Using(d, f)) /\ Buffer(d)' = Buffer(d)
            /\ Mirror(d, server[f].text)' = Mirror(d, server[f].text)
      BY <3>1, MirrorSame DEF Using, Depth, File, Phase, Buffer
    <3>3. (Writing(f)' <=> Writing(f)) /\ (Changing(f)' <=> Changing(f))
      BY <3>1, <3>2 DEF Writing, Changing, Changes
    <3>4. ASSUME NEW d \in Threads, Using(d, f)' PROVE InStep(Buffer(d), f)' /\ Carries(d, f)'
      <4>1. InStep(Buffer(d), f) /\ Carries(d, f)
        BY <3>2, <3>4 DEF Matching
      <4>2. InStep(Buffer(d), f)'
        BY <3>1, <3>2, <3>3, <4>1 DEF InStep, Apart
      <4>3. Carries(d, f)'
        BY <3>1, <3>2, <4>1 DEF Carries, Opens, Changes, Saves, Apart
      <4> QED BY <4>2, <4>3
    <3> QED BY <3>4 DEF Matching
  <2> QED BY <2>1, <2>2
<1> QED BY <1>1, <1>2, OrderKept, PTL DEF Spec

\* A registered buffer is the buffer of some call in progress on the file.
LEMMA RegisteredInUse ==
  ASSUME Types, Local, Table, NEW f \in Files, Exclusive(f), open_file_buffers[f] # 0,
         LostNoted(f), "unread" \notin stirred[f]
  PROVE  \E c \in Threads : Using(c, f) /\ Buffer(c) = open_file_buffers[f]
<1>0. open_file_buffers[f] \in BufferIds /\ ~(buffers[open_file_buffers[f]].lost > 0)
  BY DEF LostNoted, InUse, Types, TypeOK
<1>1. PICK d \in Threads : \E k \in 1 .. Depth(d) : job[d].held[k] = open_file_buffers[f]
  BY <1>0 DEF Table, Registered
<1>2. PICK k \in 1 .. Depth(d) : job[d].held[k] = open_file_buffers[f]
  BY <1>1
<1>3. buffers[job[d].held[k]].file = File(d)
  BY DEF Table, HeldTyped
<1>4. buffers[open_file_buffers[f]].file = f
  BY DEF Table, Registered
<1>5. Depth(d) # 0
  BY <1>2, DepthBound
<1>6. Using(d, f)
  BY <1>2, <1>3, <1>4, <1>5 DEF Using
<1>7. Depth(d) \in 1 .. Depth(d) /\ job[d].held[Depth(d)] = Buffer(d)
  BY <1>5, DepthBound
<1>8. Buffer(d) = open_file_buffers[f]
  BY <1>6, <1>7 DEF Exclusive, Using
<1> QED BY <1>6, <1>8

\* While nobody is about to tell the server something, what is in step matches.
LEMMA StepMatches ==
  ASSUME Types, Local, NEW f \in Files, NEW c \in Threads, Using(c, f), InOrder(f), Matching(f),
         ~Apart(f),
         \A d \in Threads : Using(d, f) =>
            pc[d] \notin {"did open", "did delete", "did insert", "close", "del"}
  PROVE  LET b == Buffer(c)
         IN  /\ server[f].open = buffers[b].opened
             /\ buffers[b].opened => server[f].text = buffers[b].text
<1>1. InStep(Buffer(c), f) /\ ~Changing(f)
  BY DEF Matching, Changing, Changes
<1>2. buffers[Buffer(c)].opened => server[f].open
  BY DEF InOrder, Opens
<1>3. Buffer(c) \in BufferIds
  BY DepthBound DEF Using
<1>4. server[f].open \in BOOLEAN /\ buffers[Buffer(c)].opened \in BOOLEAN
  BY <1>3 DEF Types, TypeOK
<1> QED BY <1>1, <1>2, <1>4 DEF InStep

\* Between two messages the server's text of an open document is that of the registered
\* buffer, while nothing interferes on the file.
THEOREM Mirrored == Spec => []MirrorMatches
<1>1. SessionsInv /\ AloneInGaps /\ Noticed /\ ProtocolInv /\ MatchingInv => MirrorMatches
  <2>1. SUFFICES ASSUME SessionsInv, AloneInGaps, Noticed, ProtocolInv, MatchingInv,
                        NEW f \in Files, open_file_buffers[f] # 0, stirred[f] = {},
                        \A c \in Threads :
                          pc[c] \in {"did open", "did delete", "did insert", "close", "del"}
                            => File(c) # f
                 PROVE  LET b == open_file_buffers[f]
                        IN  /\ server[f].open = buffers[b].opened
                            /\ buffers[b].opened => server[f].text = buffers[b].text
    BY DEF MirrorMatches
  <2>2. Exclusive(f) /\ InOrder(f) /\ Matching(f) /\ Types /\ Local /\ Table /\ ~Apart(f)
        /\ LostNoted(f)
    BY <2>1 DEF AloneInGaps, Noticed, ProtocolInv, MatchingInv, SessionsInv, Calm, Apart
  <2>3. PICK c \in Threads : Using(c, f) /\ Buffer(c) = open_file_buffers[f]
    BY <2>1, <2>2, RegisteredInUse
  <2>4. \A d \in Threads : Using(d, f) =>
            pc[d] \notin {"did open", "did delete", "did insert", "close", "del"}
    BY <2>1 DEF Using
  <2> QED BY <2>2, <2>3, <2>4, StepMatches, ZenonT(30)
<1> QED BY <1>1, OrderKept, MatchingKept, PTL

-----------------------------------------------------------------------------
(* How a call gets from file to file.                                        *)

Leaves(c) == pc[c] \in {"drop", "close", "del"}
Pending(c, f) == \E i \in 1 .. Len(job[c].plan) : job[c].plan[i] = <<"edit", f>>

\* A call edits each file once, after all questions.
Once(c) ==
  LET plan == job[c].plan
  IN  \A i, j \in 1 .. Len(plan) : plan[i] = plan[j] => i = j
Asking(c) ==
  (job[c].plan # <<>> /\ Doing(c) = "ask") =>
    job[c].saved = {} /\ (job[c].op # "rename" => job[c].plan = Plan(job[c].op, job[c].file))

\* While the phase of a file that is saved is still the next one, the call leaves its
\* with-block.
SavedLast(c) ==
  pc[c] # "return" =>
    \A f \in job[c].saved : \A i \in 1 .. Len(job[c].plan) :
      job[c].plan[i] = <<"edit", f>> => i = 1 /\ Leaves(c) /\ Depth(c) = 1

\* Without a failure a call leaves no file unsaved and no phase undone, and a location is
\* looked for by edits only.
LeavesSaved(c) ==
  (Leaves(c) /\ Doing(c) = "edit" /\ job[c].failed = "no" /\ Depth(c) = 1) => File(c) \in job[c].saved
Through(c) == (pc[c] = "return" /\ job[c].failed = "no") => job[c].plan = <<>>
MissedPlace(c) == (Leaves(c) /\ job[c].failed = "location") => Doing(c) = "edit"

Course(c) ==
  Once(c) /\ Asking(c) /\ SavedLast(c) /\ LeavesSaved(c) /\ Through(c) /\ MissedPlace(c)

Courses == \A c \in Threads : pc[c] # "idle" => Course(c)

\* A step that asks nothing either goes on with the phase, or fails, or proceeds to the
\* next phase; saved and at do not change.
SameAim(c) == job'[c].plan = job[c].plan /\ job'[c].at = job[c].at /\ job'[c].saved = job[c].saved

GoesOn(c) ==
  /\ SameAim(c) /\ job'[c].failed = job[c].failed
  /\ Leaves(c)' => \/ Leaves(c) /\ (Depth(c)' = Depth(c) \/ job[c].failed # "no")
                   \/ pc[c] = "did insert" /\ Depth(c)' = 2
  /\ pc'[c] = "return" => job[c].failed # "no"
  /\ (Leaves(c) /\ Depth(c) = 1) => (Leaves(c)' /\ Depth(c)' = 1) \/ pc'[c] = "return"

Fails(c) ==
  /\ SameAim(c) /\ job'[c].failed # "no" /\ pc'[c] \in {"drop", "return"}
  /\ \/ job'[c].failed \in {"assertion", "key"}
     \/ job'[c].failed = "unread" /\ (OpenFails(c) \/ ReadFails(c))
     \/ job'[c].failed = "location" /\ pc[c] \in {"delete", "insert"}
     \/ job'[c].failed = "denied" /\ pc'[c] = "return"
  /\ (Leaves(c) /\ Depth(c) = 1) => pc'[c] = "return"

Proceeds(c) ==
  /\ job'[c].at = job[c].at /\ job'[c].saved = job[c].saved
  /\ job[c].failed = "no" /\ job'[c].failed = "no"
  /\ Leaves(c) /\ Depth(c) = 1 /\ ~Leaves(c)' /\ Depth(c)' = 0
  /\ job'[c].plan = Tail(job[c].plan) /\ (pc'[c] = "return" => Len(job[c].plan) = 1)

\* How a with-block is left: after a failure through the blocks around it, else to the
\* file's being saved, or to the next phase.
LEMMA LeavesTo ==
  ASSUME Types, Local, NEW c \in Threads, pc[c] \in {"drop", "del"}, NEW why \in Failures,
         AfterDrop(c, [job[c] EXCEPT !.held = Front(@), !.failed = why])
  PROVE  /\ Depth(c) \in 1 .. 2 /\ Depth(c)' = Depth(c) - 1
         /\ job'[c].at = job[c].at /\ job'[c].saved = job[c].saved /\ job'[c].failed = why
         /\ \/ /\ why # "no" /\ pc'[c] = IF Depth(c) = 1 THEN "return" ELSE "drop"
               /\ job'[c].plan = job[c].plan
            \/ why = "no" /\ Depth(c) = 2 /\ pc'[c] = "save" /\ job'[c].plan = job[c].plan
            \/ /\ why = "no" /\ Depth(c) = 1 /\ job'[c].plan = Tail(job[c].plan)
               /\ pc'[c] = IF Len(job[c].plan) = 1 THEN "return"
                           ELSE IF job[c].op = "rename" THEN "validate" ELSE "open"
<1> DEFINE j == [job[c] EXCEPT !.held = Front(@), !.failed = why]
<1>1. /\ Depth(c) \in 1 .. 2
      /\ Front(job[c].held) \in Seq(BufferIds) /\ Len(Front(job[c].held)) = Depth(c) - 1
  BY DepthBound, Mine, FrontType DEF Depth
<1>2. /\ j.plan = job[c].plan /\ j.at = job[c].at /\ j.saved = job[c].saved /\ j.failed = why
      /\ j.held = Front(job[c].held) /\ j.op = job[c].op /\ j \in JobType
  <2>1. job[c] \in JobType
    BY Mine
  <2>2. /\ j.plan = job[c].plan /\ j.at = job[c].at /\ j.saved = job[c].saved /\ j.failed = why
        /\ j.held = Front(job[c].held) /\ j.op = job[c].op
    BY <2>1 DEF JobType
  <2>3. j \in JobType
    BY <1>1, <2>1 DEF JobType
  <2> QED BY <2>2, <2>3
<1>3. j.held = <<>> <=> Depth(c) = 1
  <2>1. \A s \in Seq(BufferIds) : s = <<>> <=> Len(s) = 0
    OBVIOUS
  <2>2. Front(job[c].held) = <<>> <=> Depth(c) - 1 = 0
    BY <1>1, <2>1
  <2>3. ASSUME NEW n \in 1 .. 2 PROVE n - 1 = 0 <=> n = 1
    BY <2>3
  <2>4. j.held = Front(job[c].held)
    BY <1>2
  <2>5. Depth(c) \in 1 .. 2
    BY <1>1
  <2> QED BY <2>2, <2>3, <2>4, <2>5
<1>4. AfterDrop(c, j)
  OBVIOUS
<1> HIDE DEF j
<1>5. job'[c].held = Front(job[c].held) => Depth(c)' = Depth(c) - 1
  BY <1>1 DEF Depth
<1>6. CASE why # "no"
  <2>1. job'[c] = j /\ pc'[c] = IF Depth(c) = 1 THEN "return" ELSE "drop"
    BY <1>2, <1>3, <1>4, <1>6 DEF AfterDrop, SetJob, Goto, Types, TypeOK
  <2> QED BY <1>1, <1>2, <1>5, <1>6, <2>1
<1>7. CASE why = "no" /\ Depth(c) # 1
  <2>1. job'[c] = j /\ pc'[c] = "save"
    BY <1>2, <1>3, <1>4, <1>7 DEF AfterDrop, SetJob, Goto, Types, TypeOK
  <2>2. Depth(c) = 2
    BY <1>1, <1>7
  <2> QED BY <1>1, <1>2, <1>5, <1>7, <2>1, <2>2
<1>8. CASE why = "no" /\ Depth(c) = 1
  <2>1. /\ job'[c] = [j EXCEPT !.plan = Tail(@)]
        /\ pc'[c] = IF Len(j.plan) = 1 THEN "return" ELSE IF j.op = "rename" THEN "validate" ELSE "open"
    BY <1>2, <1>3, <1>4, <1>8 DEF AfterDrop, SetJob, Goto, Types, TypeOK
  <2>2. /\ job'[c].plan = Tail(job[c].plan) /\ job'[c].at = job[c].at /\ job'[c].saved = job[c].saved
        /\ job'[c].failed = "no" /\ job'[c].held = Front(job[c].held)
    BY <1>2, <1>8, <2>1 DEF JobType
  <2> QED BY <1>1, <1>2, <1>5, <1>8, <2>1, <2>2
<1> QED BY <1>6, <1>7, <1>8

\* Leaving a with-block goes on, fails or proceeds.
LEMMA LeaveMoves ==
  ASSUME Types, Local, NEW c \in Threads, pc[c] \in {"drop", "del"}, NEW why \in Failures,
         why = job[c].failed \/ why = "key",
         AfterDrop(c, [job[c] EXCEPT !.held = Front(@), !.failed = why])
  PROVE  GoesOn(c) \/ Fails(c) \/ Proceeds(c)
<1>1. /\ Depth(c) \in 1 .. 2 /\ Depth(c)' = Depth(c) - 1 /\ Leaves(c) /\ pc[c] # "did insert"
      /\ job'[c].at = job[c].at /\ job'[c].saved = job[c].saved /\ job'[c].failed = why
      /\ \/ /\ why # "no" /\ pc'[c] = IF Depth(c) = 1 THEN "return" ELSE "drop"
            /\ job'[c].plan = job[c].plan
         \/ why = "no" /\ Depth(c) = 2 /\ pc'[c] = "save" /\ job'[c].plan = job[c].plan
         \/ /\ why = "no" /\ Depth(c) = 1 /\ job'[c].plan = Tail(job[c].plan)
            /\ pc'[c] = IF Len(job[c].plan) = 1 THEN "return"
                        ELSE IF job[c].op = "rename" THEN "validate" ELSE "open"
  BY LeavesTo DEF Leaves
<1> DEFINE n == Depth(c)
           m == Depth(c)'
<1>0. (n = 1 /\ m = 0) \/ (n = 2 /\ m = 1)
  <2>1. n \in 1 .. 2 /\ m = n - 1
    BY <1>1
  <2> HIDE DEF n, m
  <2> QED BY <2>1
<1>2. CASE why # "no"
  <2>1. pc'[c] = (IF Depth(c) = 1 THEN "return" ELSE "drop") /\ SameAim(c)
    BY <1>1, <1>2 DEF SameAim
  <2>2. Depth(c)' = IF Depth(c) = 1 THEN 0 ELSE 1
    BY <1>0
  <2>3. CASE why = job[c].failed
    BY <1>1, <1>2, <2>1, <2>2, <2>3 DEF GoesOn, Leaves
  <2>4. CASE why = "key"
    BY <1>1, <1>2, <2>1, <2>2, <2>4 DEF Fails, Leaves
  <2> QED BY <2>3, <2>4
<1>3. CASE why = "no" /\ Depth(c) = 2
  <2>1. Depth(c) # 1 /\ ~(why # "no")
    BY <1>3
  <2>2. pc'[c] = "save" /\ SameAim(c)
    BY <1>1, <2>1, Zenon DEF SameAim
  <2>3. job'[c].failed = job[c].failed
    BY <1>1, <1>3
  <2> QED BY <2>1, <2>2, <2>3 DEF GoesOn, Leaves
<1>4. CASE why = "no" /\ Depth(c) = 1
  <2>1. Depth(c) # 2 /\ ~(why # "no") /\ why = job[c].failed
    BY <1>4
  <2>2. /\ job'[c].plan = Tail(job[c].plan)
        /\ pc'[c] = IF Len(job[c].plan) = 1 THEN "return"
                    ELSE IF job[c].op = "rename" THEN "validate" ELSE "open"
    BY <1>1, <2>1, Zenon
  <2>3. Depth(c)' = 0
    BY <1>0, <1>4
  <2> QED BY <1>1, <1>4, <2>1, <2>2, <2>3 DEF Proceeds, Leaves
<1>5. Depth(c) = 1 \/ Depth(c) = 2
  BY <1>0
<1> QED BY <1>2, <1>3, <1>4, <1>5

\* A failure in a step of an edit or of opening.
LEMMA FailMoves ==
  ASSUME Types, NEW c \in Threads, NEW why \in Failures, FailWith(c, why, job[c]), ~Leaves(c),
         \/ why \in {"assertion", "key"}
         \/ why = "location" /\ pc[c] \in {"delete", "insert"}
         \/ why = "denied" /\ Depth(c) = 0
  PROVE  Fails(c)
<1>1. job'[c] = [job[c] EXCEPT !.failed = why] /\ (Depth(c) = 0 => pc'[c] = "return")
  BY Mine DEF FailWith, SetJob, Goto, Types, TypeOK
<1>2. SameAim(c) /\ job'[c].failed = why
  BY <1>1, Mine DEF JobType, SameAim
<1> QED BY <1>1, <1>2, FailCases DEF Fails

\* A file that is not there makes a call fail.
LEMMA UnreadMoves ==
  ASSUME Types, NEW c \in Threads, OpenFails(c) \/ ReadFails(c)
  PROVE  Fails(c)
<1>1. ~Leaves(c)
  BY DEF OpenFails, ReadFails, Leaves
<1>2. PICK held, fb, out :
        \/ FailWith(c, "unread", job[c])
        \/ FailWith(c, "unread", [job[c] EXCEPT !.held = held])
        \/ FailWith(c, "unread", [job[c] EXCEPT !.fb = fb, !.out = out])
  BY OpenFailsJob DEF ReadFails
<1>3. \/ job'[c] = [job[c] EXCEPT !.failed = "unread"]
      \/ job'[c] = [job[c] EXCEPT !.held = held, !.failed = "unread"]
      \/ job'[c] = [job[c] EXCEPT !.fb = fb, !.out = out, !.failed = "unread"]
  BY <1>2, Mine DEF FailWith, SetJob, Types, JobType
<1>4. SameAim(c)
  BY <1>3, Mine DEF SameAim, JobType
<1>5. job'[c].failed = "unread" /\ pc'[c] \in {"drop", "return"}
  BY <1>2, FailCases DEF Failures
<1> QED BY <1>1, <1>4, <1>5 DEF Fails

\* Every step that asks nothing and saves nothing goes on, fails or proceeds.
LEMMA Moves ==
  ASSUME Types, Local, NEW c \in Threads, Step(c),
         ~(Begin(c) \/ Return(c) \/ LookInCache(c) \/ Ask(c) \/ Stamp(c))
  PROVE  GoesOn(c) \/ Fails(c) \/ Proceeds(c)
<1> DEFINE Plain(j) == /\ j.plan = job[c].plan /\ j.at = job[c].at /\ j.saved = job[c].saved
                       /\ j.failed = job[c].failed /\ j.held = job[c].held
<1>1. ASSUME Plain(job'[c]), ~Leaves(c), pc'[c] # "return",
             Leaves(c)' => pc[c] = "did insert" /\ Depth(c) = 2
      PROVE  GoesOn(c)
  BY <1>1 DEF GoesOn, SameAim, Depth
<1>2. CASE Open(c)
  <2>1. pc[c] = "open" /\ ~Leaves(c)
    BY <1>2 DEF Open, Leaves
  <2>2. CASE FailWith(c, "assertion", job[c])
    BY <2>1, <2>2, FailMoves DEF Failures
  <2>3. CASE ~FailWith(c, "assertion", job[c])
    <3>1. (\E x, y : SetJob(c, [job[c] EXCEPT !.held = x, !.next = y])) /\ Goto(c, "ensure")
      BY <1>2, <2>3, Zenon DEF Open
    <3> PICK x, y : SetJob(c, [job[c] EXCEPT !.held = x, !.next = y])
      BY <3>1
    <3>2. job'[c] = [job[c] EXCEPT !.held = x, !.next = y] /\ pc'[c] = "ensure"
      BY <3>1 DEF SetJob, Goto, Types, TypeOK
    <3>3. SameAim(c) /\ job'[c].failed = job[c].failed
      BY <3>2, Mine DEF SameAim, JobType
    <3> QED BY <2>1, <3>2, <3>3 DEF GoesOn, Leaves
  <2> QED BY <2>2, <2>3
<1>3. CASE EnsureOpen(c) \/ DidOpen(c) \/ Store(c)
  <2>1. pc[c] \in {"ensure", "did open", "store"} /\ ~Leaves(c)
    BY <1>3 DEF EnsureOpen, DidOpen, Store, Leaves
  <2>2. UNCHANGED job \/ \E x : SetJob(c, [job[c] EXCEPT !.note = x])
    BY <1>3 DEF EnsureOpen, DidOpen, Store
  <2>3. Plain(job'[c])
    BY <2>2, Mine DEF SetJob, Types, JobType
  <2>4. pc'[c] \in {"did open", "store", "look", "ask", "insert", "open", "delete"}
    <3>1. CASE Store(c)
      <4>1. pc'[c] = Inside(c, Depth(c)) /\ Doing(c) \in {"ask", "edit"}
        BY <2>1, <3>1, DepthBound, Mine DEF Store, Goto, Types, TypeOK
      <4> QED BY <4>1 DEF Inside, Lazy
    <3>2. CASE EnsureOpen(c) \/ DidOpen(c)
      <4>1. pc'[c] \in {job[c].next, "did open"} /\ (pc[c] = "ensure" \/ Opens(c))
        BY <3>2 DEF EnsureOpen, DidOpen, Opens, Goto, Types, TypeOK
      <4> QED BY <4>1, NextStep
    <3> QED BY <1>3, <3>1, <3>2
  <2>5. pc'[c] # "return" /\ ~Leaves(c)'
    BY <2>4 DEF Leaves
  <2> QED BY <1>1, <2>1, <2>3, <2>5
<1>4. CASE Drop(c)
  <2>1. pc[c] = "drop" /\ job[c].failed \in Failures
    BY <1>4, Mine DEF Drop, JobType
  <2>2. CASE Goto(c, "close") /\ UNCHANGED job
    <3>1. pc'[c] = "close" /\ job'[c] = job[c]
      BY <2>2 DEF Goto, Types, TypeOK
    <3> QED BY <2>1, <3>1 DEF GoesOn, SameAim, Leaves, Depth
  <2>3. CASE AfterDrop(c, [job[c] EXCEPT !.held = Front(@), !.failed = job[c].failed])
    BY <2>1, <2>3, LeaveMoves
  <2> QED BY <1>4, <2>2, <2>3, DropLeaves
<1>5. CASE Close(c)
  <2>1. pc[c] = "close" /\ pc'[c] = "del" /\ job'[c] = job[c]
    BY <1>5 DEF Close, Goto, Types, TypeOK
  <2> QED BY <2>1 DEF GoesOn, SameAim, Leaves, Depth
<1>6. CASE Del(c)
  <2>1. PICK why \in Failures :
          /\ why = job[c].failed \/ (why = "key" /\ open_file_buffers[File(c)] = 0)
          /\ AfterDrop(c, [job[c] EXCEPT !.held = Front(@), !.failed = why])
    BY <1>6, DelLeaves
  <2> QED BY <1>6, <2>1, LeaveMoves DEF Del
<1>7. CASE Validate(c)
  <2>1. pc[c] = "validate" /\ ~Leaves(c) /\ Depth(c) = 0
    BY <1>7 DEF Validate, Leaves, Local, Placed
  <2>2. CASE FailWith(c, "denied", job[c])
    BY <2>1, <2>2, FailMoves DEF Failures
  <2>3. CASE Goto(c, "open") /\ UNCHANGED job
    <3>1. pc'[c] = "open" /\ job'[c] = job[c]
      BY <2>3 DEF Goto, Types, TypeOK
    <3> QED BY <1>1, <2>1, <3>1 DEF Leaves
  <2> QED BY <1>7, <2>2, <2>3 DEF Validate
<1>8. CASE Delete(c) \/ Insert(c)
  <2>1. pc[c] \in {"delete", "insert"} /\ ~Leaves(c) /\ File(c) \in Files
    BY <1>8, DepthBound DEF Delete, Insert, Leaves
  <2>2. CASE \E why \in {"assertion", "location"} : FailWith(c, why, job[c])
    BY <2>1, <2>2, FailMoves DEF Failures
  <2>3. CASE \E note : /\ SetJob(c, [job[c] EXCEPT !.note = note])
                       /\ Goto(c, "did delete") \/ Goto(c, "did insert")
    <3>1. PICK note : /\ SetJob(c, [job[c] EXCEPT !.note = note])
                      /\ Goto(c, "did delete") \/ Goto(c, "did insert")
      BY <2>3
    <3>2. job'[c] = [job[c] EXCEPT !.note = note] /\ pc'[c] \in {"did delete", "did insert"}
      BY <3>1 DEF SetJob, Goto, Types, TypeOK
    <3>3. Plain(job'[c])
      BY <3>2, Mine DEF JobType
    <3> QED BY <1>1, <2>1, <3>2, <3>3 DEF Leaves
  <2> QED BY <1>8, <2>1, <2>2, <2>3, ChangeCases DEF Delete, Insert
<1>9. CASE DidChange(c)
  <2>1. /\ pc[c] \in {"did delete", "did insert"} /\ ~Leaves(c)
        /\ pc'[c] = IF pc[c] = "did delete" THEN "insert" ELSE IF Depth(c) = 2 THEN "drop" ELSE "save"
        /\ job'[c] = [job[c] EXCEPT !.note = <<>>]
    BY <1>9 DEF DidChange, SetJob, Goto, Types, TypeOK, Leaves
  <2>2. Plain(job'[c])
    BY <2>1, Mine DEF JobType
  <2>3. pc'[c] # "return" /\ (Leaves(c)' => pc[c] = "did insert" /\ Depth(c) = 2)
    BY <2>1 DEF Leaves
  <2> QED BY <1>1, <2>1, <2>2, <2>3
<1>10. CASE Save(c)
  <2>1. pc[c] = "save" /\ ~Leaves(c)
    BY <1>10 DEF Save, Leaves
  <2>2. CASE FailWith(c, "key", job[c])
    BY <2>1, <2>2, FailMoves DEF Failures
  <2>3. CASE \E b, out : SetJob(c, [job[c] EXCEPT !.fb = b, !.out = out]) /\ Goto(c, "truncate")
    <3>1. PICK b, out : SetJob(c, [job[c] EXCEPT !.fb = b, !.out = out]) /\ Goto(c, "truncate")
      BY <2>3
    <3>2. job'[c] = [job[c] EXCEPT !.fb = b, !.out = out] /\ pc'[c] = "truncate"
      BY <3>1 DEF SetJob, Goto, Types, TypeOK
    <3>3. Plain(job'[c])
      BY <3>2, Mine DEF JobType
    <3> QED BY <1>1, <2>1, <3>2, <3>3 DEF Leaves
  <2> QED BY <1>10, <2>2, <2>3 DEF Save
<1>11. CASE Truncate(c) \/ Put(c)
  <2>1. job'[c] = job[c] /\ pc'[c] \in {"put", "stamp"} /\ pc[c] \in {"truncate", "put"}
    BY <1>11 DEF Truncate, Put, Goto, Types, TypeOK
  <2> QED BY <1>1, <2>1 DEF Leaves
<1>12. CASE OpenFails(c) \/ ReadFails(c)
  BY <1>12, UnreadMoves
<1> QED BY <1>2, <1>3, <1>4, <1>5, <1>6, <1>7, <1>8, <1>9, <1>10, <1>11, <1>12 DEF Step

\* The answer to a request: where the symbol is in the file or, for a rename, which files
\* are to be edited, each once.
LEMMA AskedWhere ==
  ASSUME Types, Local, NEW c \in Threads, Ask(c)
  PROVE  LET symbols == [g \in Files |-> IF job[c].op = "rename" \/ g = File(c)
                                           THEN SymbolAt(Seen(g)) ELSE 0]
         IN  \/ Located(c, symbols) /\ (job[c].op = "rename" => symbols[File(c)] = 0)
             \/ \E plan \in Seq({"ask", "edit"} \X Files) :
                  /\ job[c].op = "rename" /\ pc'[c] = "drop"
                  /\ job'[c] = [job[c] EXCEPT !.at = symbols, !.plan = plan]
                  /\ plan # <<>> /\ Head(plan) = job[c].plan[1] /\ plan[1] = job[c].plan[1]
                  /\ \A i, j \in 1 .. Len(plan) : plan[i] = plan[j] => i = j
                  /\ \A g \in Files : symbols[g] # 0 <=>
                                        \E i \in 1 .. Len(plan) : plan[i] = <<"edit", g>>
<1> DEFINE renamed == job[c].op = "rename"
           symbols == [g \in Files |-> IF renamed \/ g = File(c) THEN SymbolAt(Seen(g)) ELSE 0]
           S == {g \in Files : symbols[g] # 0}
<1>1. /\ job[c].plan # <<>> /\ File(c) \in Files /\ Doing(c) = "ask"
      /\ job[c].plan[1] = <<"ask", File(c)>>
  <2>1. job[c].plan # <<>> /\ Doing(c) = "ask"
    BY DEF Ask, Local, Placed
  <2>2. Phase(c) \in {"ask", "edit"} \X Files /\ Phase(c) = job[c].plan[1]
    BY <2>1, Mine
  <2> QED BY <2>1, <2>2 DEF Doing, File
<1>2. S \in SUBSET Files /\ \A g \in Files : g \in S <=> symbols[g] # 0
  OBVIOUS
<1>3. \/ /\ renamed
         /\ \E order \in SetToSeqs(S) :
              /\ SetJob(c, [job[c] EXCEPT !.at = symbols,
                   !.plan = <<@[1]>> \o [i \in 1 .. Len(order) |-> <<"edit", order[i]>>]])
              /\ Goto(c, "drop")
      \/ (renamed => symbols[File(c)] = 0) /\ Located(c, symbols)
  BY Zenon DEF Ask
<1> HIDE DEF symbols, S
<1>4. ASSUME renamed, NEW order \in SetToSeqs(S),
             SetJob(c, [job[c] EXCEPT !.at = symbols,
                   !.plan = <<@[1]>> \o [i \in 1 .. Len(order) |-> <<"edit", order[i]>>]]),
             Goto(c, "drop")
      PROVE  \E plan \in Seq({"ask", "edit"} \X Files) :
               /\ renamed /\ pc'[c] = "drop"
               /\ job'[c] = [job[c] EXCEPT !.at = symbols, !.plan = plan]
               /\ plan # <<>> /\ Head(plan) = job[c].plan[1] /\ plan[1] = job[c].plan[1]
               /\ \A i, j \in 1 .. Len(plan) : plan[i] = plan[j] => i = j
               /\ \A g \in Files : symbols[g] # 0 <=>
                                     \E i \in 1 .. Len(plan) : plan[i] = <<"edit", g>>
  <2> DEFINE edits == [i \in 1 .. Len(order) |-> <<"edit", order[i]>>]
             plan == <<job[c].plan[1]>> \o edits
             n == Cardinality(S)
  <2>1. order \in Seq(S) /\ Len(order) \in Nat
    BY <1>2, <1>4, OrderType
  <2>2. n \in Nat /\ IsFiniteSet(S)
    BY <1>2, FilesAssumption, FS_Subset, FS_CardinalityType
  <2>3. order \in [1 .. n -> S] /\ \A i, j \in 1 .. n : i # j => order[i] # order[j]
    BY <1>4 DEF SetToSeqs
  <2>4. Len(order) = n
    BY <2>1, <2>2, <2>3
  <2>5. \A g \in S : \E i \in 1 .. n : order[i] = g
    <3>1. order \in Injection(1 .. n, S)
      BY <2>3 DEF Injection, IsInjective
    <3>2. Cardinality(1 .. n) = n
      BY <2>2, FS_Interval
    <3>3. order \in Surjection(1 .. n, S)
      BY <2>2, <3>1, <3>2, FS_Injection
    <3> QED BY <3>3 DEF Surjection
  <2>6. edits \in Seq({"ask", "edit"} \X Files) /\ Len(edits) = n
        /\ \A i \in 1 .. n : edits[i] = <<"edit", order[i]>>
    <3>1. \A i \in 1 .. n : order[i] \in Files
      BY <1>2, <2>3
    <3>2. edits = [i \in 1 .. n |-> <<"edit", order[i]>>]
      BY <2>4
    <3> HIDE DEF edits
    <3> QED BY <2>2, <3>1, <3>2
  <2>7. job[c].plan[1] \in {"ask", "edit"} \X Files
    BY <1>1
  <2>8. job'[c] = [job[c] EXCEPT !.at = symbols, !.plan = plan]
    BY <1>4 DEF SetJob, Types
  <2> HIDE DEF edits, n
  <2>9. /\ plan \in Seq({"ask", "edit"} \X Files) /\ Len(plan) = n + 1
        /\ plan # <<>> /\ Head(plan) = job[c].plan[1] /\ plan[1] = job[c].plan[1]
        /\ \A i \in 1 .. n : plan[i + 1] = edits[i]
    BY <2>2, <2>6, <2>7
  <2> HIDE DEF plan
  <2>10. \A i \in 2 .. Len(plan) : i - 1 \in 1 .. n /\ plan[i] = <<"edit", order[i - 1]>>
    <3> TAKE i \in 2 .. Len(plan)
    <3>1. i - 1 \in 1 .. n /\ (i - 1) + 1 = i
      BY <2>2, <2>9
    <3>2. plan[(i - 1) + 1] = edits[i - 1]
      BY <2>9, <3>1
    <3> QED BY <2>6, <3>1, <3>2
  <2>11. ASSUME NEW i \in 1 .. Len(plan), NEW j \in 1 .. Len(plan), plan[i] = plan[j] PROVE i = j
    <3>1. \A k \in 1 .. Len(plan) : k = 1 \/ k \in 2 .. Len(plan)
      BY <2>2, <2>9
    <3>2. \A k \in 2 .. Len(plan) : plan[k] # plan[1]
      BY <1>1, <2>9, <2>10
    <3>3. CASE i \in 2 .. Len(plan) /\ j \in 2 .. Len(plan)
      <4>1. order[i - 1] = order[j - 1] /\ i - 1 \in 1 .. n /\ j - 1 \in 1 .. n
        BY <2>10, <2>11, <3>3
      <4>2. i - 1 = j - 1
        BY <2>3, <4>1 DEF n
      <4> QED BY <4>2
    <3> QED BY <2>11, <3>1, <3>2, <3>3
  <2>12. ASSUME NEW g \in Files
         PROVE  symbols[g] # 0 <=> \E i \in 1 .. Len(plan) : plan[i] = <<"edit", g>>
    <3>1. ASSUME symbols[g] # 0 PROVE \E i \in 1 .. Len(plan) : plan[i] = <<"edit", g>>
      <4>1. PICK i \in 1 .. n : order[i] = g
        BY <1>2, <2>5, <3>1 DEF n
      <4>2. i + 1 \in 1 .. Len(plan) /\ plan[i + 1] = <<"edit", g>>
        BY <2>2, <2>6, <2>9, <4>1
      <4> QED BY <4>2
    <3>2. ASSUME NEW i \in 1 .. Len(plan), plan[i] = <<"edit", g>> PROVE symbols[g] # 0
      <4>1. i # 1
        BY <1>1, <2>9, <3>2
      <4>2. i \in 2 .. Len(plan)
        BY <2>2, <2>9, <4>1
      <4>3. order[i - 1] = g /\ i - 1 \in 1 .. n
        BY <2>10, <3>2, <4>2
      <4>4. g \in S
        BY <2>3, <4>3 DEF n
      <4> QED BY <1>2, <4>4
    <3> QED BY <3>1, <3>2
  <2>13. pc'[c] = "drop"
    BY <1>4 DEF Goto, Types, TypeOK
  <2> QED BY <1>4, <2>8, <2>9, <2>11, <2>12, <2>13
<1>5. \/ Located(c, symbols) /\ (renamed => symbols[File(c)] = 0)
      \/ \E plan \in Seq({"ask", "edit"} \X Files) :
           /\ renamed /\ pc'[c] = "drop"
           /\ job'[c] = [job[c] EXCEPT !.at = symbols, !.plan = plan]
           /\ plan # <<>> /\ Head(plan) = job[c].plan[1] /\ plan[1] = job[c].plan[1]
           /\ \A i, j \in 1 .. Len(plan) : plan[i] = plan[j] => i = j
           /\ \A g \in Files : symbols[g] # 0 <=>
                                 \E i \in 1 .. Len(plan) : plan[i] = <<"edit", g>>
  BY <1>3, <1>4
<1> QED BY <1>5 DEF symbols

\* The steps that ask nothing.
LEMMA GoesOnCourse ==
  ASSUME Types, Local, FailedLeave, NEW c \in Threads, pc[c] # "return", Course(c), GoesOn(c),
         job'[c].op = job[c].op, job'[c].file = job[c].file
  PROVE  Course(c)'
<1>1. /\ job'[c].plan = job[c].plan /\ job'[c].saved = job[c].saved
      /\ job'[c].failed = job[c].failed /\ Doing(c)' = Doing(c) /\ File(c)' = File(c)
  BY DEF GoesOn, SameAim, Doing, File, Phase
<1>2. Once(c)' /\ Asking(c)'
  BY <1>1 DEF Course, Once, Asking
<1>3. SavedLast(c)'
  BY <1>1 DEF Course, SavedLast, GoesOn
<1>4. LeavesSaved(c)'
  BY <1>1 DEF Course, LeavesSaved, GoesOn
<1>5. Through(c)'
  BY <1>1 DEF Through, GoesOn
<1>6. MissedPlace(c)'
  <2>1. job[c].failed = "location" => pc[c] # "did insert"
    BY DEF FailedLeave
  <2> QED BY <1>1, <2>1 DEF Course, MissedPlace, GoesOn
<1> QED BY <1>2, <1>3, <1>4, <1>5, <1>6 DEF Course

\* A failure keeps the course of a call.
LEMMA FailsCourse ==
  ASSUME Types, Local, NEW c \in Threads, pc[c] # "return", Course(c), Fails(c),
         job'[c].op = job[c].op, job'[c].file = job[c].file
  PROVE  Course(c)'
<1>1. /\ job'[c].plan = job[c].plan /\ job'[c].saved = job[c].saved
      /\ job'[c].failed # "no" /\ Doing(c)' = Doing(c) /\ File(c)' = File(c)
  BY DEF Fails, SameAim, Doing, File, Phase
<1>2. Once(c)' /\ Asking(c)'
  BY <1>1 DEF Course, Once, Asking
<1>3. SavedLast(c)'
  BY <1>1 DEF Course, SavedLast, Fails
<1>4. LeavesSaved(c)' /\ Through(c)'
  BY <1>1 DEF LeavesSaved, Through
<1>5. MissedPlace(c)'
  <2>1. pc[c] \in {"delete", "insert"} => Doing(c) = "edit"
    BY ChangesEdit
  <2> QED BY <1>1, <2>1 DEF MissedPlace, Fails
<1> QED BY <1>2, <1>3, <1>4, <1>5 DEF Course

\* So does proceeding to the next phase, which is always an edit.
LEMMA ProceedsCourse ==
  ASSUME Types, Local, NEW c \in Threads, pc[c] # "return", Course(c), Proceeds(c),
         job'[c].op = job[c].op, job'[c].file = job[c].file
  PROVE  Course(c)'
<1> DEFINE plan == job[c].plan
<1>1. /\ job'[c].plan = Tail(plan) /\ job'[c].saved = job[c].saved /\ ~Leaves(c)' /\ Leaves(c)
      /\ plan # <<>>
  BY DepthBound DEF Proceeds
<1>2. /\ Len(Tail(plan)) = Len(plan) - 1 /\ Len(plan) \in Nat
      /\ \A i \in 1 .. Len(Tail(plan)) : Tail(plan)[i] = plan[i + 1] /\ i + 1 \in 2 .. Len(plan)
  <2>1. plan \in Seq({"ask", "edit"} \X Files)
    BY Mine
  <2> HIDE DEF plan
  <2> QED BY <1>1, <2>1
<1> HIDE DEF plan
<1>3. \A i \in 2 .. Len(plan) : i \in 1 .. Len(plan) /\ i # 1
  BY <1>2
<1>4. Once(c)'
  <2> SUFFICES ASSUME NEW i \in 1 .. Len(Tail(plan)), NEW j \in 1 .. Len(Tail(plan)),
                      Tail(plan)[i] = Tail(plan)[j]
               PROVE  i = j
    BY <1>1 DEF Once
  <2>1. i + 1 = j + 1
    BY <1>2, <1>3 DEF Course, Once, plan
  <2> QED BY <2>1
<1>5. SavedLast(c)'
  <2> SUFFICES ASSUME NEW f \in job[c].saved, NEW i \in 1 .. Len(Tail(plan)), Tail(plan)[i] = <<"edit", f>>
               PROVE  FALSE
    BY <1>1 DEF SavedLast
  <2>1. plan[i + 1] = <<"edit", f>> /\ i + 1 \in 1 .. Len(plan) /\ i + 1 # 1
    BY <1>2, <1>3
  <2> QED BY <2>1 DEF Course, SavedLast, plan
<1>6. Asking(c)'
  <2> SUFFICES ASSUME Tail(plan) # <<>> PROVE Doing(c)' # "ask"
    BY <1>1 DEF Asking
  <2>1. Tail(plan) \in Seq({"ask", "edit"} \X Files)
    BY <1>1, Mine DEF plan
  <2>2. 1 \in 1 .. Len(Tail(plan)) /\ Head(Tail(plan)) = Tail(plan)[1]
    BY <2>1
  <2>3. Tail(plan)[1] = plan[1 + 1] /\ 1 + 1 \in 2 .. Len(plan)
    BY <1>2, <2>2
  <2>4. plan[1 + 1][1] = "edit"
    BY <2>3 DEF Local, Planned, plan
  <2> QED BY <1>1, <2>2, <2>3, <2>4 DEF Doing, Phase
<1>7. LeavesSaved(c)' /\ MissedPlace(c)'
  BY <1>1 DEF LeavesSaved, MissedPlace
<1>8. Through(c)'
  <2>1. ASSUME Len(plan) = 1 PROVE Tail(plan) = <<>>
    <3>1. Tail(plan) \in Seq({"ask", "edit"} \X Files) /\ Len(Tail(plan)) = 0
      BY <1>1, <1>2, <2>1, Mine DEF plan
    <3>2. \A t \in Seq({"ask", "edit"} \X Files) : Len(t) = 0 => t = <<>>
      OBVIOUS
    <3> QED BY <3>1, <3>2
  <2> QED BY <1>1, <2>1 DEF Through, Proceeds, plan
<1> QED BY <1>4, <1>5, <1>6, <1>7, <1>8 DEF Course

\* A step that asks keeps the plan, or makes one.
LEMMA KeepsAsking ==
  ASSUME Types, Local, NEW c \in Threads, pc[c] # "return", ~Leaves(c), Course(c),
         job[c].plan # <<>>, Doing(c) = "ask",
         job'[c].plan = job[c].plan, job'[c].saved = job[c].saved,
         job'[c].failed \in {"no", "no symbol"}, job'[c].op = job[c].op,
         job'[c].file = job[c].file, pc'[c] # "return"
  PROVE  Course(c)'
<1>1. Doing(c)' = Doing(c) /\ File(c)' = File(c)
  BY DEF Doing, File, Phase
<1>2. Once(c)' /\ Asking(c)' /\ SavedLast(c)'
  BY <1>1 DEF Course, Once, Asking, SavedLast
<1>3. LeavesSaved(c)' /\ Through(c)' /\ MissedPlace(c)'
  BY <1>1 DEF LeavesSaved, Through, MissedPlace
<1> QED BY <1>2, <1>3 DEF Course

\* The symbol is located, or the call fails.
LEMMA LocatedCourse ==
  ASSUME Types, Local, NEW c \in Threads, pc[c] # "return", ~Leaves(c), Course(c),
         job[c].plan # <<>>, Doing(c) = "ask", NEW symbols, Located(c, symbols)
  PROVE  Course(c)'
<1>1. PICK why \in {"no", "no symbol"} : job'[c] = [job[c] EXCEPT !.at = symbols, !.failed = why]
  BY DEF Located, SetJob, Types
<1>2. /\ job'[c].plan = job[c].plan /\ job'[c].saved = job[c].saved /\ job'[c].failed = why
      /\ job'[c].op = job[c].op /\ job'[c].file = job[c].file
  BY <1>1, Mine DEF JobType
<1>3. pc'[c] = "drop"
  BY DEF Located, Goto, Types, TypeOK
<1> QED BY <1>2, <1>3, KeepsAsking

\* A step that asks keeps the course.
LEMMA AskingCourse ==
  ASSUME Types, Local, FailedLeave, NEW c \in Threads, Course(c), LookInCache(c) \/ Ask(c)
  PROVE  Course(c)'
<1>1. /\ pc[c] \in {"look", "ask"} /\ job[c].plan # <<>> /\ Doing(c) = "ask" /\ ~Leaves(c)
      /\ job[c].failed = "no" /\ Step(c) /\ ~Begin(c) /\ ~Return(c)
  BY DEF LookInCache, Ask, Local, Placed, Lazy, Leaves, FailedLeave, Step, Begin, Return
<1>2. /\ job'[c].op = job[c].op /\ job'[c].file = job[c].file
  BY <1>1, AskedStays
<1>3. ASSUME NEW symbols, Located(c, symbols) PROVE Course(c)'
  BY <1>1, <1>3, LocatedCourse
<1>4. CASE LookInCache(c)
  <2>1. CASE SetJob(c, [job[c] EXCEPT !.next = "ask"]) /\ Goto(c, "ensure")
    <3>1. job'[c] = [job[c] EXCEPT !.next = "ask"] /\ pc'[c] = "ensure"
      BY <2>1 DEF SetJob, Goto, Types, TypeOK
    <3>2. /\ job'[c].plan = job[c].plan /\ job'[c].saved = job[c].saved
          /\ job'[c].failed = job[c].failed
      BY <3>1, Mine DEF JobType
    <3> QED BY <1>1, <1>2, <3>1, <3>2, KeepsAsking
  <2> QED BY <1>3, <1>4, <2>1 DEF LookInCache
<1>5. CASE Ask(c)
  <2> DEFINE symbols == [g \in Files |-> IF job[c].op = "rename" \/ g = File(c)
                                           THEN SymbolAt(Seen(g)) ELSE 0]
  <2>1. CASE Located(c, symbols)
    BY <1>3, <2>1
  <2>2. ASSUME NEW plan, plan \in Seq({"ask", "edit"} \X Files),
               job[c].op = "rename" /\ pc'[c] = "drop",
               job'[c] = [job[c] EXCEPT !.at = symbols, !.plan = plan],
               plan # <<>> /\ Head(plan) = job[c].plan[1],
               \A i, j \in 1 .. Len(plan) : plan[i] = plan[j] => i = j
        PROVE  Course(c)'
    <3> HIDE DEF symbols
    <3>1. /\ job'[c].plan = plan /\ job'[c].saved = {} /\ job'[c].failed = "no"
      <4>1. job[c].saved = {}
        BY <1>1 DEF Course, Asking
      <4> QED BY <1>1, <2>2, <4>1, Mine DEF JobType
    <3>2. job'[c].op = "rename"
      BY <1>2, <2>2
    <3>3. Once(c)' /\ Asking(c)' /\ SavedLast(c)' /\ Through(c)' /\ MissedPlace(c)'
      BY <2>2, <3>1, <3>2 DEF Once, Asking, SavedLast, Through, MissedPlace
    <3>4. LeavesSaved(c)'
      <4>1. Doing(c)' = "ask"
        BY <1>1, <2>2, <3>1, Mine DEF Doing, Phase
      <4> QED BY <4>1 DEF LeavesSaved
    <3> QED BY <3>3, <3>4 DEF Course
  <2> HIDE DEF symbols
  <2>3. \/ Located(c, symbols) /\ (job[c].op = "rename" => symbols[File(c)] = 0)
        \/ \E plan \in Seq({"ask", "edit"} \X Files) :
             /\ job[c].op = "rename" /\ pc'[c] = "drop"
             /\ job'[c] = [job[c] EXCEPT !.at = symbols, !.plan = plan]
             /\ plan # <<>> /\ Head(plan) = job[c].plan[1] /\ plan[1] = job[c].plan[1]
             /\ \A i, j \in 1 .. Len(plan) : plan[i] = plan[j] => i = j
             /\ \A g \in Files : symbols[g] # 0 <=>
                                   \E i \in 1 .. Len(plan) : plan[i] = <<"edit", g>>
    BY <1>5, AskedWhere DEF symbols
  <2> QED BY <2>1, <2>2, <2>3
<1> QED BY <1>4, <1>5

\* A file becomes a saved one as its phase ends.
LEMMA StampCourse ==
  ASSUME Types, Local, FailedLeave, NEW c \in Threads, Course(c), Stamp(c)
  PROVE  Course(c)'
<1>1. /\ pc[c] = "stamp" /\ Depth(c) = 1 /\ Doing(c) = "edit" /\ ~Leaves(c) /\ pc'[c] = "drop"
      /\ job[c].failed = "no" /\ job[c].plan # <<>>
      /\ job'[c] = [job[c] EXCEPT !.fb = 0, !.out = <<>>, !.saved = @ \cup {File(c)}]
  BY DEF Stamp, Local, Placed, Leaves, FailedLeave, SetJob, Goto, Types, TypeOK
<1>2. /\ job'[c].plan = job[c].plan /\ job'[c].saved = job[c].saved \cup {File(c)}
      /\ job'[c].failed = "no" /\ job'[c].held = job[c].held
  BY <1>1, Mine DEF JobType
<1>3. Doing(c)' = "edit" /\ File(c)' = File(c) /\ Depth(c)' = 1
  BY <1>1, <1>2 DEF Doing, File, Phase, Depth
<1>4. 1 \in 1 .. Len(job[c].plan) /\ job[c].plan[1] = <<"edit", File(c)>>
  <2>1. Phase(c) \in {"ask", "edit"} \X Files /\ Phase(c) = job[c].plan[1] /\ 1 \in 1 .. Len(job[c].plan)
    BY <1>1, Mine
  <2> QED BY <1>1, <2>1 DEF Doing, File
<1>5. Once(c)' /\ Asking(c)' /\ LeavesSaved(c)' /\ Through(c)' /\ MissedPlace(c)'
  BY <1>1, <1>2, <1>3 DEF Course, Once, Asking, LeavesSaved, Through, MissedPlace
<1>6. SavedLast(c)'
  <2> SUFFICES ASSUME NEW f \in job'[c].saved, NEW i \in 1 .. Len(job[c].plan),
                      job[c].plan[i] = <<"edit", f>>
               PROVE  i = 1
    BY <1>1, <1>2, <1>3 DEF SavedLast, Leaves
  <2>1. f \notin job[c].saved
    BY <1>1 DEF Course, SavedLast
  <2>2. f = File(c)
    BY <1>2, <2>1
  <2> QED BY <1>4, <2>2 DEF Course, Once
<1> QED BY <1>5, <1>6 DEF Course

\* A call begins with a question, and with nothing saved.
LEMMA BeginCourse ==
  ASSUME Types, Local, NEW c \in Threads, Begin(c)
  PROVE  Course(c)'
<1>1. PICK op \in Ops, f \in Files :
        SetJob(c, [NoJob EXCEPT !.op = op, !.n = effort', !.file = f,
                                !.plan = Plan(op, f), !.before = disk])
  BY DEF Begin
<1>2. pc'[c] = "open"
  BY DEF Begin, Goto, Types, TypeOK
<1>3. /\ job'[c].plan = Plan(op, f) /\ job'[c].saved = {} /\ job'[c].failed = "no"
      /\ job'[c].op = op /\ job'[c].file = f
  BY <1>1 DEF SetJob, Types, NoJob
<1>4. Once(c)'
  <2>1. CASE op \in {"replace", "before", "after"}
    <3>1. Plan(op, f) = <<<<"ask", f>>, <<"edit", f>>>>
      BY <2>1 DEF Plan
    <3> QED BY <1>3, <3>1 DEF Once
  <2>2. CASE op \notin {"replace", "before", "after"}
    <3>1. Plan(op, f) = <<<<"ask", f>>>>
      BY <2>2, OpsAssumption DEF Plan
    <3> QED BY <1>3, <3>1 DEF Once
  <2> QED BY <2>1, <2>2
<1> QED BY <1>2, <1>3, <1>4 DEF Course, Asking, SavedLast, LeavesSaved, Through, MissedPlace, Leaves

\* Whoever steps, calls keep their course.
LEMMA CourseStep ==
  ASSUME Types, Local, FailedLeave, Courses, Next
  PROVE  Courses'
<1> SUFFICES ASSUME NEW d \in Threads, pc'[d] # "idle" PROVE Course(d)'
  BY DEF Courses
<1>1. ASSUME job'[d] = job[d], pc'[d] = pc[d] PROVE Course(d)'
  <2>1. Course(d)
    BY <1>1 DEF Courses
  <2>2. /\ Depth(d)' = Depth(d) /\ Doing(d)' = Doing(d) /\ File(d)' = File(d)
        /\ Leaves(d)' <=> Leaves(d)
    BY <1>1 DEF Depth, Doing, File, Phase, Leaves
  <2>3. Once(d)' /\ Asking(d)' /\ SavedLast(d)'
    BY <1>1, <2>1, <2>2 DEF Course, Once, Asking, SavedLast
  <2>4. LeavesSaved(d)' /\ Through(d)' /\ MissedPlace(d)'
    BY <1>1, <2>1, <2>2 DEF Course, LeavesSaved, Through, MissedPlace
  <2> QED BY <2>3, <2>4 DEF Course
<1>2. ASSUME NEW f \in Files, Outside(f) PROVE Course(d)'
  BY <1>1, <1>2 DEF Outside, WriteOutside, RemoveOutside, RestoreOutside
<1>3. ASSUME NEW c \in Threads, Step(c) PROVE Course(d)'
  <2>1. CASE d # c
    BY <1>1, <1>3, <2>1, OthersStay
  <2>2. CASE d = c
    <3>1. CASE Begin(c)
      BY <2>2, <3>1, BeginCourse
    <3>2. ~Return(c)
      BY <2>2 DEF Return, Goto, Types, TypeOK
    <3>3. CASE ~Begin(c)
      <4>1. /\ job'[c].op = job[c].op /\ job'[c].file = job[c].file /\ pc[c] # "idle"
        BY <1>3, <3>2, <3>3, AskedStays
      <4>2. Course(c)
        BY <4>1 DEF Courses
      <4>3. pc[c] # "return"
        BY <1>3, <3>2, <3>3
           DEF Step, Open, EnsureOpen, OpenFails, ReadFails, DidOpen, Store, Drop, Close, Del,
               LookInCache, Ask, Validate, Delete, Insert, DidChange, Save, Truncate, Put, Stamp
      <4>4. CASE LookInCache(c) \/ Ask(c)
        BY <2>2, <4>2, <4>4, AskingCourse
      <4>5. CASE Stamp(c)
        BY <2>2, <4>2, <4>5, StampCourse
      <4>6. CASE GoesOn(c) \/ Fails(c) \/ Proceeds(c)
        BY <2>2, <4>1, <4>2, <4>3, <4>6, GoesOnCourse, FailsCourse, ProceedsCourse
      <4> QED BY <1>3, <3>2, <3>3, <4>4, <4>5, <4>6, Moves
    <3> QED BY <3>1, <3>3
  <2> QED BY <2>1, <2>2
<1> QED BY <1>2, <1>3 DEF Next

\* Every call takes its course.
THEOREM CoursesKept == Spec => []Courses
<1>1. Init => Courses
  BY DEF Init, Courses
<1>2. SessionsInv /\ FailedLeave /\ Courses /\ [Next]_vars => Courses'
  <2> SUFFICES ASSUME SessionsInv, FailedLeave, Courses, [Next]_vars PROVE Courses'
    OBVIOUS
  <2>1. CASE Next
    BY <2>1, CourseStep DEF SessionsInv
  <2>2. CASE UNCHANGED vars
    BY <2>2 DEF vars, Courses, Course, Once, Asking, SavedLast, LeavesSaved, Through, MissedPlace,
                Leaves, Depth, Doing, File, Phase
  <2> QED BY <2>1, <2>2
<1> QED BY <1>1, <1>2, TableKept, RacesKept, PTL DEF Spec

-----------------------------------------------------------------------------
(* What an edit makes of a text.                                             *)

\* The symbol is at a line of the text, or nowhere.
LEMMA SymbolIn == ASSUME NEW text \in Text PROVE SymbolAt(text) \in 0 .. Len(text)
<1> DEFINE I == {i \in 1 .. Len(text) : text[i] >= 0}
<1>1. I \in SUBSET Nat /\ I \subseteq 1 .. Len(text) /\ Len(text) \in Nat
  BY DEF Text
<1>2. SymbolAt(text) = IF I # {} THEN Min(I) ELSE 0
  BY DEF SymbolAt, SelectInSeq
<1> HIDE DEF I
<1>3. CASE I # {}
  <2>1. Min(I) \in I
    BY <1>1, <1>3, MinIn
  <2>2. Min(I) \in 1 .. Len(text)
    BY <1>1, <2>1
  <2> QED BY <1>1, <1>2, <1>3, <2>2
<1>4. CASE I = {}
  BY <1>1, <1>2, <1>4
<1> QED BY <1>3, <1>4

\* Two texts are the same when they have the same lines.
LEMMA SameText ==
  ASSUME NEW s \in Seq(Int), NEW t \in Seq(Int), Len(s) = Len(t), \A k \in 1 .. Len(s) : s[k] = t[k]
  PROVE  s = t
OBVIOUS

\* Two texts one behind the other.
LEMMA BothTexts ==
  ASSUME NEW a \in Seq(Int), NEW b \in Seq(Int)
  PROVE  /\ a \o b \in Seq(Int) /\ Len(a \o b) = Len(a) + Len(b)
         /\ \A k \in 1 .. Len(a) + Len(b) : (a \o b)[k] = IF k <= Len(a) THEN a[k] ELSE b[k - Len(a)]
OBVIOUS

\* A line of a text is replaced.
LEMMA ReplacedAt ==
  ASSUME NEW text \in Text, NEW i \in 1 .. Len(text), NEW x \in Int
  PROVE  /\ ReplaceAt(text, i, x) \in Text /\ Len(ReplaceAt(text, i, x)) = Len(text)
         /\ \A k \in 1 .. Len(text) : ReplaceAt(text, i, x)[k] = IF k = i THEN x ELSE text[k]
BY DEF ReplaceAt, Text

\* A line whose text is deleted and then filled is replaced.
LEMMA ReplacedTwice ==
  ASSUME NEW text \in Text, NEW i \in 1 .. Len(text), NEW x \in Int, NEW y \in Int
  PROVE  ReplaceAt(ReplaceAt(text, i, x), i, y) = ReplaceAt(text, i, y)
<1> DEFINE r == ReplaceAt(text, i, x)
<1>1. /\ r \in Text /\ Len(r) = Len(text)
      /\ \A k \in 1 .. Len(text) : r[k] = IF k = i THEN x ELSE text[k]
  BY ReplacedAt
<1> HIDE DEF r
<1>2. /\ ReplaceAt(r, i, y) \in Text /\ Len(ReplaceAt(r, i, y)) = Len(text)
      /\ \A k \in 1 .. Len(text) : ReplaceAt(r, i, y)[k] = IF k = i THEN y ELSE r[k]
  BY <1>1, ReplacedAt
<1>3. /\ ReplaceAt(text, i, y) \in Text /\ Len(ReplaceAt(text, i, y)) = Len(text)
      /\ \A k \in 1 .. Len(text) : ReplaceAt(text, i, y)[k] = IF k = i THEN y ELSE text[k]
  BY ReplacedAt
<1>4. ASSUME NEW k \in 1 .. Len(text) PROVE ReplaceAt(r, i, y)[k] = ReplaceAt(text, i, y)[k]
  <2>1. r[k] = IF k = i THEN x ELSE text[k]
    BY <1>1
  <2> QED BY <1>2, <1>3, <2>1
<1>5. ReplaceAt(r, i, y) = ReplaceAt(text, i, y)
  BY <1>2, <1>3, <1>4, SameText DEF Text
<1> QED BY <1>5 DEF r

-----------------------------------------------------------------------------
(* The texts on disk and in the buffer of a file on which nothing interferes. *)

\* The buffer's text is not that of the file: the line is empty, or the new one is there.
Removed(c) == pc[c] = "did delete" \/ (pc[c] = "insert" /\ job[c].op \notin {"before", "after"})
Entered(c) == \/ pc[c] \in {"did insert", "save", "truncate", "put"}
              \/ pc[c] = "drop" /\ Doing(c) = "edit" /\ Depth(c) = 2 /\ job[c].failed = "no"
Unsaved(c, f) == Using(c, f) /\ (Removed(c) \/ Entered(c))
Stamping(c, f) == Using(c, f) /\ pc[c] = "stamp"

\* What the buffer should hold while c edits it.
Due(c, f) == IF Removed(c) THEN ReplaceAt(job[c].before[f], Place(c), Empty) ELSE Edited(c, job[c].before[f])

InBuffer(f) ==
  \A d \in Threads : Using(d, f) =>
    LET b == Buffer(d)
    IN  /\ ((\A c \in Threads : ~Unsaved(c, f)) /\ buffers[b].read) => buffers[b].text = disk[f]
        /\ \A c \in Threads : Unsaved(c, f) => buffers[b].read /\ buffers[b].text = Due(c, f)

OnDisk(c, f) ==
  disk[f] = IF Using(c, f) /\ pc[c] = "put" THEN <<>>
            ELSE IF f \in job[c].saved \/ Stamping(c, f) THEN Edited(c, job[c].before[f])
            ELSE job[c].before[f]

\* The call has learnt where the symbol was when it began, in each file that has it.
Found(c, f) ==
  LET was == SymbolAt(job[c].before[f])
  IN  (job[c].failed = "no" /\ (job[c].plan = <<>> \/ Doing(c) = "edit" \/ Leaves(c))) =>
        /\ Pending(c, f) => job[c].at[f] = was /\ was # 0
        /\ was # 0 => f \in job[c].saved \/ Pending(c, f)

\* An edit of the file does not fail, and what it inserts past the end it saves.
Unfailed(c, f) == (Using(c, f) /\ Doing(c) = "edit" /\ Leaves(c)) => job[c].failed = "no"
ApartLate(c, f) ==
  Apart(f) => f \in job[c].saved \/ (Unsaved(c, f) /\ Entered(c)) \/ Stamping(c, f)

Kept(f) ==
  /\ InBuffer(f)
  /\ \A c \in InFlight(f) :
       Edits(c) => Found(c, f) /\ Unfailed(c, f) /\ ApartLate(c, f) /\ OnDisk(c, f)

KeptInv == \A f \in Files : Calm(f) => Kept(f)

\* The file on which a call works is there, if nobody interfered with it.
LEMMA ReadsFile ==
  ASSUME Types, Local, Table, NEW f \in Files, Calm(f), MissingNoted(f), NEW c \in Threads, Using(c, f)
  PROVE  ~OpenFails(c) /\ ~ReadFails(c)
BY NoneMissing, HeldFile DEF OpenFails, ReadFails, Raises, Using

-----------------------------------------------------------------------------
(* Which call has not saved the file.                                        *)

\* A call that has not saved its edit is editing the file.
LEMMA UnsavedAims ==
  ASSUME Types, Local, NEW c \in Threads, NEW f \in Files, Unsaved(c, f)
  PROVE  Edits(c) /\ c \in InFlight(f) /\ File(c) = f /\ Doing(c) = "edit" /\ Depth(c) # 0
<1>1. Using(c, f) /\ File(c) = f /\ c \in InFlight(f) /\ Depth(c) # 0
  BY UsingInFlight DEF Unsaved, Using
<1>2. Doing(c) = "edit"
  BY DEF Unsaved, Removed, Entered, Local, Placed, Twice
<1>3. job[c].plan # <<>> /\ 1 \in 1 .. Len(job[c].plan) /\ Phase(c) = job[c].plan[1]
  BY <1>1, DepthBound, Mine
<1>4. Edits(c)
  BY <1>2, <1>3 DEF Local, Planned, Doing
<1> QED BY <1>1, <1>2, <1>4

\* The place and the line of an edit depend on what the call knows, not on the step.
LEMMA SamePlace ==
  ASSUME Types, Local, NEW c \in Threads, Step(c), ~Begin(c), ~Return(c), SameAim(c)
  PROVE  /\ Place(c)' = Place(c) /\ NewLine(c)' = NewLine(c) /\ File(c)' = File(c)
         /\ Doing(c)' = Doing(c) /\ job'[c].before = job[c].before /\ job'[c].op = job[c].op
<1>1. /\ job'[c].op = job[c].op /\ job'[c].n = job[c].n /\ job'[c].before = job[c].before
  BY AskedStays
<1> QED BY <1>1 DEF SameAim, Place, NewLine, File, Doing, Phase

\* A call keeps what it has not saved until it writes it.
LEMMA UnsavedStays ==
  ASSUME Types, Local, Table, FailedLeave, NEW f \in Files, Exclusive(f), Calm(f), MissingNoted(f),
         NEW c \in Threads, Step(c), ~Delete(c), ~Insert(c), ~Put(c), Unsaved(c, f),
         pc'[c] = "close" => Depth(c)' = 1
  PROVE  Unsaved(c, f)' /\ (Removed(c)' <=> Removed(c)) /\ (Entered(c)' <=> Entered(c)) /\ SameAim(c)
<1>0. ~OpenFails(c) /\ ~ReadFails(c)
  BY ReadsFile DEF Unsaved
<1>1. Using(c, f) /\ Doing(c) = "edit" /\ Depth(c) \in 1 .. 2 /\ File(c) = f
  BY UnsavedAims, DepthBound DEF Unsaved
<1>2. ASSUME SameAim(c), Depth(c)' # 0 PROVE Using(c, f)' /\ Doing(c)' = "edit"
  BY <1>1, <1>2 DEF SameAim, Using, File, Doing, Phase
<1>3. CASE pc[c] \in {"did delete", "did insert"}
  <2>1. /\ DidChange(c) /\ job[c].failed = "no"
        /\ (pc[c] = "did delete" => Depth(c) = 2 /\ job[c].op \notin {"before", "after"})
    BY <1>0, <1>3 DEF Step, Begin, Return, Open, EnsureOpen, DidOpen, Store, Drop, Close, Del, LookInCache, Ask, Validate, Delete,
                Insert, Save, Truncate, Put, Stamp, FailedLeave, Local, Placed, Twice
  <2>2. /\ pc'[c] = IF pc[c] = "did delete" THEN "insert" ELSE IF Depth(c) = 2 THEN "drop" ELSE "save"
        /\ job'[c] = [job[c] EXCEPT !.note = <<>>]
    BY <2>1 DEF DidChange, SetJob, Goto, Types, TypeOK
  <2>3. SameAim(c) /\ job'[c].held = job[c].held /\ job'[c].failed = "no" /\ job'[c].op = job[c].op
    BY <2>1, <2>2, Mine DEF SameAim, JobType
  <2>4. Depth(c)' = Depth(c)
    BY <2>3 DEF Depth
  <2>5. Using(c, f)' /\ Doing(c)' = "edit"
    BY <1>1, <1>2, <2>3, <2>4
  <2> QED BY <1>3, <2>1, <2>2, <2>3, <2>4, <2>5 DEF Unsaved, Removed, Entered
<1>4. CASE pc[c] = "save"
  <2>1. Save(c)
    BY <1>0, <1>4 DEF Step, Begin, Return, Open, EnsureOpen, DidOpen, Store, Drop, Close, Del, LookInCache, Ask, Validate, Delete,
                Insert, DidChange, Truncate, Put, Stamp
  <2>2. open_file_buffers[f] # 0
    <3>1. ~Creating(c) /\ Buffer(c) \in BufferIds
      BY <1>1, <1>4, DepthBound DEF Creating
    <3>2. open_file_buffers[f] = Buffer(c)
      BY <1>1, <3>1, OneInUse
    <3> QED BY <3>1, <3>2, NotZero
  <2>3. PICK b, out : SetJob(c, [job[c] EXCEPT !.fb = b, !.out = out]) /\ Goto(c, "truncate")
    BY <1>1, <2>1, <2>2 DEF Save
  <2>4. job'[c] = [job[c] EXCEPT !.fb = b, !.out = out] /\ pc'[c] = "truncate"
    BY <2>3 DEF SetJob, Goto, Types, TypeOK
  <2>5. SameAim(c) /\ job'[c].held = job[c].held
    BY <2>4, Mine DEF SameAim, JobType
  <2>6. Depth(c)' = Depth(c)
    BY <2>5 DEF Depth
  <2> QED BY <1>1, <1>2, <1>4, <2>4, <2>5, <2>6 DEF Unsaved, Removed, Entered
<1>5. CASE pc[c] = "truncate"
  <2>1. Truncate(c)
    BY <1>0, <1>5 DEF Step, Begin, Return, Open, EnsureOpen, DidOpen, Store, Drop, Close, Del, LookInCache, Ask, Validate, Delete,
                Insert, DidChange, Save, Put, Stamp
  <2>2. pc'[c] = "put" /\ job'[c] = job[c]
    BY <2>1 DEF Truncate, Goto, Types, TypeOK
  <2>3. SameAim(c) /\ Depth(c)' = Depth(c)
    BY <2>2 DEF SameAim, Depth
  <2> QED BY <1>1, <1>2, <1>5, <2>2, <2>3 DEF Unsaved, Removed, Entered
<1>6. CASE pc[c] = "drop" /\ Depth(c) = 2 /\ job[c].failed = "no"
  <2>1. Drop(c)
    BY <1>0, <1>6 DEF Step, Begin, Return, Open, EnsureOpen, DidOpen, Store, Close, Del, LookInCache, Ask, Validate, Delete,
                Insert, DidChange, Save, Truncate, Put, Stamp
  <2>2. ~(Goto(c, "close") /\ UNCHANGED job)
    <3> SUFFICES ASSUME Goto(c, "close"), UNCHANGED job PROVE FALSE
      OBVIOUS
    <3>1. pc'[c] = "close" /\ Depth(c)' = 2
      BY <1>6 DEF Goto, Types, TypeOK, Depth
    <3> QED BY <3>1
  <2>3. AfterDrop(c, [job[c] EXCEPT !.held = Front(@), !.failed = job[c].failed])
    BY <2>1, <2>2, DropLeaves
  <2>4. job[c].failed \in Failures
    BY Mine DEF JobType
  <2>5. /\ Depth(c)' = Depth(c) - 1 /\ job'[c].at = job[c].at /\ job'[c].saved = job[c].saved
        /\ \/ job[c].failed # "no"
           \/ Depth(c) = 2 /\ pc'[c] = "save" /\ job'[c].plan = job[c].plan
           \/ Depth(c) = 1
    BY <1>6, <2>3, <2>4, LeavesTo
  <2>6. pc'[c] = "save" /\ SameAim(c) /\ Depth(c)' = 1
    BY <1>6, <2>5 DEF SameAim
  <2> QED BY <1>1, <1>2, <1>6, <2>6 DEF Unsaved, Removed, Entered
<1>7. pc[c] \notin {"insert", "put"}
  BY <1>0 DEF Step, Begin, Return, Open, EnsureOpen, DidOpen, Store, Drop, Close, Del, LookInCache, Ask, Validate,
         DidChange, Save, Truncate, Stamp
<1> QED BY <1>3, <1>4, <1>5, <1>6, <1>7 DEF Unsaved, Removed, Entered

-----------------------------------------------------------------------------
(* Which steps change what the buffer should hold.                          *)

\* No other step begins one.
LEMMA UnsavedBegins ==
  ASSUME Types, Local, Table, NEW f \in Files, Exclusive(f), NEW c \in Threads, Step(c),
         ~Delete(c), ~Insert(c), Unsaved(c, f)'
  PROVE  Unsaved(c, f)
<1>1. /\ Using(c, f)' /\ Depth(c)' # 0 /\ File(c)' = f
      /\ \/ pc'[c] \in {"did delete", "did insert", "save", "truncate", "put"}
         \/ pc'[c] = "insert" /\ job'[c].op \notin {"before", "after"}
         \/ pc'[c] = "drop" /\ Doing(c)' = "edit" /\ Depth(c)' = 2 /\ job'[c].failed = "no"
  BY DEF Unsaved, Removed, Entered, Using
<1>2. ~Begin(c) /\ ~Return(c) /\ ~Close(c) /\ ~Put(c)
  BY <1>1 DEF Begin, Return, Close, Put, Goto, Types, TypeOK
<1>3. ASSUME NEW why \in Failures, why # "no", FailWith(c, why, job[c]) PROVE FALSE
  BY <1>1, <1>3, FailCases
<1>4. ~Open(c) /\ ~Validate(c)
  <2>1. ~Goto(c, "ensure") /\ ~Goto(c, "open")
    BY <1>1 DEF Goto, Types, TypeOK
  <2> QED BY <1>3, <2>1 DEF Open, Validate, Failures
<1>5. ~(EnsureOpen(c) \/ DidOpen(c) \/ Store(c))
  <2> SUFFICES ASSUME EnsureOpen(c) \/ DidOpen(c) \/ Store(c) PROVE FALSE
    OBVIOUS
  <2>1. pc[c] \in {"ensure", "did open", "store"} /\ job'[c].op = job[c].op
        /\ Doing(c) \in {"ask", "edit"}
    <3>1. Step(c) /\ pc[c] \in {"ensure", "did open", "store"}
      BY DEF EnsureOpen, DidOpen, Store
    <3> QED BY <1>2, <3>1, AskedStays, DepthBound, Mine
  <2>2. pc'[c] \in {"did open", "store", "ask", Inside(c, Depth(c))}
    BY <2>1 DEF EnsureOpen, DidOpen, Store, Goto, Types, TypeOK, Local, Placed
  <2>3. /\ Inside(c, Depth(c)) \in {"look", "ask", "insert", "open", "delete"}
        /\ Inside(c, Depth(c)) = "insert" => job[c].op \in {"before", "after"}
    BY <2>1 DEF Inside, Lazy
  <2> QED BY <1>1, <2>1, <2>2, <2>3
<1>6. ~LookInCache(c) /\ ~Ask(c)
  <2> SUFFICES ASSUME LookInCache(c) \/ Ask(c) PROVE FALSE
    OBVIOUS
  <2>1. pc'[c] \in {"ensure", "drop"}
    BY DEF LookInCache, Ask, Located, Goto, Types, TypeOK
  <2>2. Doing(c) = "ask" /\ pc[c] # "open" /\ Depth(c) = 1 /\ Quiet(c)
    BY DEF LookInCache, Ask, Local, Placed, Lazy, Quiet
  <2>3. Depth(c)' = 1
    BY <2>2, QuietOwn DEF Depth
  <2>4. Depth(c)' # 2
    BY <2>3
  <2> QED BY <1>1, <2>1, <2>4
<1>7. CASE Drop(c) \/ Del(c)
  <2>1. ~Goto(c, "close") /\ pc[c] \in {"drop", "del"}
    BY <1>1, <1>7 DEF Goto, Types, TypeOK, Drop, Del
  <2>2. PICK why \in Failures : AfterDrop(c, [job[c] EXCEPT !.held = Front(@), !.failed = why])
    <3>1. job[c].failed \in Failures
      BY Mine DEF JobType
    <3> QED BY <1>7, <2>1, <3>1, DropLeaves, DelLeaves
  <2>3. /\ job'[c].failed = why
        /\ \/ why # "no" /\ pc'[c] \in {"return", "drop"}
           \/ why = "no" /\ Depth(c) = 2 /\ pc'[c] = "save" /\ job'[c].plan = job[c].plan
           \/ pc'[c] \in {"return", "validate", "open"}
    BY <2>1, <2>2, LeavesTo
  <2>4. why = "no" /\ Depth(c) = 2 /\ pc'[c] = "save" /\ job'[c].plan = job[c].plan
    BY <1>1, <2>3
  <2>5. Using(c, f)
    BY <1>1, <2>4 DEF Using, File, Phase
  <2>6. ~Del(c)
    BY <2>1, <2>4, <2>5, AloneAtClose DEF Del
  <2>7. Drop(c) /\ pc[c] = "drop" /\ Doing(c) = "edit"
    <3>1. Drop(c) /\ pc[c] = "drop"
      BY <1>7, <2>6 DEF Drop
    <3>2. Depth(c) # 1
      BY <2>4
    <3> QED BY <3>1, <3>2 DEF Local, Placed, Twice
  <2>8. job[c].failed = "no"
    <3>1. AfterDrop(c, [job[c] EXCEPT !.held = Front(@), !.failed = job[c].failed])
      BY <2>1, <2>7, DropLeaves
    <3>2. job[c].failed \in Failures
      BY Mine DEF JobType
    <3>3. job'[c].failed = job[c].failed
      BY <2>1, <3>1, <3>2, LeavesTo
    <3> QED BY <2>3, <2>4, <3>3
  <2> QED BY <2>4, <2>5, <2>7, <2>8 DEF Unsaved, Entered
<1>8. CASE DidChange(c) \/ Save(c) \/ Truncate(c)
  <2>1. Quiet(c) /\ Depth(c) # 0 /\ pc[c] \in {"did delete", "did insert", "save", "truncate"}
    BY <1>8, DepthBound DEF Quiet, DidChange, Save, Truncate
  <2>2. Using(c, f)
    BY <1>1, <2>1, QuietOwn DEF Using
  <2> QED BY <2>1, <2>2 DEF Unsaved, Removed, Entered
<1>9. CASE Stamp(c)
  <2>1. Quiet(c) /\ Depth(c) = 1 /\ pc'[c] = "drop"
    BY <1>9 DEF Quiet, Stamp, Goto, Types, TypeOK, Local, Placed
  <2>2. Depth(c)' = 1
    BY <2>1, QuietOwn DEF Depth
  <2> QED BY <1>1, <2>1, <2>2
<1>10. ~OpenFails(c) /\ ~ReadFails(c)
  BY <1>1, UnreadMoves DEF Fails
<1> QED BY <1>2, <1>4, <1>5, <1>6, <1>7, <1>8, <1>9, <1>10 DEF Step

\* The buffer that a thread uses after a step is one that was in use, and keeps what was
\* read, or a new one.
LEMMA UsersRead ==
  ASSUME Types, Local, Table, NEW f \in Files, Exclusive(f), InOrder(f), Matching(f), Calm(f), Calm(f)',
         LostNoted(f), MissingNoted(f),
         NEW c \in Threads, Step(c), ~(Delete(c) \/ Insert(c)) \/ ~Using(c, f),
         NEW d \in Threads, Using(d, f)'
  PROVE  \/ \E e \in Threads : Using(e, f) /\ Buffer(e) = Buffer(d)' /\ Reads(Buffer(d)')
         \/ (\A e \in Threads : ~Using(e, f)) /\ ~buffers'[Buffer(d)'].read
<1>1. CASE ~Using(c, f) /\ ~(Open(c) /\ File(c) = f)
  <2>1. ~Using(c, f)'
    BY <1>1, StaysOut
  <2>2. Using(d, f) /\ Buffer(d)' = Buffer(d) /\ Steady(Buffer(d))
    BY <1>1, <2>1, OthersSteady
  <2> QED BY <2>2 DEF Steady
<1>2. CASE Open(c) /\ File(c) = f
  <2> DEFINE b == open_file_buffers[f]
  <2>1. pc[c] = "open" /\ "window" \notin stirred'[f]
    BY <1>2 DEF Open, Calm
  <2>2. \A e \in Threads : Using(e, f) => b = Buffer(e)
    <3> SUFFICES ASSUME NEW e \in Threads, Using(e, f) PROVE b = Buffer(e)
      OBVIOUS
    <3>1. ~Creating(e)
      BY <1>2, <2>1, NobodyBetween DEF Using, Creating
    <3> QED BY <3>1, OneInUse
  <2>3. CASE FailWith(c, "assertion", job[c])
    <3>1. buffers' = buffers
      <4>1. pc'[c] # "ensure"
        BY <2>3, FailKeeps
      <4>2. ~Goto(c, "ensure")
        BY <4>1 DEF Goto, Types, TypeOK
      <4> QED BY <1>2, <4>2 DEF Open
    <3>2. Using(d, f) /\ Buffer(d)' = Buffer(d)
      <4>1. CASE d = c
        <5>1. job'[c].held = job[c].held /\ job'[c].plan = job[c].plan
          BY <2>3, FailKeeps
        <5> QED BY <4>1, <5>1 DEF Using, Depth, File, Phase, Buffer
      <4>2. CASE d # c
        BY <4>2, OtherUsing
      <4> QED BY <4>1, <4>2
    <3> QED BY <3>1, <3>2 DEF Reads
  <2>4. CASE ~FailWith(c, "assertion", job[c])
    <3>1. /\ Buffer(c)' \in BufferIds
          /\ \/ b = 0 /\ buffers'[Buffer(c)'] = [NoBuffer EXCEPT !.file = f, !.refs = 1]
             \/ /\ b \in BufferIds /\ b # 0 /\ Buffer(c)' = b
                /\ buffers' = [buffers EXCEPT ![b] = [buffers[b] EXCEPT !.refs = @ + 1]]
      BY <1>2, <2>4, OpenCases
    <3>2. CASE b = 0
      <4>1. \A e \in Threads : ~Using(e, f)
        BY <2>2, <3>2, DepthBound, NotZero DEF Using
      <4>2. d = c
        BY <4>1, OtherUsing
      <4>3. buffers'[Buffer(c)'] = [NoBuffer EXCEPT !.file = f, !.refs = 1]
        BY <3>1, <3>2
      <4>4. ~buffers'[Buffer(c)'].read
        BY <4>3 DEF NoBuffer
      <4> QED BY <4>1, <4>2, <4>4
    <3>3. CASE b # 0
      <4> HIDE DEF b
      <4>1. /\ b \in BufferIds /\ Buffer(c)' = b
            /\ buffers' = [buffers EXCEPT ![b] = [buffers[b] EXCEPT !.refs = @ + 1]]
        BY <3>1, <3>3
      <4>2. LET r == [buffers[b] EXCEPT !.refs = @ + 1]
            IN  /\ r.opened = buffers[b].opened /\ r.read = buffers[b].read
                /\ r.text = buffers[b].text /\ r.newer = buffers[b].newer
        BY <4>1, FreshKeeps DEF BufferType
      <4>3. Reads(b)
        BY <4>1, <4>2, PutSteady DEF Steady
      <4>4. PICK e \in Threads : Using(e, f) /\ Buffer(e) = b
        BY <3>3, RegisteredInUse DEF b, Calm
      <4>5. Buffer(d)' = b
        <5>1. CASE d = c
          BY <4>1, <5>1
        <5>2. CASE d # c
          BY <2>2, <5>2, OtherUsing
        <5> QED BY <5>1, <5>2
      <4> QED BY <4>3, <4>4, <4>5
    <3> QED BY <3>2, <3>3
  <2> QED BY <2>3, <2>4
<1>3. CASE Using(c, f) /\ ~(Open(c) /\ File(c) = f)
  <2> DEFINE b == Buffer(c)
  <2>1. /\ ~(Begin(c) \/ Return(c) \/ Validate(c) \/ Open(c)) /\ ~Delete(c) /\ ~Insert(c) /\ File(c) = f
        /\ b \in BufferIds
    BY <1>3, DepthBound DEF Begin, Return, Validate, Using
  <2>0. ~OpenFails(c) /\ ~ReadFails(c)
    BY <1>3, ReadsFile
  <2>2. ~Del(c)
    <3> SUFFICES ASSUME Del(c) PROVE FALSE
      OBVIOUS
    <3>1. pc[c] = "del" /\ Depth(c) = 1 /\ \A e \in Threads : Using(e, f) => e = c
      BY <1>3, AloneAtClose DEF Del
    <3>2. PICK why : AfterDrop(c, [job[c] EXCEPT !.held = Front(@), !.failed = why])
      BY DelLeaves
    <3>3. Depth(c)' = Depth(c) - 1
      BY <3>1, <3>2, LeaveKeeps
    <3>4. ~Using(c, f)'
      BY <3>1, <3>3 DEF Using
    <3> QED BY <3>1, <3>4, OtherUsing
  <2>3. Using(c, f)' => Buffer(c)' = b
    <3>1. CASE Close(c)
      BY <3>1 DEF Close, Buffer
    <3>2. CASE ~Close(c)
      <4>1. Quiet(c) \/ Drop(c)
        BY <2>0, <2>1, <2>2, <3>2 DEF Step, Quiet
      <4> QED BY <1>3, <4>1, SameBlock
    <3> QED BY <3>1, <3>2
  <2>4. Buffer(d)' = b
    BY <1>3, <2>3, SharedAfter
  <2>5. Reads(b)
    <3>1. CASE Store(c) \/ Ask(c) \/ DidOpen(c) \/ DidChange(c) \/ Close(c)
      <4>1. buffers' = buffers
        BY <3>1 DEF Store, Ask, DidOpen, DidChange, Close
      <4> QED BY <4>1 DEF Reads
    <3>2. CASE Drop(c) \/ Stamp(c)
      BY <2>1, <3>2, CountSteady DEF Steady
    <3>3. CASE LookInCache(c)
      <4>1. /\ buffers' = [buffers EXCEPT ![b] = Fresh(b)] /\ stirred' = Stir(f, Truncated(c)) /\ pc[c] = "look"
        BY <2>1, <3>3 DEF LookInCache
      <4>2. Truncated(c) = {}
        BY <4>1, NotStirred
      <4> QED BY <1>3, <4>1, <4>2, ReadAgain, PutSteady DEF Steady
    <3>4. CASE Save(c)
      <4>1. pc[c] = "save" /\ ~Creating(c)
        BY <3>4 DEF Save, Creating
      <4>2. open_file_buffers[f] = b /\ b # 0
        BY <1>3, <2>1, <4>1, OneInUse, NotZero
      <4>3. /\ buffers' = [buffers EXCEPT ![b] = Fresh(b)] /\ stirred' = Stir(f, Truncated(c))
        BY <2>1, <3>4, <4>2 DEF Save
      <4>4. Truncated(c) = {}
        BY <4>3, NotStirred
      <4> QED BY <1>3, <4>1, <4>3, <4>4, ReadAgain, PutSteady DEF Steady
    <3>5. CASE EnsureOpen(c)
      <4>1. CASE UNCHANGED buffers
        BY <4>1 DEF Reads
      <4>2. CASE /\ buffers' = [buffers EXCEPT ![b] = [Fresh(b) EXCEPT !.opened = TRUE]]
                 /\ stirred' = Stir(f, OthersBetween(c) \cup Truncated(c))
        <5>1. Truncated(c) = {} /\ pc[c] = "ensure"
          <6>1. Truncated(c) \subseteq OthersBetween(c) \cup Truncated(c)
            OBVIOUS
          <6>2. Truncated(c) = {}
            BY <4>2, <6>1, NotStirred
          <6> QED BY <3>5, <6>2 DEF EnsureOpen
        <5>2. /\ buffers[b].read => Fresh(b).read /\ Fresh(b).text = buffers[b].text
              /\ ~buffers[b].read => Fresh(b).text = disk[buffers[b].file]
          BY <1>3, <5>1, ReadAgain
        <5>3. Fresh(b) \in BufferType
          BY <1>3, <2>1, HeldFile, FreshTyped DEF Using
        <5>4. buffers'[b] = [Fresh(b) EXCEPT !.opened = TRUE]
          BY <2>1, <4>2 DEF Types, TypeOK
        <5>5. buffers'[b].read = Fresh(b).read /\ buffers'[b].text = Fresh(b).text
          BY <5>3, <5>4 DEF BufferType
        <5> QED BY <5>2, <5>5 DEF Reads
      <4> QED BY <2>1, <3>5, <4>1, <4>2 DEF EnsureOpen
    <3>6. CASE Truncate(c) \/ Put(c)
      <4>1. buffers'[b] = buffers[b] \/ buffers'[b] = [buffers[b] EXCEPT !.newer = TRUE]
        BY <2>1, <3>6 DEF Truncate, Put, Written
      <4>2. buffers[b] \in BufferType
        BY <2>1, FreshKeeps
      <4> HIDE DEF b
      <4>3. buffers'[b].read = buffers[b].read /\ buffers'[b].text = buffers[b].text
        BY <4>1, <4>2 DEF BufferType
      <4> QED BY <4>3 DEF Reads
    <3> QED BY <2>0, <2>1, <2>2, <3>1, <3>2, <3>3, <3>4, <3>5, <3>6 DEF Step
  <2> QED BY <1>3, <2>4, <2>5
<1> QED BY <1>1, <1>2, <1>3

-----------------------------------------------------------------------------
(* The buffer's text.                                                        *)

Sound(f) ==
  /\ Exclusive(f) /\ OneEditor(f) /\ InOrder(f) /\ Matching(f) /\ Kept(f)
  /\ Calm(f) /\ LostNoted(f) /\ MissingNoted(f)

\* The only editor of a file is the only one that has not saved it.
LEMMA UnsavedAlone ==
  ASSUME Types, Local, NEW f \in Files, OneEditor(f), NEW c \in Threads, Edits(c), c \in InFlight(f),
         NEW d \in Threads, Unsaved(d, f)
  PROVE  d = c
BY UnsavedAims DEF OneEditor

\* What should be written depends on the call alone.
LEMMA EditedStays ==
  ASSUME NEW c \in Threads, job'[c].op = job[c].op, NewLine(c)' = NewLine(c), NEW text
  PROVE  Edited(c, text)' = Edited(c, text)
BY DEF Edited

\* What the buffer should hold depends on the call alone, too.
LEMMA DueStays ==
  ASSUME Types, Local, NEW f \in Files, NEW d \in Threads,
         job'[d].op = job[d].op, job'[d].n = job[d].n, job'[d].before = job[d].before, SameAim(d),
         Removed(d)' <=> Removed(d)
  PROVE  Due(d, f)' = Due(d, f)
<1>1. NewLine(d)' = NewLine(d) /\ Place(d)' = Place(d)
  BY DEF SameAim, NewLine, Place, File, Phase
<1>2. Edited(d, job[d].before[f])' = Edited(d, job[d].before[f])
  BY <1>1 DEF Edited
<1> QED BY <1>1, <1>2 DEF Due

\* A step after which the same calls have not saved the file, and users find what was read.
LEMMA KeepsTexts ==
  ASSUME Types, Local, Table, NEW f \in Files, InBuffer(f),
         \A d \in Threads : Using(d, f)' =>
           \/ \E e \in Threads : Using(e, f) /\ Buffer(e) = Buffer(d)' /\ Reads(Buffer(d)')
           \/ (\A e \in Threads : ~Using(e, f)) /\ ~buffers'[Buffer(d)'].read,
         disk'[f] = disk[f] \/ \E u \in Threads : Unsaved(u, f),
         \A u \in Threads : (Unsaved(u, f)' <=> Unsaved(u, f)) /\ (Unsaved(u, f) => Due(u, f)' = Due(u, f))
  PROVE  InBuffer(f)'
<1> SUFFICES ASSUME NEW d \in Threads, Using(d, f)'
             PROVE  /\ ((\A c \in Threads : ~Unsaved(c, f)') /\ buffers'[Buffer(d)'].read) =>
                         buffers'[Buffer(d)'].text = disk'[f]
                    /\ \A c \in Threads : Unsaved(c, f)' =>
                         buffers'[Buffer(d)'].read /\ buffers'[Buffer(d)'].text = Due(c, f)'
  BY DEF InBuffer
<1>1. CASE (\A e \in Threads : ~Using(e, f)) /\ ~buffers'[Buffer(d)'].read
  BY <1>1 DEF Unsaved
<1>2. CASE \E e \in Threads : Using(e, f) /\ Buffer(e) = Buffer(d)' /\ Reads(Buffer(d)')
  <2> DEFINE b == Buffer(d)'
  <2>1. PICK e \in Threads : Using(e, f) /\ Buffer(e) = b /\ Reads(b)
    BY <1>2
  <2>2. buffers[b].file = f
    BY <2>1, HeldFile DEF Using
  <2>3. /\ ((\A c \in Threads : ~Unsaved(c, f)) /\ buffers[b].read) => buffers[b].text = disk[f]
        /\ \A c \in Threads : Unsaved(c, f) => buffers[b].read /\ buffers[b].text = Due(c, f)
    BY <2>1 DEF InBuffer
  <2> HIDE DEF b
  <2>4. /\ buffers[b].read => buffers'[b].read /\ buffers'[b].text = buffers[b].text
        /\ buffers'[b].read /\ ~buffers[b].read => buffers'[b].text = disk[f]
    BY <2>1, <2>2 DEF Reads
  <2>5. ((\A c \in Threads : ~Unsaved(c, f)') /\ buffers'[b].read) => buffers'[b].text = disk'[f]
    BY <2>3, <2>4
  <2>6. \A c \in Threads : Unsaved(c, f)' => buffers'[b].read /\ buffers'[b].text = Due(c, f)'
    BY <2>3, <2>4
  <2> QED BY <2>5, <2>6 DEF b
<1> QED BY <1>1, <1>2

\* A call that is about to close its buffer is in no other with-block.
LEMMA CloseAlone ==
  Types /\ Local /\ Table =>
    \A d \in Threads : \A g \in Files :
      (Exclusive(g) /\ Using(d, g) /\ pc[d] = "close") => Depth(d) = 1
BY AloneAtClose

\* A call about to close its buffer is in no other with-block after the step either.
LEMMA UnsavedCloses ==
  ASSUME Types, Local, NEW f \in Files, NEW c \in Threads, Step(c), Unsaved(c, f), pc'[c] = "close",
         (Using(c, f) /\ pc[c] = "close" => Depth(c) = 1)'
  PROVE  Depth(c)' = 1
<1>1. pc[c] \notin {"close", "del", "open", "ensure"} /\ Using(c, f)
  BY DEF Unsaved, Removed, Entered
<1>2. Drop(c)
  <2>1. ~Quiet(c)
    BY QuietOwn
  <2> QED BY <1>1, <2>1 DEF Step, Quiet, Open, OpenFails, Close, Del
<1>3. job' = job
  <2>1. ASSUME AfterDrop(c, [job[c] EXCEPT !.held = Front(@), !.failed = job[c].failed])
        PROVE  FALSE
    BY <1>2, <2>1, LeaveKeeps DEF Drop
  <2> QED BY <1>2, <2>1, DropLeaves
<1>4. Using(c, f)'
  BY <1>1, <1>3 DEF Using, Depth, File, Phase
<1> QED BY <1>4

\* A step that neither changes the text nor writes it.
LEMMA OtherTexts ==
  ASSUME Types, Local, Table, FailedLeave, NEW f \in Files, Sound(f), Calm(f)',
         NEW c \in Threads, Step(c), ~Using(c, f) \/ ~(Delete(c) \/ Insert(c) \/ Put(c)),
         (Using(c, f) /\ pc[c] = "close" => Depth(c) = 1)'
  PROVE  InBuffer(f)'
<1>1. /\ Exclusive(f) /\ InOrder(f) /\ Matching(f) /\ InBuffer(f)
      /\ Calm(f) /\ LostNoted(f) /\ MissingNoted(f)
  BY DEF Sound, Kept
<1>2. ASSUME NEW u \in Threads, u # c
      PROVE  (Unsaved(u, f)' <=> Unsaved(u, f)) /\ (Unsaved(u, f) => Due(u, f)' = Due(u, f))
  <2>1. job'[u] = job[u] /\ pc'[u] = pc[u]
    BY <1>2, OthersStay
  <2>2. Removed(u)' <=> Removed(u)
    BY <2>1 DEF Removed
  <2>3. Unsaved(u, f)' <=> Unsaved(u, f)
    BY <2>1 DEF Unsaved, Using, Depth, File, Phase, Doing, Removed, Entered
  <2>4. Due(u, f)' = Due(u, f)
    BY <2>1, <2>2, DueStays DEF SameAim
  <2> QED BY <2>3, <2>4
<1>3. CASE Using(c, f)
  <2>1. ~Delete(c) /\ ~Insert(c) /\ ~Put(c) /\ ~Begin(c) /\ ~Return(c)
    BY <1>3, DepthBound DEF Begin, Return, Using
  <2>2. ASSUME Unsaved(c, f) PROVE Unsaved(c, f)' /\ Due(c, f)' = Due(c, f)
    <3>1. pc'[c] = "close" => Depth(c)' = 1
      BY <2>2, UnsavedCloses
    <3>2. Unsaved(c, f)' /\ (Removed(c)' <=> Removed(c)) /\ SameAim(c)
      BY <1>1, <2>1, <2>2, <3>1, UnsavedStays
    <3>3. job'[c].op = job[c].op /\ job'[c].n = job[c].n /\ job'[c].before = job[c].before
      BY <2>1, AskedStays
    <3> QED BY <3>2, <3>3, DueStays
  <2>3. Unsaved(c, f)' => Unsaved(c, f)
    BY <1>1, <2>1, UnsavedBegins
  <2>4. disk'[f] = disk[f] \/ Unsaved(c, f)
    <3>1. CASE Truncate(c)
      BY <1>3, <3>1 DEF Truncate, Unsaved, Entered
    <3>2. CASE ~Truncate(c)
      <4>1. disk' = disk
        BY <2>1, <3>2 DEF Step, Open, EnsureOpen, OpenFails, ReadFails, DidOpen, Store, Drop, Close, Del,
                          LookInCache, Ask, Validate, DidChange, Save, Stamp
      <4> QED BY <4>1
    <3> QED BY <3>1, <3>2
  <2>5. \A d \in Threads : Using(d, f)' =>
           \/ \E e \in Threads : Using(e, f) /\ Buffer(e) = Buffer(d)' /\ Reads(Buffer(d)')
           \/ (\A e \in Threads : ~Using(e, f)) /\ ~buffers'[Buffer(d)'].read
    BY <1>1, <2>1, UsersRead
  <2>6. \A u \in Threads : (Unsaved(u, f)' <=> Unsaved(u, f)) /\ (Unsaved(u, f) => Due(u, f)' = Due(u, f))
    BY <1>2, <2>2, <2>3
  <2> QED BY <1>1, <2>4, <2>5, <2>6, KeepsTexts
<1>4. CASE ~Using(c, f)
  <2>1. ~Unsaved(c, f) /\ disk'[f] = disk[f]
    BY <1>4, DiskElsewhere DEF Unsaved
  <2>2. ~Unsaved(c, f)'
    <3>1. CASE Open(c) /\ File(c) = f
      BY <1>1, <2>1, <3>1, UnsavedBegins DEF Open, Delete, Insert
    <3>2. CASE ~(Open(c) /\ File(c) = f)
      BY <1>4, <3>2, StaysOut DEF Unsaved
    <3> QED BY <3>1, <3>2
  <2>3. \A d \in Threads : Using(d, f)' =>
           \/ \E e \in Threads : Using(e, f) /\ Buffer(e) = Buffer(d)' /\ Reads(Buffer(d)')
           \/ (\A e \in Threads : ~Using(e, f)) /\ ~buffers'[Buffer(d)'].read
    BY <1>1, <1>4, UsersRead
  <2>4. \A u \in Threads : (Unsaved(u, f)' <=> Unsaved(u, f)) /\ (Unsaved(u, f) => Due(u, f)' = Due(u, f))
    BY <1>2, <2>1, <2>2
  <2> QED BY <1>1, <2>1, <2>3, <2>4, KeepsTexts
<1> QED BY <1>3, <1>4

\* A file that is not truncated holds what the call found in it, or what it made of it.
LEMMA OnDiskNow ==
  ASSUME Types, Local, NEW f \in Files, NEW c \in Threads, OnDisk(c, f), f \notin job[c].saved,
         pc[c] \notin {"put", "stamp"}
  PROVE  disk[f] = job[c].before[f]
BY DEF OnDisk, Stamping

\* The text before an edit of it, and where the edit is made.
LEMMA TextToChange ==
  ASSUME Types, Local, Table, FailedLeave, Courses, NEW f \in Files, Sound(f),
         NEW c \in Threads, Using(c, f), pc[c] \in {"delete", "insert"},
         buffers[Buffer(c)].read
  PROVE  LET was == SymbolAt(job[c].before[f])
             text == buffers[Buffer(c)].text
         IN  /\ job[c].failed = "no" /\ Doing(c) = "edit" /\ File(c) = f /\ Edits(c) /\ c \in InFlight(f)
             /\ was \in 1 .. Len(job[c].before[f]) /\ job[c].before[f] \in Text
             /\ Place(c) = was + (IF job[c].op = "after" THEN 1 ELSE 0)
             /\ pc[c] = "delete" => job[c].op \notin {"before", "after"}
             /\ text = IF Removed(c) THEN ReplaceAt(job[c].before[f], was, Empty) ELSE job[c].before[f]
<1> DEFINE was == SymbolAt(job[c].before[f])
           text == buffers[Buffer(c)].text
<1>1. /\ job[c].failed = "no" /\ Doing(c) = "edit" /\ File(c) = f /\ Edits(c) /\ c \in InFlight(f)
      /\ ~Leaves(c) /\ pc[c] # "idle" /\ pc[c] # "return" /\ job[c].plan # <<>>
      /\ 1 \in 1 .. Len(job[c].plan) /\ job[c].plan[1] = <<"edit", f>>
  <2>1. job[c].failed = "no"
    BY DEF FailedLeave
  <2>2. Doing(c) = "edit" /\ File(c) = f /\ Edits(c) /\ c \in InFlight(f) /\ Depth(c) # 0
    BY ChangesEdit DEF Using
  <2>3. job[c].plan # <<>> /\ 1 \in 1 .. Len(job[c].plan) /\ Phase(c) = job[c].plan[1]
        /\ Phase(c) \in {"ask", "edit"} \X Files
    BY <2>2, DepthBound, Mine
  <2>4. Phase(c) = <<"edit", f>>
    BY <2>2, <2>3 DEF Doing, File
  <2> QED BY <2>1, <2>2, <2>3, <2>4 DEF Leaves
<1>2. f \notin job[c].saved
  BY <1>1 DEF Courses, Course, SavedLast
<1>3. OnDisk(c, f) /\ Found(c, f)
  BY <1>1 DEF Sound, Kept
<1>4. disk[f] = job[c].before[f]
  BY <1>2, <1>3, OnDiskNow
<1>5. job[c].at[f] = was /\ was # 0
  BY <1>1, <1>3 DEF Found, Pending
<1>6. job[c].before[f] \in Text /\ was \in 0 .. Len(job[c].before[f])
  <2>1. job[c].before[f] \in Text
    BY Mine DEF JobType
  <2> QED BY <2>1, SymbolIn
<1>7. was \in 1 .. Len(job[c].before[f])
  <2>1. Len(job[c].before[f]) \in Nat
    BY <1>6 DEF Text
  <2> HIDE DEF was
  <2> QED BY <1>5, <1>6, <2>1
<1>8. Place(c) = was + (IF job[c].op = "after" THEN 1 ELSE 0)
  BY <1>1, <1>5 DEF Place
<1>9. pc[c] = "delete" => job[c].op \notin {"before", "after"}
  BY DEF Local, Placed, Twice
<1>10. ASSUME NEW u \in Threads, u # c PROVE ~Unsaved(u, f)
  BY <1>1, <1>10, UnsavedAlone DEF Sound
<1>11. CASE Removed(c)
  <2>1. Unsaved(c, f)
    BY <1>11 DEF Unsaved
  <2>2. text = Due(c, f)
    BY <2>1 DEF Sound, Kept, InBuffer
  <2>3. job[c].op \notin {"before", "after"}
    BY <1>11 DEF Removed
  <2>4. Place(c) = was
    <3>1. Place(c) = was + 0
      BY <1>8, <2>3
    <3> HIDE DEF was
    <3> QED BY <1>7, <3>1
  <2>5. text = ReplaceAt(job[c].before[f], was, Empty)
    BY <1>11, <2>2, <2>4 DEF Due
  <2> QED BY <1>1, <1>6, <1>7, <1>8, <1>9, <1>11, <2>5
<1>12. CASE ~Removed(c)
  <2>1. ~Unsaved(c, f)
    BY <1>12 DEF Unsaved, Entered
  <2>2. text = disk[f]
    BY <1>10, <2>1 DEF Sound, Kept, InBuffer
  <2> QED BY <1>1, <1>4, <1>6, <1>7, <1>8, <1>9, <1>12, <2>2
<1> QED BY <1>11, <1>12

\* An edit of a file on which nothing interferes succeeds, and makes of the text what it should.
LEMMA ChangeDue ==
  ASSUME Types, Local, Table, FailedLeave, Courses, NEW f \in Files, Sound(f), Calm(f)',
         NEW c \in Threads, Using(c, f), Delete(c) \/ Insert(c)
  PROVE  /\ pc'[c] = (IF pc[c] = "delete" THEN "did delete" ELSE "did insert")
         /\ \E note : job'[c] = [job[c] EXCEPT !.note = note]
         /\ Unsaved(c, f)' /\ (pc[c] = "insert" => Entered(c)')
         /\ buffers'[Buffer(c)].read /\ buffers'[Buffer(c)].text = Due(c, f)'
         /\ pc[c] = "delete" => (Apart(f)' => Apart(f))
<1> DEFINE was == SymbolAt(job[c].before[f])
           b == Buffer(c)
           T == job[c].before[f]
           t == buffers[b].text
<1>1. /\ Step(c) /\ Quiet(c) /\ pc[c] \in {"delete", "insert"} /\ ~Begin(c) /\ ~Return(c)
  BY DEF Step, Quiet, Delete, Insert, Begin, Return
<1>2. /\ buffers[b].read /\ buffers'[b].read /\ Place(c) \in Nat /\ Len(t) \in Nat
      /\ Apart(f)' => Apart(f) \/ Place(c) > Len(t)
      /\ \/ /\ buffers'[b].text = Changed(c, t)
            /\ pc'[c] = IF pc[c] = "delete" THEN "did delete" ELSE "did insert"
            /\ \E note : job'[c] = [job[c] EXCEPT !.note = note]
         \/ /\ Place(c) > Len(t)
            /\ pc[c] = "insert" => Place(c) > Len(t) + 1
            /\ FailWith(c, "location", job[c])
  BY ChangeTexts DEF Sound
<1>3. /\ job[c].failed = "no" /\ Doing(c) = "edit" /\ File(c) = f /\ Edits(c)
      /\ was \in 1 .. Len(T) /\ T \in Text
      /\ Place(c) = was + (IF job[c].op = "after" THEN 1 ELSE 0)
      /\ pc[c] = "delete" => job[c].op \notin {"before", "after"}
      /\ t = IF Removed(c) THEN ReplaceAt(T, was, Empty) ELSE T
  BY <1>1, <1>2, TextToChange
<1>4. Len(T) \in Nat /\ Len(t) = Len(T)
  <2>1. Len(T) \in Nat
    BY <1>3 DEF Text
  <2>2. Len(ReplaceAt(T, was, Empty)) = Len(T)
    BY <1>3, ReplacedAt DEF Empty
  <2> QED BY <1>3, <2>1, <2>2
<1>5. Removed(c) <=> pc[c] = "insert" /\ job[c].op \notin {"before", "after"}
  BY <1>1 DEF Removed
<1> HIDE DEF was, b, T, t
<1>6. pc[c] = "delete" => Place(c) = was /\ ~(Place(c) > Len(t))
  <2> SUFFICES ASSUME pc[c] = "delete" PROVE Place(c) = was /\ ~(Place(c) > Len(t))
    OBVIOUS
  <2>1. Place(c) = was + 0 /\ Len(t) = Len(T)
    BY <1>3, <1>4, <1>5
  <2> QED BY <1>3, <1>4, <2>1
<1>7. pc[c] = "insert" => ~(Place(c) > Len(t) + 1)
  <2>1. CASE job[c].op \in {"before", "after"}
    <3>1. Len(t) = Len(T) /\ Place(c) = was + (IF job[c].op = "after" THEN 1 ELSE 0)
      BY <1>3, <1>4, <1>5, <2>1
    <3>2. Place(c) = was \/ Place(c) = was + 1
      BY <1>3, <3>1
    <3> QED BY <1>3, <1>4, <3>1, <3>2
  <2>2. CASE job[c].op \notin {"before", "after"} /\ pc[c] = "insert"
    <3>1. Len(t) = Len(T) /\ Place(c) = was + 0
      BY <1>3, <1>4, <1>5, <2>2
    <3> QED BY <1>3, <1>4, <3>1
  <2> QED BY <2>1, <2>2
<1>8. /\ buffers'[b].text = Changed(c, t)
      /\ pc'[c] = IF pc[c] = "delete" THEN "did delete" ELSE "did insert"
      /\ \E note : job'[c] = [job[c] EXCEPT !.note = note]
  BY <1>1, <1>2, <1>6, <1>7
<1>9. /\ job'[c].held = job[c].held /\ job'[c].plan = job[c].plan
      /\ job'[c].op = job[c].op /\ job'[c].at = job[c].at /\ job'[c].n = job[c].n
      /\ job'[c].before = job[c].before
  BY <1>8, Mine DEF JobType
<1>10. Using(c, f)' /\ Place(c)' = Place(c) /\ NewLine(c)' = NewLine(c)
  BY <1>9 DEF Using, Depth, File, Phase, Place, NewLine
<1>11. Unsaved(c, f)' /\ (pc[c] = "insert" => Entered(c)') /\ (Removed(c)' <=> pc[c] = "delete")
  BY <1>1, <1>8, <1>10 DEF Unsaved, Removed, Entered
<1>12. Edited(c, T)' = Edited(c, T) /\ T' = T
  <2>1. T' = T
    BY <1>9 DEF T
  <2> QED BY <1>9, <1>10, <2>1 DEF Edited
<1>13. Changed(c, t) = Due(c, f)'
  <2>1. CASE pc[c] = "delete"
    <3>1. Due(c, f)' = ReplaceAt(T, was, Empty)
      BY <1>6, <1>10, <1>11, <1>12, <2>1 DEF Due, T
    <3>2. t = T
      BY <1>3, <1>5, <2>1
    <3> QED BY <1>6, <2>1, <3>1, <3>2 DEF Changed
  <2>2. CASE pc[c] = "insert"
    <3>1. Due(c, f)' = Edited(c, T)
      BY <1>11, <1>12, <2>2 DEF Due, T
    <3>2. ~Replaces(c) => Changed(c, t) = InsertAt(t, Place(c), NewLine(c))
      BY <2>2 DEF Changed
    <3>3. CASE job[c].op \in {"before", "after"}
      <4>0. Changed(c, t) = InsertAt(t, Place(c), NewLine(c))
        BY <3>2, <3>3 DEF Replaces
      <4>1. t = T
        BY <1>3, <1>5, <3>3
      <4>2. CASE job[c].op = "before"
        <5>1. Place(c) = was
          <6>1. Place(c) = was + 0
            BY <1>3, <4>2
          <6> QED BY <1>3, <6>1
        <5> QED BY <3>1, <4>0, <4>1, <4>2, <5>1 DEF Edited, was, T
      <4>3. CASE job[c].op = "after"
        <5>1. Place(c) = was + 1
          BY <1>3, <4>3
        <5> QED BY <3>1, <4>0, <4>1, <4>3, <5>1 DEF Edited, was, T
      <4> QED BY <3>3, <4>2, <4>3
    <3>4. CASE job[c].op \notin {"before", "after"}
      <4>1. t = ReplaceAt(T, was, Empty) /\ Place(c) = was + 0
        BY <1>3, <1>5, <2>2, <3>4
      <4>2. Place(c) = was
        BY <1>3, <4>1
      <4>3. NewLine(c) \in Int
        BY <1>1, EditType DEF Editing
      <4>4. ReplaceAt(t, was, NewLine(c)) = ReplaceAt(T, was, NewLine(c)) /\ t[was] = Empty
        <5>1. Empty \in Int /\ was \in 1 .. Len(T) /\ T \in Text
          BY <1>3 DEF Empty
        <5>2. ReplaceAt(T, was, Empty)[was] = Empty
          BY <5>1, ReplacedAt
        <5>3. ReplaceAt(ReplaceAt(T, was, Empty), was, NewLine(c)) = ReplaceAt(T, was, NewLine(c))
          BY <4>3, <5>1, ReplacedTwice
        <5> QED BY <4>1, <5>2, <5>3
      <4>5. Edited(c, T) = ReplaceAt(T, was, NewLine(c))
        BY <3>4 DEF Edited, was, T
      <4>6. Replaces(c) /\ was <= Len(t)
        BY <1>3, <1>4, <3>4 DEF Replaces, Edits
      <4>7. Changed(c, t) = ReplaceAt(t, was, Filled(c, t[was]))
        BY <2>2, <4>2, <4>6 DEF Changed
      <4>8. Filled(c, t[was]) = NewLine(c)
        BY <4>4 DEF Filled
      <4> QED BY <3>1, <4>4, <4>5, <4>7, <4>8
    <3> QED BY <3>3, <3>4
  <2> QED BY <1>1, <2>1, <2>2
<1> QED BY <1>2, <1>6, <1>8, <1>11, <1>13 DEF b

\* The edits put into the buffer what is due.
LEMMA ChangedTexts ==
  ASSUME Types, Local, Table, FailedLeave, Courses, NEW f \in Files, Sound(f), Calm(f)',
         NEW c \in Threads, Using(c, f), Delete(c) \/ Insert(c)
  PROVE  InBuffer(f)'
<1>1. Step(c) /\ Quiet(c) /\ pc[c] \in {"delete", "insert"} /\ Exclusive(f) /\ OneEditor(f)
  BY DEF Step, Quiet, Delete, Insert, Sound
<1>2. Unsaved(c, f)' /\ buffers'[Buffer(c)].read /\ buffers'[Buffer(c)].text = Due(c, f)'
  BY ChangeDue
<1>3. ASSUME NEW u \in Threads, u # c PROVE ~Unsaved(u, f)'
  <2>1. Edits(c) /\ c \in InFlight(f)
    BY <1>1, ChangesEdit DEF Using
  <2>2. ~Unsaved(u, f)
    BY <1>1, <1>3, <2>1, UnsavedAlone
  <2>3. job'[u] = job[u] /\ pc'[u] = pc[u]
    BY <1>1, <1>3, OthersStay
  <2> QED BY <2>2, <2>3 DEF Unsaved, Using, Depth, File, Phase, Doing, Removed, Entered
<1>4. ASSUME NEW d \in Threads, Using(d, f)' PROVE Buffer(d)' = Buffer(c)
  <2>1. Using(c, f)' => Buffer(c)' = Buffer(c)
    BY <1>1, SameBlock
  <2> QED BY <1>1, <1>4, <2>1, SharedAfter
<1> QED BY <1>2, <1>3, <1>4 DEF InBuffer

\* The text is written.
LEMMA PutTexts ==
  ASSUME Types, Local, Table, NEW f \in Files, Sound(f), NEW c \in Threads, Using(c, f), Put(c)
  PROVE  /\ InBuffer(f)' /\ Using(c, f)' /\ pc'[c] = "stamp"
         /\ disk'[f] = Edited(c, job[c].before[f])
<1> DEFINE b == Buffer(c)
<1>1. /\ Step(c) /\ Quiet(c) /\ job' = job /\ Saves(c) /\ File(c) = f /\ pc[c] = "put"
      /\ pc'[c] = "stamp" /\ Exclusive(f) /\ OneEditor(f)
  BY DEF Step, Quiet, Put, Saves, Goto, Using, Types, TypeOK, Sound
<1>2. /\ b \in BufferIds /\ buffers[b].read /\ job[c].out = buffers[b].text /\ disk[f] = <<>>
  BY <1>1, DepthBound DEF Sound, Matching, Carries, Using
<1>3. disk'[f] = buffers[b].text
  <2>1. disk'[f] = job[c].out \o SubSeq(disk[f], Len(job[c].out) + 1, Len(disk[f]))
    BY <1>1 DEF Put, Written, Types, TypeOK
  <2>2. job[c].out \in Seq(Int)
    BY Mine DEF JobType, Text
  <2>3. disk[f] = <<>> /\ Len(job[c].out) \in Nat
    BY <1>2, <2>2
  <2>4. ASSUME NEW n \in Nat PROVE SubSeq(<<>>, n + 1, Len(<<>>)) = <<>>
    OBVIOUS
  <2>5. ASSUME NEW out \in Seq(Int) PROVE out \o <<>> = out
    OBVIOUS
  <2>6. disk'[f] = job[c].out \o <<>>
    BY <2>1, <2>3, <2>4
  <2> QED BY <1>2, <2>2, <2>5, <2>6
<1>4. buffers'[b].read /\ buffers'[b].text = buffers[b].text
  <2>1. buffers'[b] = buffers[b] \/ buffers'[b] = [buffers[b] EXCEPT !.newer = TRUE]
    BY <1>2 DEF Put, Written
  <2>2. buffers[b] \in BufferType
    BY <1>2, FreshKeeps
  <2> HIDE DEF b
  <2> QED BY <1>2, <2>1, <2>2 DEF BufferType
<1>5. buffers[b].text = Edited(c, job[c].before[f])
  <2>1. Unsaved(c, f) /\ ~Removed(c)
    BY <1>1 DEF Unsaved, Entered, Removed
  <2> QED BY <2>1 DEF Sound, Kept, InBuffer, Due
<1>6. ASSUME NEW u \in Threads PROVE ~Unsaved(u, f)'
  <2>1. CASE u = c
    BY <1>1, <2>1 DEF Unsaved, Removed, Entered
  <2>2. CASE u # c
    <3>1. Edits(c) /\ c \in InFlight(f)
      BY <1>1, SavesEdit, UsingInFlight
    <3>2. ~Unsaved(u, f)
      BY <1>1, <2>2, <3>1, UnsavedAlone
    <3>3. job'[u] = job[u] /\ pc'[u] = pc[u]
      BY <1>1, <2>2, OthersStay
    <3> QED BY <3>2, <3>3 DEF Unsaved, Using, Depth, File, Phase, Doing, Removed, Entered
  <2> QED BY <2>1, <2>2
<1>7. ASSUME NEW d \in Threads, Using(d, f)' PROVE Buffer(d)' = b
  <2>1. Using(c, f)' => Buffer(c)' = b
    BY <1>1, SameBlock
  <2> QED BY <1>1, <1>7, <2>1, SharedAfter
<1>8. Using(c, f)'
  BY <1>1 DEF Using, Depth, File, Phase
<1> QED BY <1>1, <1>3, <1>4, <1>5, <1>6, <1>7, <1>8 DEF InBuffer

\* Whoever steps, the buffer keeps what it should hold.
LEMMA TextsStep ==
  ASSUME Types, Local, Table, FailedLeave, Courses, NEW f \in Files, Sound(f), Calm(f)',
         NEW c \in Threads, Step(c), (Using(c, f) /\ pc[c] = "close" => Depth(c) = 1)'
  PROVE  InBuffer(f)'
<1>1. CASE Using(c, f) /\ (Delete(c) \/ Insert(c))
  BY <1>1, ChangedTexts
<1>2. CASE Using(c, f) /\ Put(c)
  BY <1>2, PutTexts
<1>3. CASE ~Using(c, f) \/ ~(Delete(c) \/ Insert(c) \/ Put(c))
  BY <1>3, OtherTexts
<1> QED BY <1>1, <1>2, <1>3

-----------------------------------------------------------------------------
(* The calls that edit.                                                      *)

\* Only an edit sets the server's text apart.
LEMMA ApartBy ==
  ASSUME Types, Local, NEW c \in Threads, Step(c), NEW f \in Files, Apart(f)', ~Apart(f)
  PROVE  (Delete(c) \/ Insert(c)) /\ Using(c, f)
<1>1. stirred'[f] # stirred[f] /\ "end" \in stirred'[f] /\ "end" \notin stirred[f]
  BY DEF Apart
<1>2. ~(DidOpen(c) \/ Store(c) \/ Drop(c) \/ Close(c) \/ Del(c) \/ Ask(c) \/ Validate(c)
        \/ DidChange(c) \/ Truncate(c) \/ Put(c) \/ Stamp(c) \/ ReadFails(c))
  BY <1>1 DEF DidOpen, Store, Drop, Close, Del, Ask, Validate, DidChange, Truncate, Put, Stamp, ReadFails
<1>3. ~Begin(c)
  <2> SUFFICES ASSUME Begin(c) PROVE FALSE
    OBVIOUS
  <2>1. \E more \in {Meets(f), {}} : stirred'[f] = stirred[f] \cup more
    BY DEF Begin
  <2>2. "end" \notin Meets(f)
    BY DEF Meets
  <2> QED BY <1>1, <2>1, <2>2
<1>4. ~Return(c)
  BY <1>1 DEF Return
<1>5. ASSUME NEW g, NEW kinds, "end" \notin kinds, stirred' = Stir(g, kinds) PROVE FALSE
  BY <1>1, <1>5 DEF Stir, Types, TypeOK
<1>6. "end" \notin OthersBetween(c) /\ "end" \notin Truncated(c)
  BY DEF OthersBetween, Truncated
<1>7. ~(Open(c) \/ EnsureOpen(c) \/ LookInCache(c) \/ Save(c))
  BY <1>1, <1>5, <1>6 DEF Open, EnsureOpen, LookInCache, Save
<1>7a. ~OpenFails(c)
  <2> SUFFICES ASSUME OpenFails(c) PROVE FALSE
    OBVIOUS
  <2>1. \E more \in {{"unread"}, {}} : stirred' = Stir(File(c), OthersBetween(c) \cup more)
    BY DEF OpenFails
  <2>2. PICK more \in {{"unread"}, {}} : stirred' = Stir(File(c), OthersBetween(c) \cup more)
    BY <2>1
  <2>3. "end" \notin OthersBetween(c) \cup more
    BY <1>6
  <2> QED BY <1>5, <2>2, <2>3
<1>8. Delete(c) \/ Insert(c)
  BY <1>2, <1>3, <1>4, <1>7, <1>7a DEF Step
<1>9. Depth(c) # 0 /\ File(c) \in Files
  BY <1>8, ChangesEdit, DepthBound DEF Delete, Insert
<1>10. PICK kinds : stirred' = Stir(File(c), kinds)
  <2>1. ASSUME NEW pastEnd, NEW step, Change(c, pastEnd, step)
        PROVE  \E kinds : stirred' = Stir(File(c), kinds)
    BY <1>1, <1>9, <2>1, ChangeCases
  <2> QED BY <1>8, <2>1 DEF Delete, Insert
<1>11. File(c) = f
  BY <1>1, <1>10 DEF Stir, Types, TypeOK
<1> QED BY <1>8, <1>9, <1>11 DEF Using

\* What is kept of a call that edits f.
Editor(e, f) == Found(e, f) /\ Unfailed(e, f) /\ ApartLate(e, f) /\ OnDisk(e, f)

\* A step of another thread.
LEMMA EditorStays ==
  ASSUME Types, Local, NEW f \in Files, OneEditor(f), Kept(f),
         NEW e \in Threads, (e \in InFlight(f))', Edits(e)', job'[e] = job[e], pc'[e] = pc[e],
         disk'[f] = disk[f], Apart(f)' => Apart(f)
  PROVE  Editor(e, f)'
<1>1. e \in InFlight(f) /\ Edits(e)
  BY DEF InFlight, Touches, Edits
<1>2. Found(e, f) /\ Unfailed(e, f) /\ ApartLate(e, f) /\ OnDisk(e, f)
  BY <1>1 DEF Kept
<1>3. /\ Doing(e)' = Doing(e) /\ (Using(e, f)' <=> Using(e, f)) /\ (Leaves(e)' <=> Leaves(e))
      /\ Depth(e)' = Depth(e) /\ NewLine(e)' = NewLine(e)
  BY DEF Doing, File, Phase, Using, Depth, Leaves, NewLine
<1>4. (Unsaved(e, f)' <=> Unsaved(e, f)) /\ (Entered(e)' <=> Entered(e)) /\ (Stamping(e, f)' <=> Stamping(e, f))
  BY <1>3 DEF Unsaved, Removed, Entered, Stamping
<1>5. Edited(e, job[e].before[f])' = Edited(e, job[e].before[f])
  BY <1>3 DEF Edited
<1>6. Pending(e, f)' <=> Pending(e, f)
  BY DEF Pending
<1>7. Found(e, f)'
  BY <1>2, <1>3, <1>6 DEF Found
<1>8. Unfailed(e, f)' /\ ApartLate(e, f)'
  BY <1>2, <1>3, <1>4 DEF Unfailed, ApartLate
<1>9. OnDisk(e, f)'
  BY <1>2, <1>3, <1>4, <1>5 DEF OnDisk
<1> QED BY <1>7, <1>8, <1>9 DEF Editor

\* A step of another thread keeps what is known of an editor.
LEMMA OtherEditor ==
  ASSUME Types, Local, NEW f \in Files, OneEditor(f), Kept(f), NEW c \in Threads, Step(c),
         NEW e \in Threads, e # c, (e \in InFlight(f))', Edits(e)'
  PROVE  Editor(e, f)'
<1>1. job'[e] = job[e] /\ pc'[e] = pc[e]
  BY OthersStay
<1>2. e \in InFlight(f) /\ Edits(e)
  BY <1>1 DEF InFlight, Touches, Edits
<1>3. ~(Using(c, f) /\ Edits(c))
  BY <1>2, UsingInFlight DEF OneEditor
<1>4. disk'[f] = disk[f]
  <2>1. CASE Truncate(c) \/ Put(c)
    <3>1. Saves(c)
      BY <2>1 DEF Truncate, Put, Saves
    <3> QED BY <1>3, <3>1, SavesEdit, DiskElsewhere
  <2>2. CASE ~(Truncate(c) \/ Put(c))
    <3>1. disk' = disk
      BY <2>2 DEF Step, Begin, Return, Open, EnsureOpen, OpenFails, ReadFails, DidOpen, Store, Drop, Close,
                  Del, LookInCache, Ask, Validate, Delete, Insert, DidChange, Save, Stamp
    <3> QED BY <3>1
  <2> QED BY <2>1, <2>2
<1>5. Apart(f)' => Apart(f)
  <2> SUFFICES ASSUME Apart(f)', ~Apart(f) PROVE FALSE
    OBVIOUS
  <2>1. (Delete(c) \/ Insert(c)) /\ Using(c, f)
    BY ApartBy
  <2>2. Edits(c)
    BY <2>1, ChangesEdit DEF Delete, Insert
  <2> QED BY <1>3, <2>1, <2>2
<1> QED BY <1>1, <1>4, <1>5, EditorStays

\* A call begins.
LEMMA BeginEditor ==
  ASSUME Types, Local, NEW f \in Files, NEW c \in Threads, Begin(c), Calm(f)', (c \in InFlight(f))', Edits(c)'
  PROVE  Editor(c, f)'
<1>1. PICK op \in Ops, g \in Files :
        /\ SetJob(c, [NoJob EXCEPT !.op = op, !.n = effort', !.file = g,
                                   !.plan = Plan(op, g), !.before = disk])
        /\ stirred' = [h \in Files |->
             stirred[h] \cup
               IF op \in {"replace", "before", "after", "rename"} /\ (h = g \/ op = "rename")
                 THEN Meets(h) ELSE {}]
  BY DEF Begin
<1>2. pc'[c] = "open" /\ disk' = disk
  BY DEF Begin, Goto, Types, TypeOK
<1>3. /\ job'[c].plan = Plan(op, g) /\ job'[c].saved = {} /\ job'[c].op = op /\ job'[c].file = g
      /\ job'[c].before = disk
  BY <1>1 DEF SetJob, Types, NoJob
<1>4. stirred'[f] = stirred[f] \cup Meets(f)
  <2>1. op \in {"replace", "before", "after", "rename"} /\ (f = g \/ op = "rename")
    BY <1>3 DEF Edits, InFlight, Touches
  <2> QED BY <1>1, <2>1
<1>5. ~Apart(f)'
  BY <1>4 DEF Apart, Calm, Meets
<1>6. Plan(op, g) # <<>> /\ Plan(op, g)[1][1] = "ask" /\ Head(Plan(op, g)) = Plan(op, g)[1]
  <2>1. Plan(op, g) # <<>> /\ Plan(op, g)[1][1] = "ask" /\ Plan(op, g) \in Seq({"ask", "edit"} \X Files)
    BY PlanType
  <2> QED BY <2>1
<1>7. Found(c, f)' /\ Unfailed(c, f)'
  BY <1>2, <1>3, <1>6 DEF Found, Unfailed, Leaves, Doing, Phase
<1>8. ApartLate(c, f)' /\ OnDisk(c, f)'
  BY <1>2, <1>3, <1>5 DEF ApartLate, OnDisk, Stamping
<1> QED BY <1>7, <1>8 DEF Editor

\* The files that are saved.
LEMMA SavedStays ==
  ASSUME Types, Local, NEW c \in Threads, Step(c), ~Begin(c), ~Return(c)
  PROVE  /\ job'[c].saved = job[c].saved \/ (Stamp(c) /\ job'[c].saved = job[c].saved \cup {File(c)})
         /\ pc'[c] = "put" => Truncate(c)
         /\ pc'[c] = "stamp" => Put(c)
<1>1. CASE Stamp(c)
  <2>1. job'[c] = [job[c] EXCEPT !.fb = 0, !.out = <<>>, !.saved = @ \cup {File(c)}] /\ pc'[c] = "drop"
    BY <1>1 DEF Stamp, SetJob, Goto, Types, TypeOK
  <2> QED BY <1>1, <2>1, Mine DEF JobType
<1>2. CASE LookInCache(c) \/ Ask(c)
  <2>1. pc'[c] \in {"ensure", "drop"}
    BY <1>2 DEF LookInCache, Ask, Located, Goto, Types, TypeOK
  <2>2. ASSUME NEW symbols, Located(c, symbols) PROVE job'[c].saved = job[c].saved
    <3>1. PICK why \in {"no", "no symbol"} : job'[c] = [job[c] EXCEPT !.at = symbols, !.failed = why]
      BY <2>2 DEF Located, SetJob, Types
    <3> QED BY <3>1, Mine DEF JobType
  <2>3. job'[c].saved = job[c].saved
    <3>1. CASE LookInCache(c)
      <4>1. CASE SetJob(c, [job[c] EXCEPT !.next = "ask"])
        <5>1. job'[c] = [job[c] EXCEPT !.next = "ask"]
          BY <4>1 DEF SetJob, Types
        <5> QED BY <5>1, Mine DEF JobType
      <4> QED BY <2>2, <3>1, <4>1 DEF LookInCache
    <3>2. CASE Ask(c)
      <4>1. CASE \E symbols \in [Files -> Nat] :
                   (job[c].op = "rename" => symbols[File(c)] = 0) /\ Located(c, symbols)
        BY <2>2, <4>1
      <4>2. CASE ~ \E symbols \in [Files -> Nat] :
                     (job[c].op = "rename" => symbols[File(c)] = 0) /\ Located(c, symbols)
        <5> PICK symbols \in [Files -> Nat], plan \in Seq({"ask", "edit"} \X Files) :
              /\ job[c].op = "rename" /\ pc'[c] = "drop"
              /\ job'[c] = [job[c] EXCEPT !.at = symbols, !.plan = plan]
              /\ plan # <<>> /\ Head(plan) = job[c].plan[1] /\ plan[1] = job[c].plan[1]
              /\ \A i \in 2 .. Len(plan) : plan[i][1] = "edit" /\ symbols[plan[i][2]] >= 1
          BY <3>2, <4>2, AskCases
        <5> QED BY Mine DEF JobType
      <4> QED BY <4>1, <4>2
    <3> QED BY <1>2, <3>1, <3>2
  <2> QED BY <2>1, <2>3
<1>3. CASE ~(Stamp(c) \/ LookInCache(c) \/ Ask(c))
  <2>1. job'[c].saved = job[c].saved
    BY <1>3, Moves DEF GoesOn, Fails, Proceeds, SameAim
  <2>2. ASSUME pc'[c] \in {"put", "stamp"}, ~Truncate(c), ~Put(c) PROVE FALSE
    <3>1. ASSUME NEW j, NEW why, FailWith(c, why, j) PROVE FALSE
      BY <2>2, <3>1 DEF FailWith, Goto, Types, TypeOK
    <3>2. ASSUME NEW j, AfterDrop(c, j) PROVE FALSE
      BY <2>2, <3>2 DEF AfterDrop, Goto, Types, TypeOK
    <3>3. ASSUME NEW step, step \notin {"put", "stamp"}, Goto(c, step) PROVE FALSE
      BY <2>2, <3>3 DEF Goto, Types, TypeOK
    <3>4. ~(Open(c) \/ DidChange(c) \/ Drop(c) \/ Close(c) \/ Del(c) \/ Validate(c) \/ Save(c))
      BY <3>1, <3>2, <3>3 DEF Open, DidChange, Drop, Close, Del, Validate, Save
    <3>5. ~(Delete(c) \/ Insert(c))
      <4> SUFFICES ASSUME Delete(c) \/ Insert(c) PROVE FALSE
        OBVIOUS
      <4>1. File(c) \in Files
        BY ChangesEdit, DepthBound DEF Delete, Insert
      <4> QED BY <3>1, <3>3, <4>1, ChangeCases DEF Delete, Insert
    <3>6. CASE EnsureOpen(c) \/ DidOpen(c)
      <4>1. pc'[c] \in {job[c].next, "did open"} /\ (pc[c] = "ensure" \/ Opens(c))
        BY <3>6 DEF EnsureOpen, DidOpen, Opens, Goto, Types, TypeOK
      <4> QED BY <2>2, <4>1, NextStep
    <3>7. CASE Store(c)
      <4>1. pc'[c] = Inside(c, Depth(c)) /\ Doing(c) \in {"ask", "edit"}
        BY <3>7, DepthBound, Mine DEF Store, Goto, Types, TypeOK
      <4> QED BY <2>2, <4>1 DEF Inside, Lazy
    <3>8. ~OpenFails(c) /\ ~ReadFails(c)
      BY <2>2, UnreadMoves DEF Fails
    <3> QED BY <1>3, <2>2, <3>4, <3>5, <3>6, <3>7, <3>8 DEF Step
  <2>3. pc'[c] = "put" => ~Put(c)
    BY DEF Put, Goto, Types, TypeOK
  <2>4. pc'[c] = "stamp" => ~Truncate(c)
    BY DEF Truncate, Goto, Types, TypeOK
  <2> QED BY <2>1, <2>2, <2>3, <2>4
<1> QED BY <1>1, <1>2, <1>3

\* A step of the editor keeps the file as found, truncated or edited.
LEMMA OwnDisk ==
  ASSUME Types, Local, Table, NEW f \in Files, Sound(f), NEW c \in Threads, Step(c), ~Begin(c), ~Return(c),
         OnDisk(c, f)
  PROVE  OnDisk(c, f)'
<1> DEFINE T == job[c].before[f]
<1>1. /\ Edited(c, T)' = Edited(c, T) /\ T' = T
  <2>1. /\ job'[c].op = job[c].op /\ job'[c].n = job[c].n /\ job'[c].before = job[c].before
    BY AskedStays
  <2>2. NewLine(c)' = NewLine(c)
    BY <2>1 DEF NewLine
  <2> QED BY <2>1, <2>2 DEF Edited
<1>2. /\ job'[c].saved = job[c].saved \/ (Stamp(c) /\ job'[c].saved = job[c].saved \cup {File(c)})
      /\ pc'[c] = "put" => Truncate(c)
      /\ pc'[c] = "stamp" => Put(c)
  BY SavedStays
<1> HIDE DEF T
<1>3. disk[f] = IF Using(c, f) /\ pc[c] = "put" THEN <<>>
                ELSE IF f \in job[c].saved \/ Stamping(c, f) THEN Edited(c, T) ELSE T
  BY DEF OnDisk, T
<1>4. SUFFICES disk'[f] = IF Using(c, f)' /\ pc'[c] = "put" THEN <<>>
                          ELSE IF f \in job'[c].saved \/ Stamping(c, f)' THEN Edited(c, T) ELSE T
  BY <1>1 DEF OnDisk, T
<1>5. CASE Using(c, f) /\ Truncate(c)
  <2>1. disk'[f] = <<>> /\ pc'[c] = "put" /\ job' = job
    BY <1>5 DEF Truncate, Written, Using, Goto, Types, TypeOK
  <2>2. Using(c, f)'
    BY <1>5, <2>1 DEF Using, Depth, File, Phase
  <2> QED BY <2>1, <2>2
<1>6. CASE Using(c, f) /\ Put(c)
  <2>1. Using(c, f)' /\ pc'[c] = "stamp" /\ disk'[f] = Edited(c, T)
    BY <1>6, PutTexts DEF T
  <2> QED BY <2>1 DEF Stamping
<1>7. CASE Using(c, f) /\ Stamp(c)
  <2>1. pc[c] = "stamp" /\ pc'[c] = "drop" /\ disk' = disk /\ File(c) = f
    BY <1>7 DEF Stamp, Goto, Types, TypeOK, Using
  <2>2. Stamping(c, f) /\ f \in job'[c].saved
    <3>1. job'[c] = [job[c] EXCEPT !.fb = 0, !.out = <<>>, !.saved = @ \cup {File(c)}]
      BY <1>7 DEF Stamp, SetJob, Types
    <3>2. job'[c].saved = job[c].saved \cup {File(c)}
      BY <3>1, Mine DEF JobType
    <3> QED BY <1>7, <2>1, <3>2 DEF Stamping
  <2> QED BY <1>3, <2>1, <2>2
<1>8. CASE Using(c, f) /\ ~(Truncate(c) \/ Put(c) \/ Stamp(c))
  <2>0. ~OpenFails(c) /\ ~ReadFails(c)
    BY <1>8, ReadsFile DEF Sound
  <2>1. disk' = disk
    BY <1>8, <2>0 DEF Step, Begin, Return, Open, EnsureOpen, DidOpen, Store, Drop, Close, Del, LookInCache,
                Ask, Validate, Delete, Insert, DidChange, Save
  <2>2. pc[c] \notin {"put", "stamp"}
    BY <1>8, <2>0 DEF Step, Begin, Return, Open, EnsureOpen, DidOpen, Store, Drop, Close, Del, LookInCache,
                Ask, Validate, Delete, Insert, DidChange, Save
  <2>3. pc'[c] \notin {"put", "stamp"} /\ job'[c].saved = job[c].saved
    BY <1>2, <1>8
  <2> QED BY <1>3, <2>1, <2>2, <2>3 DEF Stamping
<1>9. CASE ~Using(c, f)
  <2>1. disk'[f] = disk[f]
    BY <1>9, DiskElsewhere
  <2>2. ~Stamping(c, f) /\ (f \in job'[c].saved <=> f \in job[c].saved)
    <3>1. Stamp(c) => File(c) # f
      BY <1>9, DepthBound DEF Using, Stamp
    <3> QED BY <1>2, <1>9, <3>1 DEF Stamping
  <2>3. ASSUME Using(c, f)' PROVE pc'[c] \notin {"put", "stamp"}
    <3>1. Open(c)
      BY <1>9, <2>3, StaysOut
    <3> QED BY <1>2, <3>1 DEF Open, Truncate, Put
  <2> QED BY <1>3, <1>9, <2>1, <2>2, <2>3 DEF Stamping
<1> QED BY <1>5, <1>6, <1>7, <1>8, <1>9

\* A step that asks stays in its phase.
LEMMA PhaseAsked ==
  ASSUME Types, Local, NEW c \in Threads, LookInCache(c) \/ Ask(c)
  PROVE  Doing(c)' = "ask" /\ File(c)' = File(c) /\ job'[c].plan # <<>>
<1>1. /\ job[c].plan # <<>> /\ Doing(c) = "ask" /\ Phase(c) = job[c].plan[1]
      /\ pc[c] \in {"look", "ask"}
  BY Mine DEF LookInCache, Ask, Local, Placed, Lazy
<1>2. ASSUME job'[c].plan = job[c].plan PROVE Doing(c)' = "ask" /\ File(c)' = File(c) /\ job'[c].plan # <<>>
  BY <1>1, <1>2 DEF Doing, File, Phase
<1>3. ASSUME NEW symbols, Located(c, symbols) PROVE job'[c].plan = job[c].plan
  <2>1. PICK why \in {"no", "no symbol"} : job'[c] = [job[c] EXCEPT !.at = symbols, !.failed = why]
    BY <1>3 DEF Located, SetJob, Types
  <2> QED BY <2>1, Mine DEF JobType
<1>4. CASE LookInCache(c)
  <2>1. CASE SetJob(c, [job[c] EXCEPT !.next = "ask"])
    <3>1. job'[c] = [job[c] EXCEPT !.next = "ask"]
      BY <2>1 DEF SetJob, Types
    <3>2. job'[c].plan = job[c].plan
      BY <3>1, Mine DEF JobType
    <3> QED BY <1>2, <3>2
  <2> QED BY <1>2, <1>3, <1>4, <2>1 DEF LookInCache
<1>5. CASE Ask(c)
  <2>1. CASE \E symbols \in [Files -> Nat] :
               (job[c].op = "rename" => symbols[File(c)] = 0) /\ Located(c, symbols)
    BY <1>2, <1>3, <2>1
  <2>2. CASE ~ \E symbols \in [Files -> Nat] :
                 (job[c].op = "rename" => symbols[File(c)] = 0) /\ Located(c, symbols)
    <3> PICK symbols \in [Files -> Nat], plan \in Seq({"ask", "edit"} \X Files) :
          /\ job[c].op = "rename" /\ pc'[c] = "drop"
          /\ job'[c] = [job[c] EXCEPT !.at = symbols, !.plan = plan]
          /\ plan # <<>> /\ Head(plan) = job[c].plan[1] /\ plan[1] = job[c].plan[1]
          /\ \A i \in 2 .. Len(plan) : plan[i][1] = "edit" /\ symbols[plan[i][2]] >= 1
      BY <1>5, <2>2, AskCases
    <3>1. job'[c].plan = plan
      BY Mine DEF JobType
    <3> QED BY <1>1, <3>1 DEF Doing, File, Phase
  <2> QED BY <2>1, <2>2
<1> QED BY <1>4, <1>5

\* An edit that nothing interferes with finds its place in the text.
LEMMA OwnUnfailed ==
  ASSUME Types, Local, Table, FailedLeave, Courses, NEW f \in Files, Sound(f), Calm(f)', Raced',
         NEW c \in Threads, Step(c), ~Begin(c), ~Return(c), Unfailed(c, f)
  PROVE  Unfailed(c, f)'
<1> SUFFICES ASSUME Using(c, f)', Doing(c)' = "edit", Leaves(c)', job'[c].failed # "no" PROVE FALSE
  BY DEF Unfailed
<1>1. File(c)' = f /\ Depth(c)' # 0 /\ pc'[c] \in {"drop", "close", "del"}
  BY DEF Using, Leaves
<1>2. job'[c].failed \notin {"assertion", "key"}
  BY <1>1 DEF Raced, Calm
<1>3. CASE LookInCache(c) \/ Ask(c)
  <2>1. Doing(c)' = "ask"
    BY <1>3, PhaseAsked
  <2> QED BY <2>1
<1>4. CASE Stamp(c)
  <2>1. job[c].failed = "no"
    BY <1>4 DEF Stamp, FailedLeave
  <2>2. job'[c] = [job[c] EXCEPT !.fb = 0, !.out = <<>>, !.saved = @ \cup {File(c)}]
    BY <1>4 DEF Stamp, SetJob, Types
  <2> QED BY <2>1, <2>2, Mine DEF JobType
<1>5. CASE GoesOn(c)
  <2>1. Leaves(c) /\ Doing(c) = "edit" /\ File(c) = f /\ job[c].failed # "no"
    <3>1. job'[c].plan = job[c].plan /\ job'[c].failed = job[c].failed
      BY <1>5 DEF GoesOn, SameAim
    <3>2. Leaves(c) \/ pc[c] = "did insert"
      BY <1>5 DEF GoesOn
    <3> QED BY <1>1, <3>1, <3>2 DEF FailedLeave, Doing, File, Phase
  <2>2. Using(c, f)
    BY <2>1, DepthBound DEF Using, Leaves
  <2> QED BY <2>1, <2>2 DEF Unfailed
<1>6. CASE Fails(c)
  <2>0. ASSUME OpenFails(c) \/ ReadFails(c) PROVE FALSE
    <3>1. Depth(c) # 0
      BY <2>0, DepthBound DEF OpenFails, ReadFails
    <3>2. Using(c, f)
      BY <1>1, <1>6, <3>1 DEF Using, File, Phase, Fails, SameAim
    <3> QED BY <2>0, <3>2, ReadsFile DEF Sound
  <2>1. job'[c].failed = "location" /\ pc[c] \in {"delete", "insert"} /\ job'[c].plan = job[c].plan
    BY <1>1, <1>2, <1>6, <2>0 DEF Fails, SameAim
  <2>2. Using(c, f)
    <3>1. Depth(c) # 0
      BY <2>1, DepthBound
    <3> QED BY <1>1, <2>1, <3>1 DEF Using, File, Phase
  <2>3. Delete(c) \/ Insert(c)
    BY <2>0, <2>1 DEF Step, Begin, Return, Open, EnsureOpen, DidOpen, Store, Drop, Close, Del, LookInCache,
                Ask, Validate, DidChange, Save, Truncate, Put, Stamp
  <2>4. pc'[c] \in {"did delete", "did insert"}
    BY <2>2, <2>3, ChangeDue
  <2> QED BY <1>1, <2>4
<1>7. CASE Proceeds(c)
  BY <1>7 DEF Proceeds
<1> QED BY <1>3, <1>4, <1>5, <1>6, <1>7, Moves

\* An insertion past the end is saved by the call that made it.
LEMMA OwnApart ==
  ASSUME Types, Local, Table, FailedLeave, Courses, NEW f \in Files, Sound(f), Calm(f)',
         NEW c \in Threads, Step(c), ~Begin(c), ~Return(c), ApartLate(c, f),
         (Using(c, f) /\ pc[c] = "close" => Depth(c) = 1)'
  PROVE  ApartLate(c, f)'
<1> SUFFICES ASSUME Apart(f)'
             PROVE  f \in job'[c].saved \/ (Unsaved(c, f)' /\ Entered(c)') \/ Stamping(c, f)'
  BY DEF ApartLate
<1>1. job'[c].saved = job[c].saved \/ (Stamp(c) /\ job'[c].saved = job[c].saved \cup {File(c)})
  BY SavedStays
<1>2. CASE f \in job[c].saved
  BY <1>1, <1>2
<1>3. CASE Unsaved(c, f) /\ Entered(c)
  <2>1. Using(c, f) /\ ~Delete(c) /\ ~Insert(c)
    BY <1>3 DEF Unsaved, Entered, Delete, Insert
  <2>2. CASE Put(c)
    BY <2>1, <2>2, PutTexts DEF Stamping
  <2>3. CASE ~Put(c)
    <3>1. pc'[c] = "close" => Depth(c)' = 1
      BY <1>3, UnsavedCloses
    <3> QED BY <1>3, <2>1, <2>3, <3>1, UnsavedStays DEF Sound
  <2> QED BY <2>2, <2>3
<1>4. CASE Stamping(c, f)
  <2>0. ~OpenFails(c) /\ ~ReadFails(c)
    BY <1>4, ReadsFile DEF Sound, Stamping
  <2>1. Stamp(c) /\ File(c) = f
    BY <1>4, <2>0 DEF Stamping, Using, Step, Begin, Return, Open, EnsureOpen, DidOpen, Store, Drop, Close, Del, LookInCache,
                Ask, Validate, Delete, Insert, DidChange, Save, Truncate, Put
  <2>2. job'[c] = [job[c] EXCEPT !.fb = 0, !.out = <<>>, !.saved = @ \cup {File(c)}]
    BY <2>1 DEF Stamp, SetJob, Types
  <2>3. job'[c].saved = job[c].saved \cup {File(c)}
    BY <2>2, Mine DEF JobType
  <2> QED BY <2>1, <2>3
<1>5. CASE ~Apart(f)
  <2>1. (Delete(c) \/ Insert(c)) /\ Using(c, f)
    BY <1>5, ApartBy
  <2>2. pc[c] = "insert"
    BY <1>5, <2>1, ChangeDue DEF Delete, Insert
  <2> QED BY <2>1, <2>2, ChangeDue
<1> QED BY <1>2, <1>3, <1>4, <1>5 DEF ApartLate

\* Where the symbol was is known once it is located in the text that the call found.
LEMMA FileAsFound ==
  ASSUME Types, Local, Courses, NEW f \in Files, Sound(f), NEW c \in Threads, pc[c] \in {"look", "ask"},
         Edits(c), c \in InFlight(f)
  PROVE  /\ disk[f] = job[c].before[f] /\ job[c].saved = {} /\ ~Apart(f)
         /\ \A d \in Threads : ~Unsaved(d, f)
<1>1. job[c].plan # <<>> /\ Doing(c) = "ask" /\ pc[c] # "idle"
  BY DEF Local, Placed, Lazy
<1>2. job[c].saved = {}
  BY <1>1 DEF Courses, Course, Asking
<1>3. OnDisk(c, f) /\ ApartLate(c, f)
  BY DEF Sound, Kept
<1>4. disk[f] = job[c].before[f]
  BY <1>2, <1>3, OnDiskNow
<1>5. \A d \in Threads : ~Unsaved(d, f)
  <2> SUFFICES ASSUME NEW d \in Threads, Unsaved(d, f) PROVE FALSE
    OBVIOUS
  <2>1. d = c
    BY UnsavedAlone DEF Sound
  <2> QED BY <2>1 DEF Unsaved, Removed, Entered
<1>6. ~Apart(f)
  BY <1>2, <1>3, <1>5 DEF ApartLate, Stamping
<1> QED BY <1>2, <1>4, <1>5, <1>6

\* The server, asked then, sees the text that the call found.
LEMMA SeenAsFound ==
  ASSUME Types, Local, Table, Courses, NEW f \in Files, Sound(f), NEW c \in Threads, pc[c] = "ask",
         Edits(c), c \in InFlight(f)
  PROVE  Seen(f) = job[c].before[f]
<1>1. /\ disk[f] = job[c].before[f] /\ ~Apart(f) /\ \A d \in Threads : ~Unsaved(d, f)
  BY FileAsFound
<1>2. CASE ~server[f].open
  BY <1>1, <1>2 DEF Seen
<1>3. CASE server[f].open
  <2>1. PICK d \in Threads : Using(d, f) /\ buffers[Buffer(d)].opened
    BY <1>3, OpenIsUsed DEF Sound
  <2>2. InStep(Buffer(d), f)
    BY <2>1 DEF Sound, Matching
  <2>3. ~Changing(f)
    <3> SUFFICES ASSUME NEW u \in Threads, Using(u, f), Changes(u) PROVE FALSE
      BY DEF Changing
    <3>1. Edits(u) /\ u \in InFlight(f)
      BY ChangesEdit DEF Using
    <3>2. u = c
      BY <3>1 DEF Sound, OneEditor
    <3> QED BY <3>2 DEF Changes
  <2>4. server[f].text = buffers[Buffer(d)].text
    BY <1>1, <1>3, <2>2, <2>3 DEF InStep
  <2>5. buffers[Buffer(d)].text = disk[f]
    BY <1>1, <2>1, <2>2 DEF Sound, Kept, InBuffer, InStep
  <2> QED BY <1>1, <1>3, <2>4, <2>5 DEF Seen
<1> QED BY <1>2, <1>3

\* So does a call that looks in the cache.
LEMMA FreshAsFound ==
  ASSUME Types, Local, Table, Courses, NEW f \in Files, Sound(f), Calm(f)', NEW c \in Threads, LookInCache(c),
         Edits(c), c \in InFlight(f)
  PROVE  File(c) = f /\ Fresh(Buffer(c)).text = job[c].before[f]
<1>1. /\ pc[c] = "look" /\ Depth(c) # 0 /\ Lazy(c) /\ stirred' = Stir(File(c), Truncated(c))
  BY DepthBound DEF LookInCache, Local, Placed
<1>2. File(c) = f
  <2>1. job[c].op \in {"overview", "replace", "before", "after"}
    BY <1>1 DEF Lazy
  <2>2. job[c].op # "rename"
    BY <2>1
  <2>3. job[c].plan # <<>> /\ 1 \in 1 .. Len(job[c].plan) /\ Phase(c) = job[c].plan[1]
    BY <1>1, DepthBound, Mine
  <2>4. File(c) = job[c].file
    BY <2>2, <2>3 DEF Local, Planned, File
  <2> QED BY <2>2, <2>4 DEF InFlight, Touches
<1>3. Using(c, f) /\ Matching(f)
  BY <1>1, <1>2 DEF Using, Sound
<1>4. /\ disk[f] = job[c].before[f] /\ \A d \in Threads : ~Unsaved(d, f)
  BY <1>1, FileAsFound
<1>5. Truncated(c) = {}
  BY <1>1, <1>2, NotStirred
<1>6. /\ buffers[Buffer(c)].read => Fresh(Buffer(c)).text = buffers[Buffer(c)].text
      /\ ~buffers[Buffer(c)].read => Fresh(Buffer(c)).text = disk[buffers[Buffer(c)].file]
  BY <1>1, <1>3, <1>5, ReadAgain
<1>7. buffers[Buffer(c)].file = f
  BY <1>1, <1>2, HeldFile
<1>8. buffers[Buffer(c)].read => buffers[Buffer(c)].text = disk[f]
  BY <1>3, <1>4 DEF Sound, Kept, InBuffer
<1> QED BY <1>2, <1>4, <1>6, <1>7, <1>8

\* A tool that edits one file edits it after asking where the symbol is.
LEMMA PlanToEdit ==
  ASSUME Types, Local, Courses, NEW f \in Files, NEW c \in Threads, pc[c] \in {"look", "ask"},
         Edits(c), c \in InFlight(f), job[c].op # "rename"
  PROVE  Pending(c, f) /\ File(c) = f
<1>1. job[c].plan # <<>> /\ Doing(c) = "ask" /\ pc[c] # "idle"
  BY DEF Local, Placed, Lazy
<1>2. job[c].file = f
  BY DEF InFlight, Touches
<1>3. job[c].plan = Plan(job[c].op, f)
  BY <1>1, <1>2 DEF Courses, Course, Asking
<1>4. job[c].plan = <<<<"ask", f>>, <<"edit", f>>>>
  BY <1>3 DEF Plan, Edits
<1>5. Pending(c, f)
  <2>1. 2 \in 1 .. Len(job[c].plan) /\ job[c].plan[2] = <<"edit", f>>
    BY <1>4
  <2> QED BY <2>1 DEF Pending
<1> QED BY <1>4, <1>5 DEF File, Phase

\* The symbol is located, in the cache or by the server.
LEMMA LocatedFound ==
  ASSUME Types, Local, Courses, NEW f \in Files, NEW c \in Threads, pc[c] \in {"look", "ask"},
         Edits(c), c \in InFlight(f), job[c].op # "rename",
         NEW symbols, Located(c, symbols), symbols[f] = SymbolAt(job[c].before[f])
  PROVE  Found(c, f)'
<1>1. Pending(c, f) /\ File(c) = f
  BY PlanToEdit
<1>2. PICK why \in {"no", "no symbol"} :
        /\ job'[c] = [job[c] EXCEPT !.at = symbols, !.failed = why]
        /\ why = "no" => symbols[f] # 0
  BY <1>1 DEF Located, SetJob, Types
<1>3. /\ job'[c].plan = job[c].plan /\ job'[c].at = symbols /\ job'[c].failed = why
      /\ job'[c].before = job[c].before
  BY <1>2, Mine DEF JobType
<1>4. Pending(c, f)'
  BY <1>1, <1>3 DEF Pending
<1> QED BY <1>2, <1>3, <1>4 DEF Found

\* The server tells where the symbol was when the call began.
LEMMA AskFound ==
  ASSUME Types, Local, Table, Courses, NEW f \in Files, Sound(f), NEW c \in Threads, Ask(c),
         Edits(c), c \in InFlight(f)
  PROVE  Found(c, f)'
<1> DEFINE symbols == [g \in Files |-> IF job[c].op = "rename" \/ g = File(c)
                                         THEN SymbolAt(Seen(g)) ELSE 0]
<1>1. pc[c] = "ask" /\ Seen(f) = job[c].before[f]
  BY SeenAsFound DEF Ask
<1>2. symbols[f] = SymbolAt(job[c].before[f])
  <2>1. job[c].op = "rename" \/ f = File(c)
    BY <1>1, PlanToEdit
  <2> QED BY <1>1, <2>1
<1>3. \/ Located(c, symbols) /\ (job[c].op = "rename" => symbols[File(c)] = 0)
      \/ \E plan \in Seq({"ask", "edit"} \X Files) :
           /\ job[c].op = "rename" /\ pc'[c] = "drop"
           /\ job'[c] = [job[c] EXCEPT !.at = symbols, !.plan = plan]
           /\ plan # <<>> /\ Head(plan) = job[c].plan[1] /\ plan[1] = job[c].plan[1]
           /\ \A i, j \in 1 .. Len(plan) : plan[i] = plan[j] => i = j
           /\ \A g \in Files : symbols[g] # 0 <=>
                                 \E i \in 1 .. Len(plan) : plan[i] = <<"edit", g>>
  BY AskedWhere
<1> HIDE DEF symbols
<1>4. CASE Located(c, symbols) /\ job[c].op # "rename"
  BY <1>1, <1>2, <1>4, LocatedFound
<1>5. CASE Located(c, symbols) /\ job[c].op = "rename" /\ symbols[File(c)] = 0
  <2>1. job'[c] = [job[c] EXCEPT !.at = symbols, !.failed = "no symbol"]
    BY <1>5 DEF Located, SetJob, Types
  <2>2. job'[c].failed = "no symbol"
    BY <2>1, Mine DEF JobType
  <2> QED BY <2>2 DEF Found
<1>6. ASSUME NEW plan \in Seq({"ask", "edit"} \X Files),
             job'[c] = [job[c] EXCEPT !.at = symbols, !.plan = plan],
             \A g \in Files : symbols[g] # 0 <=> \E i \in 1 .. Len(plan) : plan[i] = <<"edit", g>>
      PROVE  Found(c, f)'
  <2>1. job'[c].plan = plan /\ job'[c].at = symbols /\ job'[c].before = job[c].before
    BY <1>6, Mine DEF JobType
  <2>2. Pending(c, f)' <=> symbols[f] # 0
    BY <1>6, <2>1 DEF Pending
  <2> QED BY <1>2, <2>1, <2>2 DEF Found
<1> QED BY <1>3, <1>4, <1>5, <1>6

\* The cache tells it, too.
LEMMA LookFound ==
  ASSUME Types, Local, Table, Courses, NEW f \in Files, Sound(f), Calm(f)', NEW c \in Threads, LookInCache(c),
         Edits(c), c \in InFlight(f)
  PROVE  Found(c, f)'
<1> DEFINE symbols == [g \in Files |-> IF g = File(c) THEN SymbolAt(Fresh(Buffer(c)).text) ELSE 0]
<1>1. pc[c] = "look" /\ File(c) = f /\ Fresh(Buffer(c)).text = job[c].before[f] /\ job[c].op # "rename"
  <2>1. pc[c] = "look" /\ Lazy(c)
    BY DEF LookInCache, Local, Placed
  <2>2. job[c].op # "rename"
    BY <2>1 DEF Lazy
  <2> QED BY <2>1, <2>2, FreshAsFound
<1>2. symbols[f] = SymbolAt(job[c].before[f])
  BY <1>1
<1>3. (SetJob(c, [job[c] EXCEPT !.next = "ask"]) /\ Goto(c, "ensure")) \/ Located(c, symbols)
  BY <1>1 DEF LookInCache
<1> HIDE DEF symbols
<1>4. CASE Located(c, symbols)
  BY <1>1, <1>2, <1>4, LocatedFound
<1>5. CASE SetJob(c, [job[c] EXCEPT !.next = "ask"]) /\ Goto(c, "ensure")
  <2>1. pc'[c] = "ensure"
    BY <1>5 DEF Goto, Types, TypeOK
  <2>2. Doing(c)' = "ask" /\ job'[c].plan # <<>>
    BY PhaseAsked
  <2> QED BY <2>1, <2>2 DEF Found, Leaves
<1> QED BY <1>3, <1>4, <1>5

\* A call remembers where the symbol was until it has saved the file.
LEMMA OwnFound ==
  ASSUME Types, Local, Table, Courses, NEW f \in Files, Sound(f), Calm(f)',
         NEW c \in Threads, Step(c), ~Begin(c), ~Return(c), Edits(c), c \in InFlight(f), Found(c, f)
  PROVE  Found(c, f)'
<1>1. job'[c].before = job[c].before /\ pc[c] # "idle"
  BY AskedStays
<1>2. ASSUME SameAim(c) \/ Stamp(c),
             job'[c].plan = job[c].plan /\ job'[c].at = job[c].at /\ job'[c].failed = job[c].failed,
             job[c].saved \subseteq job'[c].saved,
             Leaves(c)' => Leaves(c) \/ Doing(c) = "edit"
      PROVE  Found(c, f)'
  <2>1. (Pending(c, f)' <=> Pending(c, f)) /\ Doing(c)' = Doing(c)
    BY <1>2 DEF Pending, Doing, Phase
  <2> QED BY <1>1, <1>2, <2>1 DEF Found
<1>3. CASE LookInCache(c)
  BY <1>3, LookFound
<1>4. CASE Ask(c)
  BY <1>4, AskFound
<1>5. CASE Stamp(c)
  <2>1. job'[c] = [job[c] EXCEPT !.fb = 0, !.out = <<>>, !.saved = @ \cup {File(c)}]
    BY <1>5 DEF Stamp, SetJob, Types
  <2>2. /\ job'[c].plan = job[c].plan /\ job'[c].at = job[c].at /\ job'[c].failed = job[c].failed
        /\ job[c].saved \subseteq job'[c].saved
    BY <2>1, Mine DEF JobType
  <2>3. Doing(c) = "edit"
    BY <1>5 DEF Stamp, Local, Placed
  <2> QED BY <1>2, <1>5, <2>2, <2>3
<1>6. CASE GoesOn(c)
  <2>1. SameAim(c) /\ job'[c].failed = job[c].failed
    BY <1>6 DEF GoesOn
  <2>2. Leaves(c)' => Leaves(c) \/ Doing(c) = "edit"
    <3>1. Leaves(c)' => Leaves(c) \/ Changes(c)
      BY <1>6 DEF GoesOn, Changes
    <3> QED BY <3>1, ChangesEdit
  <2> QED BY <1>2, <2>1, <2>2 DEF SameAim
<1>7. CASE Fails(c)
  BY <1>7 DEF Fails, Found
<1>8. CASE Proceeds(c)
  <2> DEFINE plan == job[c].plan
  <2>1. /\ job'[c].plan = Tail(plan) /\ job'[c].at = job[c].at /\ job'[c].saved = job[c].saved
        /\ job[c].failed = "no" /\ Leaves(c) /\ Depth(c) = 1 /\ plan # <<>>
    BY <1>8, DepthBound DEF Proceeds
  <2>2. /\ Head(plan) = plan[1] /\ Len(plan) \in Nat
        /\ \A i \in 1 .. Len(Tail(plan)) : Tail(plan)[i] = plan[i + 1] /\ i + 1 \in 1 .. Len(plan)
        /\ \A i \in 1 .. Len(plan) : i # 1 => i - 1 \in 1 .. Len(Tail(plan)) /\ Tail(plan)[i - 1] = plan[i]
    <3>1. plan \in Seq({"ask", "edit"} \X Files)
      BY Mine
    <3>2. plan # <<>>
      BY <2>1
    <3> HIDE DEF plan
    <3> QED BY <3>1, <3>2
  <2> HIDE DEF plan
  <2>3. Pending(c, f)' => Pending(c, f)
    BY <2>1, <2>2 DEF Pending, plan
  <2>4. Pending(c, f) => Pending(c, f)' \/ f \in job[c].saved
    <3> SUFFICES ASSUME NEW i \in 1 .. Len(plan), plan[i] = <<"edit", f>>
                 PROVE  Pending(c, f)' \/ f \in job[c].saved
      BY DEF Pending, plan
    <3>1. CASE i = 1
      <4>1. Doing(c) = "edit" /\ File(c) = f
        BY <2>2, <3>1 DEF Doing, File, Phase, plan
      <4> QED BY <1>1, <2>1, <4>1 DEF Courses, Course, LeavesSaved
    <3>2. CASE i # 1
      <4>1. i - 1 \in 1 .. Len(Tail(plan)) /\ Tail(plan)[i - 1] = <<"edit", f>>
        BY <2>2, <3>2
      <4> QED BY <2>1, <4>1 DEF Pending
    <3> QED BY <3>1, <3>2
  <2>5. /\ Pending(c, f) => job[c].at[f] = SymbolAt(job[c].before[f]) /\ SymbolAt(job[c].before[f]) # 0
        /\ SymbolAt(job[c].before[f]) # 0 => f \in job[c].saved \/ Pending(c, f)
    BY <2>1 DEF Found
  <2> QED BY <1>1, <2>1, <2>3, <2>4, <2>5 DEF Found
<1> QED BY <1>3, <1>4, <1>5, <1>6, <1>7, <1>8, Moves

-----------------------------------------------------------------------------
(* The files that calls leave.                                               *)

\* A step of a thread, while the file stays undisturbed.
LEMMA ThreadKept ==
  ASSUME Types, Local, Table, FailedLeave, Courses, NEW f \in Files, Sound(f), Calm(f)', Raced',
         NEW c \in Threads, Step(c), (Using(c, f) /\ pc[c] = "close" => Depth(c) = 1)'
  PROVE  Kept(f)'
<1>1. InBuffer(f)'
  BY TextsStep
<1>2. ASSUME NEW e \in Threads, (e \in InFlight(f))', Edits(e)' PROVE Editor(e, f)'
  <2>1. CASE e # c
    BY <1>2, <2>1, OtherEditor DEF Sound
  <2>2. CASE e = c /\ Begin(c)
    BY <1>2, <2>2, BeginEditor
  <2>3. CASE e = c /\ Return(c)
    <3>1. pc'[c] = "idle"
      BY <2>3 DEF Return, Goto, Types, TypeOK
    <3> QED BY <1>2, <2>3, <3>1 DEF InFlight
  <2>4. CASE e = c /\ ~Begin(c) /\ ~Return(c)
    <3>1. job'[c].op = job[c].op /\ job'[c].file = job[c].file /\ pc[c] # "idle"
      BY <2>4, AskedStays
    <3>2. c \in InFlight(f) /\ Edits(c)
      BY <1>2, <2>4, <3>1 DEF InFlight, Touches, Edits
    <3>3. Found(c, f) /\ Unfailed(c, f) /\ ApartLate(c, f) /\ OnDisk(c, f)
      BY <3>2 DEF Sound, Kept
    <3>4. Found(c, f)'
      BY <2>4, <3>2, <3>3, OwnFound
    <3>5. Unfailed(c, f)'
      BY <2>4, <3>3, OwnUnfailed
    <3>6. ApartLate(c, f)'
      BY <2>4, <3>3, OwnApart
    <3>7. OnDisk(c, f)'
      BY <2>4, <3>3, OwnDisk
    <3> QED BY <2>4, <3>4, <3>5, <3>6, <3>7 DEF Editor
  <2> QED BY <2>1, <2>2, <2>3, <2>4
<1> QED BY <1>1, <1>2 DEF Kept, Editor, InFlight

\* Another program writes or removes another file, or one that no call works on.
LEMMA OutsideKept ==
  ASSUME Types, Local, Table, NEW g \in Files, Outside(g), NEW f \in Files, OneEditor(f), Kept(f), Calm(f)'
  PROVE  Kept(f)'
<1>1. /\ UNCHANGED <<server, pc, job>> /\ Interfere(g)
      /\ \/ \E text : Written(g, text)
         \/ UNCHANGED buffers /\ \E text : disk' = [disk EXCEPT ![g] = text]
  BY DEF Outside, WriteOutside, RemoveOutside, RestoreOutside
<1>2. \A d \in Threads : (Using(d, f)' <=> Using(d, f)) /\ Buffer(d)' = Buffer(d)
  BY <1>1 DEF Using, Depth, File, Phase, Buffer
<1>3. CASE f = g
  <2>1. InFlight(f) = {}
    BY <1>1, <1>3 DEF Interfere, Stir, Types, TypeOK, Calm
  <2>2. \A d \in Threads : ~Using(d, f)'
    BY <1>2, <2>1, UsingInFlight
  <2>3. InFlight(f)' = {}
    BY <1>1, <2>1 DEF InFlight, Touches
  <2> QED BY <2>2, <2>3 DEF Kept, InBuffer
<1>4. CASE f # g
  <2>1. disk'[f] = disk[f] /\ stirred'[f] = stirred[f]
    BY <1>1, <1>4 DEF Written, Interfere, Stir, Types, TypeOK
  <2>2. \A d \in Threads : Using(d, f) => buffers'[Buffer(d)] = buffers[Buffer(d)]
    BY <1>1, <1>4, HeldFile DEF Written, Using
  <2>3. \A d \in Threads : /\ Unsaved(d, f)' <=> Unsaved(d, f)
                           /\ Due(d, f)' = Due(d, f)
    <3> SUFFICES ASSUME NEW d \in Threads PROVE (Unsaved(d, f)' <=> Unsaved(d, f)) /\ Due(d, f)' = Due(d, f)
      OBVIOUS
    <3>1. Removed(d)' <=> Removed(d)
      BY <1>1 DEF Removed
    <3>2. Entered(d)' <=> Entered(d)
      BY <1>1 DEF Entered, Doing, Phase, Depth
    <3>3. Due(d, f)' = Due(d, f)
      BY <1>1, <3>1, DueStays DEF SameAim
    <3> QED BY <1>2, <3>1, <3>2, <3>3 DEF Unsaved
  <2>4. InBuffer(f)'
    BY <1>2, <2>1, <2>2, <2>3 DEF Kept, InBuffer
  <2>5. ASSUME NEW e \in Threads, (e \in InFlight(f))', Edits(e)' PROVE Editor(e, f)'
    BY <1>1, <2>1, <2>5, EditorStays DEF Apart
  <2> QED BY <2>4, <2>5 DEF Kept, Editor, InFlight
<1> QED BY <1>3, <1>4

\* Whoever steps, another program included.
LEMMA KeptStep ==
  ASSUME Types, Local, Table, AloneInGaps, FailedLeave, Courses, Noticed, ProtocolInv, MatchingInv, KeptInv, Next,
         Types', Local', Table', AloneInGaps', Raced'
  PROVE  KeptInv'
<1> SUFFICES ASSUME NEW f \in Files, Calm(f)' PROVE Kept(f)'
  BY DEF KeptInv
<1>1. CASE ~Calm(f)
  <2>1. PICK kind : kind \in stirred[f] /\ kind \notin stirred'[f]
    BY <1>1 DEF Calm
  <2>2. PICK c \in Threads : Return(c) /\ InFlight(f) \subseteq {c}
    BY <2>1, KindStays
  <2>3. InFlight(f)' = {}
    BY <2>2, NobodyLeft
  <2>4. (\A d \in Threads : \A g \in Files : Using(d, g) => d \in InFlight(g))'
    BY UsingInFlight, PTL
  <2>5. \A d \in Threads : ~Using(d, f)'
    BY <2>3, <2>4
  <2> QED BY <2>3, <2>5 DEF Kept, InBuffer
<1>2. CASE Calm(f)
  <2>1. Sound(f)
    BY <1>2 DEF AloneInGaps, Noticed, ProtocolInv, MatchingInv, KeptInv, Calm, Sound
  <2>2. CASE \E g \in Files : Outside(g)
    BY <2>1, <2>2, OutsideKept DEF Sound
  <2>3. CASE \E c \in Threads : Step(c)
    <3>1. PICK c \in Threads : Step(c)
      BY <2>3
    <3>2. (\A d \in Threads : \A g \in Files :
             (Exclusive(g) /\ Using(d, g) /\ pc[d] = "close") => Depth(d) = 1)'
      BY CloseAlone, PTL
    <3>3. Exclusive(f)'
      BY DEF AloneInGaps, Calm
    <3>4. (Using(c, f) /\ pc[c] = "close" => Depth(c) = 1)'
      BY <3>2, <3>3
    <3> QED BY <2>1, <3>1, <3>4, ThreadKept
  <2> QED BY <2>2, <2>3 DEF Next
<1> QED BY <1>1, <1>2

\* While nothing but insertions past the end disturbs a file, it is as its editing call found it, or
\* truncated by that call, or has that call's edit, and the buffer holds the next text.
THEOREM KeptHolds == Spec => []KeptInv
<1>1. Init => KeptInv
  <2> SUFFICES ASSUME Init, NEW f \in Files PROVE Kept(f)
    BY DEF KeptInv
  <2>1. \A c \in Threads : Depth(c) = 0 /\ pc[c] = "idle"
    BY DEF Init, NoJob, Depth
  <2> QED BY <2>1 DEF Kept, InBuffer, InFlight, Using
<1>2. /\ SessionsInv /\ AloneInGaps /\ Noticed /\ ProtocolInv /\ MatchingInv /\ KeptInv /\ FailedLeave /\ Courses
      /\ SessionsInv' /\ AloneInGaps' /\ Raced' /\ [Next]_vars
      => KeptInv'
  <2> SUFFICES ASSUME SessionsInv, AloneInGaps, Noticed, ProtocolInv, MatchingInv, KeptInv, FailedLeave, Courses,
                      SessionsInv', AloneInGaps', Raced', [Next]_vars
               PROVE  KeptInv'
    OBVIOUS
  <2>1. CASE Next
    BY <2>1, KeptStep DEF SessionsInv
  <2>2. CASE UNCHANGED vars
    <3>1. UNCHANGED <<disk, buffers, pc, job, stirred>>
      BY <2>2 DEF vars
    <3> SUFFICES ASSUME NEW f \in Files, Calm(f), Kept(f), OneEditor(f) PROVE Kept(f)'
      BY <3>1 DEF KeptInv, Calm, ProtocolInv
    <3>2. \A d \in Threads : /\ (Using(d, f)' <=> Using(d, f)) /\ Buffer(d)' = Buffer(d)
                             /\ (Unsaved(d, f)' <=> Unsaved(d, f)) /\ Due(d, f)' = Due(d, f)
      BY <3>1 DEF Using, Depth, File, Phase, Buffer, Unsaved, Removed, Entered, Doing, Due, Place, NewLine, Edited
    <3>3. InBuffer(f)'
      BY <3>1, <3>2 DEF Kept, InBuffer
    <3>4. ASSUME NEW e \in Threads, (e \in InFlight(f))', Edits(e)' PROVE Editor(e, f)'
      BY <3>1, <3>4, EditorStays DEF Apart, SessionsInv
    <3> QED BY <3>3, <3>4 DEF Kept, Editor, InFlight
  <2> QED BY <2>1, <2>2
<1> QED BY <1>1, <1>2, OrderKept, MatchingKept, RacesKept, CoursesKept, PTL DEF Spec

\* A call was asked to work on a file of the project.
Asked == \A c \in Threads : pc[c] # "idle" => job[c].file \in Files

\* So for every call, from its beginning to its end.
LEMMA AskedKept == Spec => []Asked
<1>1. Init => Asked
  BY DEF Init, Asked
<1>2. SessionsInv /\ Asked /\ [Next]_vars => Asked'
  <2> SUFFICES ASSUME SessionsInv, Asked, [Next]_vars, NEW c \in Threads, pc'[c] # "idle"
               PROVE  job'[c].file \in Files
    BY DEF Asked
  <2>1. Types /\ Local
    BY DEF SessionsInv
  <2>2. ASSUME pc'[c] = pc[c], job'[c] = job[c] PROVE job'[c].file \in Files
    BY <2>2 DEF Asked
  <2>3. CASE UNCHANGED vars \/ \E f \in Files : Outside(f)
    BY <2>2, <2>3 DEF vars, Outside, WriteOutside, RemoveOutside, RestoreOutside
  <2>4. ASSUME NEW d \in Threads, Step(d), d # c PROVE job'[c].file \in Files
    BY <2>1, <2>2, <2>4, OthersStay
  <2>5. ASSUME Begin(c) PROVE job'[c].file \in Files
    <3> PICK op \in Ops, f \in Files :
          SetJob(c, [NoJob EXCEPT !.op = op, !.n = effort', !.file = f, !.plan = Plan(op, f), !.before = disk])
      BY <2>5 DEF Begin
    <3> QED BY <2>1 DEF SetJob, Types, NoJob
  <2>6. ~Return(c)
    BY <2>1 DEF Return, Goto, Types, TypeOK
  <2>7. ASSUME Step(c), ~Begin(c) PROVE job'[c].file \in Files
    BY <2>1, <2>6, <2>7, AskedStays DEF Asked
  <2> QED BY <2>3, <2>4, <2>5, <2>7 DEF Next
<1> QED BY <1>1, <1>2, TableKept, PTL DEF Spec

\* A call that ends has changed the files that it has saved, in the place of the symbol
\* and nowhere else, and if it succeeds it has saved every file that has the symbol,
\* while nothing but insertions past the end disturbs the file.
THEOREM EditsSaved == Spec => []EditsAreSaved
<1>1. SessionsInv /\ Courses /\ Asked /\ KeptInv => EditsAreSaved
  <2> SUFFICES ASSUME SessionsInv, Courses, Asked, KeptInv, NEW c \in Threads, pc[c] = "return", Edits(c),
                      NEW f \in Touches(c), stirred[f] \subseteq {"end"}
               PROVE  /\ disk[f] = IF f \in job[c].saved THEN Edited(c, job[c].before[f])
                                                         ELSE job[c].before[f]
                      /\ (job[c].failed = "no" /\ SymbolAt(job[c].before[f]) # 0) => f \in job[c].saved
    BY DEF EditsAreSaved
  <2>1. Depth(c) = 0 /\ Types /\ Local
    BY DEF SessionsInv, Local, Placed
  <2>2. f \in Files
    <3>1. job[c].file \in Files
      BY DEF Asked
    <3> QED BY <3>1 DEF Touches
  <2>3. c \in InFlight(f) /\ Calm(f)
    BY <2>2 DEF InFlight, Calm
  <2>4. Found(c, f) /\ OnDisk(c, f)
    BY <2>2, <2>3 DEF KeptInv, Kept
  <2>5. ~Using(c, f) /\ ~Stamping(c, f)
    BY <2>1 DEF Using, Stamping
  <2>6. (job[c].failed = "no" /\ SymbolAt(job[c].before[f]) # 0) => f \in job[c].saved
    <3>1. job[c].failed = "no" => job[c].plan = <<>>
      BY DEF Courses, Course, Through
    <3>2. job[c].plan = <<>> => ~Pending(c, f)
      BY DEF Pending
    <3> QED BY <2>4, <3>1, <3>2 DEF Found
  <2> QED BY <2>4, <2>5, <2>6 DEF OnDisk
<1> QED BY <1>1, AskedKept, TableKept, CoursesKept, KeptHolds, PTL

\* A call fails on the buffer table only after an overlap in a gap, and on a position
\* beyond the end of the text only after some interference.
THEOREM FailuresRaced == Spec => []FailuresAreRaced
<1>1. SessionsInv /\ Courses /\ KeptInv /\ TableFailuresAreRaced => FailuresAreRaced
  <2> SUFFICES ASSUME SessionsInv, Courses, KeptInv, NEW c \in Threads, pc[c] = "drop",
                      job[c].failed = "location", stirred[File(c)] \ {"end"} = {}
               PROVE  FALSE
    BY DEF FailuresAreRaced
  <2>1. Types /\ Local /\ Depth(c) # 0 /\ File(c) \in Files
    BY DepthBound DEF SessionsInv
  <2>2. Leaves(c) /\ Doing(c) = "edit" /\ Using(c, File(c)) /\ Calm(File(c))
    BY <2>1 DEF Leaves, Courses, Course, MissedPlace, Using, Calm
  <2>3. Edits(c)
    <3>1. 1 \in 1 .. Len(job[c].plan) /\ Phase(c) = job[c].plan[1]
      BY <2>1, DepthBound, Mine
    <3> QED BY <2>1, <2>2, <3>1 DEF Local, Planned, Doing
  <2>4. c \in InFlight(File(c))
    BY <2>1, <2>2, UsingInFlight
  <2>5. Unfailed(c, File(c))
    BY <2>1, <2>2, <2>3, <2>4 DEF KeptInv, Kept
  <2> QED BY <2>2, <2>5 DEF Unfailed
<1> QED BY <1>1, TableKept, CoursesKept, KeptHolds, TableFailuresRaced, PTL
=============================================================================
