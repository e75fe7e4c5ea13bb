--------------------------- MODULE DocumentsProofs ---------------------------
(***************************************************************************)
(* Theorems about Documents, for any number of threads, texts, changes and *)
(* publications: type correctness, that the cache entries and the symbols  *)
(* returned are about the text of the file, and that the diagnostics       *)
(* returned are those of a text the server had during the call.            *)
(***************************************************************************)
EXTENDS Documents, FiniteSetTheorems, TLAPS

-----------------------------------------------------------------------------
(* Types.                                                                    *)

Text == Texts \cup {NoText}
BufferType == [refs : Nat, text : Text, hash : Text, newer : BOOLEAN, opened : BOOLEAN]
ServerType == [open : BOOLEAN, text : Text]
EntryType == [hash : Text, of : Text, lines : Text, made : 0 .. 2, doubt : BOOLEAN]
StoredType == [version : 0 .. 2, entry : EntryType]
PublishedType == [generation : Nat, of : Faulty \cup {Clean}]
JobType == [kind : {"none", "symbols", "diagnostics"}, found : Text, lines : Text, after : Nat,
            doubt : BOOLEAN, seen : SUBSET Text, late : BOOLEAN, timedOut : BOOLEAN]

\* The steps of each kind of call.
StepsOf(kind) ==
  CASE kind = "none" -> {"idle"}
    [] kind = "symbols" -> {"open", "look high", "look raw", "ask", "store", "convert", "keep",
                            "close"}
    [] kind = "diagnostics" -> {"generation", "open", "pull", "wait", "renew", "cached", "close"}
Places == StepsOf("none") \cup StepsOf("symbols") \cup StepsOf("diagnostics")

\* What the calls and the server keep, and what there is of the document.
StateType ==
  /\ disk \in Texts /\ buffer \in BufferType /\ server \in ServerType
  /\ drifted \in BOOLEAN /\ effort \in Nat
CachesType ==
  /\ raw \in EntryType /\ high \in EntryType /\ modified \subseteq {"raw", "high"}
  /\ stored \in [{"raw", "high"} -> StoredType] /\ version \in {1, 2}
PublishedOK == pipe \in Seq(Faulty \cup {Clean}) /\ published \in PublishedType
CallsType ==
  /\ pc \in [Threads -> Places] /\ job \in [Threads -> JobType]
  /\ \A c \in Threads : pc[c] \in StepsOf(job[c].kind)

Types == StateType /\ CachesType /\ PublishedOK /\ CallsType

-----------------------------------------------------------------------------
(* The buffer.                                                               *)

\* The calls in a with-block of open_file.
Holders == {c \in Threads : pc[c] \notin {"idle", "generation", "open"}}

\* A buffer's hash is that of its text, and while no other program has written the file
\* the text is the file's.
Known(b) ==
  /\ b.hash # NoText => b.hash = b.text
  /\ ~drifted => b.text \in {NoText, disk} /\ ~b.newer

\* The buffer counts its users, is opened in the server when the document is, and then
\* both have the text of the file unless another program has written it.
BufferInv ==
  /\ buffer.refs = Cardinality(Holders)
  /\ buffer.refs = 0 => buffer = Unopened
  /\ server.open = buffer.opened
  /\ Known(buffer)
  /\ (~drifted /\ buffer.opened) => buffer.text = disk /\ server.text = disk

-----------------------------------------------------------------------------
(* The caches and the calls.                                                 *)

RawOK(entry, v) ==
  /\ entry # NoEntry => entry.of # Nothing /\ entry.made = v
  /\ (entry # NoEntry /\ ~entry.doubt) => entry.of = entry.hash
HighOK(entry) ==
  (entry # NoEntry /\ ~entry.doubt) =>
    entry.of \in {entry.hash, Nothing} /\ entry.lines = entry.hash

\* The entries are truthful, those in the files as well.
CacheInv ==
  /\ RawOK(raw, version) /\ HighOK(high)
  /\ stored["raw"].version # 0 => RawOK(stored["raw"].entry, stored["raw"].version)
  /\ stored["high"].version # 0 => HighOK(stored["high"].entry)

\* What a symbol request knows: from the response on, that it is about the text of the
\* file, and from the conversion on that the lines are.
SymbolsKnown(c) ==
  job[c].kind = "symbols" =>
    /\ pc[c] = "ask" => buffer.opened
    /\ ~Doubtful(c) =>
         /\ pc[c] \in {"store", "convert", "keep", "close"} => job[c].found \in {Nothing, disk}
         /\ pc[c] = "keep" => job[c].lines = disk
         /\ (pc[c] = "close" /\ job[c].found # Nothing) => job[c].lines = disk

\* What a request for diagnostics knows: that the server's text, the publications that
\* are on their way and the last one, if it is newer, are about texts it has seen.
DiagnosticsKnown(c) ==
  (job[c].kind = "diagnostics" /\ pc[c] # "generation") =>
    /\ server.text \in job[c].seen \cup {NoText}
    /\ ~job[c].late =>
         /\ pipe \in Seq(job[c].seen \cup {Clean})
         /\ published.generation > job[c].after => published.of \in job[c].seen \cup {Clean}
    /\ pc[c] = "cached" => job[c].timedOut
    /\ (pc[c] = "close" /\ ~job[c].timedOut /\ ~job[c].late) =>
         job[c].found \in job[c].seen \cup {Clean}

CallInv == \A c \in Threads : SymbolsKnown(c) /\ DiagnosticsKnown(c)

DocInv == Types /\ BufferInv /\ CacheInv /\ CallInv

-----------------------------------------------------------------------------
(* The operations of the buffer.                                             *)

\* Reading the contents gives a text, the file's unless another program has written it.
LEMMA FreshKnown ==
  ASSUME StateType, NEW b \in BufferType, Known(b)
  PROVE  /\ Fresh(b) \in BufferType /\ Known(Fresh(b))
         /\ Fresh(b).refs = b.refs /\ Fresh(b).opened = b.opened
         /\ Fresh(b).text \in Texts
         /\ ~drifted => Fresh(b).text = disk
         /\ (b.text # NoText /\ ~drifted) => Fresh(b) = b
<1> USE DEF StateType, BufferType, Known, Text
<1>1. NoText \notin Texts /\ NoText \in Text
  BY TextsAssumption DEF NoText
<1>2. CASE b.text = NoText \/ b.newer
  <2>1. Fresh(b) = [b EXCEPT !.text = disk, !.hash = NoText, !.newer = FALSE]
    BY <1>2 DEF Fresh
  <2> QED BY <1>1, <1>2, <2>1
<1>3. CASE ~(b.text = NoText \/ b.newer)
  <2>1. Fresh(b) = b
    BY <1>3 DEF Fresh
  <2> QED BY <1>1, <1>3, <2>1
<1> QED BY <1>2, <1>3

\* The hash is that of the buffer's text.
LEMMA HashedKnown ==
  ASSUME StateType, NEW b \in BufferType, Known(b)
  PROVE  /\ Hashed(b) \in BufferType /\ Known(Hashed(b))
         /\ Hashed(b).refs = b.refs /\ Hashed(b).opened = b.opened
         /\ Hashed(b).hash \in Texts /\ Hashed(b).text = Hashed(b).hash
         /\ ~drifted => Hashed(b).hash = disk
         /\ (b.text # NoText /\ ~drifted) => Hashed(b).text = b.text
<1> DEFINE r == Fresh(b)
<1>1. /\ r \in BufferType /\ Known(r) /\ r.refs = b.refs /\ r.opened = b.opened
      /\ r.text \in Texts /\ (~drifted => r.text = disk)
      /\ (b.text # NoText /\ ~drifted) => r = b
  BY FreshKnown
<1>2. NoText \notin Texts
  BY TextsAssumption DEF NoText
<1> HIDE DEF r
<1>3. CASE b.hash = NoText
  <2>1. Hashed(b) = [r EXCEPT !.hash = r.text]
    BY <1>3 DEF Hashed, r
  <2> QED BY <1>1, <2>1 DEF BufferType, Known, Text
<1>4. CASE b.hash # NoText
  <2>1. Hashed(b) = b
    BY <1>4 DEF Hashed
  <2> QED BY <1>2, <1>4, <2>1 DEF BufferType, Known, Text, StateType
<1> QED BY <1>3, <1>4

\* Then the buffer and the document are open, with one text.
LEMMA EnsuredKnown ==
  ASSUME StateType, NEW b \in BufferType, Known(b), server.open = b.opened,
         (~drifted /\ b.opened) => b.text = disk /\ server.text = disk
  PROVE  /\ Ensured(b) \in BufferType /\ Known(Ensured(b)) /\ Told(b) \in ServerType
         /\ Ensured(b).refs = b.refs /\ Ensured(b).opened /\ Told(b).open
         /\ ~drifted => Ensured(b).text = disk /\ Told(b).text = disk
<1> DEFINE r == Fresh(b)
<1>1. /\ r \in BufferType /\ Known(r) /\ r.refs = b.refs /\ r.opened = b.opened
      /\ r.text \in Texts /\ (~drifted => r.text = disk)
  BY FreshKnown
<1> HIDE DEF r
<1>2. CASE b.opened
  BY <1>2 DEF Ensured, Told, StateType, ServerType
<1>3. CASE ~b.opened
  <2>1. Ensured(b) = [r EXCEPT !.opened = TRUE] /\ Told(b) = [open |-> TRUE, text |-> r.text]
    BY <1>3 DEF Ensured, Told, r
  <2>2. [r EXCEPT !.opened = TRUE] \in BufferType
    BY <1>1 DEF BufferType
  <2>3. /\ Ensured(b).refs = r.refs /\ Ensured(b).text = r.text /\ Ensured(b).hash = r.hash
        /\ Ensured(b).newer = r.newer /\ Ensured(b).opened
    BY <1>1, <2>1 DEF BufferType
  <2>4. Known(Ensured(b))
    BY <1>1, <2>3 DEF Known
  <2>5. Told(b) \in ServerType /\ Told(b).open /\ Told(b).text = r.text
    BY <1>1, <2>1 DEF ServerType, Text
  <2> QED BY <1>1, <2>1, <2>2, <2>3, <2>4, <2>5
<1> QED BY <1>2, <1>3 DEF BufferType

\* The users are finitely many; a single one is the last.
LEMMA HoldersFinite ==
  /\ IsFiniteSet(Holders) /\ Cardinality(Holders) \in 0 .. Cardinality(Threads)
  /\ Cardinality(Threads) \in Nat
BY FS_Subset, FS_CardinalityType, ThreadsAssumption DEF Holders

LEMMA LastOut ==
  ASSUME BufferInv, NEW c \in Holders
  PROVE  /\ buffer.refs # 0
         /\ buffer.refs = 1 => Holders = {c}
<1>1. Cardinality(Holders) # 0
  BY HoldersFinite, FS_EmptySet
<1>2. Cardinality(Holders) = 1 => \E x : Holders = {x}
  BY HoldersFinite, FS_Singleton
<1> QED BY <1>1, <1>2 DEF BufferInv

-----------------------------------------------------------------------------
(* The steps of a call, as the other calls see them.                         *)

\* The call of c goes to a step with the locals j.  When the server's text changes, and is
\* not gone, the calls have seen it.
Advances(c, j, step) ==
  /\ pc' = [pc EXCEPT ![c] = step]
  /\ \/ job' = [job EXCEPT ![c] = j] /\ server'.text \in {server.text, NoText}
     \/ job' = Seen([job EXCEPT ![c] = j])

\* The locals of a call but the texts it has seen.
Alike(k, j) ==
  /\ k.kind = j.kind /\ k.found = j.found /\ k.lines = j.lines /\ k.after = j.after
  /\ k.doubt = j.doubt /\ k.late = j.late /\ k.timedOut = j.timedOut

\* What Seen does to the locals of a call.
LEMMA SeenJob ==
  ASSUME CallsType, server' \in ServerType, NEW j \in JobType
  PROVE  /\ [j EXCEPT !.seen = @ \cup {server'.text}] \in JobType
         /\ [j EXCEPT !.seen = @ \cup {server'.text}].seen = j.seen \cup {server'.text}
         /\ Alike([j EXCEPT !.seen = @ \cup {server'.text}], j)
BY DEF JobType, ServerType, Alike

\* The calls' types, and the locals of the call itself.
LEMMA CallsAdvance ==
  ASSUME CallsType, server' \in ServerType, NEW c \in Threads, NEW j \in JobType,
         NEW step \in StepsOf(j.kind), Advances(c, j, step)
  PROVE  /\ CallsType' /\ pc'[c] = step
         /\ job'[c] \in {j, [j EXCEPT !.seen = @ \cup {server'.text}]}
         /\ \A d \in Threads \ {c} :
              /\ pc'[d] = pc[d]
              /\ job'[d] \in {job[d], [job[d] EXCEPT !.seen = @ \cup {server'.text}]}
              /\ \/ pc[d] = "idle" \/ server'.text \in {server.text, NoText}
                 \/ job'[d] = [job[d] EXCEPT !.seen = @ \cup {server'.text}]
<1> USE DEF CallsType
<1>1. pc' = [pc EXCEPT ![c] = step]
  BY DEF Advances
<1>2. job' = [d \in Threads |-> job'[d]]
      /\ job'[c] \in {j, [j EXCEPT !.seen = @ \cup {server'.text}]}
      /\ \A d \in Threads \ {c} :
           /\ job'[d] \in {job[d], [job[d] EXCEPT !.seen = @ \cup {server'.text}]}
           /\ \/ pc[d] = "idle" \/ server'.text \in {server.text, NoText}
              \/ job'[d] = [job[d] EXCEPT !.seen = @ \cup {server'.text}]
  <2>1. CASE job' = [job EXCEPT ![c] = j] /\ server'.text \in {server.text, NoText}
    BY <2>1
  <2>2. CASE job' = Seen([job EXCEPT ![c] = j])
    BY <2>2 DEF Seen
  <2> QED BY <2>1, <2>2 DEF Advances
<1>3. ASSUME NEW d \in Threads
      PROVE  job'[d] \in JobType /\ job'[d].kind = IF d = c THEN j.kind ELSE job[d].kind
  <2>1. CASE d = c
    BY <1>2, <2>1, SeenJob DEF Alike
  <2>2. CASE d # c
    BY <1>2, <2>2, SeenJob, ZenonT(30) DEF Alike
  <2> QED BY <2>1, <2>2
<1>4. step \in Places
  BY DEF JobType, Places
<1>5. pc' \in [Threads -> Places] /\ \A d \in Threads : pc'[d] = IF d = c THEN step ELSE pc[d]
  BY <1>1, <1>4
<1>6. job' \in [Threads -> JobType]
  BY <1>2, <1>3
<1> QED BY <1>2, <1>3, <1>5, <1>6

\* The other calls know what they knew, when the file and the publications stay, nobody
\* closes the buffer under them and it is no less reliable.
LEMMA OthersKnow ==
  ASSUME CallsType, CallInv, server' \in ServerType, NEW c \in Threads, NEW j \in JobType,
         NEW step \in StepsOf(j.kind), Advances(c, j, step), disk' = disk,
         Holders \ {c} # {} => drifted' = drifted /\ (buffer.opened => buffer'.opened),
         published' = published, pipe' = pipe \/ pipe' = Append(pipe, Clean),
         NEW d \in Threads \ {c}
  PROVE  SymbolsKnown(d)' /\ DiagnosticsKnown(d)'
<1> DEFINE k == job'[d]
<1>1. /\ pc'[d] = pc[d] /\ pc[d] \in StepsOf(job[d].kind) /\ job[d] \in JobType
      /\ k \in {job[d], [job[d] EXCEPT !.seen = @ \cup {server'.text}]}
      /\ \/ pc[d] = "idle" \/ server'.text \in {server.text, NoText}
         \/ k = [job[d] EXCEPT !.seen = @ \cup {server'.text}]
  BY CallsAdvance DEF CallsType
<1>2. /\ Alike(k, job[d]) /\ job[d].seen \subseteq k.seen
      /\ \/ pc[d] = "idle" \/ server'.text \in {server.text, NoText}
         \/ server'.text \in k.seen
  BY <1>1, SeenJob, ZenonT(30) DEF Alike
<1>3. /\ k.kind = job[d].kind /\ k.found = job[d].found /\ k.lines = job[d].lines
      /\ k.after = job[d].after /\ k.doubt = job[d].doubt /\ k.late = job[d].late
      /\ k.timedOut = job[d].timedOut
  BY <1>2 DEF Alike
<1> HIDE DEF k
<1>4. SymbolsKnown(d)'
  <2>1. CASE d \in Holders
    <3>1. drifted' = drifted /\ (buffer.opened => buffer'.opened)
      BY <2>1
    <3>2. SymbolsKnown(d)
      BY DEF CallInv
    <3>3. k = job'[d]
      BY DEF k
    <3> QED BY <1>1, <1>3, <3>1, <3>2, <3>3 DEF SymbolsKnown, Doubtful
  <2>2. CASE d \notin Holders
    BY <1>1, <2>2 DEF SymbolsKnown, Holders
  <2> QED BY <2>1, <2>2
<1>5. DiagnosticsKnown(d)'
  <2> SUFFICES ASSUME job[d].kind = "diagnostics", pc[d] # "generation"
               PROVE  DiagnosticsKnown(d)'
    BY <1>1, <1>3 DEF DiagnosticsKnown, k
  <2>1. pc[d] # "idle"
    BY <1>1 DEF StepsOf
  <2>2. DiagnosticsKnown(d)
    BY DEF CallInv
  <2>3. server'.text \in k.seen \cup {NoText}
    BY <1>2, <2>1, <2>2 DEF DiagnosticsKnown
  <2>4. ~k.late => /\ pipe' \in Seq(k.seen \cup {Clean})
                   /\ published'.generation > k.after => published'.of \in k.seen \cup {Clean}
    <3>1. ~k.late => pipe \in Seq(k.seen \cup {Clean})
      BY <1>2, <1>3, <2>2 DEF DiagnosticsKnown
    <3> QED BY <1>2, <1>3, <2>2, <3>1 DEF DiagnosticsKnown
  <2> QED BY <1>1, <1>2, <1>3, <2>2, <2>3, <2>4 DEF DiagnosticsKnown, k
<1> QED BY <1>4, <1>5

\* A step of a call preserves the invariant if it preserves the parts about the buffer, the
\* caches and the call itself.
LEMMA Advanced ==
  ASSUME DocInv, NEW c \in Threads, NEW j \in JobType, NEW step \in StepsOf(j.kind),
         Advances(c, j, step), StateType', BufferInv', CachesType', CacheInv', disk' = disk,
         Holders \ {c} # {} => drifted' = drifted /\ (buffer.opened => buffer'.opened),
         published' = published, pipe' = pipe \/ pipe' = Append(pipe, Clean),
         SymbolsKnown(c)', DiagnosticsKnown(c)'
  PROVE  DocInv'
<1> USE DEF DocInv, Types
<1>1. server' \in ServerType
  BY DEF StateType
<1>2. CallsType'
  BY <1>1, CallsAdvance
<1>3. PublishedOK'
  BY DEF PublishedOK
<1>4. \A d \in Threads \ {c} : SymbolsKnown(d)' /\ DiagnosticsKnown(d)'
  BY <1>1, OthersKnow
<1>5. CallInv'
  BY <1>4 DEF CallInv
<1> QED BY <1>2, <1>3, <1>5

\* So does a step of a call in its with-block that reads the buffer at most.
LEMMA HolderStep ==
  ASSUME DocInv, NEW c \in Holders, NEW j \in JobType,
         NEW step \in StepsOf(j.kind) \ {"idle", "generation", "open"}, Advances(c, j, step),
         UNCHANGED <<disk, server, pipe, published, drifted, effort>>,
         buffer' \in {buffer, Fresh(buffer), Hashed(buffer)}, CachesType', CacheInv',
         SymbolsKnown(c)', DiagnosticsKnown(c)'
  PROVE  DocInv'
<1>1. c \in Threads
  BY DEF Holders
<1>2. Holders' = Holders
  <2>1. pc' = [pc EXCEPT ![c] = step] /\ pc \in [Threads -> Places]
    BY DEF Advances, DocInv, Types, CallsType
  <2> QED BY <1>1, <2>1 DEF Holders
<1>3. buffer.refs # 0
  BY LastOut DEF DocInv
<1>4. /\ StateType /\ BufferInv /\ buffer \in BufferType /\ Known(buffer)
  BY DEF DocInv, Types, StateType, BufferInv
<1>5. /\ buffer' \in BufferType /\ Known(buffer')
      /\ buffer'.refs = buffer.refs /\ buffer'.opened = buffer.opened
      /\ (buffer.text = disk /\ ~drifted) => buffer'.text = disk
  <2>1. buffer.text = disk => buffer.text # NoText
    BY <1>4, TextsAssumption DEF StateType, NoText
  <2> QED BY <1>4, <2>1, FreshKnown, HashedKnown
<1>6. StateType'
  BY <1>4, <1>5 DEF StateType
<1>7. Known(buffer)'
  BY <1>5 DEF Known
<1>8. BufferInv'
  BY <1>2, <1>3, <1>4, <1>5, <1>7 DEF BufferInv
<1> QED BY <1>1, <1>5, <1>6, <1>8, Advanced DEF DocInv, Types

\* A call that stays out of the buffer and the caches.
LEMMA BesideStep ==
  ASSUME DocInv, NEW c \in Threads \ Holders, NEW j \in JobType,
         NEW step \in StepsOf(j.kind) \cap {"idle", "generation", "open"}, Advances(c, j, step),
         UNCHANGED <<disk, buffer, server, caches, pipe, published, drifted>>, effort' \in Nat,
         DiagnosticsKnown(c)'
  PROVE  DocInv'
<1>1. pc' = [pc EXCEPT ![c] = step] /\ pc \in [Threads -> Places]
  BY DEF Advances, DocInv, Types, CallsType
<1>2. Holders' = Holders /\ c \notin Holders'
  BY <1>1 DEF Holders
<1>3. StateType' /\ BufferInv'
  BY <1>2 DEF DocInv, Types, StateType, BufferInv, Known
<1>4. CachesType' /\ CacheInv'
  BY DEF DocInv, Types, CachesType, CacheInv, RawOK, HighOK, caches
<1>5. SymbolsKnown(c)'
  BY <1>1 DEF SymbolsKnown
<1> QED BY <1>3, <1>4, <1>5, Advanced

-----------------------------------------------------------------------------
(* The steps of a call.                                                      *)

\* A call begins, and reads the generation if it is about diagnostics.
LEMMA BeginStep ==
  ASSUME DocInv, NEW c \in Threads, Begin(c) \/ ReadGeneration(c)
  PROVE  DocInv'
<1> USE DEF DocInv, Types
<1>1. job[c] \in JobType /\ pc[c] \in StepsOf(job[c].kind) /\ effort \in Nat
  BY DEF CallsType, StateType
<1>2. CASE Begin(c)
  <2>1. PICK kind \in Kinds :
          /\ Set(c, [NoJob EXCEPT !.kind = kind])
          /\ Goto(c, IF kind = "symbols" THEN "open" ELSE "generation")
    BY <1>2 DEF Begin
  <2> DEFINE j == [NoJob EXCEPT !.kind = kind]
             step == IF kind = "symbols" THEN "open" ELSE "generation"
  <2>2. j \in JobType /\ j.kind = kind /\ kind \in {"symbols", "diagnostics"}
    BY KindsAssumption DEF JobType, NoJob, Text, Nothing, NoText
  <2>3. step \in StepsOf(j.kind) \cap {"idle", "generation", "open"}
    BY <2>2 DEF StepsOf
  <2>4. c \notin Holders /\ effort' \in Nat
        /\ UNCHANGED <<disk, buffer, server, caches, pipe, published, drifted>>
    BY <1>1, <1>2 DEF Begin, Holders
  <2>5. Advances(c, j, step)
    BY <2>1, <2>4 DEF Advances, Set, Goto
  <2>6. pc'[c] = step /\ job'[c] = j
    BY <2>1 DEF Set, Goto, CallsType
  <2>7. DiagnosticsKnown(c)'
    BY <2>2, <2>6 DEF DiagnosticsKnown
  <2> HIDE DEF j, step
  <2> QED BY <2>2, <2>3, <2>4, <2>5, <2>7, BesideStep
<1>3. CASE ReadGeneration(c)
  <2> DEFINE j == [job[c] EXCEPT !.after = published.generation, !.late = pipe # <<>>,
                                 !.seen = {server.text}]
  <2>1. /\ j \in JobType /\ j.kind = job[c].kind /\ j.after = published.generation
        /\ j.late = (pipe # <<>>) /\ j.seen = {server.text}
    BY <1>1 DEF JobType, StateType, ServerType, PublishedOK, PublishedType
  <2>2. pc[c] = "generation" /\ job[c].kind = "diagnostics"
    BY <1>1, <1>3 DEF ReadGeneration, StepsOf, JobType
  <2>3. "open" \in StepsOf(j.kind) \cap {"idle", "generation", "open"}
    BY <2>1, <2>2 DEF StepsOf
  <2>4. c \notin Holders /\ effort' \in Nat
        /\ UNCHANGED <<disk, buffer, server, caches, pipe, published, drifted>>
    BY <1>1, <1>3, <2>2 DEF ReadGeneration, Holders
  <2>5. Advances(c, j, "open")
    BY <1>3, <2>4 DEF ReadGeneration, Advances, Set, Goto
  <2>6. pc'[c] = "open" /\ job'[c] = j
    BY <1>3 DEF ReadGeneration, Set, Goto, CallsType
  <2> HIDE DEF j
  <2>7. DiagnosticsKnown(c)'
    <3>1. pipe = <<>> => pipe \in Seq({server.text} \cup {Clean})
      OBVIOUS
    <3>2. published.generation \in Nat
      BY DEF PublishedOK, PublishedType
    <3>3. ~j.late => pipe = <<>>
      BY <2>1
    <3>4. ~j.late => pipe' \in Seq(j.seen \cup {Clean})
      BY <2>1, <2>4, <3>1, <3>3
    <3> QED BY <2>1, <2>4, <2>6, <3>2, <3>4 DEF DiagnosticsKnown
  <2> QED BY <2>1, <2>3, <2>4, <2>5, <2>7, BesideStep
<1> QED BY <1>2, <1>3

\* The look-up in the high-level cache, and what follows a response: the entries are made
\* of one text, and so is what the call returns.
LEMMA SymbolStep ==
  ASSUME DocInv, NEW c \in Threads,
         LookHigh(c) \/ Ask(c) \/ Store(c) \/ Convert(c) \/ Keep(c)
  PROVE  DocInv'
<1> USE DEF DocInv, Types
<1>1. /\ job[c] \in JobType /\ job[c].kind = "symbols" /\ c \in Holders
      /\ buffer \in BufferType /\ Known(buffer) /\ BufferInv /\ SymbolsKnown(c)
      /\ disk \in Texts /\ NoText \notin Texts /\ drifted \in BOOLEAN
  <2>1. pc[c] \in {"look high", "ask", "store", "convert", "keep"}
    BY DEF LookHigh, Ask, Store, Convert, Keep
  <2>2. job[c] \in JobType /\ pc[c] \in StepsOf(job[c].kind)
    BY DEF CallsType
  <2>3. job[c].kind = "symbols"
    BY <2>1, <2>2 DEF StepsOf, JobType
  <2> QED BY <2>1, <2>2, <2>3, TextsAssumption DEF Holders, StateType, BufferInv, CallInv, NoText
<1>2. StateType /\ CachesType /\ CacheInv /\ CallsType
  OBVIOUS
<1>3. /\ \A b \in {Fresh(buffer), Hashed(buffer)} : b \in BufferType
      /\ Fresh(buffer).text \in Texts /\ Hashed(buffer).hash \in Texts
      /\ ~drifted => Fresh(buffer).text = disk /\ Hashed(buffer).hash = disk
  BY <1>1, FreshKnown, HashedKnown
<1>4. ASSUME NEW j \in JobType, NEW step \in {"look raw", "close", "store", "convert", "keep"},
             j.kind = "symbols", Goto(c, step), Set(c, j),
             UNCHANGED <<disk, server, pipe, published, drifted, effort>>,
             buffer' \in {buffer, Fresh(buffer), Hashed(buffer)}, CachesType', CacheInv',
             ~(j.doubt \/ drifted) =>
               /\ step # "look raw" => j.found \in {Nothing, disk}
               /\ step = "keep" => j.lines = disk
               /\ (step = "close" /\ j.found # Nothing) => j.lines = disk
      PROVE  DocInv'
  <2>1. pc'[c] = step /\ job'[c] = j /\ Advances(c, j, step)
    BY <1>1, <1>2, <1>4 DEF Goto, Set, CallsType, Advances
  <2>2. DiagnosticsKnown(c)'
    BY <1>4, <2>1 DEF DiagnosticsKnown
  <2>3. SymbolsKnown(c)'
    BY <1>4, <2>1 DEF SymbolsKnown, Doubtful
  <2>4. step \in StepsOf(j.kind) \ {"idle", "generation", "open"}
    BY <1>4 DEF StepsOf
  <2> QED BY <1>1, <1>4, <2>1, <2>2, <2>3, <2>4, HolderStep
<1>5. job' = job => Set(c, job[c])
  BY <1>1, <1>2 DEF Set, CallsType
<1>6. CASE LookHigh(c)
  <2>1. /\ buffer' \in {buffer, Hashed(buffer)} /\ UNCHANGED caches
        /\ UNCHANGED <<disk, server, pipe, published, drifted, effort>>
    BY <1>6 DEF LookHigh
  <2>2. CachesType' /\ CacheInv'
    BY <1>2, <2>1 DEF CachesType, CacheInv, RawOK, HighOK, caches
  <2>3. CASE IsHit(high, buffer)
    <3> DEFINE j == [job[c] EXCEPT !.found = high.of, !.lines = high.lines,
                                   !.doubt = @ \/ high.doubt]
    <3>1. /\ j \in JobType /\ j.kind = "symbols" /\ j.found = high.of /\ j.lines = high.lines
          /\ j.doubt = (job[c].doubt \/ high.doubt)
      BY <1>1, <1>2 DEF JobType, CachesType, EntryType
    <3>2. Set(c, j) /\ Goto(c, "close")
      BY <1>6, <2>3 DEF LookHigh
    <3>3. ~(j.doubt \/ drifted) => j.found \in {Nothing, disk} /\ j.lines = disk
      BY <1>2, <1>3, <2>3, <3>1 DEF IsHit, CacheInv, HighOK
    <3> HIDE DEF j
    <3> QED BY <1>4, <2>1, <2>2, <3>1, <3>2, <3>3
  <2>4. CASE ~IsHit(high, buffer)
    BY <1>1, <1>4, <1>5, <1>6, <2>1, <2>2, <2>4 DEF LookHigh
  <2> QED BY <2>3, <2>4
<1>7. CASE Ask(c)
  <2>1. UNCHANGED <<disk, buffer, server, caches, pipe, published, drifted, effort>>
    BY <1>7 DEF Ask
  <2>2. CachesType' /\ CacheInv'
    BY <1>2, <2>1 DEF CachesType, CacheInv, RawOK, HighOK, caches
  <2>3. ~drifted => server.text = disk
    BY <1>1, <1>7 DEF Ask, SymbolsKnown, BufferInv
  <2>4. PICK found \in {server.text, Nothing}, step \in {"store", "close"} :
          /\ Set(c, [job[c] EXCEPT !.found = found]) /\ Goto(c, step)
          /\ step = "close" => found = Nothing
    BY <1>7 DEF Ask
  <2> DEFINE j == [job[c] EXCEPT !.found = found]
  <2>5. j \in JobType /\ j.kind = "symbols" /\ j.found = found /\ j.doubt = job[c].doubt
    BY <1>1, <1>2 DEF JobType, StateType, ServerType, Text, Nothing, NoText
  <2> HIDE DEF j
  <2> QED BY <1>4, <2>1, <2>2, <2>3, <2>4, <2>5 DEF j
<1>8. CASE Store(c)
  <2>1. /\ Goto(c, "convert") /\ Set(c, job[c]) /\ pc[c] = "store"
        /\ UNCHANGED <<disk, server, high, stored, version, pipe, published, drifted, effort>>
    BY <1>5, <1>8 DEF Store
  <2>2. buffer' \in {buffer, Hashed(buffer)} /\ CachesType' /\ CacheInv'
    <3>1. CASE job[c].found = Nothing
      <4>1. UNCHANGED <<buffer, raw, modified>>
        BY <1>8, <3>1 DEF Store
      <4> QED BY <1>2, <2>1, <4>1 DEF CachesType, CacheInv, RawOK, HighOK
    <3>2. CASE job[c].found # Nothing
      <4>1. /\ buffer' = Hashed(buffer) /\ modified' = modified \cup {"raw"}
            /\ raw' = [hash |-> Hashed(buffer).hash, of |-> job[c].found, lines |-> NoText,
                       made |-> version, doubt |-> Doubtful(c)]
        BY <1>8, <3>2 DEF Store
      <4>2. Doubtful(c) \in BOOLEAN
        BY <1>1 DEF Doubtful, JobType
      <4>3. CachesType'
        BY <1>1, <1>2, <1>3, <2>1, <4>1, <4>2 DEF CachesType, EntryType, JobType, Text
      <4>4. RawOK(raw, version)'
        <5>1. ~Doubtful(c) => job[c].found = Hashed(buffer).hash
          BY <1>1, <1>3, <2>1, <3>2 DEF SymbolsKnown, Doubtful
        <5> HIDE DEF Doubtful
        <5>2. /\ raw'.of = job[c].found /\ raw'.hash = Hashed(buffer).hash
              /\ raw'.made = version' /\ raw'.doubt = Doubtful(c)
          BY <2>1, <4>1
        <5> QED BY <3>2, <5>1, <5>2 DEF RawOK
      <4> QED BY <1>2, <2>1, <4>1, <4>3, <4>4 DEF CacheInv, HighOK
    <3> QED BY <3>1, <3>2
  <2> QED BY <1>1, <1>4, <2>1, <2>2 DEF SymbolsKnown, Doubtful
<1>9. CASE Convert(c)
  <2>1. /\ buffer' = Fresh(buffer) /\ UNCHANGED caches /\ pc[c] = "convert"
        /\ Goto(c, "keep") /\ Set(c, [job[c] EXCEPT !.lines = Fresh(buffer).text])
        /\ UNCHANGED <<disk, server, pipe, published, drifted, effort>>
    BY <1>9 DEF Convert
  <2>2. CachesType' /\ CacheInv'
    BY <1>2, <2>1 DEF CachesType, CacheInv, RawOK, HighOK, caches
  <2> DEFINE j == [job[c] EXCEPT !.lines = Fresh(buffer).text]
  <2>3. /\ j \in JobType /\ j.kind = "symbols" /\ j.found = job[c].found
        /\ j.doubt = job[c].doubt /\ j.lines = Fresh(buffer).text
    BY <1>1, <1>3 DEF JobType, Text
  <2>4. Set(c, j)
    BY <2>1
  <2> HIDE DEF j
  <2> QED BY <1>1, <1>3, <1>4, <2>1, <2>2, <2>3, <2>4 DEF SymbolsKnown, Doubtful
<1>10. CASE Keep(c)
  <2>1. /\ buffer' = Hashed(buffer) /\ modified' = modified \cup {"high"}
        /\ high' = [hash |-> Hashed(buffer).hash, of |-> job[c].found, lines |-> job[c].lines,
                    made |-> 0, doubt |-> Doubtful(c)]
        /\ Goto(c, "close") /\ Set(c, job[c]) /\ pc[c] = "keep"
        /\ UNCHANGED <<disk, server, raw, stored, version, pipe, published, drifted, effort>>
    BY <1>5, <1>10 DEF Keep
  <2>2. Doubtful(c) \in BOOLEAN
    BY <1>1 DEF Doubtful, JobType
  <2>3. CachesType'
    BY <1>1, <1>2, <1>3, <2>1, <2>2 DEF CachesType, EntryType, JobType, Text
  <2>4. HighOK(high)'
    BY <1>1, <1>3, <2>1 DEF HighOK, SymbolsKnown, Doubtful
  <2>5. CacheInv'
    BY <1>2, <2>1, <2>4 DEF CacheInv, RawOK, HighOK
  <2> QED BY <1>1, <1>4, <2>1, <2>3, <2>5 DEF SymbolsKnown, Doubtful
<1> QED BY <1>6, <1>7, <1>8, <1>9, <1>10

\* The pull request, the wait for publications and its end: what the call returns is of a
\* text that it has seen, or the wait has timed out.
LEMMA DiagnosticsStep ==
  ASSUME DocInv, NEW c \in Threads, Pull(c) \/ Wait(c) \/ Renew(c) \/ TimeOut(c) \/ Cached(c)
  PROVE  DocInv'
<1> USE DEF DocInv, Types
<1>1. /\ job[c] \in JobType /\ job[c].kind = "diagnostics" /\ c \in Holders
      /\ DiagnosticsKnown(c) /\ pc[c] \in {"pull", "wait", "renew", "cached"}
  <2>1. pc[c] \in {"pull", "wait", "renew", "cached"}
    BY DEF Pull, Wait, Renew, TimeOut, Cached
  <2>2. job[c] \in JobType /\ pc[c] \in StepsOf(job[c].kind)
    BY DEF CallsType
  <2>3. job[c].kind = "diagnostics"
    BY <2>1, <2>2 DEF StepsOf, JobType
  <2> QED BY <2>1, <2>2, <2>3 DEF Holders, CallInv
<1>2. /\ UNCHANGED <<disk, buffer, server, caches, pipe, published, drifted, effort>>
      /\ job' = job => Set(c, job[c])
  BY DEF Pull, Wait, Renew, TimeOut, Cached, Set, CallsType
<1>3. CachesType' /\ CacheInv'
  BY <1>2 DEF CachesType, CacheInv, RawOK, HighOK, caches
<1>4. /\ server \in ServerType /\ published \in PublishedType /\ Faulty \subseteq Text
      /\ Clean = 0 /\ NoText = 0 /\ 0 \notin Texts /\ 0 \in Text
  BY TextsAssumption DEF StateType, PublishedOK, Text, Clean, NoText
<1>5. ASSUME NEW j \in JobType, NEW step \in {"wait", "renew", "cached", "close"},
             j.kind = "diagnostics", j.seen = job[c].seen, j.late = job[c].late,
             j.after \in {job[c].after, published.generation},
             Goto(c, step), Set(c, j), step = "cached" => j.timedOut,
             (step = "close" /\ ~j.timedOut /\ ~j.late) => j.found \in j.seen \cup {Clean}
      PROVE  DocInv'
  <2>1. pc'[c] = step /\ job'[c] = j /\ Advances(c, j, step)
    BY <1>1, <1>2, <1>5 DEF Goto, Set, CallsType, Advances
  <2>2. SymbolsKnown(c)'
    BY <1>5, <2>1 DEF SymbolsKnown
  <2>3. published.generation \in Nat
    BY <1>4 DEF PublishedType
  <2>4. DiagnosticsKnown(c)'
    BY <1>1, <1>2, <1>5, <2>1, <2>3 DEF DiagnosticsKnown
  <2>5. step \in StepsOf(j.kind) \ {"idle", "generation", "open"}
    BY <1>5 DEF StepsOf
  <2> QED BY <1>1, <1>2, <1>3, <1>5, <2>1, <2>2, <2>4, <2>5, HolderStep
<1>6. ASSUME NEW found \in Text, Set(c, [job[c] EXCEPT !.found = found]), Goto(c, "close"),
             ~job[c].late /\ ~job[c].timedOut => found \in job[c].seen \cup {Clean}
      PROVE  DocInv'
  <2> DEFINE j == [job[c] EXCEPT !.found = found]
  <2>1. /\ j \in JobType /\ j.kind = "diagnostics" /\ j.found = found /\ j.after = job[c].after
        /\ j.seen = job[c].seen /\ j.late = job[c].late /\ j.timedOut = job[c].timedOut
    BY <1>1 DEF JobType
  <2>2. Set(c, j)
    BY <1>6
  <2> HIDE DEF j
  <2> QED BY <1>5, <1>6, <2>1, <2>2
<1>7. ASSUME Set(c, job[c]), NEW step \in {"wait", "renew"}, Goto(c, step)
      PROVE  DocInv'
  BY <1>1, <1>5, <1>7
<1>8. CASE Pull(c)
  BY <1>1, <1>2, <1>4, <1>6, <1>7, <1>8 DEF Pull, DiagnosticsKnown
<1>9. CASE Wait(c)
  <2>1. ~job[c].late => published.of \in job[c].seen \cup {Clean}
    BY <1>1, <1>9 DEF Wait, Newer, DiagnosticsKnown
  <2>2. published.of \in Text
    BY <1>4 DEF PublishedType
  <2> QED BY <1>2, <1>6, <1>7, <1>9, <2>1, <2>2 DEF Wait
<1>10. ASSUME NEW after \in {job[c].after, published.generation}, NEW timedOut \in BOOLEAN,
              NEW step \in {"wait", "cached"}, step = "cached" => timedOut,
              Set(c, [job[c] EXCEPT !.after = after, !.timedOut = timedOut]), Goto(c, step)
       PROVE  DocInv'
  <2> DEFINE j == [job[c] EXCEPT !.after = after, !.timedOut = timedOut]
  <2>1. /\ j \in JobType /\ j.kind = "diagnostics" /\ j.after = after
        /\ j.seen = job[c].seen /\ j.late = job[c].late /\ j.timedOut = timedOut
    BY <1>1, <1>4 DEF JobType, PublishedType
  <2>2. Set(c, j)
    BY <1>10
  <2> HIDE DEF j
  <2> QED BY <1>5, <1>10, <2>1, <2>2
<1>11. /\ [job[c] EXCEPT !.timedOut = TRUE] =
             [job[c] EXCEPT !.after = job[c].after, !.timedOut = TRUE]
       /\ [job[c] EXCEPT !.after = published.generation] =
             [job[c] EXCEPT !.after = published.generation, !.timedOut = job[c].timedOut]
       /\ job[c].timedOut \in BOOLEAN
  BY <1>1 DEF JobType
<1>12. CASE Renew(c)
  BY <1>10, <1>11, <1>12 DEF Renew
<1>13. CASE TimeOut(c)
  BY <1>10, <1>11, <1>13 DEF TimeOut
<1>14. CASE Cached(c)
  <2>1. job[c].timedOut /\ published.of \in Text
    BY <1>1, <1>4, <1>14 DEF Cached, DiagnosticsKnown, PublishedType
  <2> QED BY <1>6, <1>14, <2>1 DEF Cached
<1> QED BY <1>8, <1>9, <1>12, <1>13, <1>14

\* A call that opens the buffer, or the document in the server, is counted and has seen the
\* text that the server got.
LEMMA OpenStep ==
  ASSUME DocInv, NEW c \in Threads, Open(c) \/ LookRaw(c)
  PROVE  DocInv'
<1> USE DEF DocInv, Types
<1>1. /\ job[c] \in JobType /\ pc[c] \in StepsOf(job[c].kind) /\ SymbolsKnown(c)
      /\ DiagnosticsKnown(c) /\ StateType /\ BufferInv /\ CachesType /\ CacheInv
      /\ pc \in [Threads -> Places] /\ buffer \in BufferType /\ Known(buffer)
      /\ 0 \notin Texts /\ NoText = 0
  BY TextsAssumption DEF CallsType, CallInv, BufferInv, StateType, NoText
<1>2. UNCHANGED <<disk, caches, pipe, published, drifted>> /\ effort' = effort
  BY DEF Open, LookRaw
<1>3. PublishedOK' /\ (published' = published /\ pipe' = pipe)
  BY <1>2 DEF PublishedOK
<1>4. CASE Open(c)
  <2> DEFINE b == [buffer EXCEPT !.refs = @ + 1]
             step == IF job[c].kind = "symbols" THEN "look high" ELSE "pull"
  <2>1. pc[c] = "open" /\ job[c].kind \in {"symbols", "diagnostics"}
    BY <1>1, <1>4 DEF Open, StepsOf, JobType
  <2>2. /\ b \in BufferType /\ Known(b) /\ b.refs = buffer.refs + 1 /\ b.opened = buffer.opened
        /\ b.text = buffer.text
    BY <1>1 DEF BufferType, Known
  <2>3. /\ Goto(c, step) /\ job' = Seen(job)
        /\ IF job[c].kind = "symbols" THEN buffer' = b /\ server' = server
                                      ELSE buffer' = Ensured(b) /\ server' = Told(b)
    BY <1>4, <2>1 DEF Open
  <2> HIDE DEF b
  <2>4. /\ buffer' \in BufferType /\ Known(buffer') /\ buffer'.refs = buffer.refs + 1
        /\ server' \in ServerType /\ server'.open = buffer'.opened
        /\ (~drifted /\ buffer'.opened) => buffer'.text = disk /\ server'.text = disk
        /\ buffer.opened => buffer'.opened
    <3>1. server.open = b.opened /\ ((~drifted /\ b.opened) => b.text = disk /\ server.text = disk)
      BY <1>1, <2>2 DEF BufferInv
    <3>2. CASE job[c].kind = "symbols"
      BY <1>1, <2>2, <2>3, <3>1, <3>2 DEF StateType
    <3>3. CASE job[c].kind # "symbols"
      <4>1. /\ Ensured(b) \in BufferType /\ Known(Ensured(b)) /\ Told(b) \in ServerType
            /\ Ensured(b).refs = b.refs /\ Ensured(b).opened /\ Told(b).open
            /\ ~drifted => Ensured(b).text = disk /\ Told(b).text = disk
        BY <1>1, <2>2, <3>1, EnsuredKnown
      <4>2. buffer' = Ensured(b) /\ server' = Told(b)
        BY <2>3, <3>3
      <4> QED BY <2>2, <4>1, <4>2
    <3> QED BY <3>2, <3>3
  <2>5. step \in StepsOf(job[c].kind) /\ step \notin {"idle", "generation", "open"}
    BY <2>1 DEF StepsOf
  <2> HIDE DEF step
  <2>6. Cardinality(Holders') = Cardinality(Holders) + 1 /\ Cardinality(Holders) \in Nat
    <3>1. Holders' = Holders \cup {c} /\ c \notin Holders
      BY <1>1, <2>1, <2>3, <2>5 DEF Goto, Holders
    <3>2. Cardinality(Threads) \in Nat
      BY HoldersFinite
    <3> QED BY <3>1, <3>2, HoldersFinite, FS_AddElement
  <2>7. Known(buffer)'
    BY <1>2, <2>4 DEF Known
  <2>8. StateType' /\ BufferInv'
    BY <1>1, <1>2, <2>4, <2>6, <2>7 DEF StateType, BufferInv
  <2>9. Advances(c, job[c], step)
    <3>1. job = [job EXCEPT ![c] = job[c]]
      BY DEF CallsType
    <3> QED BY <2>3, <3>1 DEF Advances, Goto
  <2>10. /\ pc'[c] = step
         /\ job'[c] = [job[c] EXCEPT !.seen = @ \cup {server'.text}]
    BY <1>1, <2>1, <2>3 DEF Goto, Seen, CallsType
  <2>11. Alike(job'[c], job[c]) /\ job'[c].seen = job[c].seen \cup {server'.text}
    BY <1>1, <2>4, <2>10, SeenJob
  <2>12. SymbolsKnown(c)'
    <3>1. job[c].kind = "symbols" => step = "look high"
      BY DEF step
    <3> QED BY <2>10, <2>11, <3>1 DEF Alike, SymbolsKnown
  <2>13. DiagnosticsKnown(c)'
    <3>1. step \notin {"cached", "close"}
      BY DEF step
    <3> QED BY <1>1, <1>3, <2>1, <2>10, <2>11, <3>1 DEF Alike, DiagnosticsKnown
  <2>14. CachesType' /\ CacheInv'
    BY <1>1, <1>2 DEF CachesType, CacheInv, RawOK, HighOK, caches
  <2> QED BY <1>1, <1>2, <1>3, <2>4, <2>5, <2>8, <2>9, <2>12, <2>13, <2>14, Advanced
<1>5. CASE LookRaw(c)
  <2> DEFINE b == Ensured(buffer)
  <2>1. pc[c] = "look raw" /\ job[c].kind = "symbols"
    BY <1>1, <1>5 DEF LookRaw, StepsOf, JobType
  <2>2. /\ b \in BufferType /\ Known(b) /\ b.refs = buffer.refs /\ b.opened
        /\ Told(buffer) \in ServerType /\ Told(buffer).open
        /\ ~drifted => b.text = disk /\ Told(buffer).text = disk
    BY <1>1, EnsuredKnown DEF BufferInv
  <2>3. /\ Hashed(b) \in BufferType /\ Known(Hashed(b))
        /\ Hashed(b).refs = b.refs /\ Hashed(b).opened
        /\ ~drifted => Hashed(b).hash = disk /\ Hashed(b).text = disk
    BY <1>1, <2>2, HashedKnown
  <2>4. server' = Told(buffer) /\ buffer' \in {b, Hashed(b)}
    BY <1>5 DEF LookRaw
  <2>5. PICK j \in JobType, step \in {"convert", "ask"} :
          /\ j.kind = "symbols" /\ job' = Seen([job EXCEPT ![c] = j]) /\ Goto(c, step)
          /\ (step = "convert" /\ ~(j.doubt \/ drifted)) => j.found = disk
    <3>1. CASE IsHit(raw, b)
      <4> DEFINE j == [job[c] EXCEPT !.found = raw.of, !.doubt = @ \/ raw.doubt]
      <4>1. /\ job' = Seen([job EXCEPT ![c].found = raw.of, ![c].doubt = @ \/ raw.doubt])
            /\ Goto(c, "convert")
        BY <1>5, <3>1 DEF LookRaw
      <4>2. [job EXCEPT ![c].found = raw.of, ![c].doubt = @ \/ raw.doubt] = [job EXCEPT ![c] = j]
        BY DEF CallsType
      <4>3. j \in JobType /\ j.kind = "symbols" /\ j.found = raw.of
            /\ j.doubt = (job[c].doubt \/ raw.doubt)
        BY <1>1, <2>1 DEF JobType, CachesType, EntryType
      <4>4. ~(raw.doubt \/ drifted) => raw.of = disk
        BY <1>1, <2>3, <3>1 DEF IsHit, CacheInv, RawOK
      <4> HIDE DEF j
      <4> QED BY <4>1, <4>2, <4>3, <4>4
    <3>2. CASE ~IsHit(raw, b)
      <4>1. job' = Seen(job) /\ Goto(c, "ask") /\ job = [job EXCEPT ![c] = job[c]]
        BY <1>5, <3>2 DEF LookRaw, CallsType
      <4> QED BY <1>1, <2>1, <4>1
    <3> QED BY <3>1, <3>2
  <2> HIDE DEF b
  <2>6. /\ buffer' \in BufferType /\ Known(buffer') /\ buffer'.refs = buffer.refs
        /\ server' \in ServerType /\ server'.open /\ buffer'.opened
        /\ ~drifted => buffer'.text = disk /\ server'.text = disk
    BY <2>2, <2>3, <2>4
  <2>7. Holders' = Holders /\ c \in Holders
    BY <1>1, <2>1, <2>5 DEF Holders, Goto
  <2>8. Known(buffer)' /\ buffer.refs # 0
    BY <1>1, <1>2, <2>6, <2>7, LastOut DEF Known
  <2>9. StateType' /\ BufferInv'
    BY <1>1, <1>2, <2>6, <2>7, <2>8 DEF StateType, BufferInv, BufferType, ServerType
  <2>10. Advances(c, j, step) /\ step \in StepsOf(j.kind)
    BY <2>5 DEF Advances, Goto, StepsOf
  <2>11. pc'[c] = step /\ Alike(job'[c], j)
    <3>1. job'[c] \in {j, [j EXCEPT !.seen = @ \cup {server'.text}]} /\ pc'[c] = step
      BY <2>6, <2>10, CallsAdvance
    <3> QED BY <2>6, <3>1, SeenJob DEF Alike
  <2>12. SymbolsKnown(c)'
    BY <1>2, <2>5, <2>6, <2>11 DEF SymbolsKnown, Doubtful, Alike
  <2>13. DiagnosticsKnown(c)'
    BY <2>5, <2>11 DEF DiagnosticsKnown, Alike
  <2>14. CachesType' /\ CacheInv'
    BY <1>1, <1>2 DEF CachesType, CacheInv, RawOK, HighOK, caches
  <2> QED BY <1>2, <1>3, <2>6, <2>9, <2>10, <2>12, <2>13, <2>14, Advanced
<1> QED BY <1>4, <1>5

\* The call is over, and knows nothing.
LEMMA CloseEnd ==
  ASSUME DocInv, NEW c \in Threads, StateType', BufferInv', Goto(c, "idle"), Set(c, NoJob),
         server'.text \in {server.text, NoText}, UNCHANGED <<disk, caches, published>>,
         Holders \ {c} # {} => drifted' = drifted /\ (buffer.opened => buffer'.opened),
         pipe' = pipe \/ pipe' = Append(pipe, Clean)
  PROVE  DocInv'
<1> USE DEF DocInv, Types
<1>1. /\ NoJob \in JobType /\ NoJob.kind = "none" /\ "idle" \in StepsOf(NoJob.kind)
      /\ Advances(c, NoJob, "idle")
  BY DEF NoJob, JobType, Text, Nothing, NoText, StepsOf, Advances, Goto, Set
<1>2. pc'[c] = "idle" /\ job'[c] = NoJob
  BY DEF Goto, Set, CallsType
<1>3. SymbolsKnown(c)' /\ DiagnosticsKnown(c)'
  BY <1>1, <1>2 DEF SymbolsKnown, DiagnosticsKnown
<1>4. CachesType' /\ CacheInv'
  BY DEF CachesType, CacheInv, RawOK, HighOK, caches
<1> QED BY <1>1, <1>3, <1>4, Advanced

\* The last call that leaves takes the buffer with it, so that nobody's buffer is closed.
LEMMA CloseStep == ASSUME DocInv, NEW c \in Threads, Close(c) PROVE DocInv'
<1> USE DEF DocInv, Types
<1>1. /\ StateType /\ BufferInv /\ CachesType /\ CacheInv /\ CallsType
      /\ pc \in [Threads -> Places] /\ buffer \in BufferType /\ Known(buffer)
      /\ buffer.refs \in Nat /\ Unopened \in BufferType /\ drifted \in BOOLEAN
      /\ pc[c] = "close" /\ c \in Holders
  BY DEF CallsType, BufferInv, StateType, BufferType, Unopened, Text, Close, Holders
<1>2. /\ buffer' = Released(buffer) /\ drifted' = (drifted /\ buffer.refs > 1)
      /\ Goto(c, "idle") /\ Set(c, NoJob) /\ UNCHANGED <<disk, caches, published, effort>>
      /\ IF buffer.refs = 1 /\ buffer.opened
           THEN server' = [open |-> FALSE, text |-> NoText] ELSE server' = server
      /\ pipe' = pipe \/ pipe' = Append(pipe, Clean)
  BY DEF Close
<1>3. Holders' = Holders \ {c}
  BY <1>1, <1>2 DEF Goto, Holders
<1>4. Cardinality(Holders') = Cardinality(Holders) - 1 /\ IsFiniteSet(Holders')
  BY <1>1, <1>3, HoldersFinite, FS_RemoveElement
<1>5. buffer.refs # 0 /\ (buffer.refs = 1 => Holders = {c}) /\ buffer.refs = Cardinality(Holders)
  BY <1>1, LastOut DEF BufferInv
<1>6. server' \in ServerType /\ server'.text \in {server.text, NoText}
  <2>1. [open |-> FALSE, text |-> NoText] \in ServerType
    BY DEF ServerType, Text
  <2>2. [open |-> FALSE, text |-> NoText].text = NoText
    OBVIOUS
  <2>3. CASE buffer.refs = 1 /\ buffer.opened
    BY <1>2, <2>1, <2>2, <2>3
  <2>4. CASE ~(buffer.refs = 1 /\ buffer.opened)
    BY <1>1, <1>2, <2>4 DEF StateType
  <2> QED BY <2>3, <2>4
<1>7. CASE buffer.refs = 1
  <2>1. buffer' = Unopened /\ ~server'.open
    BY <1>1, <1>2, <1>7 DEF Released, BufferInv, BufferType, StateType, ServerType
  <2>2. Known(buffer)' /\ ~buffer'.opened /\ buffer'.refs = 0
    BY <2>1 DEF Known, Unopened
  <2>3. StateType' /\ BufferInv'
    <3>1. disk' = disk /\ drifted' \in BOOLEAN /\ effort' = effort
      BY <1>1, <1>2
    <3>2. StateType'
      BY <1>1, <1>6, <2>1, <3>1 DEF StateType
    <3>3. server'.open \in BOOLEAN
      BY <1>6 DEF ServerType
    <3>4. Cardinality(Holders') = 0
      BY <1>4, <1>5, <1>7
    <3>5. buffer'.opened = FALSE
      BY <2>1 DEF Unopened
    <3>6. server'.open = buffer'.opened
      BY <2>1, <3>3, <3>5
    <3> QED BY <2>1, <2>2, <3>2, <3>4, <3>5, <3>6 DEF BufferInv
  <2> QED BY <1>1, <1>2, <1>5, <1>6, <1>7, <2>3, CloseEnd
<1>8. CASE buffer.refs # 1
  <2> DEFINE b == [buffer EXCEPT !.refs = @ - 1]
  <2>1. /\ b \in BufferType /\ b.refs = buffer.refs - 1 /\ b.refs # 0 /\ b.opened = buffer.opened
        /\ b.text = buffer.text /\ b.hash = buffer.hash /\ b.newer = buffer.newer
    BY <1>1, <1>5, <1>8 DEF BufferType
  <2>2. buffer' = b /\ server' = server
    BY <1>2, <1>8 DEF Released
  <2> HIDE DEF b
  <2>3. drifted' = drifted
    BY <1>1, <1>2, <1>5, <1>8
  <2>4. Known(buffer)'
    BY <1>1, <1>2, <2>1, <2>2, <2>3 DEF Known
  <2>5. StateType' /\ BufferInv'
    BY <1>1, <1>2, <1>4, <1>5, <2>1, <2>2, <2>3, <2>4 DEF StateType, BufferInv
  <2> QED BY <1>1, <1>2, <1>6, <2>1, <2>2, <2>3, <2>5, CloseEnd
<1> QED BY <1>7, <1>8

-----------------------------------------------------------------------------
(* The other steps.                                                          *)

\* The calls have doubts when the file is changed, and see the text that an edit sends.
Disturbed ==
  /\ pc' = pc /\ job' = [c \in Threads |-> job'[c]]
  /\ \A c \in Threads :
       LET j == [job[c] EXCEPT !.doubt = TRUE]
       IN  IF pc[c] = "idle" THEN job'[c] = job[c]
           ELSE \/ job'[c] = j /\ server' = server
                \/ job'[c] = [j EXCEPT !.seen = @ \cup {server'.text}]

LEMMA DisturbedCalls ==
  ASSUME DocInv, Disturbed, server' \in ServerType, buffer.opened => buffer'.opened,
         UNCHANGED <<pipe, published>>
  PROVE  CallsType' /\ CallInv' /\ Holders' = Holders
<1> USE DEF DocInv, Types
<1>1. ASSUME NEW c \in Threads
      PROVE  /\ job'[c] \in JobType /\ job'[c].kind = job[c].kind
             /\ SymbolsKnown(c)' /\ DiagnosticsKnown(c)'
  <2> DEFINE j == [job[c] EXCEPT !.doubt = TRUE]
             k == [j EXCEPT !.seen = @ \cup {server'.text}]
  <2>1. job[c] \in JobType /\ pc'[c] = pc[c] /\ pc[c] \in StepsOf(job[c].kind)
    BY DEF CallsType, Disturbed
  <2>2. /\ j \in JobType /\ j.doubt = TRUE /\ j.seen = job[c].seen /\ j.kind = job[c].kind
        /\ j.found = job[c].found /\ j.after = job[c].after /\ j.late = job[c].late
        /\ j.timedOut = job[c].timedOut
    BY <2>1 DEF JobType
  <2>3. /\ k \in JobType /\ k.doubt = TRUE /\ k.seen = job[c].seen \cup {server'.text}
        /\ k.kind = job[c].kind /\ k.found = job[c].found /\ k.after = job[c].after
        /\ k.late = job[c].late /\ k.timedOut = job[c].timedOut
    BY <2>2, SeenJob DEF Alike
  <2>4. CASE pc[c] = "idle"
    <3>1. job'[c] = job[c] /\ job[c].kind = "none"
      BY <2>1, <2>4 DEF Disturbed, StepsOf, JobType
    <3> QED BY <2>1, <3>1 DEF SymbolsKnown, DiagnosticsKnown
  <2>5. CASE pc[c] # "idle"
    <3>1. \/ job'[c] = j /\ server' = server
          \/ job'[c] = k
      BY <2>5 DEF Disturbed
    <3>2. SymbolsKnown(c) /\ DiagnosticsKnown(c)
      BY DEF CallInv
    <3> HIDE DEF j, k
    <3>3. /\ job'[c] \in JobType /\ job'[c].doubt /\ job[c].seen \subseteq job'[c].seen
          /\ job'[c].kind = job[c].kind /\ job'[c].found = job[c].found
          /\ job'[c].after = job[c].after /\ job'[c].late = job[c].late
          /\ job'[c].timedOut = job[c].timedOut
          /\ server'.text = server.text \/ server'.text \in job'[c].seen
      BY <2>2, <2>3, <3>1
    <3>4. SymbolsKnown(c)'
      BY <2>1, <3>2, <3>3 DEF SymbolsKnown, Doubtful
    <3>5. DiagnosticsKnown(c)'
      <4>1. pipe \in Seq(job[c].seen \cup {Clean}) => pipe \in Seq(job'[c].seen \cup {Clean})
        BY <3>3
      <4> QED BY <2>1, <3>2, <3>3, <4>1 DEF DiagnosticsKnown
    <3> QED BY <3>3, <3>4, <3>5
  <2> QED BY <2>4, <2>5
<1>2. job' \in [Threads -> JobType]
  <2>1. job' = [c \in Threads |-> job'[c]]
    BY DEF Disturbed
  <2> QED BY <1>1, <2>1
<1>3. CallsType'
  BY <1>1, <1>2 DEF Disturbed, CallsType
<1> QED BY <1>1, <1>3 DEF CallInv, Disturbed, Holders

\* The file changes: what is known of its text is what the edit has put everywhere, or
\* nothing, and the calls under way have doubts.
LEMMA ChangeStep == ASSUME DocInv, WriteOutside \/ Edit PROVE DocInv'
<1> USE DEF DocInv, Types
<1>1. /\ StateType /\ BufferInv /\ buffer \in BufferType /\ Known(buffer)
      /\ buffer.refs \in Nat /\ server \in ServerType /\ effort \in Nat /\ 0 \notin Texts
      /\ drifted \in BOOLEAN /\ NoText = 0
  BY TextsAssumption DEF BufferInv, StateType, BufferType, NoText
<1>2. effort' \in Nat /\ UNCHANGED <<caches, pipe, published, pc>> /\ disk' \in Texts
  BY <1>1 DEF WriteOutside, Edit
<1>3. CachesType' /\ CacheInv' /\ PublishedOK'
  BY <1>2 DEF CachesType, CacheInv, RawOK, HighOK, caches, PublishedOK
<1>4. ASSUME Disturbed, StateType', buffer.opened => buffer'.opened,
             Holders' = Holders => BufferInv'
      PROVE  DocInv'
  BY <1>2, <1>3, <1>4, DisturbedCalls DEF StateType
<1>5. CASE WriteOutside
  <2> DEFINE b == [buffer EXCEPT !.newer = TRUE]
  <2>1. /\ server' = server /\ pc' = pc /\ job' = Doubting
        /\ drifted' = (drifted \/ buffer.refs > 0)
    BY <1>5 DEF WriteOutside
  <2>2. /\ b \in BufferType /\ b.refs = buffer.refs /\ b.opened = buffer.opened
        /\ b.text = buffer.text /\ b.hash = buffer.hash
    BY <1>1 DEF BufferType
  <2>3. /\ buffer' \in {buffer, b}
        /\ buffer.refs = 0 => buffer' = buffer /\ buffer = Unopened
    <3>1. buffer' \in {buffer, [buffer EXCEPT !.newer = buffer.refs > 0]}
      BY <1>5 DEF WriteOutside
    <3>2. CASE buffer.refs = 0
      <4>1. (buffer.refs > 0) = FALSE /\ buffer = Unopened /\ buffer.newer = FALSE
        BY <1>1, <3>2 DEF BufferInv, Unopened
      <4>2. [buffer EXCEPT !.newer = buffer.newer] = buffer
        BY <1>1 DEF BufferType
      <4> QED BY <3>1, <4>1, <4>2
    <3>3. CASE buffer.refs # 0
      <4>1. (buffer.refs > 0) = TRUE
        BY <1>1, <3>3
      <4> QED BY <3>1, <3>3, <4>1
    <3> QED BY <3>2, <3>3
  <2> HIDE DEF b
  <2>4. Disturbed
    BY <2>1 DEF Doubting, Disturbed
  <2>5. StateType'
    BY <1>1, <1>2, <2>1, <2>2, <2>3 DEF StateType
  <2>6. ~drifted' => buffer' = Unopened /\ ~drifted
    <3>1. drifted' <=> (drifted \/ buffer.refs > 0)
      BY <2>1, Zenon
    <3> QED BY <1>1, <2>3, <3>1
  <2>7. Known(buffer)'
    BY <1>1, <2>1, <2>2, <2>3, <2>6 DEF Known, Unopened
  <2>8. ASSUME Holders' = Holders PROVE BufferInv'
    <3>1. ~drifted' => buffer'.opened = FALSE
      BY <2>6 DEF Unopened
    <3>2. /\ buffer'.refs = buffer.refs /\ buffer'.opened = buffer.opened
          /\ buffer'.refs = 0 => buffer' = buffer
      BY <1>1, <2>1, <2>2, <2>3
    <3> QED BY <1>1, <2>1, <2>7, <2>8, <3>1, <3>2 DEF BufferInv
  <2> QED BY <1>4, <2>1, <2>2, <2>3, <2>4, <2>5, <2>8
<1>6. CASE Edit
  <2>1. PICK text \in Texts :
          /\ disk' = text
          /\ IF buffer.refs = 0
               THEN UNCHANGED <<buffer, server>>
               ELSE /\ buffer' = [SetContents(Ensured(buffer), text) EXCEPT !.newer = FALSE]
                    /\ server' = [open |-> TRUE, text |-> text]
    BY <1>6 DEF Edit
  <2>2. drifted' = drifted /\ job' = Seen(Doubting) /\ pc' = pc
    BY <1>6 DEF Edit
  <2>3. Disturbed
    BY <2>2 DEF Seen, Doubting, Disturbed
  <2>4. CASE buffer.refs = 0
    <3>1. StateType' /\ Known(buffer)'
      BY <1>1, <1>2, <2>1, <2>2, <2>4 DEF StateType, BufferInv, Known, Unopened
    <3>2. buffer.opened = FALSE
      BY <1>1, <2>4 DEF BufferInv, Unopened
    <3>3. Holders' = Holders => BufferInv'
      BY <1>1, <2>1, <2>4, <3>1, <3>2 DEF BufferInv
    <3> QED BY <1>4, <2>1, <2>3, <2>4, <3>1, <3>3
  <2>5. CASE buffer.refs # 0
    <3> DEFINE e == Ensured(buffer)
               b == [SetContents(e, text) EXCEPT !.newer = FALSE]
    <3>1. e \in BufferType /\ e.refs = buffer.refs /\ e.opened
      BY <1>1, EnsuredKnown DEF BufferInv
    <3> HIDE DEF e
    <3>2. /\ b \in BufferType /\ b.refs = buffer.refs /\ b.opened /\ b.text = text
          /\ b.hash = NoText /\ b.newer = FALSE
      BY <3>1 DEF SetContents, BufferType, Text
    <3>3. buffer' = b /\ server' = [open |-> TRUE, text |-> text]
      BY <2>1, <2>5 DEF e
    <3> HIDE DEF b
    <3>4. server' \in ServerType /\ server'.open /\ server'.text = text
      BY <3>3 DEF ServerType, Text
    <3>5. StateType' /\ Known(buffer)'
      BY <1>1, <1>2, <2>1, <2>2, <3>2, <3>3, <3>4 DEF StateType, Known
    <3>6. buffer'.opened = TRUE /\ server'.open = TRUE
      BY <3>2, <3>3
    <3>7. Holders' = Holders => BufferInv'
      BY <1>1, <2>1, <2>5, <3>2, <3>3, <3>4, <3>5, <3>6 DEF BufferInv
    <3> QED BY <1>4, <2>3, <3>5, <3>6, <3>7
  <2> QED BY <2>4, <2>5
<1> QED BY <1>5, <1>6

\* A publication is of the text that the server has, and is stored in the order it came.
LEMMA PublishStep == ASSUME DocInv, Publish \/ StorePublished PROVE DocInv'
<1> USE DEF DocInv, Types
<1>1. /\ UNCHANGED <<disk, buffer, server, caches, drifted, pc, job, effort>>
      /\ pipe \in Seq(Faulty \cup {Clean}) /\ published \in PublishedType /\ Clean = NoText
  BY DEF Publish, StorePublished, PublishedOK, Clean, NoText
<1>2. Holders' = Holders
  BY <1>1 DEF Holders
<1>3. /\ StateType' /\ CachesType' /\ CallsType' /\ CacheInv' /\ BufferInv'
      /\ \A c \in Threads : SymbolsKnown(c)'
  BY <1>1, <1>2 DEF StateType, CachesType, CallsType, CacheInv, RawOK, HighOK, caches, BufferInv,
                    Known, CallInv, SymbolsKnown, Doubtful
<1>4. PublishedOK'
  <2>1. CASE Publish
    <3>1. Diagnostics(server.text) \in Faulty \cup {Clean}
      BY DEF Diagnostics
    <3> QED BY <1>1, <2>1, <3>1 DEF Publish, PublishedOK
  <2>2. CASE StorePublished
    <3>1. pipe # <<>> /\ pipe' = Tail(pipe)
          /\ published' = [generation |-> published.generation + 1, of |-> Head(pipe)]
      BY <2>2 DEF StorePublished
    <3> QED BY <1>1, <3>1 DEF PublishedOK, PublishedType
  <2> QED BY <2>1, <2>2
<1>5. ASSUME NEW c \in Threads PROVE DiagnosticsKnown(c)'
  <2> SUFFICES ASSUME job[c].kind = "diagnostics", pc[c] # "generation"
               PROVE  DiagnosticsKnown(c)'
    BY <1>1 DEF DiagnosticsKnown
  <2>1. DiagnosticsKnown(c)
    BY DEF CallInv
  <2> DEFINE S == job[c].seen
  <2>2. PICK T : T = S
    OBVIOUS
  <2>3. ~job[c].late => pipe' \in Seq(T \cup {Clean})
    <3>1. CASE Publish
      <4>1. Diagnostics(server.text) \in T \cup {Clean}
        BY <1>1, <2>1, <2>2 DEF Diagnostics, DiagnosticsKnown
      <4> QED BY <2>1, <2>2, <3>1, <4>1 DEF Publish, DiagnosticsKnown
    <3>2. CASE StorePublished
      BY <2>1, <2>2, <3>2 DEF StorePublished, DiagnosticsKnown
    <3> QED BY <3>1, <3>2
  <2>4. ~job[c].late /\ published'.generation > job[c].after => published'.of \in T \cup {Clean}
    <3>1. CASE Publish
      BY <2>1, <2>2, <3>1 DEF Publish, DiagnosticsKnown
    <3>2. CASE StorePublished
      <4>1. published'.of = Head(pipe) /\ pipe # <<>>
        BY <3>2 DEF StorePublished
      <4> QED BY <2>1, <2>2, <4>1 DEF DiagnosticsKnown
    <3> QED BY <3>1, <3>2
  <2> QED BY <1>1, <2>1, <2>2, <2>3, <2>4 DEF DiagnosticsKnown
<1> QED BY <1>3, <1>4, <1>5 DEF CallInv

\* A cache is saved with its version, and loaded only by a program of that version.
LEMMA SaveStep == ASSUME DocInv, Save PROVE DocInv'
<1> USE DEF DocInv, Types
<1>1. /\ UNCHANGED <<disk, buffer, server, raw, high, version, pipe, published, drifted, pc, job>>
      /\ effort' \in Nat
  BY DEF Save, StateType
<1>2. Holders' = Holders
  BY <1>1 DEF Holders
<1>3. /\ StateType' /\ PublishedOK' /\ CallsType' /\ BufferInv' /\ CallInv'
  BY <1>1, <1>2 DEF StateType, PublishedOK, CallsType, BufferInv, Known, CallInv, SymbolsKnown,
                    DiagnosticsKnown, Doubtful
<1>4. PICK tried \in SUBSET modified, saved \in SUBSET modified :
        /\ stored' = [cache \in {"raw", "high"} |->
                        IF cache \in saved
                          THEN [version |-> VersionOf(cache, version),
                                entry |-> IF cache = "raw" THEN raw ELSE high]
                          ELSE IF cache \in tried THEN Unreadable ELSE stored[cache]]
        /\ modified' = modified \ saved
  BY DEF Save
<1>5. /\ stored'["raw"] \in {[version |-> version, entry |-> raw], Unreadable, stored["raw"]}
      /\ stored'["high"] \in {[version |-> 1, entry |-> high], Unreadable, stored["high"]}
      /\ stored' = [cache \in {"raw", "high"} |-> stored'[cache]]
  BY <1>4 DEF VersionOf
<1>6. /\ Unreadable \in StoredType /\ Unreadable.version = 0
      /\ [version |-> version, entry |-> raw] \in StoredType
      /\ [version |-> 1, entry |-> high] \in StoredType
  BY DEF Unreadable, NoEntry, StoredType, EntryType, Text, NoText, Nothing, CachesType
<1>7. stored' \in [{"raw", "high"} -> StoredType]
  BY <1>5, <1>6 DEF CachesType
<1>8. CachesType'
  BY <1>1, <1>4, <1>7 DEF CachesType
<1>9. CacheInv'
  BY <1>1, <1>5, <1>6 DEF CacheInv, RawOK, HighOK
<1> QED BY <1>3, <1>8, <1>9

LEMMA RestartStep == ASSUME DocInv, Restart PROVE DocInv'
<1> USE DEF DocInv, Types
<1>1. /\ disk' \in Texts /\ version' \in {version, 2}
      /\ raw' = Loaded("raw", version') /\ high' = Loaded("high", version')
      /\ modified' = {} /\ buffer' = Unopened /\ server' = [open |-> FALSE, text |-> NoText]
      /\ pipe' = <<>> /\ published' = [generation |-> 0, of |-> Clean] /\ drifted' = FALSE
      /\ pc' = [c \in Threads |-> "idle"] /\ job' = [c \in Threads |-> NoJob]
      /\ stored' = stored /\ effort' \in Nat
  BY DEF Restart, StateType
<1>2. /\ NoJob \in JobType /\ NoJob.kind = "none" /\ "idle" \in StepsOf(NoJob.kind)
      /\ Unopened \in BufferType /\ [open |-> FALSE, text |-> NoText] \in ServerType
      /\ NoEntry \in EntryType
  BY DEF NoJob, JobType, Text, Nothing, NoText, StepsOf, Unopened, BufferType, ServerType,
         NoEntry, EntryType
<1>3. StateType'
  BY <1>1, <1>2 DEF StateType
<1>4. Holders' = {}
  BY <1>1 DEF Holders
<1>5. BufferInv'
  BY <1>1, <1>4, FS_EmptySet DEF BufferInv, Known, Unopened
<1>6. PublishedOK'
  BY <1>1 DEF PublishedOK, PublishedType
<1>7. CallsType' /\ CallInv'
  BY <1>1, <1>2 DEF CallsType, Places, StepsOf, CallInv, SymbolsKnown, DiagnosticsKnown
<1>8. /\ raw' = NoEntry \/ (raw' = stored["raw"].entry /\ stored["raw"].version = version')
      /\ high' = NoEntry \/ (high' = stored["high"].entry /\ stored["high"].version = 1)
  BY <1>1 DEF Loaded, VersionOf
<1>9. stored["raw"] \in StoredType /\ stored["high"] \in StoredType /\ version' \in {1, 2}
  BY <1>1 DEF CachesType
<1>10. CachesType'
  BY <1>1, <1>2, <1>8, <1>9 DEF CachesType, StoredType
<1>11. CacheInv'
  BY <1>1, <1>8, <1>9 DEF CacheInv, RawOK, HighOK
<1> QED BY <1>3, <1>5, <1>6, <1>7, <1>10, <1>11

-----------------------------------------------------------------------------
(* The inductive invariant, and what follows from it.                        *)

LEMMA DocInit == Init => DocInv
<1> SUFFICES ASSUME Init PROVE DocInv
  OBVIOUS
<1> USE DEF Init
<1>1. /\ NoJob \in JobType /\ NoJob.kind = "none" /\ "idle" \in StepsOf(NoJob.kind)
      /\ Unopened \in BufferType /\ [open |-> FALSE, text |-> NoText] \in ServerType
      /\ NoEntry \in EntryType /\ Unreadable \in StoredType /\ Unreadable.version = 0
  BY DEF NoJob, JobType, Text, Nothing, NoText, StepsOf, Unopened, BufferType, ServerType,
         NoEntry, EntryType, Unreadable, StoredType
<1>2. StateType /\ CachesType /\ PublishedOK
  <2>1. StateType
    BY <1>1 DEF StateType
  <2>2. CachesType
    BY <1>1 DEF CachesType
  <2>3. PublishedOK
    BY DEF PublishedOK, PublishedType
  <2> QED BY <2>1, <2>2, <2>3
<1>3. Holders = {}
  BY DEF Holders
<1>4. BufferInv
  BY <1>3, FS_EmptySet DEF BufferInv, Known, Unopened
<1>5. CallsType /\ CallInv
  BY <1>1 DEF CallsType, Places, StepsOf, CallInv, SymbolsKnown, DiagnosticsKnown
<1>6. CacheInv
  BY <1>1 DEF CacheInv, RawOK, HighOK
<1> QED BY <1>2, <1>4, <1>5, <1>6 DEF DocInv, Types

LEMMA DocStep == DocInv /\ [Next]_vars => DocInv'
<1> SUFFICES ASSUME DocInv, [Next]_vars PROVE DocInv'
  OBVIOUS
<1>1. CASE UNCHANGED vars
  <2>1. Holders' = Holders
    BY <1>1 DEF vars, Holders
  <2>2. Types'
    BY <1>1 DEF vars, caches, DocInv, Types, StateType, CachesType, PublishedOK, CallsType
  <2>3. BufferInv'
    BY <1>1, <2>1 DEF vars, DocInv, BufferInv, Known
  <2>4. CacheInv'
    BY <1>1 DEF vars, caches, DocInv, CacheInv, RawOK, HighOK
  <2>5. CallInv'
    BY <1>1 DEF vars, DocInv, CallInv, SymbolsKnown, DiagnosticsKnown, Doubtful
  <2> QED BY <2>2, <2>3, <2>4, <2>5 DEF DocInv
<1>2. ASSUME NEW c \in Threads, Step(c) PROVE DocInv'
  BY <1>2, BeginStep, SymbolStep, DiagnosticsStep, OpenStep, CloseStep DEF Step
<1> QED BY <1>1, <1>2, ChangeStep, PublishStep, SaveStep, RestartStep DEF Next

\* Every variable keeps its type, the buffer counts its users, the entries of the caches are
\* truthful, and a call knows only what is so of the texts it has seen.
THEOREM DocumentsKept == Spec => []DocInv
<1> QED BY DocInit, DocStep, PTL DEF Spec

\* The type invariant that the run checks.
THEOREM TypesHold == Spec => []TypeOK
<1>1. DocInv => TypeOK
  <2> SUFFICES ASSUME DocInv PROVE TypeOK
    OBVIOUS
  <2> USE DEF DocInv, Types
  <2>1. buffer.refs \in 0 .. Cardinality(Threads)
    BY HoldersFinite DEF BufferInv
  <2>2. Len(pipe) \in Nat
    BY DEF PublishedOK
  <2> QED
    BY <2>1, <2>2
    DEF TypeOK, StateType, BufferInv, BufferType, ServerType, CachesType, EntryType, PublishedOK,
        PublishedType, CallsType, JobType, Text, Nothing, NoText
<1> QED BY <1>1, DocumentsKept, PTL

\* An entry of the symbol caches is about the text whose hash it has, unless the file was
\* changed while it was made.
THEOREM CachesTruthful == Spec => []CachesAreTruthful
<1>1. DocInv => CachesAreTruthful
  BY DEF DocInv, CacheInv, RawOK, HighOK, CachesAreTruthful
<1> QED BY <1>1, DocumentsKept, PTL

\* The symbols a call returns are those of the file as it is, unless it was changed during
\* the call or while the entry that was used was made.
THEOREM SymbolsCurrent == Spec => []SymbolsAreCurrent
<1>1. DocInv => SymbolsAreCurrent
  BY DEF DocInv, CallInv, SymbolsKnown, SymbolsAreCurrent, Doubtful
<1> QED BY <1>1, DocumentsKept, PTL

\* The errors a call reports are those of a text that the server had during the call,
\* unless its wait timed out or older publications were on their way when it began.
THEOREM DiagnosticsCurrent == Spec => []DiagnosticsAreCurrent
<1>1. DocInv => DiagnosticsAreCurrent
  <2> SUFFICES ASSUME DocInv, NEW c \in Threads, pc[c] = "close",
                      job[c].kind = "diagnostics", job[c].found # Clean, ~job[c].timedOut,
                      ~job[c].late
               PROVE  job[c].found \in job[c].seen
    BY DEF DiagnosticsAreCurrent
  <2> QED BY DEF DocInv, CallInv, DiagnosticsKnown
<1> QED BY <1>1, DocumentsKept, PTL

\* A call that reports no errors has taken them from the last publication.
THEOREM NoneOverlooked == Spec => NoErrorsOverlooked
<1>1. DocInv /\ [Next]_vars =>
        [\A c \in Threads :
           (/\ job[c].kind = "diagnostics" /\ pc[c] # "close" /\ pc'[c] = "close"
            /\ job'[c].found = Clean)
           => published'.of = Clean]_vars
  <2> SUFFICES ASSUME DocInv, [Next]_vars, NEW c \in Threads, job[c].kind = "diagnostics",
                      pc[c] # "close", pc'[c] = "close", job'[c].found = Clean
               PROVE  published'.of = Clean
    OBVIOUS
  <2>1. /\ pc \in [Threads -> Places] /\ job \in [Threads -> JobType]
        /\ pc[c] \in StepsOf("diagnostics") /\ Clean = 0 /\ 0 \notin Faulty
    BY TextsAssumption DEF DocInv, Types, CallsType, Clean
  <2>2. Pull(c) \/ Wait(c) \/ Cached(c)
    <3>1. PICK d \in Threads : Step(d)
      BY <2>1 DEF Next, vars, Publish, StorePublished, WriteOutside, Edit, Save, Restart
    <3>2. d = c
      BY <2>1, <3>1 DEF Step, Goto, Begin, Open, Close, LookHigh, LookRaw, Ask, Store, Convert,
                        Keep, ReadGeneration, Pull, Wait, Renew, TimeOut, Cached
    <3>3. ASSUME NEW step, Goto(c, step) PROVE step = "close"
      BY <2>1, <3>3 DEF Goto
    <3> QED
      BY <2>1, <3>1, <3>2, <3>3
      DEF Step, StepsOf, Begin, Open, Close, LookHigh, LookRaw, Ask, Store, Convert, Keep,
          ReadGeneration, Pull, Wait, Renew, TimeOut, Cached
  <2>3. published' = published
    BY <2>2 DEF Pull, Wait, Cached
  <2>4. CASE Cached(c)
    BY <2>1, <2>3, <2>4 DEF Cached, Set, JobType
  <2>5. CASE Pull(c)
    <3>1. server.text \in Faulty /\ job'[c].found = server.text
      BY <2>1, <2>5 DEF Pull, Set, Goto, JobType
    <3> QED BY <2>1, <3>1
  <2>6. CASE Wait(c)
    <3>1. published.of # Clean => job'[c].found = published.of
      BY <2>1, <2>6 DEF Wait, Set, JobType
    <3> QED BY <2>3, <3>1
  <2> QED BY <2>2, <2>4, <2>5, <2>6
<1> QED BY <1>1, DocumentsKept, PTL DEF Spec, NoErrorsOverlooked

===============================================================================
