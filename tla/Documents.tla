------------------------------- MODULE Documents ------------------------------
(***************************************************************************)
(* What the tools keep about the text of a document: the two symbol caches *)
(* keyed by content hash and the diagnostics that the server publishes     *)
(* (ls.py, request_document_symbols and request_text_document_diagnostics).*)
(* The cached symbols are right only if hash, response and lines belong to *)
(* one text, though they are taken at different times; a publication is    *)
(* right only if it is about the text the call asks for.                   *)
(*                                                                         *)
(* One document; calls of several threads share its buffer.  A text is a   *)
(* number, and its hash is the text.  EditSessions has the steps of        *)
(* open_file and of an edit, which are one step here.                      *)
(***************************************************************************)
EXTENDS Integers, Sequences, FiniteSets

CONSTANTS Threads,      \* threads that run tool calls
          Kinds,        \* calls they make, of "symbols" and "diagnostics"
          Texts,        \* texts of the file
          Faulty,       \* texts in which the server finds errors
          MaxEffort,    \* bound: calls, changes, saves and restarts in a behaviour
          MaxPublished  \* bound: publications of diagnostics

ASSUME ThreadsAssumption == IsFiniteSet(Threads)
ASSUME KindsAssumption == Kinds \subseteq {"symbols", "diagnostics"}
ASSUME TextsAssumption == Texts \subseteq Nat \ {0} /\ Faulty \subseteq Texts
ASSUME BoundsAssumption == {MaxEffort, MaxPublished} \subseteq Nat

VARIABLES
  disk,      \* text of the file
  buffer,    \* the LSPFileBuffer of the file, registered while it has users
  server,    \* the document as the server knows it
  raw, high, \* the file's entries in the two symbol caches
  modified,  \* the caches with entries that are not saved
  stored,    \* cache -> its pickle: a version and an entry, or nothing that can be read
  version,   \* cache_version_raw_document_symbols of the program that runs
  pipe,      \* diagnostics published by the server and not read yet
  published, \* the last diagnostics stored, and their generation
  drifted,   \* another program has written the file while the buffer was open
  pc,        \* thread -> next step of its call
  job,       \* thread -> locals of its call
  effort     \* calls, changes of the file, saves and restarts so far

caches == <<raw, high, modified, stored, version>>
vars == <<disk, buffer, server, caches, pipe, published, drifted, pc, job, effort>>

-----------------------------------------------------------------------------
NoText == 0
Clean == 0          \* an empty list of diagnostics
Nothing == 0        \* an empty list of symbols, or none at all

Unopened == [refs |-> 0, text |-> NoText, hash |-> NoText, newer |-> FALSE, opened |-> FALSE]
NoEntry == [hash |-> NoText, of |-> Nothing, lines |-> NoText, made |-> 0, doubt |-> FALSE]
Unreadable == [version |-> 0, entry |-> NoEntry]

\* after: generation after which a publication counts; found: the response, and then
\* the result.  doubt, seen, late and timedOut are for the properties: the file was
\* changed during the call, texts that the server had since the generation was read,
\* publications were under way then, the wait has timed out.
NoJob == [kind |-> "none", found |-> Nothing, lines |-> NoText, after |-> 0,
          doubt |-> FALSE, seen |-> {}, late |-> FALSE, timedOut |-> FALSE]

Init ==
  /\ disk \in Texts
  /\ buffer = Unopened
  /\ server = [open |-> FALSE, text |-> NoText]
  /\ raw = NoEntry /\ high = NoEntry /\ modified = {} /\ version = 1
  /\ stored = [cache \in {"raw", "high"} |-> Unreadable]
  /\ pipe = <<>> /\ published = [generation |-> 0, of |-> Clean]
  /\ drifted = FALSE
  /\ pc = [c \in Threads |-> "idle"] /\ job = [c \in Threads |-> NoJob]
  /\ effort = 0

Diagnostics(text) == IF text \in Faulty THEN text ELSE Clean

-----------------------------------------------------------------------------
(* The buffer.                                                               *)

\* Property contents: read again, and the hash forgotten, if the file is newer.
Fresh(b) == IF b.text = NoText \/ b.newer
              THEN [b EXCEPT !.text = disk, !.hash = NoText, !.newer = FALSE] ELSE b

\* Property content_hash: computed from the contents when it is not known.
Hashed(b) == IF b.hash = NoText THEN [Fresh(b) EXCEPT !.hash = Fresh(b).text] ELSE b

\* _open_in_ls: the contents are read and the server is told, once.
Ensured(b) == IF b.opened THEN b ELSE [Fresh(b) EXCEPT !.opened = TRUE]
Told(b) == IF b.opened THEN server ELSE [open |-> TRUE, text |-> Fresh(b).text]

\* The texts that the server has had during the calls under way.
Seen(jobs) == [c \in Threads |-> IF pc[c] = "idle" THEN jobs[c]
                                 ELSE [jobs[c] EXCEPT !.seen = @ \cup {server'.text}]]
Goto(c, step) == pc' = [pc EXCEPT ![c] = step]
Set(c, j) == job' = [job EXCEPT ![c] = j]

Begin(c) ==
  /\ pc[c] = "idle" /\ effort < MaxEffort
  /\ effort' = effort + 1
  /\ \E kind \in Kinds :
       /\ Set(c, [NoJob EXCEPT !.kind = kind])
       /\ Goto(c, IF kind = "symbols" THEN "open" ELSE "generation")
  /\ UNCHANGED <<disk, buffer, server, caches, pipe, published, drifted>>

\* request_document_symbols does not open the document in the server yet.
Open(c) ==
  /\ pc[c] = "open"
  /\ LET b == [buffer EXCEPT !.refs = @ + 1]
     IN  IF job[c].kind = "symbols"
           THEN /\ buffer' = b /\ UNCHANGED server
                /\ Goto(c, "look high")
           ELSE /\ buffer' = Ensured(b) /\ server' = Told(b)
                /\ Goto(c, "pull")
  /\ job' = Seen(job)
  /\ UNCHANGED <<disk, caches, pipe, published, drifted, effort>>

\* Faulty variant: the last user does not remove the buffer.
ReleasedKept(b) == [b EXCEPT !.refs = @ - 1]
Released(b) == IF b.refs = 1 THEN Unopened ELSE [b EXCEPT !.refs = @ - 1]

\* The last user closes the document; the server may withdraw its diagnostics.
Close(c) ==
  /\ pc[c] = "close"
  /\ buffer' = Released(buffer)
  /\ IF buffer.refs = 1 /\ buffer.opened
       THEN /\ server' = [open |-> FALSE, text |-> NoText]
            /\ pipe' \in {pipe, Append(pipe, Clean)}
       ELSE UNCHANGED <<server, pipe>>
  /\ drifted' = (drifted /\ buffer.refs > 1)
  /\ Goto(c, "idle") /\ Set(c, NoJob)
  /\ UNCHANGED <<disk, caches, published, effort>>

-----------------------------------------------------------------------------
(* request_document_symbols.                                                 *)

\* Faulty variant: an entry is used whatever text it was made for.
IsHitByFile(entry, b) == entry # NoEntry
IsHit(entry, b) == entry # NoEntry /\ entry.hash = Hashed(b).hash

LookHigh(c) ==
  /\ pc[c] = "look high"
  /\ buffer' = IF high = NoEntry THEN buffer ELSE Hashed(buffer)
  /\ IF IsHit(high, buffer)
       THEN /\ Set(c, [job[c] EXCEPT !.found = high.of, !.lines = high.lines,
                                      !.doubt = @ \/ high.doubt])
            /\ Goto(c, "close")
       ELSE UNCHANGED job /\ Goto(c, "look raw")
  /\ UNCHANGED <<disk, server, caches, pipe, published, drifted, effort>>

\* The document is opened in the server before the raw cache is looked up.
LookRaw(c) ==
  /\ pc[c] = "look raw"
  /\ LET b == Ensured(buffer)
     IN  /\ server' = Told(buffer)
         /\ buffer' = IF raw = NoEntry THEN b ELSE Hashed(b)
         /\ IF IsHit(raw, b)
              THEN /\ job' = Seen([job EXCEPT ![c].found = raw.of, ![c].doubt = @ \/ raw.doubt])
                   /\ Goto(c, "convert")
              ELSE job' = Seen(job) /\ Goto(c, "ask")
  /\ UNCHANGED <<disk, caches, pipe, published, drifted, effort>>

\* The server answers for the text it has, or with no symbols, as while it indexes.
Ask(c) ==
  /\ pc[c] = "ask"
  /\ \/ Set(c, [job[c] EXCEPT !.found = server.text]) /\ Goto(c, "store")
     \/ /\ Set(c, [job[c] EXCEPT !.found = Nothing])
        /\ Goto(c, "store") \/ Goto(c, "close")
  /\ UNCHANGED <<disk, buffer, server, caches, pipe, published, drifted, effort>>

Doubtful(c) == job[c].doubt \/ drifted

\* The raw cache takes what is not empty, under the hash of the text as it is now.
Store(c) ==
  /\ pc[c] = "store"
  /\ IF job[c].found = Nothing
       THEN UNCHANGED <<buffer, raw, modified>>
       ELSE /\ buffer' = Hashed(buffer)
            /\ raw' = [hash |-> buffer'.hash, of |-> job[c].found, lines |-> NoText,
                       made |-> version, doubt |-> Doubtful(c)]
            /\ modified' = modified \cup {"raw"}
  /\ Goto(c, "convert")
  /\ UNCHANGED <<disk, server, high, stored, version, pipe, published, drifted, job, effort>>

\* The bodies of the symbols will be cut out of the lines as they are now.
Convert(c) ==
  /\ pc[c] = "convert"
  /\ buffer' = Fresh(buffer)
  /\ Set(c, [job[c] EXCEPT !.lines = buffer'.text])
  /\ Goto(c, "keep")
  /\ UNCHANGED <<disk, server, caches, pipe, published, drifted, effort>>

\* The high-level cache takes every list, an empty one too.
Keep(c) ==
  /\ pc[c] = "keep"
  /\ buffer' = Hashed(buffer)
  /\ high' = [hash |-> buffer'.hash, of |-> job[c].found, lines |-> job[c].lines,
              made |-> 0, doubt |-> Doubtful(c)]
  /\ modified' = modified \cup {"high"}
  /\ Goto(c, "close")
  /\ UNCHANGED <<disk, server, raw, stored, version, pipe, published, drifted, job, effort>>

-----------------------------------------------------------------------------
(* The caches on disk: save_cache, and a program that starts again.          *)

\* The version of the high-level cache does not name that of the raw one.
VersionOf(cache, v) == IF cache = "raw" THEN v ELSE 1

\* Each modified cache is pickled with its version, or the write fails and leaves a
\* file that cannot be read; the cache is modified still.
Save ==
  /\ effort < MaxEffort /\ effort' = effort + 1
  /\ \E tried \in SUBSET modified \ {{}} : \E saved \in SUBSET tried :
       /\ stored' = [cache \in {"raw", "high"} |->
                       IF cache \in saved
                         THEN [version |-> VersionOf(cache, version),
                               entry |-> IF cache = "raw" THEN raw ELSE high]
                         ELSE IF cache \in tried THEN Unreadable ELSE stored[cache]]
       /\ modified' = modified \ saved
  /\ UNCHANGED <<disk, buffer, server, raw, high, version, pipe, published, drifted, pc, job>>

\* A pickle of another version is ignored, as is one that cannot be read.
Loaded(cache, v) ==
  IF stored[cache].version = VersionOf(cache, v) THEN stored[cache].entry ELSE NoEntry

\* The process ends at any step; it starts again, perhaps as a later version, when the
\* file has any text.
Restart ==
  /\ effort < MaxEffort /\ effort' = effort + 1
  /\ disk' \in Texts /\ version' \in {version, 2}
  /\ raw' = Loaded("raw", version') /\ high' = Loaded("high", version')
  /\ modified' = {}
  /\ buffer' = Unopened /\ server' = [open |-> FALSE, text |-> NoText]
  /\ pipe' = <<>> /\ published' = [generation |-> 0, of |-> Clean]
  /\ drifted' = FALSE
  /\ pc' = [c \in Threads |-> "idle"] /\ job' = [c \in Threads |-> NoJob]
  /\ UNCHANGED stored

-----------------------------------------------------------------------------
(* request_text_document_diagnostics.                                        *)

\* The generation is read before the document is opened.
ReadGeneration(c) ==
  /\ pc[c] = "generation"
  /\ Set(c, [job[c] EXCEPT !.after = published.generation, !.late = pipe # <<>>,
                           !.seen = {server.text}])
  /\ Goto(c, "open")
  /\ UNCHANGED <<disk, buffer, server, caches, pipe, published, drifted, effort>>

\* The pull request: errors found are the result; none, or an error answer, is not.
Pull(c) ==
  /\ pc[c] = "pull"
  /\ \/ /\ server.text \in Faulty
        /\ Set(c, [job[c] EXCEPT !.found = server.text])
        /\ Goto(c, "close")
     \/ Goto(c, "wait") /\ UNCHANGED job
  /\ UNCHANGED <<disk, buffer, server, caches, pipe, published, drifted, effort>>

\* Faulty variant: any publication counts, the ones before the call too.
NewerOrNot(c) == published.generation > 0
Newer(c) == published.generation > job[c].after

\* A newer publication that is not empty is the result.
Wait(c) ==
  /\ pc[c] = "wait" /\ Newer(c)
  /\ IF published.of = Clean
       THEN Goto(c, "renew") /\ UNCHANGED job
       ELSE Set(c, [job[c] EXCEPT !.found = published.of]) /\ Goto(c, "close")
  /\ UNCHANGED <<disk, buffer, server, caches, pipe, published, drifted, effort>>

\* After an empty publication the generation is read again, in another section of the
\* lock; the wait goes on or its time is up.
Renew(c) ==
  /\ pc[c] = "renew"
  /\ \/ Set(c, [job[c] EXCEPT !.after = published.generation]) /\ Goto(c, "wait")
     \/ Set(c, [job[c] EXCEPT !.timedOut = TRUE]) /\ Goto(c, "cached")
  /\ UNCHANGED <<disk, buffer, server, caches, pipe, published, drifted, effort>>

TimeOut(c) ==
  /\ pc[c] = "wait" /\ ~Newer(c)
  /\ Set(c, [job[c] EXCEPT !.timedOut = TRUE])
  /\ Goto(c, "cached")
  /\ UNCHANGED <<disk, buffer, server, caches, pipe, published, drifted, effort>>

\* Faulty variant: without a newer publication there is no result.
CachedNever(c) ==
  /\ pc[c] = "cached"
  /\ Goto(c, "close")
  /\ UNCHANGED <<disk, buffer, server, caches, pipe, published, drifted, job, effort>>

\* allow_cached: without a newer one, the last publication if it is not empty.
Cached(c) ==
  /\ pc[c] = "cached"
  /\ Set(c, [job[c] EXCEPT !.found = published.of])
  /\ Goto(c, "close")
  /\ UNCHANGED <<disk, buffer, server, caches, pipe, published, drifted, effort>>

-----------------------------------------------------------------------------
(* The server and its reader, and changes of the file.                       *)

Publish ==
  /\ server.open /\ published.generation + Len(pipe) < MaxPublished
  /\ pipe' = Append(pipe, Diagnostics(server.text))
  /\ UNCHANGED <<disk, buffer, server, caches, published, drifted, pc, job, effort>>

\* _store_published_diagnostics, in the reader thread.
StorePublished ==
  /\ pipe # <<>>
  /\ published' = [generation |-> published.generation + 1, of |-> Head(pipe)]
  /\ pipe' = Tail(pipe)
  /\ UNCHANGED <<disk, buffer, server, caches, drifted, pc, job, effort>>

Doubting == [c \in Threads |-> IF pc[c] = "idle" THEN job[c] ELSE [job[c] EXCEPT !.doubt = TRUE]]

\* Another program writes the file; its time is new or that of the write before.
WriteOutside ==
  /\ effort < MaxEffort /\ effort' = effort + 1
  /\ disk' \in Texts \ {disk}
  /\ buffer' \in {buffer, [buffer EXCEPT !.newer = buffer.refs > 0]}
  /\ drifted' = (drifted \/ buffer.refs > 0)
  /\ job' = Doubting
  /\ UNCHANGED <<server, caches, pipe, published, pc>>

\* Faulty variant of the setter of contents: the hash is kept.
SetKeepingHash(b, text) == [b EXCEPT !.text = text]
\* The setter of contents.
SetContents(b, text) == [b EXCEPT !.text = text, !.hash = NoText]

\* A tool of another thread edits the document through the buffer and saves it.
Edit ==
  /\ effort < MaxEffort /\ effort' = effort + 1
  /\ \E text \in Texts \ {disk} :
       /\ disk' = text
       /\ IF buffer.refs = 0
            THEN UNCHANGED <<buffer, server>>
            ELSE /\ buffer' = [SetContents(Ensured(buffer), text) EXCEPT !.newer = FALSE]
                 /\ server' = [open |-> TRUE, text |-> text]
  /\ job' = Seen(Doubting)
  /\ UNCHANGED <<caches, pipe, published, drifted, pc>>

Step(c) ==
  \/ Begin(c) \/ Open(c) \/ Close(c)
  \/ LookHigh(c) \/ LookRaw(c) \/ Ask(c) \/ Store(c) \/ Convert(c) \/ Keep(c)
  \/ ReadGeneration(c) \/ Pull(c) \/ Wait(c) \/ Renew(c) \/ TimeOut(c) \/ Cached(c)

Next ==
  \/ \E c \in Threads : Step(c)
  \/ Publish \/ StorePublished \/ WriteOutside \/ Edit
  \/ Save \/ Restart

Spec == Init /\ [][Next]_vars

-----------------------------------------------------------------------------
(* Properties.                                                               *)

\* Every variable has its type, and the document is open in the server exactly when
\* the buffer of some call says so.
TypeOK ==
  /\ disk \in Texts
  /\ buffer.refs \in 0 .. Cardinality(Threads)
  /\ {buffer.text, buffer.hash} \subseteq Texts \cup {NoText}
  /\ server.open = buffer.opened /\ server.text \in Texts \cup {NoText}
  /\ \A entry \in {raw, high} : {entry.hash, entry.of, entry.lines} \subseteq Texts \cup {Nothing}
  /\ modified \subseteq {"raw", "high"} /\ version \in {1, 2}
  /\ published.generation + Len(pipe) \in Nat /\ published.of \in Faulty \cup {Clean}
  /\ \A c \in Threads : job[c].found \in Texts \cup {Nothing}

\* A cache entry is about the text whose hash it has: the response of the server, and
\* the lines its symbols' bodies are cut from.  The hash is taken after the response, so
\* entries made by a call during which the file was changed may be wrong, and entries
\* made while the server's text is not the file's.  An empty response is never kept raw,
\* nor is a response kept that an earlier version of the program has processed.
CachesAreTruthful ==
  /\ raw # NoEntry => raw.of # Nothing /\ raw.made = version
  /\ (raw # NoEntry /\ ~raw.doubt) => raw.of = raw.hash
  /\ (high # NoEntry /\ ~high.doubt) =>
       high.of \in {high.hash, Nothing} /\ high.lines = high.hash

\* The symbols a call returns are those of the file as it is, with the bodies of the
\* file as it is, whichever cache they come from, unless the file was changed during
\* the call or the entry used was made during a change, perhaps before a restart.
SymbolsAreCurrent ==
  \A c \in Threads :
    (pc[c] = "close" /\ job[c].kind = "symbols" /\ ~Doubtful(c) /\ job[c].found # Nothing) =>
      job[c].found = disk /\ job[c].lines = disk

\* Errors that a call reports are those of a text that the server had during the call,
\* unless its wait timed out and the publication before was taken, or publications
\* about an older text were still on their way when it began.
DiagnosticsAreCurrent ==
  \A c \in Threads :
    (/\ pc[c] = "close" /\ job[c].kind = "diagnostics" /\ job[c].found # Clean
     /\ ~job[c].timedOut /\ ~job[c].late)
    => job[c].found \in job[c].seen

\* A call that reports no errors does so when the last publication has none, although
\* the wait reads the generation twice and can skip a publication in between.
NoErrorsOverlooked ==
  [][\A c \in Threads :
       (/\ job[c].kind = "diagnostics" /\ pc[c] # "close" /\ pc'[c] = "close"
        /\ job'[c].found = Clean)
       => published'.of = Clean]_vars
=============================================================================
