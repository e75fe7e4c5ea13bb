----------------------------- MODULE EditSessions -----------------------------
(***************************************************************************)
(* File buffers and the tools that edit through them (ls.py, class         *)
(* LSPFileBuffer and open_file; semantic_tools.py).  A tool call opens a   *)
(* buffer, asks the language server where a symbol is, opens the buffer    *)
(* again, edits it, tells the server of each change and writes the text to *)
(* the file.  Buffers are shared through open_file_buffers and counted;    *)
(* nothing of this takes a lock, and tool calls run in threads.            *)
(*                                                                         *)
(* A step ends where a message is written, the file is read or written, or *)
(* open_file_buffers is looked up or changed.  A text is a sequence of     *)
(* lines, the last one without a newline; those that are natural numbers   *)
(* are the bodies of the symbol that the calls edit, and each call writes  *)
(* a body or a line of its own.                                            *)
(***************************************************************************)
EXTENDS Integers, FiniteSets, SequencesExt

CONSTANTS Threads,    \* threads that run tool calls
          Files,      \* files of the project
          Ops,        \* the tools that are called
          MaxEffort   \* bound: calls, and writes and removals by other programs, each at its Cost

ASSUME ThreadsAssumption == IsFiniteSet(Threads)
ASSUME FilesAssumption == IsFiniteSet(Files)
ASSUME OpsAssumption == Ops \subseteq {"overview", "define", "replace", "before", "after", "rename"}
ASSUME BoundAssumption == MaxEffort \in Nat

VARIABLES
  disk,      \* file -> its lines on disk
  missing,   \* files that another program has removed
  buffers,   \* buffer -> the fields of the LSPFileBuffer object; the text counts once it is
             \* read; of the two times, whether the file is newer than the one that was read
  open_file_buffers, \* file -> its registered buffer, 0 if there is none
  server,    \* file -> what the language server knows of it
  pc,        \* thread -> next step of its call
  job,       \* thread -> its call: arguments and locals
  stirred,   \* file -> ways in which the calls now under way on it interfered
  effort     \* spent of MaxEffort so far; the number of a call is what was spent with it

vars == <<disk, missing, buffers, open_file_buffers, server, pc, job, stirred, effort>>

-----------------------------------------------------------------------------
Line == -1                   \* a line that no call writes
Foreign == -2                \* a line that another program writes
Joined == -3                 \* two lines run together: a newline that was meant between is not there
Empty == -4                  \* what is left of a line when its text is deleted
Inserted(n) == -10 - n       \* the line that call n inserts before or after the symbol
SymbolAt(text) == SelectInSeq(text, LAMBDA line : line >= 0)

\* As many objects as can be held or registered; one that nothing refers to is reused.  The
\* field lost, a history, counts the users in refs that will never be counted down.
BufferIds == 1 .. 2 * Cardinality(Threads) + Cardinality(Files)
NoBuffer == [file |-> "none", read |-> FALSE, text |-> <<>>, newer |-> FALSE, refs |-> 0,
             opened |-> FALSE, version |-> 0, lost |-> 0]
Unopened == [open |-> FALSE, text |-> <<>>, version |-> 0, broken |-> FALSE]

\* plan: the phases to come; held: the buffers whose with-block is entered; next: the
\* step after the server has been told; note: what it will be told; at: the resolved
\* position in each file; fb and out: the buffer to save and its text.  saved and
\* before, the files saved and the files as the call found them, are for the properties.
NoJob == [op |-> "none", n |-> 0, file |-> "none", plan |-> <<>>, held |-> <<>>,
          next |-> "none", note |-> <<>>, at |-> [f \in Files |-> 0], fb |-> 0, out |-> <<>>,
          failed |-> "no", saved |-> {}, before |-> [f \in Files |-> <<>>]]

Init ==
  /\ disk = [f \in Files |-> <<Line, 0>>]
  /\ missing = {}
  /\ buffers = [b \in BufferIds |-> NoBuffer]
  /\ open_file_buffers = [f \in Files |-> 0]
  /\ server = [f \in Files |-> Unopened]
  /\ pc = [c \in Threads |-> "idle"]
  /\ job = [c \in Threads |-> NoJob]
  /\ stirred = [f \in Files |-> {}]
  /\ effort = 0

-----------------------------------------------------------------------------
(* What a thread is at.                                                      *)

Phase(c) == Head(job[c].plan)
Doing(c) == Phase(c)[1]
File(c) == Phase(c)[2]
Depth(c) == Len(job[c].held)
Buffer(c) == Last(job[c].held)
Edits(c) == job[c].op \in {"replace", "before", "after", "rename"}

\* Files that the call of c works on.
Touches(c) == IF job[c].op = "rename" THEN Files ELSE {job[c].file}
InFlight(f) == {c \in Threads : pc[c] # "idle" /\ f \in Touches(c)}

\* Threads between the look-up and the registration of a buffer, between the count's
\* reaching zero and the buffer's removal, or about to open it in the server.
Between(f) == {c \in Threads : /\ \/ pc[c] \in {"did open", "store", "close", "del"}
                                  \/ pc[c] = "ensure" /\ job[c].next = "store"
                               /\ File(c) = f}
Stir(f, kinds) == [stirred EXCEPT ![f] = @ \cup kinds]
OthersBetween(c) == IF Between(File(c)) \ {c} # {} THEN {"window"} ELSE {}
\* Another thread has truncated the file and not written it yet.
Truncated(c) == IF \E d \in Threads \ {c} : pc[d] = "put" /\ File(d) = File(c)
                  THEN {"torn"} ELSE {}

\* Property contents: the file is read if it has not been, or is newer.  Its time is asked
\* for in any case, which raises if the file is missing.
Raises(b) == buffers[b].file \in missing
Fresh(b) == IF ~buffers[b].read \/ buffers[b].newer
              THEN [buffers[b] EXCEPT !.text = disk[buffers[b].file], !.read = TRUE, !.newer = FALSE]
              ELSE buffers[b]

\* Faulty variant: a change does not count the version up.
SameVersion(version) == version
NextVersion(version) == version + 1

SetJob(c, changes) == job' = [job EXCEPT ![c] = changes]
Goto(c, step) == pc' = [pc EXCEPT ![c] = step]

-----------------------------------------------------------------------------
(* A call's beginning and end.                                               *)

\* The phases of a call: it asks the server about the file, then edits.
Plan(op, f) ==
  CASE op \in {"overview", "define"} -> <<<<"ask", f>>>>
    [] op \in {"replace", "before", "after"} -> <<<<"ask", f>>, <<"edit", f>>>>
    [] op = "rename" -> <<<<"ask", f>>>>

\* What an operation spends of the bound: two edits of a file may overlap, or an
\* edit, a reading call and a write by another program, or a rename and one of these.
Cost(op) == CASE op = "rename" -> 3 [] op \in {"replace", "before", "after"} -> 2 [] OTHER -> 1

\* What an edit that begins on f meets there: another edit under way, or a server that
\* has another text than the buffer since a line was inserted past the end, or, in a rename,
\* no file.
Meets(f) == (IF \E d \in InFlight(f) : Edits(d) THEN {"edit"} ELSE {})
              \cup (IF "end" \in stirred[f] THEN {"apart"} ELSE {})
              \cup (IF f \in missing THEN {"outside"} ELSE {})

\* The path must exist.
Begin(c) ==
  /\ pc[c] = "idle"
  /\ \E op \in Ops, f \in Files \ missing :
       /\ effort + Cost(op) <= MaxEffort
       /\ effort' = effort + Cost(op)
       /\ SetJob(c, [NoJob EXCEPT !.op = op, !.n = effort', !.file = f,
                                  !.plan = Plan(op, f), !.before = disk])
       /\ stirred' = [g \in Files |->
            stirred[g] \cup
              IF op \in {"replace", "before", "after", "rename"} /\ (g = f \/ op = "rename")
                THEN Meets(g) ELSE {}]
  /\ Goto(c, "open")
  /\ UNCHANGED <<disk, missing, buffers, open_file_buffers, server>>

\* The call returns or raises.  What it stirred is over when it was the last, but for a
\* failed opening that has left the buffer registered.
Return(c) ==
  /\ pc[c] = "return"
  /\ Goto(c, "idle")
  /\ SetJob(c, NoJob)
  /\ stirred' = [f \in Files |->
       IF InFlight(f) \subseteq {c}
         THEN IF open_file_buffers[f] = 0 THEN {} ELSE stirred[f] \cap {"unread"}
         ELSE stirred[f]]
  /\ server' = [f \in Files |-> IF InFlight(f) \subseteq {c}
                                  THEN [server[f] EXCEPT !.broken = FALSE] ELSE server[f]]
  /\ UNCHANGED <<disk, missing, buffers, open_file_buffers, effort>>

\* An exception: the finally blocks of the buffers that are held run.
FailWith(c, why, j) ==
  /\ SetJob(c, [j EXCEPT !.failed = why])
  /\ Goto(c, IF j.held = <<>> THEN "return" ELSE "drop")

-----------------------------------------------------------------------------
(* open_file.                                                                *)

\* The symbol tools make the buffer first and open it in the server later.
Lazy(c) == Doing(c) = "ask" /\ job[c].op \in {"overview", "replace", "before", "after"}

\* The first step in a with-block; apply_text_edits_to_file enters a second one.
Inside(c, depth) ==
  CASE Lazy(c) -> "look"
    [] Doing(c) = "ask" /\ ~Lazy(c) -> "ask"
    [] Doing(c) = "edit" /\ job[c].op \in {"before", "after"} -> "insert"
    [] Doing(c) = "edit" /\ job[c].op \notin {"before", "after"} -> IF depth = 1 THEN "open" ELSE "delete"

\* An object that is neither registered nor held is garbage.
Garbage == {b \in BufferIds : /\ \A f \in Files : open_file_buffers[f] # b
                              /\ \A c \in Threads : b \notin ToSet(job[c].held) \cup {job[c].fb}}

\* Faulty variant: a registered buffer is used without being counted.
OpenUncounted(c) ==
  /\ pc[c] = "open"
  /\ LET b == open_file_buffers[File(c)]
         new == CHOOSE g \in Garbage : TRUE
     IN  /\ SetJob(c, [job[c] EXCEPT !.held = Append(@, IF b = 0 THEN new ELSE b),
                                     !.next = IF b = 0 THEN "store" ELSE Inside(c, Depth(c) + 1)])
         /\ buffers' = IF b # 0 THEN buffers
              ELSE [buffers EXCEPT ![new] = [NoBuffer EXCEPT !.file = File(c), !.refs = 1]]
  /\ Goto(c, "ensure")
  /\ stirred' = Stir(File(c), OthersBetween(c))
  /\ UNCHANGED <<disk, missing, open_file_buffers, server, effort>>

\* A registered buffer is counted once more, otherwise a new one is made, which
\* opens itself in the server before it is registered.
Open(c) ==
  /\ pc[c] = "open"
  /\ LET b == open_file_buffers[File(c)]
         new == CHOOSE g \in Garbage : TRUE
     IN  \/ /\ b = 0
            /\ buffers' = [buffers EXCEPT ![new] = [NoBuffer EXCEPT !.file = File(c), !.refs = 1]]
            /\ SetJob(c, [job[c] EXCEPT !.held = Append(@, new), !.next = "store"])
            /\ Goto(c, "ensure")
         \/ /\ b # 0 /\ buffers[b].refs >= 1
            /\ buffers' = [buffers EXCEPT ![b].refs = @ + 1]
            /\ SetJob(c, [job[c] EXCEPT !.held = Append(@, b), !.next = Inside(c, Depth(c) + 1)])
            /\ Goto(c, "ensure")
         \/ /\ b # 0 /\ buffers[b].refs = 0     \* assert fb.ref_count >= 1
            /\ FailWith(c, "assertion", job[c])
            /\ UNCHANGED buffers
  /\ stirred' = Stir(File(c), OthersBetween(c))
  /\ UNCHANGED <<disk, missing, open_file_buffers, server, effort>>

\* Nothing to open: it is open, or the tool opens it later.
Opened(c) == buffers[Buffer(c)].opened \/ (Lazy(c) /\ job[c].next # "ask")

\* _open_in_ls: the flag is set and the contents are read, then didOpen is sent.
EnsureOpen(c) ==
  /\ pc[c] = "ensure"
  /\ LET b == Buffer(c) f == File(c)
     IN  IF Opened(c)
           THEN /\ Goto(c, job[c].next)
                /\ stirred' = Stir(f, OthersBetween(c))
                /\ UNCHANGED <<buffers, job>>
           ELSE /\ ~Raises(b)
                /\ buffers' = [buffers EXCEPT ![b] = [Fresh(b) EXCEPT !.opened = TRUE]]
                /\ SetJob(c, [job[c] EXCEPT !.note = Fresh(b).text])
                /\ Goto(c, "did open")
                /\ stirred' = Stir(f, OthersBetween(c) \cup Truncated(c))
  /\ UNCHANGED <<disk, missing, open_file_buffers, server, effort>>

\* Some thread but for the last with-block of c still has the buffer.
HeldElsewhere(b, c) == \/ b \in ToSet(Front(job[c].held))
                       \/ \E d \in Threads \ {c} : b \in ToSet(job[d].held)

\* Reading the contents raises, after the flag was set.  A tool that opens later is in the
\* with-block then and leaves it.  The others are not in it yet, so that nothing is undone:
\* the count stays with a buffer that is in use, and a new one is garbage.
OpenFails(c) ==
  /\ pc[c] = "ensure" /\ ~Opened(c) /\ Raises(Buffer(c))
  /\ LET b == Buffer(c)
         outside == [job[c] EXCEPT !.held = Front(@)]
         inUse == Lazy(c) \/ HeldElsewhere(b, c) \/ open_file_buffers[File(c)] = b
     IN  /\ buffers' = [buffers EXCEPT ![b] =
              IF inUse THEN [buffers[b] EXCEPT !.opened = TRUE, !.lost = @ + IF Lazy(c) THEN 0 ELSE 1]
                       ELSE NoBuffer]
         /\ FailWith(c, "unread", IF Lazy(c) THEN job[c] ELSE outside)
         /\ stirred' = Stir(File(c), OthersBetween(c) \cup IF inUse THEN {"unread"} ELSE {})
  /\ UNCHANGED <<disk, missing, open_file_buffers, server, effort>>

\* Elsewhere contents is read in the with-block: in the look-up, to change a buffer, which has
\* counted its version up by then, and to save; or the time of a file that was saved.
ReadFails(c) ==
  /\ pc[c] \in {"look", "delete", "insert", "save", "stamp"} /\ File(c) \in missing
  /\ LET b == open_file_buffers[File(c)]
     IN  \/ /\ pc[c] \in {"look", "stamp"} \/ (pc[c] = "save" /\ b # 0)
            /\ UNCHANGED buffers
         \/ /\ pc[c] \in {"delete", "insert"} /\ b # 0
            /\ buffers' = [buffers EXCEPT ![b].version = NextVersion(@)]
  /\ FailWith(c, "unread", [job[c] EXCEPT !.fb = 0, !.out = <<>>])
  /\ UNCHANGED <<disk, missing, open_file_buffers, server, stirred, effort>>

DidOpen(c) ==
  /\ pc[c] = "did open"
  /\ server' = [server EXCEPT ![File(c)] =
        [open |-> TRUE, text |-> job[c].note, version |-> 0, broken |-> @.broken \/ @.open]]
  /\ Goto(c, job[c].next)
  /\ SetJob(c, [job[c] EXCEPT !.note = <<>>])
  /\ UNCHANGED <<disk, missing, buffers, open_file_buffers, stirred, effort>>

Store(c) ==
  /\ pc[c] = "store"
  /\ open_file_buffers' = [open_file_buffers EXCEPT ![File(c)] = Buffer(c)]
  /\ Goto(c, Inside(c, Depth(c)))
  /\ UNCHANGED <<disk, missing, buffers, server, job, stirred, effort>>

\* The symbol is found, or it is not and the tools that edit it raise.
Located(c, symbols) ==
  /\ SetJob(c, [job[c] EXCEPT !.at = symbols,
       !.failed = IF Edits(c) /\ symbols[File(c)] = 0 THEN "no symbol" ELSE "no"])
  /\ Goto(c, "drop")

\* The symbol tools look in the cache of this very text, and open the buffer in the
\* server to ask it if they find nothing there.
LookInCache(c) ==
  /\ pc[c] = "look" /\ ~Raises(Buffer(c))
  /\ LET f == File(c) b == Buffer(c)
     IN  /\ buffers' = [buffers EXCEPT ![b] = Fresh(b)]
         /\ stirred' = Stir(f, Truncated(c))
         /\ \/ /\ SetJob(c, [job[c] EXCEPT !.next = "ask"])
               /\ Goto(c, "ensure")
            \/ Located(c, [g \in Files |-> IF g = f THEN SymbolAt(Fresh(b).text) ELSE 0])
  /\ UNCHANGED <<disk, missing, open_file_buffers, server, effort>>

\* What the server sees: the text it was told if the document is open, else the file.
Seen(f) == IF server[f].open THEN server[f].text ELSE disk[f]

\* The request and its response.
Ask(c) ==
  /\ pc[c] = "ask"
  /\ LET renamed == job[c].op = "rename"
         symbols == [g \in Files |-> IF renamed \/ g = File(c) THEN SymbolAt(Seen(g)) ELSE 0]
     IN  IF renamed /\ symbols[File(c)] # 0
           THEN \E order \in SetToSeqs({g \in Files : symbols[g] # 0}) :
                  /\ SetJob(c, [job[c] EXCEPT !.at = symbols,
                       !.plan = <<@[1]>> \o [i \in 1 .. Len(order) |-> <<"edit", order[i]>>]])
                  /\ Goto(c, "drop")
           ELSE Located(c, symbols)
  /\ UNCHANGED <<disk, missing, buffers, open_file_buffers, server, stirred, effort>>

\* The rest of the call after a with-block of it is left.
AfterDrop(c, j) ==
  IF j.failed # "no"
    THEN SetJob(c, j) /\ Goto(c, IF j.held = <<>> THEN "return" ELSE "drop")
    ELSE IF j.held # <<>>
      THEN SetJob(c, j) /\ Goto(c, "save")
      ELSE /\ SetJob(c, [j EXCEPT !.plan = Tail(@)])
           /\ Goto(c, IF Len(j.plan) = 1 THEN "return"
                      ELSE IF j.op = "rename" THEN "validate" ELSE "open")

\* Faulty variant: the last but one closes the buffer.
DropEarly(c) ==
  /\ pc[c] = "drop"
  /\ LET b == Buffer(c)
     IN  /\ buffers' = [buffers EXCEPT ![b].refs = @ - 1]
         /\ IF buffers[b].refs <= 2
              THEN Goto(c, "close") /\ UNCHANGED job
              ELSE AfterDrop(c, [job[c] EXCEPT !.held = Front(@)])
  /\ UNCHANGED <<disk, missing, open_file_buffers, server, stirred, effort>>

\* The finally block: the last one out closes the buffer and removes it.
Drop(c) ==
  /\ pc[c] = "drop"
  /\ LET b == Buffer(c)
     IN  /\ buffers' = [buffers EXCEPT ![b].refs = @ - 1]
         /\ IF buffers[b].refs = 1
              THEN Goto(c, "close") /\ UNCHANGED job
              ELSE AfterDrop(c, [job[c] EXCEPT !.held = Front(@)])
  /\ UNCHANGED <<disk, missing, open_file_buffers, server, stirred, effort>>

Close(c) ==
  /\ pc[c] = "close"
  /\ server' = IF buffers[Buffer(c)].opened
                 THEN [server EXCEPT ![File(c)] =
                        [Unopened EXCEPT !.broken = server[File(c)].broken \/ ~server[File(c)].open]]
                 ELSE server
  /\ Goto(c, "del")
  /\ UNCHANGED <<disk, missing, buffers, open_file_buffers, job, stirred, effort>>

\* Faulty variant: an exception leaves the buffer registered.
DelUnlessFailed(c) ==
  /\ pc[c] = "del"
  /\ open_file_buffers' = IF job[c].failed = "no" THEN [open_file_buffers EXCEPT ![File(c)] = 0]
                                                  ELSE open_file_buffers
  /\ AfterDrop(c, [job[c] EXCEPT !.held = Front(@)])
  /\ UNCHANGED <<disk, missing, buffers, server, stirred, effort>>

\* del raises a KeyError if another thread has removed the entry already.  The object
\* is garbage when nobody holds it.
Del(c) ==
  /\ pc[c] = "del"
  /\ open_file_buffers' = [open_file_buffers EXCEPT ![File(c)] = 0]
  /\ LET j == [job[c] EXCEPT !.held = Front(@)]
         b == Buffer(c)
     IN  /\ buffers' = IF HeldElsewhere(b, c) THEN buffers ELSE [buffers EXCEPT ![b] = NoBuffer]
         /\ AfterDrop(c, IF open_file_buffers[File(c)] = 0 THEN [j EXCEPT !.failed = "key"] ELSE j)
  /\ UNCHANGED <<disk, missing, server, stirred, effort>>

-----------------------------------------------------------------------------
(* The edits.                                                                *)

\* What the call writes: a new body, or a line before or after the symbol.
NewLine(c) == IF job[c].op \in {"before", "after"} THEN Inserted(job[c].n) ELSE job[c].n

\* Where: the line of the symbol as it was resolved, or the next one, which may be the
\* one past the end of the text.
Place(c) == job[c].at[File(c)] + IF job[c].op = "after" THEN 1 ELSE 0

\* A line whose text is deleted stays, empty; the text of a body goes to the beginning of a
\* line, that of a line inserted before or after the symbol ends in a newline.
Replaces(c) == job[c].op \in {"replace", "rename"}
Filled(c, line) == IF line = Empty THEN NewLine(c) ELSE Joined

\* delete_text_between_positions or insert_text_at_position, at the end of the text with a
\* newline before it.
Changed(c, text) ==
  LET i == Place(c)
  IN  CASE pc[c] = "delete" -> ReplaceAt(text, i, Empty)
        [] pc[c] = "insert" /\ Replaces(c) /\ i <= Len(text) -> ReplaceAt(text, i, Filled(c, text[i]))
        [] pc[c] = "insert" /\ ~(Replaces(c) /\ i <= Len(text)) -> InsertAt(text, i, NewLine(c))

\* An edit of the buffer that is registered now: its text is read again if the file
\* is newer, and then changed.  The position may be beyond its end.
Change(c, pastEnd, next) ==
  LET f == File(c)
      b == open_file_buffers[f]
      r == [Fresh(b) EXCEPT !.version = NextVersion(@)]
  IN  IF b = 0
        THEN /\ FailWith(c, "assertion", job[c])    \* assert uri in self.open_file_buffers
             /\ UNCHANGED <<buffers, stirred>>
        ELSE /\ ~Raises(b)
             /\ stirred' = Stir(f, Truncated(c) \cup IF Place(c) > Len(r.text) THEN {"end"} ELSE {})
             /\ IF Place(c) <= Len(r.text) + pastEnd
                  THEN /\ buffers' = [buffers EXCEPT ![b] = [r EXCEPT !.text = Changed(c, @)]]
                       /\ SetJob(c, [job[c] EXCEPT !.note = <<r.version>>])
                       /\ Goto(c, next)
                  ELSE /\ buffers' = [buffers EXCEPT ![b] = r]
                       /\ FailWith(c, "location", job[c])

Delete(c) ==
  /\ pc[c] = "delete"
  /\ Change(c, 0, "did delete")
  /\ UNCHANGED <<disk, missing, open_file_buffers, server, effort>>

Insert(c) ==
  /\ pc[c] = "insert"
  /\ Change(c, 1, "did insert")
  /\ UNCHANGED <<disk, missing, open_file_buffers, server, effort>>

\* Faulty variant: the server is told of the line after, to insert at.
MirrorLineAfter(c, text) ==
  LET n == Len(text) i == Place(c)
  IN  CASE pc[c] = "did delete" -> IF i <= n THEN ReplaceAt(text, i, Empty) ELSE text
        [] pc[c] = "did insert" /\ i < n -> InsertAt(text, i + 1, NewLine(c))
        [] pc[c] = "did insert" /\ i >= n -> Append(text, NewLine(c))

\* The same change of the server's text.  Beyond its end nothing is deleted, and what is
\* inserted goes to the end, without the newline that the buffer has before it.
Mirror(c, text) ==
  LET n == Len(text) i == Place(c)
  IN  CASE pc[c] = "did delete" -> IF i <= n THEN ReplaceAt(text, i, Empty) ELSE text
        [] pc[c] = "did insert" /\ i <= n ->
             IF Replaces(c) THEN ReplaceAt(text, i, Filled(c, text[i])) ELSE InsertAt(text, i, NewLine(c))
        [] pc[c] = "did insert" /\ i > n ->
             IF n = 0 THEN <<NewLine(c)>> ELSE ReplaceAt(text, n, Filled(c, text[n]))

\* didChange is sent.
DidChange(c) ==
  /\ pc[c] \in {"did delete", "did insert"}
  /\ LET f == File(c) version == job[c].note[1] s == server[f]
     IN  server' = [server EXCEPT ![f] =
           IF s.open THEN [s EXCEPT !.text = Mirror(c, s.text), !.version = version,
                                    !.broken = s.broken \/ version <= s.version]
                     ELSE [s EXCEPT !.broken = TRUE]]
  /\ Goto(c, IF pc[c] = "did delete" THEN "insert" ELSE IF Depth(c) = 2 THEN "drop" ELSE "save")
  /\ SetJob(c, [job[c] EXCEPT !.note = <<>>])
  /\ UNCHANGED <<disk, missing, buffers, open_file_buffers, stirred, effort>>

\* request_rename validates the path of each file before it is opened.
Validate(c) ==
  /\ pc[c] = "validate"
  /\ \/ File(c) \notin missing /\ Goto(c, "open") /\ UNCHANGED job
     \/ FailWith(c, "denied", job[c])
  /\ UNCHANGED <<disk, missing, buffers, open_file_buffers, server, stirred, effort>>

-----------------------------------------------------------------------------
(* _persist_buffer_to_disk.                                                  *)

\* The file is written: its time is that of the write before, or a later one.
Written(f, text) ==
  /\ disk' = [disk EXCEPT ![f] = text]
  /\ \E later \in BOOLEAN :
       buffers' = [b \in BufferIds |-> IF buffers[b].file = f /\ later
                                         THEN [buffers[b] EXCEPT !.newer = TRUE] ELSE buffers[b]]

\* Faulty variant: the file is truncated before the contents are taken.
SaveTruncating(c) ==
  /\ pc[c] = "save"
  /\ open_file_buffers[File(c)] # 0
  /\ Written(File(c), <<>>)
  /\ LET f == File(c) b == open_file_buffers[f]
     IN  SetJob(c, [job[c] EXCEPT !.fb = b, !.out = IF buffers'[b].newer THEN <<>>
                                                     ELSE buffers[b].text])
  /\ Goto(c, "put")
  /\ UNCHANGED <<missing, open_file_buffers, server, stirred, effort>>

Save(c) ==
  /\ pc[c] = "save"
  /\ LET f == File(c) b == open_file_buffers[f]
     IN  IF b = 0
           THEN FailWith(c, "key", job[c]) /\ UNCHANGED <<buffers, stirred>>
           ELSE /\ ~Raises(b)
                /\ buffers' = [buffers EXCEPT ![b] = Fresh(b)]
                /\ SetJob(c, [job[c] EXCEPT !.fb = b, !.out = Fresh(b).text])
                /\ Goto(c, "truncate")
                /\ stirred' = Stir(f, Truncated(c))
  /\ UNCHANGED <<disk, missing, open_file_buffers, server, effort>>

\* A file that is missing is made again.
Truncate(c) ==
  /\ pc[c] = "truncate"
  /\ Written(File(c), <<>>)
  /\ missing' = missing \ {File(c)}
  /\ Goto(c, "put")
  /\ UNCHANGED <<open_file_buffers, server, job, stirred, effort>>

\* The text goes to the beginning of the file; what lies behind its end stays.
Put(c) ==
  /\ pc[c] = "put"
  /\ LET f == File(c) out == job[c].out
     IN  Written(f, out \o SubSeq(disk[f], Len(out) + 1, Len(disk[f])))
  /\ Goto(c, "stamp")
  /\ UNCHANGED <<missing, open_file_buffers, server, job, stirred, effort>>

\* The buffer takes the file's time for its own.
Stamp(c) ==
  /\ pc[c] = "stamp" /\ File(c) \notin missing
  /\ buffers' = [buffers EXCEPT ![job[c].fb].newer = FALSE]
  /\ SetJob(c, [job[c] EXCEPT !.fb = 0, !.out = <<>>, !.saved = @ \cup {File(c)}])
  /\ Goto(c, "drop")
  /\ UNCHANGED <<disk, missing, open_file_buffers, server, stirred, effort>>

-----------------------------------------------------------------------------
\* What another program does to a file while calls are at work on it.
Interfere(f) == stirred' = IF InFlight(f) = {} THEN stirred ELSE Stir(f, {"outside"})

\* Another program writes a line at the top of the file.
WriteOutside(f) ==
  /\ f \notin missing
  /\ effort + Cost("write") <= MaxEffort
  /\ effort' = effort + Cost("write")
  /\ Written(f, <<Foreign>> \o disk[f])
  /\ Interfere(f)
  /\ UNCHANGED <<missing, open_file_buffers, server, pc, job>>

\* Another program, or a tool that deletes or moves files, removes the file.  Bound: not
\* between the truncation of the file and the writing of its text.
RemoveOutside(f) ==
  /\ f \notin missing
  /\ \A c \in Threads : pc[c] = "put" => File(c) # f
  /\ effort + Cost("remove") <= MaxEffort
  /\ effort' = effort + Cost("remove")
  /\ missing' = missing \cup {f}
  /\ disk' = [disk EXCEPT ![f] = <<>>]
  /\ Interfere(f)
  /\ UNCHANGED <<buffers, open_file_buffers, server, pc, job>>

\* And puts one there again, as when it goes from one version of a project to another.
RestoreOutside(f) ==
  /\ f \in missing
  /\ missing' = missing \ {f}
  /\ Written(f, <<Line, 0>>)
  /\ Interfere(f)
  /\ UNCHANGED <<open_file_buffers, server, pc, job, effort>>

Step(c) ==
  \/ Begin(c) \/ Return(c)
  \/ Open(c) \/ EnsureOpen(c) \/ OpenFails(c) \/ ReadFails(c) \/ DidOpen(c) \/ Store(c) \/ Drop(c) \/ Close(c) \/ Del(c)
  \/ LookInCache(c) \/ Ask(c) \/ Validate(c) \/ Delete(c) \/ Insert(c) \/ DidChange(c)
  \/ Save(c) \/ Truncate(c) \/ Put(c) \/ Stamp(c)

Outside(f) == WriteOutside(f) \/ RemoveOutside(f) \/ RestoreOutside(f)

Next == (\E c \in Threads : Step(c)) \/ (\E f \in Files : Outside(f))

Spec == Init /\ [][Next]_vars

-----------------------------------------------------------------------------
(* Properties.                                                               *)

Steps == {"idle", "return", "open", "ensure", "did open", "store", "look", "ask", "drop", "close",
          "del", "validate", "delete", "did delete", "insert", "did insert", "save", "truncate",
          "put", "stamp"}

\* Every variable has its type; a count of users is never below zero.
TypeOK ==
  /\ disk \in [Files -> Seq(Int)]
  /\ missing \subseteq Files
  /\ buffers \in [BufferIds -> [file : Files \cup {"none"}, read : BOOLEAN, text : Seq(Int),
                                newer : BOOLEAN, refs : Nat,
                                opened : BOOLEAN, version : Nat, lost : Nat]]
  /\ open_file_buffers \in [Files -> BufferIds \cup {0}]
  /\ server \in [Files -> [open : BOOLEAN, text : Seq(Int), version : Nat, broken : BOOLEAN]]
  /\ pc \in [Threads -> Steps]
  /\ stirred \in [Files -> SUBSET {"window", "edit", "torn", "outside", "end", "apart", "unread"}]
  /\ effort \in 0 .. MaxEffort

\* c has entered the with-block i of its call with buffer b, and has not counted it down.
Holds(c, i, b) == /\ i <= Depth(c) /\ job[c].held[i] = b
                  /\ ~(pc[c] \in {"close", "del"} /\ i = Depth(c))

\* How often buffer b is held.
Users(b) == Cardinality({u \in Threads \X (1 .. 2) : Holds(u[1], u[2], b)})

\* Threads that use a file at the same time share one buffer, the registered one,
\* which counts them, and besides them only the openings that failed after they were
\* counted, unless one of them looked the file up while another was about to register or
\* to remove its buffer.  So nobody's buffer is closed while it is used.
SharedBuffer ==
  \A f \in Files : "window" \notin stirred[f] =>
    \A c \in Threads : (job[c].held # <<>> /\ File(c) = f) =>
      \A i \in 1 .. Depth(c) :
        LET b == job[c].held[i]
        IN  /\ buffers[b].refs = Users(b) + buffers[b].lost
            /\ \/ open_file_buffers[f] = b
               \/ open_file_buffers[f] = 0 /\ c \in Between(f)

\* A call fails on the buffer table, by a failed assertion or a missing key, only after
\* such an overlap.
TableFailuresAreRaced ==
  \A c \in Threads : (pc[c] = "drop" /\ job[c].failed \in {"assertion", "key"})
    => "window" \in stirred[File(c)]

\* And it fails on a position beyond the end of the text only after that or another
\* interference.
FailuresAreRaced ==
  /\ TableFailuresAreRaced
  /\ \A c \in Threads : (pc[c] = "drop" /\ job[c].failed = "location")
       => stirred[File(c)] \ {"end"} # {}

\* The server is told of a document in the order the protocol asks for: opened when it
\* is closed, changed while it is open and with growing versions, closed once.  Only
\* overlapping openings and overlapping edits of the file break it, and an opening that
\* could not read the file: its buffer passes for open.
ProtocolKept ==
  \A f \in Files : server[f].broken => stirred[f] \cap {"window", "edit", "unread"} # {}

\* Between two messages the server's text of an open document is the buffer's text, but
\* after a line was inserted past the end.
MirrorMatches ==
  \A f \in Files :
    LET b == open_file_buffers[f]
    IN  (/\ b # 0 /\ stirred[f] = {}
         /\ \A c \in Threads :
              pc[c] \in {"did open", "did delete", "did insert", "close", "del"} => File(c) # f)
        => /\ server[f].open = buffers[b].opened
           /\ buffers[b].opened => server[f].text = buffers[b].text

\* The file as a call should leave it, from the file as it found it.
Edited(c, text) ==
  LET i == SymbolAt(text)
  IN  CASE job[c].op = "before" -> InsertAt(text, i, NewLine(c))
        [] job[c].op = "after" -> InsertAt(text, i + 1, NewLine(c))
        [] OTHER -> ReplaceAt(text, i, NewLine(c))

\* A call that ends has changed the files that it has saved, and only these, in the
\* place of the symbol and nowhere else, whatever other calls read the file at the same
\* time; if it succeeds it has saved every file that has the symbol.  A rename that is
\* refused at one file leaves the files before it renamed and the others as they were.
\* A call that inserts past the end may do so, but one that begins while the server has
\* another text for that reason asks it in vain: a rename overlooks the file.
EditsAreSaved ==
  \A c \in Threads : (pc[c] = "return" /\ Edits(c)) =>
    \A f \in Touches(c) : stirred[f] \subseteq {"end"} =>
      /\ disk[f] = IF f \in job[c].saved THEN Edited(c, job[c].before[f]) ELSE job[c].before[f]
      /\ job[c].failed = "no" /\ SymbolAt(job[c].before[f]) # 0 => f \in job[c].saved

\* When no call works on a file, the server has closed the document, however the calls
\* before overlapped and failed, and its buffer is gone, unless an opening that failed has
\* left it a user too many.
NothingLeftOpen ==
  \A f \in Files : InFlight(f) = {} =>
    LET b == open_file_buffers[f] IN ~server[f].open /\ (b # 0 => buffers[b].lost > 0)
=============================================================================
