-------------------------- MODULE EditSessionsProofs --------------------------
(***************************************************************************)
(* Theorems about EditSessions, for any threads, files, tools and bound:   *)
(* what a call holds is counted, threads that use a file share one buffer, *)
(* and nothing is left open.  Each step changes the locals of one thread   *)
(* (Local) and perhaps the table of buffers (Table), so that the locals    *)
(* are proved first, once for all steps.                                   *)
(***************************************************************************)
EXTENDS EditSessions, TLAPS, FiniteSetTheorems, WellFoundedInduction

Text == Seq(Int)

-----------------------------------------------------------------------------
(* The locals of a call.                                                     *)

Insides == {"look", "ask", "insert", "open", "delete"}
Failures == {"no", "assertion", "key", "location", "denied", "no symbol", "unread"}

JobType ==
  [op : Ops \cup {"none"}, n : Nat, file : Files \cup {"none"},
   plan : Seq({"ask", "edit"} \X Files), held : Seq(BufferIds),
   next : Insides \cup {"none", "store"}, note : Text, at : [Files -> Nat],
   fb : BufferIds \cup {0}, out : Text, failed : Failures, saved : SUBSET Files,
   before : [Files -> Text]]

\* The tools that edit through apply_text_edits_to_file, which opens the file again.
Twice(c) == Doing(c) = "edit" /\ job[c].op \notin {"before", "after"}

\* How many with-blocks c is in at each step, and what it remembers there.
Placed(c) ==
  /\ pc[c] = "idle" => job[c] = NoJob
  /\ pc[c] \in {"return", "validate"} => Depth(c) = 0
  /\ pc[c] \notin {"idle", "return"} => job[c].plan # <<>>
  /\ pc[c] = "open" => Depth(c) = 0 \/ (Depth(c) = 1 /\ Twice(c))
  /\ pc[c] \in {"ensure", "did open", "store", "drop", "close", "del"} =>
       Depth(c) = 1 \/ (Depth(c) = 2 /\ Twice(c))
  /\ pc[c] = "look" => Depth(c) = 1 /\ Lazy(c)
  /\ pc[c] = "ask" => Depth(c) = 1 /\ Doing(c) = "ask"
  /\ pc[c] \in {"delete", "did delete"} => Depth(c) = 2 /\ Twice(c)
  /\ pc[c] \in {"insert", "did insert"} =>
       (Depth(c) = 2 /\ Twice(c)) \/ (Depth(c) = 1 /\ Doing(c) = "edit" /\ ~Twice(c))
  /\ pc[c] \in {"save", "truncate", "put", "stamp"} => Depth(c) = 1 /\ Doing(c) = "edit"
  /\ pc[c] \in {"ensure", "did open"} =>
       \/ job[c].next \in {"store", Inside(c, Depth(c))}
       \/ job[c].next = "ask" /\ Depth(c) = 1 /\ Lazy(c)
  /\ pc[c] \in {"truncate", "put", "stamp"} <=> job[c].fb # 0
  /\ pc[c] \in {"did delete", "did insert"} => Len(job[c].note) = 1 /\ job[c].note[1] \in Nat

\* A call edits only what it was asked for, after it asked where, and a place it found.
Planned(c) ==
  LET plan == job[c].plan
  IN  /\ \A i \in 2 .. Len(plan) : plan[i][1] = "edit"
      /\ job[c].op # "rename" => \A i \in 1 .. Len(plan) : plan[i][2] = job[c].file
      /\ ~Edits(c) => \A i \in 1 .. Len(plan) : plan[i][1] = "ask"
      /\ \/ plan # <<>> /\ Doing(c) = "edit"
         \/ job[c].failed = "no" /\ pc[c] \in {"drop", "close", "del"}
         => \A i \in 1 .. Len(plan) : plan[i][1] = "edit" => job[c].at[plan[i][2]] >= 1

Local == \A c \in Threads : Placed(c) /\ Planned(c)

Types ==
  /\ TypeOK
  /\ job \in [Threads -> JobType]

-----------------------------------------------------------------------------
(* The table of buffers and who holds them.                                  *)

\* A call holds buffers of the file it works on.
HeldTyped ==
  \A c \in Threads : \A i \in 1 .. Depth(c) : buffers[job[c].held[i]].file = File(c)

\* The count of a buffer: its users, and those that were lost before they used it.
Counted == \A b \in BufferIds : buffers[b].refs = Users(b) + buffers[b].lost

\* An opening is lost to a buffer that passes for open then.
Lossy == \A b \in BufferIds : buffers[b].lost > 0 => buffers[b].opened

\* A buffer that is being closed is held by nobody else.
Closing ==
  \A c \in Threads : pc[c] \in {"close", "del"} =>
    \A d \in Threads : \A i \in 1 .. Depth(d) :
      job[d].held[i] = Buffer(c) => d = c /\ i = Depth(c)

Closed == \A c \in Threads : pc[c] \in {"close", "del"} => buffers[Buffer(c)].lost = 0

\* A registered buffer is one of its file, and is held, or has lost an opening.
Registered ==
  \A f \in Files : open_file_buffers[f] # 0 =>
    /\ buffers[open_file_buffers[f]].file = f
    /\ \/ buffers[open_file_buffers[f]].lost > 0
       \/ \E c \in Threads : \E i \in 1 .. Depth(c) : job[c].held[i] = open_file_buffers[f]

\* A buffer that was opened, and lost no opening before, nor will it lose one.
Intact(b) == buffers[b].opened /\ buffers[b].lost = 0

\* What the server has open is held by a call that will close it.
ServerHeld ==
  \A f \in Files : server[f].open =>
    \E c \in Threads : \E i \in 1 .. Depth(c) :
      /\ File(c) = f /\ Intact(job[c].held[i])
      /\ ~(pc[c] = "del" /\ i = Depth(c))

Opening == \A c \in Threads : pc[c] = "did open" => Intact(Buffer(c))

Table == HeldTyped /\ Counted /\ Lossy /\ Closing /\ Closed /\ Registered /\ ServerHeld /\ Opening

-----------------------------------------------------------------------------
(* While nobody looks a file up in one of the gaps.                          *)

Creating(c) == pc[c] = "store" \/ (pc[c] \in {"ensure", "did open"} /\ job[c].next = "store")

\* The buffers in use are the registered one, or the only one, about to be registered.
Exclusive(f) ==
  \A c \in Threads : (Depth(c) # 0 /\ File(c) = f) =>
    \/ \A i \in 1 .. Depth(c) : open_file_buffers[f] = job[c].held[i]
    \/ /\ Creating(c) /\ open_file_buffers[f] = 0 /\ Depth(c) = 1
       /\ \A d \in Threads \ {c} : Depth(d) # 0 => File(d) # f

AloneInGaps == \A f \in Files : "window" \notin stirred[f] => Exclusive(f)

\* A call that has failed does nothing but leave its with-blocks.
FailedLeave ==
  \A c \in Threads : job[c].failed # "no" => pc[c] \in {"drop", "close", "del", "return"}

\* TableFailuresAreRaced while a call is leaving a with-block.
Raced ==
  \A c \in Threads : (pc[c] \in {"drop", "close", "del"} /\ job[c].failed \in {"assertion", "key"})
    => "window" \in stirred[File(c)]

-----------------------------------------------------------------------------
(* The operators on texts.                                                   *)

\* A set of natural numbers that has a member has a smallest one.
LEMMA MinIn == ASSUME NEW S \in SUBSET Nat, S # {} PROVE Min(S) \in S
<1>1. PICK x \in S : \A y \in S : ~ (<<y, x>> \in OpToRel(<, Nat))
  BY NatLessThanWellFounded, WFMin
<1>2. \A y \in S : x =< y
  <2> SUFFICES ASSUME NEW y \in S PROVE x =< y
    OBVIOUS
  <2>1. <<y, x>> \in Nat \X Nat => ~ (y < x)
    BY <1>1 DEF OpToRel
  <2> QED BY <2>1
<1> QED BY <1>2 DEF Min

LEMMA SymbolAtType == ASSUME NEW text \in Text PROVE SymbolAt(text) \in Nat
<1> DEFINE I == {i \in 1 .. Len(text) : text[i] >= 0}
<1>1. I \in SUBSET Nat
  OBVIOUS
<1>2. SymbolAt(text) = IF I # {} THEN Min(I) ELSE 0
  BY DEF SymbolAt, SelectInSeq
<1>3. I # {} => Min(I) \in I
  BY <1>1, MinIn
<1>4. I # {} => Min(I) \in Nat
  BY <1>1, <1>3
<1> QED BY <1>2, <1>4

LEMMA InsertAtType ==
  ASSUME NEW text \in Text, NEW i \in Nat, i >= 1, i <= Len(text) + 1, NEW line \in Int
  PROVE  InsertAt(text, i, line) \in Text
<1>1. SubSeq(text, 1, i - 1) \in Text /\ SubSeq(text, i, Len(text)) \in Text
  BY DEF Text
<1> QED BY <1>1 DEF InsertAt, Text

LEMMA ReplaceAtType ==
  ASSUME NEW text \in Text, NEW i \in Nat, i >= 1, i <= Len(text), NEW line \in Int
  PROVE  ReplaceAt(text, i, line) \in Text
<1>1. Len(text) \in Nat /\ DOMAIN text = 1 .. Len(text) /\ text \in [1 .. Len(text) -> Int]
  BY DEF Text
<1>2. [text EXCEPT ![i] = line] \in [1 .. Len(text) -> Int]
  BY <1>1
<1> QED BY <1>1, <1>2 DEF ReplaceAt, Text

-----------------------------------------------------------------------------
(* The locals of a call, step by step.                                       *)

Own(c) == job[c] \in JobType /\ Placed(c) /\ Planned(c)

\* The parts of a job and their types.
LEMMA Mine ==
  ASSUME Types, NEW c \in Threads
  PROVE  /\ job[c] \in JobType
         /\ job[c].plan \in Seq({"ask", "edit"} \X Files)
         /\ job[c].held \in Seq(BufferIds) /\ Depth(c) \in Nat
         /\ job[c].plan # <<>> => /\ Doing(c) \in {"ask", "edit"} /\ File(c) \in Files
                                  /\ 1 \in 1 .. Len(job[c].plan)
                                  /\ Phase(c) = job[c].plan[1]
         /\ Depth(c) # 0 => Buffer(c) \in BufferIds
         /\ job[c].held = <<>> <=> Depth(c) = 0
<1>1. job[c] \in JobType
  BY DEF Types
<1>2. job[c].plan \in Seq({"ask", "edit"} \X Files) /\ job[c].held \in Seq(BufferIds)
  BY <1>1 DEF JobType
<1>3. job[c].plan # <<>> => /\ Phase(c) \in {"ask", "edit"} \X Files
                           /\ 1 \in 1 .. Len(job[c].plan) /\ Phase(c) = job[c].plan[1]
  BY <1>2 DEF Phase
<1>4. job[c].plan # <<>> => Doing(c) \in {"ask", "edit"} /\ File(c) \in Files
  BY <1>3 DEF Doing, File
<1>5. Depth(c) \in Nat /\ (job[c].held = <<>> <=> Depth(c) = 0)
  BY <1>2 DEF Depth
<1>6. Depth(c) # 0 => Buffer(c) \in BufferIds
  BY <1>2, <1>5 DEF Depth, Buffer, Last
<1> QED BY <1>1, <1>2, <1>3, <1>4, <1>5, <1>6

\* What a step leaves of another thread's call.
LEMMA OthersOwn ==
  ASSUME NEW d \in Threads, Own(d), pc'[d] = pc[d], job'[d] = job[d]
  PROVE  Own(d)'
<1> QED BY ZenonT(30) DEF Own, Placed, Planned, Edits, Depth, Doing, Phase, File, Twice, Lazy, Inside

\* The plan that a call begins with: it asks, then edits if it is an editing tool.
LEMMA PlanType ==
  ASSUME NEW op \in Ops, NEW f \in Files
  PROVE  /\ Plan(op, f) \in Seq({"ask", "edit"} \X Files) /\ Plan(op, f) # <<>>
         /\ Plan(op, f)[1][1] = "ask"
         /\ \A i \in 2 .. Len(Plan(op, f)) : Plan(op, f)[i][1] = "edit"
         /\ \A i \in 1 .. Len(Plan(op, f)) : Plan(op, f)[i][2] = f
         /\ op \notin {"replace", "before", "after", "rename"} =>
               \A i \in 1 .. Len(Plan(op, f)) : Plan(op, f)[i][1] = "ask"
<1>1. <<"ask", f>> \in {"ask", "edit"} \X Files /\ <<"edit", f>> \in {"ask", "edit"} \X Files
  OBVIOUS
<1>2. CASE op \in {"replace", "before", "after"}
  <2>1. Plan(op, f) = <<<<"ask", f>>, <<"edit", f>>>>
    BY <1>2 DEF Plan
  <2>2. Plan(op, f) \in Seq({"ask", "edit"} \X Files) /\ Len(Plan(op, f)) = 2
    BY <1>1, <2>1
  <2>3. Plan(op, f)[1] = <<"ask", f>> /\ Plan(op, f)[2] = <<"edit", f>>
    BY <2>1
  <2>4. \A i \in 2 .. 2 : Plan(op, f)[i][1] = "edit"
    BY <2>3
  <2>5. \A i \in 1 .. 2 : Plan(op, f)[i][2] = f
    BY <2>3
  <2> QED BY <1>2, <2>2, <2>3, <2>4, <2>5
<1>3. CASE op \notin {"replace", "before", "after"}
  <2>1. Plan(op, f) = <<<<"ask", f>>>>
    BY <1>3, OpsAssumption DEF Plan
  <2>2. Plan(op, f) \in Seq({"ask", "edit"} \X Files) /\ Len(Plan(op, f)) = 1
    BY <1>1, <2>1
  <2>3. Plan(op, f)[1] = <<"ask", f>>
    BY <2>1
  <2>4. \A i \in 1 .. 1 : Plan(op, f)[i][1] = "ask" /\ Plan(op, f)[i][2] = f
    BY <2>3
  <2> QED BY <2>2, <2>3, <2>4, SMTT(30)
<1> QED BY <1>2, <1>3

LEMMA OwnBegin ==
  ASSUME Types, Local, NEW c \in Threads, Begin(c)
  PROVE  Own(c)'
<1>1. PICK op \in Ops, f \in Files :
        /\ effort' = effort + Cost(op)
        /\ SetJob(c, [NoJob EXCEPT !.op = op, !.n = effort', !.file = f,
                                   !.plan = Plan(op, f), !.before = disk])
  BY DEF Begin
<1>2. pc'[c] = "open"
  BY DEF Begin, Goto, Types, TypeOK
<1>3. job'[c] = [op |-> op, n |-> effort', file |-> f, plan |-> Plan(op, f), held |-> <<>>,
                 next |-> "none", note |-> <<>>, at |-> [g \in Files |-> 0], fb |-> 0,
                 out |-> <<>>, failed |-> "no", saved |-> {}, before |-> disk]
  BY <1>1 DEF SetJob, Types, NoJob
<1>4. effort' \in Nat
  BY <1>1, BoundAssumption DEF Cost, Types, TypeOK
<1>5. <<>> \in Text /\ disk \in [Files -> Text] /\ [g \in Files |-> 0] \in [Files -> Nat]
  BY DEF Text, Types, TypeOK
<1>6. job'[c] \in JobType
  BY <1>3, <1>4, <1>5, PlanType DEF JobType, Insides, Failures
<1>7. Depth(c)' = 0 /\ job'[c].fb = 0 /\ job'[c].plan = Plan(op, f) /\ job'[c].op = op
      /\ job'[c].file = f
  BY <1>3 DEF Depth
<1>8. Placed(c)'
  BY <1>2, <1>7, PlanType DEF Placed
<1>9. Planned(c)'
  BY <1>2, <1>7, PlanType DEF Planned, Edits, Doing, Phase
<1> QED BY <1>6, <1>8, <1>9 DEF Own

LEMMA OwnReturn ==
  ASSUME Types, Local, NEW c \in Threads, Return(c)
  PROVE  Own(c)'
<1>1. pc'[c] = "idle" /\ job'[c] = NoJob
  BY DEF Return, Goto, SetJob, Types, TypeOK
<1>2. NoJob \in JobType
  BY DEF NoJob, JobType, Text, Insides, Failures
<1>3. Placed(c)'
  BY <1>1 DEF Placed, NoJob
<1>4. Planned(c)'
  BY <1>1 DEF Planned, NoJob, Edits
<1> QED BY <1>1, <1>2, <1>3, <1>4 DEF Own

\* A step that raises: the blocks that c is in are left.
LEMMA OwnFail ==
  ASSUME Types, Local, NEW c \in Threads, NEW why \in Failures, why # "no",
         pc[c] \in {"open", "ensure", "validate", "delete", "insert", "save"},
         FailWith(c, why, job[c])
  PROVE  Own(c)'
<1>1. job'[c] = [job[c] EXCEPT !.failed = why]
  BY DEF FailWith, SetJob, Types
<1>2. pc'[c] = IF Depth(c) = 0 THEN "return" ELSE "drop"
  BY Mine DEF FailWith, Goto, Types, TypeOK
<1>3. job'[c] \in JobType
  BY <1>1, Mine DEF JobType
<1>4. /\ job'[c].plan = job[c].plan /\ job'[c].op = job[c].op /\ job'[c].held = job[c].held
      /\ job'[c].file = job[c].file /\ job'[c].fb = job[c].fb /\ job'[c].at = job[c].at
      /\ job'[c].failed # "no"
  BY <1>1, Mine DEF JobType
<1>5. Placed(c) /\ Planned(c)
  BY DEF Local
<1>6. Placed(c)'
  BY <1>2, <1>4, <1>5, Mine DEF Placed, Depth, Doing, Phase, Twice
<1>7. Planned(c)'
  BY <1>2, <1>4, <1>5 DEF Planned, Doing, Phase, Edits
<1> QED BY <1>3, <1>6, <1>7 DEF Own

LEMMA OwnOpen ==
  ASSUME Types, Local, NEW c \in Threads, Open(c), Garbage # {}
  PROVE  Own(c)'
<1>1. CASE FailWith(c, "assertion", job[c])
  BY <1>1, OwnFail DEF Open, Failures
<1>2. CASE ~FailWith(c, "assertion", job[c])
  <2>1. PICK b \in BufferIds, step \in {"store", Inside(c, Depth(c) + 1)} :
          SetJob(c, [job[c] EXCEPT !.held = Append(@, b), !.next = step])
    <3>1. File(c) \in Files
      BY Mine DEF Open, Local, Placed
    <3>2. (CHOOSE g \in Garbage : TRUE) \in BufferIds
      BY DEF Garbage
    <3>3. open_file_buffers[File(c)] \in BufferIds \cup {0}
      BY <3>1 DEF Types, TypeOK
    <3> QED BY <1>2, <3>2, <3>3 DEF Open
  <2>2. pc'[c] = "ensure" /\ pc[c] = "open"
    BY <1>2 DEF Open, Goto, Types, TypeOK
  <2>3. Placed(c) /\ Planned(c)
    BY DEF Local
  <2>4. Doing(c) \in {"ask", "edit"} /\ job[c].fb = 0 /\ job[c].plan # <<>>
        /\ (Depth(c) = 0 \/ (Depth(c) = 1 /\ Twice(c)))
    BY <2>2, <2>3, Mine DEF Placed
  <2>5. Inside(c, Depth(c) + 1) \in Insides
    BY <2>4 DEF Inside, Insides, Lazy
  <2>6. job'[c] = [job[c] EXCEPT !.held = Append(@, b), !.next = step]
    BY <2>1 DEF SetJob, Types
  <2>7. job'[c] \in JobType
    <3>1. step \in Insides \cup {"none", "store"}
      BY <2>5
    <3>2. Append(job[c].held, b) \in Seq(BufferIds)
      BY Mine
    <3> QED BY <2>6, <3>1, <3>2, Mine DEF JobType
  <2>8. /\ job'[c].plan = job[c].plan /\ job'[c].op = job[c].op
        /\ job'[c].held = Append(job[c].held, b) /\ job'[c].next = step
        /\ job'[c].file = job[c].file /\ job'[c].fb = 0 /\ job'[c].at = job[c].at
    BY <2>4, <2>6, Mine DEF JobType
  <2>9. Depth(c)' = Depth(c) + 1
    BY <2>8, Mine DEF Depth
  <2>10. Inside(c, Depth(c))' = Inside(c, Depth(c) + 1)
    BY <2>8, <2>9 DEF Inside, Lazy, Doing, Phase
  <2>11. Placed(c)'
    BY <2>2, <2>4, <2>8, <2>9, <2>10 DEF Placed, Doing, Phase, Twice
  <2>12. Planned(c)'
    BY <2>2, <2>3, <2>8 DEF Planned, Doing, Phase, Edits
  <2> QED BY <2>7, <2>11, <2>12 DEF Own
<1> QED BY <1>1, <1>2

LEMMA OwnEnsureOpen ==
  ASSUME Types, Local, NEW c \in Threads, EnsureOpen(c), buffers[Buffer(c)].file \in Files
  PROVE  Own(c)'
<1>1. Placed(c) /\ Planned(c)
  BY DEF Local
<1>2. /\ pc[c] = "ensure" /\ job[c].plan # <<>> /\ job[c].fb = 0
      /\ Doing(c) \in {"ask", "edit"}
      /\ Depth(c) = 1 \/ (Depth(c) = 2 /\ Twice(c))
      /\ \/ job[c].next \in {"store", Inside(c, Depth(c))}
         \/ job[c].next = "ask" /\ Depth(c) = 1 /\ Lazy(c)
  BY <1>1, Mine DEF EnsureOpen, Placed
<1>3. CASE pc' = [pc EXCEPT ![c] = job[c].next] /\ job' = job
  <2>1. pc'[c] = job[c].next
    BY <1>3 DEF Types, TypeOK
  <2>2. Placed(c)'
    BY <1>2, <1>3, <2>1, Mine
       DEF Placed, Depth, Doing, Phase, Twice, Inside, Lazy
  <2>3. Planned(c)'
    BY <1>1, <1>2, <1>3, <2>1 DEF Planned, Doing, Phase, Edits, Inside, Lazy, Depth
  <2> QED BY <1>3, <2>2, <2>3, Mine DEF Own
<1>4. CASE pc' = [pc EXCEPT ![c] = "did open"]
           /\ SetJob(c, [job[c] EXCEPT !.note = Fresh(Buffer(c)).text])
  <2>1. pc'[c] = "did open"
    BY <1>4 DEF Types, TypeOK
  <2>2. Fresh(Buffer(c)).text \in Text
    BY <1>2, Mine DEF Fresh, Types, TypeOK, Text
  <2>3. job'[c] = [job[c] EXCEPT !.note = Fresh(Buffer(c)).text]
    BY <1>4 DEF SetJob, Types
  <2>4. job'[c] \in JobType
    BY <2>2, <2>3, Mine DEF JobType
  <2>5. /\ job'[c].plan = job[c].plan /\ job'[c].op = job[c].op
        /\ job'[c].held = job[c].held /\ job'[c].next = job[c].next
        /\ job'[c].file = job[c].file /\ job'[c].fb = 0 /\ job'[c].at = job[c].at
    BY <1>2, <2>3, Mine DEF JobType
  <2>6. Placed(c)'
    BY <1>2, <2>1, <2>5 DEF Placed, Depth, Doing, Phase, Twice, Inside, Lazy
  <2>7. Planned(c)'
    BY <1>1, <2>1, <2>5 DEF Planned, Doing, Phase, Edits
  <2> QED BY <2>4, <2>6, <2>7 DEF Own
<1> QED BY <1>3, <1>4 DEF EnsureOpen, Goto

LEMMA OwnDidOpen ==
  ASSUME Types, Local, NEW c \in Threads, DidOpen(c)
  PROVE  Own(c)'
<1>1. Placed(c) /\ Planned(c)
  BY DEF Local
<1>2. /\ pc[c] = "did open" /\ job[c].plan # <<>> /\ job[c].fb = 0
      /\ Doing(c) \in {"ask", "edit"}
      /\ Depth(c) = 1 \/ (Depth(c) = 2 /\ Twice(c))
      /\ \/ job[c].next \in {"store", Inside(c, Depth(c))}
         \/ job[c].next = "ask" /\ Depth(c) = 1 /\ Lazy(c)
  BY <1>1, Mine DEF DidOpen, Placed
<1>3. pc'[c] = job[c].next
  BY DEF DidOpen, Goto, Types, TypeOK
<1>4. job'[c] = [job[c] EXCEPT !.note = <<>>]
  BY DEF DidOpen, SetJob, Types
<1>5. job'[c] \in JobType
  <2>1. <<>> \in Text
    BY DEF Text
  <2> QED BY <1>4, <2>1, Mine DEF JobType
<1>6. /\ job'[c].plan = job[c].plan /\ job'[c].op = job[c].op
      /\ job'[c].held = job[c].held /\ job'[c].next = job[c].next
      /\ job'[c].file = job[c].file /\ job'[c].fb = 0 /\ job'[c].at = job[c].at
  BY <1>2, <1>4, Mine DEF JobType
<1>7. Placed(c)'
  BY <1>2, <1>3, <1>6 DEF Placed, Depth, Doing, Phase, Twice, Inside, Lazy
<1>8. Planned(c)'
  BY <1>1, <1>2, <1>3, <1>6 DEF Planned, Doing, Phase, Edits, Inside, Lazy, Depth
<1> QED BY <1>5, <1>7, <1>8 DEF Own

LEMMA OwnStore ==
  ASSUME Types, Local, NEW c \in Threads, Store(c)
  PROVE  Own(c)'
<1>1. Placed(c) /\ Planned(c)
  BY DEF Local
<1>2. /\ pc[c] = "store" /\ job[c].plan # <<>> /\ job[c].fb = 0
      /\ Doing(c) \in {"ask", "edit"}
      /\ Depth(c) = 1 \/ (Depth(c) = 2 /\ Twice(c))
  BY <1>1, Mine DEF Store, Placed
<1>3. pc'[c] = Inside(c, Depth(c)) /\ job' = job
  BY DEF Store, Goto, Types, TypeOK
<1>4. Placed(c)'
  BY <1>2, <1>3, Mine DEF Placed, Depth, Doing, Phase, Twice, Inside, Lazy
<1>5. Planned(c)'
  BY <1>1, <1>2, <1>3 DEF Planned, Doing, Phase, Edits, Inside, Lazy, Depth
<1> QED BY <1>3, <1>4, <1>5, Mine DEF Own

\* An answer that is the last word on where the symbol is.
LEMMA OwnLocated ==
  ASSUME Types, Local, NEW c \in Threads, pc[c] \in {"look", "ask"},
         NEW symbols \in [Files -> Nat], Located(c, symbols),
         job[c].op = "rename" => symbols[File(c)] = 0
  PROVE  Own(c)'
<1>1. Placed(c) /\ Planned(c)
  BY DEF Local
<1>2. /\ job[c].plan # <<>> /\ job[c].fb = 0 /\ Doing(c) = "ask" /\ Depth(c) = 1
      /\ File(c) \in Files
  BY <1>1, Mine DEF Placed, Lazy
<1>3. PICK why \in {"no", "no symbol"} :
        /\ job'[c] = [job[c] EXCEPT !.at = symbols, !.failed = why]
        /\ why = "no" => ~Edits(c) \/ symbols[File(c)] # 0
  BY DEF Located, SetJob, Types
<1>4. pc'[c] = "drop"
  BY DEF Located, Goto, Types, TypeOK
<1>5. job'[c] \in JobType
  BY <1>3, Mine DEF JobType, Failures
<1>6. /\ job'[c].plan = job[c].plan /\ job'[c].op = job[c].op
      /\ job'[c].held = job[c].held /\ job'[c].failed = why
      /\ job'[c].file = job[c].file /\ job'[c].fb = 0 /\ job'[c].at = symbols
  BY <1>2, <1>3, Mine DEF JobType
<1>7. Placed(c)'
  BY <1>2, <1>4, <1>6 DEF Placed, Depth, Doing, Phase, Twice
<1>8. CASE job[c].op = "rename"
  <2>1. why = "no symbol"
    BY <1>3, <1>8 DEF Edits
  <2> QED BY <1>1, <1>2, <1>4, <1>5, <1>6, <1>7, <2>1 DEF Own, Planned, Doing, Phase, Edits
<1>9. CASE job[c].op # "rename"
  <2>1. File(c) = job[c].plan[1][2] /\ 1 \in 1 .. Len(job[c].plan)
    BY <1>2, Mine DEF File
  <2>2. \A i \in 1 .. Len(job[c].plan) : job[c].plan[i][2] = File(c)
    BY <1>1, <1>9, <2>1 DEF Planned
  <2>3. symbols[File(c)] \in Nat
    BY <1>2
  <2>4. why = "no" => \A i \in 1 .. Len(job[c].plan) :
          job[c].plan[i][1] = "edit" => symbols[job[c].plan[i][2]] >= 1
    BY <1>1, <1>3, <2>2, <2>3 DEF Planned
  <2> QED BY <1>1, <1>2, <1>4, <1>5, <1>6, <1>7, <2>4 DEF Own, Planned, Doing, Phase, Edits
<1> QED BY <1>8, <1>9

LEMMA FreshType ==
  ASSUME Types, NEW b \in BufferIds, buffers[b].file \in Files
  PROVE  Fresh(b).text \in Text
<1> QED BY DEF Fresh, Types, TypeOK, Text

LEMMA OwnLookInCache ==
  ASSUME Types, Local, NEW c \in Threads, LookInCache(c), buffers[Buffer(c)].file \in Files
  PROVE  Own(c)'
<1>1. Placed(c) /\ Planned(c)
  BY DEF Local
<1>2. /\ pc[c] = "look" /\ job[c].plan # <<>> /\ job[c].fb = 0 /\ Depth(c) = 1 /\ Lazy(c)
      /\ Doing(c) = "ask" /\ job[c].op # "rename" /\ Buffer(c) \in BufferIds
  BY <1>1, Mine DEF LookInCache, Placed, Lazy
<1>3. CASE SetJob(c, [job[c] EXCEPT !.next = "ask"]) /\ Goto(c, "ensure")
  <2>1. pc'[c] = "ensure" /\ job'[c] = [job[c] EXCEPT !.next = "ask"]
    BY <1>3 DEF Goto, SetJob, Types, TypeOK
  <2>2. job'[c] \in JobType
    BY <2>1, Mine DEF JobType, Insides
  <2>3. /\ job'[c].plan = job[c].plan /\ job'[c].op = job[c].op
        /\ job'[c].held = job[c].held /\ job'[c].next = "ask"
        /\ job'[c].file = job[c].file /\ job'[c].fb = 0 /\ job'[c].at = job[c].at
    BY <1>2, <2>1, Mine DEF JobType
  <2>4. Placed(c)'
    BY <1>2, <2>1, <2>3 DEF Placed, Depth, Doing, Phase, Lazy
  <2>5. Planned(c)'
    BY <1>1, <1>2, <2>1, <2>3 DEF Planned, Doing, Phase, Edits
  <2> QED BY <2>2, <2>4, <2>5 DEF Own
<1>4. ASSUME NEW symbols, Located(c, symbols), 
             symbols = [g \in Files |-> IF g = File(c) THEN SymbolAt(Fresh(Buffer(c)).text) ELSE 0]
      PROVE  Own(c)'
  <2>1. SymbolAt(Fresh(Buffer(c)).text) \in Nat
    BY <1>2, FreshType, SymbolAtType
  <2>2. symbols \in [Files -> Nat]
    BY <1>4, <2>1
  <2> QED BY <1>2, <1>4, <2>2, OwnLocated
<1> QED BY <1>3, <1>4 DEF LookInCache

\* The order in which a rename gets its files: each file has the symbol.
LEMMA OrderType ==
  ASSUME NEW S \in SUBSET Files, NEW order \in SetToSeqs(S)
  PROVE  order \in Seq(S) /\ Len(order) \in Nat
<1>1. Cardinality(S) \in Nat
  BY FilesAssumption, FS_Subset, FS_CardinalityType
<1>2. order \in [1 .. Cardinality(S) -> S]
  BY DEF SetToSeqs
<1> QED BY <1>1, <1>2

\* What the answer to a request does to the call: it is the last word on where the symbol
\* is, or a rename learns which files have it.
LEMMA AskCases ==
  ASSUME Types, Local, NEW c \in Threads, Ask(c)
  PROVE  \/ \E symbols \in [Files -> Nat] :
              (job[c].op = "rename" => symbols[File(c)] = 0) /\ Located(c, symbols)
         \/ \E symbols \in [Files -> Nat], plan \in Seq({"ask", "edit"} \X Files) :
              /\ job[c].op = "rename" /\ pc'[c] = "drop"
              /\ job'[c] = [job[c] EXCEPT !.at = symbols, !.plan = plan]
              /\ plan # <<>> /\ Head(plan) = job[c].plan[1] /\ plan[1] = job[c].plan[1]
              /\ \A i \in 2 .. Len(plan) : plan[i][1] = "edit" /\ symbols[plan[i][2]] >= 1
<1>1. job[c].plan # <<>> /\ File(c) \in Files
  BY Mine DEF Ask, Local, Placed
<1> DEFINE renamed == job[c].op = "rename"
           symbols == [g \in Files |-> IF renamed \/ g = File(c) THEN SymbolAt(Seen(g)) ELSE 0]
           S == {g \in Files : symbols[g] # 0}
<1>2. symbols \in [Files -> Nat]
  <2> SUFFICES ASSUME NEW g \in Files PROVE SymbolAt(Seen(g)) \in Nat
    OBVIOUS
  <2>1. Seen(g) \in Text
    BY DEF Seen, Types, TypeOK, Text
  <2> QED BY <2>1, SymbolAtType
<1>3. S \in SUBSET Files /\ \A g \in S : symbols[g] # 0
  OBVIOUS
<1>4. \/ /\ renamed
         /\ \E order \in SetToSeqs(S) :
              /\ SetJob(c, [job[c] EXCEPT !.at = symbols,
                   !.plan = <<@[1]>> \o [i \in 1 .. Len(order) |-> <<"edit", order[i]>>]])
              /\ Goto(c, "drop")
      \/ (renamed => symbols[File(c)] = 0) /\ Located(c, symbols)
  BY Zenon DEF Ask
<1> HIDE DEF symbols, S
<1>5. CASE (renamed => symbols[File(c)] = 0) /\ Located(c, symbols)
  BY <1>2, <1>5
<1>6. ASSUME renamed, NEW order \in SetToSeqs(S),
             SetJob(c, [job[c] EXCEPT !.at = symbols,
                   !.plan = <<@[1]>> \o [i \in 1 .. Len(order) |-> <<"edit", order[i]>>]]),
             Goto(c, "drop")
      PROVE  \E plan \in Seq({"ask", "edit"} \X Files) :
              /\ renamed /\ pc'[c] = "drop"
              /\ job'[c] = [job[c] EXCEPT !.at = symbols, !.plan = plan]
              /\ plan # <<>> /\ Head(plan) = job[c].plan[1] /\ plan[1] = job[c].plan[1]
              /\ \A i \in 2 .. Len(plan) : plan[i][1] = "edit" /\ symbols[plan[i][2]] >= 1
  <2> DEFINE edits == [i \in 1 .. Len(order) |-> <<"edit", order[i]>>]
             plan == <<job[c].plan[1]>> \o edits
  <2>1. order \in Seq(S) /\ Len(order) \in Nat
    BY <1>3, <1>6, OrderType
  <2>2. edits \in Seq({"edit"} \X S) /\ Len(edits) = Len(order)
    BY <2>1
  <2>3. job[c].plan[1] \in {"ask", "edit"} \X Files
    BY <1>1, Mine
  <2> HIDE DEF edits
  <2>4. plan \in Seq({"ask", "edit"} \X Files) /\ Len(plan) = Len(order) + 1
    BY <1>3, <2>1, <2>2, <2>3
  <2>5. plan # <<>> /\ Head(plan) = job[c].plan[1] /\ plan[1] = job[c].plan[1]
    BY <2>1, <2>2, <2>3
  <2>6. \A i \in 2 .. Len(plan) : plan[i] \in {"edit"} \X S
    BY <2>1, <2>2, <2>3, <2>4
  <2>7. \A i \in 2 .. Len(plan) : plan[i][1] = "edit" /\ symbols[plan[i][2]] >= 1
    BY <1>2, <1>3, <2>6
  <2>8. job'[c] = [job[c] EXCEPT !.at = symbols, !.plan = plan]
    BY <1>6 DEF SetJob, Types, edits
  <2> HIDE DEF plan
  <2>9. pc'[c] = "drop"
    BY <1>6 DEF Goto, Types, TypeOK
  <2> QED BY <1>6, <2>4, <2>5, <2>7, <2>8, <2>9
<1> QED BY <1>2, <1>4, <1>5, <1>6

LEMMA OwnAsk ==
  ASSUME Types, Local, NEW c \in Threads, Ask(c)
  PROVE  Own(c)'
<1>1. Placed(c) /\ Planned(c)
  BY DEF Local
<1>2. /\ pc[c] = "ask" /\ job[c].plan # <<>> /\ job[c].fb = 0 /\ Depth(c) = 1
      /\ Doing(c) = "ask"
  BY <1>1 DEF Ask, Placed
<1>3. CASE \E symbols \in [Files -> Nat] :
             (job[c].op = "rename" => symbols[File(c)] = 0) /\ Located(c, symbols)
  BY <1>2, <1>3, OwnLocated
<1>4. CASE ~ \E symbols \in [Files -> Nat] :
               (job[c].op = "rename" => symbols[File(c)] = 0) /\ Located(c, symbols)
  <2> PICK symbols \in [Files -> Nat], plan \in Seq({"ask", "edit"} \X Files) :
              /\ job[c].op = "rename" /\ pc'[c] = "drop"
              /\ job'[c] = [job[c] EXCEPT !.at = symbols, !.plan = plan]
              /\ plan # <<>> /\ Head(plan) = job[c].plan[1] /\ plan[1] = job[c].plan[1]
              /\ \A i \in 2 .. Len(plan) : plan[i][1] = "edit" /\ symbols[plan[i][2]] >= 1
    BY <1>4, AskCases
  <2>1. job'[c] \in JobType
    BY Mine DEF JobType
  <2>2. /\ job'[c].plan = plan /\ job'[c].op = job[c].op
        /\ job'[c].held = job[c].held /\ job'[c].at = symbols
        /\ job'[c].file = job[c].file /\ job'[c].fb = 0
    BY <1>2, Mine DEF JobType
  <2>3. Placed(c)'
    BY <1>2, <2>2 DEF Placed, Depth
  <2>4. plan[1][1] = "ask"
    BY <1>2, Mine DEF Doing
  <2>5. \A i \in 1 .. Len(plan) : plan[i][1] = "edit" => symbols[plan[i][2]] >= 1
    BY <2>4
  <2>6. Planned(c)'
    BY <2>2, <2>5 DEF Planned, Edits
  <2> QED BY <2>1, <2>3, <2>6 DEF Own
<1> QED BY <1>3, <1>4

\* A sequence without its last element.
LEMMA FrontType ==
  ASSUME NEW S, NEW s \in Seq(S), Len(s) # 0
  PROVE  /\ Front(s) \in Seq(S) /\ Len(Front(s)) = Len(s) - 1
         /\ \A i \in 1 .. Len(s) - 1 : Front(s)[i] = s[i]
<1>1. Len(s) - 1 \in Nat /\ \A i \in 1 .. Len(s) - 1 : s[i] \in S
  OBVIOUS
<1>2. Front(s) = [i \in 1 .. Len(s) - 1 |-> s[i]]
  BY <1>1 DEF Front
<1> QED BY <1>1, <1>2

\* What a call that leaves a block goes on with.
LEMMA DropLeaves ==
  ASSUME Types, NEW c \in Threads, Drop(c)
  PROVE  \/ Goto(c, "close") /\ UNCHANGED job /\ buffers[Buffer(c)].refs = 1
         \/ /\ AfterDrop(c, [job[c] EXCEPT !.held = Front(@), !.failed = job[c].failed])
            /\ buffers[Buffer(c)].refs # 1
<1>1. [job[c] EXCEPT !.held = Front(@)]
        = [job[c] EXCEPT !.held = Front(@), !.failed = job[c].failed]
  BY Mine DEF JobType
<1> QED BY <1>1 DEF Drop

LEMMA DelLeaves ==
  ASSUME Types, NEW c \in Threads, Del(c)
  PROVE  \E why \in Failures :
           /\ why = job[c].failed \/ (why = "key" /\ open_file_buffers[File(c)] = 0)
           /\ AfterDrop(c, [job[c] EXCEPT !.held = Front(@), !.failed = why])
<1> DEFINE j == [job[c] EXCEPT !.held = Front(@)]
<1>1. AfterDrop(c, IF open_file_buffers[File(c)] = 0 THEN [j EXCEPT !.failed = "key"] ELSE j)
  BY DEF Del
<1>2. [j EXCEPT !.failed = "key"] = [job[c] EXCEPT !.held = Front(@), !.failed = "key"]
  BY Mine DEF JobType
<1>3. j = [job[c] EXCEPT !.held = Front(@), !.failed = job[c].failed]
  BY Mine DEF JobType
<1>4. job[c].failed \in Failures /\ "key" \in Failures
  BY Mine DEF JobType, Failures
<1> HIDE DEF j
<1> QED BY <1>1, <1>2, <1>3, <1>4

\* A with-block is left: the one around it goes on, or the next phase begins.
LEMMA OwnAfterDrop ==
  ASSUME Types, Local, NEW c \in Threads, NEW why \in Failures,
         pc[c] \in {"drop", "del"} \/ (pc[c] = "ensure" /\ why # "no"),
         why = job[c].failed \/ why # "no",
         AfterDrop(c, [job[c] EXCEPT !.held = Front(@), !.failed = why])
  PROVE  Own(c)'
<1> DEFINE j == [job[c] EXCEPT !.held = Front(@), !.failed = why]
<1>1. Placed(c) /\ Planned(c)
  BY DEF Local
<1>2. /\ job[c].plan # <<>> /\ job[c].fb = 0 /\ Doing(c) \in {"ask", "edit"}
      /\ Depth(c) = 1 \/ (Depth(c) = 2 /\ Twice(c))
  BY <1>1, Mine DEF Placed
<1>3. Front(job[c].held) \in Seq(BufferIds) /\ Len(Front(job[c].held)) = Depth(c) - 1
  <2>1. Len(job[c].held) # 0
    <3>1. Depth(c) # 0
      BY <1>2
    <3> QED BY <3>1 DEF Depth
  <2>2. Front(job[c].held) \in Seq(BufferIds) /\ Len(Front(job[c].held)) = Len(job[c].held) - 1
    BY <2>1, Mine, FrontType
  <2> QED BY <2>2 DEF Depth
<1>4. /\ j \in JobType /\ j.plan = job[c].plan /\ j.op = job[c].op /\ j.file = job[c].file
      /\ j.at = job[c].at /\ j.fb = 0 /\ j.held = Front(job[c].held) /\ j.failed = why
      /\ j.next = job[c].next
  BY <1>2, <1>3, Mine, ZenonT(30) DEF JobType
<1>5. j.held = <<>> <=> Depth(c) = 1
  BY <1>2, <1>3, <1>4
<1> HIDE DEF j
<1>6. CASE why # "no"
  <2>1. job'[c] = j
    BY <1>4, <1>6 DEF AfterDrop, SetJob, Types, j
  <2>2. pc'[c] = IF Depth(c) = 1 THEN "return" ELSE "drop"
    BY <1>4, <1>5, <1>6 DEF AfterDrop, Goto, Types, TypeOK, j
  <2>3. Depth(c)' = Depth(c) - 1
    BY <1>3, <1>4, <2>1 DEF Depth
  <2>4. Placed(c)'
    BY <1>2, <1>4, <2>1, <2>2, <2>3 DEF Placed
  <2>5. Planned(c)'
    BY <1>1, <1>4, <1>6, <2>1, <2>2 DEF Planned, Edits, Doing, Phase
  <2> QED BY <1>4, <2>1, <2>4, <2>5 DEF Own
<1>7. CASE why = "no" /\ Depth(c) = 2
  <2>1. job'[c] = j
    BY <1>4, <1>5, <1>7 DEF AfterDrop, SetJob, Types, j
  <2>2. pc'[c] = "save"
    BY <1>4, <1>5, <1>7 DEF AfterDrop, Goto, Types, TypeOK, j
  <2>3. Depth(c)' = 1
    BY <1>3, <1>4, <1>7, <2>1 DEF Depth
  <2>4. Placed(c)'
    BY <1>2, <1>4, <1>7, <2>1, <2>2, <2>3 DEF Placed, Doing, Phase, Twice
  <2>5. Planned(c)'
    BY <1>1, <1>2, <1>4, <1>7, <2>1, <2>2 DEF Planned, Edits, Doing, Phase, Twice
  <2> QED BY <1>4, <2>1, <2>4, <2>5 DEF Own
<1>8. CASE why = "no" /\ Depth(c) = 1
  <2> DEFINE plan == Tail(job[c].plan)
  <2>1. /\ plan \in Seq({"ask", "edit"} \X Files) /\ Len(plan) = Len(job[c].plan) - 1
        /\ \A i \in 1 .. Len(plan) : plan[i] = job[c].plan[i + 1]
    BY <1>2, Mine
  <2>2. job'[c] = [j EXCEPT !.plan = plan]
    BY <1>4, <1>5, <1>8 DEF AfterDrop, SetJob, Types, j
  <2> HIDE DEF plan
  <2>3. /\ job'[c] \in JobType /\ job'[c].plan = plan /\ job'[c].op = job[c].op
        /\ job'[c].file = job[c].file /\ job'[c].at = job[c].at /\ job'[c].fb = 0
        /\ job'[c].held = Front(job[c].held)
    BY <1>4, <2>1, <2>2 DEF JobType
  <2>4. /\ pc'[c] \in {"return", "validate", "open"}
        /\ pc'[c] # "return" => plan # <<>>
    <3>1. Len(job[c].plan) # 1 => Len(plan) # 0
      BY <1>2, <2>1, Mine
    <3>2. pc'[c] = IF Len(job[c].plan) = 1 THEN "return"
                   ELSE IF job[c].op = "rename" THEN "validate" ELSE "open"
      BY <1>4, <1>5, <1>8 DEF AfterDrop, Goto, Types, TypeOK, j
    <3>3. plan = <<>> => Len(plan) = 0
      OBVIOUS
    <3> QED BY <3>1, <3>2, <3>3
  <2>5. Depth(c)' = 0
    BY <1>3, <1>8, <2>3 DEF Depth
  <2>6. Placed(c)'
    BY <2>3, <2>4, <2>5 DEF Placed
  <2>7. \A i \in 1 .. Len(plan) : i + 1 \in 2 .. Len(job[c].plan)
    BY <2>1, Mine
  <2>8. \A i \in 1 .. Len(plan) : i + 1 \in 1 .. Len(job[c].plan)
    BY <2>7
  <2>9. \A i \in 1 .. Len(job[c].plan) :
          job[c].plan[i][1] = "edit" => job[c].at[job[c].plan[i][2]] >= 1
    <3>1. why = job[c].failed
      BY <1>8
    <3> QED BY <1>1, <1>8, <3>1 DEF Planned
  <2>10. \A i \in 2 .. Len(plan) : i \in 1 .. Len(plan)
    BY <2>1
  <2>11. Planned(c)'
    BY <1>1, <2>1, <2>3, <2>7, <2>8, <2>9, <2>10, ZenonT(30) DEF Planned, Edits
  <2> QED BY <2>3, <2>6, <2>11 DEF Own
<1> QED BY <1>2, <1>6, <1>7, <1>8

\* The last one out keeps the block until the buffer is closed and removed.
LEMMA OwnToClose ==
  ASSUME Types, Local, NEW c \in Threads,
         \/ pc[c] = "drop" /\ pc' = [pc EXCEPT ![c] = "close"]
         \/ pc[c] = "close" /\ pc' = [pc EXCEPT ![c] = "del"],
         job' = job
  PROVE  Own(c)'
<1>1. Placed(c) /\ Planned(c)
  BY DEF Local
<1>2. pc'[c] \in {"close", "del"}
  BY DEF Types, TypeOK
<1>3. Placed(c)'
  BY <1>1, <1>2 DEF Placed, Depth, Doing, Phase, Twice
<1>4. Planned(c)'
  BY <1>1, <1>2 DEF Planned, Doing, Phase, Edits
<1> QED BY <1>3, <1>4, Mine DEF Own

LEMMA OwnDrop ==
  ASSUME Types, Local, NEW c \in Threads, Drop(c)
  PROVE  Own(c)'
<1>1. CASE Goto(c, "close") /\ UNCHANGED job
  BY <1>1, OwnToClose DEF Drop, Goto
<1>2. CASE AfterDrop(c, [job[c] EXCEPT !.held = Front(@), !.failed = job[c].failed])
  <2>1. job[c].failed \in Failures
    BY Mine DEF JobType
  <2> QED BY <1>2, <2>1, OwnAfterDrop DEF Drop
<1> QED BY <1>1, <1>2, DropLeaves

LEMMA OwnDel ==
  ASSUME Types, Local, NEW c \in Threads, Del(c)
  PROVE  Own(c)'
<1>1. PICK why \in Failures :
        /\ why = job[c].failed \/ (why = "key" /\ open_file_buffers[File(c)] = 0)
        /\ AfterDrop(c, [job[c] EXCEPT !.held = Front(@), !.failed = why])
  BY DelLeaves
<1> QED BY <1>1, OwnAfterDrop DEF Del

LEMMA OwnValidate ==
  ASSUME Types, Local, NEW c \in Threads, Validate(c)
  PROVE  Own(c)'
<1>1. CASE FailWith(c, "denied", job[c])
  BY <1>1, OwnFail DEF Validate, Failures
<1>2. CASE Goto(c, "open") /\ UNCHANGED job
  <2>1. Placed(c) /\ Planned(c)
    BY DEF Local
  <2>2. pc'[c] = "open" /\ pc[c] = "validate" /\ job' = job
    BY <1>2 DEF Validate, Goto, Types, TypeOK
  <2>3. Placed(c)'
    BY <2>1, <2>2 DEF Placed, Depth
  <2>4. Planned(c)'
    BY <2>1, <2>2 DEF Planned, Doing, Phase, Edits
  <2> QED BY <2>2, <2>3, <2>4, Mine DEF Own
<1> QED BY <1>1, <1>2 DEF Validate

\* Reading the contents raises before the with-block, or in it.
LEMMA OwnOpenFails ==
  ASSUME Types, Local, NEW c \in Threads, OpenFails(c)
  PROVE  Own(c)'
<1>1. pc[c] = "ensure" /\ "unread" \in Failures
  BY DEF OpenFails, Failures
<1>2. CASE Lazy(c)
  <2>1. FailWith(c, "unread", job[c])
    BY <1>2 DEF OpenFails
  <2> QED BY <1>1, <2>1, OwnFail
<1>3. CASE ~Lazy(c)
  <2> DEFINE j == [job[c] EXCEPT !.held = Front(@)]
             k == [job[c] EXCEPT !.held = Front(@), !.failed = "unread"]
  <2>1. FailWith(c, "unread", j)
    BY <1>3 DEF OpenFails
  <2>2. k = [j EXCEPT !.failed = "unread"] /\ k.failed = "unread" /\ k.held = j.held
    BY Mine DEF JobType
  <2> HIDE DEF j
  <2>3. SetJob(c, k) /\ Goto(c, IF k.held = <<>> THEN "return" ELSE "drop")
    BY <2>1, <2>2, Zenon DEF FailWith
  <2> HIDE DEF k
  <2>4. AfterDrop(c, k)
    BY <2>2, <2>3 DEF AfterDrop
  <2> QED BY <1>1, <2>4, OwnAfterDrop DEF k
<1> QED BY <1>2, <1>3

LEMMA OwnReadFails ==
  ASSUME Types, Local, NEW c \in Threads, ReadFails(c)
  PROVE  Own(c)'
<1>1. Placed(c) /\ Planned(c)
  BY DEF Local
<1>2. /\ pc[c] \in {"look", "delete", "insert", "save", "stamp"} /\ job[c].plan # <<>>
      /\ Depth(c) = 1 \/ (Depth(c) = 2 /\ Twice(c))
  BY <1>1 DEF Placed, ReadFails
<1>3. job'[c] = [job[c] EXCEPT !.fb = 0, !.out = <<>>, !.failed = "unread"]
  BY Mine DEF ReadFails, FailWith, SetJob, Types, JobType
<1>4. <<>> \in Text
  BY DEF Text
<1>5. job'[c] \in JobType
  BY <1>3, <1>4, Mine DEF JobType, Failures
<1>6. /\ job'[c].plan = job[c].plan /\ job'[c].op = job[c].op /\ job'[c].held = job[c].held
      /\ job'[c].file = job[c].file /\ job'[c].fb = 0 /\ job'[c].at = job[c].at
      /\ job'[c].failed = "unread"
  BY <1>3, Mine DEF JobType
<1>7. pc'[c] = "drop"
  <2>1. job[c].held # <<>>
    BY <1>2, Mine
  <2>2. [job[c] EXCEPT !.fb = 0, !.out = <<>>].held = job[c].held
    BY Mine DEF JobType
  <2> QED BY <2>1, <2>2 DEF ReadFails, FailWith, Goto, Types, TypeOK
<1>8. Placed(c)'
  BY <1>2, <1>6, <1>7 DEF Placed, Depth, Doing, Phase, Twice
<1>9. Planned(c)'
  BY <1>1, <1>2, <1>6, <1>7 DEF Planned, Doing, Phase, Edits
<1> QED BY <1>5, <1>8, <1>9 DEF Own

\* What a change of the registered buffer does.
LEMMA ChangeCases ==
  ASSUME Types, NEW c \in Threads, File(c) \in Files, NEW pastEnd, NEW step, Change(c, pastEnd, step)
  PROVE  LET b == open_file_buffers[File(c)]
         IN  \/ /\ b = 0 /\ FailWith(c, "assertion", job[c])
                /\ UNCHANGED <<buffers, stirred>>
             \/ /\ b \in BufferIds /\ FailWith(c, "location", job[c])
                /\ buffers' = [buffers EXCEPT ![b] = [Fresh(b) EXCEPT !.version = @ + 1]]
                /\ stirred' = Stir(File(c), Truncated(c) \cup
                                IF Place(c) > Len(Fresh(b).text) THEN {"end"} ELSE {})
                /\ ~ (Place(c) <= Len(Fresh(b).text) + pastEnd)
             \/ /\ b \in BufferIds
                /\ buffers' = [buffers EXCEPT ![b] =
                     [Fresh(b) EXCEPT !.version = @ + 1, !.text = Changed(c, @)]]
                /\ SetJob(c, [job[c] EXCEPT !.note = <<Fresh(b).version + 1>>])
                /\ Goto(c, step)
                /\ stirred' = Stir(File(c), Truncated(c) \cup
                                IF Place(c) > Len(Fresh(b).text) THEN {"end"} ELSE {})
                /\ Place(c) <= Len(Fresh(b).text) + pastEnd
<1> DEFINE b == open_file_buffers[File(c)]
           r == [Fresh(b) EXCEPT !.version = NextVersion(@)]
<1>1. b \in BufferIds \cup {0}
  BY DEF Types, TypeOK
<1>2. b \in BufferIds => buffers[b] \in [file : Files \cup {"none"}, read : BOOLEAN, text : Seq(Int),
          newer : BOOLEAN, refs : Nat, opened : BOOLEAN, version : Nat, lost : Nat]
  BY DEF Types, TypeOK
<1>3. b \in BufferIds => /\ r = [Fresh(b) EXCEPT !.version = @ + 1]
                         /\ r.text = Fresh(b).text /\ r.version = Fresh(b).version + 1
                         /\ [r EXCEPT !.text = Changed(c, @)]
                              = [Fresh(b) EXCEPT !.version = @ + 1, !.text = Changed(c, @)]
  BY <1>2 DEF NextVersion, Fresh
<1>4. CASE b = 0
  BY <1>4 DEF Change
<1>5. CASE b # 0
  <2>1. b \in BufferIds
    BY <1>1, <1>5
  <2>2. \/ /\ buffers' = [buffers EXCEPT ![b] = [r EXCEPT !.text = Changed(c, @)]]
           /\ SetJob(c, [job[c] EXCEPT !.note = <<r.version>>])
           /\ Goto(c, step)
           /\ Place(c) <= Len(r.text) + pastEnd
        \/ /\ buffers' = [buffers EXCEPT ![b] = r]
           /\ FailWith(c, "location", job[c])
           /\ ~ (Place(c) <= Len(r.text) + pastEnd)
    BY <1>5 DEF Change
  <2>3. stirred' = Stir(File(c), Truncated(c) \cup IF Place(c) > Len(r.text) THEN {"end"} ELSE {})
    BY <1>5 DEF Change
  <2> HIDE DEF r
  <2> QED BY <1>3, <2>1, <2>2, <2>3
<1> QED BY <1>4, <1>5

LEMMA OwnChange ==
  ASSUME Types, Local, NEW c \in Threads, Delete(c) \/ Insert(c)
  PROVE  Own(c)'
<1>1. Placed(c) /\ Planned(c)
  BY DEF Local
<1>2. /\ job[c].plan # <<>> /\ job[c].fb = 0 /\ Doing(c) = "edit" /\ File(c) \in Files
      /\ \/ Depth(c) = 2 /\ Twice(c)
         \/ pc[c] = "insert" /\ Depth(c) = 1 /\ ~Twice(c)
  BY <1>1, Mine DEF Placed, Twice, Delete, Insert
<1>3. CASE \E why \in {"assertion", "location"} : FailWith(c, why, job[c])
  BY <1>3, OwnFail DEF Failures, Delete, Insert
<1>4. CASE \E b \in BufferIds :
             /\ SetJob(c, [job[c] EXCEPT !.note = <<Fresh(b).version + 1>>])
             /\ \/ pc[c] = "delete" /\ Goto(c, "did delete")
                \/ pc[c] = "insert" /\ Goto(c, "did insert")
  <2>1. PICK b \in BufferIds :
          /\ SetJob(c, [job[c] EXCEPT !.note = <<Fresh(b).version + 1>>])
          /\ \/ pc[c] = "delete" /\ Goto(c, "did delete")
             \/ pc[c] = "insert" /\ Goto(c, "did insert")
    BY <1>4
  <2> DEFINE v == Fresh(b).version + 1
  <2>2. v \in Nat
    <3>1. buffers[b] \in [file : Files \cup {"none"}, read : BOOLEAN, text : Seq(Int), newer : BOOLEAN,
             refs : Nat, opened : BOOLEAN, version : Nat, lost : Nat]
      BY <2>1 DEF Types, TypeOK
    <3>2. Fresh(b).version = buffers[b].version /\ buffers[b].version \in Nat
      BY <3>1 DEF Fresh
    <3> QED BY <3>2
  <2> HIDE DEF v
  <2>3. /\ \/ pc[c] = "delete" /\ pc'[c] = "did delete"
           \/ pc[c] = "insert" /\ pc'[c] = "did insert"
        /\ job'[c] = [job[c] EXCEPT !.note = <<v>>]
    BY <2>1 DEF Goto, SetJob, Types, TypeOK, v
  <2>4. <<v>> \in Text /\ Len(<<v>>) = 1 /\ <<v>>[1] = v
    BY <2>2 DEF Text
  <2>5. job'[c] \in JobType
    BY <2>3, <2>4, Mine DEF JobType
  <2>6. /\ job'[c].plan = job[c].plan /\ job'[c].op = job[c].op
        /\ job'[c].held = job[c].held /\ job'[c].note = <<v>>
        /\ job'[c].file = job[c].file /\ job'[c].fb = 0 /\ job'[c].at = job[c].at
    BY <1>2, <2>3, Mine DEF JobType
  <2>7. Placed(c)'
    BY <1>2, <2>2, <2>3, <2>4, <2>6 DEF Placed, Depth, Doing, Phase, Twice
  <2>8. Planned(c)'
    BY <1>1, <1>2, <2>3, <2>6, ZenonT(30) DEF Planned, Doing, Phase, Edits
  <2> QED BY <2>5, <2>7, <2>8 DEF Own
<1>5. CASE Delete(c)
  BY <1>2, <1>3, <1>4, <1>5, ChangeCases DEF Delete
<1>6. CASE Insert(c)
  BY <1>2, <1>3, <1>4, <1>6, ChangeCases DEF Insert
<1> QED BY <1>5, <1>6

LEMMA OwnDidChange ==
  ASSUME Types, Local, NEW c \in Threads, DidChange(c)
  PROVE  Own(c)'
<1>1. Placed(c) /\ Planned(c)
  BY DEF Local
<1>2. /\ pc[c] \in {"did delete", "did insert"}
      /\ job[c].plan # <<>> /\ job[c].fb = 0 /\ Doing(c) = "edit" /\ File(c) \in Files
      /\ \/ Depth(c) = 2 /\ Twice(c)
         \/ pc[c] = "did insert" /\ Depth(c) = 1 /\ ~Twice(c)
  BY <1>1, Mine DEF DidChange, Placed, Twice
<1>3. pc'[c] = IF pc[c] = "did delete" THEN "insert" ELSE IF Depth(c) = 2 THEN "drop" ELSE "save"
  BY DEF DidChange, Goto, Types, TypeOK
<1>4. job'[c] = [job[c] EXCEPT !.note = <<>>]
  BY DEF DidChange, SetJob, Types
<1>5. job'[c] \in JobType
  <2>1. <<>> \in Text
    BY DEF Text
  <2> QED BY <1>4, <2>1, Mine DEF JobType
<1>6. /\ job'[c].plan = job[c].plan /\ job'[c].op = job[c].op
      /\ job'[c].held = job[c].held
      /\ job'[c].file = job[c].file /\ job'[c].fb = 0 /\ job'[c].at = job[c].at
  BY <1>2, <1>4, Mine DEF JobType
<1>7. Placed(c)'
  BY <1>2, <1>3, <1>6 DEF Placed, Depth, Doing, Phase, Twice
<1>8. Planned(c)'
  BY <1>1, <1>2, <1>6 DEF Planned, Doing, Phase, Edits
<1> QED BY <1>5, <1>7, <1>8 DEF Own

\* The steps of a save.
LEMMA OwnSave ==
  ASSUME Types, Local, NEW c \in Threads, Save(c),
         open_file_buffers[File(c)] # 0 => buffers[open_file_buffers[File(c)]].file \in Files
  PROVE  Own(c)'
<1>1. Placed(c) /\ Planned(c)
  BY DEF Local
<1>2. /\ pc[c] = "save" /\ job[c].plan # <<>> /\ Doing(c) = "edit" /\ File(c) \in Files
      /\ Depth(c) = 1
  BY <1>1, Mine DEF Save, Placed
<1>3. CASE FailWith(c, "key", job[c])
  BY <1>2, <1>3, OwnFail DEF Failures
<1>4. CASE ~FailWith(c, "key", job[c])
  <2> DEFINE b == open_file_buffers[File(c)]
  <2>1. b # 0 /\ pc' = [pc EXCEPT ![c] = "truncate"]
        /\ SetJob(c, [job[c] EXCEPT !.fb = b, !.out = Fresh(b).text])
    BY <1>4 DEF Save, Goto
  <2>2. b \in BufferIds
    BY <1>2, <2>1 DEF Types, TypeOK
  <2>3. Fresh(b).text \in Text
    BY <2>1, <2>2, FreshType
  <2>4. pc'[c] = "truncate" /\ job'[c] = [job[c] EXCEPT !.fb = b, !.out = Fresh(b).text]
    BY <2>1 DEF SetJob, Types, TypeOK
  <2>5. job'[c] \in JobType
    BY <2>2, <2>3, <2>4, Mine DEF JobType
  <2>6. /\ job'[c].plan = job[c].plan /\ job'[c].op = job[c].op
        /\ job'[c].held = job[c].held
        /\ job'[c].file = job[c].file /\ job'[c].fb # 0 /\ job'[c].at = job[c].at
    BY <2>1, <2>4, Mine DEF JobType
  <2>7. Placed(c)'
    BY <1>2, <2>4, <2>6 DEF Placed, Depth, Doing, Phase
  <2>8. Planned(c)'
    BY <1>1, <1>2, <2>6 DEF Planned, Doing, Phase, Edits
  <2> QED BY <2>5, <2>7, <2>8 DEF Own
<1> QED BY <1>3, <1>4

LEMMA OwnWrite ==
  ASSUME Types, Local, NEW c \in Threads, Truncate(c) \/ Put(c)
  PROVE  Own(c)'
<1>1. Placed(c) /\ Planned(c)
  BY DEF Local
<1>2. /\ pc[c] \in {"truncate", "put"} /\ pc'[c] \in {"put", "stamp"} /\ job' = job
  BY DEF Truncate, Put, Goto, Types, TypeOK
<1>3. Placed(c)'
  BY <1>1, <1>2 DEF Placed, Depth, Doing, Phase
<1>4. Planned(c)'
  BY <1>1, <1>2 DEF Planned, Doing, Phase, Edits
<1> QED BY <1>2, <1>3, <1>4, Mine DEF Own

LEMMA OwnStamp ==
  ASSUME Types, Local, NEW c \in Threads, Stamp(c)
  PROVE  Own(c)'
<1>1. Placed(c) /\ Planned(c)
  BY DEF Local
<1>2. /\ pc[c] = "stamp" /\ job[c].plan # <<>> /\ Doing(c) = "edit" /\ File(c) \in Files
      /\ Depth(c) = 1
  BY <1>1, Mine DEF Stamp, Placed
<1>3. pc'[c] = "drop"
  BY DEF Stamp, Goto, Types, TypeOK
<1>4. job'[c] = [job[c] EXCEPT !.fb = 0, !.out = <<>>, !.saved = @ \cup {File(c)}]
  BY DEF Stamp, SetJob, Types
<1>5. job'[c] \in JobType
  <2>1. <<>> \in Text
    BY DEF Text
  <2>2. job[c].saved \cup {File(c)} \in SUBSET Files
    BY <1>2, Mine DEF JobType
  <2> QED BY <1>4, <2>1, <2>2, Mine DEF JobType
<1>6. /\ job'[c].plan = job[c].plan /\ job'[c].op = job[c].op
      /\ job'[c].held = job[c].held
      /\ job'[c].file = job[c].file /\ job'[c].fb = 0 /\ job'[c].at = job[c].at
  BY <1>4, Mine DEF JobType
<1>7. Placed(c)'
  BY <1>2, <1>3, <1>6 DEF Placed, Depth, Doing, Phase
<1>8. Planned(c)'
  BY <1>1, <1>2, <1>6 DEF Planned, Doing, Phase, Edits
<1> QED BY <1>5, <1>7, <1>8 DEF Own

-----------------------------------------------------------------------------
(* Who holds which buffer.                                                   *)

\* A step of a call leaves the other calls alone.
LEMMA OthersStay ==
  ASSUME Types, NEW c \in Threads, Step(c), NEW d \in Threads, d # c
  PROVE  job'[d] = job[d] /\ pc'[d] = pc[d]
<1> USE DEF Types, TypeOK, Goto, SetJob
<1>1. CASE Begin(c) \/ Return(c)
  BY <1>1 DEF Begin, Return
<1>2. CASE Open(c)
  BY <1>2 DEF Open, FailWith
<1>3. CASE EnsureOpen(c) \/ OpenFails(c) \/ ReadFails(c)
  BY <1>3 DEF EnsureOpen, OpenFails, ReadFails, FailWith
<1>4. CASE DidOpen(c) \/ Store(c)
  BY <1>4 DEF DidOpen, Store
<1>5. CASE Drop(c)
  BY <1>5 DEF Drop, AfterDrop
<1>6. CASE Close(c)
  BY <1>6 DEF Close
<1>7. CASE Del(c)
  BY <1>7 DEF Del, AfterDrop
<1>8. CASE LookInCache(c)
  BY <1>8 DEF LookInCache, Located
<1>9. CASE Ask(c)
  BY <1>9 DEF Ask, Located
<1>10. CASE Validate(c)
  BY <1>10 DEF Validate, FailWith
<1>11. CASE Delete(c) \/ Insert(c)
  BY <1>11 DEF Delete, Insert, Change, FailWith
<1>12. CASE DidChange(c)
  BY <1>12 DEF DidChange
<1>13. CASE Save(c)
  BY <1>13 DEF Save, FailWith
<1>14. CASE Truncate(c) \/ Put(c) \/ Stamp(c)
  BY <1>14 DEF Truncate, Put, Stamp
<1> QED BY <1>1, <1>2, <1>3, <1>4, <1>5, <1>6, <1>7, <1>8, <1>9, <1>10, <1>11, <1>12, <1>13, <1>14
        DEF Step

\* The blocks that are entered and not counted down.
Holders(b) == {u \in Threads \X (1 .. 2) : Holds(u[1], u[2], b)}

LEMMA DepthBound ==
  ASSUME Types, Local, NEW c \in Threads
  PROVE  /\ Depth(c) \in 0 .. 2 /\ (Depth(c) # 0 => pc[c] \notin {"idle", "return", "validate"})
         /\ pc[c] \notin {"idle", "return", "validate", "open"} => Depth(c) # 0
         /\ Depth(c) # 0 => /\ job[c].plan # <<>> /\ File(c) \in Files /\ Buffer(c) \in BufferIds
                            /\ Depth(c) \in 1 .. 2 /\ Depth(c) \in 1 .. Depth(c)
                            /\ Buffer(c) = job[c].held[Depth(c)]
         /\ \A i \in 1 .. Depth(c) : job[c].held[i] \in BufferIds
<1>1. Placed(c)
  BY DEF Local
<1>2. pc[c] = "idle" => Depth(c) = 0
  BY <1>1 DEF Placed, NoJob, Depth
<1>3. pc[c] \in Steps
  BY DEF Types, TypeOK
<1>4. /\ pc[c] \in {"return", "validate"} => Depth(c) = 0
      /\ pc[c] = "open" => Depth(c) = 0 \/ Depth(c) = 1
      /\ pc[c] \in {"ensure", "did open", "store", "drop", "close", "del"} => Depth(c) = 1 \/ Depth(c) = 2
      /\ pc[c] \in {"look", "ask", "save", "truncate", "put", "stamp"} => Depth(c) = 1
      /\ pc[c] \in {"delete", "did delete"} => Depth(c) = 2
      /\ pc[c] \in {"insert", "did insert"} => Depth(c) = 1 \/ Depth(c) = 2
      /\ pc[c] \notin {"idle", "return"} => job[c].plan # <<>>
  BY <1>1 DEF Placed
<1>5. Depth(c) # 0 => pc[c] \notin {"idle", "return", "validate"}
  BY <1>2, <1>4
<1>6. Depth(c) = 0 \/ Depth(c) = 1 \/ Depth(c) = 2
  BY <1>2, <1>3, <1>4 DEF Steps
<1>7. \A i \in 1 .. Depth(c) : job[c].held[i] \in BufferIds
  BY Mine DEF Depth
<1>8. Depth(c) # 0 => job[c].plan # <<>> /\ File(c) \in Files /\ Buffer(c) \in BufferIds
  BY <1>4, <1>5, Mine
<1>9. Depth(c) \in 0 .. 2
  BY <1>6
<1>10. pc[c] \notin {"idle", "return", "validate", "open"} => Depth(c) # 0
  <2> SUFFICES ASSUME pc[c] \notin {"idle", "return", "validate", "open"}
               PROVE  Depth(c) = 1 \/ Depth(c) = 2
    OBVIOUS
  <2> QED BY <1>3, <1>4 DEF Steps
<1>11. Buffer(c) = job[c].held[Depth(c)]
  BY DEF Buffer, Last, Depth
<1>12. Depth(c) # 0 => Depth(c) \in 1 .. 2 /\ Depth(c) \in 1 .. Depth(c)
  BY <1>6
<1> QED BY <1>5, <1>7, <1>8, <1>9, <1>10, <1>11, <1>12

LEMMA OneTwo == IsFiniteSet(1 .. 2) /\ Cardinality(1 .. 2) = 2
<1> DEFINE n == 2
<1>1. n \in Nat /\ n > 0
  OBVIOUS
<1> HIDE DEF n
<1>2. IsFiniteSet(1 .. n) /\ Cardinality(1 .. n) = n
  BY <1>1, FS_Interval
<1> QED BY <1>2 DEF n

LEMMA HoldersFinite ==
  ASSUME NEW b
  PROVE  /\ IsFiniteSet(Holders(b)) /\ Users(b) = Cardinality(Holders(b))
         /\ Users(b) \in 0 .. 2 * Cardinality(Threads)
<1>1. IsFiniteSet(1 .. 2) /\ Cardinality(1 .. 2) = 2
  BY OneTwo
<1>2. IsFiniteSet(Threads \X (1 .. 2)) /\ Cardinality(Threads \X (1 .. 2)) = Cardinality(Threads) * 2
  BY <1>1, ThreadsAssumption, FS_Product
<1>3. Holders(b) \in SUBSET (Threads \X (1 .. 2))
  BY DEF Holders
<1>4. IsFiniteSet(Holders(b)) /\ Cardinality(Holders(b)) <= Cardinality(Threads) * 2
  BY <1>2, <1>3, FS_Subset
<1>5. Users(b) = Cardinality(Holders(b))
  BY Zenon DEF Users, Holders
<1>6. Cardinality(Holders(b)) \in Nat /\ Cardinality(Threads) \in Nat
  BY <1>4, ThreadsAssumption, FS_CardinalityType
<1> QED BY <1>4, <1>5, <1>6

\* A buffer's number is not that of no buffer.
LEMMA NotZero == 0 \notin BufferIds
<1>1. Cardinality(Threads) \in Nat /\ Cardinality(Files) \in Nat
  BY ThreadsAssumption, FilesAssumption, FS_CardinalityType
<1> QED BY <1>1 DEF BufferIds

\* A thread that opens a file finds an object for its buffer.
LEMMA GarbageExists ==
  ASSUME Types, Local, NEW c \in Threads, pc[c] = "open"
  PROVE  Garbage # {}
<1> SUFFICES ASSUME Garbage = {} PROVE FALSE
  OBVIOUS
<1> DEFINE Slot(d, i) == IF i <= Depth(d) THEN job[d].held[i] ELSE job[d].fb
           P == Threads \X (1 .. 2)
           S == P \ {<<c, 2>>}
           T == {Slot(u[1], u[2]) : u \in S}
           g == [u \in S |-> Slot(u[1], u[2])]
           R == {open_file_buffers[f] : f \in Files}
           h == [f \in Files |-> open_file_buffers[f]]
<1>1. Depth(c) = 0 \/ Depth(c) = 1
  BY DEF Local, Placed
<1>2. \A d \in Threads : \A i \in 1 .. Depth(d) : job[d].held[i] \in T
  <2> SUFFICES ASSUME NEW d \in Threads, NEW i \in 1 .. Depth(d) PROVE job[d].held[i] \in T
    OBVIOUS
  <2>1. i \in 1 .. 2 /\ i <= Depth(d)
    BY DepthBound
  <2>2. <<d, i>> \in S
    BY <1>1, <2>1
  <2>3. Slot(<<d, i>>[1], <<d, i>>[2]) = job[d].held[i]
    BY <2>1
  <2> HIDE DEF S, Slot
  <2> QED BY <2>2, <2>3
<1>3. \A d \in Threads : job[d].fb # 0 => job[d].fb \in T
  <2> SUFFICES ASSUME NEW d \in Threads, job[d].fb # 0 PROVE job[d].fb \in T
    OBVIOUS
  <2>1. d # c /\ Depth(d) = 1
    BY DEF Local, Placed
  <2>2. <<d, 2>> \in S
    BY <2>1
  <2>3. Slot(<<d, 2>>[1], <<d, 2>>[2]) = job[d].fb
    BY <2>1
  <2> HIDE DEF S, Slot
  <2> QED BY <2>2, <2>3
<1>4. BufferIds \subseteq T \cup R
  <2> SUFFICES ASSUME NEW b \in BufferIds PROVE b \in T \cup R
    OBVIOUS
  <2>1. b # 0
    BY NotZero
  <2>2. CASE \E f \in Files : open_file_buffers[f] = b
    BY <2>2
  <2>3. CASE \E d \in Threads : b \in ToSet(job[d].held)
    <3>1. PICK d \in Threads : b \in ToSet(job[d].held)
      BY <2>3
    <3>2. \E i \in 1 .. Depth(d) : job[d].held[i] = b
      BY <3>1, Mine DEF ToSet, Depth
    <3> QED BY <1>2, <3>2
  <2>4. CASE \E d \in Threads : b = job[d].fb
    BY <1>3, <2>1, <2>4
  <2> QED BY <2>2, <2>3, <2>4 DEF Garbage
<1>5. IsFiniteSet(1 .. 2) /\ Cardinality(1 .. 2) = 2
  BY OneTwo
<1>6. IsFiniteSet(P) /\ Cardinality(P) = Cardinality(Threads) * 2
  BY <1>5, ThreadsAssumption, FS_Product
<1>7. <<c, 2>> \in P
  OBVIOUS
<1> HIDE DEF P
<1>8. IsFiniteSet(S) /\ Cardinality(S) = Cardinality(Threads) * 2 - 1
  BY <1>6, <1>7, FS_RemoveElement
<1> HIDE DEF S, Slot
<1>9. g \in Surjection(S, T)
  BY DEF Surjection
<1>10. IsFiniteSet(T) /\ Cardinality(T) <= Cardinality(S)
  BY <1>8, <1>9, FS_Surjection
<1>11. h \in Surjection(Files, R)
  BY DEF Surjection
<1>12. IsFiniteSet(R) /\ Cardinality(R) <= Cardinality(Files)
  BY <1>11, FilesAssumption, FS_Surjection
<1> HIDE DEF T, R
<1>13. Cardinality(T) \in Nat /\ Cardinality(R) \in Nat /\ Cardinality(T \cap R) \in Nat
  BY <1>10, <1>12, FS_CardinalityType, FS_Intersection
<1>14. IsFiniteSet(T \cup R) /\ Cardinality(T \cup R) <= Cardinality(T) + Cardinality(R)
  <2>1. /\ IsFiniteSet(T \cup R)
        /\ Cardinality(T \cup R) = Cardinality(T) + Cardinality(R) - Cardinality(T \cap R)
    BY <1>10, <1>12, FS_Union
  <2>2. \A t, r, i \in Nat : t + r - i <= t + r
    OBVIOUS
  <2> QED BY <1>13, <2>1, <2>2
<1>15. Cardinality(BufferIds) <= Cardinality(T \cup R) /\ Cardinality(T \cup R) \in Nat
  BY <1>4, <1>14, FS_Subset, FS_CardinalityType
<1>16. Cardinality(Threads) \in Nat /\ Cardinality(Files) \in Nat
  BY ThreadsAssumption, FilesAssumption, FS_CardinalityType
<1>17. Cardinality(BufferIds) = 2 * Cardinality(Threads) + Cardinality(Files)
  <2> DEFINE n == 2 * Cardinality(Threads) + Cardinality(Files)
  <2>1. n \in Nat
    BY <1>16
  <2> HIDE DEF n
  <2>2. Cardinality(1 .. n) = n
    BY <2>1, FS_Interval
  <2> QED BY <2>2 DEF n, BufferIds
<1> QED BY <1>8, <1>10, <1>12, <1>13, <1>14, <1>15, <1>16, <1>17

-----------------------------------------------------------------------------
(* Steps that leave what is held as it is.                                   *)

SameHolds ==
  \A d \in Threads : /\ job'[d].held = job[d].held
                     /\ Depth(d) # 0 => File(d)' = File(d)
                     /\ pc'[d] \in {"close", "del"} <=> pc[d] \in {"close", "del"}

SameBuffers ==
  \A b \in BufferIds : /\ buffers'[b].file = buffers[b].file
                       /\ buffers'[b].refs = buffers[b].refs
                       /\ buffers'[b].lost = buffers[b].lost
                       /\ buffers[b].opened => buffers'[b].opened

\* A file is registered with the buffer it had or with one that a call on it holds.
HeldEntries ==
  \A f \in Files : \/ open_file_buffers'[f] = open_file_buffers[f]
                   \/ \E d \in Threads : /\ Depth(d) # 0 /\ File(d) = f
                                         /\ open_file_buffers'[f] = Buffer(d)

\* What the server has open it had open before, or it is what a call on it holds.
HeldDocuments ==
  \A f \in Files : server'[f].open =>
    \/ server[f].open
    \/ \E d \in Threads : /\ Depth(d) # 0 /\ File(d) = f /\ Intact(Buffer(d))
                          /\ pc'[d] # "del"

LEMMA QuietTable ==
  ASSUME Types, Local, HeldTyped, Counted, Lossy, Closing, Closed, Registered,
         SameHolds, SameBuffers, HeldEntries
  PROVE  HeldTyped' /\ Counted' /\ Lossy' /\ Closing' /\ Closed' /\ Registered'
<1>1. \A d \in Threads : Depth(d)' = Depth(d) /\ Buffer(d)' = Buffer(d)
  BY DEF SameHolds, Depth, Buffer
<1>2. \A d \in Threads : \A i \in 1 .. Depth(d) : job[d].held[i] \in BufferIds
  BY DepthBound
<1>3. \A d \in Threads : Depth(d) \in 0 .. 2
  BY DepthBound
<1>4. HeldTyped'
  BY <1>1, <1>2, <1>3 DEF HeldTyped, SameHolds, SameBuffers
<1>5. Counted' /\ Lossy'
  <2> SUFFICES ASSUME NEW b \in BufferIds
               PROVE  /\ buffers'[b].refs = Users(b)' + buffers'[b].lost
                      /\ buffers'[b].lost > 0 => buffers'[b].opened
    BY DEF Counted, Lossy, BufferIds
  <2>1. \A d \in Threads, i \in 1 .. 2 : Holds(d, i, b)' <=> Holds(d, i, b)
    BY <1>1 DEF Holds, SameHolds, Depth
  <2>2. Holders(b)' = Holders(b)
    BY <2>1 DEF Holders
  <2>3. Users(b) = Cardinality(Holders(b)) /\ Users(b)' = Cardinality(Holders(b)')
    BY Zenon DEF Users, Holders
  <2> QED BY <2>2, <2>3 DEF Counted, Lossy, SameBuffers
<1>6. Closing' /\ Closed'
  <2>1. \A d \in Threads : pc[d] \in {"close", "del"} => Buffer(d) \in BufferIds
    BY DepthBound
  <2> QED BY <1>1, <2>1 DEF Closing, Closed, SameHolds, SameBuffers
<1>7. Registered'
  <2> SUFFICES ASSUME NEW f \in Files, open_file_buffers'[f] # 0
               PROVE  /\ buffers'[open_file_buffers'[f]].file = f
                      /\ \/ buffers'[open_file_buffers'[f]].lost > 0
                         \/ \E d \in Threads : \E i \in 1 .. Depth(d)' :
                              job'[d].held[i] = open_file_buffers'[f]
    BY DEF Registered
  <2>1. CASE open_file_buffers'[f] = open_file_buffers[f]
    <3>1. open_file_buffers[f] \in BufferIds
      BY <2>1 DEF Types, TypeOK
    <3>2. buffers[open_file_buffers[f]].file = f
      BY <2>1 DEF Registered
    <3>3. CASE buffers[open_file_buffers[f]].lost > 0
      BY <2>1, <3>1, <3>2, <3>3 DEF SameBuffers
    <3>4. CASE ~(buffers[open_file_buffers[f]].lost > 0)
      <4>1. PICK d \in Threads : \E i \in 1 .. Depth(d) : job[d].held[i] = open_file_buffers[f]
        BY <2>1, <3>4 DEF Registered
      <4> QED BY <1>1, <2>1, <3>1, <3>2, <4>1 DEF SameHolds, SameBuffers
    <3> QED BY <3>3, <3>4
  <2>2. CASE \E d \in Threads : /\ Depth(d) # 0 /\ File(d) = f
                                /\ open_file_buffers'[f] = Buffer(d)
    <3>1. PICK d \in Threads : Depth(d) # 0 /\ File(d) = f /\ open_file_buffers'[f] = Buffer(d)
      BY <2>2
    <3>2. Depth(d) \in 1 .. Depth(d) /\ Buffer(d) = job[d].held[Depth(d)] /\ Buffer(d) \in BufferIds
      BY <1>3, <3>1, DepthBound
    <3>3. buffers[Buffer(d)].file = f
      BY <3>1, <3>2 DEF HeldTyped
    <3> QED BY <1>1, <3>1, <3>2, <3>3 DEF SameHolds, SameBuffers
  <2> QED BY <2>1, <2>2 DEF HeldEntries
<1> QED BY <1>4, <1>5, <1>6, <1>7

LEMMA QuietServer ==
  ASSUME Types, Local, ServerHeld, SameHolds, SameBuffers, HeldDocuments,
         \A d \in Threads : pc'[d] = "del" => pc[d] = "del"
  PROVE  ServerHeld'
<1>1. \A d \in Threads : Depth(d)' = Depth(d)
  BY DEF SameHolds, Depth
<1>2. \A d \in Threads : \A i \in 1 .. Depth(d) : job[d].held[i] \in BufferIds
  BY DepthBound
<1> SUFFICES ASSUME NEW f \in Files, server'[f].open
             PROVE  \E d \in Threads : \E i \in 1 .. Depth(d)' :
                      /\ File(d)' = f /\ Intact(job[d].held[i])'
                      /\ ~(pc'[d] = "del" /\ i = Depth(d)')
  BY DEF ServerHeld
<1>3. CASE server[f].open
  <2>1. PICK d \in Threads, i \in Nat :
          /\ i \in 1 .. Depth(d)
          /\ File(d) = f /\ Intact(job[d].held[i])
          /\ ~(pc[d] = "del" /\ i = Depth(d))
    BY <1>3 DEF ServerHeld
  <2>2. Depth(d) # 0
    BY <2>1
  <2> QED BY <1>1, <1>2, <2>1, <2>2 DEF SameHolds, SameBuffers, Intact
<1>4. CASE \E d \in Threads : /\ Depth(d) # 0 /\ File(d) = f /\ Intact(Buffer(d))
                              /\ pc'[d] # "del"
  <2>1. PICK d \in Threads : /\ Depth(d) # 0 /\ File(d) = f /\ Intact(Buffer(d))
                             /\ pc'[d] # "del"
    BY <1>4
  <2>2. Depth(d) \in 1 .. Depth(d) /\ Buffer(d) = job[d].held[Depth(d)] /\ Buffer(d) \in BufferIds
    BY <2>1, DepthBound
  <2>3. \A i \in 1 .. Depth(d) : i = Depth(d) => Intact(job[d].held[i])'
    BY <2>1, <2>2 DEF SameHolds, SameBuffers, Intact
  <2> QED BY <1>1, <2>1, <2>2, <2>3 DEF SameHolds
<1> QED BY <1>3, <1>4 DEF HeldDocuments

\* The steps of a call other than those that count.
Quiet(c) ==
  \/ Begin(c) \/ Return(c) \/ EnsureOpen(c) \/ DidOpen(c) \/ Store(c) \/ LookInCache(c) \/ Ask(c)
  \/ Validate(c) \/ Delete(c) \/ Insert(c) \/ DidChange(c) \/ Save(c) \/ Truncate(c) \/ Put(c)
  \/ Stamp(c) \/ (Open(c) /\ FailWith(c, "assertion", job[c]))
  \/ ReadFails(c) \/ (OpenFails(c) /\ Lazy(c))

\* What is kept of a job that raises.
LEMMA FailKeeps ==
  ASSUME Types, NEW c \in Threads, NEW why,
         \/ FailWith(c, why, job[c])
         \/ FailWith(c, why, [job[c] EXCEPT !.fb = 0, !.out = <<>>])
  PROVE  /\ job'[c].held = job[c].held /\ job'[c].plan = job[c].plan
         /\ pc'[c] \in {"return", "drop"}
<1>1. \/ job'[c] = [job[c] EXCEPT !.failed = why]
      \/ job'[c] = [[job[c] EXCEPT !.fb = 0, !.out = <<>>] EXCEPT !.failed = why]
  BY DEF FailWith, SetJob, Types
<1>2. pc'[c] \in {"return", "drop"}
  BY DEF FailWith, Goto, Types, TypeOK
<1> QED BY <1>1, <1>2, Mine DEF JobType

LEMMA LocatedKeeps ==
  ASSUME Types, NEW c \in Threads, NEW symbols, Located(c, symbols)
  PROVE  job'[c].held = job[c].held /\ job'[c].plan = job[c].plan /\ pc'[c] = "drop"
<1>1. PICK why : job'[c] = [job[c] EXCEPT !.at = symbols, !.failed = why]
  BY DEF Located, SetJob, Types
<1>2. pc'[c] = "drop"
  BY DEF Located, Goto, Types, TypeOK
<1> QED BY <1>1, <1>2, Mine DEF JobType

LEMMA QuietOwn ==
  ASSUME Types, Local, NEW c \in Threads, Quiet(c)
  PROVE  /\ job'[c].held = job[c].held
         /\ Depth(c) # 0 => File(c)' = File(c)
         /\ pc[c] \notin {"close", "del"} /\ pc'[c] \notin {"close", "del"}
<1>1. Placed(c)
  BY DEF Local
<1>2. CASE Begin(c)
  <2>1. job[c].held = <<>> /\ pc[c] = "idle" /\ Depth(c) = 0
    BY <1>1, <1>2, Mine DEF Begin, Placed, NoJob
  <2>2. job'[c].held = <<>> /\ pc'[c] = "open"
    BY <1>2 DEF Begin, SetJob, Goto, NoJob, Types, TypeOK
  <2> QED BY <2>1, <2>2
<1>3. CASE Return(c)
  <2>1. job[c].held = <<>> /\ pc[c] = "return" /\ Depth(c) = 0
    BY <1>1, <1>3, Mine DEF Return, Placed
  <2>2. job'[c].held = <<>> /\ pc'[c] = "idle"
    BY <1>3 DEF Return, SetJob, Goto, NoJob, Types, TypeOK
  <2> QED BY <2>1, <2>2
<1>4. CASE EnsureOpen(c)
  <2>1. job[c].next \notin {"close", "del"}
    BY Mine DEF JobType, Insides
  <2>2. /\ job'[c] = job[c] \/ job'[c] = [job[c] EXCEPT !.note = Fresh(Buffer(c)).text]
        /\ pc'[c] \in {job[c].next, "did open"} /\ pc[c] = "ensure"
    BY <1>4 DEF EnsureOpen, SetJob, Goto, Types, TypeOK
  <2>3. job'[c].held = job[c].held /\ job'[c].plan = job[c].plan
    BY <2>2, Mine DEF JobType
  <2> QED BY <2>1, <2>2, <2>3 DEF File, Phase
<1>5. CASE DidOpen(c)
  <2>1. job[c].next \notin {"close", "del"}
    BY Mine DEF JobType, Insides
  <2>2. /\ job'[c] = [job[c] EXCEPT !.note = <<>>] /\ pc'[c] = job[c].next /\ pc[c] = "did open"
    BY <1>5 DEF DidOpen, SetJob, Goto, Types, TypeOK
  <2>3. job'[c].held = job[c].held /\ job'[c].plan = job[c].plan
    BY <2>2, Mine DEF JobType
  <2> QED BY <2>1, <2>2, <2>3 DEF File, Phase
<1>6. CASE Store(c)
  <2>1. job' = job /\ pc'[c] = Inside(c, Depth(c)) /\ pc[c] = "store" /\ job[c].plan # <<>>
    BY <1>1, <1>6 DEF Store, Goto, Types, TypeOK, Placed
  <2>2. pc'[c] \notin {"close", "del"}
    BY <2>1, Mine DEF Inside
  <2> QED BY <2>1, <2>2 DEF File, Phase
<1>7. CASE LookInCache(c)
  <2>1. pc[c] = "look"
    BY <1>7 DEF LookInCache
  <2>2. CASE SetJob(c, [job[c] EXCEPT !.next = "ask"]) /\ Goto(c, "ensure")
    <3>1. job'[c] = [job[c] EXCEPT !.next = "ask"] /\ pc'[c] = "ensure"
      BY <2>2 DEF SetJob, Goto, Types, TypeOK
    <3>2. job'[c].held = job[c].held /\ job'[c].plan = job[c].plan
      BY <3>1, Mine DEF JobType
    <3> QED BY <2>1, <3>1, <3>2 DEF File, Phase
  <2>3. CASE \E symbols : Located(c, symbols)
    BY <2>1, <2>3, LocatedKeeps DEF File, Phase
  <2> QED BY <1>7, <2>2, <2>3 DEF LookInCache
<1>8. CASE Ask(c)
  <2>1. pc[c] = "ask" /\ job[c].plan # <<>>
    BY <1>1, <1>8 DEF Ask, Placed
  <2>2. CASE \E symbols \in [Files -> Nat] :
               (job[c].op = "rename" => symbols[File(c)] = 0) /\ Located(c, symbols)
    BY <2>1, <2>2, LocatedKeeps DEF File, Phase
  <2>3. CASE ~ \E symbols \in [Files -> Nat] :
                 (job[c].op = "rename" => symbols[File(c)] = 0) /\ Located(c, symbols)
    <3>1. PICK symbols \in [Files -> Nat], plan \in Seq({"ask", "edit"} \X Files) :
              /\ job[c].op = "rename" /\ pc'[c] = "drop"
              /\ job'[c] = [job[c] EXCEPT !.at = symbols, !.plan = plan]
              /\ plan # <<>> /\ Head(plan) = job[c].plan[1] /\ plan[1] = job[c].plan[1]
              /\ \A i \in 2 .. Len(plan) : plan[i][1] = "edit" /\ symbols[plan[i][2]] >= 1
      BY <1>8, <2>3, AskCases
    <3>2. job'[c].held = job[c].held /\ job'[c].plan = plan
      BY <3>1, Mine DEF JobType
    <3>3. Phase(c)' = Phase(c)
      BY <2>1, <3>1, <3>2, Mine DEF Phase
    <3> QED BY <2>1, <3>1, <3>2, <3>3 DEF File
  <2> QED BY <2>2, <2>3
<1>9. CASE Validate(c)
  <2>1. pc[c] = "validate" /\ Depth(c) = 0
    BY <1>1, <1>9 DEF Validate, Placed
  <2>2. CASE FailWith(c, "denied", job[c])
    BY <2>1, <2>2, FailKeeps
  <2>3. CASE job' = job /\ Goto(c, "open")
    BY <2>1, <2>3 DEF Goto, Types, TypeOK
  <2> QED BY <1>9, <2>2, <2>3 DEF Validate
<1>10. CASE Delete(c) \/ Insert(c)
  <2>1. pc[c] \in {"delete", "insert"} /\ File(c) \in Files
    BY <1>1, <1>10, Mine DEF Delete, Insert, Placed
  <2>2. CASE \E why : FailWith(c, why, job[c])
    BY <2>1, <2>2, FailKeeps DEF File, Phase
  <2>3. CASE \E note : /\ SetJob(c, [job[c] EXCEPT !.note = note])
                       /\ Goto(c, "did delete") \/ Goto(c, "did insert")
    <3>1. PICK note : /\ SetJob(c, [job[c] EXCEPT !.note = note])
                      /\ Goto(c, "did delete") \/ Goto(c, "did insert")
      BY <2>3
    <3>2. job'[c] = [job[c] EXCEPT !.note = note] /\ pc'[c] \in {"did delete", "did insert"}
      BY <3>1 DEF SetJob, Goto, Types, TypeOK
    <3>3. job'[c].held = job[c].held /\ job'[c].plan = job[c].plan
      BY <3>2, Mine DEF JobType
    <3> QED BY <2>1, <3>2, <3>3 DEF File, Phase
  <2> QED BY <1>10, <2>1, <2>2, <2>3, ChangeCases DEF Delete, Insert
<1>11. CASE DidChange(c)
  <2>1. /\ job'[c] = [job[c] EXCEPT !.note = <<>>] /\ pc'[c] \in {"insert", "drop", "save"}
        /\ pc[c] \in {"did delete", "did insert"}
    BY <1>11 DEF DidChange, SetJob, Goto, Types, TypeOK
  <2>2. job'[c].held = job[c].held /\ job'[c].plan = job[c].plan
    BY <2>1, Mine DEF JobType
  <2> QED BY <2>1, <2>2 DEF File, Phase
<1>12. CASE Save(c)
  <2>1. pc[c] = "save"
    BY <1>12 DEF Save
  <2>2. CASE FailWith(c, "key", job[c])
    BY <2>1, <2>2, FailKeeps DEF File, Phase
  <2>3. CASE \E b, out : SetJob(c, [job[c] EXCEPT !.fb = b, !.out = out]) /\ Goto(c, "truncate")
    <3>1. PICK b, out : SetJob(c, [job[c] EXCEPT !.fb = b, !.out = out]) /\ Goto(c, "truncate")
      BY <2>3
    <3>2. job'[c] = [job[c] EXCEPT !.fb = b, !.out = out] /\ pc'[c] = "truncate"
      BY <3>1 DEF SetJob, Goto, Types, TypeOK
    <3>3. job'[c].held = job[c].held /\ job'[c].plan = job[c].plan
      BY <3>2, Mine DEF JobType
    <3> QED BY <2>1, <3>2, <3>3 DEF File, Phase
  <2> QED BY <1>12, <2>2, <2>3 DEF Save
<1>13. CASE Truncate(c) \/ Put(c)
  BY <1>13 DEF Truncate, Put, Goto, Types, TypeOK, File, Phase
<1>14. CASE Stamp(c)
  <2>1. /\ job'[c] = [job[c] EXCEPT !.fb = 0, !.out = <<>>, !.saved = @ \cup {File(c)}]
        /\ pc'[c] = "drop" /\ pc[c] = "stamp"
    BY <1>14 DEF Stamp, SetJob, Goto, Types, TypeOK
  <2>2. job'[c].held = job[c].held /\ job'[c].plan = job[c].plan
    BY <2>1, Mine DEF JobType
  <2> QED BY <2>1, <2>2 DEF File, Phase
<1>15. CASE Open(c) /\ FailWith(c, "assertion", job[c])
  <2>1. pc[c] = "open"
    BY <1>15 DEF Open
  <2> QED BY <1>15, <2>1, FailKeeps DEF File, Phase
<1>16. CASE ReadFails(c) \/ (OpenFails(c) /\ Lazy(c))
  <2>1. pc[c] \notin {"close", "del"}
    BY <1>16 DEF ReadFails, OpenFails
  <2>2. \/ FailWith(c, "unread", job[c])
        \/ FailWith(c, "unread", [job[c] EXCEPT !.fb = 0, !.out = <<>>])
    BY <1>16 DEF ReadFails, OpenFails
  <2> QED BY <2>1, <2>2, FailKeeps DEF File, Phase
<1> QED BY <1>2, <1>3, <1>4, <1>5, <1>6, <1>7, <1>8, <1>9, <1>10, <1>11, <1>12, <1>13, <1>14, <1>15,
        <1>16 DEF Quiet

BufferType == [file : Files \cup {"none"}, read : BOOLEAN, text : Seq(Int), newer : BOOLEAN,
               refs : Nat, opened : BOOLEAN, version : Nat, lost : Nat]

\* Reading the contents changes the text and the time only.
LEMMA FreshKeeps ==
  ASSUME Types, NEW b \in BufferIds
  PROVE  /\ buffers[b] \in BufferType
         /\ Fresh(b).file = buffers[b].file /\ Fresh(b).refs = buffers[b].refs
         /\ Fresh(b).lost = buffers[b].lost
         /\ Fresh(b).opened = buffers[b].opened /\ Fresh(b).version = buffers[b].version
         /\ \E text, read, newer :
                 Fresh(b) = [buffers[b] EXCEPT !.text = text, !.read = read, !.newer = newer]
<1>1. buffers[b] \in BufferType
  BY DEF Types, TypeOK, BufferType
<1>2. buffers[b] =
        [buffers[b] EXCEPT !.text = buffers[b].text, !.read = buffers[b].read, !.newer = buffers[b].newer]
  BY <1>1 DEF BufferType
<1>3. \E text, read, newer :
        Fresh(b) = [buffers[b] EXCEPT !.text = text, !.read = read, !.newer = newer]
  BY <1>2 DEF Fresh
<1> QED BY <1>1, <1>3 DEF BufferType

\* A buffer of a file whose contents are read is a buffer.
LEMMA FreshTyped ==
  ASSUME Types, NEW b \in BufferIds, buffers[b].file \in Files
  PROVE  Fresh(b) \in BufferType
<1>1. buffers[b] \in BufferType /\ disk[buffers[b].file] \in Seq(Int)
  BY FreshKeeps DEF Types, TypeOK
<1>2. ASSUME NEW r \in BufferType, NEW text \in Seq(Int)
      PROVE  [r EXCEPT !.text = text, !.read = TRUE, !.newer = FALSE] \in BufferType
  BY DEF BufferType
<1> QED BY <1>1, <1>2 DEF Fresh

\* A buffer that passes for open, with n more users.
LEMMA LostMore ==
  ASSUME NEW r \in BufferType, NEW n \in Nat
  PROVE  /\ [r EXCEPT !.opened = TRUE, !.lost = @ + n] \in BufferType
         /\ [r EXCEPT !.opened = TRUE, !.lost = @ + n].file = r.file
         /\ [r EXCEPT !.opened = TRUE, !.lost = @ + n].refs = r.refs
         /\ [r EXCEPT !.opened = TRUE, !.lost = @ + n].lost = r.lost + n
         /\ [r EXCEPT !.opened = TRUE, !.lost = @ + n].opened
<1>1. r.lost + n \in Nat
  BY DEF BufferType
<1>2. ASSUME NEW m \in Nat
      PROVE  /\ [r EXCEPT !.opened = TRUE, !.lost = m] \in BufferType
             /\ [r EXCEPT !.opened = TRUE, !.lost = m].file = r.file
             /\ [r EXCEPT !.opened = TRUE, !.lost = m].refs = r.refs
             /\ [r EXCEPT !.opened = TRUE, !.lost = m].lost = m
             /\ [r EXCEPT !.opened = TRUE, !.lost = m].opened
  BY DEF BufferType
<1> QED BY <1>1, <1>2, Zenon

\* What a failed opening leaves of the buffer.
LEMMA OpenFailsBuffers ==
  ASSUME Types, NEW c \in Threads, OpenFails(c), Buffer(c) \in BufferIds
  PROVE  /\ pc[c] = "ensure" /\ ~Opened(c)
         /\ \E r : /\ buffers' = [buffers EXCEPT ![Buffer(c)] = r]
                  /\ \/ \E n \in 0 .. 1 :
                          /\ r = [buffers[Buffer(c)] EXCEPT !.opened = TRUE, !.lost = @ + n]
                          /\ n = 0 <=> Lazy(c)
                          /\ \/ Lazy(c) \/ HeldElsewhere(Buffer(c), c)
                             \/ open_file_buffers[File(c)] = Buffer(c)
                     \/ /\ r = NoBuffer
                        /\ ~ (\/ Lazy(c) \/ HeldElsewhere(Buffer(c), c)
                              \/ open_file_buffers[File(c)] = Buffer(c))
<1> DEFINE b == Buffer(c)
           inUse == Lazy(c) \/ HeldElsewhere(b, c) \/ open_file_buffers[File(c)] = b
           n == IF Lazy(c) THEN 0 ELSE 1
           more == [buffers[b] EXCEPT !.opened = TRUE, !.lost = @ + n]
           r == IF inUse THEN more ELSE NoBuffer
<1>1. buffers' = [buffers EXCEPT ![b] = r] /\ pc[c] = "ensure" /\ ~Opened(c)
  <2>1. buffers' = [buffers EXCEPT ![b] = r]
    BY Zenon DEF OpenFails
  <2> QED BY <2>1, Zenon DEF OpenFails
<1>2. n \in 0 .. 1 /\ (n = 0 <=> Lazy(c))
  OBVIOUS
<1>3. more = [buffers[Buffer(c)] EXCEPT !.opened = TRUE, !.lost = @ + n]
  OBVIOUS
<1>4. inUse <=> Lazy(c) \/ HeldElsewhere(Buffer(c), c) \/ open_file_buffers[File(c)] = Buffer(c)
  OBVIOUS
<1>5. (inUse => r = more) /\ (~inUse => r = NoBuffer)
  OBVIOUS
<1> HIDE DEF more, n, inUse, r
<1> QED BY <1>1, <1>2, <1>3, <1>4, <1>5, Zenon

\* Buffer b becomes r.
LEMMA OneBuffer ==
  ASSUME Types, NEW b \in BufferIds, NEW r, buffers' = [buffers EXCEPT ![b] = r],
         r.file = buffers[b].file, r.refs = buffers[b].refs, r.lost = buffers[b].lost,
         buffers[b].opened => r.opened
  PROVE  SameBuffers
<1> QED BY DEF SameBuffers, Types, TypeOK

LEMMA WrittenKeeps ==
  ASSUME Types, NEW f, NEW text, Written(f, text)
  PROVE  SameBuffers
<1> SUFFICES ASSUME NEW b \in BufferIds
             PROVE  /\ buffers'[b].file = buffers[b].file /\ buffers'[b].refs = buffers[b].refs
                    /\ buffers'[b].lost = buffers[b].lost
                    /\ buffers[b].opened => buffers'[b].opened
  BY DEF SameBuffers
<1>1. buffers'[b] = buffers[b] \/ buffers'[b] = [buffers[b] EXCEPT !.newer = TRUE]
  BY DEF Written
<1>2. buffers[b] \in BufferType
  BY FreshKeeps
<1> QED BY <1>1, <1>2 DEF BufferType

LEMMA QuietBuffers ==
  ASSUME Types, Local, Registered, NEW c \in Threads, Quiet(c)
  PROVE  SameBuffers
<1>1. Placed(c)
  BY DEF Local
<1>2. CASE UNCHANGED buffers
  BY <1>2 DEF SameBuffers
<1>3. CASE EnsureOpen(c)
  <2>1. Buffer(c) \in BufferIds
    <3>1. Depth(c) # 0
      BY <1>3, DepthBound DEF EnsureOpen
    <3> QED BY <3>1, DepthBound
  <2>2. PICK text, read, newer :
          Fresh(Buffer(c)) = [buffers[Buffer(c)] EXCEPT !.text = text, !.read = read, !.newer = newer]
    BY <2>1, FreshKeeps
  <2>3. \/ UNCHANGED buffers
        \/ buffers' = [buffers EXCEPT ![Buffer(c)] = [Fresh(Buffer(c)) EXCEPT !.opened = TRUE]]
    BY <1>3 DEF EnsureOpen
  <2>4. LET r == [Fresh(Buffer(c)) EXCEPT !.opened = TRUE]
        IN  /\ r.file = buffers[Buffer(c)].file /\ r.refs = buffers[Buffer(c)].refs
            /\ r.lost = buffers[Buffer(c)].lost /\ r.opened
    BY <2>1, <2>2, FreshKeeps DEF BufferType
  <2> QED BY <1>2, <2>1, <2>3, <2>4, OneBuffer
<1>4. CASE LookInCache(c)
  <2>1. Buffer(c) \in BufferIds
    <3>1. Depth(c) # 0
      BY <1>4, DepthBound DEF LookInCache
    <3> QED BY <3>1, DepthBound
  <2>2. buffers' = [buffers EXCEPT ![Buffer(c)] = Fresh(Buffer(c))]
    BY <1>4 DEF LookInCache
  <2> QED BY <2>1, <2>2, FreshKeeps, OneBuffer
<1>5. CASE Delete(c) \/ Insert(c)
  <2>1. File(c) \in Files
    BY <1>1, <1>5, Mine DEF Delete, Insert, Placed
  <2> DEFINE b == open_file_buffers[File(c)]
  <2>2. \/ UNCHANGED buffers
        \/ b \in BufferIds /\ buffers' = [buffers EXCEPT ![b] = [Fresh(b) EXCEPT !.version = @ + 1]]
        \/ b \in BufferIds
             /\ buffers' = [buffers EXCEPT ![b] =
                              [Fresh(b) EXCEPT !.version = @ + 1, !.text = Changed(c, @)]]
    BY <1>5, <2>1, ChangeCases DEF Delete, Insert
  <2> HIDE DEF b
  <2>3. ASSUME b \in BufferIds, NEW r, buffers' = [buffers EXCEPT ![b] = r],
               \/ r = [Fresh(b) EXCEPT !.version = @ + 1]
               \/ r = [Fresh(b) EXCEPT !.version = @ + 1, !.text = Changed(c, @)]
        PROVE  SameBuffers
    <3>1. PICK text, read, newer :
            Fresh(b) = [buffers[b] EXCEPT !.text = text, !.read = read, !.newer = newer]
      BY <2>3, FreshKeeps
    <3>2. r.file = buffers[b].file /\ r.refs = buffers[b].refs /\ r.lost = buffers[b].lost
          /\ r.opened = buffers[b].opened
      BY <2>3, <3>1, FreshKeeps DEF BufferType
    <3> QED BY <2>3, <3>2, OneBuffer
  <2> QED BY <1>2, <2>2, <2>3
<1>6. CASE Save(c)
  <2>1. File(c) \in Files
    BY <1>1, <1>6, Mine DEF Save, Placed
  <2> DEFINE b == open_file_buffers[File(c)]
  <2>2. b \in BufferIds \cup {0}
    BY <2>1 DEF Types, TypeOK
  <2>3. UNCHANGED buffers \/ (b # 0 /\ buffers' = [buffers EXCEPT ![b] = Fresh(b)])
    BY <1>6 DEF Save
  <2> HIDE DEF b
  <2> QED BY <1>2, <2>2, <2>3, FreshKeeps, OneBuffer
<1>7. CASE Truncate(c) \/ Put(c)
  BY <1>7, WrittenKeeps DEF Truncate, Put
<1>8. CASE Stamp(c)
  <2>1. job[c].fb \in BufferIds
    BY <1>1, <1>8, Mine DEF Stamp, Placed, JobType
  <2>2. buffers' = [buffers EXCEPT ![job[c].fb] = [buffers[job[c].fb] EXCEPT !.newer = FALSE]]
    BY <1>8 DEF Stamp
  <2>3. LET r == [buffers[job[c].fb] EXCEPT !.newer = FALSE]
        IN  /\ r.file = buffers[job[c].fb].file /\ r.refs = buffers[job[c].fb].refs
            /\ r.lost = buffers[job[c].fb].lost /\ r.opened = buffers[job[c].fb].opened
    BY <2>1, FreshKeeps DEF BufferType
  <2> QED BY <2>1, <2>2, <2>3, OneBuffer
<1>9. CASE Begin(c) \/ Return(c) \/ DidOpen(c) \/ Store(c) \/ Ask(c) \/ Validate(c) \/ DidChange(c)
  BY <1>2, <1>9 DEF Begin, Return, DidOpen, Store, Ask, Validate, DidChange
<1>10. CASE Open(c) /\ FailWith(c, "assertion", job[c])
  <2>1. pc'[c] \in {"return", "drop"}
    BY <1>10, FailKeeps
  <2>2. ~ Goto(c, "ensure")
    BY <2>1 DEF Goto, Types, TypeOK
  <2> QED BY <1>2, <1>10, <2>2 DEF Open
<1>11. CASE ReadFails(c)
  <2>1. File(c) \in Files
    BY <1>11, DepthBound DEF ReadFails
  <2> DEFINE b == open_file_buffers[File(c)]
  <2>2. b \in BufferIds \cup {0}
    BY <2>1 DEF Types, TypeOK
  <2>3. \/ UNCHANGED buffers
        \/ b # 0 /\ buffers' = [buffers EXCEPT ![b] = [buffers[b] EXCEPT !.version = @ + 1]]
    BY <1>11 DEF ReadFails, NextVersion
  <2> HIDE DEF b
  <2>4. ASSUME NEW r, b \in BufferIds, r = [buffers[b] EXCEPT !.version = @ + 1]
        PROVE  /\ r.file = buffers[b].file /\ r.refs = buffers[b].refs
               /\ r.lost = buffers[b].lost /\ r.opened = buffers[b].opened
    BY <2>4, FreshKeeps DEF BufferType
  <2> QED BY <1>2, <2>2, <2>3, <2>4, OneBuffer
<1>12. CASE OpenFails(c) /\ Lazy(c)
  <2>1. Buffer(c) \in BufferIds
    <3>1. Depth(c) # 0
      BY <1>12, DepthBound DEF OpenFails
    <3> QED BY <3>1, DepthBound
  <2>2a. PICK r : /\ buffers' = [buffers EXCEPT ![Buffer(c)] = r]
                  /\ \E n \in 0 .. 1 :
                       /\ r = [buffers[Buffer(c)] EXCEPT !.opened = TRUE, !.lost = @ + n]
                       /\ n = 0
    BY <1>12, <2>1, OpenFailsBuffers, Zenon
  <2>2. PICK n \in 0 .. 1 : /\ r = [buffers[Buffer(c)] EXCEPT !.opened = TRUE, !.lost = @ + n]
                            /\ n = 0
    BY <2>2a
  <2>3. buffers[Buffer(c)] \in BufferType /\ n \in Nat
    <3>1. n \in Nat
      OBVIOUS
    <3> QED BY <2>1, <3>1, FreshKeeps
  <2>4. /\ r.file = buffers[Buffer(c)].file /\ r.refs = buffers[Buffer(c)].refs
        /\ r.lost = buffers[Buffer(c)].lost + n /\ r.opened /\ buffers[Buffer(c)].lost \in Nat
    <3>1. buffers[Buffer(c)].lost \in Nat
      BY <2>3 DEF BufferType
    <3> QED BY <2>2, <2>3, <3>1, LostMore, Zenon
  <2>5. r.lost = buffers[Buffer(c)].lost
    BY <2>2, <2>4
  <2> QED BY <2>1, <2>2a, <2>4, <2>5, OneBuffer
<1> QED BY <1>3, <1>4, <1>5, <1>6, <1>7, <1>8, <1>9, <1>10, <1>11, <1>12 DEF Quiet

LEMMA QuietHolds ==
  ASSUME Types, Local, NEW c \in Threads, Quiet(c)
  PROVE  SameHolds /\ \A d \in Threads : pc'[d] = "del" => pc[d] = "del"
<1>1. \A d \in Threads \ {c} : job'[d] = job[d] /\ pc'[d] = pc[d]
  BY OthersStay DEF Quiet, Step
<1>2. \A d \in Threads \ {c} : File(d)' = File(d)
  BY <1>1 DEF File, Phase
<1> QED BY <1>1, <1>2, QuietOwn DEF SameHolds

LEMMA QuietEntries ==
  ASSUME Types, Local, NEW c \in Threads, Quiet(c)
  PROVE  HeldEntries
<1>1. CASE Store(c)
  <2>1. Depth(c) # 0 /\ File(c) \in Files
    BY <1>1, DepthBound DEF Store
  <2>2. open_file_buffers' = [open_file_buffers EXCEPT ![File(c)] = Buffer(c)]
    BY <1>1 DEF Store
  <2> QED BY <2>1, <2>2 DEF HeldEntries, Types, TypeOK
<1>2. CASE UNCHANGED open_file_buffers
  BY <1>2 DEF HeldEntries
<1> QED BY <1>1, <1>2 DEF Quiet, Begin, Return, EnsureOpen, DidOpen, LookInCache, Ask, Validate,
        Delete, Insert, DidChange, Save, Truncate, Put, Stamp, Open, ReadFails, OpenFails

LEMMA QuietDocuments ==
  ASSUME Types, Local, Opening, NEW c \in Threads, Quiet(c)
  PROVE  HeldDocuments
<1>1. CASE DidOpen(c)
  <2>1. Depth(c) # 0 /\ File(c) \in Files /\ Intact(Buffer(c))
    BY <1>1, DepthBound DEF DidOpen, Opening
  <2>2. pc'[c] # "del"
    BY QuietOwn
  <2>3. \A f \in Files \ {File(c)} : server'[f] = server[f]
    BY <1>1 DEF DidOpen, Types, TypeOK
  <2> QED BY <2>1, <2>2, <2>3 DEF HeldDocuments
<1>2. CASE \A f \in Files : server'[f].open = server[f].open
  BY <1>2 DEF HeldDocuments
<1>3. CASE UNCHANGED server
  BY <1>2, <1>3
<1>4. CASE Return(c)
  <2> SUFFICES ASSUME NEW f \in Files PROVE server'[f].open = server[f].open
    BY <1>2
  <2>1. server'[f] = server[f] \/ server'[f] = [server[f] EXCEPT !.broken = FALSE]
    BY <1>4 DEF Return
  <2> QED BY <2>1 DEF Types, TypeOK
<1>5. CASE DidChange(c)
  <2> SUFFICES ASSUME NEW f \in Files PROVE server'[f].open = server[f].open
    BY <1>2
  <2>1. \/ server'[f] = server[f]
        \/ \E text, version, broken :
             server'[f] = [server[f] EXCEPT !.text = text, !.version = version, !.broken = broken]
        \/ server'[f] = [server[f] EXCEPT !.broken = TRUE]
    BY <1>5 DEF DidChange, Types, TypeOK
  <2> QED BY <2>1 DEF Types, TypeOK
<1> QED BY <1>1, <1>3, <1>4, <1>5 DEF Quiet, Begin, EnsureOpen, Store, LookInCache, Ask, Validate,
        Delete, Insert, Save, Truncate, Put, Stamp, Open, ReadFails, OpenFails

LEMMA QuietOpening ==
  ASSUME Types, Local, Opening, Lossy, Registered, NEW c \in Threads, Quiet(c)
  PROVE  Opening'
<1>1. \A d \in Threads : Depth(d)' = Depth(d) /\ Buffer(d)' = Buffer(d)
  BY QuietHolds DEF SameHolds, Depth, Buffer
<1>2. SameBuffers
  BY QuietBuffers
<1>3. \A d \in Threads : pc[d] = "did open" => Buffer(d) \in BufferIds
  BY DepthBound
<1>4. ASSUME NEW d \in Threads, d # c, pc'[d] = "did open"
      PROVE  buffers'[Buffer(d)].opened /\ buffers'[Buffer(d)].lost = 0
  <2>1. pc[d] = "did open"
    BY <1>4, OthersStay DEF Quiet, Step
  <2> QED BY <1>2, <1>3, <2>1 DEF SameBuffers, Opening, Intact
<1>5. ASSUME pc'[c] = "did open"
      PROVE  buffers'[Buffer(c)].opened /\ buffers'[Buffer(c)].lost = 0
  <2>1. EnsureOpen(c)
    <3>1. job[c].next # "did open"
      BY Mine DEF JobType, Insides
    <3>2. job[c].plan # <<>> => Inside(c, Depth(c)) # "did open"
      BY Mine DEF Inside
    <3>3. pc[c] = "store" => job[c].plan # <<>>
      BY DEF Local, Placed
    <3>4. ~ (Begin(c) \/ Return(c) \/ Truncate(c) \/ Put(c) \/ Stamp(c) \/ DidOpen(c) \/ Store(c))
      BY <1>5, <3>1, <3>2, <3>3
         DEF Begin, Return, Truncate, Put, Stamp, DidOpen, Store, Goto, Types, TypeOK
    <3>5. ~ (Validate(c) \/ Save(c) \/ DidChange(c) \/ FailWith(c, "assertion", job[c]))
      BY <1>5 DEF Validate, Save, DidChange, FailWith, Goto, Types, TypeOK
    <3>6. ~ (LookInCache(c) \/ Ask(c) \/ Delete(c) \/ Insert(c))
      BY <1>5 DEF LookInCache, Ask, Delete, Insert, Change, Located, FailWith, Goto, Types, TypeOK
    <3>7. ~ (ReadFails(c) \/ OpenFails(c))
      BY <1>5 DEF ReadFails, OpenFails, FailWith, Goto, Types, TypeOK
    <3> QED BY <3>4, <3>5, <3>6, <3>7 DEF Quiet
  <2>2. pc[c] = "ensure" /\ job[c].next # "did open" /\ Buffer(c) \in BufferIds
    BY <2>1, Mine, DepthBound DEF EnsureOpen, JobType, Insides
  <2>2a. ~ Opened(c)
    BY <1>5, <2>1, <2>2 DEF EnsureOpen, Goto, Types, TypeOK
  <2>2b. buffers[Buffer(c)].lost = 0
    <3>1. ~ buffers[Buffer(c)].opened /\ buffers[Buffer(c)] \in BufferType
      BY <2>2, <2>2a, FreshKeeps DEF Opened
    <3>2. ~ (buffers[Buffer(c)].lost > 0)
      BY <2>2, <3>1 DEF Lossy
    <3>3. buffers[Buffer(c)].lost \in Nat
      BY <3>1 DEF BufferType
    <3> QED BY <3>2, <3>3
  <2>3. buffers' = [buffers EXCEPT ![Buffer(c)] = [Fresh(Buffer(c)) EXCEPT !.opened = TRUE]]
    BY <2>1, <2>2a DEF EnsureOpen
  <2>4. PICK text, read, newer :
          Fresh(Buffer(c)) = [buffers[Buffer(c)] EXCEPT !.text = text, !.read = read, !.newer = newer]
    BY <2>2, FreshKeeps
  <2>5. LET r == [Fresh(Buffer(c)) EXCEPT !.opened = TRUE]
        IN  r.opened /\ r.lost = 0
    BY <2>2, <2>2b, <2>4, FreshKeeps DEF BufferType
  <2> QED BY <2>2, <2>3, <2>5 DEF Types, TypeOK
<1> QED BY <1>1, <1>4, <1>5 DEF Opening, Intact

\* A step that counts nothing keeps the table as it should be.
LEMMA QuietStep ==
  ASSUME Types, Local, Table, NEW c \in Threads, Quiet(c)
  PROVE  Table'
<1>1. SameHolds /\ \A d \in Threads : pc'[d] = "del" => pc[d] = "del"
  BY QuietHolds
<1>2. SameBuffers /\ HeldEntries /\ HeldDocuments
  BY QuietBuffers, QuietEntries, QuietDocuments DEF Table
<1>3. HeldTyped' /\ Counted' /\ Lossy' /\ Closing' /\ Closed' /\ Registered'
  BY <1>1, <1>2, QuietTable DEF Table
<1>4. ServerHeld'
  BY <1>1, <1>2, QuietServer DEF Table
<1>5. Opening'
  BY QuietOpening DEF Table
<1> QED BY <1>3, <1>4, <1>5 DEF Table

-----------------------------------------------------------------------------
(* Steps that count.                                                         *)

\* Another block is entered: its buffer, a registered one or a new one, is counted.
LEMMA EnterStep ==
  ASSUME Types, Local, Table, NEW c \in Threads, Step(c), pc[c] = "open", pc'[c] = "ensure",
         NEW b \in BufferIds, job'[c].held = Append(job[c].held, b), job'[c].plan = job[c].plan,
         NEW r, buffers' = [buffers EXCEPT ![b] = r], r.file = File(c), r.refs = Users(b) + 1 + r.lost,
         r.lost \in Nat, r.lost > 0 => r.opened,
         \A d \in Threads : \A i \in 1 .. Depth(d) :
           job[d].held[i] = b => /\ File(d) = File(c) /\ r.opened = buffers[b].opened
                                 /\ r.lost = buffers[b].lost,
         \A d \in Threads : pc[d] \in {"close", "del"} => Buffer(d) # b,
         \A f \in Files : open_file_buffers[f] = b => f = File(c) /\ r.lost = buffers[b].lost,
         UNCHANGED <<open_file_buffers, server>>
  PROVE  Table'
<1>1. \A d \in Threads \ {c} : job'[d] = job[d] /\ pc'[d] = pc[d]
  BY OthersStay
<1>2. \A d \in Threads \ {c} : Depth(d)' = Depth(d) /\ File(d)' = File(d) /\ Buffer(d)' = Buffer(d)
  BY <1>1 DEF Depth, File, Phase, Buffer
<1>3. File(c)' = File(c)
  BY DEF File, Phase
<1>4. /\ Depth(c) \in 0 .. 1 /\ Depth(c)' = Depth(c) + 1
      /\ \A i \in 1 .. Depth(c) : job'[c].held[i] = job[c].held[i]
      /\ job'[c].held[Depth(c) + 1] = b
  <2>1. Depth(c) = 0 \/ Depth(c) = 1
    BY DEF Local, Placed
  <2>2. Len(job'[c].held) = Len(job[c].held) + 1
    BY Mine
  <2>3. /\ \A i \in 1 .. Len(job[c].held) : job'[c].held[i] = job[c].held[i]
        /\ job'[c].held[Len(job[c].held) + 1] = b
    BY Mine
  <2> QED BY <2>1, <2>2, <2>3 DEF Depth
<1>5. \A d \in Threads : \A i \in 1 .. Depth(d) :
        /\ i \in 1 .. Depth(d)' /\ job'[d].held[i] = job[d].held[i] /\ File(d)' = File(d)
        /\ job[d].held[i] \in BufferIds /\ i \in 1 .. 2
        /\ buffers'[job[d].held[i]].file = File(d)
        /\ buffers'[job[d].held[i]].opened = buffers[job[d].held[i]].opened
        /\ buffers'[job[d].held[i]].lost = buffers[job[d].held[i]].lost
  <2> SUFFICES ASSUME NEW d \in Threads, NEW i \in 1 .. Depth(d)
               PROVE  /\ i \in 1 .. Depth(d)' /\ job'[d].held[i] = job[d].held[i] /\ File(d)' = File(d)
                      /\ job[d].held[i] \in BufferIds /\ i \in 1 .. 2
                      /\ buffers'[job[d].held[i]].file = File(d)
                      /\ buffers'[job[d].held[i]].opened = buffers[job[d].held[i]].opened
                      /\ buffers'[job[d].held[i]].lost = buffers[job[d].held[i]].lost
    OBVIOUS
  <2>1. i \in 1 .. Depth(d)' /\ job'[d].held[i] = job[d].held[i] /\ File(d)' = File(d)
    BY <1>1, <1>2, <1>3, <1>4
  <2>2. job[d].held[i] \in BufferIds /\ i \in 1 .. 2
    BY DepthBound
  <2>3. buffers[job[d].held[i]].file = File(d)
    BY DEF Table, HeldTyped
  <2>4. job[d].held[i] # b => buffers'[job[d].held[i]] = buffers[job[d].held[i]]
    BY <2>2
  <2>5. buffers'[b] = r
    BY DEF Types, TypeOK
  <2> QED BY <2>1, <2>2, <2>3, <2>4, <2>5
<1>6. \A d \in Threads : \A i \in 1 .. Depth(d)' :
        i \in 1 .. Depth(d) \/ (d = c /\ i = Depth(c) + 1)
  BY <1>2, <1>4
<1>7. buffers'[b] = r
  BY DEF Types, TypeOK
<1>8. HeldTyped'
  <2> SUFFICES ASSUME NEW d \in Threads, NEW i \in 1 .. Depth(d)'
               PROVE  buffers'[job'[d].held[i]].file = File(d)'
    BY DEF HeldTyped
  <2>1. CASE i \in 1 .. Depth(d)
    BY <1>5, <2>1
  <2>2. CASE d = c /\ i = Depth(c) + 1
    BY <1>3, <1>4, <1>7, <2>2
  <2> QED BY <1>6, <2>1, <2>2
<1>9. Counted'
  <2> SUFFICES ASSUME NEW a \in BufferIds PROVE buffers'[a].refs = Users(a)' + buffers'[a].lost
    BY DEF Counted, BufferIds
  <2>1. \A d \in Threads \ {c}, i \in 1 .. 2 : Holds(d, i, a)' <=> Holds(d, i, a)
    BY <1>1, <1>2 DEF Holds
  <2>2. \A i \in 1 .. 2 : Holds(c, i, a)' <=> Holds(c, i, a) \/ (a = b /\ i = Depth(c) + 1)
    <3> SUFFICES ASSUME NEW i \in 1 .. 2
                 PROVE  Holds(c, i, a)' <=> Holds(c, i, a) \/ (a = b /\ i = Depth(c) + 1)
      OBVIOUS
    <3>1. CASE i <= Depth(c)
      <4>1. i \in 1 .. Depth(c) /\ i # Depth(c) + 1 /\ i <= Depth(c)'
        BY <1>4, <3>1
      <4> QED BY <1>4, <4>1 DEF Holds
    <3>2. CASE i = Depth(c) + 1
      <4>1. ~(i <= Depth(c)) /\ i <= Depth(c)'
        BY <1>4, <3>2
      <4> QED BY <1>4, <3>2, <4>1 DEF Holds
    <3>3. CASE i > Depth(c) + 1
      <4>1. ~(i <= Depth(c)) /\ ~(i <= Depth(c)') /\ i # Depth(c) + 1
        BY <1>4, <3>3
      <4> QED BY <4>1 DEF Holds
    <3> QED BY <1>4, <3>1, <3>2, <3>3
  <2>3. Users(a) = Cardinality(Holders(a)) /\ Users(a)' = Cardinality(Holders(a)')
    BY Zenon DEF Users, Holders
  <2>4. CASE a # b
    <3>1. \A d \in Threads, i \in 1 .. 2 : Holds(d, i, a)' <=> Holds(d, i, a)
      BY <2>1, <2>2, <2>4
    <3>2. Holders(a)' = Holders(a)
      BY <3>1 DEF Holders
    <3>3. buffers'[a] = buffers[a]
      BY <2>4
    <3> QED BY <2>3, <3>2, <3>3 DEF Table, Counted
  <2>5. CASE a = b
    <3> DEFINE u == <<c, Depth(c) + 1>>
    <3>1. u \in Threads \X (1 .. 2) /\ u[1] = c /\ u[2] = Depth(c) + 1
      BY <1>4
    <3>2. u \notin Holders(a)
      BY <1>4, <3>1 DEF Holders, Holds
    <3>3. \A v \in Threads \X (1 .. 2) : v = u <=> v[1] = c /\ v[2] = Depth(c) + 1
      BY <1>4
    <3>4. \A v \in Threads \X (1 .. 2) : Holds(v[1], v[2], a)' <=> Holds(v[1], v[2], a) \/ v = u
      <4> SUFFICES ASSUME NEW d \in Threads, NEW i \in 1 .. 2
                   PROVE  Holds(d, i, a)' <=> Holds(d, i, a) \/ (d = c /\ i = Depth(c) + 1)
        BY <3>3
      <4> QED BY <2>1, <2>2, <2>5
    <3> HIDE DEF u
    <3>5. Holders(a)' = Holders(a) \cup {u}
      BY <3>1, <3>4 DEF Holders
    <3>6. Cardinality(Holders(a)') = Cardinality(Holders(a)) + 1
      BY <3>2, <3>5, HoldersFinite, FS_AddElement
    <3> QED BY <1>7, <2>3, <2>5, <3>6
  <2> QED BY <2>4, <2>5
<1>9a. Lossy'
  <2> SUFFICES ASSUME NEW a \in BufferIds PROVE buffers'[a].lost > 0 => buffers'[a].opened
    BY DEF Lossy, BufferIds
  <2>1. CASE a = b
    BY <1>7, <2>1
  <2>2. CASE a # b
    BY <2>2 DEF Table, Lossy
  <2> QED BY <2>1, <2>2
<1>10. Closing'
  <2> SUFFICES ASSUME NEW d \in Threads, pc'[d] \in {"close", "del"},
                      NEW e \in Threads, NEW i \in 1 .. Depth(e)', job'[e].held[i] = Buffer(d)'
               PROVE  e = d /\ i = Depth(d)'
    BY DEF Closing
  <2>1. d # c /\ pc[d] \in {"close", "del"} /\ Buffer(d)' = Buffer(d) /\ Buffer(d) # b
    BY <1>1, <1>2
  <2>2. i \in 1 .. Depth(e)
    BY <1>4, <1>6, <2>1
  <2>3. job[e].held[i] = Buffer(d)
    BY <1>5, <2>1, <2>2
  <2> QED BY <1>2, <2>1, <2>2, <2>3 DEF Table, Closing
<1>10a. Closed'
  <2> SUFFICES ASSUME NEW d \in Threads, pc'[d] \in {"close", "del"} PROVE buffers'[Buffer(d)'].lost = 0
    BY DEF Closed
  <2>1. d # c /\ pc[d] \in {"close", "del"} /\ Buffer(d)' = Buffer(d) /\ Buffer(d) # b
    BY <1>1, <1>2
  <2>2. buffers'[Buffer(d)] = buffers[Buffer(d)]
    BY <2>1, DepthBound DEF Types, TypeOK
  <2> QED BY <2>1, <2>2 DEF Table, Closed
<1>11. Registered'
  <2> SUFFICES ASSUME NEW f \in Files, open_file_buffers[f] # 0
               PROVE  /\ buffers'[open_file_buffers[f]].file = f
                      /\ \/ buffers'[open_file_buffers[f]].lost > 0
                         \/ \E d \in Threads : \E i \in 1 .. Depth(d)' :
                              job'[d].held[i] = open_file_buffers[f]
    BY DEF Registered
  <2>1. buffers[open_file_buffers[f]].file = f
    BY DEF Table, Registered
  <2>2. CASE buffers[open_file_buffers[f]].lost > 0
    <3>1. CASE open_file_buffers[f] = b
      BY <1>7, <2>1, <2>2, <3>1
    <3>2. CASE open_file_buffers[f] # b
      BY <2>1, <2>2, <3>2
    <3> QED BY <3>1, <3>2
  <2>3. CASE ~(buffers[open_file_buffers[f]].lost > 0)
    <3>1. PICK d \in Threads : \E i \in 1 .. Depth(d) : job[d].held[i] = open_file_buffers[f]
      BY <2>3 DEF Table, Registered
    <3>2. PICK i \in 1 .. Depth(d) : job[d].held[i] = open_file_buffers[f]
      BY <3>1
    <3>3. File(d) = f
      BY <2>1, <3>2 DEF Table, HeldTyped
    <3> QED BY <1>5, <3>2, <3>3
  <2> QED BY <2>2, <2>3
<1>12. ServerHeld'
  <2> SUFFICES ASSUME NEW f \in Files, server[f].open
               PROVE  \E d \in Threads : \E i \in 1 .. Depth(d)' :
                        /\ File(d)' = f /\ Intact(job[d].held[i])'
                        /\ ~(pc'[d] = "del" /\ i = Depth(d)')
    BY DEF ServerHeld
  <2>1. PICK d \in Threads : \E i \in 1 .. Depth(d) :
          /\ File(d) = f /\ Intact(job[d].held[i]) /\ ~(pc[d] = "del" /\ i = Depth(d))
    BY DEF Table, ServerHeld
  <2>2. PICK i \in 1 .. Depth(d) :
          /\ File(d) = f /\ Intact(job[d].held[i]) /\ ~(pc[d] = "del" /\ i = Depth(d))
    BY <2>1
  <2>3. ~(pc'[d] = "del" /\ i = Depth(d)')
    BY <1>1, <1>2, <2>2
  <2> QED BY <1>5, <2>2, <2>3 DEF Intact
<1>13. Opening'
  <2> SUFFICES ASSUME NEW d \in Threads, pc'[d] = "did open" PROVE Intact(Buffer(d))'
    BY DEF Opening
  <2>1. d # c /\ pc[d] = "did open" /\ Buffer(d)' = Buffer(d)
    BY <1>1, <1>2
  <2>2. Depth(d) \in 1 .. Depth(d) /\ Buffer(d) = job[d].held[Depth(d)]
    BY <2>1, DepthBound
  <2>3. Intact(Buffer(d))
    BY <2>1 DEF Table, Opening
  <2>4. /\ buffers'[Buffer(d)].opened = buffers[Buffer(d)].opened
        /\ buffers'[Buffer(d)].lost = buffers[Buffer(d)].lost
    BY <1>5, <2>2, ZenonT(30)
  <2> QED BY <2>1, <2>3, <2>4 DEF Intact
<1> QED BY <1>8, <1>9, <1>9a, <1>10, <1>10a, <1>11, <1>12, <1>13 DEF Table

LEMMA OpenStep ==
  ASSUME Types, Local, Table, NEW c \in Threads, Open(c)
  PROVE  Table'
<1> DEFINE b == open_file_buffers[File(c)]
           new == CHOOSE g \in Garbage : TRUE
<1>1. pc[c] = "open" /\ File(c) \in Files
  BY Mine DEF Open, Local, Placed
<1>2. new \in Garbage
  BY <1>1, GarbageExists DEF Table
<1>3. b \in BufferIds \cup {0}
  BY <1>1 DEF Types, TypeOK
<1>4. UNCHANGED <<open_file_buffers, server>> /\ Step(c)
  BY DEF Open, Step
<1>5. \/ FailWith(c, "assertion", job[c])
      \/ /\ b = 0
         /\ buffers' = [buffers EXCEPT ![new] = [NoBuffer EXCEPT !.file = File(c), !.refs = 1]]
         /\ SetJob(c, [job[c] EXCEPT !.held = Append(@, new), !.next = "store"])
         /\ Goto(c, "ensure")
      \/ /\ b # 0 /\ buffers[b].refs >= 1
         /\ buffers' = [buffers EXCEPT ![b].refs = @ + 1]
         /\ SetJob(c, [job[c] EXCEPT !.held = Append(@, b), !.next = Inside(c, Depth(c) + 1)])
         /\ Goto(c, "ensure")
  BY DEF Open
<1>6. \A d \in Threads : \A i \in 1 .. Depth(d) :
        job[d].held[i] \in ToSet(job[d].held) /\ job[d].held[i] \in BufferIds /\ i \in 1 .. 2
  <2> SUFFICES ASSUME NEW d \in Threads, NEW i \in 1 .. Depth(d)
               PROVE  job[d].held[i] \in ToSet(job[d].held)
    BY DepthBound
  <2>1. i \in 1 .. Len(job[d].held)
    BY DEF Depth
  <2> QED BY <2>1 DEF ToSet
<1>7. ASSUME NEW d \in Threads, pc[d] \in {"close", "del"}
      PROVE  Depth(d) \in 1 .. Depth(d) /\ job[d].held[Depth(d)] = Buffer(d)
  BY <1>7, DepthBound
<1> HIDE DEF b, new
<1>8. CASE FailWith(c, "assertion", job[c])
  BY <1>8, QuietStep DEF Quiet
<1>9. CASE /\ buffers' = [buffers EXCEPT ![new] = [NoBuffer EXCEPT !.file = File(c), !.refs = 1]]
           /\ SetJob(c, [job[c] EXCEPT !.held = Append(@, new), !.next = "store"])
           /\ Goto(c, "ensure")
  <2> DEFINE r == [NoBuffer EXCEPT !.file = File(c), !.refs = 1]
  <2>1. new \in BufferIds /\ \A d \in Threads : new \notin ToSet(job[d].held)
    BY <1>2 DEF Garbage
  <2>2. \A f \in Files : open_file_buffers[f] # new
    BY <1>2 DEF Garbage
  <2>3. \A d \in Threads : \A i \in 1 .. Depth(d) : job[d].held[i] # new
    BY <1>6, <2>1
  <2>4. Holders(new) = {}
    <3>1. \A d \in Threads, i \in 1 .. 2 : ~ Holds(d, i, new)
      <4> SUFFICES ASSUME NEW d \in Threads, NEW i \in 1 .. 2, i <= Depth(d), job[d].held[i] = new
                   PROVE  FALSE
        BY DEF Holds
      <4>1. i \in 1 .. Depth(d)
        BY DepthBound
      <4> QED BY <2>3, <4>1
    <3> QED BY <3>1 DEF Holders
  <2>5. Users(new) = 0
    BY <2>4, HoldersFinite, FS_EmptySet
  <2>6. /\ job'[c].held = Append(job[c].held, new) /\ job'[c].plan = job[c].plan
        /\ pc'[c] = "ensure"
    <3>1. job'[c] = [job[c] EXCEPT !.held = Append(@, new), !.next = "store"]
      BY <1>9 DEF SetJob, Types
    <3>2. pc'[c] = "ensure"
      BY <1>9 DEF Goto, Types, TypeOK
    <3> QED BY <3>1, <3>2, Mine DEF JobType
  <2>7. \A d \in Threads : pc[d] \in {"close", "del"} => Buffer(d) # new
    BY <1>7, <2>3
  <2>8. r.file = File(c) /\ r.lost = 0 /\ r.refs = Users(new) + 1 + r.lost
    BY <2>5 DEF NoBuffer
  <2>9. buffers' = [buffers EXCEPT ![new] = r]
    BY <1>9
  <2>10. \A d \in Threads : \A i \in 1 .. Depth(d) :
          job[d].held[i] = new => /\ File(d) = File(c) /\ r.opened = buffers[new].opened
                                  /\ r.lost = buffers[new].lost
    BY <2>3
  <2>11. \A f \in Files : open_file_buffers[f] = new => f = File(c) /\ r.lost = buffers[new].lost
    BY <2>2
  <2>12. r.lost \in Nat /\ (r.lost > 0 => r.opened) /\ pc[c] = "open"
    BY <1>1, <2>8
  <2> HIDE DEF r
  <2> QED BY <1>1, <1>4, <2>1, <2>6, <2>7, <2>8, <2>9, <2>10, <2>11, <2>12, EnterStep
<1>10. CASE /\ b # 0 /\ buffers[b].refs >= 1
            /\ buffers' = [buffers EXCEPT ![b].refs = @ + 1]
            /\ SetJob(c, [job[c] EXCEPT !.held = Append(@, b), !.next = Inside(c, Depth(c) + 1)])
            /\ Goto(c, "ensure")
  <2> DEFINE r == [buffers[b] EXCEPT !.refs = @ + 1]
  <2>1. b \in BufferIds /\ buffers[b] \in BufferType
    BY <1>3, <1>10, FreshKeeps
  <2>2. /\ r.file = buffers[b].file /\ r.refs = buffers[b].refs + 1 /\ r.opened = buffers[b].opened
        /\ r.lost = buffers[b].lost /\ r.lost \in Nat
    BY <2>1 DEF BufferType
  <2>3. buffers[b].refs = Users(b) + buffers[b].lost /\ Users(b) \in Nat
    BY <2>1, HoldersFinite DEF Table, Counted
  <2>3a. r.lost > 0 => r.opened
    BY <2>1, <2>2 DEF Table, Lossy
  <2>4. buffers[b].file = File(c)
    BY <1>1, <1>10 DEF Table, Registered, b
  <2>5. \A d \in Threads : \A i \in 1 .. Depth(d) : job[d].held[i] = b => File(d) = File(c)
    BY <2>4 DEF Table, HeldTyped
  <2>6. \A f \in Files : open_file_buffers[f] = b => f = File(c) /\ r.lost = buffers[b].lost
    BY <1>10, <2>2, <2>4 DEF Table, Registered
  <2>7. /\ job'[c].held = Append(job[c].held, b) /\ job'[c].plan = job[c].plan
        /\ pc'[c] = "ensure"
    <3>1. job'[c] = [job[c] EXCEPT !.held = Append(@, b), !.next = Inside(c, Depth(c) + 1)]
      BY <1>10 DEF SetJob, Types
    <3>2. pc'[c] = "ensure"
      BY <1>10 DEF Goto, Types, TypeOK
    <3> QED BY <3>1, <3>2, Mine DEF JobType
  <2>8. ASSUME NEW d \in Threads, pc[d] \in {"close", "del"}, Buffer(d) = b PROVE FALSE
    <3>1. \A e \in Threads : \A i \in 1 .. Depth(e) :
            job[e].held[i] = b => e = d /\ i = Depth(d)
      BY <2>8 DEF Table, Closing
    <3>2. Holders(b) = {}
      <4> SUFFICES ASSUME NEW e \in Threads, NEW i \in 1 .. 2, Holds(e, i, b) PROVE FALSE
        BY DEF Holders
      <4>1. i \in 1 .. Depth(e) /\ job[e].held[i] = b
        BY DepthBound DEF Holds
      <4>2. e = d /\ i = Depth(d)
        BY <3>1, <4>1
      <4> QED BY <2>8, <4>2 DEF Holds
    <3>3. Users(b) = 0
      BY <3>2, HoldersFinite, FS_EmptySet
    <3>4. buffers[b].lost = 0
      BY <2>8 DEF Table, Closed
    <3> QED BY <1>10, <2>3, <3>3, <3>4
  <2>9. buffers' = [buffers EXCEPT ![b] = r]
    BY <1>10
  <2>10. r.file = File(c) /\ r.refs = Users(b) + 1 + r.lost /\ r.opened = buffers[b].opened
    BY <2>1, <2>2, <2>3, <2>4
  <2>11. \A d \in Threads : \A i \in 1 .. Depth(d) :
          job[d].held[i] = b => /\ File(d) = File(c) /\ r.opened = buffers[b].opened
                                /\ r.lost = buffers[b].lost
    BY <2>2, <2>5
  <2>12. \A d \in Threads : pc[d] \in {"close", "del"} => Buffer(d) # b
    BY <2>8
  <2> HIDE DEF r
  <2> QED BY <1>1, <1>4, <2>1, <2>2, <2>3a, <2>6, <2>7, <2>9, <2>10, <2>11, <2>12, EnterStep
<1> QED BY <1>5, <1>8, <1>9, <1>10

\* What is kept of a call that leaves a block.
LEMMA LeaveKeeps ==
  ASSUME Types, Local, NEW c \in Threads, pc[c] \in {"drop", "del"}, NEW why,
         AfterDrop(c, [job[c] EXCEPT !.held = Front(@), !.failed = why])
  PROVE  /\ pc'[c] \notin {"close", "del", "did open"}
         /\ Depth(c)' = Depth(c) - 1
         /\ Depth(c)' # 0 => File(c)' = File(c)
         /\ \A i \in 1 .. Depth(c)' : job'[c].held[i] = job[c].held[i]
<1> DEFINE j == [job[c] EXCEPT !.held = Front(@), !.failed = why]
<1>1. pc'[c] \notin {"close", "del", "did open"}
  BY DEF AfterDrop, Goto, Types, TypeOK
<1>2. Depth(c) # 0 /\ Depth(c) \in Nat
  BY DepthBound, Mine
<1>3. /\ Front(job[c].held) \in Seq(BufferIds) /\ Len(Front(job[c].held)) = Depth(c) - 1
      /\ \A i \in 1 .. Depth(c) - 1 : Front(job[c].held)[i] = job[c].held[i]
  BY <1>2, Mine, FrontType DEF Depth
<1>4. j.held = Front(job[c].held) /\ j.plan = job[c].plan
  BY Mine DEF JobType
<1>5. \/ job'[c] = j
      \/ job'[c] = [j EXCEPT !.plan = Tail(@)] /\ j.held = <<>>
  BY DEF AfterDrop, SetJob, Types
<1>6. [j EXCEPT !.plan = Tail(@)].held = j.held
  BY Mine DEF JobType
<1> HIDE DEF j
<1>7. job'[c].held = Front(job[c].held) /\ (job'[c].plan = job[c].plan \/ j.held = <<>>)
  BY <1>4, <1>5, <1>6
<1>8. Depth(c)' = Depth(c) - 1 /\ \A i \in 1 .. Depth(c)' : job'[c].held[i] = job[c].held[i]
  BY <1>3, <1>7 DEF Depth
<1>9. j.held = <<>> => Depth(c)' = 0
  BY <1>4, <1>7 DEF Depth
<1>10. Depth(c)' # 0 => File(c)' = File(c)
  BY <1>7, <1>9 DEF File, Phase
<1> QED BY <1>1, <1>8, <1>10

\* A buffer that is being closed is not counted.
LEMMA ClosingUncounted ==
  ASSUME Types, Local, Table, NEW c \in Threads, pc[c] \in {"close", "del"}
  PROVE  Users(Buffer(c)) = 0
<1>1. \A e \in Threads : \A i \in 1 .. Depth(e) :
        job[e].held[i] = Buffer(c) => e = c /\ i = Depth(c)
  BY DEF Table, Closing
<1>2. Holders(Buffer(c)) = {}
  <2> SUFFICES ASSUME NEW e \in Threads, NEW i \in 1 .. 2, Holds(e, i, Buffer(c)) PROVE FALSE
    BY DEF Holders
  <2>1. i \in 1 .. Depth(e) /\ job[e].held[i] = Buffer(c)
    BY DepthBound DEF Holds
  <2>2. e = c /\ i = Depth(c)
    BY <1>1, <2>1
  <2> QED BY <2>2 DEF Holds
<1> QED BY <1>2, HoldersFinite, FS_EmptySet

\* A block is left: its buffer, which becomes r, has one user less.
LEMMA CountDown ==
  ASSUME Types, Local, Table, NEW c \in Threads, pc[c] \in {"drop", "ensure"}, NEW r,
         buffers' = [buffers EXCEPT ![Buffer(c)] = r], r.refs = Users(Buffer(c)) - 1 + r.lost,
         \A a \in BufferIds : \A d \in Threads, i \in 1 .. 2 :
           Holds(d, i, a)' <=> Holds(d, i, a) /\ ~(d = c /\ i = Depth(c))
  PROVE  Counted'
<1> SUFFICES ASSUME NEW a \in BufferIds PROVE buffers'[a].refs = Users(a)' + buffers'[a].lost
  BY DEF Counted, BufferIds
<1>1. Users(a) = Cardinality(Holders(a)) /\ Users(a)' = Cardinality(Holders(a)')
  BY Zenon DEF Users, Holders
<1>2. Depth(c) \in 1 .. 2 /\ Buffer(c) = job[c].held[Depth(c)] /\ Buffer(c) \in BufferIds
  BY DepthBound
<1> DEFINE u == <<c, Depth(c)>>
<1>3. u \in Threads \X (1 .. 2) /\ u[1] = c /\ u[2] = Depth(c)
  BY <1>2
<1>4. \A v \in Threads \X (1 .. 2) : v = u <=> v[1] = c /\ v[2] = Depth(c)
  OBVIOUS
<1>5. \A v \in Threads \X (1 .. 2) : Holds(v[1], v[2], a)' <=> Holds(v[1], v[2], a) /\ v # u
  <2> SUFFICES ASSUME NEW d \in Threads, NEW i \in 1 .. 2
               PROVE  Holds(d, i, a)' <=> Holds(d, i, a) /\ ~(d = c /\ i = Depth(c))
    BY <1>4
  <2> QED OBVIOUS
<1>6. u \in Holders(a) <=> a = Buffer(c)
  BY <1>2, <1>3 DEF Holders, Holds
<1> HIDE DEF u
<1>7. Holders(a)' = Holders(a) \ {u}
  BY <1>5 DEF Holders
<1>8. Cardinality(Holders(a)') = IF a = Buffer(c) THEN Users(a) - 1 ELSE Users(a)
  BY <1>1, <1>6, <1>7, HoldersFinite, FS_RemoveElement
<1>9. buffers[a].refs = Users(a) + buffers[a].lost
  BY DEF Table, Counted
<1>11. CASE a = Buffer(c)
  <2>1. buffers'[a] = r
    BY <1>11 DEF Types, TypeOK
  <2> QED BY <1>1, <1>8, <1>11, <2>1
<1>12. CASE a # Buffer(c)
  BY <1>1, <1>8, <1>9, <1>12
<1> QED BY <1>11, <1>12

LEMMA DropStep ==
  ASSUME Types, Local, Table, NEW c \in Threads, Drop(c)
  PROVE  Table'
<1>0. PICK b : b = Buffer(c)
  OBVIOUS
<1>1. /\ Depth(c) \in 1 .. 2 /\ Depth(c) \in 1 .. Depth(c) /\ b = job[c].held[Depth(c)]
      /\ b \in BufferIds /\ pc[c] = "drop" /\ File(c) \in Files
  BY <1>0, DepthBound DEF Drop
<1>2. /\ buffers' = [buffers EXCEPT ![b].refs = @ - 1]
      /\ UNCHANGED <<open_file_buffers, server>>
  BY <1>0 DEF Drop
<1>3. \A d \in Threads \ {c} : job'[d] = job[d] /\ pc'[d] = pc[d]
  BY OthersStay DEF Step
<1>4. \A d \in Threads \ {c} : Depth(d)' = Depth(d) /\ File(d)' = File(d) /\ Buffer(d)' = Buffer(d)
  BY <1>3 DEF Depth, File, Phase, Buffer
<1>5. \A a \in BufferIds : /\ buffers'[a].file = buffers[a].file /\ buffers'[a].opened = buffers[a].opened
                          /\ buffers'[a].lost = buffers[a].lost
  <2> SUFFICES ASSUME NEW a \in BufferIds
               PROVE  /\ buffers'[a].file = buffers[a].file /\ buffers'[a].opened = buffers[a].opened
                      /\ buffers'[a].lost = buffers[a].lost
    OBVIOUS
  <2>1. buffers'[a] = buffers[a] \/ buffers'[a] = [buffers[a] EXCEPT !.refs = @ - 1]
    BY <1>2 DEF Types, TypeOK
  <2> QED BY <2>1, FreshKeeps DEF BufferType
<1>6. \/ /\ buffers[b].refs = 1 /\ pc'[c] = "close" /\ job'[c] = job[c]
         /\ Depth(c)' = Depth(c) /\ File(c)' = File(c) /\ Buffer(c)' = b
      \/ /\ buffers[b].refs # 1 /\ pc'[c] \notin {"close", "del", "did open"}
         /\ Depth(c)' = Depth(c) - 1 /\ (Depth(c)' # 0 => File(c)' = File(c))
         /\ \A i \in 1 .. Depth(c)' : job'[c].held[i] = job[c].held[i]
  <2>1. CASE buffers[b].refs = 1 /\ Goto(c, "close") /\ UNCHANGED job
    BY <1>0, <2>1 DEF Goto, Types, TypeOK, Depth, File, Phase, Buffer
  <2>2. CASE /\ AfterDrop(c, [job[c] EXCEPT !.held = Front(@), !.failed = job[c].failed])
             /\ buffers[b].refs # 1
    BY <1>1, <2>2, LeaveKeeps
  <2> QED BY <2>1, <2>2, <1>0, DropLeaves
<1>7. /\ Depth(c)' \in {Depth(c), Depth(c) - 1} /\ Depth(c)' \in 0 .. 2
      /\ \A i \in 1 .. Depth(c)' : /\ i \in 1 .. Depth(c) /\ job'[c].held[i] = job[c].held[i]
                                   /\ File(c)' = File(c)
      /\ \A i \in 1 .. Depth(c) : i \in 1 .. Depth(c)' \/ (i = Depth(c) /\ buffers[b].refs # 1)
  <2>1. CASE job'[c] = job[c] /\ Depth(c)' = Depth(c) /\ File(c)' = File(c)
    BY <1>1, <2>1
  <2>2. CASE /\ buffers[b].refs # 1
             /\ Depth(c)' = Depth(c) - 1 /\ (Depth(c)' # 0 => File(c)' = File(c))
             /\ \A i \in 1 .. Depth(c)' : job'[c].held[i] = job[c].held[i]
    BY <1>1, <2>2
  <2> QED BY <1>6, <2>1, <2>2
\* What is held after the step was held before it; what was held and counted still is.
<1>8. \A d \in Threads : \A i \in 1 .. Depth(d)' :
        /\ i \in 1 .. Depth(d) /\ job'[d].held[i] = job[d].held[i]
        /\ File(d)' = File(d) /\ job[d].held[i] \in BufferIds
  <2> SUFFICES ASSUME NEW d \in Threads, NEW i \in 1 .. Depth(d)'
               PROVE  /\ i \in 1 .. Depth(d) /\ job'[d].held[i] = job[d].held[i]
                      /\ File(d)' = File(d)
    BY DepthBound
  <2>1. CASE d = c
    BY <1>7, <2>1
  <2>2. CASE d # c
    BY <1>3, <1>4, <2>2
  <2> QED BY <2>1, <2>2
<1>9. \A a \in BufferIds : \A d \in Threads, i \in 1 .. 2 :
        Holds(d, i, a)' <=> Holds(d, i, a) /\ ~(d = c /\ i = Depth(c))
  <2> SUFFICES ASSUME NEW a \in BufferIds, NEW d \in Threads, NEW i \in 1 .. 2
               PROVE  Holds(d, i, a)' <=> Holds(d, i, a) /\ ~(d = c /\ i = Depth(c))
    OBVIOUS
  <2>1. CASE d # c
    BY <1>3, <1>4, <2>1 DEF Holds
  <2>2. Holds(c, i, a)' <=> Holds(c, i, a) /\ i # Depth(c)
    <3>1. CASE pc'[c] = "close" /\ job'[c] = job[c] /\ Depth(c)' = Depth(c)
      BY <1>1, <3>1 DEF Holds
    <3>2. CASE /\ pc'[c] \notin {"close", "del"} /\ Depth(c)' = Depth(c) - 1
               /\ \A k \in 1 .. Depth(c)' : job'[c].held[k] = job[c].held[k]
      <4>1. CASE i <= Depth(c) - 1
        <5>1. i \in 1 .. Depth(c)' /\ i <= Depth(c) /\ i # Depth(c)
          BY <1>1, <3>2, <4>1
        <5> QED BY <1>1, <3>2, <4>1, <5>1 DEF Holds
      <4>2. CASE ~(i <= Depth(c) - 1)
        <5>1. ~(i <= Depth(c)') /\ (i = Depth(c) \/ ~(i <= Depth(c)))
          BY <1>1, <3>2, <4>2
        <5> QED BY <5>1 DEF Holds
      <4> QED BY <4>1, <4>2
    <3> QED BY <1>6, <3>1, <3>2
  <2> QED BY <2>1, <2>2
<1>9a. buffers[b] \in BufferType /\ buffers[b].refs = Users(b) + buffers[b].lost
  BY <1>1, FreshKeeps DEF Table, Counted
<1>10. Counted'
  <2> DEFINE r == [buffers[b] EXCEPT !.refs = @ - 1]
  <2>1. r.refs = buffers[b].refs - 1 /\ r.lost = buffers[b].lost
    BY <1>9a DEF BufferType
  <2>2. Users(b) \in Nat /\ buffers[b].lost \in Nat
    BY <1>9a, HoldersFinite DEF BufferType
  <2>3. r.refs = Users(b) - 1 + r.lost
    BY <1>9a, <2>1, <2>2
  <2>4. buffers' = [buffers EXCEPT ![b] = r]
    BY <1>2
  <2> HIDE DEF r
  <2> QED BY <1>1, <1>9, <1>0, <2>3, <2>4, CountDown
<1>10a. Lossy'
  BY <1>5 DEF Table, Lossy, BufferIds
<1>10b. Users(b) >= 1 /\ Users(b) \in Nat /\ buffers[b].lost \in Nat
  <2>1. <<c, Depth(c)>> \in Holders(b)
    BY <1>1 DEF Holders, Holds
  <2>2. Holders(b) # {} /\ IsFiniteSet(Holders(b)) /\ Users(b) = Cardinality(Holders(b))
    BY <2>1, HoldersFinite
  <2>3. Users(b) # 0 /\ Users(b) \in Nat
    BY <2>2, FS_EmptySet, HoldersFinite
  <2> QED BY <1>9a, <2>3 DEF BufferType
\* Unless it is the last, the block that is left was not the only one with its buffer.
<1>11. ASSUME buffers[b].refs # 1, buffers[b].lost = 0
       PROVE  \E d \in Threads : \E i \in 1 .. Depth(d)' :
                /\ job'[d].held[i] = b /\ File(d)' = File(c)
                /\ ~(pc'[d] = "del" /\ i = Depth(d)')
  <2>1. b \in BufferIds /\ buffers[b].refs = Users(b) /\ Users(b) = Cardinality(Holders(b))
        /\ IsFiniteSet(Holders(b))
    BY <1>1, <1>9a, <1>10b, <1>11, HoldersFinite
  <2> DEFINE u == <<c, Depth(c)>>
  <2>2. u \in Holders(b)
    BY <1>1 DEF Holders, Holds
  <2>3. Holders(b) # {u}
    BY <1>11, <2>1, FS_Singleton
  <2>4. PICK v \in Holders(b) : v # u
    BY <2>2, <2>3
  <2>5. PICK d \in Threads, i \in 1 .. 2 : v = <<d, i>> /\ Holds(d, i, b)
    BY <2>4 DEF Holders
  <2>6. ~(d = c /\ i = Depth(c))
    BY <2>4, <2>5
  <2>7. i <= Depth(d)' /\ job'[d].held[i] = b /\ ~(pc'[d] \in {"close", "del"} /\ i = Depth(d)')
    <3>1. Holds(d, i, b)'
      BY <1>9, <2>1, <2>5, <2>6
    <3> QED BY <3>1 DEF Holds
  <2>8. i \in 1 .. Depth(d)' /\ job'[d].held[i] = b /\ ~(pc'[d] = "del" /\ i = Depth(d)')
    <3>1. Depth(d) \in 0 .. 2
      BY DepthBound
    <3>2. CASE d # c
      BY <1>4, <2>7, <3>1, <3>2
    <3>3. CASE d = c
      BY <1>7, <2>7, <3>3
    <3> QED BY <3>2, <3>3
  <2>9. File(d)' = File(d) /\ i \in 1 .. Depth(d) /\ job[d].held[i] = b
    BY <1>8, <2>8
  <2>10. File(d) = File(c)
    BY <1>1, <2>9 DEF Table, HeldTyped
  <2> QED BY <2>8, <2>9, <2>10
<1>12. HeldTyped'
  BY <1>5, <1>8 DEF HeldTyped, Table
<1>13. Closing'
  <2> SUFFICES ASSUME NEW d \in Threads, pc'[d] \in {"close", "del"},
                      NEW e \in Threads, NEW i \in 1 .. Depth(e)', job'[e].held[i] = Buffer(d)'
               PROVE  e = d /\ i = Depth(d)'
    BY DEF Closing
  <2>1. i \in 1 .. Depth(e) /\ job[e].held[i] = Buffer(d)'
    BY <1>8
  <2>2. CASE d # c
    BY <1>3, <1>4, <2>1, <2>2 DEF Table, Closing
  <2>3. CASE d = c
    <3>1. /\ buffers[b].refs = 1 /\ Depth(c)' = Depth(c) /\ Buffer(c)' = b
      BY <1>6, <2>3
    <3>2. Cardinality(Holders(b)) = 1 /\ IsFiniteSet(Holders(b))
      BY <1>9a, <1>10b, <3>1, HoldersFinite
    <3>3. PICK v : Holders(b) = {v}
      BY <3>2, FS_Singleton
    <3>4. <<c, Depth(c)>> \in Holders(b)
      BY <1>1 DEF Holders, Holds
    <3>5. i \in 1 .. 2
      BY <2>1, DepthBound
    <3>6. CASE Holds(e, i, b)
      <4>1. <<e, i>> \in Holders(b)
        BY <3>5, <3>6 DEF Holders
      <4>2. <<e, i>> = <<c, Depth(c)>>
        BY <3>3, <3>4, <4>1
      <4> QED BY <2>3, <3>1, <4>2
    <3>7. CASE ~ Holds(e, i, b)
      <4>1. pc[e] \in {"close", "del"} /\ i = Depth(e) /\ job[e].held[i] = b
        BY <2>1, <2>3, <3>1, <3>7 DEF Holds
      <4>2. Buffer(e) = b
        BY <4>1 DEF Buffer, Last, Depth
      <4>3. c = e
        BY <1>1, <4>1, <4>2 DEF Table, Closing
      <4> QED BY <1>1, <4>1, <4>3
    <3> QED BY <3>6, <3>7
  <2> QED BY <2>2, <2>3
<1>13a. Closed'
  <2> SUFFICES ASSUME NEW d \in Threads, pc'[d] \in {"close", "del"} PROVE buffers'[Buffer(d)'].lost = 0
    BY DEF Closed
  <2>1. CASE d # c
    <3>1. pc[d] \in {"close", "del"} /\ Buffer(d)' = Buffer(d)
      BY <1>3, <1>4, <2>1
    <3>2. Buffer(d) \in BufferIds
      BY <3>1, DepthBound
    <3> QED BY <1>5, <3>1, <3>2 DEF Table, Closed
  <2>2. CASE d = c
    <3>1. buffers[b].refs = 1 /\ Buffer(c)' = b
      BY <1>6, <2>2
    <3> QED BY <1>1, <1>5, <1>9a, <1>10b, <2>2, <3>1
  <2> QED BY <2>1, <2>2
<1>14. Registered'
  <2> SUFFICES ASSUME NEW f \in Files, open_file_buffers[f] # 0,
                      ~(buffers'[open_file_buffers[f]].lost > 0)
               PROVE  \E d \in Threads : \E i \in 1 .. Depth(d)' :
                        job'[d].held[i] = open_file_buffers[f]
    <3>1. \A f \in Files : open_file_buffers[f] # 0 => buffers'[open_file_buffers[f]].file = f
      BY <1>5 DEF Table, Registered, Types, TypeOK
    <3> QED BY <1>2, <3>1 DEF Registered
  <2>0. open_file_buffers[f] \in BufferIds /\ buffers[open_file_buffers[f]].lost = 0
    <3>1. open_file_buffers[f] \in BufferIds
      BY DEF Types, TypeOK
    <3>2. ~(buffers[open_file_buffers[f]].lost > 0)
      BY <1>5, <3>1
    <3>3. buffers[open_file_buffers[f]].lost \in Nat
      BY <3>1, FreshKeeps DEF BufferType
    <3> QED BY <3>1, <3>2, <3>3
  <2>1. PICK d \in Threads : \E i \in 1 .. Depth(d) : job[d].held[i] = open_file_buffers[f]
    BY <2>0 DEF Table, Registered
  <2>2. PICK i \in 1 .. Depth(d) : job[d].held[i] = open_file_buffers[f]
    BY <2>1
  <2>4. CASE d # c
    BY <1>3, <1>4, <2>2, <2>4
  <2>5. CASE d = c /\ i \in 1 .. Depth(c)'
    BY <1>8, <2>2, <2>5
  <2>6. CASE d = c /\ i \notin 1 .. Depth(c)'
    <3>1. i = Depth(c) /\ buffers[b].refs # 1
      BY <1>7, <2>2, <2>6
    <3> QED BY <1>1, <1>11, <2>0, <2>2, <2>6, <3>1
  <2> QED BY <2>4, <2>5, <2>6
<1>15. ServerHeld'
  <2> SUFFICES ASSUME NEW f \in Files, server[f].open
               PROVE  \E d \in Threads : \E i \in 1 .. Depth(d)' :
                        /\ File(d)' = f /\ Intact(job[d].held[i])'
                        /\ ~(pc'[d] = "del" /\ i = Depth(d)')
    BY <1>2 DEF ServerHeld
  <2>1. PICK d \in Threads : \E i \in 1 .. Depth(d) :
          /\ File(d) = f /\ Intact(job[d].held[i]) /\ ~(pc[d] = "del" /\ i = Depth(d))
    BY DEF Table, ServerHeld
  <2>2. PICK i \in 1 .. Depth(d) :
          /\ File(d) = f /\ Intact(job[d].held[i]) /\ ~(pc[d] = "del" /\ i = Depth(d))
    BY <2>1
  <2>3. /\ buffers'[job[d].held[i]].opened /\ buffers'[job[d].held[i]].lost = 0
        /\ buffers[job[d].held[i]].lost = 0
    BY <1>5, <2>2, DepthBound DEF Intact
  <2>3a. \A e \in Threads, k \in Nat : job'[e].held[k] = job[d].held[i] => Intact(job[e].held[k])'
    BY <2>3 DEF Intact
  <2>3b. i \in Nat
    OBVIOUS
  <2>4. CASE d # c
    <3>1. /\ i \in 1 .. Depth(d)' /\ File(d)' = f /\ job'[d].held[i] = job[d].held[i]
          /\ ~(pc'[d] = "del" /\ i = Depth(d)')
      BY <1>3, <1>4, <2>2, <2>4
    <3>2. Intact(job[d].held[i])'
      BY <2>3a, <2>3b, <3>1
    <3> QED BY <3>1, <3>2
  <2>5. CASE d = c /\ i \in 1 .. Depth(c)'
    <3>1. pc'[c] # "del"
      BY <1>6
    <3>2. File(c)' = f /\ job'[c].held[i] = job[c].held[i]
      BY <1>8, <2>2, <2>5
    <3>3. Intact(job[c].held[i])'
      BY <2>3a, <2>3b, <2>5, <3>2
    <3> QED BY <2>5, <3>1, <3>2, <3>3
  <2>6. CASE d = c /\ i \notin 1 .. Depth(c)'
    <3>1. i = Depth(c) /\ buffers[b].refs # 1 /\ b = job[d].held[i]
      BY <1>1, <1>7, <2>2, <2>6
    <3>2. PICK e \in Threads : \E k \in 1 .. Depth(e)' :
            job'[e].held[k] = b /\ File(e)' = File(c) /\ ~(pc'[e] = "del" /\ k = Depth(e)')
      BY <1>11, <2>3, <3>1
    <3>3. PICK k \in 1 .. Depth(e)' :
            job'[e].held[k] = b /\ File(e)' = File(c) /\ ~(pc'[e] = "del" /\ k = Depth(e)')
      BY <3>2
    <3>4. k \in Nat
      OBVIOUS
    <3>5. Intact(job[e].held[k])' /\ File(e)' = f
      BY <2>2, <2>3a, <2>6, <3>1, <3>3, <3>4
    <3> QED BY <3>3, <3>5
  <2> QED BY <2>4, <2>5, <2>6
<1>16. Opening'
  <2> SUFFICES ASSUME NEW d \in Threads, pc'[d] = "did open" PROVE Intact(Buffer(d))'
    BY DEF Opening
  <2>1. d # c /\ pc[d] = "did open" /\ Buffer(d)' = Buffer(d)
    BY <1>3, <1>4, <1>6
  <2>2. Buffer(d) \in BufferIds
    BY <2>1, DepthBound
  <2> QED BY <1>5, <2>1, <2>2 DEF Table, Opening, Intact
<1> QED BY <1>10, <1>10a, <1>12, <1>13, <1>13a, <1>14, <1>15, <1>16 DEF Table

\* The document is closed by the last one out.
LEMMA CloseStep ==
  ASSUME Types, Local, Table, NEW c \in Threads, Close(c)
  PROVE  Table'
<1>1. /\ Depth(c) \in 1 .. Depth(c) /\ Buffer(c) = job[c].held[Depth(c)] /\ Buffer(c) \in BufferIds
      /\ pc[c] = "close" /\ File(c) \in Files
  BY DepthBound DEF Close
<1>2. UNCHANGED <<buffers, open_file_buffers, job>> /\ pc' = [pc EXCEPT ![c] = "del"]
  BY DEF Close, Goto
<1>3. /\ \A d \in Threads : Depth(d)' = Depth(d) /\ File(d)' = File(d) /\ Buffer(d)' = Buffer(d)
      /\ \A d \in Threads \ {c} : pc'[d] = pc[d]
      /\ pc'[c] = "del"
  BY <1>2 DEF Depth, File, Phase, Buffer, Types, TypeOK
<1>4. SameHolds /\ SameBuffers /\ HeldEntries
  BY <1>1, <1>2, <1>3 DEF SameHolds, SameBuffers, HeldEntries
<1>5. HeldTyped' /\ Counted' /\ Lossy' /\ Closing' /\ Closed' /\ Registered'
  BY <1>4, QuietTable DEF Table
<1>6. ServerHeld'
  <2> SUFFICES ASSUME NEW f \in Files, server'[f].open
               PROVE  \E d \in Threads : \E i \in 1 .. Depth(d) :
                        /\ File(d) = f /\ Intact(job[d].held[i])
                        /\ ~(pc'[d] = "del" /\ i = Depth(d))
    BY <1>2, <1>3 DEF ServerHeld, Intact
  <2>1. server[f].open /\ ~(f = File(c) /\ buffers[Buffer(c)].opened)
    <3>1. CASE buffers[Buffer(c)].opened
      <4>1. PICK broken : server' = [server EXCEPT ![File(c)] = [Unopened EXCEPT !.broken = broken]]
        BY <3>1 DEF Close
      <4>2. server'[File(c)] = [Unopened EXCEPT !.broken = broken]
        BY <1>1, <4>1 DEF Types, TypeOK
      <4>3. f # File(c)
        BY <4>2 DEF Unopened
      <4> QED BY <4>1, <4>3 DEF Types, TypeOK
    <3>2. CASE ~ buffers[Buffer(c)].opened
      BY <3>2 DEF Close
    <3> QED BY <3>1, <3>2
  <2>2. PICK d \in Threads : \E i \in 1 .. Depth(d) :
          /\ File(d) = f /\ Intact(job[d].held[i]) /\ ~(pc[d] = "del" /\ i = Depth(d))
    BY <2>1 DEF Table, ServerHeld
  <2>3. PICK i \in 1 .. Depth(d) :
          /\ File(d) = f /\ Intact(job[d].held[i]) /\ ~(pc[d] = "del" /\ i = Depth(d))
    BY <2>2
  <2>4. ~(d = c /\ i = Depth(c))
    BY <1>1, <2>1, <2>3 DEF Intact
  <2> QED BY <1>3, <2>3, <2>4
<1>7. Opening'
  BY <1>2, <1>3 DEF Table, Opening, Intact
<1> QED BY <1>5, <1>6, <1>7 DEF Table

\* The buffer is removed, and nobody held it.
LEMMA DelStep ==
  ASSUME Types, Local, Table, NEW c \in Threads, Del(c)
  PROVE  Table'
<1>0. PICK b : b = Buffer(c)
  OBVIOUS
<1>1. /\ Depth(c) \in 1 .. 2 /\ Depth(c) \in 1 .. Depth(c) /\ b = job[c].held[Depth(c)]
      /\ b \in BufferIds /\ pc[c] = "del" /\ File(c) \in Files
  BY <1>0, DepthBound DEF Del
<1>2. /\ open_file_buffers' = [open_file_buffers EXCEPT ![File(c)] = 0]
      /\ UNCHANGED buffers \/ buffers' = [buffers EXCEPT ![b] = NoBuffer]
      /\ UNCHANGED server
  BY <1>0 DEF Del
<1>3. PICK why : AfterDrop(c, [job[c] EXCEPT !.held = Front(@), !.failed = why])
  BY DelLeaves
<1>4. \A e \in Threads : \A i \in 1 .. Depth(e) :
        job[e].held[i] = b => e = c /\ i = Depth(c)
  BY <1>0, <1>1 DEF Table, Closing
<1>5. Users(b) = 0 /\ buffers[b].file = File(c)
  BY <1>0, <1>1, ClosingUncounted DEF Table, HeldTyped
<1>6. \A d \in Threads \ {c} : job'[d] = job[d] /\ pc'[d] = pc[d]
  BY OthersStay DEF Step
<1>7. \A d \in Threads \ {c} : Depth(d)' = Depth(d) /\ File(d)' = File(d) /\ Buffer(d)' = Buffer(d)
  BY <1>6 DEF Depth, File, Phase, Buffer
<1>8. /\ Depth(c)' = Depth(c) - 1 /\ (Depth(c)' # 0 => File(c)' = File(c))
      /\ \A i \in 1 .. Depth(c)' : job'[c].held[i] = job[c].held[i]
  BY <1>1, <1>3, LeaveKeeps
<1>8b. pc'[c] \notin {"close", "del", "did open"}
  BY <1>1, <1>3, LeaveKeeps
<1>8a. /\ Depth(c)' \in 0 .. 2
       /\ \A i \in 1 .. Depth(c)' : /\ i \in 1 .. Depth(c) /\ i # Depth(c)
                                    /\ job'[c].held[i] = job[c].held[i] /\ File(c)' = File(c)
       /\ \A i \in 1 .. Depth(c) : i # Depth(c) => i \in 1 .. Depth(c)'
  BY <1>1, <1>8
<1>9. \A d \in Threads : \A i \in 1 .. Depth(d)' :
        /\ i \in 1 .. Depth(d) /\ job'[d].held[i] = job[d].held[i]
        /\ File(d)' = File(d) /\ job[d].held[i] \in BufferIds /\ job[d].held[i] # b
  <2> SUFFICES ASSUME NEW d \in Threads, NEW i \in 1 .. Depth(d)'
               PROVE  /\ i \in 1 .. Depth(d) /\ job'[d].held[i] = job[d].held[i]
                      /\ File(d)' = File(d) /\ ~(d = c /\ i = Depth(c))
    BY <1>4, DepthBound
  <2>1. CASE d = c
    BY <1>8a, <2>1
  <2>2. CASE d # c
    BY <1>6, <1>7, <2>2
  <2> QED BY <2>1, <2>2
<1>10. \A a \in BufferIds \ {b} : buffers'[a] = buffers[a]
  BY <1>2 DEF Types, TypeOK
<1>11. HeldTyped'
  BY <1>9, <1>10 DEF HeldTyped, Table
<1>12. Counted' /\ Lossy'
  <2> SUFFICES ASSUME NEW a \in BufferIds
               PROVE  /\ buffers'[a].refs = Users(a)' + buffers'[a].lost
                      /\ buffers'[a].lost > 0 => buffers'[a].opened
    BY DEF Counted, Lossy, BufferIds
  <2>1. \A d \in Threads, i \in 1 .. 2 : Holds(d, i, a)' <=> Holds(d, i, a)
    <3> SUFFICES ASSUME NEW d \in Threads, NEW i \in 1 .. 2
                 PROVE  Holds(d, i, a)' <=> Holds(d, i, a)
      OBVIOUS
    <3>1. CASE d # c
      BY <1>6, <1>7, <3>1 DEF Holds
    <3>2. Holds(c, i, a)' <=> Holds(c, i, a)
      <4>1. CASE i <= Depth(c) - 1
        <5>1. i \in 1 .. Depth(c)' /\ i <= Depth(c)' /\ i <= Depth(c) /\ i # Depth(c)
          BY <1>1, <1>8, <4>1
        <5> QED BY <1>8, <1>8b, <5>1 DEF Holds
      <4>2. CASE ~(i <= Depth(c) - 1)
        <5>1. ~(i <= Depth(c)') /\ (i = Depth(c) \/ ~(i <= Depth(c)))
          BY <1>1, <1>8, <4>2
        <5> QED BY <1>1, <5>1 DEF Holds
      <4> QED BY <4>1, <4>2
    <3> QED BY <3>1, <3>2
  <2>2. Holders(a)' = Holders(a)
    BY <2>1 DEF Holders
  <2>3. Users(a) = Cardinality(Holders(a)) /\ Users(a)' = Cardinality(Holders(a)')
    BY Zenon DEF Users, Holders
  <2>4. /\ buffers[a].refs = Users(a) + buffers[a].lost /\ Users(a)' = Users(a)
        /\ buffers[a].lost > 0 => buffers[a].opened
    BY <2>2, <2>3 DEF Table, Counted, Lossy
  <2>5. CASE buffers'[a] = buffers[a]
    BY <2>4, <2>5
  <2>6. CASE buffers'[a] # buffers[a]
    <3>1. a = b /\ buffers'[a] = NoBuffer
      BY <1>2, <2>6 DEF Types, TypeOK
    <3> QED BY <1>5, <2>4, <3>1 DEF NoBuffer
  <2> QED BY <2>5, <2>6
<1>13. Closing'
  <2> SUFFICES ASSUME NEW d \in Threads, pc'[d] \in {"close", "del"},
                      NEW e \in Threads, NEW i \in 1 .. Depth(e)', job'[e].held[i] = Buffer(d)'
               PROVE  e = d /\ i = Depth(d)'
    BY DEF Closing
  <2>1. d # c /\ pc[d] \in {"close", "del"} /\ Buffer(d)' = Buffer(d) /\ Depth(d)' = Depth(d)
    BY <1>6, <1>7, <1>8b
  <2> QED BY <1>9, <2>1 DEF Table, Closing
<1>13a. Closed'
  <2> SUFFICES ASSUME NEW d \in Threads, pc'[d] \in {"close", "del"} PROVE buffers'[Buffer(d)'].lost = 0
    BY DEF Closed
  <2>1. d # c /\ pc[d] \in {"close", "del"} /\ Buffer(d)' = Buffer(d)
    BY <1>6, <1>7, <1>8b
  <2>2. Depth(d) \in 1 .. Depth(d) /\ Buffer(d) = job[d].held[Depth(d)] /\ Buffer(d) \in BufferIds
    BY <2>1, DepthBound
  <2>3. Buffer(d) # b
    BY <1>4, <2>1, <2>2
  <2> QED BY <1>10, <2>1, <2>2, <2>3 DEF Table, Closed
<1>14. Registered'
  <2> SUFFICES ASSUME NEW f \in Files, open_file_buffers'[f] # 0
               PROVE  /\ buffers'[open_file_buffers'[f]].file = f
                      /\ \/ buffers'[open_file_buffers'[f]].lost > 0
                         \/ \E d \in Threads : \E i \in 1 .. Depth(d)' :
                              job'[d].held[i] = open_file_buffers'[f]
    BY DEF Registered
  <2>1. f # File(c) /\ open_file_buffers'[f] = open_file_buffers[f] /\ open_file_buffers[f] # 0
    BY <1>1, <1>2 DEF Types, TypeOK
  <2>4. buffers[open_file_buffers[f]].file = f
    BY <2>1 DEF Table, Registered
  <2>5. open_file_buffers[f] # b /\ open_file_buffers[f] \in BufferIds
    BY <1>5, <2>1, <2>4 DEF Types, TypeOK
  <2>5a. CASE buffers[open_file_buffers[f]].lost > 0
    BY <1>10, <2>1, <2>4, <2>5, <2>5a
  <2>5b. SUFFICES ASSUME ~(buffers[open_file_buffers[f]].lost > 0)
                  PROVE  /\ buffers'[open_file_buffers'[f]].file = f
                         /\ \E d \in Threads : \E i \in 1 .. Depth(d)' :
                              job'[d].held[i] = open_file_buffers'[f]
    BY <2>5a
  <2>2. PICK d \in Threads : \E i \in 1 .. Depth(d) : job[d].held[i] = open_file_buffers[f]
    BY <2>1, <2>5b DEF Table, Registered
  <2>3. PICK i \in 1 .. Depth(d) : job[d].held[i] = open_file_buffers[f]
    BY <2>2
  <2>6. i \in 1 .. Depth(d)' /\ job'[d].held[i] = job[d].held[i]
    <3>1. CASE d # c
      BY <1>6, <1>7, <3>1
    <3>2. CASE d = c
      BY <1>1, <1>8a, <2>3, <2>5, <3>2
    <3> QED BY <3>1, <3>2
  <2> QED BY <1>10, <2>1, <2>3, <2>4, <2>5, <2>6
<1>15. ServerHeld'
  <2> SUFFICES ASSUME NEW f \in Files, server[f].open
               PROVE  \E d \in Threads : \E i \in 1 .. Depth(d)' :
                        /\ File(d)' = f /\ Intact(job[d].held[i])'
                        /\ ~(pc'[d] = "del" /\ i = Depth(d)')
    BY <1>2 DEF ServerHeld
  <2>1. PICK d \in Threads : \E i \in 1 .. Depth(d) :
          /\ File(d) = f /\ Intact(job[d].held[i]) /\ ~(pc[d] = "del" /\ i = Depth(d))
    BY DEF Table, ServerHeld
  <2>2. PICK i \in 1 .. Depth(d) :
          /\ File(d) = f /\ Intact(job[d].held[i]) /\ ~(pc[d] = "del" /\ i = Depth(d))
    BY <2>1
  <2>3. i \in 1 .. Depth(d)' /\ ~(pc'[d] = "del" /\ i = Depth(d)')
    <3>1. CASE d # c
      BY <1>6, <1>7, <2>2, <3>1
    <3>2. CASE d = c
      BY <1>1, <1>8a, <1>8b, <2>2, <3>2
    <3> QED BY <3>1, <3>2
  <2> QED BY <1>9, <1>10, <2>2, <2>3 DEF Intact
<1>16. Opening'
  <2> SUFFICES ASSUME NEW d \in Threads, pc'[d] = "did open" PROVE Intact(Buffer(d))'
    BY DEF Opening
  <2>1. d # c /\ pc[d] = "did open" /\ Buffer(d)' = Buffer(d)
    BY <1>6, <1>7, <1>8b
  <2>2. Depth(d) \in 1 .. Depth(d) /\ Buffer(d) = job[d].held[Depth(d)] /\ Buffer(d) \in BufferIds
    BY <2>1, DepthBound
  <2>3. Buffer(d) # b
    BY <1>4, <2>1, <2>2
  <2> QED BY <1>10, <2>1, <2>2, <2>3 DEF Table, Opening, Intact
<1> QED BY <1>11, <1>12, <1>13, <1>13a, <1>14, <1>15, <1>16 DEF Table

\* A call that cannot open a buffer that it has counted is not in its with-block.
LEMMA OpenFailsKeeps ==
  ASSUME Types, Local, NEW c \in Threads, OpenFails(c), ~Lazy(c)
  PROVE  /\ pc'[c] \notin {"close", "del", "did open"} /\ pc[c] = "ensure"
         /\ Depth(c)' = Depth(c) - 1
         /\ Depth(c)' # 0 => File(c)' = File(c)
         /\ \A i \in 1 .. Depth(c)' : job'[c].held[i] = job[c].held[i]
<1>1. pc[c] = "ensure" /\ FailWith(c, "unread", [job[c] EXCEPT !.held = Front(@)])
  BY DEF OpenFails
<1>2. pc'[c] \notin {"close", "del", "did open"}
  BY <1>1 DEF FailWith, Goto, Types, TypeOK
<1>3. Depth(c) # 0 /\ Depth(c) \in Nat
  BY <1>1, DepthBound, Mine
<1>4. /\ Front(job[c].held) \in Seq(BufferIds) /\ Len(Front(job[c].held)) = Depth(c) - 1
      /\ \A i \in 1 .. Depth(c) - 1 : Front(job[c].held)[i] = job[c].held[i]
  BY <1>3, Mine, FrontType DEF Depth
<1>5. job'[c] = [[job[c] EXCEPT !.held = Front(@)] EXCEPT !.failed = "unread"]
  BY <1>1 DEF FailWith, SetJob, Types
<1>6. job'[c].held = Front(job[c].held) /\ job'[c].plan = job[c].plan
  BY <1>5, Mine DEF JobType
<1>7. Depth(c)' = Depth(c) - 1 /\ \A i \in 1 .. Depth(c)' : job'[c].held[i] = job[c].held[i]
  BY <1>4, <1>6 DEF Depth
<1>8. File(c)' = File(c)
  BY <1>6 DEF File, Phase
<1> QED BY <1>1, <1>2, <1>7, <1>8

\* Its count stays with the buffer, or there is no buffer.
LEMMA OpenFailsStep ==
  ASSUME Types, Local, Table, NEW c \in Threads, OpenFails(c), ~Lazy(c)
  PROVE  Table'
<1>0. PICK b : b = Buffer(c)
  OBVIOUS
<1>1. /\ Depth(c) \in 1 .. 2 /\ Depth(c) \in 1 .. Depth(c) /\ b = job[c].held[Depth(c)]
      /\ b \in BufferIds /\ pc[c] = "ensure" /\ File(c) \in Files /\ buffers[b] \in BufferType
  BY <1>0, DepthBound, FreshKeeps DEF OpenFails
<1> DEFINE inUse == HeldElsewhere(b, c) \/ open_file_buffers[File(c)] = b
<1>2a. PICK r : /\ buffers' = [buffers EXCEPT ![b] = r]
                /\ \/ \E n \in 0 .. 1 :
                        /\ r = [buffers[b] EXCEPT !.opened = TRUE, !.lost = @ + n]
                        /\ n # 0 /\ inUse
                   \/ r = NoBuffer /\ ~inUse
  BY <1>0, <1>1, OpenFailsBuffers
<1>2. buffers' = [buffers EXCEPT ![b] = r] /\ UNCHANGED <<open_file_buffers, server>>
  BY <1>2a DEF OpenFails
<1>2b. /\ inUse => /\ r.refs = buffers[b].refs /\ r.lost = buffers[b].lost + 1 /\ r.opened
                   /\ r.file = buffers[b].file
       /\ ~inUse => r = NoBuffer
  <2> HIDE DEF inUse
  <2>1. CASE \E n \in 0 .. 1 : /\ r = [buffers[b] EXCEPT !.opened = TRUE, !.lost = @ + n]
                              /\ n # 0 /\ inUse
    <3>1. PICK n \in 0 .. 1 : /\ r = [buffers[b] EXCEPT !.opened = TRUE, !.lost = @ + n]
                              /\ n # 0 /\ inUse
      BY <2>1
    <3>2. n = 1 /\ n \in Nat
      BY <3>1
    <3>3. /\ r.refs = buffers[b].refs /\ r.lost = buffers[b].lost + n /\ r.opened
          /\ r.file = buffers[b].file
      BY <1>1, <3>1, <3>2, LostMore, Zenon
    <3> QED BY <3>1, <3>2, <3>3
  <2>2. CASE r = NoBuffer /\ ~inUse
    BY <2>2
  <2> QED BY <1>2a, <2>1, <2>2
<1>3. ~buffers[b].opened /\ buffers[b].lost = 0
  <2>1. ~buffers[b].opened
    BY <1>0, <1>1, OpenFailsBuffers DEF Opened
  <2>2. ~(buffers[b].lost > 0)
    BY <1>1, <2>1 DEF Table, Lossy
  <2>3. buffers[b].lost \in Nat
    BY <1>1 DEF BufferType
  <2> QED BY <2>1, <2>2, <2>3
<1>4. \A d \in Threads \ {c} : job'[d] = job[d] /\ pc'[d] = pc[d]
  BY OthersStay DEF Step
<1>5. \A d \in Threads \ {c} : Depth(d)' = Depth(d) /\ File(d)' = File(d) /\ Buffer(d)' = Buffer(d)
  BY <1>4 DEF Depth, File, Phase, Buffer
<1>6. /\ Depth(c)' = Depth(c) - 1 /\ (Depth(c)' # 0 => File(c)' = File(c))
      /\ \A i \in 1 .. Depth(c)' : job'[c].held[i] = job[c].held[i]
      /\ pc'[c] \notin {"close", "del", "did open"}
  BY OpenFailsKeeps
<1>7. /\ Depth(c)' \in 0 .. 2
      /\ \A i \in 1 .. Depth(c)' : /\ i \in 1 .. Depth(c) /\ i # Depth(c)
                                   /\ job'[c].held[i] = job[c].held[i] /\ File(c)' = File(c)
      /\ \A i \in 1 .. Depth(c) : i # Depth(c) => i \in 1 .. Depth(c)'
  <2>1. PICK n : n = Depth(c)
    OBVIOUS
  <2>2. n \in 1 .. 2 /\ Depth(c)' = n - 1
    BY <1>1, <1>6, <2>1
  <2>3. n - 1 \in 0 .. 2 /\ (\A i \in 1 .. n - 1 : i \in 1 .. n /\ i # n /\ n - 1 # 0)
        /\ \A i \in 1 .. n : i # n => i \in 1 .. n - 1
    BY <2>2
  <2> QED BY <1>6, <2>1, <2>2, <2>3
<1>8. \A d \in Threads : \A i \in 1 .. Depth(d)' :
        /\ i \in 1 .. Depth(d) /\ job'[d].held[i] = job[d].held[i]
        /\ File(d)' = File(d) /\ job[d].held[i] \in BufferIds /\ ~(d = c /\ i = Depth(c))
  <2> SUFFICES ASSUME NEW d \in Threads, NEW i \in 1 .. Depth(d)'
               PROVE  /\ i \in 1 .. Depth(d) /\ job'[d].held[i] = job[d].held[i]
                      /\ File(d)' = File(d) /\ ~(d = c /\ i = Depth(c))
    BY DepthBound
  <2>1. CASE d = c
    BY <1>7, <2>1
  <2>2. CASE d # c
    BY <1>4, <1>5, <2>2
  <2> QED BY <2>1, <2>2
\* What another buffer was held by still holds it.
<1>9. \A d \in Threads : \A i \in 1 .. Depth(d) : job[d].held[i] # b =>
        i \in 1 .. Depth(d)' /\ job'[d].held[i] = job[d].held[i] /\ File(d)' = File(d)
  <2> SUFFICES ASSUME NEW d \in Threads, NEW i \in 1 .. Depth(d), job[d].held[i] # b
               PROVE  i \in 1 .. Depth(d)'
    BY <1>8
  <2>1. CASE d = c
    BY <1>1, <1>7, <2>1
  <2>2. CASE d # c
    BY <1>5, <2>2
  <2> QED BY <2>1, <2>2
<1>10. \A a \in BufferIds : \A d \in Threads, i \in 1 .. 2 :
         Holds(d, i, a)' <=> Holds(d, i, a) /\ ~(d = c /\ i = Depth(c))
  <2> SUFFICES ASSUME NEW a \in BufferIds, NEW d \in Threads, NEW i \in 1 .. 2
               PROVE  Holds(d, i, a)' <=> Holds(d, i, a) /\ ~(d = c /\ i = Depth(c))
    OBVIOUS
  <2>1. CASE d # c
    BY <1>4, <1>5, <2>1 DEF Holds
  <2>2. Holds(c, i, a)' <=> Holds(c, i, a) /\ i # Depth(c)
    <3>1. CASE i <= Depth(c)'
      <4>1. i \in 1 .. Depth(c)'
        BY <1>7, <3>1
      <4>2. i \in 1 .. Depth(c) /\ i # Depth(c) /\ job'[c].held[i] = job[c].held[i]
        BY <1>7, <4>1
      <4>3. i <= Depth(c)
        BY <1>1, <4>2
      <4> QED BY <1>1, <1>6, <3>1, <4>2, <4>3 DEF Holds
    <3>2. CASE ~(i <= Depth(c)')
      <4>1. i <= Depth(c) => i \in 1 .. Depth(c)
        BY <1>1
      <4>2. i = Depth(c) \/ ~(i <= Depth(c))
        BY <1>7, <3>2, <4>1
      <4> QED BY <3>2, <4>2 DEF Holds
    <3> QED BY <3>1, <3>2
  <2> QED BY <2>1, <2>2
\* A buffer that is not in use is held by nobody then, and registered for no file.
<1>11. ASSUME ~inUse
       PROVE  /\ \A d \in Threads : \A i \in 1 .. Depth(d)' : job'[d].held[i] # b
              /\ \A f \in Files : open_file_buffers[f] # b
              /\ Users(b) = 1
  <2>1. \A d \in Threads : \A i \in 1 .. Depth(d) : job[d].held[i] = b => d = c /\ i = Depth(c)
    <3> SUFFICES ASSUME NEW d \in Threads, NEW i \in 1 .. Depth(d), job[d].held[i] = b,
                        ~(d = c /\ i = Depth(c))
                 PROVE  HeldElsewhere(b, c)
      BY <1>11
    <3>1. CASE d # c
      <4>1. b \in ToSet(job[d].held)
        BY DEF ToSet, Depth
      <4> QED BY <3>1, <4>1 DEF HeldElsewhere
    <3>2. CASE d = c
      <4>1. i \in 1 .. Len(job[c].held) - 1 /\ Len(job[c].held) # 0
        BY <1>1, <3>2 DEF Depth
      <4>2. Front(job[c].held)[i] = b /\ i \in 1 .. Len(Front(job[c].held))
            /\ Front(job[c].held) \in Seq(BufferIds)
        BY <3>2, <4>1, Mine, FrontType
      <4>3. b \in ToSet(Front(job[c].held))
        BY <4>2 DEF ToSet
      <4> QED BY <4>3 DEF HeldElsewhere
    <3> QED BY <3>1, <3>2
  <2>2. \A d \in Threads : \A i \in 1 .. Depth(d)' : job'[d].held[i] # b
    BY <1>8, <2>1
  <2>3. buffers[b].file = File(c)
    BY <1>1 DEF Table, HeldTyped
  <2>4. \A f \in Files : open_file_buffers[f] # b
    <3> SUFFICES ASSUME NEW f \in Files, open_file_buffers[f] = b PROVE FALSE
      OBVIOUS
    <3>1. b # 0
      BY <1>1, NotZero
    <3>2. f = File(c)
      BY <2>3, <3>1 DEF Table, Registered
    <3> QED BY <1>11, <3>2
  <2>5. Holders(b) = {<<c, Depth(c)>>}
    <3>1. <<c, Depth(c)>> \in Holders(b)
      BY <1>1 DEF Holders, Holds
    <3>2. ASSUME NEW u \in Holders(b) PROVE u = <<c, Depth(c)>>
      <4>1. PICK d \in Threads, i \in 1 .. 2 : u = <<d, i>> /\ Holds(d, i, b)
        BY DEF Holders
      <4>2. i \in 1 .. Depth(d) /\ job[d].held[i] = b
        BY <4>1, DepthBound DEF Holds
      <4> QED BY <2>1, <4>1, <4>2
    <3> QED BY <3>1, <3>2
  <2>6. Users(b) = 1
    BY <2>5, HoldersFinite, FS_Singleton
  <2> QED BY <2>2, <2>4, <2>6
<1>12. /\ r.refs = Users(b) - 1 + r.lost /\ r.lost \in Nat /\ (r.lost > 0 => r.opened)
       /\ inUse => r.file = buffers[b].file /\ r.lost > 0
  <2>1. buffers[b].refs = Users(b) + 0 /\ Users(b) \in Nat
    BY <1>1, <1>3, HoldersFinite DEF Table, Counted
  <2>2. CASE inUse
    BY <1>2b, <1>3, <2>1, <2>2
  <2>3. CASE ~inUse
    <3>1. r.refs = 0 /\ r.lost = 0
      BY <1>2b, <2>3 DEF NoBuffer
    <3> QED BY <1>11, <2>3, <3>1
  <2> QED BY <2>2, <2>3
<1> HIDE DEF inUse
<1>13. buffers'[b] = r /\ \A a \in BufferIds \ {b} : buffers'[a] = buffers[a]
  BY <1>1, <1>2 DEF Types, TypeOK
<1>14. Counted'
  BY <1>0, <1>1, <1>2, <1>10, <1>12, CountDown
<1>15. Lossy'
  <2> SUFFICES ASSUME NEW a \in BufferIds PROVE buffers'[a].lost > 0 => buffers'[a].opened
    BY DEF Lossy, BufferIds
  <2>1. CASE a = b
    BY <1>12, <1>13, <2>1
  <2>2. CASE a # b
    BY <1>13, <2>2 DEF Table, Lossy
  <2> QED BY <2>1, <2>2
<1>16. HeldTyped'
  <2> SUFFICES ASSUME NEW d \in Threads, NEW i \in 1 .. Depth(d)'
               PROVE  buffers'[job'[d].held[i]].file = File(d)'
    BY DEF HeldTyped
  <2>1. job'[d].held[i] \in BufferIds /\ buffers[job'[d].held[i]].file = File(d)'
    BY <1>8 DEF Table, HeldTyped
  <2>2. CASE job'[d].held[i] = b
    <3>1. inUse
      BY <1>11, <2>2
    <3> QED BY <1>12, <1>13, <2>1, <2>2, <3>1
  <2>3. CASE job'[d].held[i] # b
    BY <1>13, <2>1, <2>3
  <2> QED BY <2>2, <2>3
<1>17. \A d \in Threads : pc'[d] \in {"close", "del", "did open"} =>
         /\ d # c /\ pc[d] = pc'[d] /\ Buffer(d)' = Buffer(d) /\ Depth(d)' = Depth(d)
         /\ Buffer(d) \in BufferIds /\ Depth(d) \in 1 .. Depth(d) /\ Buffer(d) = job[d].held[Depth(d)]
  BY <1>4, <1>5, <1>6, DepthBound
<1>18. \A d \in Threads : pc'[d] \in {"close", "del"} => Buffer(d) # b
  BY <1>1, <1>17 DEF Table, Closing
<1>19. Closing' /\ Closed'
  <2>1. Closing'
    <3> SUFFICES ASSUME NEW d \in Threads, pc'[d] \in {"close", "del"},
                        NEW e \in Threads, NEW i \in 1 .. Depth(e)', job'[e].held[i] = Buffer(d)'
                 PROVE  e = d /\ i = Depth(d)'
      BY DEF Closing
    <3>1. i \in 1 .. Depth(e) /\ job'[e].held[i] = job[e].held[i]
      BY <1>8
    <3>2. pc[d] \in {"close", "del"} /\ Depth(d)' = Depth(d) /\ Buffer(d)' = Buffer(d)
      BY <1>17
    <3>3. job[e].held[i] = Buffer(d)
      BY <3>1, <3>2
    <3> QED BY <3>1, <3>2, <3>3 DEF Table, Closing
  <2>2. Closed'
    <3> SUFFICES ASSUME NEW d \in Threads, pc'[d] \in {"close", "del"}
                 PROVE  buffers'[Buffer(d)'].lost = 0
      BY DEF Closed
    <3>1. /\ pc[d] \in {"close", "del"} /\ Buffer(d)' = Buffer(d) /\ Buffer(d) \in BufferIds
          /\ Buffer(d) # b
      BY <1>17, <1>18
    <3>2. buffers'[Buffer(d)] = buffers[Buffer(d)]
      BY <1>13, <3>1
    <3> QED BY <3>1, <3>2 DEF Table, Closed
  <2> QED BY <2>1, <2>2
<1>20. Registered'
  <2> SUFFICES ASSUME NEW f \in Files, open_file_buffers[f] # 0
               PROVE  /\ buffers'[open_file_buffers[f]].file = f
                      /\ \/ buffers'[open_file_buffers[f]].lost > 0
                         \/ \E d \in Threads : \E i \in 1 .. Depth(d)' :
                              job'[d].held[i] = open_file_buffers[f]
    BY <1>2 DEF Registered
  <2>1. open_file_buffers[f] \in BufferIds /\ buffers[open_file_buffers[f]].file = f
    BY DEF Table, Registered, Types, TypeOK
  <2>2. CASE open_file_buffers[f] = b
    <3>1. inUse
      BY <1>11, <2>2
    <3> QED BY <1>12, <1>13, <2>1, <2>2, <3>1
  <2>3. CASE open_file_buffers[f] # b
    BY <1>9, <1>13, <2>1, <2>3 DEF Table, Registered
  <2> QED BY <2>2, <2>3
<1>21. ServerHeld'
  <2> SUFFICES ASSUME NEW f \in Files, server[f].open
               PROVE  \E d \in Threads : \E i \in 1 .. Depth(d)' :
                        /\ File(d)' = f /\ Intact(job[d].held[i])'
                        /\ ~(pc'[d] = "del" /\ i = Depth(d)')
    BY <1>2 DEF ServerHeld
  <2>1. PICK d \in Threads : \E i \in 1 .. Depth(d) :
          /\ File(d) = f /\ Intact(job[d].held[i]) /\ ~(pc[d] = "del" /\ i = Depth(d))
    BY DEF Table, ServerHeld
  <2>2. PICK i \in 1 .. Depth(d) :
          /\ File(d) = f /\ Intact(job[d].held[i]) /\ ~(pc[d] = "del" /\ i = Depth(d))
    BY <2>1
  <2>3. job[d].held[i] # b /\ job[d].held[i] \in BufferIds
    BY <1>3, <2>2, DepthBound DEF Intact
  <2>4. i \in 1 .. Depth(d)' /\ job'[d].held[i] = job[d].held[i] /\ File(d)' = File(d)
    BY <1>9, <2>3
  <2>5. ~(pc'[d] = "del" /\ i = Depth(d)')
    BY <1>17, <2>2
  <2>6. Intact(job[d].held[i])'
    BY <1>13, <2>2, <2>3, <2>4 DEF Intact
  <2> QED BY <2>2, <2>4, <2>5, <2>6
<1>22. Opening'
  <2> SUFFICES ASSUME NEW d \in Threads, pc'[d] = "did open" PROVE Intact(Buffer(d))'
    BY DEF Opening
  <2>1. pc[d] = "did open" /\ Buffer(d)' = Buffer(d) /\ Buffer(d) \in BufferIds
    BY <1>17
  <2>2. Buffer(d) # b
    BY <1>3, <2>1 DEF Table, Opening, Intact
  <2> QED BY <1>13, <2>1, <2>2 DEF Table, Opening, Intact
<1> QED BY <1>14, <1>15, <1>16, <1>19, <1>20, <1>21, <1>22 DEF Table

\* What another program does disturbs nothing of the table.
LEMMA OutsideStep ==
  ASSUME Types, Local, Table, NEW f \in Files, Outside(f)
  PROVE  Table'
<1>1. SameBuffers
  <2>1. CASE UNCHANGED buffers
    BY <2>1 DEF SameBuffers
  <2> QED BY <2>1, WrittenKeeps DEF Outside, WriteOutside, RemoveOutside, RestoreOutside
<1>2. UNCHANGED <<open_file_buffers, server, pc, job>>
  BY DEF Outside, WriteOutside, RemoveOutside, RestoreOutside
<1>3. SameHolds /\ HeldEntries /\ HeldDocuments /\ \A d \in Threads : pc'[d] = "del" => pc[d] = "del"
  BY <1>2 DEF SameHolds, HeldEntries, HeldDocuments, File, Phase
<1>4. HeldTyped' /\ Counted' /\ Lossy' /\ Closing' /\ Closed' /\ Registered' /\ ServerHeld'
  BY <1>1, <1>3, QuietTable, QuietServer DEF Table
<1>5. \A d \in Threads : pc[d] = "did open" => Buffer(d) \in BufferIds
  BY DepthBound
<1>6. Opening'
  BY <1>1, <1>2, <1>5 DEF Table, Opening, SameBuffers, Buffer, Intact
<1> QED BY <1>4, <1>6 DEF Table

\* Every step keeps the table of buffers as it should be.
LEMMA TableStep ==
  ASSUME Types, Local, Table, Next
  PROVE  Table'
<1>1. CASE \E f \in Files : Outside(f)
  BY <1>1, OutsideStep
<1>2. ASSUME NEW c \in Threads, Step(c) PROVE Table'
  <2>1. Quiet(c) \/ Open(c) \/ Drop(c) \/ Close(c) \/ Del(c) \/ (OpenFails(c) /\ ~Lazy(c))
    BY <1>2 DEF Step, Quiet
  <2> QED BY <2>1, QuietStep, OpenStep, DropStep, CloseStep, DelStep, OpenFailsStep
<1> QED BY <1>1, <1>2 DEF Next

-----------------------------------------------------------------------------
(* The types.                                                                *)

\* What a call holds is a buffer of a file that it works on.
LEMMA HeldFile ==
  ASSUME Types, Local, Table, NEW c \in Threads, Depth(c) # 0
  PROVE  Buffer(c) \in BufferIds /\ buffers[Buffer(c)].file = File(c) /\ File(c) \in Files
<1>1. /\ Depth(c) \in 1 .. Depth(c) /\ Buffer(c) = job[c].held[Depth(c)] /\ Buffer(c) \in BufferIds
      /\ File(c) \in Files
  BY DepthBound
<1> QED BY <1>1 DEF Table, HeldTyped

\* A step of a call keeps what is known of it.
LEMMA OwnStep ==
  ASSUME Types, Local, Table, NEW c \in Threads, Step(c)
  PROVE  Own(c)'
<1>1. CASE Begin(c) \/ Return(c) \/ DidOpen(c) \/ Store(c) \/ Ask(c) \/ Validate(c)
  BY <1>1, OwnBegin, OwnReturn, OwnDidOpen, OwnStore, OwnAsk, OwnValidate
<1>2. CASE Drop(c) \/ Del(c) \/ Delete(c) \/ Insert(c) \/ DidChange(c) \/ Truncate(c) \/ Put(c) \/ Stamp(c)
  BY <1>2, OwnDrop, OwnDel, OwnChange, OwnDidChange, OwnWrite, OwnStamp
<1>3. CASE Close(c)
  BY <1>3, OwnToClose DEF Close, Goto
<1>4. CASE Open(c)
  <2>1. Garbage # {}
    BY <1>4, GarbageExists DEF Open, Table
  <2> QED BY <1>4, <2>1, OwnOpen
<1>5. CASE EnsureOpen(c) \/ LookInCache(c)
  <2>1. Depth(c) # 0
    BY <1>5, DepthBound DEF EnsureOpen, LookInCache
  <2>2. buffers[Buffer(c)].file \in Files
    BY <2>1, HeldFile
  <2> QED BY <1>5, <2>2, OwnEnsureOpen, OwnLookInCache
<1>6. CASE Save(c)
  <2>1. File(c) \in Files
    BY <1>6, DepthBound DEF Save
  <2>2. open_file_buffers[File(c)] # 0 => buffers[open_file_buffers[File(c)]].file \in Files
    BY <2>1 DEF Table, Registered
  <2> QED BY <1>6, <2>2, OwnSave
<1> QED BY <1>1, <1>2, <1>3, <1>4, <1>5, <1>6, OwnOpenFails, OwnReadFails DEF Step

\* A step of a call changes its own locals.
LEMMA OneJob ==
  ASSUME Types, NEW c \in Threads, Step(c)
  PROVE  /\ \E j : job' = [job EXCEPT ![c] = j]
         /\ \E step : pc' = [pc EXCEPT ![c] = step]
<1>1. job = [job EXCEPT ![c] = job[c]]
  BY DEF Types
<1>2. CASE Begin(c) \/ Return(c) \/ Store(c) \/ DidOpen(c) \/ DidChange(c) \/ Truncate(c) \/ Put(c) \/ Stamp(c)
  BY <1>1, <1>2 DEF Begin, Return, Store, DidOpen, DidChange, Truncate, Put, Stamp, SetJob, Goto
<1>3. CASE Open(c)
  BY <1>1, <1>3 DEF Open, FailWith, SetJob, Goto
<1>4. CASE EnsureOpen(c) \/ OpenFails(c) \/ ReadFails(c)
  BY <1>1, <1>4 DEF EnsureOpen, OpenFails, ReadFails, FailWith, SetJob, Goto
<1>5. CASE Drop(c) \/ Close(c)
  BY <1>1, <1>5 DEF Drop, Close, AfterDrop, SetJob, Goto
<1>6. CASE Del(c)
  BY <1>6 DEF Del, AfterDrop, SetJob, Goto
<1>7. CASE LookInCache(c) \/ Ask(c)
  BY <1>7 DEF LookInCache, Ask, Located, SetJob, Goto
<1>8. CASE Validate(c) \/ Save(c)
  BY <1>1, <1>8 DEF Validate, Save, FailWith, SetJob, Goto
<1>9. CASE Delete(c) \/ Insert(c)
  BY <1>9 DEF Delete, Insert, Change, FailWith, SetJob, Goto
<1> QED BY <1>2, <1>3, <1>4, <1>5, <1>6, <1>7, <1>8, <1>9 DEF Step

LEMMA LocalStep ==
  ASSUME Types, Local, Table, Next
  PROVE  Local' /\ job' \in [Threads -> JobType]
<1>1. CASE \E f \in Files : Outside(f)
  <2>1. pc' = pc /\ job' = job
    BY <1>1 DEF Outside, WriteOutside, RemoveOutside, RestoreOutside
  <2>2. \A d \in Threads : Own(d)
    BY Mine DEF Own, Local
  <2>3. \A d \in Threads : Own(d)'
    BY <2>1, <2>2, OthersOwn
  <2> QED BY <2>1, <2>3 DEF Own, Local, Types
<1>2. ASSUME NEW c \in Threads, Step(c) PROVE Local' /\ job' \in [Threads -> JobType]
  <2>1. \A d \in Threads : Own(d)
    BY Mine DEF Own, Local
  <2>2. ASSUME NEW d \in Threads PROVE Own(d)'
    <3>1. CASE d = c
      BY <1>2, <3>1, OwnStep
    <3>2. CASE d # c
      BY <1>2, <2>1, <3>2, OthersStay, OthersOwn
    <3> QED BY <3>1, <3>2
  <2>3. PICK j : job' = [job EXCEPT ![c] = j]
    BY <1>2, OneJob
  <2>4. \A d \in Threads : job'[d] \in JobType
    BY <2>2 DEF Own, JobType, BufferIds
  <2>5. job' = [d \in Threads |-> job'[d]]
    BY <2>3 DEF Types
  <2>6. job' \in [Threads -> JobType]
    BY <2>4, <2>5
  <2> QED BY <2>2, <2>6 DEF Own, Local
<1> QED BY <1>1, <1>2 DEF Next

LEMMA PcStep ==
  ASSUME Types, Local, Next
  PROVE  pc' \in [Threads -> Steps]
<1>1. CASE \E f \in Files : Outside(f)
  BY <1>1 DEF Outside, WriteOutside, RemoveOutside, RestoreOutside, Types, TypeOK
<1>2. ASSUME NEW c \in Threads, Step(c) PROVE pc' \in [Threads -> Steps]
  <2> SUFFICES \E step \in Steps : pc' = [pc EXCEPT ![c] = step]
    BY DEF Types, TypeOK
  <2>1. CASE Begin(c) \/ Return(c) \/ Truncate(c) \/ Put(c) \/ Stamp(c) \/ Drop(c) \/ Close(c) \/ Del(c)
    BY <2>1 DEF Begin, Return, Truncate, Put, Stamp, Drop, Close, Del, AfterDrop, Goto, Steps
  <2>2. CASE Open(c) \/ LookInCache(c) \/ Ask(c) \/ Validate(c) \/ Save(c)
    BY <2>2 DEF Open, LookInCache, Ask, Validate, Save, FailWith, Located, Goto, Steps
  <2>2a. CASE OpenFails(c) \/ ReadFails(c)
    BY <2>2a DEF OpenFails, ReadFails, FailWith, Goto, Steps
  <2>3. CASE Delete(c) \/ Insert(c) \/ DidChange(c)
    BY <2>3 DEF Delete, Insert, DidChange, Change, FailWith, Goto, Steps
  <2>4. Placed(c)
    BY DEF Local
  <2>5. pc[c] \in {"ensure", "did open", "store"} => Inside(c, Depth(c)) \in Insides
    <3> SUFFICES ASSUME pc[c] \in {"ensure", "did open", "store"} PROVE Inside(c, Depth(c)) \in Insides
      OBVIOUS
    <3>1. Doing(c) \in {"ask", "edit"}
      BY <2>4, Mine DEF Placed
    <3> QED BY <3>1 DEF Inside, Insides, Lazy
  <2>6. CASE EnsureOpen(c) \/ DidOpen(c)
    <3>1. job[c].next \in Insides \cup {"store"}
      BY <2>4, <2>5, <2>6 DEF Placed, EnsureOpen, DidOpen, Insides
    <3> QED BY <2>6, <3>1 DEF EnsureOpen, DidOpen, Goto, Steps, Insides
  <2>7. CASE Store(c)
    BY <2>5, <2>7 DEF Store, Goto, Steps, Insides
  <2> QED BY <1>2, <2>1, <2>2, <2>2a, <2>3, <2>6, <2>7 DEF Step
<1> QED BY <1>1, <1>2 DEF Next

Editing(c) == pc[c] \in {"delete", "did delete", "insert", "did insert"}

\* What a call writes, and where.
LEMMA EditType ==
  ASSUME Types, Local, NEW c \in Threads, Editing(c)
  PROVE  /\ NewLine(c) \in Int /\ Place(c) \in Nat /\ Place(c) >= 1
         /\ File(c) \in Files /\ Depth(c) # 0
<1>1. Placed(c) /\ Planned(c)
  BY DEF Local
<1>2. /\ job[c].plan # <<>> /\ Doing(c) = "edit" /\ File(c) \in Files /\ Depth(c) # 0
      /\ 1 \in 1 .. Len(job[c].plan) /\ Phase(c) = job[c].plan[1]
  BY <1>1, Mine, DepthBound DEF Placed, Twice, Editing
<1>3. job[c].at[File(c)] >= 1
  <2>1. \A i \in 1 .. Len(job[c].plan) : job[c].plan[i][1] = "edit" => job[c].at[job[c].plan[i][2]] >= 1
    BY <1>1, <1>2 DEF Planned
  <2>2. job[c].plan[1][1] = "edit" /\ job[c].plan[1][2] = File(c)
    BY <1>2 DEF Doing, File
  <2> QED BY <1>2, <2>1, <2>2
<1>4. job[c].at[File(c)] \in Nat /\ job[c].n \in Nat
  BY <1>2, Mine DEF JobType
<1>5. Place(c) \in Nat /\ Place(c) >= 1
  <2> DEFINE at == job[c].at[File(c)]
  <2>1. Place(c) = at + (IF job[c].op = "after" THEN 1 ELSE 0)
    BY DEF Place
  <2>2. at \in Nat /\ at >= 1
    BY <1>3, <1>4
  <2> HIDE DEF at
  <2>3. CASE job[c].op = "after"
    <3>1. Place(c) = at + 1
      BY <2>1, <2>3
    <3> QED BY <2>2, <3>1
  <2>4. CASE job[c].op # "after"
    <3>1. Place(c) = at + 0
      BY <2>1, <2>4
    <3> QED BY <2>2, <3>1
  <2> QED BY <2>3, <2>4
<1>6. NewLine(c) \in Int
  <2>1. NewLine(c) = -10 - job[c].n \/ NewLine(c) = job[c].n
    BY DEF NewLine, Inserted
  <2>2. job[c].n \in Nat
    BY <1>4
  <2> QED BY <2>1, <2>2
<1> QED BY <1>2, <1>5, <1>6

\* Another text, and the same file.
LEMMA WrittenType ==
  ASSUME Types, NEW f \in Files, NEW text, Written(f, text)
  PROVE  (text \in Text => disk' \in [Files -> Text]) /\ buffers' \in [BufferIds -> BufferType]
<1>1. text \in Text => disk' \in [Files -> Text]
  BY DEF Written, Types, TypeOK, Text
<1>2. PICK later \in BOOLEAN :
        buffers' = [b \in BufferIds |-> IF buffers[b].file = f /\ later
                                          THEN [buffers[b] EXCEPT !.newer = TRUE] ELSE buffers[b]]
  BY DEF Written
<1>3. \A b \in BufferIds : buffers[b] \in BufferType /\ [buffers[b] EXCEPT !.newer = TRUE] \in BufferType
  <2> SUFFICES ASSUME NEW b \in BufferIds
               PROVE  buffers[b] \in BufferType /\ [buffers[b] EXCEPT !.newer = TRUE] \in BufferType
    OBVIOUS
  <2>1. buffers[b] \in BufferType
    BY FreshKeeps
  <2> QED BY <2>1 DEF BufferType
<1> QED BY <1>1, <1>2, <1>3

LEMMA DiskStep ==
  ASSUME Types, Local, Next
  PROVE  disk' \in [Files -> Text]
<1>1. disk \in [Files -> Text]
  BY DEF Types, TypeOK, Text
<1>2. CASE disk' = disk
  BY <1>1, <1>2
<1>3. ASSUME NEW f \in Files, Outside(f) PROVE disk' \in [Files -> Text]
  <2>1. <<Foreign>> \o disk[f] \in Text /\ <<Line, 0>> \in Text /\ <<>> \in Text
    BY <1>1 DEF Foreign, Line, Text
  <2>2. CASE WriteOutside(f) \/ RestoreOutside(f)
    BY <2>1, <2>2, WrittenType DEF WriteOutside, RestoreOutside
  <2>3. CASE RemoveOutside(f)
    BY <1>1, <2>1, <2>3 DEF RemoveOutside
  <2> QED BY <1>3, <2>2, <2>3 DEF Outside
<1>4. ASSUME NEW c \in Threads, Step(c) PROVE disk' \in [Files -> Text]
  <2>1. CASE Truncate(c)
    <3>1. File(c) \in Files /\ <<>> \in Text
      BY <2>1, DepthBound DEF Truncate, Text
    <3> QED BY <2>1, <3>1, WrittenType DEF Truncate
  <2>2. CASE Put(c)
    <3> DEFINE f == File(c)
               out == job[c].out
    <3>1. f \in Files /\ out \in Text
      BY <2>2, DepthBound, Mine DEF Put, JobType
    <3>2. disk[f] \in Text
      BY <1>1, <3>1
    <3>3. out \o SubSeq(disk[f], Len(out) + 1, Len(disk[f])) \in Text
      <4>1. Len(out) + 1 \in Nat /\ Len(out) + 1 >= 1
        BY <3>1 DEF Text
      <4>2. SubSeq(disk[f], Len(out) + 1, Len(disk[f])) \in Text
        BY <3>2, <4>1 DEF Text
      <4> QED BY <3>1, <4>2 DEF Text
    <3>4. Written(f, out \o SubSeq(disk[f], Len(out) + 1, Len(disk[f])))
      BY <2>2 DEF Put
    <3> HIDE DEF f, out
    <3> QED BY <3>1, <3>3, <3>4, WrittenType
  <2> QED BY <1>2, <1>4, <2>1, <2>2
       DEF Step, Begin, Return, Open, EnsureOpen, DidOpen, Store, Drop, Close, Del, LookInCache, Ask,
           Validate, Delete, Insert, DidChange, Save, Stamp, OpenFails, ReadFails
<1> QED BY <1>3, <1>4 DEF Next

LEMMA MissingStep == ASSUME Types, Local, Next PROVE missing' \subseteq Files
<1>1. missing \subseteq Files
  BY DEF Types, TypeOK
<1>2. CASE \E f \in Files : Outside(f)
  BY <1>1, <1>2 DEF Outside, WriteOutside, RemoveOutside, RestoreOutside
<1>3. ASSUME NEW c \in Threads, Step(c) PROVE missing' \subseteq missing
  BY <1>3 DEF Step, Begin, Return, Open, EnsureOpen, OpenFails, ReadFails, DidOpen, Store, Drop, Close,
       Del, LookInCache, Ask, Validate, Delete, Insert, DidChange, Save, Truncate, Put, Stamp
<1> QED BY <1>1, <1>2, <1>3 DEF Next

\* A buffer whose count may be any; Counted says how far it goes.
AnyCount == [file : Files \cup {"none"}, read : BOOLEAN, text : Text, newer : BOOLEAN, refs : Int,
             opened : BOOLEAN, version : Nat, lost : Nat]

LEMMA AnyCountOf ==
  ASSUME Types, NEW b \in BufferIds
  PROVE  buffers[b] \in AnyCount /\ (buffers[b].file \in Files => Fresh(b) \in AnyCount)
<1>1. Cardinality(Threads) \in Nat
  BY ThreadsAssumption, FS_CardinalityType
<1>2. buffers[b] \in BufferType
  BY FreshKeeps
<1>3. buffers[b] \in AnyCount
  BY <1>1, <1>2 DEF BufferType, AnyCount, Text
<1>4. ASSUME buffers[b].file \in Files PROVE Fresh(b) \in AnyCount
  <2>1. disk[buffers[b].file] \in Text
    BY <1>4 DEF Types, TypeOK, Text
  <2> QED BY <1>3, <2>1 DEF Fresh, AnyCount
<1> QED BY <1>3, <1>4

\* Buffer b becomes r.
LEMMA BufferPut ==
  ASSUME Types, NEW b, NEW r \in AnyCount, buffers' = [buffers EXCEPT ![b] = r]
  PROVE  buffers' \in [BufferIds -> AnyCount]
<1>1. \A a \in BufferIds : buffers[a] \in AnyCount
  BY AnyCountOf
<1>2. buffers = [a \in BufferIds |-> buffers[a]]
  BY DEF Types, TypeOK
<1>3. buffers \in [BufferIds -> AnyCount]
  BY <1>1, <1>2
<1> QED BY <1>3

\* A new buffer, and a text that is changed.
LEMMA NewCount ==
  ASSUME NEW f \in Files
  PROVE  [NoBuffer EXCEPT !.file = f, !.refs = 1] \in AnyCount
<1>1. NoBuffer \in AnyCount
  BY DEF NoBuffer, AnyCount, Text
<1>2. ASSUME NEW r \in AnyCount, NEW n \in Int PROVE [r EXCEPT !.file = f, !.refs = n] \in AnyCount
  <2>1. f \in Files \cup {"none"}
    OBVIOUS
  <2> QED BY <2>1 DEF AnyCount
<1>3. 1 \in Int
  OBVIOUS
<1> QED BY <1>1, <1>2, <1>3, Zenon

LEMMA ChangedCount ==
  ASSUME NEW r \in AnyCount, NEW t \in Text
  PROVE  /\ [r EXCEPT !.version = @ + 1] \in AnyCount
         /\ [r EXCEPT !.version = @ + 1, !.text = t] \in AnyCount
<1>1. r.version + 1 \in Nat
  BY DEF AnyCount
<1>2. ASSUME NEW n \in Nat PROVE [r EXCEPT !.version = n] \in AnyCount
  BY DEF AnyCount
<1>3. ASSUME NEW n \in Nat PROVE [r EXCEPT !.version = n, !.text = t] \in AnyCount
  BY DEF AnyCount
<1> QED BY <1>1, <1>2, <1>3, Zenon

LEMMA BuffersStep ==
  ASSUME Types, Local, Table, NEW c \in Threads, Step(c)
  PROVE  buffers' \in [BufferIds -> AnyCount]
<1>1. CASE UNCHANGED buffers
  <2>1. \A a \in BufferIds : buffers[a] \in AnyCount
    BY AnyCountOf
  <2>2. buffers = [a \in BufferIds |-> buffers[a]]
    BY DEF Types, TypeOK
  <2> QED BY <1>1, <2>1, <2>2
<1>2. CASE Open(c)
  <2>1. pc[c] = "open" /\ File(c) \in Files
    BY <1>2, Mine DEF Open, Local, Placed
  <2> DEFINE b == open_file_buffers[File(c)]
             new == CHOOSE g \in Garbage : TRUE
  <2>2. b \in BufferIds \cup {0}
    BY <2>1 DEF Types, TypeOK
  <2>3. \/ UNCHANGED buffers
        \/ buffers' = [buffers EXCEPT ![new] = [NoBuffer EXCEPT !.file = File(c), !.refs = 1]]
        \/ b # 0 /\ buffers' = [buffers EXCEPT ![b].refs = @ + 1]
    BY <1>2 DEF Open
  <2> HIDE DEF b, new
  <2>4. [NoBuffer EXCEPT !.file = File(c), !.refs = 1] \in AnyCount
    BY <2>1, NewCount
  <2>5. b # 0 => [buffers[b] EXCEPT !.refs = @ + 1] \in AnyCount
    <3> SUFFICES ASSUME b # 0 PROVE [buffers[b] EXCEPT !.refs = @ + 1] \in AnyCount
      OBVIOUS
    <3>1. buffers[b] \in AnyCount
      BY <2>2, AnyCountOf
    <3> QED BY <3>1 DEF AnyCount
  <2> QED BY <1>1, <2>3, <2>4, <2>5, BufferPut
<1>3. CASE EnsureOpen(c) \/ LookInCache(c)
  <2>1. Depth(c) # 0
    BY <1>3, DepthBound DEF EnsureOpen, LookInCache
  <2>2. Fresh(Buffer(c)) \in AnyCount
    BY <2>1, HeldFile, AnyCountOf
  <2>3. [Fresh(Buffer(c)) EXCEPT !.opened = TRUE] \in AnyCount
    BY <2>2 DEF AnyCount
  <2>4. \/ UNCHANGED buffers
        \/ buffers' = [buffers EXCEPT ![Buffer(c)] = [Fresh(Buffer(c)) EXCEPT !.opened = TRUE]]
        \/ buffers' = [buffers EXCEPT ![Buffer(c)] = Fresh(Buffer(c))]
    BY <1>3 DEF EnsureOpen, LookInCache
  <2> QED BY <1>1, <2>2, <2>3, <2>4, BufferPut
<1>4. CASE Drop(c)
  <2>1. Depth(c) # 0
    BY <1>4, DepthBound DEF Drop
  <2>2. buffers[Buffer(c)] \in AnyCount
    BY <2>1, HeldFile, AnyCountOf
  <2>3. [buffers[Buffer(c)] EXCEPT !.refs = @ - 1] \in AnyCount
    BY <2>2 DEF AnyCount
  <2>4. buffers' = [buffers EXCEPT ![Buffer(c)] = [buffers[Buffer(c)] EXCEPT !.refs = @ - 1]]
    BY <1>4 DEF Drop
  <2> QED BY <2>3, <2>4, BufferPut
<1>4a. CASE OpenFails(c)
  <2>1. Depth(c) # 0
    BY <1>4a, DepthBound DEF OpenFails
  <2>2. buffers[Buffer(c)] \in AnyCount
    BY <2>1, HeldFile, AnyCountOf
  <2>3. NoBuffer \in AnyCount
    BY DEF NoBuffer, AnyCount, Text
  <2>4. Buffer(c) \in BufferIds
    BY <2>1, HeldFile
  <2>5. PICK r : /\ buffers' = [buffers EXCEPT ![Buffer(c)] = r]
                 /\ \/ \E n \in 0 .. 1 :
                         r = [buffers[Buffer(c)] EXCEPT !.opened = TRUE, !.lost = @ + n]
                    \/ r = NoBuffer
    BY <1>4a, <2>4, OpenFailsBuffers, Zenon
  <2>6. ASSUME NEW n \in 0 .. 1
        PROVE  [buffers[Buffer(c)] EXCEPT !.opened = TRUE, !.lost = @ + n] \in AnyCount
    <3>1a. n \in Nat
      OBVIOUS
    <3>1. n \in Nat /\ buffers[Buffer(c)] \in BufferType
      BY <2>4, <3>1a, FreshKeeps
    <3>2. BufferType \subseteq AnyCount
      BY DEF BufferType, AnyCount, Text
    <3>3. [buffers[Buffer(c)] EXCEPT !.opened = TRUE, !.lost = @ + n] \in BufferType
      BY <3>1, LostMore, Zenon
    <3> QED BY <3>2, <3>3, Zenon
  <2> QED BY <2>3, <2>5, <2>6, BufferPut
<1>4b. CASE ReadFails(c)
  <2>1. File(c) \in Files
    BY <1>4b, DepthBound DEF ReadFails
  <2> DEFINE b == open_file_buffers[File(c)]
  <2>2. b \in BufferIds \cup {0}
    BY <2>1 DEF Types, TypeOK
  <2>3. \/ UNCHANGED buffers
        \/ b # 0 /\ buffers' = [buffers EXCEPT ![b] = [buffers[b] EXCEPT !.version = @ + 1]]
    BY <1>4b DEF ReadFails, NextVersion
  <2> HIDE DEF b
  <2>4. b \in BufferIds => [buffers[b] EXCEPT !.version = @ + 1] \in AnyCount
    <3> SUFFICES ASSUME b \in BufferIds PROVE [buffers[b] EXCEPT !.version = @ + 1] \in AnyCount
      OBVIOUS
    <3>1. buffers[b] \in AnyCount /\ <<>> \in Text
      BY AnyCountOf DEF Text
    <3> QED BY <3>1, ChangedCount, Zenon
  <2> QED BY <1>1, <2>2, <2>3, <2>4, BufferPut
<1>5. CASE Del(c)
  <2>1. NoBuffer \in AnyCount
    BY DEF NoBuffer, AnyCount, Text
  <2>2. UNCHANGED buffers \/ buffers' = [buffers EXCEPT ![Buffer(c)] = NoBuffer]
    BY <1>5 DEF Del
  <2> QED BY <1>1, <2>1, <2>2, BufferPut
<1>6. CASE Delete(c) \/ Insert(c)
  <2>1. pc[c] \in {"delete", "insert"}
    BY <1>6 DEF Delete, Insert
  <2>2. NewLine(c) \in Int /\ Place(c) \in Nat /\ Place(c) >= 1 /\ File(c) \in Files
    BY <2>1, EditType DEF Editing
  <2> DEFINE b == open_file_buffers[File(c)]
  <2>3. \/ UNCHANGED buffers
        \/ b \in BufferIds /\ buffers' = [buffers EXCEPT ![b] = [Fresh(b) EXCEPT !.version = @ + 1]]
        \/ /\ b \in BufferIds
           /\ buffers' = [buffers EXCEPT ![b] =
                            [Fresh(b) EXCEPT !.version = @ + 1, !.text = Changed(c, @)]]
           /\ Place(c) <= Len(Fresh(b).text) + IF pc[c] = "delete" THEN 0 ELSE 1
    BY <1>6, <2>2, ChangeCases DEF Delete, Insert
  <2>4. b \in BufferIds => buffers[b].file \in Files
    BY <2>2, NotZero DEF Table, Registered
  <2> HIDE DEF b
  <2>5. b \in BufferIds => Fresh(b) \in AnyCount
    BY <2>4, AnyCountOf
  <2>6. b \in BufferIds => [Fresh(b) EXCEPT !.version = @ + 1] \in AnyCount
    BY <2>5 DEF AnyCount
  <2>7. ASSUME b \in BufferIds, Place(c) <= Len(Fresh(b).text) + IF pc[c] = "delete" THEN 0 ELSE 1
        PROVE  [Fresh(b) EXCEPT !.version = @ + 1, !.text = Changed(c, @)] \in AnyCount
    <3>1. Fresh(b).text \in Text
      BY <2>5, <2>7 DEF AnyCount
    <3>4. ASSUME Changed(c, Fresh(b).text) \in Text
          PROVE  [Fresh(b) EXCEPT !.version = @ + 1, !.text = Changed(c, @)] \in AnyCount
      <4>1. PICK text : text = Changed(c, Fresh(b).text)
        OBVIOUS
      <4>2. [Fresh(b) EXCEPT !.version = @ + 1, !.text = Changed(c, @)]
              = [Fresh(b) EXCEPT !.version = @ + 1, !.text = text]
        BY <2>5, <2>7, <4>1 DEF AnyCount
      <4>3. Fresh(b) \in AnyCount /\ text \in Text
        BY <2>5, <2>7, <3>4, <4>1
      <4>4. [Fresh(b) EXCEPT !.version = @ + 1, !.text = text] \in AnyCount
        BY <4>3, ChangedCount
      <4> QED BY <4>2, <4>4
    <3>2. CASE pc[c] = "delete"
      <4>1. Changed(c, Fresh(b).text) = ReplaceAt(Fresh(b).text, Place(c), Empty) /\ Empty \in Int
        BY <3>2 DEF Changed, Empty
      <4>2. Place(c) <= Len(Fresh(b).text) + 0
        BY <2>7, <3>2
      <4>3. Place(c) <= Len(Fresh(b).text)
        BY <2>2, <3>1, <4>2 DEF Text
      <4>4. Changed(c, Fresh(b).text) \in Text
        BY <2>2, <3>1, <4>1, <4>3, ReplaceAtType
      <4> QED BY <3>4, <4>4
    <3>3. CASE pc[c] # "delete"
      <4>1. pc[c] = "insert" /\ Place(c) <= Len(Fresh(b).text) + 1
        BY <2>1, <2>7, <3>3
      <4>2. CASE Replaces(c) /\ Place(c) <= Len(Fresh(b).text)
        <5>1. Changed(c, Fresh(b).text)
                = ReplaceAt(Fresh(b).text, Place(c), Filled(c, Fresh(b).text[Place(c)]))
          BY <4>1, <4>2 DEF Changed
        <5>2. Filled(c, Fresh(b).text[Place(c)]) \in Int
          BY <2>2 DEF Filled, Joined
        <5>3. Changed(c, Fresh(b).text) \in Text
          BY <2>2, <3>1, <4>2, <5>1, <5>2, ReplaceAtType
        <5> QED BY <3>4, <5>3
      <4>3. CASE ~(Replaces(c) /\ Place(c) <= Len(Fresh(b).text))
        <5>1. Changed(c, Fresh(b).text) = InsertAt(Fresh(b).text, Place(c), NewLine(c))
          BY <4>1, <4>3 DEF Changed
        <5>2. Changed(c, Fresh(b).text) \in Text
          BY <2>2, <3>1, <4>1, <5>1, InsertAtType
        <5> QED BY <3>4, <5>2
      <4> QED BY <4>2, <4>3
    <3> QED BY <3>2, <3>3
  <2> QED BY <1>1, <2>3, <2>6, <2>7, BufferPut
<1>7. CASE Save(c)
  <2>1. File(c) \in Files
    BY <1>7, DepthBound DEF Save
  <2> DEFINE b == open_file_buffers[File(c)]
  <2>2. b \in BufferIds \cup {0}
    BY <2>1 DEF Types, TypeOK
  <2>3. UNCHANGED buffers \/ (b # 0 /\ buffers' = [buffers EXCEPT ![b] = Fresh(b)])
    BY <1>7 DEF Save
  <2>4. b # 0 => buffers[b].file \in Files
    BY <2>1 DEF Table, Registered
  <2> HIDE DEF b
  <2> QED BY <1>1, <2>2, <2>3, <2>4, AnyCountOf, BufferPut
<1>8. CASE Stamp(c)
  <2>1. job[c].fb \in BufferIds
    BY <1>8, Mine DEF Stamp, Local, Placed, JobType
  <2>2. [buffers[job[c].fb] EXCEPT !.newer = FALSE] \in AnyCount
    BY <2>1, AnyCountOf DEF AnyCount
  <2>3. buffers' = [buffers EXCEPT ![job[c].fb] = [buffers[job[c].fb] EXCEPT !.newer = FALSE]]
    BY <1>8 DEF Stamp
  <2> QED BY <2>2, <2>3, BufferPut
<1>9. CASE Truncate(c) \/ Put(c)
  <2>1. File(c) \in Files
    BY <1>9, DepthBound DEF Truncate, Put
  <2>2. buffers' \in [BufferIds -> BufferType]
    BY <1>9, <2>1, WrittenType DEF Truncate, Put
  <2>3. Cardinality(Threads) \in Nat
    BY ThreadsAssumption, FS_CardinalityType
  <2>4. BufferType \subseteq AnyCount
    BY <2>3 DEF BufferType, AnyCount, Text
  <2> QED BY <2>2, <2>4
<1> QED BY <1>1, <1>2, <1>3, <1>4, <1>4a, <1>4b, <1>5, <1>6, <1>7, <1>8, <1>9
        DEF Step, Begin, Return, DidOpen, Store, Close, Ask, Validate, DidChange

LEMMA ServerStep ==
  ASSUME Types, Local, NEW c \in Threads, Step(c)
  PROVE  server' \in [Files -> [open : BOOLEAN, text : Text, version : Nat, broken : BOOLEAN]]
<1> DEFINE Document == [open : BOOLEAN, text : Text, version : Nat, broken : BOOLEAN]
<1>1. server \in [Files -> Document]
  BY DEF Types, TypeOK, Text
<1> SUFFICES server' \in [Files -> Document]
  OBVIOUS
<1>2. \A f \in Files : /\ server[f].open \in BOOLEAN /\ server[f].broken \in BOOLEAN
                       /\ server[f].text \in Text /\ server[f].version \in Nat
  BY <1>1
<1>3. CASE UNCHANGED server
  BY <1>1, <1>3
<1>4. CASE Return(c)
  <2>1. \A f \in Files : [server[f] EXCEPT !.broken = FALSE] \in Document
    BY <1>1
  <2> HIDE DEF Document
  <2> QED BY <1>1, <1>4, <2>1 DEF Return
<1>5. CASE DidOpen(c)
  <2>1. File(c) \in Files /\ job[c].note \in Text
    BY <1>5, DepthBound, Mine DEF DidOpen, JobType
  <2> DEFINE r == [open |-> TRUE, text |-> job[c].note, version |-> 0,
                   broken |-> server[File(c)].broken \/ server[File(c)].open]
  <2>2. server' = [server EXCEPT ![File(c)] = r]
    BY <1>5, <2>1, <1>1 DEF DidOpen
  <2>3. r \in Document
    BY <1>2, <2>1
  <2> HIDE DEF Document, r
  <2> QED BY <1>1, <2>2, <2>3
<1>6. CASE Close(c)
  <2>1. File(c) \in Files
    BY <1>6, DepthBound DEF Close
  <2> DEFINE r == [Unopened EXCEPT !.broken = server[File(c)].broken \/ ~server[File(c)].open]
  <2>2. UNCHANGED server \/ server' = [server EXCEPT ![File(c)] = r]
    BY <1>6 DEF Close
  <2>3. r \in Document
    <3>1. <<>> \in Text
      BY DEF Text
    <3>2. (server[File(c)].broken \/ ~server[File(c)].open) \in BOOLEAN
      OBVIOUS
    <3> QED BY <3>1, <3>2 DEF Unopened
  <2> HIDE DEF Document, r
  <2> QED BY <1>1, <2>2, <2>3
<1>7. CASE DidChange(c)
  <2>1. pc[c] \in {"did delete", "did insert"}
    BY <1>7 DEF DidChange
  <2>2. NewLine(c) \in Int /\ Place(c) \in Nat /\ Place(c) >= 1 /\ File(c) \in Files
    BY <2>1, EditType DEF Editing
  <2>3. job[c].note[1] \in Nat
    BY <2>1 DEF Local, Placed
  <2> DEFINE f == File(c)
             text == server[f].text
             r == [server[f] EXCEPT !.text = Mirror(c, text), !.version = job[c].note[1],
                     !.broken = server[f].broken \/ job[c].note[1] <= server[f].version]
             s == [server[f] EXCEPT !.broken = TRUE]
  <2>4. text \in Text /\ Len(text) \in Nat
    BY <1>2, <2>2 DEF Text
  <2>5. Mirror(c, text) \in Text
    <3> HIDE DEF text
    <3>1. Place(c) > Len(text) <=> ~(Place(c) <= Len(text))
      BY <2>2, <2>4
    <3>2. Empty \in Int /\ \A line : Filled(c, line) \in Int
      BY <2>2 DEF Empty, Filled, Joined
    <3>3. CASE pc[c] = "did delete"
      <4>1. Mirror(c, text) = IF Place(c) <= Len(text) THEN ReplaceAt(text, Place(c), Empty) ELSE text
        BY <3>3 DEF Mirror
      <4> QED BY <2>2, <2>4, <3>2, <4>1, ReplaceAtType
    <3>4. CASE pc[c] = "did insert"
      <4>1. CASE Place(c) <= Len(text)
        <5>1. Mirror(c, text) = IF Replaces(c) THEN ReplaceAt(text, Place(c), Filled(c, text[Place(c)]))
                                               ELSE InsertAt(text, Place(c), NewLine(c))
          BY <3>1, <3>4, <4>1 DEF Mirror
        <5>2. Place(c) <= Len(text) + 1
          BY <2>2, <2>4, <4>1
        <5>3. ReplaceAt(text, Place(c), Filled(c, text[Place(c)])) \in Text
          BY <2>2, <2>4, <3>2, <4>1, ReplaceAtType
        <5>4. InsertAt(text, Place(c), NewLine(c)) \in Text
          BY <2>2, <2>4, <5>2, InsertAtType
        <5> QED BY <5>1, <5>3, <5>4
      <4>2. CASE ~(Place(c) <= Len(text))
        <5>1. Mirror(c, text) = IF Len(text) = 0
                                  THEN <<NewLine(c)>>
                                  ELSE ReplaceAt(text, Len(text), Filled(c, text[Len(text)]))
          BY <3>1, <3>4, <4>2 DEF Mirror
        <5>2. <<NewLine(c)>> \in Text
          BY <2>2 DEF Text
        <5>3. Len(text) # 0 => ReplaceAt(text, Len(text), Filled(c, text[Len(text)])) \in Text
          BY <2>4, <3>2, ReplaceAtType
        <5> QED BY <5>1, <5>2, <5>3
      <4> QED BY <4>1, <4>2
    <3> QED BY <2>1, <3>3, <3>4
  <2>6. server' = [server EXCEPT ![f] = r] \/ server' = [server EXCEPT ![f] = s]
    <3>1. server' = [server EXCEPT ![f] = IF server[f].open THEN r ELSE s]
      BY <1>7, Zenon DEF DidChange
    <3> HIDE DEF r, s
    <3>2. CASE server[f].open
      <4>1. server' = [server EXCEPT ![f] = r]
        BY <3>1, <3>2
      <4> QED BY <4>1
    <3>3. CASE ~server[f].open
      <4>1. server' = [server EXCEPT ![f] = s]
        BY <3>1, <3>3
      <4> QED BY <4>1
    <3> QED BY <3>2, <3>3
  <2>7. server[f] \in Document
    BY <1>1, <2>2
  <2> HIDE DEF text
  <2>8. r \in Document
    <3>1. (server[f].broken \/ job[c].note[1] <= server[f].version) \in BOOLEAN
      OBVIOUS
    <3> HIDE DEF f
    <3> QED BY <2>3, <2>5, <2>7, <3>1
  <2>9. s \in Document
    BY <2>7
  <2> HIDE DEF Document, r, s, f
  <2> QED BY <1>1, <2>6, <2>8, <2>9
<1> QED BY <1>3, <1>4, <1>5, <1>6, <1>7
    DEF Step, Begin, Open, EnsureOpen, Store, Drop, Del, LookInCache, Ask, Validate, Delete, Insert,
        Save, Truncate, Put, Stamp, OpenFails, ReadFails

Kinds == {"window", "edit", "torn", "outside", "end", "apart", "unread"}

LEMMA StirredStep ==
  ASSUME Types, Local, Next
  PROVE  stirred' \in [Files -> SUBSET Kinds]
<1>1. stirred \in [Files -> SUBSET Kinds]
  BY DEF Types, TypeOK, Kinds
<1>2. CASE UNCHANGED stirred
  BY <1>1, <1>2
<1>3. ASSUME NEW f, NEW kinds \in SUBSET Kinds, stirred' = Stir(f, kinds)
      PROVE  stirred' \in [Files -> SUBSET Kinds]
  BY <1>1, <1>3 DEF Stir
<1>4. CASE \E f \in Files : Outside(f)
  BY <1>2, <1>3, <1>4 DEF Outside, WriteOutside, RemoveOutside, RestoreOutside, Interfere, Kinds
<1>5. ASSUME NEW c \in Threads, Step(c) PROVE stirred' \in [Files -> SUBSET Kinds]
  <2>1. Truncated(c) \in SUBSET Kinds /\ OthersBetween(c) \in SUBSET Kinds
    BY DEF Truncated, OthersBetween, Kinds
  <2>2. CASE Begin(c)
    <3>1. PICK op \in Ops, f \in Files : stirred' = [g \in Files |->
            stirred[g] \cup
              IF op \in {"replace", "before", "after", "rename"} /\ (g = f \/ op = "rename")
                THEN Meets(g) ELSE {}]
      BY <2>2, Zenon DEF Begin
    <3>2. \A g \in Files : Meets(g) \in SUBSET Kinds
      BY DEF Meets, Kinds
    <3> QED BY <1>1, <3>1, <3>2
  <2>3. CASE Return(c)
    BY <1>1, <2>3 DEF Return
  <2>4. CASE Open(c) \/ EnsureOpen(c) \/ LookInCache(c) \/ Save(c)
    BY <1>2, <1>3, <2>1, <2>4 DEF Open, EnsureOpen, LookInCache, Save
  <2>5. CASE Delete(c) \/ Insert(c)
    <3>1. {"end"} \in SUBSET Kinds
      BY DEF Kinds
    <3> QED BY <1>2, <1>3, <2>1, <2>5, <3>1 DEF Delete, Insert, Change
  <2>6. CASE OpenFails(c)
    <3>1. PICK kinds \in {{}, {"unread"}} : stirred' = Stir(File(c), OthersBetween(c) \cup kinds)
      BY <2>6 DEF OpenFails
    <3>2. OthersBetween(c) \cup kinds \in SUBSET Kinds
      BY <2>1 DEF Kinds
    <3> QED BY <1>3, <3>1, <3>2
  <2> QED BY <1>2, <1>5, <2>2, <2>3, <2>4, <2>5, <2>6
      DEF Step, ReadFails, DidOpen, Store, Drop, Close, Del, Ask, Validate, DidChange, Truncate, Put, Stamp
<1> QED BY <1>4, <1>5 DEF Next

LEMMA EntriesStep ==
  ASSUME Types, Local, Next
  PROVE  /\ open_file_buffers' \in [Files -> BufferIds \cup {0}]
         /\ effort' \in 0 .. MaxEffort
<1>1. open_file_buffers \in [Files -> BufferIds \cup {0}] /\ effort \in 0 .. MaxEffort
  BY DEF Types, TypeOK
<1>2. CASE \E f \in Files : Outside(f)
  BY <1>1, <1>2, BoundAssumption DEF Outside, WriteOutside, RemoveOutside, RestoreOutside, Cost
<1>3. ASSUME NEW c \in Threads, Step(c)
      PROVE  /\ open_file_buffers' \in [Files -> BufferIds \cup {0}]
             /\ effort' \in 0 .. MaxEffort
  <2>1. CASE Begin(c)
    <3>1. PICK op : effort + Cost(op) <= MaxEffort /\ effort' = effort + Cost(op)
      BY <2>1 DEF Begin
    <3>2. Cost(op) \in 1 .. 3
      BY DEF Cost
    <3> QED BY <1>1, <2>1, <3>1, <3>2, BoundAssumption DEF Begin
  <2>2. CASE Store(c)
    <3>1. Buffer(c) \in BufferIds
      BY <2>2, DepthBound DEF Store
    <3> QED BY <1>1, <2>2, <3>1 DEF Store
  <2>3. CASE Del(c)
    BY <1>1, <2>3 DEF Del
  <2> QED BY <1>1, <1>3, <2>1, <2>2, <2>3
      DEF Step, Return, Open, EnsureOpen, DidOpen, Drop, Close, LookInCache, Ask, Validate, Delete,
          Insert, DidChange, Save, Truncate, Put, Stamp, OpenFails, ReadFails
<1> QED BY <1>2, <1>3 DEF Next

LEMMA TypesStep ==
  ASSUME Types, Local, Table, Next
  PROVE  Types'
<1>1. Counted'
  BY TableStep DEF Table
<1>2. buffers' \in [BufferIds -> AnyCount]
  <2>1. ASSUME NEW f \in Files, Outside(f) PROVE buffers' \in [BufferIds -> AnyCount]
    <3>1. buffers' \in [BufferIds -> BufferType]
      <4>1. CASE WriteOutside(f) \/ RestoreOutside(f)
        BY <4>1, WrittenType DEF WriteOutside, RestoreOutside
      <4>2. CASE RemoveOutside(f)
        BY <4>2 DEF RemoveOutside, Types, TypeOK, BufferType
      <4> QED BY <2>1, <4>1, <4>2 DEF Outside
    <3>2. Cardinality(Threads) \in Nat
      BY ThreadsAssumption, FS_CardinalityType
    <3>3. BufferType \subseteq AnyCount
      BY <3>2 DEF BufferType, AnyCount, Text
    <3> QED BY <3>1, <3>3
  <2> QED BY <2>1, BuffersStep DEF Next
<1>3. ASSUME NEW b \in BufferIds PROVE buffers'[b] \in BufferType
  <2>1. buffers'[b].refs = Users(b)' + buffers'[b].lost
    BY <1>1 DEF Counted, BufferIds
  <2>2. (Users(b) \in 0 .. 2 * Cardinality(Threads))'
    BY HoldersFinite, PTL
  <2>4. buffers'[b] \in AnyCount
    BY <1>2
  <2>5. Users(b)' \in Nat /\ buffers'[b].lost \in Nat
    BY <2>2, <2>4 DEF AnyCount
  <2>3. buffers'[b].refs \in Nat
    BY <2>1, <2>5
  <2> QED BY <2>3, <2>4 DEF AnyCount, BufferType, Text
<1>4. buffers' \in [BufferIds -> BufferType]
  BY <1>2, <1>3
<1>5. server' \in [Files -> [open : BOOLEAN, text : Text, version : Nat, broken : BOOLEAN]]
  <2>1. CASE \E f \in Files : Outside(f)
    BY <2>1 DEF Outside, WriteOutside, RemoveOutside, RestoreOutside, Types, TypeOK, Text
  <2> QED BY <2>1, ServerStep DEF Next
<1>6. disk' \in [Files -> Text]
  BY DiskStep
<1>7. TypeOK'
  BY <1>4, <1>5, <1>6, MissingStep, PcStep, StirredStep, EntriesStep DEF TypeOK, BufferType, Text, Kinds, BufferIds
<1> QED BY <1>7, LocalStep DEF Types, JobType, BufferIds

\* A call that holds a buffer is under way on its file.
LEMMA InFlightOf ==
  ASSUME Types, Local, NEW c \in Threads, Depth(c) # 0
  PROVE  c \in InFlight(File(c))
<1>1. pc[c] # "idle" /\ job[c].plan # <<>>
  BY DepthBound
<1>2. job[c].op # "rename" => File(c) = job[c].file
  <2>1. 1 \in 1 .. Len(job[c].plan) /\ Phase(c) = job[c].plan[1]
    BY <1>1, Mine
  <2>2. job[c].op # "rename" => job[c].plan[1][2] = job[c].file
    BY <2>1 DEF Local, Planned
  <2> QED BY <2>1, <2>2 DEF File
<1>3. File(c) \in Files
  BY DepthBound
<1> QED BY <1>1, <1>2, <1>3 DEF InFlight, Touches

-----------------------------------------------------------------------------
(* The invariant, and what follows from it.                                  *)

SessionsInv == Types /\ Local /\ Table

LEMMA SessionsInit == Init => SessionsInv
<1> SUFFICES ASSUME Init PROVE SessionsInv
  OBVIOUS
<1>1. Cardinality(Threads) \in Nat
  BY ThreadsAssumption, FS_CardinalityType
<1>2. NoJob \in JobType
  BY DEF NoJob, JobType, Text, Insides, Failures
<1>3. <<Line, 0>> \in Text /\ <<>> \in Text
  BY DEF Line, Text
<1>4. Types
  <2>1. NoBuffer \in BufferType
    BY <1>1, <1>3 DEF NoBuffer, BufferType, Text
  <2>2. Unopened \in [open : BOOLEAN, text : Text, version : Nat, broken : BOOLEAN]
    BY <1>3 DEF Unopened
  <2>3. disk \in [Files -> Text] /\ buffers \in [BufferIds -> BufferType]
    BY <1>3, <2>1 DEF Init
  <2>4. /\ server \in [Files -> [open : BOOLEAN, text : Text, version : Nat, broken : BOOLEAN]]
        /\ job \in [Threads -> JobType]
    BY <1>2, <2>2 DEF Init
  <2>5. /\ open_file_buffers \in [Files -> BufferIds \cup {0}] /\ pc \in [Threads -> Steps]
        /\ stirred \in [Files -> SUBSET {"window", "edit", "torn", "outside", "end", "apart", "unread"}]
        /\ missing \subseteq Files /\ effort \in 0 .. MaxEffort
    BY BoundAssumption DEF Init, Steps
  <2> QED BY <2>3, <2>4, <2>5 DEF Types, TypeOK, BufferType, Text
<1>5. \A c \in Threads : pc[c] = "idle" /\ job[c] = NoJob /\ Depth(c) = 0
  BY DEF Init, NoJob, Depth
<1>6. Local
  <2> SUFFICES ASSUME NEW c \in Threads PROVE Placed(c) /\ Planned(c)
    BY DEF Local
  <2>1. pc[c] = "idle" /\ job[c] = NoJob
    BY <1>5
  <2>2. Placed(c)
    BY <2>1 DEF Placed, NoJob
  <2>3. Planned(c)
    BY <2>1 DEF Planned, NoJob, Edits
  <2> QED BY <2>2, <2>3
<1>7. Counted /\ Lossy
  <2> SUFFICES ASSUME NEW b \in BufferIds
               PROVE  buffers[b].refs = Users(b) + buffers[b].lost /\ ~(buffers[b].lost > 0)
    BY DEF Counted, Lossy
  <2>1. Holders(b) = {}
    BY <1>5 DEF Holders, Holds
  <2>2. Users(b) = 0
    BY <2>1, HoldersFinite, FS_EmptySet
  <2> QED BY <2>2 DEF Init, NoBuffer
<1>8. HeldTyped /\ Closing /\ Closed /\ Opening
  <2>1. \A c \in Threads : \A i \in 1 .. Depth(c) : FALSE
    BY <1>5
  <2>2. HeldTyped /\ Closing
    BY <2>1 DEF HeldTyped, Closing
  <2>3. Opening /\ Closed
    BY <1>5 DEF Opening, Closed
  <2> QED BY <2>2, <2>3
<1>9. Registered /\ ServerHeld
  BY DEF Registered, ServerHeld, Init, Unopened
<1> QED BY <1>4, <1>6, <1>7, <1>8, <1>9 DEF SessionsInv, Table

\* Whatever overlaps and whatever fails, every buffer counts the with-blocks that use it,
\* and besides them only the openings that raised after they were counted.
THEOREM TableKept == Spec => []SessionsInv
<1>1. SessionsInv /\ [Next]_vars => SessionsInv'
  <2> SUFFICES ASSUME SessionsInv, [Next]_vars PROVE SessionsInv'
    OBVIOUS
  <2>1. CASE Next
    BY <2>1, TypesStep, LocalStep, TableStep DEF SessionsInv
  <2>2. CASE UNCHANGED vars
    <3>1. UNCHANGED <<disk, missing, buffers, open_file_buffers, server, pc, job, stirred, effort>>
      BY <2>2 DEF vars
    <3>2. Types'
      BY <3>1 DEF SessionsInv, Types, TypeOK, JobType, BufferIds
    <3>3. \A d \in Threads : Depth(d)' = Depth(d) /\ File(d)' = File(d) /\ Buffer(d)' = Buffer(d)
      BY <3>1 DEF Depth, File, Phase, Buffer
    <3>4. Local'
      <4>1. \A d \in Threads : Own(d)
        BY Mine DEF Own, SessionsInv, Local
      <4>2. \A d \in Threads : Own(d)'
        BY <3>1, <4>1, OthersOwn
      <4> QED BY <4>2 DEF Own, Local
    <3>5. SameHolds /\ SameBuffers /\ HeldEntries /\ HeldDocuments
          /\ \A d \in Threads : pc'[d] = "del" => pc[d] = "del"
      BY <3>1, <3>3 DEF SameHolds, SameBuffers, HeldEntries, HeldDocuments
    <3>6. HeldTyped' /\ Counted' /\ Lossy' /\ Closing' /\ Closed' /\ Registered' /\ ServerHeld'
      BY <3>5, QuietTable, QuietServer DEF SessionsInv, Table
    <3>7. Opening'
      BY <3>1, <3>3 DEF SessionsInv, Table, Opening, Intact
    <3> QED BY <3>2, <3>4, <3>6, <3>7 DEF SessionsInv, Table
  <2> QED BY <2>1, <2>2
<1> QED BY <1>1, SessionsInit, PTL DEF Spec

\* Every variable keeps its type, and no count of users falls below zero.
THEOREM TypesHold == Spec => []TypeOK
<1>1. SessionsInv => TypeOK
  BY DEF SessionsInv, Types
<1> QED BY <1>1, TableKept, PTL

\* When no call works on a file, the document is closed, however the calls before overlapped
\* and failed, and its buffer is gone, unless an opening that could not read the file has
\* left it a user too many: what else is registered or open is held by a call.
THEOREM LeftClosed == Spec => []NothingLeftOpen
<1>1. SessionsInv => NothingLeftOpen
  <2> SUFFICES ASSUME SessionsInv, NEW f \in Files, InFlight(f) = {}
               PROVE  /\ ~server[f].open
                      /\ open_file_buffers[f] # 0 => buffers[open_file_buffers[f]].lost > 0
    BY DEF NothingLeftOpen
  <2>1. ASSUME NEW c \in Threads, Depth(c) # 0, File(c) = f PROVE FALSE
    BY <2>1, InFlightOf DEF SessionsInv
  <2>2. ASSUME open_file_buffers[f] # 0, ~(buffers[open_file_buffers[f]].lost > 0) PROVE FALSE
    <3>1. PICK c \in Threads : \E i \in 1 .. Depth(c) : job[c].held[i] = open_file_buffers[f]
      BY <2>2 DEF SessionsInv, Table, Registered
    <3>2. Depth(c) # 0 /\ File(c) = f
      BY <2>2, <3>1, DepthBound DEF SessionsInv, Table, Registered, HeldTyped
    <3> QED BY <2>1, <3>2
  <2>3. ASSUME server[f].open PROVE FALSE
    <3>1. PICK c \in Threads : File(c) = f /\ \E i \in 1 .. Depth(c) : TRUE
      BY <2>3 DEF SessionsInv, Table, ServerHeld
    <3>2. Depth(c) # 0
      BY <3>1, DepthBound DEF SessionsInv
    <3> QED BY <2>1, <3>1, <3>2
  <2> QED BY <2>2, <2>3
<1> QED BY <1>1, TableKept, PTL

-----------------------------------------------------------------------------
(* Nobody in the gaps.                                                       *)

\* An interference is remembered as long as a call is under way on the file.
LEMMA KindStays ==
  ASSUME Types, Next, NEW f \in Files, NEW kind, kind \in stirred[f], kind \notin stirred'[f]
  PROVE  \E c \in Threads : Return(c) /\ InFlight(f) \subseteq {c}
<1>1. \A g : \A kinds : stirred' = Stir(g, kinds) => kind \in stirred'[f]
  BY DEF Stir, Types, TypeOK
<1>2. ASSUME NEW g \in Files, Outside(g) PROVE FALSE
  BY <1>1, <1>2 DEF Outside, WriteOutside, RemoveOutside, RestoreOutside, Interfere
<1>3. PICK c \in Threads : Step(c)
  BY <1>2 DEF Next
<1>4. Return(c)
  <2>1. ~ Begin(c)
    <3> SUFFICES ASSUME Begin(c) PROVE FALSE
      OBVIOUS
    <3>1. PICK op \in Ops, h \in Files : stirred' = [g \in Files |->
            stirred[g] \cup
              IF op \in {"replace", "before", "after", "rename"} /\ (g = h \/ op = "rename")
                THEN Meets(g) ELSE {}]
      BY Zenon DEF Begin
    <3> DEFINE E == [g \in Files |->
              IF op \in {"replace", "before", "after", "rename"} /\ (g = h \/ op = "rename")
                THEN Meets(g) ELSE {}]
    <3>2. stirred' = [g \in Files |-> stirred[g] \cup E[g]]
      BY <3>1
    <3> HIDE DEF E
    <3> QED BY <3>2
  <2>2. ~ (Open(c) \/ EnsureOpen(c) \/ OpenFails(c) \/ LookInCache(c) \/ Save(c))
    BY <1>1 DEF Open, EnsureOpen, OpenFails, LookInCache, Save
  <2>3. ~ (Delete(c) \/ Insert(c))
    BY <1>1 DEF Delete, Insert, Change
  <2> QED BY <1>3, <2>1, <2>2, <2>3
       DEF Step, ReadFails, DidOpen, Store, Drop, Close, Del, Ask, Validate, DidChange, Truncate, Put,
           Stamp
<1>5. InFlight(f) \subseteq {c}
  BY <1>4 DEF Return
<1> QED BY <1>4, <1>5

\* Then no call is under way on it.
LEMMA NobodyLeft ==
  ASSUME Types, NEW f \in Files, NEW c \in Threads, Return(c), InFlight(f) \subseteq {c}
  PROVE  InFlight(f)' = {}
<1>1. \A d \in Threads \ {c} : job'[d] = job[d] /\ pc'[d] = pc[d]
  BY OthersStay DEF Step
<1>2. pc'[c] = "idle"
  BY DEF Return, Goto, Types, TypeOK
<1> QED BY <1>1, <1>2 DEF InFlight, Touches

\* Whoever uses a file remembers the overlaps on it.
LEMMA WindowStays ==
  ASSUME Types, Local, Next, NEW f \in Files, "window" \in stirred[f], "window" \notin stirred'[f]
  PROVE  \A d \in Threads : Depth(d)' # 0 => File(d)' # f
<1>1. PICK c \in Threads : Return(c) /\ InFlight(f) \subseteq {c}
  BY KindStays
<1>2. Depth(c)' = 0 /\ Step(c)
  BY <1>1 DEF Return, SetJob, NoJob, Depth, Types, Step
<1> SUFFICES ASSUME NEW d \in Threads, Depth(d)' # 0, File(d)' = f PROVE FALSE
  OBVIOUS
<1>3. d # c /\ job'[d] = job[d]
  BY <1>2, OthersStay
<1>4. Depth(d) # 0 /\ File(d) = f
  BY <1>3 DEF Depth, File, Phase
<1> QED BY <1>1, <1>3, <1>4, InFlightOf

\* Steps that register and remove nothing, and enter no block.
LEMMA KeepsExclusive ==
  ASSUME Types, Local, NEW f \in Files, Exclusive(f), open_file_buffers'[f] = open_file_buffers[f],
         \A d \in Threads : Depth(d)' # 0 /\ File(d)' = f =>
           /\ Depth(d) # 0 /\ File(d) = f
           /\ \A i \in 1 .. Depth(d)' : i \in 1 .. Depth(d) /\ job'[d].held[i] = job[d].held[i]
           /\ Creating(d) /\ Depth(d) = 1 => Creating(d)' /\ Depth(d)' = Depth(d)
  PROVE  Exclusive(f)'
<1> SUFFICES ASSUME NEW c \in Threads, Depth(c)' # 0, File(c)' = f
             PROVE  \/ \A i \in 1 .. Depth(c)' : open_file_buffers'[f] = job'[c].held[i]
                    \/ /\ Creating(c)' /\ open_file_buffers'[f] = 0 /\ Depth(c)' = 1
                       /\ \A d \in Threads \ {c} : Depth(d)' # 0 => File(d)' # f
  BY DEF Exclusive
<1>1. CASE \A i \in 1 .. Depth(c) : open_file_buffers[f] = job[c].held[i]
  BY <1>1
<1>2. CASE /\ Creating(c) /\ open_file_buffers[f] = 0 /\ Depth(c) = 1
           /\ \A d \in Threads \ {c} : Depth(d) # 0 => File(d) # f
  BY <1>2
<1> QED BY <1>1, <1>2 DEF Exclusive

\* A buffer that is about to be registered goes on to be.
LEMMA CreatingGoesOn ==
  ASSUME Types, Local, NEW c \in Threads, Quiet(c), ~Store(c), NEW d \in Threads, Creating(d)
  PROVE  Creating(d)'
<1>1. CASE d # c
  BY <1>1, OthersStay DEF Quiet, Step, Creating
<1>2. CASE d = c
  <2>1. EnsureOpen(c) \/ DidOpen(c)
    BY <1>2 DEF Creating, Quiet, Begin, Return, LookInCache, Ask, Validate, Delete, Insert, DidChange,
                Save, Truncate, Put, Stamp, Open, Store, ReadFails, OpenFails, Opened
  <2>2. job[c].next = "store"
    BY <1>2, <2>1 DEF Creating, EnsureOpen, DidOpen
  <2>3. \/ job'[c] = job[c] /\ pc'[c] = "store"
        \/ \E note : job'[c] = [job[c] EXCEPT !.note = note] /\ pc'[c] \in {"did open", "store"}
    <3>1. CASE EnsureOpen(c)
      BY <2>2, <3>1, ZenonT(30) DEF EnsureOpen, SetJob, Goto, Types, TypeOK
    <3>2. CASE DidOpen(c)
      BY <2>2, <3>2 DEF DidOpen, SetJob, Goto, Types, TypeOK
    <3> QED BY <2>1, <3>1, <3>2
  <2> QED BY <1>2, <2>2, <2>3, Mine DEF Creating, JobType
<1> QED BY <1>1, <1>2

LEMMA QuietExclusive ==
  ASSUME Types, Local, NEW c \in Threads, Quiet(c), NEW f \in Files, Exclusive(f)
  PROVE  Exclusive(f)'
<1>1. SameHolds
  BY QuietHolds
<1>2. \A d \in Threads : Depth(d)' = Depth(d) /\ Buffer(d)' = Buffer(d)
  BY <1>1 DEF SameHolds, Depth, Buffer
<1>3. \A d \in Threads : Depth(d)' # 0 /\ File(d)' = f => Depth(d) # 0 /\ File(d) = f
  BY <1>1, <1>2 DEF SameHolds
<1>4. CASE ~Store(c)
  <2>1. open_file_buffers'[f] = open_file_buffers[f]
    BY <1>4 DEF Quiet, Begin, Return, EnsureOpen, DidOpen, LookInCache, Ask, Validate, Delete, Insert,
                DidChange, Save, Truncate, Put, Stamp, Open, ReadFails, OpenFails
  <2>2. \A d \in Threads : Creating(d) => Creating(d)'
    BY <1>4, CreatingGoesOn
  <2> QED BY <1>1, <1>2, <1>3, <2>1, <2>2, KeepsExclusive DEF SameHolds
<1>5. CASE Store(c) /\ File(c) # f
  <2>1. open_file_buffers'[f] = open_file_buffers[f]
    BY <1>5 DEF Store
  <2>2. \A d \in Threads \ {c} : job'[d] = job[d] /\ pc'[d] = pc[d]
    BY OthersStay DEF Quiet, Step
  <2>3. \A d \in Threads : Depth(d)' # 0 /\ File(d)' = f => d # c
    BY <1>3, <1>5
  <2>4. \A d \in Threads \ {c} : Creating(d) => Creating(d)'
    BY <2>2 DEF Creating
  <2> QED BY <1>1, <1>2, <1>3, <2>1, <2>3, <2>4, KeepsExclusive DEF SameHolds
<1>6. CASE Store(c) /\ File(c) = f
  <2>1. /\ Depth(c) \in 1 .. Depth(c) /\ Buffer(c) = job[c].held[Depth(c)] /\ Buffer(c) \in BufferIds
    BY <1>6, DepthBound DEF Store
  <2>2. open_file_buffers'[f] = Buffer(c)
    BY <1>6 DEF Store, Types, TypeOK
  <2>3. CASE \A i \in 1 .. Depth(c) : open_file_buffers[f] = job[c].held[i]
    <3>1. open_file_buffers[f] = Buffer(c)
      BY <2>1, <2>3
    <3>2. ASSUME NEW d \in Threads, Depth(d) # 0, File(d) = f
          PROVE  \A i \in 1 .. Depth(d) : Buffer(c) = job[d].held[i]
      BY <2>1, <3>1, <3>2, NotZero DEF Exclusive
    <3> QED BY <1>1, <1>2, <1>3, <2>2, <3>2 DEF Exclusive, SameHolds
  <2>4. CASE /\ Depth(c) = 1
             /\ \A d \in Threads \ {c} : Depth(d) # 0 => File(d) # f
    <3>1. \A i \in 1 .. Depth(c) : Buffer(c) = job[c].held[i]
      BY <2>1, <2>4
    <3> QED BY <1>1, <1>2, <1>3, <2>2, <2>4, <3>1 DEF Exclusive, SameHolds
  <2>5. Depth(c) # 0
    BY <2>1
  <2> QED BY <1>6, <2>3, <2>4, <2>5 DEF Exclusive
<1> QED BY <1>4, <1>5, <1>6

\* A buffer is made or counted while no other thread is in a gap of its file.
LEMMA OpenExclusive ==
  ASSUME Types, Local, Table, NEW c \in Threads, Open(c), NEW f \in Files, Exclusive(f),
         "window" \notin stirred'[f]
  PROVE  Exclusive(f)'
<1> DEFINE b == open_file_buffers[File(c)]
           new == CHOOSE g \in Garbage : TRUE
<1>1. pc[c] = "open" /\ File(c) \in Files /\ (Depth(c) = 0 \/ Depth(c) = 1) /\ ~Creating(c)
  BY Mine DEF Open, Local, Placed, Creating
<1>2. \A d \in Threads \ {c} : job'[d] = job[d] /\ pc'[d] = pc[d]
  BY OthersStay DEF Step
<1>3. \A d \in Threads \ {c} :
        Depth(d)' = Depth(d) /\ File(d)' = File(d) /\ (Creating(d)' <=> Creating(d))
  BY <1>2 DEF Depth, File, Phase, Creating
<1>4. UNCHANGED open_file_buffers
  BY DEF Open
<1>5. CASE FailWith(c, "assertion", job[c])
  BY <1>5, QuietExclusive DEF Quiet
<1>6. CASE ~FailWith(c, "assertion", job[c])
  <2>1. PICK a, step :
          /\ (b = 0 /\ a = new /\ step = "store") \/ (b # 0 /\ a = b)
          /\ SetJob(c, [job[c] EXCEPT !.held = Append(@, a), !.next = step])
          /\ Goto(c, "ensure")
    <3>1. CASE b = 0 /\ SetJob(c, [job[c] EXCEPT !.held = Append(@, new), !.next = "store"])
                     /\ Goto(c, "ensure")
      BY <3>1, Zenon
    <3>2. CASE b # 0 /\ SetJob(c, [job[c] EXCEPT !.held = Append(@, b), !.next = Inside(c, Depth(c) + 1)])
                     /\ Goto(c, "ensure")
      BY <3>2, Zenon
    <3> QED BY <1>6, <3>1, <3>2 DEF Open
  <2>2. a \in BufferIds
    <3>1. new \in BufferIds
      BY <1>1, GarbageExists DEF Table, Garbage
    <3> QED BY <1>1, <2>1, <3>1 DEF Types, TypeOK
  <2> HIDE DEF b, new
  <2>3. job'[c] = [job[c] EXCEPT !.held = Append(@, a), !.next = step] /\ pc'[c] = "ensure"
    BY <2>1 DEF SetJob, Goto, Types, TypeOK
  <2>4. job'[c].held = Append(job[c].held, a) /\ job'[c].plan = job[c].plan /\ job'[c].next = step
    BY <2>3, Mine DEF JobType
  <2>5. File(c)' = File(c)
    BY <2>4 DEF File, Phase
  <2>6. /\ Depth(c)' = Depth(c) + 1
        /\ \A i \in 1 .. Depth(c)' : \/ i \in 1 .. Depth(c) /\ job'[c].held[i] = job[c].held[i]
                                     \/ i = Depth(c) + 1 /\ job'[c].held[i] = a
    <3>1. Depth(c)' = Depth(c) + 1 /\ Depth(c) \in Nat
      BY <2>4, Mine DEF Depth
    <3>2. /\ \A i \in 1 .. Depth(c) : job'[c].held[i] = job[c].held[i]
          /\ job'[c].held[Depth(c) + 1] = a
      BY <2>2, <2>4, Mine DEF Depth
    <3>3. \A n \in Nat : \A i \in 1 .. n + 1 : i \in 1 .. n \/ i = n + 1
      OBVIOUS
    <3>4. \A i \in 1 .. Depth(c)' : i \in 1 .. Depth(c) \/ i = Depth(c) + 1
      BY <3>1, <3>3
    <3> QED BY <3>1, <3>2, <3>4
  <2>7. CASE File(c) # f
    <3>1. \A d \in Threads : Depth(d)' # 0 /\ File(d)' = f => d # c
      BY <2>5, <2>7
    <3> QED BY <1>2, <1>3, <1>4, <3>1, KeepsExclusive
  <2>8. CASE File(c) = f
    <3>1. Between(f) \ {c} = {}
      <4>1. "window" \notin OthersBetween(c)
        BY <1>1, <2>8 DEF Open, Stir, Types, TypeOK
      <4> QED BY <2>8, <4>1 DEF OthersBetween
    <3>2. \A d \in Threads : Creating(d) /\ File(d) = f => d \in Between(f)
      BY DEF Creating, Between
    <3>3. \A d \in Threads : Depth(d) # 0 /\ File(d) = f =>
            \A i \in 1 .. Depth(d) : open_file_buffers[f] = job[d].held[i]
      BY <1>1, <3>1, <3>2 DEF Exclusive
    <3>4. CASE b # 0
      <4>1. \A i \in 1 .. Depth(c) : open_file_buffers[f] = job[c].held[i]
        BY <2>8, <3>3, <1>1
      <4>2. open_file_buffers[f] = a
        BY <2>1, <2>8, <3>4 DEF b
      <4>3. \A i \in 1 .. Depth(c)' : open_file_buffers'[f] = job'[c].held[i]
        BY <1>4, <2>6, <4>1, <4>2
      <4>4. \A d \in Threads \ {c} : Depth(d)' # 0 /\ File(d)' = f =>
              \A i \in 1 .. Depth(d)' : open_file_buffers'[f] = job'[d].held[i]
        BY <1>2, <1>3, <1>4, <3>3
      <4> QED BY <4>3, <4>4 DEF Exclusive
    <3>5. CASE b = 0
      <4>1. open_file_buffers[f] = 0
        BY <2>8, <3>5 DEF b
      <4>2. ASSUME NEW d \in Threads, Depth(d) # 0, File(d) = f PROVE FALSE
        <5>1. 1 \in 1 .. Depth(d) /\ job[d].held[1] \in BufferIds
          BY <4>2, DepthBound
        <5> QED BY <3>3, <4>1, <4>2, <5>1, NotZero
      <4>3. Depth(c)' = 1 /\ Creating(c)'
        <5>1. Depth(c) = 0
          BY <1>1, <2>8, <4>2
        <5> QED BY <2>1, <2>3, <2>4, <2>6, <3>5, <5>1 DEF Creating
      <4>4. \A d \in Threads \ {c} : Depth(d)' # 0 => File(d)' # f
        BY <1>3, <4>2
      <4> QED BY <1>4, <4>1, <4>3, <4>4 DEF Exclusive
    <3> QED BY <3>4, <3>5
  <2> QED BY <2>7, <2>8
<1> QED BY <1>5, <1>6

\* A block is left.
LEMMA LeaveExclusive ==
  ASSUME Types, Local, Table, NEW c \in Threads, Drop(c) \/ Close(c) \/ Del(c), NEW f \in Files,
         Exclusive(f)
  PROVE  Exclusive(f)'
<1>1. pc[c] \in {"drop", "close", "del"} /\ Depth(c) # 0 /\ Depth(c) \in 0 .. 2 /\ ~Creating(c)
  BY DepthBound DEF Drop, Close, Del, Creating
<1>2. \A d \in Threads \ {c} : job'[d] = job[d] /\ pc'[d] = pc[d]
  BY OthersStay DEF Step
<1>3. \A d \in Threads \ {c} :
        Depth(d)' = Depth(d) /\ File(d)' = File(d) /\ (Creating(d)' <=> Creating(d))
  BY <1>2 DEF Depth, File, Phase, Creating
<1>4. \/ job'[c] = job[c] /\ Depth(c)' = Depth(c) /\ File(c)' = File(c)
      \/ /\ Depth(c)' = Depth(c) - 1 /\ (Depth(c)' # 0 => File(c)' = File(c))
         /\ \A i \in 1 .. Depth(c)' : job'[c].held[i] = job[c].held[i]
  <2>1. CASE job' = job
    BY <2>1 DEF Depth, File, Phase
  <2>2. CASE \E why : /\ AfterDrop(c, [job[c] EXCEPT !.held = Front(@), !.failed = why])
                      /\ pc[c] \in {"drop", "del"}
    BY <2>2, LeaveKeeps
  <2>3. CASE Drop(c)
    BY <2>1, <2>2, <2>3, DropLeaves DEF Drop
  <2>4. CASE Close(c)
    BY <2>1, <2>4 DEF Close
  <2>5. CASE Del(c)
    <3>1. \E why : AfterDrop(c, [job[c] EXCEPT !.held = Front(@), !.failed = why])
      BY <2>5, DelLeaves
    <3> QED BY <2>2, <2>5, <3>1 DEF Del
  <2> QED BY <2>3, <2>4, <2>5
<1>5. \A d \in Threads : Depth(d)' # 0 /\ File(d)' = f =>
        /\ Depth(d) # 0 /\ File(d) = f
        /\ \A i \in 1 .. Depth(d)' : i \in 1 .. Depth(d) /\ job'[d].held[i] = job[d].held[i]
        /\ Creating(d) => Creating(d)' /\ Depth(d)' = Depth(d)
  BY <1>1, <1>2, <1>3, <1>4
<1>6. CASE open_file_buffers'[f] = open_file_buffers[f]
  BY <1>5, <1>6, KeepsExclusive
<1>7. CASE open_file_buffers'[f] # open_file_buffers[f]
  <2>1. Del(c) /\ File(c) = f /\ open_file_buffers[f] # 0 /\ pc[c] = "del"
    BY <1>7 DEF Drop, Close, Del, Types, TypeOK
  <2>2. \A d \in Threads : Depth(d) # 0 /\ File(d) = f =>
          \A i \in 1 .. Depth(d) : open_file_buffers[f] = job[d].held[i]
    BY <2>1 DEF Exclusive
  <2>3. Depth(c) \in 1 .. Depth(c) /\ Buffer(c) = job[c].held[Depth(c)]
    BY <1>1 DEF Buffer, Last, Depth
  <2>4. open_file_buffers[f] = Buffer(c)
    BY <1>1, <2>1, <2>2, <2>3
  <2>5. ASSUME NEW d \in Threads, Depth(d)' # 0, File(d)' = f PROVE FALSE
    <3>1. Depth(d)' \in 0 .. 2
      <4>1. Depth(d) \in 0 .. 2
        BY DepthBound
      <4>2. d = c => Depth(d)' \in {Depth(d), Depth(d) - 1} /\ Depth(d) # 0
        BY <1>1, <1>4
      <4> QED BY <1>3, <4>1, <4>2
    <3>2. 1 \in 1 .. Depth(d)'
      BY <2>5, <3>1
    <3>3. Depth(d) # 0 /\ File(d) = f /\ 1 \in 1 .. Depth(d)
      BY <1>5, <2>5, <3>2
    <3>4. job[d].held[1] = Buffer(c)
      BY <2>2, <2>4, <3>3
    <3>5. d = c /\ 1 = Depth(c)
      BY <2>1, <3>3, <3>4 DEF Table, Closing
    <3>6. Depth(c)' = Depth(c) - 1
      <4>1. PICK why : AfterDrop(c, [job[c] EXCEPT !.held = Front(@), !.failed = why])
        BY <2>1, DelLeaves
      <4> QED BY <2>1, <4>1, LeaveKeeps
    <3> QED BY <1>1, <1>4, <2>5, <3>5, <3>6
  <2> QED BY <2>5 DEF Exclusive
<1> QED BY <1>6, <1>7

\* A buffer that cannot be opened is dropped again.
LEMMA OpenFailsExclusive ==
  ASSUME Types, Local, NEW c \in Threads, OpenFails(c), ~Lazy(c), NEW f \in Files, Exclusive(f)
  PROVE  Exclusive(f)'
<1>1. /\ Depth(c)' = Depth(c) - 1 /\ (Depth(c)' # 0 => File(c)' = File(c))
      /\ \A i \in 1 .. Depth(c)' : job'[c].held[i] = job[c].held[i]
      /\ Depth(c) \in 1 .. 2
  BY OpenFailsKeeps, DepthBound
<1>2. \A d \in Threads \ {c} : job'[d] = job[d] /\ pc'[d] = pc[d]
  BY OthersStay DEF Step
<1>3. \A d \in Threads \ {c} :
        Depth(d)' = Depth(d) /\ File(d)' = File(d) /\ (Creating(d)' <=> Creating(d))
  BY <1>2 DEF Depth, File, Phase, Creating
<1>4. \A d \in Threads : Depth(d)' # 0 /\ File(d)' = f =>
        /\ Depth(d) # 0 /\ File(d) = f
        /\ \A i \in 1 .. Depth(d)' : i \in 1 .. Depth(d) /\ job'[d].held[i] = job[d].held[i]
        /\ Creating(d) /\ Depth(d) = 1 => Creating(d)' /\ Depth(d)' = Depth(d)
  BY <1>1, <1>2, <1>3
<1>5. open_file_buffers'[f] = open_file_buffers[f]
  BY DEF OpenFails
<1> QED BY <1>4, <1>5, KeepsExclusive

\* Another program writes or removes a file: no buffer is registered, removed or entered.
LEMMA OutsideExclusive ==
  ASSUME Types, Local, NEW g \in Files, Outside(g), NEW f \in Files, Exclusive(f)
  PROVE  Exclusive(f)'
<1>1. UNCHANGED <<open_file_buffers, pc, job>>
  BY DEF Outside, WriteOutside, RemoveOutside, RestoreOutside
<1>2. \A d \in Threads : /\ Depth(d)' = Depth(d) /\ File(d)' = File(d)
                         /\ Creating(d) => Creating(d)'
  BY <1>1 DEF Depth, File, Phase, Creating
<1> QED BY <1>1, <1>2, KeepsExclusive

LEMMA AloneStep ==
  ASSUME Types, Local, Table, AloneInGaps, Next
  PROVE  AloneInGaps'
<1> SUFFICES ASSUME NEW f \in Files, "window" \notin stirred'[f] PROVE Exclusive(f)'
  BY DEF AloneInGaps
<1>1. CASE "window" \in stirred[f]
  <2>1. \A d \in Threads : Depth(d)' # 0 => File(d)' # f
    BY <1>1, WindowStays
  <2> QED BY <2>1 DEF Exclusive
<1>2. CASE "window" \notin stirred[f]
  <2>1. Exclusive(f)
    BY <1>2 DEF AloneInGaps
  <2>2. ASSUME NEW g \in Files, Outside(g) PROVE Exclusive(f)'
    BY <2>1, <2>2, OutsideExclusive
  <2>3. ASSUME NEW c \in Threads, Step(c) PROVE Exclusive(f)'
    <3>1. Quiet(c) \/ Open(c) \/ Drop(c) \/ Close(c) \/ Del(c) \/ (OpenFails(c) /\ ~Lazy(c))
      BY <2>3 DEF Step, Quiet
    <3>2. CASE Quiet(c)
      BY <2>1, <3>2, QuietExclusive
    <3>3. CASE Open(c)
      BY <2>1, <3>3, OpenExclusive
    <3>4. CASE Drop(c) \/ Close(c) \/ Del(c)
      BY <2>1, <3>4, LeaveExclusive
    <3> QED BY <2>1, <3>1, <3>2, <3>3, <3>4, OpenFailsExclusive
  <2> QED BY <2>2, <2>3 DEF Next
<1> QED BY <1>1, <1>2

\* While nobody looks a file up in a gap, its users hold the registered buffer.
THEOREM AloneKept == Spec => []AloneInGaps
<1>1. Init => AloneInGaps
  <2> SUFFICES ASSUME Init, NEW f \in Files PROVE Exclusive(f)
    BY DEF AloneInGaps
  <2>1. \A c \in Threads : Depth(c) = 0
    BY DEF Init, NoJob, Depth
  <2> QED BY <2>1 DEF Exclusive
<1>2. SessionsInv /\ AloneInGaps /\ [Next]_vars => AloneInGaps'
  <2> SUFFICES ASSUME SessionsInv, AloneInGaps, [Next]_vars PROVE AloneInGaps'
    OBVIOUS
  <2>1. CASE Next
    BY <2>1, AloneStep DEF SessionsInv
  <2>2. CASE UNCHANGED vars
    <3>1. UNCHANGED <<open_file_buffers, pc, job, stirred>>
      BY <2>2 DEF vars
    <3>2. \A d \in Threads : Depth(d)' = Depth(d) /\ File(d)' = File(d) /\ (Creating(d) => Creating(d)')
      BY <3>1 DEF Creating, Depth, File, Phase
    <3>3. ASSUME NEW f \in Files, "window" \notin stirred'[f] PROVE Exclusive(f)'
      <4>1. Exclusive(f)
        BY <3>1, <3>3 DEF AloneInGaps
      <4> QED BY <3>1, <3>2, <4>1, KeepsExclusive DEF SessionsInv
    <3> QED BY <3>3 DEF AloneInGaps
  <2> QED BY <2>1, <2>2
<1> QED BY <1>1, <1>2, TableKept, PTL DEF Spec

\* Threads that use a file at the same time share the registered buffer, which counts
\* them, and besides them the openings that failed after they were counted, unless one of
\* them looked the file up in another's gap.
THEOREM Shared == Spec => []SharedBuffer
<1>1. SessionsInv /\ AloneInGaps => SharedBuffer
  <2> SUFFICES ASSUME SessionsInv, AloneInGaps, NEW f \in Files, "window" \notin stirred[f],
                      NEW c \in Threads, job[c].held # <<>>, File(c) = f, NEW i \in 1 .. Depth(c)
               PROVE  /\ buffers[job[c].held[i]].refs
                           = Users(job[c].held[i]) + buffers[job[c].held[i]].lost
                      /\ \/ open_file_buffers[f] = job[c].held[i]
                         \/ open_file_buffers[f] = 0 /\ c \in Between(f)
    BY DEF SharedBuffer
  <2>1. job[c].held[i] \in BufferIds /\ Depth(c) # 0
    BY DepthBound, Mine DEF SessionsInv
  <2>2. buffers[job[c].held[i]].refs = Users(job[c].held[i]) + buffers[job[c].held[i]].lost
    BY <2>1 DEF SessionsInv, Table, Counted
  <2>3. \/ open_file_buffers[f] = job[c].held[i]
        \/ Creating(c) /\ open_file_buffers[f] = 0
    BY <2>1 DEF AloneInGaps, Exclusive
  <2>4. Creating(c) => c \in Between(f)
    BY DEF Creating, Between
  <2> QED BY <2>2, <2>3, <2>4
<1> QED BY <1>1, TableKept, AloneKept, PTL

-----------------------------------------------------------------------------
(* Failures on the table of buffers.                                         *)

\* How a call comes to fail.
LEMMA FailCases ==
  ASSUME Types, NEW c \in Threads, NEW why \in Failures, NEW held, NEW fb, NEW out,
         \/ FailWith(c, why, job[c])
         \/ FailWith(c, why, [job[c] EXCEPT !.held = held])
         \/ FailWith(c, why, [job[c] EXCEPT !.fb = fb, !.out = out])
  PROVE  job'[c].failed = why /\ pc'[c] \in {"drop", "return"}
<1>1. PICK j : /\ FailWith(c, why, j)
               /\ \/ j = job[c] \/ j = [job[c] EXCEPT !.held = held]
                  \/ j = [job[c] EXCEPT !.fb = fb, !.out = out]
  OBVIOUS
<1>2. job'[c] = [j EXCEPT !.failed = why] /\ pc'[c] \in {"drop", "return"}
  BY <1>1 DEF FailWith, SetJob, Goto, Types, TypeOK
<1>3. [j EXCEPT !.failed = why].failed = why
  BY <1>1, Mine DEF JobType
<1> QED BY <1>2, <1>3

LEMMA AfterDropCases ==
  ASSUME Types, NEW c \in Threads, NEW why \in Failures,
         AfterDrop(c, [job[c] EXCEPT !.held = Front(@), !.failed = why])
  PROVE  job'[c].failed = why /\ (why # "no" => pc'[c] \in {"drop", "return"})
<1> DEFINE j == [job[c] EXCEPT !.held = Front(@), !.failed = why]
<1>1. j.failed = why /\ [j EXCEPT !.plan = Tail(@)].failed = why
  BY Mine DEF JobType
<1>5. AfterDrop(c, j)
  OBVIOUS
<1> HIDE DEF j
<1>2. SetJob(c, j) \/ SetJob(c, [j EXCEPT !.plan = Tail(@)])
  BY <1>5, Zenon DEF AfterDrop
<1>3. job'[c] = j \/ job'[c] = [j EXCEPT !.plan = Tail(@)]
  BY <1>2 DEF SetJob, Types
<1>4. ASSUME why # "no" PROVE pc'[c] \in {"drop", "return"}
  <2>1. Goto(c, "return") \/ Goto(c, "drop")
    BY <1>1, <1>4, <1>5 DEF AfterDrop
  <2> QED BY <2>1 DEF Goto, Types, TypeOK
<1> QED BY <1>1, <1>3, <1>4

LEMMA FailureStep ==
  ASSUME Types, Local, FailedLeave, NEW c \in Threads, Step(c)
  PROVE  /\ job'[c].failed # "no" => pc'[c] \in {"drop", "close", "del", "return"}
         /\ job'[c].failed \in {"assertion", "key"} =>
              \/ job'[c].failed = job[c].failed /\ pc[c] \in {"drop", "close", "del"}
              \/ /\ Open(c) /\ FailWith(c, "assertion", job[c])
                 /\ open_file_buffers[File(c)] # 0 /\ buffers[open_file_buffers[File(c)]].refs = 0
              \/ pc[c] \in {"delete", "insert", "save", "del"} /\ open_file_buffers[File(c)] = 0
<1>1. job[c].failed # "no" => pc[c] \in {"drop", "close", "del", "return"}
  BY DEF FailedLeave
<1>2. CASE Begin(c)
  <2>1. PICK op \in Ops, f \in Files : SetJob(c, [NoJob EXCEPT !.op = op, !.n = effort', !.file = f,
                                  !.plan = Plan(op, f), !.before = disk])
    BY <1>2, Zenon DEF Begin
  <2>2. job'[c].failed = "no"
    BY <2>1 DEF SetJob, NoJob, Types
  <2> QED BY <2>2
<1>3. CASE Return(c)
  <2>1. job'[c].failed = "no"
    BY <1>3 DEF Return, SetJob, NoJob, Types
  <2> QED BY <2>1
<1>4. CASE Open(c)
  <2>1. pc[c] = "open" /\ job[c].failed = "no"
    BY <1>1, <1>4 DEF Open
  <2>2. CASE FailWith(c, "assertion", job[c])
    <3>1. job'[c].failed = "assertion" /\ pc'[c] \in {"drop", "return"}
      BY <2>2, FailCases DEF Failures
    <3>2. open_file_buffers[File(c)] # 0 /\ buffers[open_file_buffers[File(c)]].refs = 0
      <4>1. SUFFICES ASSUME \E held, next : SetJob(c, [job[c] EXCEPT !.held = held, !.next = next])
                     PROVE  FALSE
        BY <1>4, Zenon DEF Open
      <4>2. job'[c].failed = job[c].failed
        BY <4>1, Mine DEF SetJob, Types, JobType
      <4> QED BY <2>1, <3>1, <4>2
    <3> QED BY <1>4, <2>2, <3>1, <3>2
  <2>3. CASE \E held, next : SetJob(c, [job[c] EXCEPT !.held = held, !.next = next])
    <3>1. job'[c].failed = job[c].failed
      BY <2>3, Mine DEF SetJob, Types, JobType
    <3> QED BY <2>1, <3>1
  <2> QED BY <1>4, <2>2, <2>3, Zenon DEF Open
<1>5. CASE EnsureOpen(c) \/ DidOpen(c) \/ Store(c) \/ DidChange(c)
  <2>1. job[c].failed = "no"
    BY <1>1, <1>5 DEF EnsureOpen, DidOpen, Store, DidChange
  <2>2. UNCHANGED job \/ \E note : SetJob(c, [job[c] EXCEPT !.note = note])
    BY <1>5 DEF EnsureOpen, DidOpen, Store, DidChange
  <2>3. job'[c].failed = job[c].failed
    BY <2>2, Mine DEF SetJob, Types, JobType
  <2> QED BY <2>1, <2>3
<1>6. CASE Close(c) \/ Truncate(c) \/ Put(c)
  <2>1. job' = job /\ (Close(c) => pc[c] = "close" /\ pc'[c] = "del")
    BY <1>6 DEF Close, Truncate, Put, Goto, Types, TypeOK
  <2>2. Truncate(c) \/ Put(c) => job[c].failed = "no"
    BY <1>1 DEF Truncate, Put
  <2> QED BY <1>6, <2>1, <2>2
<1>7. CASE Drop(c)
  <2>1. pc[c] = "drop" /\ job[c].failed \in Failures
    BY <1>7, Mine DEF Drop, JobType
  <2>2. CASE Goto(c, "close") /\ UNCHANGED job
    <3>1. pc'[c] = "close" /\ job'[c] = job[c]
      BY <2>2 DEF Goto, Types, TypeOK
    <3> QED BY <2>1, <3>1
  <2>3. CASE AfterDrop(c, [job[c] EXCEPT !.held = Front(@), !.failed = job[c].failed])
    BY <2>1, <2>3, AfterDropCases
  <2> QED BY <1>7, <2>2, <2>3, DropLeaves
<1>8. CASE Del(c)
  <2>1. PICK why \in Failures :
          /\ why = job[c].failed \/ (why = "key" /\ open_file_buffers[File(c)] = 0)
          /\ AfterDrop(c, [job[c] EXCEPT !.held = Front(@), !.failed = why])
    BY <1>8, DelLeaves
  <2>2. job'[c].failed = why /\ (why # "no" => pc'[c] \in {"drop", "return"})
    BY <2>1, AfterDropCases
  <2>3. pc[c] = "del"
    BY <1>8 DEF Del
  <2> QED BY <2>1, <2>2, <2>3
<1>9. CASE LookInCache(c) \/ Ask(c)
  <2>1. job[c].failed = "no"
    BY <1>1, <1>9 DEF LookInCache, Ask
  <2>2. ASSUME NEW symbols, Located(c, symbols)
        PROVE  pc'[c] = "drop" /\ job'[c].failed \in {"no", "no symbol"}
    BY <2>2, Mine DEF Located, SetJob, Goto, Types, TypeOK, JobType
  <2>3. CASE \E symbols : Located(c, symbols)
    BY <2>2, <2>3
  <2>4. CASE SetJob(c, [job[c] EXCEPT !.next = "ask"])
             \/ \E at, plan : SetJob(c, [job[c] EXCEPT !.at = at, !.plan = plan])
    <3>1. CASE SetJob(c, [job[c] EXCEPT !.next = "ask"])
      BY <2>1, <3>1, Mine DEF SetJob, Types, JobType
    <3>2. CASE \E at, plan : SetJob(c, [job[c] EXCEPT !.at = at, !.plan = plan])
      BY <2>1, <3>2, Mine DEF SetJob, Types, JobType
    <3> QED BY <2>4, <3>1, <3>2
  <2>5. LookInCache(c) => SetJob(c, [job[c] EXCEPT !.next = "ask"]) \/ \E symbols : Located(c, symbols)
    BY Zenon DEF LookInCache
  <2>6. Ask(c) => (\E at, plan : SetJob(c, [job[c] EXCEPT !.at = at, !.plan = plan]))
                  \/ \E symbols : Located(c, symbols)
    BY Zenon DEF Ask
  <2> QED BY <1>9, <2>3, <2>4, <2>5, <2>6
<1>10. CASE Validate(c)
  <2>1. job[c].failed = "no"
    BY <1>1, <1>10 DEF Validate
  <2>2. CASE FailWith(c, "denied", job[c])
    BY <2>2, FailCases DEF Failures
  <2> QED BY <1>10, <2>1, <2>2 DEF Validate
<1>11. CASE Delete(c) \/ Insert(c)
  <2>1. pc[c] \in {"delete", "insert"} /\ job[c].failed = "no"
    BY <1>1, <1>11 DEF Delete, Insert
  <2>2. File(c) \in Files
    BY <2>1, DepthBound
  <2>3. \/ open_file_buffers[File(c)] = 0 /\ FailWith(c, "assertion", job[c])
        \/ FailWith(c, "location", job[c])
        \/ \E note : SetJob(c, [job[c] EXCEPT !.note = note])
    BY <1>11, <2>2, ChangeCases DEF Delete, Insert
  <2>4. CASE FailWith(c, "location", job[c])
    BY <2>4, FailCases DEF Failures
  <2>5. CASE open_file_buffers[File(c)] = 0 /\ FailWith(c, "assertion", job[c])
    BY <2>1, <2>5, FailCases DEF Failures
  <2>6. CASE \E note : SetJob(c, [job[c] EXCEPT !.note = note])
    <3>1. job'[c].failed = job[c].failed
      BY <2>6, Mine DEF SetJob, Types, JobType
    <3> QED BY <2>1, <3>1
  <2> QED BY <2>3, <2>4, <2>5, <2>6
<1>12. CASE Save(c) \/ Stamp(c)
  <2>1. job[c].failed = "no" /\ pc[c] \in {"save", "stamp"}
    BY <1>1, <1>12 DEF Save, Stamp
  <2>2. \/ pc[c] = "save" /\ open_file_buffers[File(c)] = 0 /\ FailWith(c, "key", job[c])
        \/ \E fb, out, saved : SetJob(c, [job[c] EXCEPT !.fb = fb, !.out = out])
                               \/ SetJob(c, [job[c] EXCEPT !.fb = fb, !.out = out, !.saved = saved])
    BY <1>12, Zenon DEF Save, Stamp
  <2>3. CASE pc[c] = "save" /\ open_file_buffers[File(c)] = 0 /\ FailWith(c, "key", job[c])
    BY <2>3, FailCases DEF Failures
  <2>4. CASE \E fb, out, saved : SetJob(c, [job[c] EXCEPT !.fb = fb, !.out = out])
                               \/ SetJob(c, [job[c] EXCEPT !.fb = fb, !.out = out, !.saved = saved])
    <3>1. PICK fb, out, saved :
            \/ SetJob(c, [job[c] EXCEPT !.fb = fb, !.out = out])
            \/ SetJob(c, [job[c] EXCEPT !.fb = fb, !.out = out, !.saved = saved])
      BY <2>4
    <3>2. CASE SetJob(c, [job[c] EXCEPT !.fb = fb, !.out = out])
      BY <2>1, <3>2, Mine DEF SetJob, Types, JobType
    <3>3. CASE SetJob(c, [job[c] EXCEPT !.fb = fb, !.out = out, !.saved = saved])
      BY <2>1, <3>3, Mine DEF SetJob, Types, JobType
    <3> QED BY <3>1, <3>2, <3>3
  <2> QED BY <2>2, <2>3, <2>4
<1>13. CASE OpenFails(c) \/ ReadFails(c)
  <2>1. \/ FailWith(c, "unread", job[c])
        \/ FailWith(c, "unread", [job[c] EXCEPT !.held = Front(@)])
        \/ FailWith(c, "unread", [job[c] EXCEPT !.fb = 0, !.out = <<>>])
    BY <1>13, Zenon DEF OpenFails, ReadFails
  <2>2. job'[c].failed = "unread" /\ pc'[c] \in {"drop", "return"}
    BY <2>1, FailCases DEF Failures
  <2> QED BY <2>2
<1> QED BY <1>2, <1>3, <1>4, <1>5, <1>6, <1>7, <1>8, <1>9, <1>10, <1>11, <1>12, <1>13 DEF Step

\* A buffer that is registered and counted by nobody is about to be removed.
LEMMA Uncounted ==
  ASSUME Types, Local, Table, NEW f \in Files, open_file_buffers[f] # 0,
         buffers[open_file_buffers[f]].refs = 0
  PROVE  \E e \in Threads : pc[e] \in {"close", "del"} /\ File(e) = f
<1> DEFINE b == open_file_buffers[f]
<1>1. b \in BufferIds
  BY DEF Types, TypeOK
<1>2. Holders(b) = {} /\ ~(buffers[b].lost > 0)
  <2>1. Users(b) \in Nat /\ buffers[b].lost \in Nat /\ Users(b) + buffers[b].lost = 0
    <3>1. buffers[b].lost \in Nat /\ buffers[b].refs = 0
      BY <1>1, FreshKeeps DEF BufferType
    <3>2. buffers[b].refs = Users(b) + buffers[b].lost
      BY <1>1 DEF Table, Counted
    <3>3. Users(b) \in Nat
      BY HoldersFinite
    <3> QED BY <3>1, <3>2, <3>3
  <2>2. Cardinality(Holders(b)) = 0 /\ IsFiniteSet(Holders(b))
    BY <2>1, HoldersFinite
  <2> QED BY <2>1, <2>2, FS_EmptySet
<1>3. PICK e \in Threads : \E i \in 1 .. Depth(e) : job[e].held[i] = b
  BY <1>2 DEF Table, Registered
<1>4. PICK i \in 1 .. Depth(e) : job[e].held[i] = b
  BY <1>3
<1>5. i \in 1 .. 2 /\ i <= Depth(e)
  BY DepthBound
<1>6. ~Holds(e, i, b)
  <2>1. Holds(e, i, b) => <<e, i>> \in Holders(b)
    BY <1>5 DEF Holders
  <2> QED BY <1>2, <2>1
<1>7. pc[e] \in {"close", "del"}
  BY <1>4, <1>5, <1>6 DEF Holds
<1>8. buffers[b].file = f /\ buffers[b].file = File(e)
  BY <1>4 DEF Table, Registered, HeldTyped
<1> QED BY <1>7, <1>8

LEMMA Leaving ==
  Types /\ Local => \A d \in Threads : pc[d] \in {"drop", "close", "del"} =>
                     Depth(d) # 0 /\ File(d) \in Files
BY DepthBound

\* A call that leaves a with-block goes on with the same file until it has left all.
LEMMA FileKept ==
  ASSUME Types, Local, NEW c \in Threads, Step(c), pc'[c] \in {"drop", "close", "del"}, Depth(c)' # 0
  PROVE  Depth(c) # 0 /\ File(c)' = File(c)
<1>1. CASE Quiet(c)
  <2>1. job'[c].held = job[c].held /\ (Depth(c) # 0 => File(c)' = File(c))
    BY <1>1, QuietHolds DEF SameHolds
  <2>2. Depth(c)' = Depth(c)
    BY <2>1 DEF Depth
  <2> QED BY <2>1, <2>2
<1>2. CASE Open(c) /\ ~Quiet(c)
  <2>1. Goto(c, "ensure")
    BY <1>2, Zenon DEF Open, Quiet
  <2>2. pc'[c] = "ensure"
    BY <2>1 DEF Goto, Types, TypeOK
  <2> QED BY <2>2
<1>3. CASE Drop(c) \/ Close(c) \/ Del(c)
  <2>1. Depth(c) # 0
    BY <1>3, DepthBound DEF Drop, Close, Del
  <2>2. CASE job' = job
    BY <2>1, <2>2 DEF File, Phase
  <2>3. CASE \E why : /\ AfterDrop(c, [job[c] EXCEPT !.held = Front(@), !.failed = why])
                      /\ pc[c] \in {"drop", "del"}
    BY <2>1, <2>3, LeaveKeeps
  <2>4. CASE Drop(c)
    BY <2>2, <2>3, <2>4, DropLeaves DEF Drop
  <2>5. CASE Close(c)
    BY <2>2, <2>5 DEF Close
  <2>6. CASE Del(c)
    <3>1. \E why : AfterDrop(c, [job[c] EXCEPT !.held = Front(@), !.failed = why])
      BY <2>6, DelLeaves
    <3> QED BY <2>3, <2>6, <3>1 DEF Del
  <2> QED BY <1>3, <2>4, <2>5, <2>6
<1>4. CASE OpenFails(c) /\ ~Lazy(c)
  <2>1. Depth(c) # 0
    BY <1>4, DepthBound DEF OpenFails
  <2> QED BY <1>4, <2>1, OpenFailsKeeps
<1> QED BY <1>1, <1>2, <1>3, <1>4 DEF Step, Quiet

LEMMA RacedStep ==
  ASSUME Types, Local, Table, AloneInGaps, FailedLeave, Raced, Next
  PROVE  FailedLeave' /\ Raced'
<1>1. Types' /\ Local'
  BY TypesStep, LocalStep
<1>2. (\A d \in Threads : pc[d] \in {"drop", "close", "del"} => Depth(d) # 0 /\ File(d) \in Files)'
  BY <1>1, Leaving, PTL
<1>3. \A d \in Threads, f \in Files :
        pc'[d] \in {"drop", "close", "del"} /\ File(d)' = f /\ "window" \notin stirred'[f]
          => "window" \notin stirred[f] /\ Exclusive(f)
  BY <1>2, WindowStays DEF AloneInGaps
<1>4. ASSUME NEW d \in Threads, job'[d] = job[d], pc'[d] = pc[d], pc[d] \in {"drop", "close", "del"},
             job[d].failed \in {"assertion", "key"}, "window" \notin stirred'[File(d)']
      PROVE  FALSE
  <2>1. File(d)' = File(d)
    BY <1>4 DEF File, Phase
  <2>2. File(d) \in Files
    BY <1>4, DepthBound
  <2> QED BY <1>3, <1>4, <2>1, <2>2 DEF Raced
<1>5. ASSUME NEW f \in Files, Outside(f) PROVE FailedLeave' /\ Raced'
  <2>1. UNCHANGED <<pc, job>>
    BY <1>5 DEF Outside, WriteOutside, RemoveOutside, RestoreOutside
  <2> QED BY <1>4, <2>1 DEF FailedLeave, Raced
<1>6. ASSUME NEW c \in Threads, Step(c) PROVE FailedLeave' /\ Raced'
  <2>1. \A d \in Threads \ {c} : job'[d] = job[d] /\ pc'[d] = pc[d]
    BY <1>6, OthersStay
  <2>2. FailedLeave'
    BY <1>6, <2>1, FailureStep DEF FailedLeave
  <2>3. ASSUME pc'[c] \in {"drop", "close", "del"}, job'[c].failed \in {"assertion", "key"},
               "window" \notin stirred'[File(c)']
        PROVE  FALSE
    <3>1. Depth(c) # 0 /\ File(c)' = File(c) /\ File(c) \in Files
      BY <1>2, <1>6, <2>3, FileKept
    <3>2. "window" \notin stirred[File(c)] /\ Exclusive(File(c))
      BY <1>3, <2>3, <3>1
    <3>3. CASE job'[c].failed = job[c].failed /\ pc[c] \in {"drop", "close", "del"}
      BY <2>3, <3>2, <3>3 DEF Raced
    <3>4. CASE /\ Open(c) /\ open_file_buffers[File(c)] # 0
               /\ buffers[open_file_buffers[File(c)]].refs = 0
      <4>1. PICK e \in Threads : pc[e] \in {"close", "del"} /\ File(e) = File(c)
        BY <3>1, <3>4, Uncounted
      <4>2. e \in Between(File(c)) \ {c}
        BY <3>4, <4>1 DEF Open, Between
      <4>3. "window" \in OthersBetween(c)
        BY <4>2 DEF OthersBetween
      <4>4. "window" \in stirred'[File(c)]
        BY <3>1, <3>4, <4>3 DEF Open, Stir, Types, TypeOK
      <4> QED BY <2>3, <3>1, <4>4
    <3>5. CASE pc[c] \in {"delete", "insert", "save", "del"} /\ open_file_buffers[File(c)] = 0
      <4>1. 1 \in 1 .. Depth(c) /\ job[c].held[1] \in BufferIds
        BY <3>1, DepthBound
      <4>2. ~Creating(c)
        BY <3>5 DEF Creating
      <4> QED BY <3>1, <3>2, <3>5, <4>1, <4>2, NotZero DEF Exclusive
    <3> QED BY <1>6, <2>3, <3>3, <3>4, <3>5, FailureStep
  <2>4. ASSUME NEW d \in Threads, pc'[d] \in {"drop", "close", "del"},
               job'[d].failed \in {"assertion", "key"}, "window" \notin stirred'[File(d)']
        PROVE  FALSE
    BY <1>4, <2>1, <2>3, <2>4
  <2> QED BY <2>2, <2>4 DEF Raced
<1> QED BY <1>5, <1>6 DEF Next

\* A call that has failed leaves, and the failures of the table are raced.
THEOREM RacesKept == Spec => [](FailedLeave /\ Raced)
<1> DEFINE Inv == FailedLeave /\ Raced
<1>1. Init => Inv
  BY DEF Init, NoJob, FailedLeave, Raced
<1>2. SessionsInv /\ AloneInGaps /\ Inv /\ [Next]_vars => Inv'
  <2> SUFFICES ASSUME SessionsInv, AloneInGaps, Inv, [Next]_vars PROVE Inv'
    OBVIOUS
  <2>1. CASE Next
    BY <2>1, RacedStep DEF SessionsInv
  <2>2. CASE UNCHANGED vars
    <3>1. UNCHANGED <<pc, job, stirred>>
      BY <2>2 DEF vars
    <3> QED BY <3>1 DEF FailedLeave, Raced, File, Phase
  <2> QED BY <2>1, <2>2
<1> HIDE DEF Inv
<1>3. Spec => []Inv
  BY <1>1, <1>2, TableKept, AloneKept, PTL DEF Spec
<1> QED BY <1>3 DEF Inv

\* The assertion and the two look-ups of open_file and of the tools that use its buffer
\* fail only if a thread looked the file up in another's gap.
THEOREM TableFailuresRaced == Spec => []TableFailuresAreRaced
<1>1. FailedLeave /\ Raced => TableFailuresAreRaced
  BY DEF Raced, TableFailuresAreRaced
<1> QED BY <1>1, RacesKept, PTL
=============================================================================
