---------------------------- MODULE FileOpsProofs ----------------------------
(***************************************************************************)
(* Theorems about FileOps, for any number of callers, files and calls:     *)
(* type correctness, that an edit or a patch with a backup can be undone   *)
(* at every moment, that a move alone loses nothing of its source, and     *)
(* that no call takes away what it was not asked to.                       *)
(***************************************************************************)
EXTENDS FileOps, FiniteSetTheorems, TLAPS

-----------------------------------------------------------------------------
(* Types.                                                                    *)

\* The steps of each tool.
StepsOf(op) ==
  CASE op \in {"write", "append"} -> {"check", "make", "open", "put"}
    [] op = "edit" -> {"read", "copy open", "copy", "open", "put"}
    [] op = "patch" -> {"read", "copy open", "copy", "patch", "patched"}
    [] op = "copy" -> {"check", "make", "copy open", "copy"}
    [] op = "move" -> {"check", "make", "clear", "rename", "copy open", "copy", "unlink"}
    [] op = "delete" -> {"remove"}
    [] op = "touch" -> {"check", "make", "touch"}
    [] op = "mkdir" -> {"make"}
    [] op = "rmdir" -> {"rmdir"}
    [] op = "rmtree" -> {"list", "empty"}
    [] op = "none" -> {"idle"}

\* An inode is an initial file's, or was numbered when it was made.
Numbered ==
  /\ IsFiniteSet(Inodes)
  /\ \A i \in Inodes : i \in Files \/ i \in 1 .. Cardinality(Inodes)

\* A call is at a step of its tool, on one path unless it copies or moves, and has
\* open what it copies and writes.
AtStep(c) ==
  /\ pc[c] \in StepsOf(job[c].op)
  /\ IF job[c].op \in {"copy", "move"} THEN SamePath \/ job[c].src # job[c].dst
                                       ELSE job[c].src = job[c].dst
  /\ pc[c] \in {"copy", "put"} => fd[c] # 0
  /\ pc[c] = "copy" => from[c] # 0

TypeInv == TypeOK /\ Numbered /\ \A c \in Callers : AtStep(c)

\* The two halves of the type invariant: what is on the disk, and the calls' locals.
DiskOK ==
  /\ made \in BOOLEAN /\ (~made => \A p \in Paths : ~Exists(p))
  /\ dir \in [Paths -> Inodes \cup {0}]
  /\ \A p, q \in Paths : (Exists(p) /\ dir[p] = dir[q]) => p = q
  /\ data \in [Inodes -> SUBSET Marks]
  /\ calls \in Nat
  /\ Numbered

Places == {"idle", "check", "make", "read", "copy open", "copy", "open", "put", "touch", "patch",
           "patched", "clear", "rename", "unlink", "remove", "list", "empty", "rmdir"}

LocalsOK ==
  /\ pc \in [Callers -> Places]
  /\ job \in [Callers -> Job]
  /\ text \in [Callers -> SUBSET Marks] /\ original \in [Callers -> SUBSET Marks]
  /\ from \in [Callers -> Inodes \cup {0}] /\ fd \in [Callers -> Inodes \cup {0}]
  /\ met \in [Callers -> SUBSET Ops]
  /\ \A c \in Callers : AtStep(c)

LEMMA TwoHalves == TypeInv <=> DiskOK /\ LocalsOK
BY DEF TypeInv, TypeOK, DiskOK, LocalsOK, Places

\* 0 is no inode, and a new inode is one that was never used.
LEMMA InodesFresh ==
  ASSUME DiskOK
  PROVE  /\ 0 \notin Inodes
         /\ NewInode \in Nat \ {0} /\ NewInode \notin Inodes
         /\ IsFiniteSet(Inodes \cup {NewInode}) /\ Cardinality(Inodes \cup {NewInode}) = NewInode
<1>1. IsFiniteSet(Inodes) /\ Cardinality(Inodes) \in Nat
  BY FS_CardinalityType DEF DiskOK, Numbered
<1>2. 0 \notin Inodes /\ NewInode \in Nat \ {0} /\ NewInode \notin Inodes
  BY <1>1, FilesAssumption DEF DiskOK, Numbered, NewInode
<1>3. IsFiniteSet(Inodes \cup {NewInode}) /\ Cardinality(Inodes \cup {NewInode}) = NewInode
  BY <1>1, <1>2, FS_AddElement DEF NewInode
<1> QED BY <1>2, <1>3

\* When a path gets an inode, its own or a new one, that inode is named by no other path,
\* and nothing else changes.
LEMMA FileSet ==
  ASSUME DiskOK, NEW p \in Paths, NEW i \in {InodeAt(p), NewInode}, NEW content,
         SetFile(p, i, content)
  PROVE  /\ i # 0 /\ Inodes' = Inodes \cup {i} /\ dir' = [dir EXCEPT ![p] = i]
         /\ i = dir[p] \/ i \notin Inodes
         /\ \A q \in Paths \ {p} : dir[q] # i
         /\ \A q \in Paths \ {p} : dir'[q] = dir[q] /\ Content(q)' = Content(q)
         /\ dir'[p] = i /\ Content(p)' = content
         /\ data'[i] = content /\ \A j \in Inodes \ {i} : data'[j] = data[j]
<1> USE DEF DiskOK
<1>1. data' = [j \in Inodes \cup {i} |-> IF j = i THEN content ELSE data[j]]
  BY DEF SetFile
<1>2. Inodes' = Inodes \cup {i}
  BY <1>1 DEF Inodes
<1>3. i = NewInode \/ (dir[p] # 0 /\ i = dir[p])
  BY DEF InodeAt, Exists
<1>4. i # 0 /\ (i = dir[p] \/ i \notin Inodes) /\ \A q \in Paths \ {p} : dir[q] # i
  BY <1>3, InodesFresh DEF Exists
<1>5. dir' = [dir EXCEPT ![p] = i]
  BY DEF SetFile
<1>6. data'[i] = content /\ \A j \in Inodes \ {i} : data'[j] = data[j]
  BY <1>1
<1>7. dir'[p] = i /\ \A q \in Paths \ {p} : dir'[q] = dir[q]
  BY <1>5
<1>8. \A q \in Paths \ {p} : dir[q] # 0 => data'[dir[q]] = data[dir[q]]
  BY <1>4, <1>6
<1> QED BY <1>2, <1>4, <1>5, <1>6, <1>7, <1>8 DEF Content, Exists

\* Then the disk is well-formed still.
LEMMA DiskSetFile ==
  ASSUME DiskOK, NEW p \in Paths, NEW i \in {InodeAt(p), NewInode}, NEW content \in SUBSET Marks,
         SetFile(p, i, content), made, made', calls' = calls
  PROVE  DiskOK' /\ Inodes \subseteq Inodes' /\ i \in Inodes' /\ Marks' = Marks
<1> USE DEF DiskOK
<1>1. /\ i # 0 /\ Inodes' = Inodes \cup {i} /\ dir' = [dir EXCEPT ![p] = i]
      /\ \A q \in Paths \ {p} : dir[q] # i
      /\ i = dir[p] \/ i \notin Inodes
  BY FileSet
<1>2. Marks' = Marks
  BY DEF Marks
<1>3. data' \in [Inodes' -> SUBSET Marks]
  BY <1>1 DEF SetFile
<1>4. dir' \in [Paths -> Inodes' \cup {0}]
  BY <1>1
<1>5. \A q, r \in Paths : (Exists(q)' /\ dir'[q] = dir'[r]) => q = r
  BY <1>1 DEF Exists
<1>6. Numbered'
  <2>1. i \in Inodes \/ i = NewInode
    BY DEF InodeAt, Exists
  <2>2. CASE i \in Inodes
    <3>1. Inodes' = Inodes
      BY <1>1, <2>2
    <3> QED BY <3>1 DEF Numbered
  <2>3. CASE i = NewInode
    <3>1. IsFiniteSet(Inodes') /\ Cardinality(Inodes') = NewInode
      BY <1>1, <2>3, InodesFresh
    <3>2. Cardinality(Inodes) \in Nat
      BY FS_CardinalityType DEF Numbered
    <3>3. \A j \in Inodes' : j \in Files \/ j \in 1 .. NewInode
      BY <1>1, <2>3, <3>2 DEF Numbered, NewInode
    <3> QED BY <3>1, <3>3 DEF Numbered
  <2> QED BY <2>1, <2>2, <2>3
<1> QED BY <1>1, <1>2, <1>3, <1>4, <1>5, <1>6

\* Removing a name, or moving it to another path, leaves the disk well-formed.
LEMMA DiskNames ==
  ASSUME DiskOK, UNCHANGED <<made, data, calls>>,
         \/ \E p \in Paths : dir' = [dir EXCEPT ![p] = 0]
         \/ \E p, q \in Paths : Exists(p) /\ dir' = [dir EXCEPT ![p] = 0, ![q] = dir[p]]
  PROVE  DiskOK' /\ Inodes' = Inodes /\ Marks' = Marks
<1> USE DEF DiskOK
<1>1. Inodes' = Inodes /\ Marks' = Marks
  BY DEF Inodes, Marks
<1>2. Numbered'
  BY <1>1 DEF Numbered
<1>3. /\ dir' \in [Paths -> Inodes' \cup {0}]
      /\ ~made' => \A p \in Paths : ~Exists(p)'
      /\ \A p, q \in Paths : (Exists(p)' /\ dir'[p] = dir'[q]) => p = q
  <2>1. CASE \E p \in Paths : dir' = [dir EXCEPT ![p] = 0]
    BY <1>1, <2>1 DEF Exists
  <2>2. ASSUME NEW p \in Paths, NEW q \in Paths, Exists(p),
               dir' = [dir EXCEPT ![p] = 0, ![q] = dir[p]]
        PROVE  /\ dir' \in [Paths -> Inodes' \cup {0}]
               /\ ~made' => \A r \in Paths : ~Exists(r)'
               /\ \A r, s \in Paths : (Exists(r)' /\ dir'[r] = dir'[s]) => r = s
    <3>1. \A r \in Paths : dir'[r] = IF r = q THEN dir[p] ELSE IF r = p THEN 0 ELSE dir[r]
      BY <2>2
    <3>2. dir' \in [Paths -> Inodes' \cup {0}]
      BY <1>1, <2>2
    <3> QED BY <2>2, <3>1, <3>2 DEF Exists
  <2> QED BY <2>1, <2>2
<1> QED BY <1>1, <1>2, <1>3

\* Nothing on the disk changes.
LEMMA DiskSame ==
  ASSUME DiskOK, UNCHANGED <<dir, data, calls>>,
         made' \in BOOLEAN, made' \/ made' = made \/ \A p \in Paths : ~Exists(p)
  PROVE  DiskOK' /\ Inodes' = Inodes /\ Marks' = Marks
BY DEF DiskOK, Inodes, Marks, Exists, Numbered

\* A call that ends leaves no locals.
LEMMA LocalsEnd ==
  ASSUME LocalsOK, NEW c \in Callers, End(c), Inodes \subseteq Inodes', Marks' = Marks
  PROVE  LocalsOK'
<1> USE DEF LocalsOK, End
<1>1. NoJob \in Job /\ NoJob.op = "none" /\ NoJob.src = NoJob.dst
  BY FilesAssumption DEF NoJob, Job
<1>2. pc' \in [Callers -> Places] /\ job' \in [Callers -> Job] /\ met' \in [Callers -> SUBSET Ops]
  BY <1>1 DEF Places
<1>3. /\ text' \in [Callers -> SUBSET Marks'] /\ original' \in [Callers -> SUBSET Marks']
      /\ from' \in [Callers -> Inodes' \cup {0}] /\ fd' \in [Callers -> Inodes' \cup {0}]
  OBVIOUS
<1>4. ASSUME NEW d \in Callers PROVE AtStep(d)'
  <2>1. CASE d = c
    BY <1>1, <2>1 DEF AtStep, StepsOf
  <2>2. CASE d # c
    BY <2>2 DEF AtStep
  <2> QED BY <2>1, <2>2
<1> QED BY <1>2, <1>3, <1>4

\* A call that goes on is at a step of its tool.
LEMMA LocalsGoto ==
  ASSUME LocalsOK, NEW c \in Callers, NEW step \in StepsOf(job[c].op) \cap Places, Goto(c, step),
         from' \in [Callers -> Inodes' \cup {0}], fd' \in [Callers -> Inodes' \cup {0}],
         \A d \in Callers \ {c} : from'[d] = from[d] /\ fd'[d] = fd[d],
         step \in {"copy", "put"} => fd'[c] # 0, step = "copy" => from'[c] # 0,
         Marks' = Marks
  PROVE  LocalsOK'
<1> USE DEF LocalsOK, Goto
<1>1. pc' \in [Callers -> Places]
  OBVIOUS
<1>2. ASSUME NEW d \in Callers PROVE AtStep(d)'
  BY DEF AtStep
<1> QED BY <1>1, <1>2

\* Files and their backups are different paths.
LEMMA PathsDiffer ==
  ASSUME NEW f \in Files, NEW g \in Files
  PROVE  /\ Path(f) \in Paths /\ Backup(f) \in Paths /\ Path(f) # Backup(g)
         /\ f # g => Path(f) # Path(g) /\ Backup(f) # Backup(g)
BY DEF Path, Backup, Paths

\* The marks that a path holds.
LEMMA ContentMarks == ASSUME DiskOK, NEW p \in Paths PROVE Content(p) \in SUBSET Marks
BY DEF DiskOK, Content, Exists

\* The paths that a call works on.
LEMMA JobPaths ==
  ASSUME LocalsOK, NEW c \in Callers
  PROVE  /\ job[c] \in Job /\ job[c].src \in Files /\ job[c].dst \in Files
         /\ Path(job[c].src) \in Paths /\ Path(job[c].dst) \in Paths /\ Target(c) \in Paths
BY PathsDiffer DEF LocalsOK, Job, Target

\* At first there are the initial files and no calls.
LEMMA TypeInit == Init => TypeInv
<1> SUFFICES ASSUME Init PROVE TypeInv
  OBVIOUS
<1>1. Inodes = Files
  BY DEF Init, Inodes
<1>2. NoJob \in Job /\ NoJob.op = "none" /\ NoJob.src = NoJob.dst
  BY FilesAssumption DEF NoJob, Job
<1>3. Numbered
  BY <1>1, FilesAssumption DEF Numbered
<1>4. PICK present \in SUBSET Files :
        /\ ~made => present = {}
        /\ dir = [p \in Paths |-> IF p[2] = "file" /\ p[1] \in present THEN p[1] ELSE 0]
  BY DEF Init
<1>5. \A p \in Paths : p = <<p[1], p[2]>> /\ p[1] \in Files
  BY DEF Paths
<1>6. 0 \notin Files
  BY FilesAssumption
<1>7. DiskOK
  BY <1>1, <1>3, <1>4, <1>5, <1>6 DEF Init, DiskOK, Exists, Marks
<1>8. LocalsOK
  BY <1>1, <1>2 DEF Init, LocalsOK, AtStep, StepsOf, Places
<1> QED BY <1>7, <1>8, TwoHalves

\* What Begin does with the arguments that it chose.
Begun(c, op, src, dst, overwrite, backup, cross) ==
  /\ IF op \in {"write", "copy", "move"} THEN overwrite \in Overwrites ELSE ~overwrite
  /\ op \in {"mkdir", "rmdir", "rmtree"} => src = NoJob.src
  /\ IF op \in {"copy", "move"} THEN SamePath \/ src # dst ELSE src = dst
  /\ op # "move" => ~cross
  /\ op \notin {"edit", "patch"} => ~backup
  /\ job' = [job EXCEPT ![c] = [op |-> op, src |-> src, dst |-> dst, overwrite |-> overwrite,
                                backup |-> backup, cross |-> cross, rest |-> {}]]
  /\ pc' = [pc EXCEPT ![c] = FirstStep(op)]
  /\ met' = [d \in Callers |-> IF d = c THEN {job[e].op : e \in InFlight}
                               ELSE IF d \in InFlight THEN met[d] \cup {op} ELSE {}]

LEMMA BeginsJob ==
  ASSUME NEW c \in Callers, Begin(c)
  PROVE  \E op \in Ops, src \in Files, dst \in Files, overwrite \in Overwrites \cup {FALSE},
            backup \in BOOLEAN, cross \in {FALSE, MayCrossDevice} :
              Begun(c, op, src, dst, overwrite, backup, cross)
BY Zenon DEF Begin, Begun

\* A call begins with a job of its own mark.
LEMMA TypeBegin ==
  ASSUME DiskOK, LocalsOK, NEW c \in Callers, Begin(c)
  PROVE  DiskOK' /\ LocalsOK'
<1>1. Overwrites \cup {FALSE} \subseteq BOOLEAN /\ {FALSE, MayCrossDevice} \subseteq BOOLEAN
  BY SwitchesAssumption
<1>2. PICK op \in Ops, src \in Files, dst \in Files, overwrite \in Overwrites \cup {FALSE},
           backup \in BOOLEAN, cross \in {FALSE, MayCrossDevice} :
             Begun(c, op, src, dst, overwrite, backup, cross)
  BY BeginsJob
<1> USE DEF DiskOK, LocalsOK, Begun
<1>3. Inodes' = Inodes /\ Marks' = Marks \cup {calls + 1} /\ UNCHANGED <<dir, made, data>>
  BY DEF Begin, Inodes, Marks
<1>4. DiskOK'
  BY <1>3 DEF Begin, Exists, Numbered
<1>5. FirstStep(op) \in (StepsOf(op) \cap Places) \ {"idle", "copy", "put"}
  BY OpsAssumption DEF FirstStep, StepsOf, Places
<1>6. ASSUME NEW e \in InFlight PROVE job[e].op \in Ops
  <2>1. job[e].op \in Ops \cup {"none"} /\ pc[e] \in StepsOf(job[e].op) /\ pc[e] # "idle"
    BY DEF InFlight, AtStep, Job
  <2>2. job[e].op # "none"
    BY <2>1, OpsAssumption DEF StepsOf
  <2> QED BY <2>1, <2>2
<1>7. met' \in [Callers -> SUBSET Ops]
  BY <1>2, <1>6 DEF InFlight
<1>8. job' \in [Callers -> Job]
  BY <1>1, <1>2 DEF Job
<1>9. text' \in [Callers -> SUBSET Marks'] /\ UNCHANGED <<original, from, fd>>
  BY <1>3 DEF Begin
<1>10. ASSUME NEW d \in Callers PROVE AtStep(d)'
  <2>1. CASE d = c
    BY <1>2, <1>5, <2>1 DEF AtStep
  <2>2. CASE d # c
    BY <1>2, <1>9, <2>2 DEF AtStep
  <2> QED BY <2>1, <2>2
<1>11. pc' \in [Callers -> Places]
  BY <1>2, <1>5
<1> QED BY <1>3, <1>4, <1>7, <1>8, <1>9, <1>10, <1>11

\* A call that raises changes no file.
LEMMA TypeRaise ==
  ASSUME DiskOK, LocalsOK, NEW c \in Callers, Raise(c), calls' = calls
  PROVE  DiskOK' /\ LocalsOK'
<1>1. DiskOK' /\ Inodes' = Inodes /\ Marks' = Marks
  BY DiskSame DEF Raise, DiskOK
<1> QED BY <1>1, LocalsEnd DEF Raise

\* A call that goes on and leaves the disk and what it has open.
LEMMA TypeGoto ==
  ASSUME DiskOK, LocalsOK, NEW c \in Callers, NEW step \in StepsOf(job[c].op) \cap Places,
         Goto(c, step), step \notin {"copy", "put"},
         UNCHANGED <<dir, data, calls, from, fd>>,
         made' \in BOOLEAN, made' \/ made' = made \/ \A p \in Paths : ~Exists(p)
  PROVE  DiskOK' /\ LocalsOK'
<1>1. DiskOK' /\ Inodes' = Inodes /\ Marks' = Marks
  BY DiskSame
<1> QED BY <1>1, LocalsGoto DEF LocalsOK

\* Every step of a call preserves the types.
LEMMA TypeCallStep ==
  ASSUME DiskOK, LocalsOK, NEW c \in Callers, Step(c)
  PROVE  DiskOK' /\ LocalsOK'
<1>0. AtStep(c) /\ job[c].op \in Ops \cup {"none"} /\ job[c] \in Job
  BY JobPaths DEF LocalsOK, Job
<1>1. CASE Check(c)
  <2>1. CASE Raise(c)
    BY <1>1, <2>1, TypeRaise DEF Check
  <2>2. CASE ~Raise(c)
    <3>1. PICK step \in {"make", Main(job[c].op)} : Goto(c, step)
      BY <1>1, <2>2 DEF Check
    <3>2. step \in StepsOf(job[c].op) \cap Places /\ step \notin {"copy", "put"}
      BY <1>0, <1>1, <3>1, OpsAssumption DEF Check, AtStep, StepsOf, Main, Places
    <3> QED BY <1>1, <2>2, <3>1, <3>2, TypeGoto DEF Check, DiskOK
  <2> QED BY <2>1, <2>2
<1>2. CASE Make(c)
  <2>1. CASE job[c].op = "mkdir"
    <3>1. DiskOK' /\ Inodes' = Inodes /\ Marks' = Marks
      BY <1>2, DiskSame DEF Make
    <3> QED BY <1>2, <2>1, <3>1, LocalsEnd DEF Make
  <2>2. CASE job[c].op # "mkdir"
    <3>1. /\ Main(job[c].op) \in StepsOf(job[c].op) \cap Places
          /\ Main(job[c].op) \notin {"copy", "put"}
      BY <1>0, <1>2, <2>2, OpsAssumption DEF Make, AtStep, StepsOf, Main, Places
    <3> QED BY <1>2, <2>2, <3>1, TypeGoto DEF Make
  <2> QED BY <2>1, <2>2
<1>3. CASE Read(c)
  <2>1. CASE Raise(c)
    BY <1>3, <2>1, TypeRaise DEF Read
  <2>2. CASE ~Raise(c)
    <3> DEFINE p == Path(job[c].src)
               step == IF job[c].backup THEN "copy open" ELSE AfterBackup(c)
    <3>1. /\ original' = [original EXCEPT ![c] = Content(p)]
          /\ text' = IF job[c].op = "edit" THEN [text EXCEPT ![c] = @ \cup Content(p)] ELSE text
          /\ pc' = [pc EXCEPT ![c] = step]
          /\ UNCHANGED <<dir, made, data, job, from, fd, met, calls>>
      BY <1>3, <2>2, Zenon DEF Read
    <3>2. Content(p) \in SUBSET Marks
      BY ContentMarks, JobPaths
    <3>3. step \in StepsOf(job[c].op) \cap Places /\ step \notin {"copy", "put"}
      BY <1>0, <1>3, OpsAssumption DEF Read, AtStep, StepsOf, AfterBackup, Places
    <3>4. DiskOK' /\ Inodes' = Inodes /\ Marks' = Marks
      BY <3>1, DiskSame DEF DiskOK
    <3> HIDE DEF p, step
    <3>5. text' \in [Callers -> SUBSET Marks] /\ original' \in [Callers -> SUBSET Marks]
      BY <3>1, <3>2 DEF LocalsOK
    <3>6. ASSUME NEW d \in Callers PROVE AtStep(d)'
      BY <3>1, <3>3 DEF LocalsOK, AtStep
    <3>7. pc' \in [Callers -> Places]
      BY <3>1, <3>3 DEF LocalsOK
    <3> QED BY <3>1, <3>4, <3>5, <3>6, <3>7 DEF LocalsOK
  <2> QED BY <2>1, <2>2
<1>4. CASE CopyOpen(c)
  <2>1. CASE Raise(c)
    BY <1>4, <2>1, TypeRaise DEF CopyOpen
  <2>2. CASE ~Raise(c)
    <3> DEFINE i == InodeAt(Target(c))
    <3>1. /\ SetFile(Target(c), i, {}) /\ fd' = [fd EXCEPT ![c] = i]
          /\ from' = [from EXCEPT ![c] = dir[Path(job[c].src)]]
          /\ Exists(Path(job[c].src))
          /\ Goto(c, "copy") /\ UNCHANGED <<made, calls>>
      BY <1>4, <2>2 DEF CopyOpen, OpenAt
    <3>2. made
      BY <3>1, JobPaths DEF DiskOK
    <3>3. DiskOK' /\ Inodes \subseteq Inodes' /\ i \in Inodes' /\ Marks' = Marks /\ i # 0
      BY <3>1, <3>2, JobPaths, DiskSetFile, FileSet
    <3>4. dir[Path(job[c].src)] \in Inodes \ {0}
      BY <3>1, JobPaths DEF DiskOK, Exists
    <3> HIDE DEF i
    <3>5. from' \in [Callers -> Inodes' \cup {0}] /\ fd' \in [Callers -> Inodes' \cup {0}]
      BY <3>1, <3>3, <3>4 DEF LocalsOK
    <3>6. \A d \in Callers \ {c} : from'[d] = from[d] /\ fd'[d] = fd[d]
      BY <3>1 DEF LocalsOK
    <3>7. fd'[c] # 0 /\ from'[c] # 0
      BY <3>1, <3>3, <3>4 DEF LocalsOK
    <3>8. "copy" \in StepsOf(job[c].op) \cap Places
      BY <1>0, <1>4, OpsAssumption DEF CopyOpen, AtStep, StepsOf, Places
    <3> QED BY <3>1, <3>3, <3>5, <3>6, <3>7, <3>8, LocalsGoto
  <2> QED BY <2>1, <2>2
<1>5. CASE Copy(c)
  <2>1. from[c] \in Inodes /\ fd[c] \in Inodes
    BY <1>0, <1>5 DEF Copy, AtStep, LocalsOK
  <2>2. data' = [data EXCEPT ![fd[c]] = data[from[c]]] /\ UNCHANGED <<dir, made, calls>>
    BY <1>5 DEF Copy
  <2>3. Inodes' = Inodes /\ Marks' = Marks
    BY <2>2 DEF Inodes, Marks, DiskOK
  <2>4. DiskOK'
    BY <2>1, <2>2, <2>3 DEF DiskOK, Exists, Numbered
  <2>5. CASE job[c].op = "copy"
    BY <1>5, <2>3, <2>4, <2>5, LocalsEnd DEF Copy
  <2>6. CASE job[c].op # "copy"
    <3> DEFINE step == IF job[c].op = "move" THEN "unlink" ELSE AfterBackup(c)
    <3>1. step \in StepsOf(job[c].op) \cap Places /\ step \notin {"copy", "put"}
      BY <1>0, <1>5, <2>6, OpsAssumption DEF Copy, AtStep, StepsOf, AfterBackup, Places
    <3>2. Goto(c, step) /\ UNCHANGED <<from, fd>>
      BY <1>5, <2>6 DEF Copy
    <3> HIDE DEF step
    <3> QED BY <2>3, <2>4, <3>1, <3>2, LocalsGoto DEF LocalsOK
  <2> QED BY <2>5, <2>6
<1>6. CASE Open(c)
  <2>1. CASE ~made
    BY <1>6, <2>1, TypeRaise DEF Open
  <2>2. CASE made
    <3> DEFINE p == Path(job[c].dst)
               i == InodeAt(p)
               kept == IF job[c].op = "append" THEN Content(p) ELSE {}
    <3>1. /\ SetFile(p, i, kept) /\ fd' = [fd EXCEPT ![c] = i]
          /\ Goto(c, "put") /\ UNCHANGED <<made, from, calls>>
      BY <1>6, <2>2 DEF Open, OpenAt
    <3>2. p \in Paths /\ kept \in SUBSET Marks
      BY ContentMarks, JobPaths
    <3>3. DiskOK' /\ Inodes \subseteq Inodes' /\ i \in Inodes' /\ Marks' = Marks /\ i # 0
      BY <2>2, <3>1, <3>2, DiskSetFile, FileSet
    <3> HIDE DEF i
    <3>4. from' \in [Callers -> Inodes' \cup {0}] /\ fd' \in [Callers -> Inodes' \cup {0}]
      BY <3>1, <3>3 DEF LocalsOK
    <3>5. \A d \in Callers \ {c} : from'[d] = from[d] /\ fd'[d] = fd[d]
      BY <3>1 DEF LocalsOK
    <3>6. fd'[c] # 0
      BY <3>1, <3>3 DEF LocalsOK
    <3>7. "put" \in StepsOf(job[c].op) \cap Places
      BY <1>0, <1>6, OpsAssumption DEF Open, AtStep, StepsOf, Places
    <3> QED BY <3>1, <3>3, <3>4, <3>5, <3>6, <3>7, LocalsGoto
  <2> QED BY <2>1, <2>2
<1>7. CASE Put(c)
  <2>1. fd[c] \in Inodes
    BY <1>0, <1>7 DEF Put, AtStep, LocalsOK
  <2>2. PICK left \in SUBSET data[fd[c]] : data' = [data EXCEPT ![fd[c]] = left \cup text[c]]
    BY <1>7 DEF Put
  <2>3. UNCHANGED <<dir, made, calls>> /\ End(c)
    BY <1>7 DEF Put
  <2>4. Inodes' = Inodes /\ Marks' = Marks
    BY <2>2, <2>3 DEF Inodes, Marks, DiskOK
  <2>5. left \cup text[c] \subseteq Marks
    BY <2>1, <2>2 DEF DiskOK, LocalsOK
  <2>6. DiskOK'
    BY <2>1, <2>2, <2>3, <2>4, <2>5 DEF DiskOK, Exists, Numbered
  <2> QED BY <2>3, <2>4, <2>6, LocalsEnd
<1>8. CASE Touch(c)
  <2>1. CASE ~made
    BY <1>8, <2>1, TypeRaise DEF Touch
  <2>2. CASE made
    <3> DEFINE p == Path(job[c].dst)
    <3>1. SetFile(p, InodeAt(p), Content(p)) /\ End(c) /\ UNCHANGED <<made, calls>>
      BY <1>8, <2>2 DEF Touch
    <3>2. p \in Paths /\ Content(p) \in SUBSET Marks
      BY ContentMarks, JobPaths
    <3>3. DiskOK' /\ Inodes \subseteq Inodes' /\ Marks' = Marks
      BY <2>2, <3>1, <3>2, DiskSetFile
    <3> QED BY <3>1, <3>3, LocalsEnd
  <2> QED BY <2>1, <2>2
<1>9. CASE Patch(c)
  <2>1. "patched" \in StepsOf(job[c].op) \cap Places
    BY <1>0, <1>9, OpsAssumption DEF Patch, AtStep, StepsOf, Places
  <2>2. Goto(c, "patched") /\ UNCHANGED <<made, calls, from, fd>>
    BY <1>9 DEF Patch
  <2>3. CASE UNCHANGED <<dir, data>>
    BY <2>1, <2>2, <2>3, TypeGoto DEF DiskOK
  <2>4. CASE ~UNCHANGED <<dir, data>>
    <3> DEFINE p == Path(job[c].src)
    <3>1. PICK left \in SUBSET Content(p) : SetFile(p, NewInode, left \cup text[c])
      BY <1>9, <2>4 DEF Patch
    <3>2. p \in Paths /\ left \cup text[c] \in SUBSET Marks
      BY ContentMarks, JobPaths DEF LocalsOK
    <3>3. made
      BY <1>9, <2>4 DEF Patch
    <3>4. DiskOK' /\ Inodes \subseteq Inodes' /\ Marks' = Marks
      BY <2>2, <3>1, <3>2, <3>3, DiskSetFile
    <3> QED BY <2>1, <2>2, <3>4, LocalsGoto DEF LocalsOK
  <2> QED BY <2>3, <2>4
<1>10. CASE Patched(c)
  BY <1>10, TypeRaise DEF Patched
<1>11. CASE Clear(c)
  <2>1. "rename" \in StepsOf(job[c].op) \cap Places
    BY <1>0, <1>11, OpsAssumption DEF Clear, AtStep, StepsOf, Places
  <2>2. Goto(c, "rename") /\ UNCHANGED <<made, data, calls, from, fd>>
        /\ dir' = IF job[c].overwrite THEN [dir EXCEPT ![Path(job[c].dst)] = 0] ELSE dir
    BY <1>11 DEF Clear
  <2>3. CASE dir' = dir
    BY <2>1, <2>2, <2>3, TypeGoto DEF DiskOK
  <2>4. CASE dir' = [dir EXCEPT ![Path(job[c].dst)] = 0]
    <3>1. DiskOK' /\ Inodes' = Inodes /\ Marks' = Marks
      BY <2>2, <2>4, DiskNames, JobPaths
    <3> QED BY <2>1, <2>2, <3>1, LocalsGoto DEF LocalsOK
  <2> QED BY <2>2, <2>3, <2>4
<1>12. CASE Rename(c)
  <2>1. CASE Raise(c)
    BY <1>12, <2>1, TypeRaise DEF Rename
  <2>2. CASE ~Raise(c) /\ job[c].cross
    <3>1. "copy open" \in StepsOf(job[c].op) \cap Places
      BY <1>0, <1>12, OpsAssumption DEF Rename, AtStep, StepsOf, Places
    <3> QED BY <1>12, <2>2, <3>1, TypeGoto DEF Rename, DiskOK
  <2>3. CASE ~Raise(c) /\ ~job[c].cross
    <3>1. /\ Exists(Path(job[c].src)) /\ UNCHANGED <<made, data, calls>> /\ End(c)
          /\ dir' = [dir EXCEPT ![Path(job[c].src)] = 0,
                                ![Path(job[c].dst)] = dir[Path(job[c].src)]]
      BY <1>12, <2>3 DEF Rename
    <3>2. DiskOK' /\ Inodes' = Inodes /\ Marks' = Marks
      BY <3>1, DiskNames, JobPaths
    <3> QED BY <3>1, <3>2, LocalsEnd
  <2> QED BY <2>1, <2>2, <2>3
<1>13. CASE Unlink(c)
  <2>1. DiskOK' /\ Inodes' = Inodes /\ Marks' = Marks
    BY <1>13, DiskNames, JobPaths DEF Unlink
  <2> QED BY <1>13, <2>1, LocalsEnd DEF Unlink
<1>14. CASE List(c) \/ (Empty(c) /\ ~Raise(c))
  <2>1. \/ Raise(c) /\ calls' = calls
        \/ /\ \/ pc' = [pc EXCEPT ![c] = "empty"] /\ dir' = dir
              \/ pc' = pc /\ \E p \in Paths : dir' = [dir EXCEPT ![p] = 0]
           /\ \E rest \in SUBSET Paths : job' = [job EXCEPT ![c].rest = rest]
           /\ UNCHANGED <<made, data, text, original, from, fd, met, calls>>
    <3>1. CASE List(c)
      BY <1>14, <3>1 DEF List
    <3>2. CASE Empty(c) /\ ~Raise(c)
      BY <3>2, <1>0 DEF Empty, Job
    <3> QED BY <1>14, <3>1, <3>2
  <2>2. CASE Raise(c) /\ calls' = calls
    BY <2>2, TypeRaise
  <2>3. CASE ~(Raise(c) /\ calls' = calls)
    <3>1. DiskOK' /\ Inodes' = Inodes /\ Marks' = Marks
      BY <2>1, <2>3, DiskNames, DiskSame DEF DiskOK
    <3>2. PICK rest \in SUBSET Paths : job' = [job EXCEPT ![c].rest = rest]
      BY <2>1, <2>3
    <3> DEFINE j == [job[c] EXCEPT !.rest = rest]
    <3>3. j \in Job /\ j.op = job[c].op /\ j.src = job[c].src /\ j.dst = job[c].dst
      BY <1>0 DEF Job
    <3>4. job' = [job EXCEPT ![c] = j]
      BY <3>2
    <3> HIDE DEF j
    <3>5. job' \in [Callers -> Job] /\ pc' \in [Callers -> Places]
      BY <2>1, <2>3, <3>3, <3>4 DEF LocalsOK, Places
    <3>6. pc'[c] \in {"empty", pc[c]} /\ job[c].op = "rmtree"
      BY <1>0, <1>14, <2>1, <2>3, OpsAssumption DEF List, Empty, AtStep, StepsOf, LocalsOK
    <3>7. ASSUME NEW d \in Callers PROVE AtStep(d)'
      <4>1. CASE d = c
        BY <1>0, <2>1, <2>3, <3>3, <3>4, <3>6, <4>1 DEF LocalsOK, AtStep, StepsOf
      <4>2. CASE d # c
        BY <2>1, <2>3, <3>4, <4>2 DEF LocalsOK, AtStep
      <4> QED BY <4>1, <4>2
    <3> QED BY <2>1, <2>3, <3>1, <3>5, <3>7 DEF LocalsOK
  <2> QED BY <2>2, <2>3
<1>15. CASE Empty(c) /\ Raise(c)
  BY <1>15, TypeRaise DEF Empty
<1>16. CASE RemoveDirectory(c)
  <2>1. DiskOK' /\ Inodes' = Inodes /\ Marks' = Marks
    BY <1>16, DiskSame DEF RemoveDirectory, DiskOK
  <2> QED BY <1>16, <2>1, LocalsEnd DEF RemoveDirectory
<1> QED BY <1>1, <1>2, <1>3, <1>4, <1>5, <1>6, <1>7, <1>8, <1>9, <1>10, <1>11, <1>12, <1>13,
           <1>14, <1>15, <1>16 DEF Step

\* Every step preserves the types.
LEMMA TypeStep == TypeInv /\ [Next]_vars => TypeInv'
<1> SUFFICES ASSUME DiskOK, LocalsOK, [Next]_vars PROVE DiskOK' /\ LocalsOK'
  BY TwoHalves, PTL
<1>1. ASSUME NEW c \in Callers, Begin(c) PROVE DiskOK' /\ LocalsOK'
  BY <1>1, TypeBegin
<1>2. ASSUME NEW c \in Callers, Step(c) PROVE DiskOK' /\ LocalsOK'
  BY <1>2, TypeCallStep
<1>3. ASSUME UNCHANGED <<dir, made, data, calls>> PROVE DiskOK' /\ Inodes' = Inodes /\ Marks' = Marks
  BY <1>3, DiskSame DEF DiskOK
<1>4. CASE Crash
  <2>1. NoJob \in Job /\ NoJob.op = "none" /\ NoJob.src = NoJob.dst
    BY FilesAssumption DEF NoJob, Job
  <2> QED BY <1>3, <1>4, <2>1 DEF Crash, LocalsOK, AtStep, StepsOf, Places
<1>5. CASE UNCHANGED vars
  BY <1>3, <1>5 DEF vars, LocalsOK, AtStep
<1> QED BY <1>1, <1>2, <1>4, <1>5 DEF Next

\* Every variable keeps its type, a path names an inode that no other path names, and
\* every call is at a step of its tool.
THEOREM TypeCorrect == Spec => []TypeInv
<1> QED BY TypeInit, TypeStep, PTL DEF Spec

\* The type invariant that the run checks.
THEOREM TypesHold == Spec => []TypeOK
<1>1. TypeInv => TypeOK
  BY DEF TypeInv
<1> QED BY <1>1, TypeCorrect, PTL

-----------------------------------------------------------------------------
(* Calls at the same time, and what each knows of the files.                 *)

\* Two calls in flight have met.
Meet == \A c, d \in InFlight : c # d => job[d].op \in met[c]

\* A backup under way.  Until the copy is made the file holds what was read; from then
\* on the backup does, and what is written is not the backup.
BackupSafe(c) ==
  (job[c].op \in {"edit", "patch"} /\ job[c].backup /\ met[c] \subseteq Harmless) =>
    /\ pc[c] \in {"copy open", "copy"} => original[c] \subseteq Content(Path(job[c].src))
    /\ pc[c] = "copy" => from[c] = dir[Path(job[c].src)] /\ fd[c] = dir[Backup(job[c].src)]
    /\ pc[c] \in {"open", "put", "patch", "patched"} =>
         original[c] \subseteq Content(Backup(job[c].src))
    /\ pc[c] = "put" => fd[c] # dir[Backup(job[c].src)]

\* A call that is not to overwrite finds no destination until it opens it, and then an
\* empty one.
TargetNew(c) ==
  (job[c].op \in {"write", "copy", "move"} /\ ~job[c].overwrite /\ met[c] = {}) =>
    /\ pc[c] \in {"make", "open", "copy open", "clear", "rename"} => ~Exists(Path(job[c].dst))
    /\ pc[c] \in {"put", "copy"} => data[fd[c]] = {}

\* A copy reads the source and writes the destination, which then holds all of it.
CopyHeld(c) ==
  (job[c].op \in {"copy", "move"} /\ met[c] = {}) =>
    /\ pc[c] \in {"copy", "unlink"} => job[c].src # job[c].dst
    /\ pc[c] = "copy" => from[c] = dir[Path(job[c].src)] /\ fd[c] = dir[Path(job[c].dst)]
    /\ pc[c] = "unlink" => Content(Path(job[c].src)) \subseteq Content(Path(job[c].dst))

\* A call that has read nothing has nothing to keep.
Clean == \A c \in Callers : pc[c] \in {"idle", "read"} => original[c] = {}

KeptInv == Meet /\ Clean /\ \A c \in Callers : BackupSafe(c) /\ TargetNew(c) /\ CopyHeld(c)

\* A step of a call leaves the other calls' locals alone, and ends its call or keeps
\* its job.
LEMMA StepShape ==
  ASSUME LocalsOK, NEW c \in Callers, Step(c)
  PROVE  /\ pc[c] # "idle"
         /\ \A d \in Callers \ {c} : /\ pc'[d] = pc[d] /\ job'[d] = job[d] /\ met'[d] = met[d]
                                     /\ original'[d] = original[d]
                                     /\ from'[d] = from[d] /\ fd'[d] = fd[d]
         /\ \/ End(c)
            \/ /\ pc'[c] \notin {"idle", "read"} /\ met'[c] = met[c]
               /\ job'[c].op = job[c].op
               /\ job'[c].src = job[c].src /\ job'[c].dst = job[c].dst
               /\ job'[c].overwrite = job[c].overwrite /\ job'[c].backup = job[c].backup
<1> USE DEF LocalsOK
<1>1. job[c] \in Job
  OBVIOUS
<1>2. CASE Check(c)
  <2>1. Raise(c) \/ \E step \in {"make", Main(job[c].op)} : Goto(c, step) /\ UNCHANGED <<from, fd>>
    BY <1>2 DEF Check
  <2>2. AtStep(c) /\ job[c].op \in Ops \cup {"none"}
    BY <1>1 DEF Job
  <2>3. Main(job[c].op) \notin {"idle", "read"}
    BY <1>2, <2>2, OpsAssumption DEF Check, Main, AtStep, StepsOf
  <2>4. pc[c] = "check"
    BY <1>2 DEF Check
  <2> QED BY <2>1, <2>3, <2>4 DEF Goto, Raise, End
<1>3. CASE Make(c)
  <2>1. End(c) \/ (job[c].op # "mkdir" /\ Goto(c, Main(job[c].op)) /\ UNCHANGED <<from, fd>>)
    BY <1>3 DEF Make
  <2>2. AtStep(c) /\ job[c].op \in Ops \cup {"none"}
    BY <1>1 DEF Job
  <2>3. job[c].op # "mkdir" => Main(job[c].op) \notin {"idle", "read"}
    BY <1>3, <2>2, OpsAssumption DEF Make, Main, AtStep, StepsOf
  <2>4. pc[c] = "make"
    BY <1>3 DEF Make
  <2> QED BY <2>1, <2>3, <2>4 DEF Goto, End
<1>4. CASE Read(c)
  <2>1. \/ Raise(c)
        \/ /\ \E new : original' = [original EXCEPT ![c] = new]
           /\ \E step \in {"copy open", "open", "patch"} : pc' = [pc EXCEPT ![c] = step]
           /\ UNCHANGED <<job, from, fd, met>>
    BY <1>4, Zenon DEF Read, AfterBackup
  <2>2. pc[c] = "read"
    BY <1>4 DEF Read
  <2> QED BY <2>1, <2>2 DEF Raise, End
<1>5. CASE CopyOpen(c) \/ Open(c)
  <2>1. \/ Raise(c)
        \/ /\ \E step \in {"copy", "put"} : Goto(c, step)
           /\ \E i : fd' = [fd EXCEPT ![c] = i]
           /\ from' = from \/ \E i : from' = [from EXCEPT ![c] = i]
    BY <1>5 DEF CopyOpen, Open, OpenAt
  <2>2. pc[c] \in {"copy open", "open"}
    BY <1>5 DEF CopyOpen, Open
  <2> QED BY <2>1, <2>2 DEF Goto, Raise, End
<1>6. CASE Copy(c)
  <2>1. \/ End(c)
        \/ /\ \E step \in {"unlink", "open", "patch"} : Goto(c, step)
           /\ UNCHANGED <<from, fd>>
    BY <1>6 DEF Copy, AfterBackup
  <2>2. pc[c] = "copy"
    BY <1>6 DEF Copy
  <2> QED BY <2>1, <2>2 DEF Goto, End
<1>7. CASE Put(c) \/ Touch(c) \/ Patched(c) \/ Unlink(c) \/ RemoveDirectory(c)
  <2>1. End(c) /\ pc[c] # "idle"
    BY <1>7 DEF Put, Touch, Patched, Unlink, RemoveDirectory, Raise
  <2> QED BY <2>1 DEF End
<1>8. CASE Patch(c) \/ Clear(c)
  <2>1. /\ \E step \in {"patched", "rename"} : Goto(c, step)
        /\ UNCHANGED <<from, fd>> /\ pc[c] \in {"patch", "clear"}
    BY <1>8 DEF Patch, Clear
  <2> QED BY <2>1 DEF Goto
<1>9. CASE Rename(c)
  <2>1. End(c) \/ (Goto(c, "copy open") /\ UNCHANGED <<from, fd>>)
    BY <1>9 DEF Rename, Raise
  <2>2. pc[c] = "rename"
    BY <1>9 DEF Rename
  <2> QED BY <2>1, <2>2 DEF Goto, End
<1>10. CASE List(c) \/ Empty(c)
  <2>1. \/ Raise(c)
        \/ /\ \E rest : job' = [job EXCEPT ![c].rest = rest]
           /\ pc' \in {pc, [pc EXCEPT ![c] = "empty"]}
           /\ UNCHANGED <<original, from, fd, met>>
    <3>1. CASE List(c)
      BY <3>1 DEF List
    <3>2. CASE Empty(c)
      BY <3>2 DEF Empty
    <3> QED BY <1>10, <3>1, <3>2
  <2>2. pc[c] \in {"list", "empty"}
    BY <1>10 DEF List, Empty
  <2>3. CASE Raise(c)
    BY <2>2, <2>3 DEF Raise, End
  <2>4. CASE ~Raise(c)
    <3>1. PICK rest : job' = [job EXCEPT ![c].rest = rest]
      BY <2>1, <2>4
    <3>2. job'[c] = [job[c] EXCEPT !.rest = rest] /\ \A d \in Callers \ {c} : job'[d] = job[d]
      BY <3>1
    <3>3. /\ job'[c].op = job[c].op
          /\ job'[c].src = job[c].src /\ job'[c].dst = job[c].dst
          /\ job'[c].overwrite = job[c].overwrite /\ job'[c].backup = job[c].backup
      BY <1>1, <3>2 DEF Job
    <3> QED BY <2>1, <2>2, <2>4, <3>2, <3>3
  <2> QED BY <2>3, <2>4
<1> QED BY <1>2, <1>3, <1>4, <1>5, <1>6, <1>7, <1>8, <1>9, <1>10 DEF Step

\* The harmless tools only add: no path loses its inode, no inode its marks, and no
\* backup is touched.
LEMMA HarmlessAdds ==
  ASSUME DiskOK, LocalsOK, NEW c \in Callers, Step(c), job[c].op \in Harmless
  PROVE  /\ \A p \in Paths : Exists(p) => dir'[p] = dir[p]
         /\ \A i \in Inodes : data[i] \subseteq data'[i]
         /\ \A f \in Files : dir'[Backup(f)] = dir[Backup(f)]
         /\ \A p \in Paths : Content(p) \subseteq Content(p)'
<1>1. ASSUME \A p \in Paths : Exists(p) => dir'[p] = dir[p],
             \A i \in Inodes : data[i] \subseteq data'[i]
      PROVE  \A p \in Paths : Content(p) \subseteq Content(p)'
  BY <1>1 DEF DiskOK, Content, Exists
<1>2. CASE UNCHANGED <<dir, data>>
  BY <1>1, <1>2
<1>3. ASSUME NEW p \in {Path(f) : f \in Files}, SetFile(p, InodeAt(p), Content(p))
      PROVE  /\ \A q \in Paths : Exists(q) => dir'[q] = dir[q]
             /\ \A i \in Inodes : data[i] \subseteq data'[i]
             /\ \A f \in Files : dir'[Backup(f)] = dir[Backup(f)]
  <2>1. p \in Paths /\ \A f \in Files : Backup(f) \in Paths \ {p}
    BY PathsDiffer
  <2>2. /\ dir'[p] = InodeAt(p) /\ \A q \in Paths \ {p} : dir'[q] = dir[q]
        /\ InodeAt(p) = dir[p] \/ InodeAt(p) \notin Inodes
        /\ data'[InodeAt(p)] = Content(p)
        /\ \A i \in Inodes \ {InodeAt(p)} : data'[i] = data[i]
    BY <1>3, <2>1, FileSet
  <2>3. Exists(p) => InodeAt(p) = dir[p] /\ Content(p) = data[dir[p]]
    BY DEF InodeAt, Content
  <2>4. dir[p] \in Inodes => Exists(p)
    BY InodesFresh DEF Exists
  <2> QED BY <2>1, <2>2, <2>3, <2>4
<1>4. pc[c] \in StepsOf(job[c].op)
  BY DEF LocalsOK, AtStep
<1>5. pc[c] \in {"check", "make", "open", "put", "touch", "rmdir"}
      /\ (pc[c] \in {"open", "put"} => job[c].op = "append")
  BY <1>4 DEF Harmless, StepsOf
<1>6. CASE Put(c)
  <2>1. fd[c] \in Inodes /\ job[c].op = "append"
    BY <1>5, <1>6 DEF Put, LocalsOK, AtStep
  <2>2. data' = [data EXCEPT ![fd[c]] = data[fd[c]] \cup text[c]] /\ dir' = dir
    BY <1>6, <2>1 DEF Put
  <2> QED BY <1>1, <2>1, <2>2 DEF DiskOK
<1>7. CASE Open(c)
  <2>1. job[c].op = "append"
    BY <1>5, <1>7 DEF Open
  <2> QED BY <1>1, <1>2, <1>3, <1>7, <2>1, JobPaths DEF Open, OpenAt, Raise
<1>8. CASE Touch(c)
  BY <1>1, <1>2, <1>3, <1>8, JobPaths DEF Touch, Raise
<1>9. CASE Check(c) \/ Make(c) \/ RemoveDirectory(c)
  BY <1>2, <1>9 DEF Check, Make, RemoveDirectory, Raise
<1> QED
  BY <1>5, <1>6, <1>7, <1>8, <1>9
  DEF Step, Read, CopyOpen, Copy, Patch, Patched, Clear, Rename, Unlink, List, Empty

\* The step of a backup itself keeps what was read, in the file or in the backup.
LEMMA BackupOwn ==
  ASSUME DiskOK, LocalsOK, NEW c \in Callers, Step(c), Clean, BackupSafe(c)
  PROVE  BackupSafe(c)'
<1> USE DEF LocalsOK
<1>1. CASE End(c)
  BY <1>1 DEF End, NoJob, BackupSafe
<1> SUFFICES ASSUME ~End(c), job[c].op \in {"edit", "patch"}, job[c].backup,
                    met[c] \subseteq Harmless
             PROVE  BackupSafe(c)'
  BY <1>1, StepShape DEF BackupSafe
<1> DEFINE src == job[c].src
<1>2. /\ src \in Files /\ Path(src) \in Paths /\ Backup(src) \in Paths /\ Path(src) # Backup(src)
      /\ job[c].dst = src /\ Target(c) = Backup(src)
      /\ pc[c] \in StepsOf(job[c].op)
  BY JobPaths, PathsDiffer DEF AtStep, Target
<1>3. src' = src
  BY StepShape
<1>4. /\ pc[c] \in {"read", "copy open", "copy", "open", "put", "patch", "patched"}
      /\ pc[c] = "open" => job[c].op = "edit"
  BY <1>2 DEF StepsOf
<1>5. CASE Read(c)
  <2>1. /\ original' = [original EXCEPT ![c] = Content(Path(src))]
        /\ pc' = [pc EXCEPT ![c] = "copy open"] /\ UNCHANGED <<dir, data>>
    BY <1>5, Zenon DEF Read, Raise
  <2>2. Content(Path(src))' = Content(Path(src))
    BY <1>3, <2>1 DEF Content, Exists
  <2> QED BY <1>3, <2>1, <2>2 DEF BackupSafe
<1>6. CASE CopyOpen(c)
  <2>1. /\ SetFile(Backup(src), InodeAt(Backup(src)), {})
        /\ fd' = [fd EXCEPT ![c] = InodeAt(Backup(src))]
        /\ from' = [from EXCEPT ![c] = dir[Path(src)]]
        /\ pc[c] = "copy open" /\ pc' = [pc EXCEPT ![c] = "copy"] /\ original' = original
    BY <1>2, <1>6 DEF CopyOpen, OpenAt, Goto, Raise
  <2>2. /\ Content(Path(src))' = Content(Path(src)) /\ dir'[Path(src)] = dir[Path(src)]
        /\ dir'[Backup(src)] = InodeAt(Backup(src))
    <3>1. PICK f \in Files : f = src
      BY <1>2
    <3>2. Backup(f) \in Paths /\ Path(f) \in Paths \ {Backup(f)}
          /\ SetFile(Backup(f), InodeAt(Backup(f)), {})
      BY <1>2, <2>1, <3>1
    <3>3. /\ Content(Path(f))' = Content(Path(f)) /\ dir'[Path(f)] = dir[Path(f)]
          /\ dir'[Backup(f)] = InodeAt(Backup(f))
      BY <3>2, FileSet
    <3> QED BY <1>3, <3>1, <3>3
  <2>3. original[c] \subseteq Content(Path(src))
    BY <2>1 DEF BackupSafe
  <2> QED BY <1>3, <2>1, <2>2, <2>3 DEF BackupSafe
<1>7. CASE Copy(c)
  <2>1. /\ data' = [data EXCEPT ![fd[c]] = data[from[c]]] /\ dir' = dir
        /\ pc[c] = "copy" /\ pc'[c] \in {"open", "patch"} /\ original' = original
    BY <1>7 DEF Copy, Goto, AfterBackup
  <2>2. /\ from[c] = dir[Path(src)] /\ fd[c] = dir[Backup(src)] /\ fd[c] # 0 /\ from[c] # 0
        /\ fd[c] \in Inodes /\ original[c] \subseteq Content(Path(src))
    BY <2>1 DEF BackupSafe, AtStep
  <2>3. original[c] \subseteq data'[dir[Backup(src)]] /\ dir[Backup(src)] # 0
    BY <2>1, <2>2 DEF Content, Exists, DiskOK
  <2>4. original'[c] \subseteq Content(Backup(src))'
    BY <1>3, <2>1, <2>3 DEF Content, Exists
  <2> QED BY <1>3, <2>1, <2>4 DEF BackupSafe
<1>8. CASE Open(c)
  <2>1. /\ SetFile(Path(src), InodeAt(Path(src)), {})
        /\ fd' = [fd EXCEPT ![c] = InodeAt(Path(src))]
        /\ pc[c] = "open" /\ pc' = [pc EXCEPT ![c] = "put"] /\ original' = original
    BY <1>2, <1>4, <1>8 DEF Open, OpenAt, Goto, Raise
  <2>2. Content(Backup(src))' = Content(Backup(src)) /\ dir'[Backup(src)] # InodeAt(Path(src))
    <3>1. PICK f \in Files : f = src
      BY <1>2
    <3>2. Path(f) \in Paths /\ Backup(f) \in Paths \ {Path(f)}
          /\ SetFile(Path(f), InodeAt(Path(f)), {})
      BY <1>2, <2>1, <3>1
    <3>3. /\ Content(Backup(f))' = Content(Backup(f))
          /\ dir[Backup(f)] # InodeAt(Path(f)) /\ dir'[Backup(f)] = dir[Backup(f)]
      BY <3>2, FileSet
    <3> QED BY <1>3, <3>1, <3>3
  <2>3. original[c] \subseteq Content(Backup(src))
    BY <2>1 DEF BackupSafe
  <2> QED BY <1>3, <2>1, <2>2, <2>3 DEF BackupSafe
<1>9. CASE Patch(c)
  <2>1. /\ UNCHANGED <<dir, data>> \/ \E new : SetFile(Path(src), NewInode, new)
        /\ pc[c] = "patch" /\ pc' = [pc EXCEPT ![c] = "patched"] /\ original' = original
    BY <1>9 DEF Patch, Goto
  <2>2. Content(Backup(src))' = Content(Backup(src))
    <3>1. PICK f \in Files : f = src
      BY <1>2
    <3>2. CASE UNCHANGED <<dir, data>>
      BY <1>3, <3>2 DEF Content, Exists
    <3>3. CASE \E new : SetFile(Path(src), NewInode, new)
      <4>1. Content(Backup(f))' = Content(Backup(f))
        BY <1>2, <3>1, <3>3, FileSet
      <4> QED BY <1>3, <3>1, <4>1
    <3> QED BY <2>1, <3>2, <3>3
  <2>3. original[c] \subseteq Content(Backup(src))
    BY <2>1 DEF BackupSafe
  <2> QED BY <1>3, <2>1, <2>2, <2>3 DEF BackupSafe
<1> QED
  BY <1>4, <1>5, <1>6, <1>7, <1>8, <1>9
  DEF Step, Check, Make, Put, Touch, Patched, Clear, Rename, Unlink, List, Empty,
      RemoveDirectory, Raise

\* The step of a call that is not to overwrite keeps its destination new.
LEMMA TargetOwn ==
  ASSUME DiskOK, LocalsOK, NEW c \in Callers, Step(c), TargetNew(c)
  PROVE  TargetNew(c)'
<1> USE DEF LocalsOK
<1>1. CASE End(c)
  BY <1>1 DEF End, NoJob, TargetNew
<1> SUFFICES ASSUME ~End(c), job[c].op \in {"write", "copy", "move"}, ~job[c].overwrite,
                    met[c] = {}
             PROVE  TargetNew(c)'
  BY <1>1, StepShape DEF TargetNew
<1> PICK f \in Files : f = job[c].dst
  BY JobPaths
<1>2. Path(f) \in Paths /\ Target(c) = Path(f) /\ pc[c] \in StepsOf(job[c].op)
  BY PathsDiffer DEF AtStep, Target
<1>3. job'[c].dst = f
  BY StepShape
<1>4. pc[c] \in {"check", "make", "open", "put", "copy open", "copy", "clear", "rename", "unlink"}
  BY <1>2 DEF StepsOf
<1>5. ASSUME UNCHANGED dir, pc'[c] \notin {"put", "copy"},
             ~Exists(Path(f)) \/ pc'[c] = "unlink"
      PROVE  TargetNew(c)'
  BY <1>3, <1>5 DEF TargetNew, Exists
<1>6. CASE Check(c)
  <2>1. ~Exists(Path(f)) /\ dir' = dir /\ \E step \in {"make", Main(job[c].op)} : Goto(c, step)
    BY <1>6 DEF Check, Raise
  <2>2. Main(job[c].op) \notin {"put", "copy"}
    BY DEF Main
  <2> QED BY <1>5, <2>1, <2>2 DEF Goto
<1>7. CASE Make(c)
  <2>1. pc[c] = "make" /\ dir' = dir /\ Goto(c, Main(job[c].op))
    BY <1>7 DEF Make
  <2>2. Main(job[c].op) \notin {"put", "copy"}
    BY DEF Main
  <2>3. ~Exists(Path(f))
    BY <2>1 DEF TargetNew
  <2> QED BY <1>5, <2>1, <2>2, <2>3 DEF Goto
<1>8. CASE Clear(c) \/ Rename(c)
  <2>1. pc[c] \in {"clear", "rename"} /\ dir' = dir /\ \E step \in {"rename", "copy open"} : Goto(c, step)
    BY <1>8 DEF Clear, Rename, Raise
  <2>2. ~Exists(Path(f))
    BY <2>1 DEF TargetNew
  <2> QED BY <1>5, <2>1, <2>2 DEF Goto
<1>9. CASE Copy(c)
  <2>1. pc[c] = "copy"
    BY <1>9 DEF Copy
  <2>2. job[c].op # "write"
    BY <1>2, <2>1 DEF StepsOf
  <2>3. job[c].op = "copy" => End(c)
    BY <1>9 DEF Copy
  <2>4. job[c].op = "move"
    BY <2>2, <2>3
  <2>5. pc'[c] = "unlink" /\ dir' = dir
    BY <1>9, <2>4 DEF Copy, Goto
  <2> QED BY <1>5, <2>5
<1>10. CASE CopyOpen(c) \/ Open(c)
  <2>1. /\ SetFile(Path(f), InodeAt(Path(f)), {})
        /\ fd' = [fd EXCEPT ![c] = InodeAt(Path(f))]
        /\ \E step \in {"copy", "put"} : pc' = [pc EXCEPT ![c] = step]
    BY <1>2, <1>10 DEF CopyOpen, Open, OpenAt, Goto, Raise
  <2>2. data'[InodeAt(Path(f))] = {}
    BY <1>2, <2>1, FileSet
  <2> QED BY <2>1, <2>2 DEF TargetNew
<1> QED
  BY <1>4, <1>6, <1>7, <1>8, <1>9, <1>10
  DEF Step, Read, Put, Touch, Patch, Patched, Unlink, List, Empty, RemoveDirectory, Raise

\* The step of a copy or a move keeps hold of its source until the destination has it all.
LEMMA CopyOwn ==
  ASSUME DiskOK, LocalsOK, NEW c \in Callers, Step(c), CopyHeld(c)
  PROVE  CopyHeld(c)'
<1> USE DEF LocalsOK
<1>1. CASE End(c)
  BY <1>1 DEF End, NoJob, CopyHeld
<1> SUFFICES ASSUME ~End(c), job[c].op \in {"copy", "move"}, met[c] = {}
             PROVE  CopyHeld(c)'
  BY <1>1, StepShape DEF CopyHeld
<1> PICK f \in Files, g \in Files : f = job[c].src /\ g = job[c].dst
  BY JobPaths
<1>2. /\ Path(f) \in Paths /\ Path(g) \in Paths /\ Target(c) = Path(g)
      /\ pc[c] \in StepsOf(job[c].op)
  BY PathsDiffer DEF AtStep, Target
<1>3. job'[c].src = f /\ job'[c].dst = g
  BY StepShape
<1>4. pc[c] \in {"check", "make", "copy open", "copy", "clear", "rename", "unlink"}
  BY <1>2 DEF StepsOf
<1>5. CASE CopyOpen(c)
  <2>1. /\ SetFile(Path(g), InodeAt(Path(g)), {})
        /\ fd' = [fd EXCEPT ![c] = InodeAt(Path(g))]
        /\ from' = [from EXCEPT ![c] = dir[Path(f)]]
        /\ Exists(Path(f)) /\ dir[Path(f)] # dir[Path(g)]
        /\ pc' = [pc EXCEPT ![c] = "copy"]
    BY <1>2, <1>5 DEF CopyOpen, OpenAt, Goto, Raise
  <2>2. f # g /\ Path(f) # Path(g)
    BY <2>1
  <2>3. dir'[Path(f)] = dir[Path(f)] /\ dir'[Path(g)] = InodeAt(Path(g))
    BY <1>2, <2>1, <2>2, FileSet
  <2> QED BY <1>3, <2>1, <2>2, <2>3 DEF CopyHeld
<1>6. CASE Copy(c)
  <2>1. /\ data' = [data EXCEPT ![fd[c]] = data[from[c]]] /\ dir' = dir
        /\ pc[c] = "copy" /\ pc'[c] = "unlink"
    BY <1>6 DEF Copy, Goto
  <2>2. /\ from[c] = dir[Path(f)] /\ fd[c] = dir[Path(g)] /\ f # g
        /\ from[c] # 0 /\ fd[c] # 0 /\ from[c] \in Inodes /\ fd[c] \in Inodes
    BY <2>1 DEF CopyHeld, AtStep
  <2>3. dir[Path(f)] # dir[Path(g)]
    BY <1>2, <2>2, PathsDiffer DEF DiskOK, Exists
  <2>4. Content(Path(f))' = data[from[c]] /\ Content(Path(g))' = data[from[c]]
    BY <2>1, <2>2, <2>3 DEF Content, Exists, DiskOK
  <2> QED BY <1>3, <2>1, <2>2, <2>4 DEF CopyHeld
<1>7. CASE Check(c) \/ Make(c) \/ Clear(c) \/ Rename(c)
  <2>1. Main(job[c].op) \notin {"copy", "unlink"}
    BY DEF Main
  <2>2. pc'[c] \notin {"copy", "unlink"}
    BY <1>7, <2>1 DEF Check, Make, Clear, Rename, Goto, Raise
  <2> QED BY <2>2 DEF CopyHeld
<1> QED
  BY <1>4, <1>5, <1>6, <1>7
  DEF Step, Read, Open, Put, Touch, Patch, Patched, Unlink, List, Empty, RemoveDirectory, Raise

-----------------------------------------------------------------------------
(* The inductive invariant, and what follows from it.                        *)

LEMMA KeptInit == Init => KeptInv
BY DEF Init, KeptInv, Meet, InFlight, Clean, BackupSafe, TargetNew, CopyHeld

\* A call that begins meets the calls in flight, and has nothing to keep yet.
LEMMA KeptBegin ==
  ASSUME DiskOK, LocalsOK, KeptInv, NEW c \in Callers, Begin(c)
  PROVE  KeptInv'
<1> USE DEF LocalsOK, KeptInv
<1>1. PICK op \in Ops, src \in Files, dst \in Files, overwrite \in Overwrites \cup {FALSE},
           backup \in BOOLEAN, cross \in {FALSE, MayCrossDevice} :
             Begun(c, op, src, dst, overwrite, backup, cross)
  BY BeginsJob
<1> USE DEF Begun
<1>2. job'[c].op = op /\ \A d \in Callers \ {c} : job'[d] = job[d] /\ pc'[d] = pc[d]
  BY <1>1
<1>3. pc[c] = "idle" /\ UNCHANGED <<dir, data, original, from, fd>>
  BY DEF Begin
<1>4. pc'[c] \in {"read", "remove", "make", "rmdir", "list", "check"}
      /\ (op \in {"write", "copy", "move"} => pc'[c] = "check")
      /\ (op \in {"edit", "patch"} => pc'[c] = "read")
  BY <1>1, OpsAssumption DEF FirstStep
<1>5. Meet'
  BY <1>1, <1>2, <1>3 DEF Meet, InFlight
<1>6. Clean'
  BY <1>2, <1>3 DEF Clean
<1>7. ASSUME NEW d \in Callers PROVE (BackupSafe(d) /\ TargetNew(d) /\ CopyHeld(d))'
  <2>1. CASE d = c
    BY <1>2, <1>4, <2>1 DEF BackupSafe, TargetNew, CopyHeld
  <2>2. CASE d # c /\ d \in InFlight
    <3>1. met'[d] = met[d] \cup {op}
      BY <1>1, <2>2
    <3>2. BackupSafe(d)'
      BY <1>2, <1>3, <2>2, <3>1 DEF BackupSafe, Content, Exists
    <3> QED BY <3>1, <3>2 DEF TargetNew, CopyHeld
  <2>3. CASE d # c /\ d \notin InFlight
    <3>1. job[d].op = "none"
      <4>1. pc[d] \in StepsOf(job[d].op) /\ pc[d] = "idle" /\ job[d].op \in Ops \cup {"none"}
        BY <2>3 DEF AtStep, InFlight, Job
      <4> QED BY <4>1, OpsAssumption DEF StepsOf
    <3> QED BY <1>2, <2>3, <3>1 DEF BackupSafe, TargetNew, CopyHeld
  <2> QED BY <2>1, <2>2, <2>3
<1> QED BY <1>5, <1>6, <1>7

\* A step of a call keeps what the call itself knows; another call that was in flight has
\* met it, so that it knows something only if the step is of a harmless tool.
LEMMA KeptCallStep ==
  ASSUME DiskOK, LocalsOK, KeptInv, NEW c \in Callers, Step(c)
  PROVE  KeptInv'
<1> USE DEF LocalsOK, KeptInv
<1>1. Meet'
  <2>1. InFlight' \subseteq InFlight /\ \A d \in InFlight' : met'[d] = met[d] /\ job'[d].op = job[d].op
    BY StepShape DEF InFlight, End
  <2> QED BY <2>1 DEF Meet
<1>2. Clean'
  BY StepShape DEF Clean, End
<1>3. BackupSafe(c)' /\ TargetNew(c)' /\ CopyHeld(c)'
  BY BackupOwn, TargetOwn, CopyOwn
<1>4. ASSUME NEW d \in Callers \ {c} PROVE (BackupSafe(d) /\ TargetNew(d) /\ CopyHeld(d))'
  <2>1. /\ pc'[d] = pc[d] /\ job'[d] = job[d] /\ met'[d] = met[d] /\ original'[d] = original[d]
        /\ from'[d] = from[d] /\ fd'[d] = fd[d]
    BY StepShape
  <2>2. CASE d \notin InFlight
    <3>1. pc[d] = "idle"
      BY <2>2 DEF InFlight
    <3> QED BY <2>1, <3>1 DEF BackupSafe, TargetNew, CopyHeld
  <2>3. CASE d \in InFlight
    <3>1. job[c].op \in met[d]
      BY <2>3, StepShape DEF Meet, InFlight
    <3>2. SUFFICES ASSUME job[d].op \in {"edit", "patch"}, job[d].backup, met[d] \subseteq Harmless
                   PROVE  BackupSafe(d)'
      BY <2>1, <3>1 DEF BackupSafe, TargetNew, CopyHeld
    <3>3. PICK f \in Files : f = job[d].src
      BY JobPaths
    <3>4. /\ Content(Path(f)) \subseteq Content(Path(f))'
          /\ Content(Backup(f)) \subseteq Content(Backup(f))'
          /\ dir[Path(f)] # 0 => dir'[Path(f)] = dir[Path(f)]
          /\ dir'[Backup(f)] = dir[Backup(f)]
      BY <3>1, <3>2, HarmlessAdds, PathsDiffer DEF Exists
    <3>5. pc[d] = "copy" => from[d] # 0
      BY DEF AtStep
    <3> HIDE DEF KeptInv
    <3>6. BackupSafe(d)
      BY DEF KeptInv
    <3>7. job'[d].src = f
      BY <2>1, <3>3
    <3> QED BY <2>1, <3>2, <3>3, <3>4, <3>5, <3>6, <3>7 DEF BackupSafe
  <2> QED BY <2>2, <2>3
<1> QED BY <1>1, <1>2, <1>3, <1>4

\* Every step keeps it.
LEMMA KeptStep == TypeInv /\ KeptInv /\ [Next]_vars => KeptInv'
<1> SUFFICES ASSUME DiskOK, LocalsOK, KeptInv, [Next]_vars PROVE KeptInv'
  BY TwoHalves
<1>1. CASE Crash
  <2>1. \A c \in Callers : pc'[c] = "idle" /\ original'[c] = {}
    BY <1>1 DEF Crash
  <2>2. Meet' /\ Clean'
    BY <2>1 DEF Meet, Clean, InFlight
  <2> QED BY <2>1, <2>2 DEF KeptInv, BackupSafe, TargetNew, CopyHeld
<1>2. CASE UNCHANGED vars
  BY <1>2, ZenonT(30) DEF vars, KeptInv, Meet, InFlight, Clean, BackupSafe, TargetNew, CopyHeld, Content,
              Exists
<1> QED BY <1>1, <1>2, KeptBegin, KeptCallStep DEF Next

\* What the calls know of the files is so in every state.
THEOREM Kept == Spec => [](TypeInv /\ KeptInv)
<1> QED BY KeptInit, KeptStep, TypeCorrect, PTL DEF Spec

\* An edit or a patch with a backup can be undone at every moment: what the file held is
\* in the file or in its backup, unless other calls than harmless ones run meanwhile.
THEOREM BackupsRecover == Spec => []BackupRecovers
<1>1. TypeInv /\ KeptInv => BackupRecovers
  <2> SUFFICES ASSUME LocalsOK, KeptInv, NEW c \in Callers,
                      job[c].op \in {"edit", "patch"}, job[c].backup, met[c] \subseteq Harmless
               PROVE  \/ original[c] \subseteq Content(Path(job[c].src))
                      \/ original[c] \subseteq Content(Backup(job[c].src))
    BY TwoHalves DEF BackupRecovers
  <2>1. pc[c] \in {"read", "copy open", "copy", "open", "put", "patch", "patched"}
    BY DEF LocalsOK, AtStep, StepsOf
  <2>2. BackupSafe(c) /\ Clean
    BY DEF KeptInv
  <2> QED BY <2>1, <2>2 DEF BackupSafe, Clean
<1> QED BY <1>1, Kept, PTL

\* Content that finds a place in some path after a step is not lost by it.
LEMMA StoredKept ==
  ASSUME \A p \in Paths : \E q \in Paths : Content(p) \subseteq Content(q)'
  PROVE  Stored \subseteq Stored'
BY DEF Stored

\* Only a call's own step moves it and touches the files.
LEMMA Movers ==
  ASSUME LocalsOK, [Next]_vars, NEW c \in Callers, Moves(c)
  PROVE  Step(c) \/ UNCHANGED <<dir, data>>
<1>1. CASE Crash \/ UNCHANGED vars
  BY <1>1 DEF Crash, vars
<1>2. CASE \E d \in Callers : Begin(d)
  BY <1>2 DEF Begin
<1>3. CASE \E d \in Callers : Step(d)
  BY <1>3, StepShape DEF Moves
<1> QED BY <1>1, <1>2, <1>3 DEF Next

\* A step of a copy or a move that is alone takes content away from the destination only.
LEMMA OnlyDestination ==
  ASSUME DiskOK, LocalsOK, NEW c \in Callers, Step(c), CopyHeld(c),
         job[c].op \in {"copy", "move"}, met[c] = {}, NEW p \in Paths \ {Path(job[c].dst)}
  PROVE  \E q \in Paths : Content(p) \subseteq Content(q)'
<1> USE DEF LocalsOK
<1> PICK f \in Files, g \in Files : f = job[c].src /\ g = job[c].dst
  BY JobPaths
<1>1. Path(f) \in Paths /\ Path(g) \in Paths /\ p # Path(g) /\ Target(c) = Path(g)
  BY PathsDiffer DEF Target
<1>2. pc[c] \in {"check", "make", "clear", "rename", "copy open", "copy", "unlink"}
  BY DEF AtStep, StepsOf
<1>3. CASE UNCHANGED <<dir, data>>
  BY <1>3 DEF Content, Exists
<1>4. ASSUME dir'[p] = dir[p], data' = data PROVE Content(p)' = Content(p)
  BY <1>4 DEF Content, Exists
<1>5. CASE Clear(c)
  <2>1. data' = data /\ dir' \in {dir, [dir EXCEPT ![Path(g)] = 0]}
    BY <1>5 DEF Clear
  <2> QED BY <1>1, <1>4, <2>1 DEF DiskOK
<1>6. CASE CopyOpen(c)
  <2>1. UNCHANGED <<dir, data>> \/ SetFile(Path(g), InodeAt(Path(g)), {})
    BY <1>1, <1>6 DEF CopyOpen, OpenAt, Raise
  <2>2. CASE SetFile(Path(g), InodeAt(Path(g)), {})
    BY <1>1, <2>2, FileSet
  <2> QED BY <1>3, <2>1, <2>2
<1>7. CASE Copy(c)
  <2>1. data' = [data EXCEPT ![fd[c]] = data[from[c]]] /\ dir' = dir /\ pc[c] = "copy"
    BY <1>7 DEF Copy
  <2>2. fd[c] = dir[Path(g)] /\ fd[c] # 0
    BY <2>1 DEF CopyHeld, AtStep
  <2>3. dir[p] # fd[c]
    BY <1>1, <2>2 DEF DiskOK, Exists
  <2>4. Content(p)' = Content(p)
    BY <2>1, <2>3 DEF Content, Exists, DiskOK
  <2> QED BY <2>4
<1>8. CASE Rename(c)
  <2>1. \/ UNCHANGED <<dir, data>>
        \/ data' = data /\ dir' = [dir EXCEPT ![Path(f)] = 0, ![Path(g)] = dir[Path(f)]]
    BY <1>8 DEF Rename, Raise
  <2>2. CASE /\ data' = data
             /\ dir' = [dir EXCEPT ![Path(f)] = 0, ![Path(g)] = dir[Path(f)]]
    <3>1. dir'[Path(g)] = dir[Path(f)] /\ (p # Path(f) => dir'[p] = dir[p])
      BY <1>1, <2>2 DEF DiskOK
    <3>2. Content(Path(g))' = Content(Path(f))
      BY <2>2, <3>1 DEF Content, Exists
    <3> QED BY <1>1, <1>4, <2>2, <3>1, <3>2
  <2> QED BY <1>3, <2>1, <2>2
<1>9. CASE Unlink(c)
  <2>1. data' = data /\ dir' = [dir EXCEPT ![Path(f)] = 0] /\ pc[c] = "unlink"
    BY <1>2, <1>9 DEF Unlink
  <2>2. f # g /\ Path(f) # Path(g) /\ Content(Path(f)) \subseteq Content(Path(g))
    BY <2>1, PathsDiffer DEF CopyHeld
  <2>3. dir'[Path(g)] = dir[Path(g)] /\ (p # Path(f) => dir'[p] = dir[p])
    BY <1>1, <2>1, <2>2 DEF DiskOK
  <2>4. Content(Path(g))' = Content(Path(g))
    BY <2>1, <2>3 DEF Content, Exists
  <2> QED BY <1>1, <1>4, <2>1, <2>2, <2>3, <2>4
<1>10. CASE Check(c) \/ Make(c)
  BY <1>3, <1>10 DEF Check, Make, Raise
<1> QED
  BY <1>2, <1>5, <1>6, <1>7, <1>8, <1>9, <1>10
  DEF Step, Read, Open, Put, Touch, Patch, Patched, List, Empty, RemoveDirectory

\* A call that is not to overwrite takes nothing from its destination either: there is
\* nothing, until the call wrote it.
LEMMA DestinationNew ==
  ASSUME DiskOK, LocalsOK, NEW c \in Callers, Step(c), CopyHeld(c), TargetNew(c),
         job[c].op \in {"copy", "move"}, ~job[c].overwrite, met[c] = {},
         NEW g \in Files, g = job[c].dst
  PROVE  Content(Path(g)) \subseteq Content(Path(g))'
<1> USE DEF LocalsOK
<1> PICK f \in Files : f = job[c].src
  BY JobPaths
<1>1. pc[c] \in {"check", "make", "clear", "rename", "copy open", "copy", "unlink"}
  BY DEF AtStep, StepsOf
<1>2. CASE pc[c] \in {"make", "clear", "rename", "copy open"}
  BY <1>2 DEF TargetNew, Content
<1>3. CASE pc[c] = "copy"
  BY <1>3 DEF TargetNew, CopyHeld, Content, AtStep
<1>4. CASE pc[c] = "check"
  <2>1. UNCHANGED <<dir, data>>
    BY <1>4 DEF Step, Check, Make, Read, CopyOpen, Copy, Open, Put, Touch, Patch, Patched, Clear,
                Rename, Unlink, List, Empty, RemoveDirectory, Raise
  <2> QED BY <2>1 DEF Content, Exists
<1>5. CASE pc[c] = "unlink"
  <2>1. data' = data /\ dir' = [dir EXCEPT ![Path(f)] = 0]
    BY <1>5 DEF Step, Check, Make, Read, CopyOpen, Copy, Open, Put, Touch, Patch, Patched, Clear,
                Rename, Unlink, List, Empty, RemoveDirectory
  <2>2. Path(f) # Path(g)
    BY <1>5, PathsDiffer DEF CopyHeld
  <2> QED BY <2>1, <2>2 DEF Content, Exists, DiskOK
<1> QED BY <1>1, <1>2, <1>3, <1>4, <1>5

\* A write that is not to overwrite writes a file of its own.
LEMMA WriteAdds ==
  ASSUME DiskOK, LocalsOK, NEW c \in Callers, Step(c), TargetNew(c),
         job[c].op = "write", ~job[c].overwrite, met[c] = {}, NEW p \in Paths
  PROVE  Content(p) \subseteq Content(p)'
<1> USE DEF LocalsOK
<1> PICK g \in Files : g = job[c].dst
  BY JobPaths
<1>1. Path(g) \in Paths /\ pc[c] \in {"check", "make", "open", "put"}
  BY PathsDiffer DEF AtStep, StepsOf
<1>2. CASE Put(c)
  <2>1. PICK new : data' = [data EXCEPT ![fd[c]] = new] /\ dir' = dir /\ pc[c] = "put"
    BY <1>2 DEF Put
  <2>2. data[fd[c]] = {}
    BY <2>1 DEF TargetNew
  <2>3. \A i \in Inodes : data[i] \subseteq data'[i]
    BY <2>1, <2>2 DEF DiskOK
  <2> QED BY <2>1, <2>3 DEF Content, Exists, DiskOK
<1>3. CASE UNCHANGED <<dir, data>>
  BY <1>3 DEF Content, Exists
<1>4. CASE Open(c) /\ ~UNCHANGED <<dir, data>>
  <2>1. SetFile(Path(g), InodeAt(Path(g)), {}) /\ pc[c] = "open"
    BY <1>4 DEF Open, OpenAt, Raise
  <2>2. Content(Path(g)) = {}
    BY <2>1 DEF TargetNew, Content
  <2>3. \A q \in Paths \ {Path(g)} : Content(q)' = Content(q)
    BY <1>1, <2>1, FileSet
  <2> QED BY <2>2, <2>3
<1>5. CASE Check(c) \/ Make(c)
  BY <1>3, <1>5 DEF Check, Make, Raise
<1> QED
  BY <1>1, <1>2, <1>3, <1>4, <1>5
  DEF Step, Read, CopyOpen, Copy, Touch, Patch, Patched, Clear, Rename, Unlink, List, Empty,
      RemoveDirectory

\* No step of a call takes away what the call was not asked to: of a harmless tool in any
\* case, of a write, copy or move with overwrite=false if no other call runs meanwhile.
THEOREM NothingLost == Spec => NothingLostUnasked
<1>1. TypeInv /\ KeptInv /\ [Next]_vars =>
        [\A c \in Callers :
           /\ Moves(c)
           /\ \/ job[c].op \in Harmless
              \/ job[c].op \in {"write", "copy", "move"} /\ ~job[c].overwrite /\ met[c] = {}
           => Stored \subseteq Stored']_vars
  <2> SUFFICES ASSUME DiskOK, LocalsOK, KeptInv, [Next]_vars, NEW c \in Callers, Moves(c),
                      \/ job[c].op \in Harmless
                      \/ /\ job[c].op \in {"write", "copy", "move"} /\ ~job[c].overwrite
                         /\ met[c] = {}
               PROVE  Stored \subseteq Stored'
    BY TwoHalves
  <2>1. CASE UNCHANGED <<dir, data>>
    BY <2>1 DEF Stored, Content, Exists
  <2>2. CASE Step(c) /\ job[c].op \in Harmless
    BY <2>2, HarmlessAdds, StoredKept
  <2>3. CopyHeld(c) /\ TargetNew(c)
    BY DEF KeptInv
  <2>4. CASE Step(c) /\ job[c].op = "write" /\ ~job[c].overwrite /\ met[c] = {}
    BY <2>3, <2>4, WriteAdds, StoredKept
  <2>5. CASE Step(c) /\ job[c].op \in {"copy", "move"} /\ ~job[c].overwrite /\ met[c] = {}
    <3> PICK g \in Files : g = job[c].dst
      BY JobPaths
    <3>1. Content(Path(g)) \subseteq Content(Path(g))' /\ Path(g) \in Paths
      BY <2>3, <2>5, DestinationNew, PathsDiffer
    <3>2. \A p \in Paths \ {Path(g)} : \E q \in Paths : Content(p) \subseteq Content(q)'
      BY <2>3, <2>5, OnlyDestination
    <3> QED BY <3>1, <3>2, StoredKept
  <2> QED BY <2>1, <2>2, <2>4, <2>5, Movers
<1> QED BY <1>1, Kept, PTL DEF Spec, NothingLostUnasked

\* After no step of a move that is alone is anything lost of what its source held, if
\* source and destination differ (a move of a file onto itself with overwrite removes it).
THEOREM MovesKeep == ASSUME ~SamePath PROVE Spec => MoveKeepsSource
<1>1. TypeInv /\ KeptInv /\ [Next]_vars =>
        [\A c \in Callers :
           (job[c].op = "move" /\ Moves(c) /\ met[c] = {}) =>
              Content(Path(job[c].src)) \subseteq Stored']_vars
  <2> SUFFICES ASSUME DiskOK, LocalsOK, KeptInv, [Next]_vars, NEW c \in Callers, Moves(c),
                      job[c].op = "move", met[c] = {}
               PROVE  Content(Path(job[c].src)) \subseteq Stored'
    BY TwoHalves
  <2>1. Path(job[c].src) \in Paths \ {Path(job[c].dst)}
    BY JobPaths, PathsDiffer DEF LocalsOK, AtStep
  <2>2. \E q \in Paths : Content(Path(job[c].src)) \subseteq Content(q)'
    <3>1. CASE UNCHANGED <<dir, data>>
      BY <2>1, <3>1 DEF Content, Exists
    <3>2. CASE Step(c)
      BY <2>1, <3>2, OnlyDestination DEF KeptInv
    <3> QED BY <3>1, <3>2, Movers
  <2> QED BY <2>2 DEF Stored
<1> QED BY <1>1, Kept, PTL DEF Spec, MoveKeepsSource

===============================================================================
