------------------------------- MODULE FileOps -------------------------------
(***************************************************************************)
(* The tools that change files (fs_tools.py): write_file, append_file,     *)
(* edit_file, patch_file, copy_file, move_file, delete_file, touch,        *)
(* create_directory and delete_directory, one action per system call that  *)
(* other calls, or the end of the process, can come between.  The files    *)
(* are in one directory.                                                   *)
(*                                                                         *)
(* What a file holds is a set of marks: its initial content is one mark,   *)
(* and each call writes a mark of its own, so that "this content is lost"  *)
(* can be told.  Calls write through open files, hence inodes: a file      *)
(* renamed or removed while it is open is still written.                   *)
(***************************************************************************)
EXTENDS Integers, FiniteSets

CONSTANTS Callers,         \* threads that run tool calls
          Files,           \* file paths; each has a backup path beside it
          Ops,             \* the tools that are called
          Overwrites,      \* values of overwrite
          SamePath,        \* source and destination may be the same path
          MayCrossDevice,  \* source and destination may be on different devices
          MayCrash,        \* the process may be killed
          MaxCalls         \* bound: calls in a behaviour

ASSUME OpsAssumption ==
  Ops \subseteq {"write", "append", "edit", "patch", "copy", "move", "delete", "touch",
                 "mkdir", "rmdir", "rmtree"}
\* Inodes and marks are files and numbers.
ASSUME FilesAssumption == IsFiniteSet(Files) /\ Files # {} /\ \A f \in Files : f \notin Nat
ASSUME SwitchesAssumption ==
  /\ Overwrites \subseteq BOOLEAN
  /\ {SamePath, MayCrossDevice, MayCrash} \subseteq BOOLEAN
ASSUME BoundAssumption == MaxCalls \in Nat

VARIABLES
  dir,     \* path -> its inode, 0 if there is no such file
  made,    \* the directory of the files exists
  data,    \* inode -> marks it holds
  calls,   \* calls begun so far; the number of a call is its mark
  pc,      \* caller -> next step of its call
  job,     \* caller -> arguments of its call
  text,    \* caller -> what it will write
  original,\* caller -> what edit_file read, what patch_file found
  from,    \* caller -> inode it copies from
  fd,      \* caller -> inode it has open for writing
  met      \* caller -> tools of the calls that ran at the same time as its call

vars == <<dir, made, data, calls, pc, job, text, original, from, fd, met>>

-----------------------------------------------------------------------------
Path(f) == <<f, "file">>
Backup(f) == <<f, "bak">>
Paths == Files \X {"file", "bak"}
Inodes == DOMAIN data
Marks == Files \cup 1 .. calls

Exists(p) == dir[p] # 0
Content(p) == IF Exists(p) THEN data[dir[p]] ELSE {}
\* All that some path still names.
Stored == UNION {Content(p) : p \in Paths}

Job == [op : Ops \cup {"none"}, src : Files, dst : Files, overwrite : BOOLEAN,
        backup : BOOLEAN, cross : BOOLEAN, rest : SUBSET Paths]
NoJob == [op |-> "none", src |-> CHOOSE f \in Files : TRUE, dst |-> CHOOSE f \in Files : TRUE,
          overwrite |-> FALSE, backup |-> FALSE, cross |-> FALSE, rest |-> {}]

\* Any of the files exists; the inode of an initial file is named like it.
Init ==
  /\ made \in BOOLEAN
  /\ \E present \in IF made THEN SUBSET Files ELSE {{}} :
       dir = [p \in Paths |-> IF p[2] = "file" /\ p[1] \in present THEN p[1] ELSE 0]
  /\ data = [f \in Files |-> {f}]
  /\ calls = 0
  /\ pc = [c \in Callers |-> "idle"] /\ job = [c \in Callers |-> NoJob]
  /\ text = [c \in Callers |-> {}] /\ original = [c \in Callers |-> {}]
  /\ from = [c \in Callers |-> 0] /\ fd = [c \in Callers |-> 0]
  /\ met = [c \in Callers |-> {}]

-----------------------------------------------------------------------------
(* A call's beginning, its steps from one to the next, and its end.          *)

\* The first step of each tool, after validate_path.
FirstStep(op) ==
  CASE op \in {"edit", "patch"} -> "read" [] op = "delete" -> "remove"
    [] op = "mkdir" -> "make" [] op = "rmdir" -> "rmdir" [] op = "rmtree" -> "list"
    [] OTHER -> "check"

\* The step after the checks and after the directories.
Main(op) ==
  CASE op \in {"write", "append"} -> "open" [] op = "copy" -> "copy open"
    [] op = "move" -> "clear" [] op = "touch" -> "touch"

InFlight == {c \in Callers : pc[c] # "idle"}

Begin(c) ==
  /\ pc[c] = "idle" /\ calls < MaxCalls
  /\ calls' = calls + 1
  /\ \E op \in Ops, src \in Files, dst \in Files, overwrite \in Overwrites \cup {FALSE},
        backup \in BOOLEAN, cross \in {FALSE, MayCrossDevice} :
       /\ IF op \in {"write", "copy", "move"} THEN overwrite \in Overwrites ELSE ~overwrite
       /\ op \in {"mkdir", "rmdir", "rmtree"} => src = NoJob.src
       /\ IF op \in {"copy", "move"} THEN SamePath \/ src # dst ELSE src = dst
       /\ op # "move" => ~cross
       /\ op \notin {"edit", "patch"} => ~backup
       /\ job' = [job EXCEPT ![c] = [op |-> op, src |-> src, dst |-> dst, overwrite |-> overwrite,
                                     backup |-> backup, cross |-> cross, rest |-> {}]]
       /\ pc' = [pc EXCEPT ![c] = FirstStep(op)]
       /\ met' = [d \in Callers |-> IF d = c THEN {job[e].op : e \in InFlight}
                                   ELSE IF d \in InFlight THEN met[d] \cup {op} ELSE {}]
  /\ text' = [text EXCEPT ![c] = {calls + 1}]
  /\ UNCHANGED <<dir, made, data, original, from, fd>>

\* The call returns or raises; its locals are gone.
End(c) ==
  /\ pc' = [pc EXCEPT ![c] = "idle"]
  /\ job' = [job EXCEPT ![c] = NoJob]
  /\ text' = [text EXCEPT ![c] = {}] /\ original' = [original EXCEPT ![c] = {}]
  /\ from' = [from EXCEPT ![c] = 0] /\ fd' = [fd EXCEPT ![c] = 0]
  /\ met' = [met EXCEPT ![c] = {}]

Goto(c, step) ==
  /\ pc' = [pc EXCEPT ![c] = step]
  /\ UNCHANGED <<job, text, original, met>>

Raise(c) == End(c) /\ UNCHANGED <<dir, made, data>>

-----------------------------------------------------------------------------
(* The steps.                                                                *)

\* What follows the backup: edit_file writes, patch_file runs the program.
AfterBackup(c) == IF job[c].op = "edit" THEN "open" ELSE "patch"

\* Faulty variant: an existing destination is looked for only in write_file.
CheckWritesOnly(c) ==
  /\ pc[c] = "check"
  /\ IF job[c].op = "write" /\ ~job[c].overwrite /\ Exists(Path(job[c].dst))
       THEN Raise(c)
       ELSE /\ \E step \in {"make", Main(job[c].op)} : Goto(c, step)
            /\ UNCHANGED <<dir, made, data, from, fd>>
  /\ UNCHANGED calls

\* The source of copy_file and move_file has been validated, overwrite=false refuses an
\* existing destination, and mkdir_parents makes the directory.
Check(c) ==
  /\ pc[c] = "check"
  /\ IF \/ job[c].op \in {"copy", "move"} /\ ~Exists(Path(job[c].src))
        \/ /\ job[c].op \in {"write", "copy", "move"}
           /\ ~job[c].overwrite /\ Exists(Path(job[c].dst))
       THEN Raise(c)
       ELSE /\ \E step \in {"make", Main(job[c].op)} : Goto(c, step)
            /\ UNCHANGED <<dir, made, data, from, fd>>
  /\ UNCHANGED calls

\* os.makedirs(exist_ok=True), which is all that create_directory does.
Make(c) ==
  /\ pc[c] = "make"
  /\ made' = TRUE
  /\ IF job[c].op = "mkdir" THEN End(c) ELSE Goto(c, Main(job[c].op)) /\ UNCHANGED <<from, fd>>
  /\ UNCHANGED <<dir, data, calls>>

\* edit_file reads the file and computes the new text; without old_text it raises.
\* patch_file only looks whether the file is there.
Read(c) ==
  /\ pc[c] = "read"
  /\ LET p == Path(job[c].src)
     IN  IF IF job[c].op = "edit" THEN Content(p) = {} ELSE ~Exists(p)
           THEN Raise(c)
           ELSE /\ original' = [original EXCEPT ![c] = Content(p)]
                /\ text' = IF job[c].op = "edit"
                             THEN [text EXCEPT ![c] = @ \cup Content(p)] ELSE text
                /\ pc' = [pc EXCEPT ![c] = IF job[c].backup THEN "copy open" ELSE AfterBackup(c)]
                /\ UNCHANGED <<dir, made, data, job, from, fd, met>>
  /\ UNCHANGED calls

\* Where a copy of the call goes: a backup is beside the file.
Target(c) == IF job[c].op \in {"edit", "patch"} THEN Backup(job[c].src) ELSE Path(job[c].dst)

\* The inode of path p, or one that is new.
NewInode == Cardinality(Inodes) + 1
InodeAt(p) == IF Exists(p) THEN dir[p] ELSE NewInode

\* Path p names inode i, which holds the given content.
SetFile(p, i, content) ==
  /\ dir' = [dir EXCEPT ![p] = i]
  /\ data' = [j \in Inodes \cup {i} |-> IF j = i THEN content ELSE data[j]]

\* Path p is opened for writing, created if need be, with the given content kept.
OpenAt(c, p, kept) ==
  /\ SetFile(p, InodeAt(p), kept)
  /\ fd' = [fd EXCEPT ![c] = InodeAt(p)]

\* Faulty variants of edit_file's backup: a hard link to the file, or an existing
\* backup is kept and not renewed.
CopyOpenLinking(c) ==
  /\ pc[c] = "copy open"
  /\ dir' = [dir EXCEPT ![Target(c)] = dir[Path(job[c].src)]]
  /\ Goto(c, AfterBackup(c))
  /\ UNCHANGED <<data, made, calls, from, fd>>
CopyOpenOnce(c) ==
  /\ pc[c] = "copy open"
  /\ LET src == Path(job[c].src)
     IN  IF ~Exists(src) \/ dir[src] = dir[Target(c)]
           THEN Raise(c)
           ELSE IF Target(c) = Backup(job[c].src) /\ Exists(Target(c))
             THEN Goto(c, AfterBackup(c)) /\ UNCHANGED <<dir, data, from, fd>>
             ELSE /\ OpenAt(c, Target(c), {})
                  /\ from' = [from EXCEPT ![c] = dir[src]]
                  /\ Goto(c, "copy")
  /\ UNCHANGED <<made, calls>>

\* shutil.copy2 opens the source, then opens the target, which truncates it; a
\* missing source, or a target that is the source, raises before.
CopyOpen(c) ==
  /\ pc[c] = "copy open"
  /\ LET src == Path(job[c].src)
     IN  IF ~Exists(src) \/ dir[src] = dir[Target(c)]
           THEN Raise(c)
           ELSE /\ OpenAt(c, Target(c), {})
                /\ from' = [from EXCEPT ![c] = dir[src]]
                /\ Goto(c, "copy")
                /\ UNCHANGED made
  /\ UNCHANGED calls

\* The bytes are copied; after a backup the call goes on, a move across devices removes
\* the source.
Copy(c) ==
  /\ pc[c] = "copy"
  /\ data' = [data EXCEPT ![fd[c]] = data[from[c]]]
  /\ IF job[c].op = "copy"
       THEN End(c)
       ELSE /\ Goto(c, IF job[c].op = "move" THEN "unlink" ELSE AfterBackup(c))
            /\ UNCHANGED <<from, fd>>
  /\ UNCHANGED <<dir, made, calls>>

\* open(path, "w") truncates; open(path, "a") does not.  Without its directory a file
\* cannot be made.
Open(c) ==
  /\ pc[c] = "open"
  /\ LET p == Path(job[c].dst)
     IN  IF ~made
           THEN Raise(c)
           ELSE /\ OpenAt(c, p, IF job[c].op = "append" THEN Content(p) ELSE {})
                /\ Goto(c, "put")
                /\ UNCHANGED <<made, from>>
  /\ UNCHANGED calls

\* The text is written and the file closed.  An append goes to the end; other
\* writes go to the start and cover some of what came there since the truncation.
Put(c) ==
  /\ pc[c] = "put"
  /\ \E left \in IF job[c].op = "append" THEN {data[fd[c]]} ELSE SUBSET data[fd[c]] :
       data' = [data EXCEPT ![fd[c]] = left \cup text[c]]
  /\ End(c)
  /\ UNCHANGED <<dir, made, calls>>

\* touch: an existing file gets another time only.
Touch(c) ==
  /\ pc[c] = "touch"
  /\ LET p == Path(job[c].dst)
     IN  IF made
           THEN SetFile(p, InodeAt(p), Content(p)) /\ End(c) /\ UNCHANGED made
           ELSE Raise(c)
  /\ UNCHANGED calls

\* The patch program puts a new file in place of the old.  It may take any lines out,
\* of all the hunks or, when others fail, of some; it may refuse; a patch may be one
\* that makes a file.
Patch(c) ==
  /\ pc[c] = "patch"
  /\ LET p == Path(job[c].src)
     IN  \/ /\ made
            /\ \E left \in SUBSET Content(p) : SetFile(p, NewInode, left \cup text[c])
         \/ UNCHANGED <<dir, data>>
  /\ Goto(c, "patched")
  /\ UNCHANGED <<made, calls, from, fd>>

\* patch_file returns, or raises on the program's exit code.
Patched(c) == pc[c] = "patched" /\ Raise(c) /\ UNCHANGED calls

\* move_file removes an existing destination before it moves the source.
Clear(c) ==
  /\ pc[c] = "clear"
  /\ dir' = IF job[c].overwrite THEN [dir EXCEPT ![Path(job[c].dst)] = 0] ELSE dir
  /\ Goto(c, "rename")
  /\ UNCHANGED <<made, data, calls, from, fd>>

\* Faulty variant: across devices the source is removed first and then copied.
RenameUnlinking(c) ==
  /\ pc[c] = "rename"
  /\ dir' = [dir EXCEPT ![Path(job[c].src)] = 0]
  /\ Goto(c, "copy open")
  /\ UNCHANGED <<made, data, calls, from, fd>>

\* shutil.move: os.rename replaces the destination at once; across devices it
\* fails, and the file is copied and removed instead.
Rename(c) ==
  /\ pc[c] = "rename"
  /\ LET src == Path(job[c].src) dst == Path(job[c].dst)
     IN  IF ~Exists(src)
           THEN Raise(c)
           ELSE IF job[c].cross
             THEN Goto(c, "copy open") /\ UNCHANGED <<dir, made, data, from, fd>>
             ELSE /\ dir' = [dir EXCEPT ![src] = 0, ![dst] = dir[src]]
                  /\ UNCHANGED <<made, data>>
                  /\ End(c)
  /\ UNCHANGED calls

\* os.unlink of a source moved across devices, and delete_file's os.remove.
Unlink(c) ==
  /\ pc[c] \in {"unlink", "remove"}
  /\ dir' = [dir EXCEPT ![Path(job[c].src)] = 0]
  /\ End(c)
  /\ UNCHANGED <<made, data, calls>>

\* shutil.rmtree lists the directory, removes what it listed one by one, raises at what
\* has gone, and then removes the directory.
List(c) ==
  /\ pc[c] = "list"
  /\ IF made
       THEN /\ job' = [job EXCEPT ![c].rest = {p \in Paths : Exists(p)}]
            /\ pc' = [pc EXCEPT ![c] = "empty"]
            /\ UNCHANGED <<dir, made, data, text, original, from, fd, met>>
       ELSE Raise(c)
  /\ UNCHANGED calls

Empty(c) ==
  /\ pc[c] = "empty"
  /\ \E p \in job[c].rest :
       IF Exists(p)
         THEN /\ dir' = [dir EXCEPT ![p] = 0]
              /\ job' = [job EXCEPT ![c].rest = @ \ {p}]
              /\ UNCHANGED <<made, data, pc, text, original, from, fd, met>>
         ELSE Raise(c)
  /\ UNCHANGED calls

\* os.rmdir of an empty directory; it raises at any other, and at none.
RemoveDirectory(c) ==
  /\ \/ pc[c] = "rmdir"
     \/ pc[c] = "empty" /\ job[c].rest = {}
  /\ made' = (made /\ \E p \in Paths : Exists(p))
  /\ End(c)
  /\ UNCHANGED <<dir, data, calls>>

-----------------------------------------------------------------------------
\* The process is killed and started again: calls end where they are.
Crash ==
  /\ MayCrash /\ InFlight # {}
  /\ pc' = [c \in Callers |-> "idle"] /\ job' = [c \in Callers |-> NoJob]
  /\ text' = [c \in Callers |-> {}] /\ original' = [c \in Callers |-> {}]
  /\ from' = [c \in Callers |-> 0] /\ fd' = [c \in Callers |-> 0]
  /\ met' = [c \in Callers |-> {}]
  /\ UNCHANGED <<dir, made, data, calls>>

Step(c) ==
  \/ Check(c) \/ Make(c) \/ Read(c) \/ CopyOpen(c) \/ Copy(c) \/ Open(c) \/ Put(c)
  \/ Touch(c) \/ Patch(c) \/ Patched(c) \/ Clear(c) \/ Rename(c) \/ Unlink(c)
  \/ List(c) \/ Empty(c) \/ RemoveDirectory(c)

Next == (\E c \in Callers : Begin(c) \/ Step(c)) \/ Crash

Spec == Init /\ [][Next]_vars

-----------------------------------------------------------------------------
(* Properties.                                                               *)

\* Every variable has its type; a path names an inode, no two paths the same, and there
\* are files only in a directory.
TypeOK ==
  /\ made \in BOOLEAN /\ (~made => \A p \in Paths : ~Exists(p))
  /\ dir \in [Paths -> Inodes \cup {0}]
  /\ \A p, q \in Paths : (Exists(p) /\ dir[p] = dir[q]) => p = q
  /\ data \in [Inodes -> SUBSET Marks]
  /\ calls \in Nat
  /\ pc \in [Callers -> {"idle", "check", "make", "read", "copy open", "copy", "open", "put",
                         "touch", "patch", "patched", "clear", "rename", "unlink", "remove",
                         "list", "empty", "rmdir"}]
  /\ job \in [Callers -> Job]
  /\ text \in [Callers -> SUBSET Marks] /\ original \in [Callers -> SUBSET Marks]
  /\ from \in [Callers -> Inodes \cup {0}] /\ fd \in [Callers -> Inodes \cup {0}]
  /\ met \in [Callers -> SUBSET Ops]

\* The tools that take away nothing, whatever runs beside them.
Harmless == {"append", "touch", "mkdir", "rmdir"}

\* While edit_file or patch_file with a backup works, so that the process may be killed
\* or the patch fail at any moment, what the file held is whole in the file or in its
\* backup, unless other calls than harmless ones ran at the same time.
BackupRecovers ==
  \A c \in Callers :
    (job[c].op \in {"edit", "patch"} /\ job[c].backup /\ met[c] \subseteq Harmless) =>
      \/ original[c] \subseteq Content(Path(job[c].src))
      \/ original[c] \subseteq Content(Backup(job[c].src))

\* The call of c takes a step or ends.
Moves(c) == <<pc[c], job[c]>> # <<pc'[c], job'[c]>>

\* No step of a move loses what the move is about: after it, all that its source
\* held is still in some file, unless another call runs at the same time.
MoveKeepsSource ==
  [][\A c \in Callers :
       (job[c].op = "move" /\ Moves(c) /\ met[c] = {}) =>
          Content(Path(job[c].src)) \subseteq Stored']_vars

\* A call that is not asked to take content away does not, from its check to its last
\* step: with overwrite=false unless another call runs at the same time, and the
\* harmless tools in any case.
NothingLostUnasked ==
  [][\A c \in Callers :
       /\ Moves(c)
       /\ \/ job[c].op \in Harmless
          \/ job[c].op \in {"write", "copy", "move"} /\ ~job[c].overwrite /\ met[c] = {}
       => Stored \subseteq Stored']_vars
=============================================================================
