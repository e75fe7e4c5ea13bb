------------------------------ MODULE TailFollow ------------------------------
(***************************************************************************)
(* The tail_follow tool (fs_tools.py, _TailFollowState): each call stats   *)
(* the file before it takes the lock, then compares the stat with the      *)
(* cursor and, under the lock, reads from the cursor to the end of the     *)
(* file.  Other programs and tools write the file at any moment.           *)
(*                                                                         *)
(* Every byte that ever appears at the path is a number of its own, so     *)
(* "returned twice" and "never returned" can be told of a byte wherever it *)
(* stands in the file.                                                     *)
(***************************************************************************)
EXTENDS Integers, Sequences

CONSTANTS Callers,     \* threads that run tail_follow on the path
          Inodes,      \* inode numbers, reused by the file system
          MaxBytes     \* bound: bytes written to the path in a behaviour

ASSUME InodesAssumption == Inodes # {}
ASSUME BoundAssumption == MaxBytes \in Nat

VARIABLES
  written,    \* bytes written to the path so far: 1 .. written
  content,    \* the file's bytes, in order
  inode,      \* its inode
  exists,     \* the path names a file
  onlyGrew,   \* the file was never truncated or removed
  cursor,     \* _cursors[path]: none, or an inode and an offset
  pc,         \* caller -> "idle", or "statted" between os.stat and the lock
  st,         \* caller -> the stat result it holds
  reset,      \* caller -> its reset argument
  returned,   \* byte -> how many calls returned it: 0, 1 or 2 (for two and more)
  raced,      \* bytes that came to the path between a call's stat and its read
  base        \* offset up to which callers asked for nothing

fileVars == <<written, content, inode, exists, onlyGrew>>
vars == <<written, content, inode, exists, onlyGrew, cursor, pc, st, reset, returned, raced, base>>

-----------------------------------------------------------------------------
Bytes == 1 .. written
Cursor == [set : BOOLEAN, inode : Inodes, offset : Nat]
Stat == [inode : Inodes, size : Nat]
NoStat == [inode |-> CHOOSE i \in Inodes : TRUE, size |-> 0]

Init ==
  /\ written = 0 /\ content = <<>> /\ exists = TRUE /\ onlyGrew = TRUE
  /\ inode \in Inodes
  /\ cursor = [set |-> FALSE, inode |-> inode, offset |-> 0]
  /\ pc = [c \in Callers |-> "idle"]
  /\ st = [c \in Callers |-> NoStat]
  /\ reset = [c \in Callers |-> FALSE]
  /\ returned = [b \in {} |-> 0]
  /\ raced = {} /\ base = 0

\* Some call is between its stat and its read.
InFlight == \E c \in Callers : pc[c] = "statted"

-----------------------------------------------------------------------------
(* tail_follow: validate_path and os.stat, then read_new_content's lock.     *)

StatFile(c) ==
  /\ pc[c] = "idle" /\ exists
  /\ pc' = [pc EXCEPT ![c] = "statted"]
  /\ st' = [st EXCEPT ![c] = [inode |-> inode, size |-> Len(content)]]
  /\ \E r \in BOOLEAN : reset' = [reset EXCEPT ![c] = r]
  /\ UNCHANGED <<fileVars, cursor, returned, raced, base>>

\* The cursor is placed at the stat's size and nothing is read.
StartsOver(c) ==
  reset[c] \/ ~cursor.set \/ cursor.inode # st[c].inode \/ st[c].size < cursor.offset

\* Faulty variant: one byte before the end.
CursorBefore(c) == [set |-> TRUE, inode |-> st[c].inode, offset |-> st[c].size - 1]
CursorAt(c) == [set |-> TRUE, inode |-> st[c].inode, offset |-> st[c].size]

\* The call ends and forgets its locals.
Return(c) ==
  /\ pc' = [pc EXCEPT ![c] = "idle"]
  /\ st' = [st EXCEPT ![c] = NoStat]
  /\ reset' = [reset EXCEPT ![c] = FALSE]

\* Under the lock, no cursor to go on from.
PlaceCursor(c) ==
  /\ pc[c] = "statted" /\ StartsOver(c)
  /\ cursor' = CursorAt(c)
  /\ base' = IF (reset[c] \/ ~cursor.set \/ cursor.inode # st[c].inode) /\ st[c].size > base
               THEN st[c].size ELSE base
  /\ Return(c)
  /\ UNCHANGED <<fileVars, returned, raced>>

\* Faulty variant: the read starts one byte late.
BytesAfterNext == {content[p] : p \in cursor.offset + 2 .. Len(content)}
\* The bytes a read from the cursor to the end of the file returns.
NewBytes == {content[p] : p \in cursor.offset + 1 .. Len(content)}

\* Faulty variant: the cursor is left where it was.
KeepCursor(c) == cursor
\* The cursor after a read is where the stat, not the read, ended.
NextCursor(c) == CursorAt(c)

\* Under the lock: open, seek to the cursor, read to the end.  The path may have
\* been removed since the stat: open raises and nothing changes.
ReadNew(c) ==
  /\ pc[c] = "statted" /\ ~StartsOver(c)
  /\ IF exists
       THEN /\ returned' = [b \in Bytes |->
                 IF b \in NewBytes /\ returned[b] < 2 THEN returned[b] + 1 ELSE returned[b]]
            /\ cursor' = NextCursor(c)
       ELSE UNCHANGED <<returned, cursor>>
  /\ Return(c)
  /\ UNCHANGED <<fileVars, raced, base>>

-----------------------------------------------------------------------------
(* The file's writers: other tools (append_file, write_file, move_file) and    *)
(* other programs.                                                           *)

\* A new byte comes to the path.
NewByte ==
  /\ written < MaxBytes
  /\ written' = written + 1
  /\ returned' = [b \in 1 .. written + 1 |-> IF b \in Bytes THEN returned[b] ELSE 0]
  /\ raced' = IF InFlight THEN raced \cup {written + 1} ELSE raced

AppendByte ==
  /\ exists
  /\ NewByte
  /\ content' = Append(content, written + 1)
  /\ UNCHANGED <<inode, exists, onlyGrew, cursor, pc, st, reset, base>>

Truncate ==
  /\ exists /\ onlyGrew' = FALSE
  /\ \E size \in 0 .. Len(content) - 1 : content' = SubSeq(content, 1, size)
  /\ UNCHANGED <<written, inode, exists, cursor, pc, st, reset, returned, raced, base>>

Remove ==
  /\ exists /\ onlyGrew' = FALSE
  /\ exists' = FALSE /\ content' = <<>>
  /\ UNCHANGED <<written, inode, cursor, pc, st, reset, returned, raced, base>>

Create ==
  /\ ~exists
  /\ exists' = TRUE
  /\ inode' \in Inodes
  /\ UNCHANGED <<written, content, onlyGrew, cursor, pc, st, reset, returned, raced, base>>

-----------------------------------------------------------------------------
Next ==
  \/ \E c \in Callers : StatFile(c) \/ PlaceCursor(c) \/ ReadNew(c)
  \/ AppendByte \/ Truncate \/ Remove \/ Create

Spec == Init /\ [][Next]_vars

-----------------------------------------------------------------------------
(* Properties.                                                               *)

\* Every variable has its type; the file holds bytes that were written.
TypeOK ==
  /\ written \in Nat
  /\ content \in Seq(Nat)
  /\ \A p \in 1 .. Len(content) : content[p] \in Bytes
  /\ inode \in Inodes
  /\ {exists, onlyGrew} \subseteq BOOLEAN
  /\ cursor \in Cursor
  /\ pc \in [Callers -> {"idle", "statted"}]
  /\ st \in [Callers -> Stat]
  /\ reset \in [Callers -> BOOLEAN]
  /\ returned \in [Bytes -> 0 .. 2]
  /\ raced \subseteq Bytes
  /\ base \in Nat

\* A byte is returned twice only if it came to the path between some call's stat
\* and that call's read: calls alone, however they interleave, repeat nothing, nor
\* do truncation and replacement of the file.
RepeatsAreRaced == \A b \in Bytes : returned[b] = 2 => b \in raced

\* Of a file that only grows, no byte is missed: whatever the cursor has passed was
\* returned by some call, or was there when a caller placed the cursor.
NothingMissed ==
  onlyGrew /\ cursor.set =>
    \A p \in 1 .. cursor.offset : p <= base \/ returned[content[p]] > 0

\* What the tool's docstring promises: new content since the last call, so no byte
\* is returned twice.
NoRepeats == \A b \in Bytes : returned[b] <= 1
=============================================================================
