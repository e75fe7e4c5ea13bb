# Filesystem Supertool 2: specification and proofs

TLA+ models of `filesystem_supertool2`, an MCP server that offers 23 filesystem
tools and 9 semantic code tools backed by a language server (Pyright). The models
are checked with TLC on small instances; the theorems are proved with TLAPS for
every value of the constants. `PROJECT.json` lists the runs, the source lines each
definition stands for, the hazards and the findings. Paths below are relative to
`src/filesystem_supertool2/` of the repository.

To repeat the checks, in this directory:

    tlc -workers 2 -config LspRequests_safety.cfg MCLspRequests
    tlapm LspRequestsProofs.tla     # and the other modules named ...Proofs

## 1. Inventory

### How the program runs

`server.py` registers every tool as a plain synchronous function. The MCP library
runs synchronous tools in worker threads, so two tool calls of one client may run
at the same time; the models let them. The program keeps one process-wide
registry of language servers. Each server has the threads that call it, a stdout
reader thread, a stderr reader thread, and at its end a daemon thread that sends
`shutdown`. The exit handler stops all servers; a spawner thread, which forks them,
lives as long as the program. Tool calls share the file system with each other and
with other programs; no tool locks a file.

    tool calls (threads) --> fs_tools -------------------------> files
            |                                                      ^
            +--> semantic_tools --> ls.py (buffers, caches) -------+
                       |                |
                   _servers         ls_process.py <--> pyright process
                  (one lock)        (3 locks, reader threads)

### Components

| Component | State it keeps | Operations | What is hard | What makes it correct |
|---|---|---|---|---|
| JSON-RPC client, `solidlsp/ls_process.py` | `request_id`, `_pending_requests`, a result queue per request, `process`, `_is_stopping`, `_stdin_lock` | `send_request` (with retries), `_send_payload`, the two readers, `_response_handler`, `_request_handler`, `_cancel_pending_requests`, `start`, `stop` | callers, reader, stopper and a dying or hanging process interleave; answers late, repeated, out of order; timeouts, retries; writes that block under a lock | at most one result per request, to the right call; nobody left waiting; `stop` ends |
| Registry of servers, `semantic_tools.py:24-62` | `_servers`, `_servers_lock` | `_get_server`, `shutdown_all_servers` | first calls race; `start()` fails half way; a lock held over slow I/O; exit races start | one process per root; the same server for all; all stopped at exit; the lock comes free |
| Process launcher, `solidlsp/util/subprocess_util.py` | the spawner thread, a death signal per child | launch, terminate the process tree | the program dies at any point | what was launched does not outlive the program |
| `tail_follow`, `fs_tools.py:726-758` | a cursor (inode, offset) per path, a lock | one call: stat, compare, read, set the cursor | the stat is older than the lock; the file grows, shrinks, is replaced in between | nothing missed, nothing returned twice |
| File-changing tools, `fs_tools.py:297-443, 686-720` | the file system | the ten tools that write, edit, patch, copy, move, delete and touch files and make and remove directories | checks and actions are separate system calls; a patch fails half way; the process may be killed in between | no content lost that the tool promises to keep |
| Path validation, `fs_tools.py:51-134` | allowed directories (set once) | `validate_path`, `exists` | symbolic links, missing paths, parents | an accepted path lies in an allowed directory, and no other is refused |
| Globs, listing, find, grep, `fs_tools.py:140-229, 449-622, 764-799` | none | brace and comma expansion, glob to regex, walks | nested braces, `**`, limits, links | the matched set is the reference set; limits are kept |
| Document readers, `fs_tools.py:251-291, 805-897` | none | `read_file`, `read_lines`, and readers of PDF, DOCX, XLSX | windows of lines; the rest is library I/O | a window has the lines it says it has |
| File buffers, edit sessions, `solidlsp/ls.py:93-191, 1246-1394`, `semantic_tools.py:181-271` | `open_file_buffers`: contents, version, count of users, time; the server's own copy | `open_file`, insert and delete text, persist, rename | unlocked look-up-or-create; staleness by time; edits at positions resolved earlier; half-done renames; files that are removed while they are open | buffer, server copy and file agree; the count is the number of users |
| Symbol caches, `solidlsp/ls.py:1805-2013, 2889-3057` | raw and processed symbols per file with a content hash, in memory and on disk | look up, request, convert, store, save, load | the hash is taken after the answer; the cache outlives the process and its version | an entry under a hash was computed from that content |
| Diagnostics, `solidlsp/ls.py:635-775, 891-1005` | published sets and generation counters per file, a condition variable | publish (reader thread), wait, pull, fall back to the cache | a wait that times out; a late publication; a set of an older text | what is returned belongs to the text asked about |
| Symbol tree and name paths, `semantic_tools.py:88-119`, `solidlsp/ls.py:1175-1214, 2033-2137, 2356-2887` | none | name paths, symbol and container at a position, implementations, references, the tree of a directory | ambiguous names, symbols that start or end together, links | the first match of a name path; the innermost symbol |
| Text positions, `solidlsp/ls_utils.py:31-309` | none | index/position conversion, insert, delete, several edits | line ends, end of text, order of edits | conversions invert each other; edits match a reference |
| Pyright server, `solidlsp/language_servers/pyright_server.py` | `analysis_complete` event | `_start_server`: handlers, `initialize`, wait for analysis | capability assertions, a 60 s wait | part of the registry's start sequence |
| Semantic tools, `semantic_tools.py:65-271` | none of their own | nine tools | positions go stale between calls | compositions of the above |
| Entry point, `server.py` | the registered tools | `build_server`, `main` | none | straight-line |
| Message framing, LSP types, configuration, dependencies, vendored helpers | settings | (de)serialisation, constants | none | not modelled: data definitions and pure I/O |

## 2. Plan

| # | Module | Composes | Status |
|---|---|---|---|
| 1 | `LspRequests`: the JSON-RPC client under threads, timeouts, crash, hang and stop | refines 2 | done |
| 2 | `RpcFutures`: the abstract promise of `send_request` | | done |
| 3 | `ServerRegistry`: start, registration, launcher, exit and kill | summarises 1 | done |
| 4 | `TailFollow` | | done |
| 5 | `FileOps`: the file-changing tools | | done |
| 6 | `EditSessions`: buffers, the copy that `didOpen`/`didChange` keep at the server, persist and rename | | done |
| 7 | `Documents`: symbol caches, in memory and on disk, and published diagnostics | summarises 6 | done |
| 8 | `TextEdits` and `LineWindows`, asked by `TextQueries`: texts, positions, edits and windows of lines against reference definitions | | done |
| 9 | `FileQueries`, `SymbolTree` and `SymbolPositions`, asked by `Queries`: the other pure algorithms | extends 8 | done |
| 10 | Notifications from the server, the children of a server process | extends 1, 3 | left out, see section 6 |

Proved (section 5): every invariant and action property of `LspRequests`, `TailFollow`, `ServerRegistry`,
`FileOps`, `Documents`, `EditSessions` and `TextQueries` that the runs check, the refinement of `RpcFutures`,
and the lookups of `SymbolPositions`.

`FileQueries`, `SymbolTree` and what `Queries` adds to `TextQueries` use recursive operators and stay with TLC.

## 3. The models

### LspRequests (`solidlsp/ls_process.py`), MCLspRequests

| State | In the code |
|---|---|
| `requestId`, `pendingRequests` | `request_id`, `_pending_requests` |
| `queue`, `call` | each `Request`'s `_result_queue` (everything ever put in it); which `send_request` call created it |
| `pc`, `callOf`, `retries`, `attempt`, `cur`, `returned` | a calling thread's place in `send_request`, and its locals |
| `alive`, `reaped`, `handle`, `stdinOpen` | the process runs; its `returncode` is set; `self.process` is not `None`; its stdin is open |
| `reader`, `inHand`, `stdout` | where the stdout reader is, the response it popped a request for, the pipe |
| `asked`, `stalled`, `writing` | the server has sent its request; it reads its stdin no more and the pipe is full; the threads in a blocked write, which hold `_stdin_lock` |
| `isStopping`, `stopper`, `exitSent` | `_is_stopping`, where `stop()` is, the `exit` notification |

One action per atomic step. `AllocId`, `Register`, `CheckProcess`, `Write`,
`Receive` and `TimeOut` are the steps of `_send_request_once` between its locks;
`ReaderPoll`, `ReaderTake`, `ReaderDeliver`, `ReaderEOF`, `ReaderExit` and
`ReaderCancel` are the reader thread's; `StopCheck` to `StopClear` are `stop()`'s;
`ServerAnswer` and `ServerExit` are the external server, which answers what it
received in any order, and twice if `MayRepeat`. A response carries the request
it was computed for (`body`), so that a swap of payloads can be seen. Answers are
of three kinds: a result, the ContentModified error, another error.

`ServerStalls` is a server that hangs: it reads no more, and a message finds the pipe
full. `WriteBlocks` is a caller whose write then blocks under `_stdin_lock`. `ReaderAsked` is a
request from the server, which the reader thread answers itself: `ReaderRespond` writes
the response, and `ReaderBlocks` is that write blocked. `stop()` closes stdin, which waits
for a blocked write (`StdinFree`).

Python detail that decides the control: writing to a dead process raises
`BrokenPipeError`, which `_send_payload` swallows, and the caller waits; writing
to a stdin that `stop()` closed raises `ValueError`, which escapes
(`returned.kind = "raised"`). The reader polls before it reads, so answers left in
the pipe of a dead process are never read. `StderrPoll` is there because the
other reader may be the first to notice the death, which `is_running()` sees.
`StopTerminate` leaves the process dead: the code only logs the case where it
survives a kill. `stop()` alongside callers is the component's contract; in this
program the exit handler runs after the tool threads have normally ended.

This program registers no method for ContentModified retries and sets no request
timeout (`RetryMethods = FALSE`, `HasTimeout = FALSE`: the setting of `lsp_hang`). The
component has both, so the other runs switch them on where they are the question.

### RpcFutures

The abstract specification: a future settles at most once and never changes; a
thread holds at most one, leaves with what it settled to or gives up, and takes a
new one within a call only after `"modified"`. A time-out is only possible while
the future is open. `LspRequests!FuturesSpec` maps a request to a future, its
queue to the future's state and a thread's `cur` to what it holds.

### ServerRegistry (`semantic_tools.py:24-62`, `pyright_server.py:108-242`, `subprocess_util.py`)

`lock` and `servers` are `_servers_lock` and `_servers`; `alive` are the processes
that run, `rootOf` the root each was launched for, `watched` those whose reader
thread still runs. `pc` walks a thread through `_get_server`: `LookUp` (lock and
dictionary), `Launch`, `Spawned`, `SendInitialize`, `Initialized` or `InitializeRefused`,
`Publish`, with the lock released by the `with` statement on every way out.
A start that raises leaves its process in `abandoned`. `shutdown` walks the main thread
through `shutdown_all_servers`. The request
machinery beneath is reduced to the fact `LspRequests` establishes: an initialize
request registered before the reader thread ends is cancelled, one registered
later is not answered.

The launcher: `Launch` forks on the spawner thread; `Protect` is the child's `prctl`, which
asks the kernel to end it with its parent (`guarded`); `Spawned` is `Popen` returning, after
the child has become the server, so after `Protect`, or after it has died. `End` is the
end of the program (`up`), by its exit handler or by a kill at any moment, and `DeathSignal` the
kernel's signal to a guarded process. The signal is tied to the thread that forked; the
spawner thread never ends before the program, so one flag per process is enough.

### TailFollow (`fs_tools.py:726-758`)

`StatFile` is `os.stat` before the lock; `PlaceCursor` and `ReadNew` are the two
branches of `read_new_content` under it. Every byte that ever appears at the path
is a number, so that a byte can be followed across truncation and replacement;
`returned` counts how often it was returned, `raced` holds the bytes that arrived
while some call was between its stat and its read, `base` is where callers began.
`AppendByte`, `Truncate`, `Remove` and `Create` are the file's other writers.

### FileOps (`fs_tools.py:297-443, 686-720`), MCFileOps

The ten tools, one action per system call that another call or a kill can come
between: the existence check, the creation of the directory, the read, the opening of
the backup, its copy, the truncating open, the write, the removal of a destination, the
rename (or, across devices, copy and unlink), each entry that a recursive removal takes.
Files are paths to inodes (`dir`) and inodes to sets of marks (`data`), one mark per initial
file and per call: which contents survive is what the properties ask, not their text. A
write through a file that is no longer at its path goes to the inode. All files are in one directory,
which exists (`made`) or not. The `patch` program is external: it may refuse, apply all hunks, or
apply some and fail. `dry_run` and the diff change nothing and are left out, as are
calls refused by `validate_path` for the directory they are in.

### EditSessions (`solidlsp/ls.py:93-191, 1246-1394`, `semantic_tools.py:181-271`), MCEditSessions

| State | In the code |
|---|---|
| `buffers`, `open_file_buffers` | the `LSPFileBuffer` objects and the table of them; `refs` is `ref_count`, `opened` is `_is_open_in_ls`; of the two modification times only whether the file is newer than the one read |
| `server` | what `didOpen`, `didChange` and `didClose` have told the server of each file |
| `disk`, `missing` | the lines of each file; the files that another program has removed |
| `pc`, `job` | a thread's step and the locals of its tool call: the phases to come, the buffers whose `with` block it is in, the positions it resolved, the text it saves |

A call looks its symbol up (`Open`, `EnsureOpen`, `DidOpen`, `Store`, `LookInCache`, `Ask`),
leaves the buffer (`Drop`, `Close`, `Del`), opens it again, edits it (`Delete`, `Insert`, each followed
by `DidChange`) and persists it (`Save`, `Truncate`, `Put`, `Stamp`). `request_rename` does the second
half for every file of the answer, after `Validate`. An exception runs the finally blocks of the
buffers that are held.

`contents` asks for the file's time first, which raises when the file is gone. `OpenFails` is that in
`_open_in_ls`, after `_is_open_in_ls` was set: a symbol tool that opens the document later is in its `with` block by
then and leaves it, and what has a buffer that passes for open sends `didChange` and `didClose` for it. Elsewhere
the block is not entered yet (`ls.py:1269-1271` is before the `try`), so that nothing undoes the count: the field `lost`
records how many users in `ref_count` are gone. A buffer that was being made is garbage. `ReadFails` is
the other places that read contents or ask for the time, all of them in a `with` block. `WriteOutside`,
`RemoveOutside` and `RestoreOutside` are another program, or another tool of this one, that writes the file,
removes it, or puts it there again.

The code takes no lock here, so a step ends wherever a message is written, the file
is read or written, or the table is looked up or changed. `Between` are the threads in the gaps
of look-up-or-create and of count-down-and-remove. A text is a sequence of lines, of which one is
the symbol; columns and characters are in `TextEdits`. A deletion leaves the line, empty (`Empty`), the last line too,
and the insertion that follows fills it.

### Documents (`solidlsp/ls.py:635-775, 891-1005, 1805-2013, 2889-3057`), MCDocuments

One document, whose buffer and edits are single steps here. `raw` and `high` are its entries in the
two symbol caches: the hash, the text that the response is about, the text the bodies are cut
from. `LookHigh`, `LookRaw`, `Ask`, `Store`, `Convert` and `Keep` are `request_document_symbols`.
`modified`, `stored` and `version` are the caches on disk: `Save` may fail at either file, and
`Restart` loads what it finds under the version it expects. `ReadGeneration`, `Pull`, `Wait`, `Renew`,
`TimeOut` and `Cached` are `request_text_document_diagnostics` with its fallback; `Publish` and
`StorePublished` are the server and the reader thread, with `pipe` between them.

### TextEdits, LineWindows, FileQueries, SymbolTree, SymbolPositions; TextQueries and Queries

Pure operators, each named after the function it translates: `TextEdits` for `ls_utils.py:31-309`,
`apply_text_edits_to_file` and `SymbolBody`, `LineWindows` for the windows of `read_file` and `read_lines`,
`FileQueries` for paths, globs and walks of `fs_tools.py`,
`SymbolPositions` for the symbol at a position and its container, `SymbolTree` for name paths and for the
references, implementations, locations and directory trees of `ls.py`. A file system
is a function from paths to nodes, and a link names its target. A document is a sequence of symbols, each with
its parent and ranges.

`TextQueries` and `Queries` pick one question in `Init` and answer it in their only step;
their properties compare the answer with a definition of another shape: positions by counting line breaks, edits
by index on the text as it was, patterns
segment by segment, walks by conditions on whole paths, symbols by ancestry and ranges. A property of these says
only what code and documentation agree on; section 4 lists where they do not.
`TextQueries` holds the questions about texts and lines, which need no recursive operator. `Queries` extends it: its
`Init` and `Next` are those of `TextQueries` and the other questions, and a step changes no question, so a behaviour of
`Queries` that asks about a text is a behaviour of `TextSpec`. The run `queries` checks both.
The containing, implementing and referencing symbols are queries that `ls.py` offers and no tool calls yet.

## 4. What is checked

| Run | Question | Result |
|---|---|---|
| `lsp_safety` | do late, repeated and reordered answers, retries, timeouts and a crash ever give a request two results or a call another's payload; does the cancellation leave a sent request pending; is a retry only ever due to the server's own ContentModified; does the client implement `RpcFutures` | hold |
| `lsp_live` | without timeouts, with `stop()`, its shutdown thread, and a server that dies, asks something itself or hangs with a full pipe: can a waiter become unreachable, does the pending map leak, is every request registered before the cancellation resolved, does `stop()` end | hold |
| `lsp_hang` | does every call return in the program's setting | violated (finding 1) |
| `registry_calls` | one started process per root, the same server for every call, none forgotten at exit, a lock that comes free, and nothing that outlives the program, with crashes, refused starts, a racing exit and a kill | hold |
| `registry_refused` | one process per root when initialize fails | violated (finding 2) |
| `tail_calls` | does a growing file lose bytes between concurrent calls; are repeats possible other than by a write between stat and read | hold |
| `tail_repeats` | is every byte returned once, as documented | violated (finding 3) |
| `files_calls` | killed at any moment, can an edit or a patch with a backup be recovered from; does a move keep its source; does a call take away what it was not asked to | hold |
| `files_same` | a file moved onto itself | lost (finding 4) |
| `sessions_calls` | do overlapping tool calls share one buffer and fail only for a reason; does the server hear of a document in order, and have the buffer's text; is what a call saves the file it found with its edit in it; is nothing left open | hold |
| `documents_calls` | are symbols and diagnostics those of the text they are returned for, through both caches, restarts and late publications | hold |
| `queries` | do the pure algorithms give what independent definitions say | hold |

What the passing properties leave out is written in them, by name:

* `LspRequests`: `StopEnds` leaves out a server that hangs while a write to it is blocked
  (`Full /\ ~StdinFree`), `RegisteredIsResolved` a server that hangs at all.
* `ServerRegistry`: `OneStartedPerRoot` and `ShutdownStopsStarted` speak of processes whose
  `start()` did not raise (`abandoned`); `LockIsReleased` allows for an initialize that nobody will
  answer (`Unheard`); `NothingOutlives` for a child that was being forked when the program ended.
* `TailFollow`: `NothingMissed` for a file that was truncated or removed (`onlyGrew`).
* `FileOps`: calls that overlapped (`met`).
* `EditSessions`: `stirred` says in which ways the calls under way on a file have interfered:
  `window` (looked up in one of the gaps), `edit` (two edits overlap), `torn` (read while
  truncated for saving), `outside` (another program wrote, removed or restored it), `end` (a line inserted past the
  end), `apart` (an edit began while the server lacked such a line), `unread` (an opening could not read the file and has
  left its traces in a buffer that is in use). Each property
  names the kinds that break it, so that it says which overlaps are harmless: most are. `SharedBuffer` adds the
  users that were lost (`lost`) to those at work, and `NothingLeftOpen` excepts a buffer that lost some.
* `WalksAgree`: what `tree` shows beyond a link that leads out of the project (`Stays`), and the symbol tree of a
  directory that leads back to itself (`Circular`). `SymbolsAreFound`: names that a symbol has only with others in
  between (`named = chained`), and containers where several begin on one line or the column decides (`Encloses`).
* `Documents`: entries made while the file changed (`doubt`, `drifted`), publications that were on their way
  when a call began (`late`), and the fallback after a wait that timed out (`timedOut`).

`abandoned`, `onlyGrew`, `raced`, `returned`, `base`, `met`, `original`, `stirred`, `lost`, `doubt`, `drifted`,
`late`, `timedOut`, `seen`, `saved` and `before` are history variables: they record what the properties need and guard
nothing.

### Findings

1. **A call may wait for ever** (`lsp_hang`). A request registered after the
   reader has cancelled the pending ones gets no answer: the broken pipe is
   swallowed and `get_result` has no timeout. While a server starts, this keeps
   the registry lock held, and the tools of every project block.
2. **A server that fails to start is left running** (`registry_refused`). If
   `start()` raises after the launch, the process is neither stopped nor
   registered: the next call launches another, and the exit handler does not stop
   it. The death signal ends it when the program is gone.
3. **`tail_follow` may return bytes twice** (`tail_repeats`): the cursor is set to
   the size of a stat older than the read.
4. **`move_file(p, p, overwrite=True)` deletes `p`** (`files_same`).

### Noted while modelling

Behaviour that the models have, and that the properties state or leave out; where the code's own
words differ, they are given.

* `ls_process.py`: `stop()` does not end while a write is blocked by a server that hangs; closing stdin waits
  for the write, and the terminate-and-kill fallback of its docstring is never reached.
* `fs_tools.py`: `overwrite=false` is check-then-act, so two overlapping calls can both pass the check; an
  edit overlapped by another can lose the original from file and backup; a patch that fails after some hunks
  leaves the file changed though the tool raises; `validate_path` returns the real path, so that a tool given
  a symbolic link deletes or moves its target; nested braces are split at their inner commas; allowed roots
  are not resolved, so a root that is itself a link refuses everything below it.
* `fs_tools.py`: `tree` goes into directories by link (780-784), wherever they lead, although no tool is to
  reach outside the allowed roots (`README.md:107-111` of the repository, `fs_tools.py:107-108`); a link that
  leads nowhere counts as missing and is judged by the directory it is in; with `max_depth=0`, which is not
  None, `find_files` reports one level (526) and `tree` none (765).
* `ls.py`, buffers: an opening that cannot read the file leaves its user in the count of a shared buffer, which is then
  never closed and stays registered, marked as open in the server, where it is not or no longer; later calls on the file
  share this buffer and send `didChange` for a document that was not opened.
* `ls.py`, buffers: a file read while it is being saved gives a torn text; a line inserted
  one past the end gets a newline in the buffer that the server is not told of; the columns of a
  position are not checked.
* `subprocess_util.py`: a child forked when the program dies, before its `prctl`, may be left.
* `ls.py`, caches: an empty response is kept in the high-level cache, despite the comment at 1853-1855; the
  high-level version does not contain the raw one, despite the docstring at 1814-1815; this program never
  saves its caches.
* `semantic_tools.py:88-106`: the "contiguous parent-child chain" of `_find_in_tree` may skip levels before every name,
  depth first. With a class `A` that has a class `B` before its own method `f`, and `B` with a method `f` too, the path
  `A/f` finds `A/B/f`, and `replace_symbol_body` and the insertions edit there.
* `ls.py`, symbols: `request_containing_symbol` has not the fallback its docstring describes and gives the
  outermost of symbols that start on one line; the innermost symbol is not found where two span as many lines
  and end together; references are asked without declarations, so `include_self` and `include_imports` change
  nothing; the tree of a directory follows links and ends with a `RecursionError` where one leads back.
* `semantic_tools.py`: `request_rename` saves one file after the other, and what a failure leaves renamed stays so; it
  reads `changes` only, not `documentChanges`; edits that start at one position are applied in the reverse
  of the protocol's order.

### Bounds, and why they are enough

* `LspRequests`: in `lsp_safety` two callers with two calls between them, each of up
  to two attempts, so four requests: one thread can time out, call again and meet
  its old answer, or have a call open while the other's is answered. In `lsp_live`
  a caller, the shutdown thread and the reader are the three that wait or write; the server asks
  once and hangs for good. `MaxOut` 1 response in
  the pipe: the reader takes one at a time, and the server holds any number of
  received requests and answers them in any order, so more in the pipe adds only
  delay between answer and read, which the reader's own steps already give.
  `MaxAttempts` is 2 where the code has 3: a call is retried and then stopped by the
  limit with either, and the theorems hold for any limit. Callers are symmetric in the safety run.
* `ServerRegistry`: three threads on two roots, so that two ask for one root while
  a third holds the lock for another; two launches let a root be launched again.
* `TailFollow`: two callers hold stats of different ages; with two inodes a number
  can be reused, with three bytes a cursor can be behind, at and past the end. The
  theorems cover every number of callers and bytes.
* `FileOps`: two callers, two paths with their backups and three calls, so that a
  backup exists from an earlier edit when the next begins, and a third call runs
  beside either.
* `EditSessions`: two threads and two files, so that a rename covers a file that another call
  works on. `MaxEffort` 4 with a price per call: two edits, or an edit and two reading calls, or
  writes or removals by another program, or a rename and one of these; each such set in every interleaving. Every gap
  in the code is between two threads, so a third would repeat what two show. A removed file may come back at any
  moment, free of charge. A file is not removed between its truncation and the writing of its text (the writer
  goes on with an inode that no path leads to, as `FileOps` has it); this bound is in the action, and so in the theorems.
* `Documents`: two threads, two texts of which one has errors, and four of calls, changes, saves
  and restarts: an entry can be made, saved, loaded and used for another text. Two publications
  are one stale and one current.
* `TextQueries` and `Queries`: texts of up to four characters have every combination of two line breaks,
  `\r\n` and the end of the text; two edits can touch or not, and the second may end past the end; files of
  three lines have windows that are empty, proper, whole and too large; three segments put a wildcard before,
  between and after names; four symbols have nesting, siblings, overloads and equal ranges. The paths that are
  validated have up to four names out of `p`, `q`, `x`, `y` and `..`, so that up to three are missing, below
  directories, files and links in and out of the project; `max_depth` is None, 0, 1 or 2. `LinkLimit` and
  `RecursionLimit` stand for the kernel's and the interpreter's limits and are larger than any acyclic
  instance needs.

`CHECK_DEADLOCK FALSE` is in every configuration because the bounds on calls,
launches and bytes, a server that has been stopped, and a question that has been answered, end
a behaviour.

### Fairness

Weak fairness of each calling thread, the reader and the stopper: the operating
system runs runnable threads, and no step of theirs can be disabled for ever by
being passed over (the locks inside an action are held for that action only; a blocked write
disables the steps that need its lock for as long as it blocks). No
fairness for tool calls, crashes, stops, hangs or the stderr reader. `ResponsiveSpec` adds
that a living server that does not hang answers what it was sent. In
`ServerRegistry` the fairness of a thread includes that a living server answers
`initialize`, and that the 60-second wait for the analysis ends; the kernel delivers death signals.
`LookUp` needs only weak fairness for `LockIsReleased`, which asks that a holder lets go, not
that a given waiter gets the lock.

## 5. What is proved

`LspRequestsProofs` (any callers, switches, bounds, with a server that asks and one that hangs; from the
assumption that the shutdown thread is not a caller, and the assumptions on the switches' types):

* `TypesHold`: `TypeOK`. Inductive with `HasRequest` (a thread past `AllocId` holds
  a request), without which `Register` could add 0 to the map.
* `EachRequestOneResult` and `WaitersAreFindable`: `OneResult` and `NoLostWakeup`, from
  `DeliveryInv`. Neither is inductive. The argument: a pending request has an empty
  queue (`PendingIsOpen`), so has the one in the reader's hand, which is no longer
  pending (`InHandIsOpen`); threads hold distinct requests (`OwnRequest`), and one
  not yet registered is unknown to everybody (`FreshIsUnseen`), so its registration
  cannot bring back an answered one. Popping the request under the lock before its
  result is put is what the proof turns on.
* `AnswersReachTheirCall`: `AnswersOwnCall`, from `AnswersInv`: ids and bodies agree in
  the pipe, in the reader's hand and in the queues, and a working thread's request
  belongs to its current call.
* `Refinement`: `FuturesSpec`, the client implements `RpcFutures`. Every step is a step of the abstract futures or a
  stutter, and the state of a call (`futures`) is read off its thread, so what it rests on is which threads may be
  where: `CallInv` says that a call under way has not returned, that one which starts another attempt holds the
  answered request of its last one, and that the thread which stops the server makes no call until it has stopped.
* `RetriesAreAsked`: `RetryAfterModified`, from the same invariant.
* `CancellationComplete`: `CancelIsComplete`. Inductive with `LeftIsDead` (the reader leaves its loop, or the
  handle is dropped, only when the process has ended) and `UnsentYet` (what is not registered was not received).
* `PendingAwaited`: `PendingIsAwaited`. With timeouts switched on a request may stay pending although its thread has
  given up, so the theorem has the hypothesis `~HasTimeout`, as the run that checks the property does.

`TailFollowProofs` (any callers, inodes, bounds):

* `TypeCorrect`.
* `RepeatsNeedARace`: `RepeatsAreRaced`, from two facts about the file: a byte
  behind the size of a stat still held came after it and is therefore raced
  (`BehindStatIsRaced`), and a byte that was returned is passed by the cursor, gone
  from the file, or raced (`ReturnedIsPassed`). The cursor only ever moves to a stat's
  size, so it leaves nothing behind it but raced bytes, whichever way it moves and
  whether or not an inode number is reused.
* `GrowingFileMissesNothing`: `NothingMissed`. What makes it inductive
  (`SoundCursor`) is that stats and cursor never lie beyond the end of a file that
  has only grown.

`ServerRegistryProofs` (any threads, roots and launches): `TypesHold`, and from `OwnerInv` the rest. Its parts:
the lock has one holder, a thread that starts a server or the exit handler (`LockHeld`); a thread starts one only
for a root without a server (`StartsOwn`); a registered process belongs to its root (`RegistersOwn`); every process
that runs and whose start did not raise is registered or in the hands of the thread that starts it (`AllOwned`).
Hence `OneStarted` (`OneStartedPerRoot`), `Same` (`SameServer`) and `ShutdownStops` (`ShutdownStopsStarted`), and
`OneStarts`, which no run states: never two threads between the look-up and the registration.

`FileOpsProofs` (any callers and calls, finitely many files): `TypesHold`, with each call
at a step of its own tool (`AtStep`) and the inodes in use numbered; then `KeptInv`, which says for each step what
the call knows of its files while only harmless calls overlap it. `BackupSafe` is the inductive form of
`BackupRecovers`: until the copy is made the file holds what was read, from then on the backup does, and the file
that is written next is not the backup. `BackupsRecover`, `NothingLost` (`NothingLostUnasked`) and `MovesKeep`
(`MoveKeepsSource`) follow. `MovesKeep` has the hypothesis `~SamePath`, which the passing run has too: a move of a file
to its own path with overwriting does lose it, the finding of the run `FileOps_same`.

`DocumentsProofs` (any threads, texts and publications; `Threads` finite): `TypesHold`, and from `DocInv` the rest. The
buffer counts its users, the document is open at the server exactly when the buffer says so, and unless another
program wrote the file both have its text (`BufferInv`); an entry of a cache, in memory or in its file, is about
the text whose hash it has (`CacheInv`); a call knows at each step whether its response and its lines are
about the text of the file (`SymbolsKnown`) and that the publications on their way are about texts the server has had
since the call began (`DiagnosticsKnown`). Hence `CachesTruthful`, `SymbolsCurrent`, `DiagnosticsCurrent`, and the
action property `NoneOverlooked` (`NoErrorsOverlooked`).

`EditSessionsProofs` (any threads, files and tools; `Threads` and `Files` finite):

* `TypesHold` and `TableKept`. `Local` says of each thread alone how many with-blocks it is in and that its
  plan fits the lines it looked at. `Table` relates the threads: a buffer counts the blocks that use it
  (`Counted`), one that is being closed is held by nobody else (`Closing`), a registered buffer without a lost
  user and an open document are held by some call (`Registered`, `ServerHeld`; a document is open for a buffer
  that has lost no opening, `Intact`). It holds whatever overlaps and fails, the gaps of the with-block and
  files that cannot be read included, and gives `LeftClosed` (`NothingLeftOpen`).
* `Shared`: `SharedBuffer`, from `AloneInGaps`: as long as no call looked a file up in another's gap, the buffers in
  use are the registered one, or the only one, which is about to be registered.
* `TableFailuresRaced`: the first half of `FailuresAreRaced`, from `RacesKept`: a call that has failed does nothing
  but leave its with-blocks, and one that leaves them for an assertion or a missing key was preceded by a look-up
  in a gap.

`EditProtocolProofs` extends it with `Protocol`: `ProtocolKept`. The server's record of a file says that it
was told something out of order (`broken`), which is not inductive: what a thread will send depends on the
buffer it holds. `ProtocolInv` says, of a file without overlapping edits, look-ups in gaps and openings that
failed, that at most one call edits it (`OneEditor`); that a thread which is about to send `didOpen` is the
only one and the document is closed; that a buffer marked as opened is open at the server or will be; that
whoever is at a change finds it open; and that the version grows from the server's to the one in a pending
notification to the buffer's (`InOrder`). The argument is by who can disturb it: a step of a thread that does
not use the file leaves its buffer as it is (`ElsewhereOrder`), users of the file share one buffer
(`OneInUse`, from `AloneInGaps`), and the thread that closes it is alone (`AloneAtClose`). Openings that fail
enter through `NoticedKept`: a file that is missing while a call works on it, and a buffer in use that has
lost a user, are on record in `stirred`, so that where nothing is on record none of it has happened.

The same module proves `Mirrored`: `MirrorMatches`. Three copies of a text are involved, and they never agree
all at once: an edit changes the buffer, then tells the server twice, then truncates the file and writes it.
`MatchingInv` says, of a file on which nothing but an insertion past the end interferes, where each copy may
lag. What is open has been read; a file newer than its buffer has the buffer's text unless it is being
written, so that reading it again changes nothing (`ReadAgain`); the server has the buffer's text unless a
call is about to tell it of a change (`InStep`). And of each call: what it opens the document with is the
buffer's text, the change it is about to send turns the server's text into the buffer's, and what it saves is
the buffer's text, with the file empty in between (`Carries`). A deletion and an insertion that are told in
two messages are why the property leaves out the steps before a message. The proof goes by the same cases as
`Protocol`; `ElsewhereMatching` disposes of all threads that do not use the file, and `PlainMatching` of the
steps that only move the call on.

Last, `EditsSaved` (`EditsAreSaved`) and `FailuresRaced` (`FailuresAreRaced`), on top of all of these.

* `CoursesKept` is about each call alone: its plan has every phase once, questions first; while a file that it has
  saved is still in its plan, the call is leaving the with-block of that file; it leaves the block of an edit without a
  failure only after saving; a call that returns without a failure has no phase left.
* `KeptInv` is about a file on which nothing but an insertion past the end interferes. `OnDisk`: the file is
  as the call found it, or empty between truncating and writing, or edited, from the write on. `InBuffer`: the
  buffers that have been read hold the file's text, or, while a call has changed it and not saved it, the text
  that is due (`Due`: an empty line for the old body after the deletion, edited after the insertion). `Found`:
  for each file yet to edit, the call knows the line at which the symbol was when it began, and every file
  with the symbol is saved or yet to be edited. `Unfailed`: the place of an edit is in the text.
* A question comes before any edit of the call, so that file, buffer and the server's document are then as the
  call found them; the last needs `MatchingInv`. That a body deleted and then inserted is replaced
  (`ReplacedAt`, `ReplacedTwice`) is a fact about the library's `ReplaceAt`.
* The proof has one case for the thread that steps (`OwnFound`, `OwnUnfailed`, `OwnApart`, `OwnDisk`, `TextsStep`), one
  for all others (`OtherEditor`) and one for other programs (`OutsideKept`).

`ApartLate` is there for a reason that model checking had not shown. A line inserted past the end sets the server's
text apart from the buffer's. That does not harm the call that inserts, which saves the buffer; but a call that begins
while the document is still open asks a server which has another text, and a rename may then miss a file. The step from
`Found` to the answer of the server could not be proved without excluding it. Three calls that overlap are needed,
which is out of the reach of `sessions_calls` with its bound. Such a call is recorded in `stirred` as `"apart"`
when it begins, and `EditsAreSaved` says so.

`QueriesProofs` (any bounds, so texts, files and sets of edits of any size): `Answers`, `PositionsLeadBack`
(`PositionsAgree`) and `Simultaneous` (`EditsAreSimultaneous`), for `TextSpec`. The inductive invariant, `Truthful`, only
says that an answer is what the operators give for its question; what these compute is the content of the proof.
Induction is by sets of numbers (`Induct`, from `Smallest`), and functions that are defined step by step exist by
`Recursion`, which gives their equations (`SteppedIs`, `SplitIs`, `ReplacedIs`).

* Positions are stated by the line breaks up to an index; `RowCol` says what one more character does to row
  and column. `Standing` is the invariant of `TextStepper`: after `k` steps it stands at the start of line `k`, or at the
  end of the text, nothing but plain characters passed since, and it remembers the line before. From it follow
  `get_index_from_line_col` (`IndexOfPosition`), `get_line_col_from_index` with its case inside `\r\n` (`PositionOfIs`),
  and the gathered lines, as stretches of the text (`LinesAre`, `LinesFound`).
* Insertions and deletions by position, past the end included, are those by index (`InsertionsFound`, `DeletionsFound`).
* `SymbolBody.get_text` splits a text into lines, joins some of them and cuts both ends: joining the lines
  from one row to another gives back the stretch of text between them (`SplitIs`, `JoinedLines`), hence
  `BodyBetween` and `BodyToEnd`.
* Windows: `FileWindow` and `LinesWindow`.
* Edits: the sort puts the latest first, whatever order they come in (`LatestAreFirst`: ranges in order have
  starts in order of line and column, `StartsCompare`, so the place of an edit is the number of those that
  start at it or later, `PlaceIs`). One edit changes nothing before its range, so that the positions before it
  still mean the same (`SamePositions`) and the next edit is done where it was meant (`AppliedIs`). By
  induction the text after `k` edits is the text as it was, up to the last range not yet done, followed by
  what has become of the rest (`EditsReplace`, with `IsSuffix`).

The texts have no carriage returns where the properties say so: edits are made on buffers, which are read with line
ends translated.

The same module proves, of any document, two parts of `SymbolsAreFound`. `InnermostIsFound`: of the symbols
whose name, or else whose range, holds a position, none lies clearly inside the one that is found.
`ContainerIsFound`: the container holds the position, and no possible container that does begins on a later
line. That the least key exists (`LeastIs`) is an induction over the parts of the keys; that a range inside
another has the lesser key (`InsideGoesAhead`) needs ranges that do not end before they start, which is what
`Document` says and the protocol asks for. "Clearly" leaves out ranges of as many lines that end together
(section 4, noted while modelling).

Only model-checked: everything under fairness (`RegisteredIsResolved`, `StopEnds`, `LockIsReleased`,
`NothingOutlives`), which is beyond the prover, and `PatternsMatchSegments`, `WalksAgree` and `SymbolsAreFound`, which
are, but for the two lookups above, about expanded braces, walks of trees and chains of parents, which `FileQueries`,
`SymbolTree` and `Queries` define by recursive operators: the prover has no SMT solver in a module that reaches one.
`ThreadsAssumption` and `FilesAssumption` (finite sets) are the
only assumptions on the constants of `EditSessions` beside their types.

## 6. What is not modelled

* Declarations: `lsp_types.py` and `ls_types.py` (types of messages, a third of all lines), `lsp_requests.py` (one-line
  wrappers of `send_request`), `lsp_constants.py`, `ls_config.py` (tables of languages and file names).
* Wire format and data: message framing, the payloads of messages, URIs and their Windows form, hashes (a text is
  its own hash), encodings, log and trace output, the conversion of the server's symbol records.
* Library conversions without state: PDF, DOCX and XLSX readers, checksums, comparison of files, the pattern
  matching of ignore files (a set of names in the models), the checks on the syntax of a path string.
* Sequential input and output before anything runs: settings, dependency lookup, downloads and archives,
  registration in `server.py`.
* Parts that this program never uses: `TCPLanguageServer`, `include_file_symbols`, hover, completions and
  signature help, `util/zip.py`, `util/metals_db_utils.py`, `language_servers/common.py`, `_compat.py`.
* The migration of caches of the original project (`ls.py:2980-3002`, which removes the old file even when saving
  the new one failed): one step at start-up, for files that this program never writes.
* Within modelled parts: notifications other than `exit`; the children of a server process, which are ended with it
  by the termination of its tree and not by the death signal; systems without libc, where no child asks for a
  death signal; `find_symbol` across the workspace, which filters the server's own answer; the filter of diagnostics by
  lines and severity.
* In `EditSessions`: content that cannot be decoded, which raises in the places where a missing file does, but
  only when it is read anew; and a file that is missing when the call begins, which is refused before anything
  else.
