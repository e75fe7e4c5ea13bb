----------------------------- MODULE LspRequests -----------------------------
(***************************************************************************)
(* The JSON-RPC client half of the language-server connection              *)
(* (solidlsp/ls_process.py): several threads call send_request on one      *)
(* StdioLanguageServer, one reader thread turns the server's responses     *)
(* into results, the server may die at any moment, and stop() may run      *)
(* while calls are in flight.                                              *)
(*                                                                         *)
(* A request is known by its id.  The requests created so far are          *)
(* 1 .. requestId - 1; call and queue are functions on them.  The server   *)
(* is external: it answers what it was sent in any order, possibly twice,  *)
(* possibly never.                                                         *)
(***************************************************************************)
EXTENDS Integers, Sequences

CONSTANTS Callers,       \* threads that run tool calls
          Shutdown,      \* the daemon thread that stop() starts
          RetryMethods,  \* methods are registered for ContentModified retries
          MaxAttempts,   \* _CONTENT_MODIFIED_MAX_ATTEMPTS
          HasTimeout,    \* _request_timeout is a number (the program leaves it None)
          MayCrash,      \* the server process may die by itself
          MayStop,       \* stop() may be called
          MayRepeat,     \* the server may answer a request more than once
          MayAsk,        \* the server may send a request of its own (bound: one)
          MayStall,      \* the server may stop reading its stdin
          MaxCalls,      \* bound: calls of send_request by Callers in a behaviour
          MaxOut         \* bound: responses in the stdout pipe

ASSUME ThreadsAssumption == Shutdown \notin Callers
ASSUME SwitchesAssumption ==
  {RetryMethods, HasTimeout, MayCrash, MayStop, MayRepeat, MayAsk, MayStall} \subseteq BOOLEAN
ASSUME BoundsAssumption ==
  /\ MaxAttempts \in Nat \ {0}
  /\ MaxCalls \in Nat
  /\ MaxOut \in Nat \ {0}

VARIABLES
  requestId,        \* request_id, the next id
  call,             \* request -> number of the send_request call that made it
  queue,            \* request -> results ever put in its _result_queue
  pendingRequests,  \* _pending_requests
  calls,            \* calls of send_request begun so far
  pc,               \* thread -> where in send_request it is
  callOf,           \* thread -> number of its current or last call
  retries,          \* thread -> the call's method is registered for retries
  attempt,          \* thread -> attempt of send_request's retry loop
  cur,              \* thread -> request it works on, 0 if none yet
  returned,         \* thread -> how its last call ended
  alive,            \* the server process runs
  reaped,           \* process.returncode is set
  handle,           \* self.process is not None
  stdinOpen,        \* process.stdin is not closed
  received,         \* requests the server holds and may answer
  asked,            \* the server has sent its request
  stalled,          \* the server reads its stdin no more, and the pipe is full
  writing,          \* threads in a blocked write; they hold _stdin_lock
  stdout,           \* responses in the stdout pipe
  reader,           \* where the stdout reader thread is
  inHand,           \* response whose request the reader has popped
  isStopping,       \* _is_stopping
  stopper,          \* where stop() is
  exitSent          \* the exit notification was written

threadVars == <<calls, pc, callOf, retries, attempt, cur, returned>>
requestVars == <<requestId, call>>
pipeVars == <<asked, stalled, writing>>
serverVars == <<alive, received, exitSent, pipeVars>>
readerVars == <<reader, inHand, stdout>>
stopVars == <<isStopping, stopper, handle, stdinOpen>>
vars == <<requestId, call, queue, pendingRequests, calls, pc, callOf, retries,
          attempt, cur, returned, alive, reaped, handle, stdinOpen, received,
          stdout, reader, inHand, isStopping, stopper, exitSent, asked, stalled, writing>>

-----------------------------------------------------------------------------
Threads == Callers \cup {Shutdown}
Requests == 1 .. requestId - 1

\* What a server answers: a result, the ContentModified error, another error.
Answers == {"ok", "modified", "error"}
ResultKinds == Answers \cup {"terminated"}
\* body is the request the payload was computed for, 0 when there is none
Result == [kind : ResultKinds, body : Nat]
Response == [id : Nat, kind : Answers, body : Nat]
Return == [kind : ResultKinds \cup {"none", "timeout", "raised"}, body : Nat]

NoResult == [kind |-> "none", body |-> 0]
NoResponse == [id |-> 0, kind |-> "error", body |-> 0]
Terminated == [kind |-> "terminated", body |-> 0]

InCall == {"alloc", "register", "check", "write", "wait"}

Init ==
  /\ requestId = 1 /\ call = [i \in {} |-> 0] /\ queue = [i \in {} |-> <<>>]
  /\ pendingRequests = {}
  /\ calls = 0
  /\ pc = [t \in Threads |-> "idle"]
  /\ callOf = [t \in Threads |-> 0]
  /\ retries = [t \in Threads |-> FALSE]
  /\ attempt = [t \in Threads |-> 1]
  /\ cur = [t \in Threads |-> 0]
  /\ returned = [t \in Threads |-> NoResult]
  /\ alive = TRUE /\ reaped = FALSE /\ handle = TRUE /\ stdinOpen = TRUE
  /\ received = {} /\ stdout = <<>>
  /\ asked = FALSE /\ stalled = FALSE /\ writing = {}
  /\ reader = "poll" /\ inHand = NoResponse
  /\ isStopping = FALSE /\ stopper = "off" /\ exitSent = FALSE

-----------------------------------------------------------------------------
(* send_request and _send_request_once, one action per atomic step.          *)

\* The call's fields when it begins: a fresh call number and the first attempt.
Begin(t, registered) ==
  /\ calls' = calls + 1
  /\ callOf' = [callOf EXCEPT ![t] = calls + 1]
  /\ retries' = [retries EXCEPT ![t] = registered]
  /\ attempt' = [attempt EXCEPT ![t] = 1]
  /\ returned' = [returned EXCEPT ![t] = NoResult]
  /\ pc' = [pc EXCEPT ![t] = "alloc"]
  /\ UNCHANGED cur

\* A tool call enters send_request.
Call(t) ==
  /\ t \in Callers /\ pc[t] = "idle" /\ calls < MaxCalls
  /\ \E registered \in {FALSE, RetryMethods} : Begin(t, registered)
  /\ UNCHANGED <<requestVars, queue, pendingRequests, serverVars, reaped, readerVars, stopVars>>

\* Under _request_id_lock: take the next id, then create the Request object.
AllocId(t) ==
  /\ pc[t] = "alloc"
  /\ requestId' = requestId + 1
  /\ call' = [i \in 1 .. requestId |-> IF i = requestId THEN callOf[t] ELSE call[i]]
  /\ queue' = [i \in 1 .. requestId |-> IF i = requestId THEN <<>> ELSE queue[i]]
  /\ cur' = [cur EXCEPT ![t] = requestId]
  /\ pc' = [pc EXCEPT ![t] = "register"]
  /\ UNCHANGED <<pendingRequests, calls, callOf, retries, attempt, returned,
                 serverVars, reaped, readerVars, stopVars>>

\* Faulty variant: self.request_id is read again instead of the id that was taken.
RegisterNextId(t) ==
  /\ pc[t] = "register"
  /\ pendingRequests' = pendingRequests \cup {requestId}
  /\ pc' = [pc EXCEPT ![t] = "check"]
  /\ UNCHANGED <<requestVars, queue, calls, callOf, retries, attempt, cur, returned,
                 serverVars, reaped, readerVars, stopVars>>

\* Under _response_handlers_lock: the request becomes pending before it is sent.
Register(t) ==
  /\ pc[t] = "register"
  /\ pendingRequests' = pendingRequests \cup {cur[t]}
  /\ pc' = [pc EXCEPT ![t] = "check"]
  /\ UNCHANGED <<requestVars, queue, calls, callOf, retries, attempt, cur, returned,
                 serverVars, reaped, readerVars, stopVars>>

\* _send_payload's early return: without a process nothing is written, and the
\* caller goes on to wait all the same.
CheckProcess(t) ==
  /\ pc[t] = "check"
  /\ pc' = [pc EXCEPT ![t] = IF handle THEN "write" ELSE "wait"]
  /\ UNCHANGED <<requestVars, queue, pendingRequests, calls, callOf, retries, attempt,
                 cur, returned, serverVars, reaped, readerVars, stopVars>>

\* How a call of t ends: its return value or the exception it raises.
Leave(t, result) ==
  /\ pc' = [pc EXCEPT ![t] = "idle"]
  /\ returned' = [returned EXCEPT ![t] = result]

\* A write to stdin does not end.
Full == stalled /\ alive /\ stdinOpen

\* Nobody is in a blocked write, with _stdin_lock and the lock of the stream.
StdinFree == writing = {} /\ reader # "responding"
CanWrite(t) == ~Full /\ (StdinFree \/ t \in writing)

\* What t does next is a write: of its request, or of the exit notification.
AboutToWrite(t) ==
  \/ pc[t] = "write"
  \/ t = Shutdown /\ pc[t] = "wait" /\ queue[cur[t]] # <<>> /\ Head(queue[cur[t]]).kind = "ok"

\* The pipe is full: the write blocks under _stdin_lock until the process dies.
WriteBlocks(t) ==
  /\ AboutToWrite(t) /\ StdinFree /\ Full
  /\ writing' = {t}
  /\ UNCHANGED <<requestVars, queue, pendingRequests, threadVars, alive, received, exitSent,
                 asked, stalled, reaped, readerVars, stopVars>>

\* _send_payload under _stdin_lock.  A dead process gives a broken pipe, which is
\* swallowed; a stdin closed by stop() raises ValueError (AttributeError once the
\* process is None), which escapes from send_request.
Write(t) ==
  /\ pc[t] = "write" /\ CanWrite(t)
  /\ writing' = writing \ {t}
  /\ IF stdinOpen
       THEN /\ received' = IF alive THEN received \cup {cur[t]} ELSE received
            /\ pc' = [pc EXCEPT ![t] = "wait"]
            /\ UNCHANGED returned
       ELSE /\ Leave(t, [kind |-> "raised", body |-> 0])
            /\ UNCHANGED received
  /\ UNCHANGED <<requestVars, queue, pendingRequests, calls, callOf, retries, attempt,
                 cur, alive, exitSent, asked, stalled, reaped, readerVars, stopVars>>

RetryAny(t, result) ==
  retries[t] /\ result.kind # "ok" /\ attempt[t] < MaxAttempts
\* send_request asks again: only a registered method, only after ContentModified.
ShouldRetry(t, result) ==
  retries[t] /\ result.kind = "modified" /\ attempt[t] < MaxAttempts

\* get_result returns: the call is retried, or ends with the payload or the error.
\* The shutdown thread goes on to send the exit notification after a result.
Receive(t) ==
  /\ pc[t] = "wait" /\ queue[cur[t]] # <<>>
  /\ AboutToWrite(t) => CanWrite(t)
  /\ writing' = writing \ {t}
  /\ LET result == Head(queue[cur[t]])
     IN  IF ShouldRetry(t, result)
           THEN /\ attempt' = [attempt EXCEPT ![t] = @ + 1]
                /\ pc' = [pc EXCEPT ![t] = "alloc"]
                /\ UNCHANGED <<returned, exitSent>>
           ELSE /\ Leave(t, result)
                /\ exitSent' = (exitSent \/ (t = Shutdown /\ result.kind = "ok"
                                              /\ handle /\ stdinOpen /\ alive))
                /\ UNCHANGED attempt
  /\ UNCHANGED <<requestVars, queue, pendingRequests, calls, callOf, retries, cur,
                 alive, received, asked, stalled, reaped, readerVars, stopVars>>

\* get_result's queue wait runs out: TimeoutError escapes from send_request and
\* the request stays in _pending_requests.
TimeOut(t) ==
  /\ HasTimeout
  /\ pc[t] = "wait" /\ queue[cur[t]] = <<>>
  /\ Leave(t, [kind |-> "timeout", body |-> 0])
  /\ UNCHANGED <<requestVars, queue, pendingRequests, calls, callOf, retries, attempt, cur,
                 serverVars, reaped, readerVars, stopVars>>

-----------------------------------------------------------------------------
(* _read_ls_process_stdout: the reader thread.                               *)

\* The loop's head: no process or a terminated one ends the loop, whatever is
\* left unread in stdout.
ReaderPoll ==
  /\ reader = "poll"
  /\ IF handle /\ alive
       THEN reader' = "read" /\ UNCHANGED reaped
       ELSE reader' = "exit" /\ reaped' = (reaped \/ handle)
  /\ UNCHANGED <<requestVars, queue, pendingRequests, threadVars, serverVars,
                 inHand, stdout, stopVars>>

\* Faulty variants: the response is given to the longest-waiting request, or the
\* request is looked up without being removed.
ReaderTakeFIFO ==
  /\ reader = "read" /\ stdout # <<>>
  /\ stdout' = Tail(stdout)
  /\ IF pendingRequests # {}
       THEN LET i == CHOOSE i \in pendingRequests : \A j \in pendingRequests : i <= j
            IN  /\ pendingRequests' = pendingRequests \ {i}
                /\ inHand' = [Head(stdout) EXCEPT !.id = i]
                /\ reader' = "deliver"
       ELSE reader' = "poll" /\ UNCHANGED <<pendingRequests, inHand>>
  /\ UNCHANGED <<requestVars, queue, threadVars, serverVars, reaped, stopVars>>
ReaderTakeKeeping ==
  /\ reader = "read" /\ stdout # <<>>
  /\ stdout' = Tail(stdout)
  /\ IF Head(stdout).id \in pendingRequests
       THEN inHand' = Head(stdout) /\ reader' = "deliver"
       ELSE reader' = "poll" /\ UNCHANGED inHand
  /\ UNCHANGED <<requestVars, queue, pendingRequests, threadVars, serverVars, reaped, stopVars>>

\* One message is read and _response_handler pops its request under
\* _response_handlers_lock; a response nobody waits for is dropped.
ReaderTake ==
  /\ reader = "read" /\ stdout # <<>>
  /\ stdout' = Tail(stdout)
  /\ LET response == Head(stdout)
     IN  IF response.id \in pendingRequests
           THEN /\ pendingRequests' = pendingRequests \ {response.id}
                /\ inHand' = response
                /\ reader' = "deliver"
           ELSE reader' = "poll" /\ UNCHANGED <<pendingRequests, inHand>>
  /\ UNCHANGED <<requestVars, queue, threadVars, serverVars, reaped, stopVars>>

\* After the lock is released, on_result or on_error puts the result.
ReaderDeliver ==
  /\ reader = "deliver"
  /\ queue' = [queue EXCEPT ![inHand.id] =
                 Append(@, [kind |-> inHand.kind, body |-> inHand.body])]
  /\ inHand' = NoResponse
  /\ reader' = "poll"
  /\ UNCHANGED <<requestVars, pendingRequests, threadVars, serverVars, reaped, stdout, stopVars>>

\* The message is a request of the server; its handler runs in the reader thread.
ReaderAsked ==
  /\ MayAsk /\ reader = "read" /\ ~asked
  /\ asked' = TRUE
  /\ reader' = "respond"
  /\ UNCHANGED <<requestVars, queue, pendingRequests, threadVars, alive, received, exitSent,
                 stalled, writing, reaped, inHand, stdout, stopVars>>

\* The handler's result, or its error, is to be written, but the pipe is full.
ReaderBlocks ==
  /\ reader = "respond" /\ StdinFree /\ Full
  /\ reader' = "responding"
  /\ UNCHANGED <<requestVars, queue, pendingRequests, threadVars, serverVars, reaped,
                 inHand, stdout, stopVars>>

\* It is written; whatever the write raises is logged.
ReaderRespond ==
  /\ reader \in {"respond", "responding"} /\ writing = {} /\ ~Full
  /\ reader' = "poll"
  /\ UNCHANGED <<requestVars, queue, pendingRequests, threadVars, serverVars, reaped,
                 inHand, stdout, stopVars>>

\* readline returns nothing: the process has closed its stdout.
ReaderEOF ==
  /\ reader = "read" /\ stdout = <<>> /\ ~alive
  /\ reader' = "poll"
  /\ UNCHANGED <<requestVars, queue, pendingRequests, threadVars, serverVars, reaped,
                 inHand, stdout, stopVars>>

\* _read_ls_process_stderr, the other reader thread, polls too and may be the first
\* to see the process dead.
StderrPoll ==
  /\ handle /\ ~alive
  /\ reaped' = TRUE
  /\ UNCHANGED <<requestVars, queue, pendingRequests, threadVars, serverVars, readerVars, stopVars>>

\* Faulty variant: leaving the loop without an exception cancels nothing.
ReaderExitQuietly ==
  /\ reader = "exit"
  /\ reader' = "quiet"
  /\ UNCHANGED <<requestVars, queue, pendingRequests, threadVars, serverVars, reaped,
                 inHand, stdout, stopVars>>

\* After the loop the reader looks at _is_stopping, once.
ReaderExit ==
  /\ reader = "exit"
  /\ reader' = IF isStopping THEN "quiet" ELSE "cancel"
  /\ UNCHANGED <<requestVars, queue, pendingRequests, threadVars, serverVars, reaped,
                 inHand, stdout, stopVars>>

\* Faulty variants of the cancellation: the map is cleared but the waiters are not
\* told, or only one of them is.
ReaderCancelSilently ==
  /\ reader = "cancel"
  /\ pendingRequests' = {}
  /\ reader' = "cancelled"
  /\ UNCHANGED <<requestVars, queue, threadVars, serverVars, reaped, inHand, stdout, stopVars>>
ReaderCancelOne ==
  /\ reader = "cancel"
  /\ \/ /\ pendingRequests = {}
        /\ UNCHANGED <<queue, pendingRequests>>
     \/ \E i \in pendingRequests :
          /\ queue' = [queue EXCEPT ![i] = Append(@, Terminated)]
          /\ pendingRequests' = pendingRequests \ {i}
  /\ reader' = "cancelled"
  /\ UNCHANGED <<requestVars, threadVars, serverVars, reaped, inHand, stdout, stopVars>>

\* _cancel_pending_requests under _response_handlers_lock: every pending request
\* gets LanguageServerTerminatedException, then the map is cleared.
ReaderCancel ==
  /\ reader = "cancel"
  /\ queue' = [i \in Requests |-> IF i \in pendingRequests THEN Append(queue[i], Terminated)
                                                           ELSE queue[i]]
  /\ pendingRequests' = {}
  /\ reader' = "cancelled"
  /\ UNCHANGED <<requestVars, threadVars, serverVars, reaped, inHand, stdout, stopVars>>

-----------------------------------------------------------------------------
(* The language-server process (external).                                   *)

ServerAnswer(i) ==
  /\ alive /\ i \in received /\ Len(stdout) < MaxOut
  /\ \E kind \in Answers :
       stdout' = Append(stdout, [id |-> i, kind |-> kind, body |-> i])
  /\ \/ received' = received \ {i}
     \/ MayRepeat /\ UNCHANGED received
  /\ UNCHANGED <<requestVars, queue, pendingRequests, threadVars, alive, exitSent, pipeVars,
                 reaped, reader, inHand, stopVars>>

\* It exits after the exit notification, or dies at any moment.
ServerExit ==
  /\ alive /\ (exitSent \/ MayCrash)
  /\ alive' = FALSE
  /\ UNCHANGED <<requestVars, queue, pendingRequests, threadVars, received, exitSent, pipeVars,
                 reaped, readerVars, stopVars>>

\* It hangs, and what is written to it from then on does not fit in the pipe.
ServerStalls ==
  /\ MayStall /\ alive /\ ~stalled
  /\ stalled' = TRUE
  /\ UNCHANGED <<requestVars, queue, pendingRequests, threadVars, alive, received, exitSent,
                 asked, writing, reaped, readerVars, stopVars>>

-----------------------------------------------------------------------------
(* stop() and StdioLanguageServer._stop.                                     *)

\* is_running() is read; a process already reaped needs no shutdown.
StopCheck ==
  /\ MayStop /\ stopper = "off"
  /\ stopper' = IF handle /\ ~reaped THEN "checked" ELSE "done"
  /\ UNCHANGED <<requestVars, queue, pendingRequests, threadVars, serverVars, reaped,
                 readerVars, isStopping, handle, stdinOpen>>

\* _is_stopping is set and the shutdown request starts in a thread of its own.
StopBegin ==
  /\ stopper = "checked"
  /\ isStopping' = TRUE
  /\ stopper' = "joining"
  /\ Begin(Shutdown, FALSE)
  /\ UNCHANGED <<requestVars, queue, pendingRequests, serverVars, reaped, readerVars,
                 handle, stdinOpen>>

\* Faulty variant: the join has no timeout.
StopJoinForever ==
  /\ stopper = "joining" /\ pc[Shutdown] = "idle"
  /\ stopper' = "terminating"
  /\ stdinOpen' = FALSE
  /\ UNCHANGED <<requestVars, queue, pendingRequests, threadVars, serverVars, reaped,
                 readerVars, isStopping, handle>>

\* The join ends with the thread or after two seconds; then stdin is closed, for which
\* a write in progress has to end first.
StopJoin ==
  /\ stopper = "joining" /\ StdinFree
  /\ stopper' = "terminating"
  /\ stdinOpen' = FALSE
  /\ UNCHANGED <<requestVars, queue, pendingRequests, threadVars, serverVars, reaped,
                 readerVars, isStopping, handle>>

\* terminate_process_tree_with_kill_fallback: the process is dead and waited for.
StopTerminate ==
  /\ stopper = "terminating"
  /\ alive' = FALSE /\ reaped' = TRUE
  /\ stopper' = "clearing"
  /\ UNCHANGED <<requestVars, queue, pendingRequests, threadVars, received, exitSent, pipeVars,
                 readerVars, isStopping, handle, stdinOpen>>

\* finally: self.process = None
StopClear ==
  /\ stopper = "clearing"
  /\ handle' = FALSE
  /\ stopper' = "done"
  /\ UNCHANGED <<requestVars, queue, pendingRequests, threadVars, serverVars, reaped,
                 readerVars, isStopping, stdinOpen>>

-----------------------------------------------------------------------------
ThreadStep(t) ==
  \/ AllocId(t) \/ Register(t) \/ CheckProcess(t) \/ WriteBlocks(t) \/ Write(t)
  \/ Receive(t) \/ TimeOut(t)

ReaderStep ==
  \/ ReaderPoll \/ ReaderTake \/ ReaderDeliver \/ ReaderEOF
  \/ ReaderBlocks \/ ReaderRespond \/ ReaderExit \/ ReaderCancel

StopStep == StopBegin \/ StopJoin \/ StopTerminate \/ StopClear

Next ==
  \/ \E t \in Threads : Call(t) \/ ThreadStep(t)
  \/ ReaderStep \/ StderrPoll
  \/ \E i \in Requests : ServerAnswer(i)
  \/ ServerExit \/ ServerStalls \/ ReaderAsked
  \/ StopCheck \/ StopStep

Spec == Init /\ [][Next]_vars

\* The operating system runs every runnable thread: a thread that can go on does.
\* Nothing is assumed of the server, nor that anyone calls or stops.
FairSpec ==
  /\ Spec
  /\ \A t \in Threads : WF_vars(ThreadStep(t))
  /\ WF_vars(ReaderStep)
  /\ WF_vars(StopStep)

\* A responsive server answers, while it lives, whatever it was sent.
ResponsiveSpec ==
  /\ FairSpec
  /\ WF_vars(\E i \in Requests : ServerAnswer(i))

-----------------------------------------------------------------------------
(* Properties.                                                               *)

\* Every variable has its type; ids in use are ids that were handed out.
TypeOK ==
  /\ requestId \in Nat \ {0}
  /\ call \in [Requests -> Nat]
  /\ queue \in [Requests -> Seq(Result)]
  /\ pendingRequests \subseteq Requests
  /\ calls \in Nat
  /\ pc \in [Threads -> InCall \cup {"idle"}]
  /\ callOf \in [Threads -> Nat]
  /\ retries \in [Threads -> BOOLEAN]
  /\ attempt \in [Threads -> 1 .. MaxAttempts]
  /\ cur \in [Threads -> Requests \cup {0}]
  /\ returned \in [Threads -> Return]
  /\ {alive, reaped, handle, stdinOpen, isStopping, exitSent, asked, stalled} \subseteq BOOLEAN
  /\ writing \subseteq Threads
  /\ received \subseteq Requests
  /\ stdout \in Seq(Response)
  /\ reader \in {"poll", "read", "deliver", "respond", "responding", "exit", "cancel",
                 "cancelled", "quiet"}
  /\ inHand \in Response
  /\ stopper \in {"off", "checked", "joining", "terminating", "clearing", "done"}

\* The thread has a request of its own that it has not seen the end of.
Working(t) == pc[t] \in {"register", "check", "write", "wait"}

\* Each Request gets at most one result, although the response handler, a repeated
\* response and the cancellation may all want to give it one.
OneResult == \A i \in Requests : Len(queue[i]) <= 1

\* A payload that send_request returns was computed for a request of that very
\* call: no response reaches another thread's call, nor a later call of the
\* same thread after a timeout.
AnswersOwnCall ==
  \A t \in Threads :
    returned[t].kind = "ok" => /\ returned[t].body \in Requests
                               /\ call[returned[t].body] = callOf[t]

\* A thread that waits on an empty result queue can still be woken: its request is
\* in _pending_requests or in the reader's hands.
NoLostWakeup ==
  \A t \in Threads :
    (pc[t] = "wait" /\ queue[cur[t]] = <<>>) =>
      \/ cur[t] \in pendingRequests
      \/ reader = "deliver" /\ inHand.id = cur[t]

\* Without timeouts nothing leaks in _pending_requests until stop() closes stdin and
\* writes raise: each entry is a request some thread still works on.
PendingIsAwaited ==
  stdinOpen =>
    \A i \in pendingRequests : \E t \in Threads : Working(t) /\ cur[t] = i

\* Once the reader has cancelled, no request that reached the server is pending.
CancelIsComplete == reader = "cancelled" => pendingRequests \cap received = {}

\* A request is asked again only after the server itself answered it with
\* ContentModified: never after a timeout, a termination or any other end.
RetryAfterModified ==
  [][\A t \in Threads :
       (cur'[t] # cur[t] /\ attempt'[t] > 1) =>
          /\ queue[cur[t]] # <<>>
          /\ Head(queue[cur[t]]).kind = "modified"]_vars

\* Every call of send_request ends.
CallsReturn == \A t \in Callers : pc[t] # "idle" ~> pc[t] = "idle"

\* A request registered before the reader has cancelled gets a result, whether
\* the server answers it or dies, unless the client is stopped or the server hangs.
RegisteredIsResolved ==
  \A t \in Callers :
    (Working(t) /\ cur[t] \in pendingRequests /\ reader \notin {"cancelled", "quiet"})
      ~> (pc[t] \in {"alloc", "idle"} \/ isStopping \/ Full)

\* stop() ends, though the server or the shutdown thread may hang; what alone holds it up
\* is a write to a server that reads no more, for which closing stdin has to wait.
StopEnds == stopper # "off" ~> (stopper = "done" \/ (Full /\ ~StdinFree))

-----------------------------------------------------------------------------
(* What the component promises: requests are futures that settle once.       *)

Held(t) == IF pc[t] = "idle" \/ (pc[t] = "alloc" /\ attempt[t] = 1) THEN 0 ELSE cur[t]
Settled(i) == IF queue[i] = <<>> THEN "open" ELSE queue[i][Len(queue[i])].kind

Futures == INSTANCE RpcFutures WITH
  issued <- requestId - 1,
  state <- [i \in Requests |-> Settled(i)],
  held <- [t \in Threads |-> Held(t)],
  outcome <- [t \in Threads |-> returned[t].kind]

FuturesSpec == Futures!Spec
=============================================================================
