-------------------------- MODULE LspRequestsProofs --------------------------
(***************************************************************************)
(* Theorems about LspRequests, for any number of callers, requests and     *)
(* answers: type correctness, one result per request, answers only to the  *)
(* call that asked, no waiting thread that nobody can wake; and that it    *)
(* implements RpcFutures, that a request is asked again only after         *)
(* ContentModified, the cancellation misses no request that was sent, and  *)
(* no request stays pending that nobody awaits.                            *)
(***************************************************************************)
EXTENDS LspRequests, TLAPS

-----------------------------------------------------------------------------
(* Type correctness.  A thread that works on a request has one: without it     *)
(* Register could make request 0 pending and Receive read its queue.         *)

HasRequest == \A t \in Threads : Working(t) => cur[t] # 0

TypeInv == TypeOK /\ HasRequest

\* The first state is well typed.
LEMMA TypeInit == Init => TypeInv
<1> SUFFICES ASSUME Init PROVE TypeInv
  OBVIOUS
<1> USE DEF Init
<1>1. /\ requestId \in Nat \ {0}
      /\ call \in [Requests -> Nat]
      /\ queue \in [Requests -> Seq(Result)]
      /\ pendingRequests \subseteq Requests /\ received \subseteq Requests
  <2>1. Requests = {}
    BY DEF Requests
  <2> QED BY <2>1
<1>2. NoResult \in Return /\ NoResponse \in Response
  BY DEF NoResult, NoResponse, Return, Response, Answers
<1>3. 1 \in 1 .. MaxAttempts
  BY BoundsAssumption
<1>4. stdout \in Seq(Response)
  OBVIOUS
<1> QED BY <1>1, <1>2, <1>3, <1>4 DEF TypeInv, TypeOK, HasRequest, Working, InCall

\* Every step of a caller thread preserves the types.
LEMMA TypeThreadStep ==
  ASSUME TypeInv, NEW t \in Threads, Call(t) \/ ThreadStep(t)
  PROVE  TypeInv'
<1> USE BoundsAssumption, SwitchesAssumption DEF TypeInv, TypeOK, HasRequest, Working, Requests, InCall,
        pipeVars
<1>1. CASE Call(t)
  <2>1. PICK registered \in {FALSE, RetryMethods} : Begin(t, registered)
    BY <1>1 DEF Call
  <2>2. registered \in BOOLEAN
    BY <2>1
  <2>3. NoResult \in Return
    BY DEF NoResult, Return
  <2> QED BY <1>1, <2>1, <2>2, <2>3, SMTT(30)
        DEF Call, Begin, requestVars, serverVars, readerVars, stopVars
<1>2. CASE AllocId(t)
  <2>1. /\ requestId' \in Nat \ {0}
        /\ call' \in [Requests' -> Nat]
        /\ queue' \in [Requests' -> Seq(Result)]
        /\ Requests \subseteq Requests'
        /\ requestId \in Requests'
    BY <1>2 DEF AllocId
  <2> QED BY <1>2, <2>1 DEF AllocId, serverVars, readerVars, stopVars
<1>3. CASE Register(t)
  BY <1>3 DEF Register, requestVars, serverVars, readerVars, stopVars
<1>4. CASE CheckProcess(t)
  BY <1>4 DEF CheckProcess, requestVars, serverVars, readerVars, stopVars
<1>5. CASE Write(t)
  <2>1. [kind |-> "raised", body |-> 0] \in Return
    BY DEF Return
  <2> QED BY <1>5, <2>1, ZenonT(30) DEF Write, Leave, requestVars, serverVars, readerVars, stopVars
<1>6. CASE Receive(t)
  <2>1. cur[t] \in Requests /\ Head(queue[cur[t]]) \in Result
    BY <1>6 DEF Receive
  <2>2. Result \subseteq Return
    BY DEF Result, Return
  <2> DEFINE result == Head(queue[cur[t]])
  <2>3. CASE ShouldRetry(t, result)
    <3>1. attempt[t] < MaxAttempts /\ attempt' = [attempt EXCEPT ![t] = @ + 1]
      BY <1>6, <2>3, Zenon DEF Receive, ShouldRetry
    <3>2. attempt' \in [Threads -> 1 .. MaxAttempts]
      BY <3>1
    <3> QED BY <1>6, <2>3, <3>2
          DEF Receive, requestVars, serverVars, readerVars, stopVars
  <2>4. CASE ~ShouldRetry(t, result)
    <3>1. returned' \in [Threads -> Return]
      BY <1>6, <2>1, <2>2, <2>4 DEF Receive, Leave
    <3>2. exitSent' \in BOOLEAN
      BY <1>6, <2>4, Zenon DEF Receive
    <3> HIDE DEF result
    <3>3. /\ pc' = [pc EXCEPT ![t] = "idle"]
          /\ writing' = writing \ {t}
          /\ UNCHANGED <<attempt, requestVars, queue, pendingRequests, calls, callOf, retries,
                         cur, alive, received, asked, stalled, reaped, readerVars, stopVars>>
      BY <1>6, <2>4 DEF Receive, Leave, result
    <3> QED BY <3>1, <3>2, <3>3 DEF requestVars, readerVars, stopVars
  <2> QED BY <2>3, <2>4
<1>7. CASE TimeOut(t)
  <2>1. [kind |-> "timeout", body |-> 0] \in Return
    BY DEF Return
  <2> QED BY <1>7, <2>1 DEF TimeOut, Leave, requestVars, serverVars, readerVars, stopVars
<1>8. CASE WriteBlocks(t)
  BY <1>8 DEF WriteBlocks, requestVars, threadVars, readerVars, stopVars
<1> QED BY <1>1, <1>2, <1>3, <1>4, <1>5, <1>6, <1>7, <1>8 DEF ThreadStep

\* Every step of the reader thread preserves the types.
LEMMA TypeReaderStep ==
  ASSUME TypeInv, ReaderStep
  PROVE  TypeInv'
<1> USE DEF TypeInv, TypeOK, HasRequest, Working, Requests, pipeVars
<1>1. CASE ReaderPoll
  BY <1>1 DEF ReaderPoll, requestVars, threadVars, serverVars, stopVars
<1>2. CASE ReaderTake
  <2>1. Head(stdout) \in Response /\ stdout' \in Seq(Response)
    BY <1>2 DEF ReaderTake
  <2>2. inHand' \in Response /\ pendingRequests' \subseteq pendingRequests
    BY <1>2, <2>1 DEF ReaderTake
  <2>3. reader' \in {"deliver", "poll"}
    BY <1>2, Zenon DEF ReaderTake
  <2> QED BY <1>2, <2>1, <2>2, <2>3 DEF ReaderTake, requestVars, threadVars, serverVars, stopVars
<1>3. CASE ReaderDeliver
  <2>1. [kind |-> inHand.kind, body |-> inHand.body] \in Result
    BY DEF Response, Result, ResultKinds
  <2>2. NoResponse \in Response
    BY DEF NoResponse, Response, Answers
  <2> DEFINE result == [kind |-> inHand.kind, body |-> inHand.body]
  <2>3. queue' = [queue EXCEPT ![inHand.id] = Append(@, result)]
    BY <1>3 DEF ReaderDeliver
  <2>4. queue' \in [Requests -> Seq(Result)]
    <3> HIDE DEF result
    <3>1. result \in Result
      BY <2>1 DEF result
    <3>2. \A i \in Requests : Append(queue[i], result) \in Seq(Result)
      BY <3>1
    <3>3. queue' = [i \in Requests |-> IF i = inHand.id THEN Append(queue[i], result)
                                                        ELSE queue[i]]
      BY <2>3, Zenon
    <3> QED BY <3>2, <3>3
  <2> QED BY <1>3, <2>2, <2>4 DEF ReaderDeliver, requestVars, threadVars, serverVars, stopVars
<1>4. CASE ReaderEOF
  BY <1>4 DEF ReaderEOF, requestVars, threadVars, serverVars, stopVars
<1>5. CASE ReaderExit
  BY <1>5 DEF ReaderExit, requestVars, threadVars, serverVars, stopVars
<1>6. CASE ReaderCancel
  <2>1. Terminated \in Result
    BY DEF Terminated, Result, ResultKinds
  <2>2. queue' \in [Requests -> Seq(Result)]
    BY <1>6, <2>1 DEF ReaderCancel
  <2> QED BY <1>6, <2>2 DEF ReaderCancel, requestVars, threadVars, serverVars, stopVars
<1>7. CASE ReaderBlocks \/ ReaderRespond
  BY <1>7 DEF ReaderBlocks, ReaderRespond, requestVars, threadVars, serverVars, stopVars
<1> QED BY <1>1, <1>2, <1>3, <1>4, <1>5, <1>6, <1>7 DEF ReaderStep

\* The steps that are neither a calling thread's nor the reader's own.
ServerStopStep ==
  \/ \E i \in Requests : ServerAnswer(i)
  \/ ServerExit \/ ServerStalls \/ ReaderAsked \/ StderrPoll
  \/ StopCheck \/ StopStep

\* Every step of the server process or of stop() preserves the types.
LEMMA TypeServerStopStep ==
  ASSUME TypeInv, ServerStopStep
  PROVE  TypeInv'
<1> USE DEF TypeInv, TypeOK, HasRequest, Working, Requests, pipeVars
<1>1. ASSUME NEW i \in Requests, ServerAnswer(i) PROVE TypeInv'
  <2>1. PICK kind \in Answers : stdout' = Append(stdout, [id |-> i, kind |-> kind, body |-> i])
    BY <1>1 DEF ServerAnswer
  <2>2. [id |-> i, kind |-> kind, body |-> i] \in Response
    BY DEF Response
  <2>3. stdout' \in Seq(Response) /\ received' \subseteq Requests
    BY <1>1, <2>1, <2>2 DEF ServerAnswer
  <2> QED BY <1>1, <2>3 DEF ServerAnswer, requestVars, threadVars, stopVars
<1>2. CASE ServerExit \/ StderrPoll
  BY <1>2 DEF ServerExit, StderrPoll, requestVars, threadVars, serverVars, readerVars, stopVars
<1>3. CASE StopCheck
  BY <1>3 DEF StopCheck, requestVars, threadVars, serverVars, readerVars
<1>4. CASE StopBegin
  <2>1. Shutdown \in Threads /\ NoResult \in Return /\ 1 \in 1 .. MaxAttempts
    BY BoundsAssumption DEF Threads, NoResult, Return
  <2> QED BY <1>4, <2>1 DEF StopBegin, Begin, InCall, requestVars, serverVars, readerVars
<1>5. CASE StopJoin
  BY <1>5 DEF StopJoin, requestVars, threadVars, serverVars, readerVars
<1>6. CASE StopTerminate
  BY <1>6 DEF StopTerminate, requestVars, threadVars, readerVars
<1>7. CASE StopClear
  BY <1>7 DEF StopClear, requestVars, threadVars, serverVars, readerVars
<1>8. CASE ServerStalls
  BY <1>8 DEF ServerStalls, requestVars, threadVars, readerVars, stopVars
<1>9. CASE ReaderAsked
  BY <1>9 DEF ReaderAsked, requestVars, threadVars, stopVars
<1> QED BY <1>1, <1>2, <1>3, <1>4, <1>5, <1>6, <1>7, <1>8, <1>9 DEF ServerStopStep, StopStep

LEMMA TypeStep == TypeInv /\ [Next]_vars => TypeInv'
<1> SUFFICES ASSUME TypeInv, [Next]_vars PROVE TypeInv'
  OBVIOUS
<1>1. CASE UNCHANGED vars
  BY <1>1 DEF vars, TypeInv, TypeOK, HasRequest, Working, Requests
<1>2. CASE Next
  BY <1>2, TypeThreadStep, TypeReaderStep, TypeServerStopStep DEF Next, ServerStopStep
<1> QED BY <1>1, <1>2

\* Every variable keeps its type, and a working thread always has a request.
THEOREM TypeCorrect == Spec => []TypeInv
  BY TypeInit, TypeStep, PTL DEF Spec

\* The type invariant of the runs, for every value of the constants.
THEOREM TypesHold == Spec => []TypeOK
<1>1. TypeInv => TypeOK
  BY DEF TypeInv
<1> QED BY <1>1, TypeCorrect, PTL

-----------------------------------------------------------------------------
(* Delivery.  A request moves from its thread to _pending_requests, from there  *)
(* to the reader's hands or the cancellation, and from there to its queue: it  *)
(* is in one of these places only, which is why it gets one result and why a  *)
(* waiting thread can always be woken.                                       *)

InHand(i) == reader = "deliver" /\ inHand.id = i

\* No two threads work on one request.
OwnRequest ==
  \A t, u \in Threads : (t # u /\ Working(t) /\ Working(u)) => cur[t] # cur[u]

\* A request not yet registered is nowhere else.
FreshIsUnseen ==
  \A t \in Threads :
    pc[t] = "register" => /\ cur[t] \notin pendingRequests
                          /\ queue[cur[t]] = <<>>
                          /\ ~InHand(cur[t])

\* What the reader has popped is no longer pending, and has no result yet.
InHandIsOpen ==
  reader = "deliver" => /\ inHand.id \in Requests \ pendingRequests
                        /\ queue[inHand.id] = <<>>

PendingIsOpen == \A i \in pendingRequests : queue[i] = <<>>

\* A request whose thread has registered it has a result or will be found.
Findable ==
  \A t \in Threads :
    pc[t] \in {"check", "write", "wait"} =>
      \/ cur[t] \in pendingRequests
      \/ queue[cur[t]] # <<>>
      \/ InHand(cur[t])

DeliveryInv ==
  /\ OwnRequest /\ FreshIsUnseen /\ InHandIsOpen /\ PendingIsOpen
  /\ OneResult /\ Findable

LEMMA DeliveryInit == Init => DeliveryInv
<1> SUFFICES ASSUME Init PROVE DeliveryInv
  OBVIOUS
<1> QED BY ThreadsAssumption DEF Init, DeliveryInv, OwnRequest, FreshIsUnseen, InHandIsOpen,
          PendingIsOpen, OneResult, Findable, Working, Requests, Threads

\* A step that moves no request and brings no thread to a registered one.
LEMMA DeliveryFrame ==
  ASSUME TypeInv, DeliveryInv,
         UNCHANGED <<requestId, queue, pendingRequests, cur, inHand>>,
         reader' = "deliver" <=> reader = "deliver",
         \A t \in Threads :
           \/ pc'[t] = pc[t]
           \/ pc'[t] \in {"idle", "alloc"}
           \/ pc[t] \in {"check", "write"} /\ pc'[t] \in {"write", "wait"}
  PROVE  DeliveryInv'
<1>1. \A t \in Threads : Working(t)' => Working(t)
  BY DEF Working
<1>2. OwnRequest'
  BY <1>1 DEF DeliveryInv, OwnRequest
<1>3. FreshIsUnseen'
  BY DEF DeliveryInv, FreshIsUnseen, InHand
<1>4. InHandIsOpen' /\ PendingIsOpen' /\ OneResult'
  BY DEF DeliveryInv, InHandIsOpen, PendingIsOpen, OneResult, Requests
<1>5. Findable'
  BY DEF DeliveryInv, Findable, InHand
<1> QED BY <1>2, <1>3, <1>4, <1>5 DEF DeliveryInv

LEMMA DeliveryThreadStep ==
  ASSUME TypeInv, DeliveryInv, NEW t \in Threads, Call(t) \/ ThreadStep(t)
  PROVE  DeliveryInv'
<1> USE DEF TypeInv, TypeOK
<1>1. CASE Call(t)
  <2>1. /\ UNCHANGED <<requestId, queue, pendingRequests, cur, inHand, reader>>
        /\ pc' = [pc EXCEPT ![t] = "alloc"]
    BY <1>1 DEF Call, Begin, requestVars, readerVars
  <2> QED BY <2>1, DeliveryFrame
<1>2. CASE AllocId(t)
  <2>1. /\ cur' = [cur EXCEPT ![t] = requestId]
        /\ pc' = [pc EXCEPT ![t] = "register"]
        /\ UNCHANGED <<pendingRequests, reader, inHand>>
        /\ Requests' = Requests \cup {requestId} /\ requestId \notin Requests
    BY <1>2 DEF AllocId, readerVars, Requests
  <2>2. queue'[requestId] = <<>> /\ \A i \in Requests : queue'[i] = queue[i]
    BY <1>2 DEF AllocId, Requests
  <2>3. \A u \in Threads \ {t} : cur'[u] = cur[u] /\ pc'[u] = pc[u]
    BY <2>1
  <2>4. cur'[t] = requestId /\ pc'[t] = "register"
    BY <2>1
  <2>5. \A u \in Threads : Working(u) => cur[u] \in Requests
    BY DEF HasRequest
  <2>6. OwnRequest'
    BY <2>1, <2>3, <2>4, <2>5 DEF DeliveryInv, OwnRequest, Working
  <2>7. InHandIsOpen' /\ PendingIsOpen'
    BY <2>1, <2>2 DEF DeliveryInv, InHandIsOpen, PendingIsOpen
  <2>8. OneResult'
    BY <2>1, <2>2 DEF DeliveryInv, OneResult
  <2>9. FreshIsUnseen'
    BY <2>1, <2>2, <2>3, <2>4, <2>5
       DEF DeliveryInv, FreshIsUnseen, InHandIsOpen, InHand, Working
  <2>10. Findable'
    BY <2>1, <2>2, <2>3, <2>4, <2>5 DEF DeliveryInv, Findable, InHand, Working
  <2> QED BY <2>6, <2>7, <2>8, <2>9, <2>10 DEF DeliveryInv
<1>3. CASE Register(t)
  <2>1. /\ pendingRequests' = pendingRequests \cup {cur[t]}
        /\ pc[t] = "register" /\ pc' = [pc EXCEPT ![t] = "check"]
        /\ UNCHANGED <<requestId, queue, cur, reader, inHand>>
    BY <1>3 DEF Register, requestVars, readerVars
  <2>2. OwnRequest'
    BY <2>1 DEF DeliveryInv, OwnRequest, Working
  <2>3. FreshIsUnseen'
    BY <2>1 DEF DeliveryInv, OwnRequest, FreshIsUnseen, InHand, Working
  <2>4. InHandIsOpen' /\ PendingIsOpen' /\ OneResult'
    BY <2>1 DEF DeliveryInv, FreshIsUnseen, InHandIsOpen, PendingIsOpen, OneResult,
                InHand, Requests
  <2>5. Findable'
    BY <2>1 DEF DeliveryInv, Findable, InHand
  <2> QED BY <2>2, <2>3, <2>4, <2>5 DEF DeliveryInv
<1>4. CASE CheckProcess(t)
  <2>1. /\ UNCHANGED <<requestId, queue, pendingRequests, cur, inHand, reader>>
        /\ pc[t] = "check" /\ pc' \in {[pc EXCEPT ![t] = "write"], [pc EXCEPT ![t] = "wait"]}
    BY <1>4 DEF CheckProcess, requestVars, readerVars
  <2> QED BY <2>1, DeliveryFrame
<1>5. CASE Write(t)
  <2>1. /\ UNCHANGED <<requestId, queue, pendingRequests, cur, inHand, reader>>
        /\ pc[t] = "write" /\ pc' \in {[pc EXCEPT ![t] = "idle"], [pc EXCEPT ![t] = "wait"]}
    BY <1>5 DEF Write, Leave, requestVars, readerVars
  <2> QED BY <2>1, DeliveryFrame
<1>6. CASE Receive(t)
  <2>1. /\ UNCHANGED <<requestId, queue, pendingRequests, cur, inHand, reader>>
        /\ pc' \in {[pc EXCEPT ![t] = "idle"], [pc EXCEPT ![t] = "alloc"]}
    BY <1>6, Zenon DEF Receive, Leave, requestVars, readerVars
  <2> QED BY <2>1, DeliveryFrame
<1>7. CASE TimeOut(t)
  <2>1. /\ UNCHANGED <<requestId, queue, pendingRequests, cur, inHand, reader>>
        /\ pc' = [pc EXCEPT ![t] = "idle"]
    BY <1>7 DEF TimeOut, Leave, requestVars, readerVars
  <2> QED BY <2>1, DeliveryFrame
<1>8. CASE WriteBlocks(t)
  <2>1. UNCHANGED <<requestId, queue, pendingRequests, cur, inHand, reader, pc>>
    BY <1>8 DEF WriteBlocks, requestVars, threadVars, readerVars
  <2> QED BY <2>1, DeliveryFrame
<1> QED BY <1>1, <1>2, <1>3, <1>4, <1>5, <1>6, <1>7, <1>8 DEF ThreadStep

LEMMA DeliveryReaderStep ==
  ASSUME TypeInv, DeliveryInv, ReaderStep
  PROVE  DeliveryInv'
<1> USE DEF TypeInv, TypeOK
<1>1. CASE ReaderPoll
  <2>1. /\ UNCHANGED <<requestId, queue, pendingRequests, cur, inHand, pc>>
        /\ reader = "poll" /\ reader' \in {"read", "exit"}
    BY <1>1 DEF ReaderPoll, requestVars, threadVars
  <2> QED BY <2>1, DeliveryFrame
<1>2. CASE ReaderTake
  <2>1. UNCHANGED <<requestId, queue, cur, pc>> /\ reader = "read"
    BY <1>2 DEF ReaderTake, requestVars, threadVars
  <2> DEFINE i == Head(stdout).id
  <2>2. CASE i \in pendingRequests
    <3>1. /\ pendingRequests' = pendingRequests \ {i}
          /\ inHand'.id = i /\ reader' = "deliver"
      BY <1>2, <2>2 DEF ReaderTake
    <3> HIDE DEF i
    <3>2. OwnRequest' /\ OneResult' /\ PendingIsOpen' /\ InHandIsOpen'
      BY <2>1, <2>2, <3>1 DEF DeliveryInv, OwnRequest, OneResult, PendingIsOpen, InHandIsOpen,
                              Working, Requests
    <3>3. FreshIsUnseen' /\ Findable'
      BY <2>1, <2>2, <3>1 DEF DeliveryInv, FreshIsUnseen, Findable, InHand
    <3> QED BY <3>2, <3>3 DEF DeliveryInv
  <2>3. CASE i \notin pendingRequests
    <3>1. reader' = "poll" /\ UNCHANGED <<pendingRequests, inHand>>
      BY <1>2, <2>3 DEF ReaderTake
    <3> QED BY <2>1, <3>1, DeliveryFrame
  <2> QED BY <2>2, <2>3
<1>3. CASE ReaderDeliver
  <2> DEFINE result == [kind |-> inHand.kind, body |-> inHand.body]
  <2>1. /\ queue' = [queue EXCEPT ![inHand.id] = Append(@, result)]
        /\ reader = "deliver" /\ reader' = "poll"
        /\ UNCHANGED <<requestId, pendingRequests, cur, pc>>
    BY <1>3 DEF ReaderDeliver, requestVars, threadVars
  <2>2. inHand.id \in Requests \ pendingRequests /\ queue[inHand.id] = <<>>
    BY <2>1 DEF DeliveryInv, InHandIsOpen
  <2>3. queue'[inHand.id] = <<result>>
    BY <2>1, <2>2
  <2>4. \A j \in Requests : j # inHand.id => queue'[j] = queue[j]
    BY <2>1, Zenon
  <2> HIDE DEF result
  <2>5. Len(queue'[inHand.id]) = 1 /\ queue'[inHand.id] # <<>>
    BY <2>3
  <2>6. OwnRequest' /\ InHandIsOpen'
    BY <2>1 DEF DeliveryInv, OwnRequest, InHandIsOpen, Working
  <2>7. PendingIsOpen'
    BY <2>1, <2>2, <2>4 DEF DeliveryInv, PendingIsOpen
  <2>8. OneResult'
    BY <2>1, <2>4, <2>5 DEF DeliveryInv, OneResult, Requests
  <2>9. FreshIsUnseen' /\ Findable'
    BY <2>1, <2>2, <2>4, <2>5 DEF DeliveryInv, FreshIsUnseen, Findable, InHand, HasRequest, Working
  <2> QED BY <2>6, <2>7, <2>8, <2>9 DEF DeliveryInv
<1>4. CASE ReaderEOF
  <2>1. /\ UNCHANGED <<requestId, queue, pendingRequests, cur, inHand, pc>>
        /\ reader = "read" /\ reader' = "poll"
    BY <1>4 DEF ReaderEOF, requestVars, threadVars
  <2> QED BY <2>1, DeliveryFrame
<1>5. CASE ReaderExit
  <2>1. /\ UNCHANGED <<requestId, queue, pendingRequests, cur, inHand, pc>>
        /\ reader = "exit" /\ reader' \in {"quiet", "cancel"}
    BY <1>5 DEF ReaderExit, requestVars, threadVars
  <2> QED BY <2>1, DeliveryFrame
<1>6. CASE ReaderCancel
  <2>1. /\ pendingRequests' = {} /\ reader' = "cancelled"
        /\ UNCHANGED <<requestId, cur, pc>> /\ reader = "cancel"
    BY <1>6 DEF ReaderCancel, requestVars, threadVars
  <2>2. \A i \in Requests : queue'[i] = IF i \in pendingRequests
                                          THEN Append(queue[i], Terminated) ELSE queue[i]
    BY <1>6 DEF ReaderCancel
  <2>3. \A i \in pendingRequests : Len(queue'[i]) = 1 /\ queue'[i] # <<>>
    <3>1. \A i \in pendingRequests : queue'[i] = Append(<<>>, Terminated)
      BY <2>2 DEF DeliveryInv, PendingIsOpen
    <3>2. Append(<<>>, Terminated) = <<Terminated>>
      OBVIOUS
    <3>3. Len(<<Terminated>>) = 1 /\ <<Terminated>> # <<>>
      OBVIOUS
    <3> QED BY <3>1, <3>2, <3>3, Zenon
  <2>4. \A i \in Requests \ pendingRequests : queue'[i] = queue[i]
    BY <2>2
  <2>5. OwnRequest' /\ InHandIsOpen' /\ PendingIsOpen'
    BY <2>1 DEF DeliveryInv, OwnRequest, InHandIsOpen, PendingIsOpen, Working
  <2>6. OneResult'
    <3>1. ASSUME NEW i \in Requests PROVE Len(queue'[i]) <= 1
      <4>1. CASE i \in pendingRequests
        <5>1. Len(queue'[i]) = 1
          BY <2>3, <4>1, Zenon
        <5> QED BY <5>1
      <4>2. CASE i \notin pendingRequests
        <5>1. queue'[i] = queue[i] /\ Len(queue[i]) <= 1
          BY <2>4, <4>2, Zenon DEF DeliveryInv, OneResult
        <5> QED BY <5>1, Zenon
      <4> QED BY <4>1, <4>2
    <3> QED BY <2>1, <3>1 DEF OneResult, Requests
  <2>7. FreshIsUnseen' /\ Findable'
    BY <2>1, <2>3, <2>4 DEF DeliveryInv, FreshIsUnseen, Findable, InHand, HasRequest, Working
  <2> QED BY <2>5, <2>6, <2>7 DEF DeliveryInv
<1>7. CASE ReaderBlocks \/ ReaderRespond
  <2>1. /\ UNCHANGED <<requestId, queue, pendingRequests, cur, inHand, pc>>
        /\ reader # "deliver" /\ reader' # "deliver"
    BY <1>7 DEF ReaderBlocks, ReaderRespond, requestVars, threadVars
  <2> QED BY <2>1, DeliveryFrame
<1> QED BY <1>1, <1>2, <1>3, <1>4, <1>5, <1>6, <1>7 DEF ReaderStep

LEMMA DeliveryServerStopStep ==
  ASSUME TypeInv, DeliveryInv, ServerStopStep
  PROVE  DeliveryInv'
<1> USE DEF ServerAnswer, ServerExit, ServerStalls, ReaderAsked, StderrPoll, StopCheck, StopStep,
            StopBegin, StopJoin, StopTerminate, StopClear
<1>1. UNCHANGED <<requestId, queue, pendingRequests, cur, inHand>>
  BY DEF ServerStopStep, Begin, requestVars, threadVars, readerVars
<1>2. reader' = reader \/ (reader # "deliver" /\ reader' # "deliver")
  BY DEF ServerStopStep, readerVars
<1>3. pc' = pc \/ pc' = [pc EXCEPT ![Shutdown] = "alloc"]
  BY DEF ServerStopStep, Begin, threadVars
<1> QED BY <1>1, <1>2, <1>3, DeliveryFrame DEF TypeInv, TypeOK

LEMMA DeliveryStep == TypeInv /\ DeliveryInv /\ [Next]_vars => DeliveryInv'
<1> SUFFICES ASSUME TypeInv, DeliveryInv, [Next]_vars PROVE DeliveryInv'
  OBVIOUS
<1>1. CASE UNCHANGED vars
  BY <1>1, DeliveryFrame DEF vars
<1>2. CASE Next
  BY <1>2, DeliveryThreadStep, DeliveryReaderStep, DeliveryServerStopStep
     DEF Next, ServerStopStep
<1> QED BY <1>1, <1>2

\* The inductive invariant behind the two theorems that follow.
THEOREM Delivery == Spec => []DeliveryInv
  BY DeliveryInit, DeliveryStep, TypeCorrect, PTL DEF Spec

\* No request ever gets two results, with any number of threads, repeated answers,
\* crashes and stops.
THEOREM EachRequestOneResult == Spec => []OneResult
<1>1. DeliveryInv => OneResult
  BY DEF DeliveryInv
<1> QED BY <1>1, Delivery, PTL

\* No thread waits for a result that neither the response handler nor the
\* cancellation can find.
THEOREM WaitersAreFindable == Spec => []NoLostWakeup
<1>1. DeliveryInv => NoLostWakeup
  BY DEF DeliveryInv, Findable, NoLostWakeup, InHand
<1> QED BY <1>1, Delivery, PTL

-----------------------------------------------------------------------------
(* Answers.  The id in a message is what ties a payload to a call: it is kept   *)
(* from the pipe to the queue, and a thread works on requests of its call only. *)

PipeMatches == \A k \in 1 .. Len(stdout) : stdout[k].body = stdout[k].id
HandMatches == reader = "deliver" => inHand.body = inHand.id
ResultsMatch ==
  \A i \in Requests :
    (queue[i] # <<>> /\ Head(queue[i]).kind = "ok") => Head(queue[i]).body = i
CallsMatch == \A t \in Threads : Working(t) => call[cur[t]] = callOf[t]

AnswersInv ==
  PipeMatches /\ HandMatches /\ ResultsMatch /\ CallsMatch /\ AnswersOwnCall

LEMMA AnswersInit == Init => AnswersInv
<1> SUFFICES ASSUME Init PROVE AnswersInv
  OBVIOUS
<1>1. stdout = <<>>
  BY DEF Init
<1>2. PipeMatches
  BY <1>1 DEF PipeMatches
<1> QED BY <1>2 DEF Init, AnswersInv, HandMatches, ResultsMatch, CallsMatch, AnswersOwnCall,
                    Working, Requests, NoResult

\* Steps that leave messages, results, calls and return values as they are.
LEMMA AnswersFrame ==
  ASSUME TypeInv, AnswersInv,
         UNCHANGED <<requestId, call, queue, cur, callOf, returned, stdout>>,
         UNCHANGED inHand, reader' = "deliver" => reader = "deliver",
         \A t \in Threads : Working(t)' => Working(t)
  PROVE  AnswersInv'
<1>1. PipeMatches' /\ HandMatches'
  BY DEF AnswersInv, PipeMatches, HandMatches
<1>2. ResultsMatch' /\ CallsMatch'
  BY DEF AnswersInv, ResultsMatch, CallsMatch, Requests
<1>3. AnswersOwnCall'
  BY DEF AnswersInv, AnswersOwnCall, Requests
<1> QED BY <1>1, <1>2, <1>3 DEF AnswersInv

\* A call begins: its thread forgets the last call's return value.
LEMMA AnswersBegin ==
  ASSUME TypeInv, AnswersInv, NEW t \in Threads, NEW registered, Begin(t, registered),
         UNCHANGED <<requestId, call, queue, stdout, reader, inHand>>
  PROVE  AnswersInv'
<1> USE DEF TypeInv, TypeOK
<1>1. /\ callOf' = [callOf EXCEPT ![t] = calls + 1]
      /\ returned' = [returned EXCEPT ![t] = NoResult]
      /\ pc' = [pc EXCEPT ![t] = "alloc"]
      /\ cur' = cur
  BY DEF Begin
<1>2. PipeMatches' /\ HandMatches' /\ ResultsMatch'
  BY DEF AnswersInv, PipeMatches, HandMatches, ResultsMatch, Requests
<1>3. CallsMatch'
  BY <1>1 DEF AnswersInv, CallsMatch, Working
<1>4. AnswersOwnCall'
  BY <1>1 DEF AnswersInv, AnswersOwnCall, NoResult, Requests
<1> QED BY <1>2, <1>3, <1>4 DEF AnswersInv

\* A call ends with a return value that is no payload.
LEMMA AnswersLeave ==
  ASSUME TypeInv, AnswersInv, NEW t \in Threads, NEW result,
         result.kind = "ok" => result.body \in Requests /\ call[result.body] = callOf[t],
         Leave(t, result),
         UNCHANGED <<requestId, call, queue, cur, callOf, stdout, reader, inHand>>
  PROVE  AnswersInv'
<1> USE DEF TypeInv, TypeOK
<1>1. /\ pc' = [pc EXCEPT ![t] = "idle"]
      /\ returned' = [returned EXCEPT ![t] = result]
  BY DEF Leave
<1>2. PipeMatches' /\ HandMatches' /\ ResultsMatch'
  BY DEF AnswersInv, PipeMatches, HandMatches, ResultsMatch, Requests
<1>3. CallsMatch'
  BY <1>1 DEF AnswersInv, CallsMatch, Working
<1>4. AnswersOwnCall'
  BY <1>1 DEF AnswersInv, AnswersOwnCall, Requests
<1> QED BY <1>2, <1>3, <1>4 DEF AnswersInv

LEMMA AnswersThreadStep ==
  ASSUME TypeInv, DeliveryInv, AnswersInv, NEW t \in Threads, Call(t) \/ ThreadStep(t)
  PROVE  AnswersInv'
<1> USE DEF TypeInv, TypeOK
<1>1. CASE Call(t)
  <2>1. PICK registered \in {FALSE, RetryMethods} : Begin(t, registered)
    BY <1>1 DEF Call
  <2>2. UNCHANGED <<requestId, call, queue, stdout, reader, inHand>>
    BY <1>1 DEF Call, requestVars, readerVars
  <2> QED BY <2>1, <2>2, AnswersBegin
<1>2. CASE AllocId(t)
  <2>1. /\ cur' = [cur EXCEPT ![t] = requestId]
        /\ pc' = [pc EXCEPT ![t] = "register"]
        /\ UNCHANGED <<callOf, returned, stdout, reader, inHand>>
        /\ Requests' = Requests \cup {requestId} /\ requestId \notin Requests
    BY <1>2 DEF AllocId, readerVars, Requests
  <2>2. /\ queue'[requestId] = <<>> /\ call'[requestId] = callOf[t]
        /\ \A i \in Requests : queue'[i] = queue[i] /\ call'[i] = call[i]
    BY <1>2 DEF AllocId, Requests
  <2>3. \A u \in Threads : Working(u) => cur[u] \in Requests
    BY DEF HasRequest
  <2>4. PipeMatches' /\ HandMatches'
    BY <2>1 DEF AnswersInv, PipeMatches, HandMatches
  <2>5. ResultsMatch'
    BY <2>1, <2>2 DEF AnswersInv, ResultsMatch
  <2>6. CallsMatch'
    BY <2>1, <2>2, <2>3 DEF AnswersInv, CallsMatch, Working
  <2>7. AnswersOwnCall'
    BY <2>1, <2>2 DEF AnswersInv, AnswersOwnCall
  <2> QED BY <2>4, <2>5, <2>6, <2>7 DEF AnswersInv
<1>3. CASE Register(t)
  <2>1. /\ pc[t] = "register" /\ pc' = [pc EXCEPT ![t] = "check"]
        /\ UNCHANGED <<requestId, call, queue, cur, callOf, returned, stdout, reader, inHand>>
    BY <1>3 DEF Register, requestVars, readerVars
  <2>2. \A u \in Threads : Working(u)' => Working(u)
    BY <2>1 DEF Working
  <2> QED BY <2>1, <2>2, AnswersFrame
<1>4. CASE CheckProcess(t)
  <2>1. /\ pc[t] = "check" /\ pc' \in {[pc EXCEPT ![t] = "write"], [pc EXCEPT ![t] = "wait"]}
        /\ UNCHANGED <<requestId, call, queue, cur, callOf, returned, stdout, reader, inHand>>
    BY <1>4 DEF CheckProcess, requestVars, readerVars
  <2>2. \A u \in Threads : Working(u)' => Working(u)
    BY <2>1 DEF Working
  <2> QED BY <2>1, <2>2, AnswersFrame
<1>5. CASE Write(t)
  <2>1. /\ pc[t] = "write"
        /\ UNCHANGED <<requestId, call, queue, cur, callOf, stdout, reader, inHand>>
    BY <1>5 DEF Write, requestVars, readerVars
  <2>2. CASE stdinOpen
    <3>1. pc' = [pc EXCEPT ![t] = "wait"] /\ UNCHANGED returned
      BY <1>5, <2>2 DEF Write
    <3>2. \A u \in Threads : Working(u)' => Working(u)
      BY <2>1, <3>1 DEF Working
    <3> QED BY <2>1, <3>1, <3>2, AnswersFrame
  <2>3. CASE ~stdinOpen
    <3>1. Leave(t, [kind |-> "raised", body |-> 0])
      BY <1>5, <2>3 DEF Write
    <3> QED BY <2>1, <3>1, AnswersLeave
  <2> QED BY <2>2, <2>3
<1>6. CASE Receive(t)
  <2> DEFINE result == Head(queue[cur[t]])
  <2>1. /\ pc[t] = "wait" /\ queue[cur[t]] # <<>>
        /\ UNCHANGED <<requestId, call, queue, cur, callOf, stdout, reader, inHand>>
    BY <1>6, Zenon DEF Receive, requestVars, readerVars
  <2>2. Working(t) /\ cur[t] \in Requests
    BY <2>1 DEF HasRequest, Working
  <2>3. result.kind = "ok" => result.body \in Requests /\ call[result.body] = callOf[t]
    BY <2>1, <2>2 DEF AnswersInv, ResultsMatch, CallsMatch
  <2>4. CASE ShouldRetry(t, result)
    <3>1. pc' = [pc EXCEPT ![t] = "alloc"] /\ UNCHANGED returned
      BY <1>6, <2>4, Zenon DEF Receive
    <3>2. \A u \in Threads : Working(u)' => Working(u)
      BY <3>1 DEF Working
    <3> QED BY <2>1, <3>1, <3>2, AnswersFrame
  <2>5. CASE ~ShouldRetry(t, result)
    <3>1. Leave(t, result)
      BY <1>6, <2>5, Zenon DEF Receive
    <3> QED BY <2>1, <2>3, <3>1, AnswersLeave
  <2> QED BY <2>4, <2>5
<1>7. CASE TimeOut(t)
  <2>1. /\ Leave(t, [kind |-> "timeout", body |-> 0])
        /\ UNCHANGED <<requestId, call, queue, cur, callOf, stdout, reader, inHand>>
    BY <1>7 DEF TimeOut, requestVars, readerVars
  <2> QED BY <2>1, AnswersLeave
<1>8. CASE WriteBlocks(t)
  <2>1. UNCHANGED <<requestId, call, queue, cur, callOf, returned, stdout, reader, inHand, pc>>
    BY <1>8 DEF WriteBlocks, requestVars, threadVars, readerVars
  <2>2. \A u \in Threads : Working(u)' => Working(u)
    BY <2>1 DEF Working
  <2> QED BY <2>1, <2>2, AnswersFrame
<1> QED BY <1>1, <1>2, <1>3, <1>4, <1>5, <1>6, <1>7, <1>8 DEF ThreadStep

LEMMA AnswersReaderStep ==
  ASSUME TypeInv, DeliveryInv, AnswersInv, ReaderStep
  PROVE  AnswersInv'
<1> USE DEF TypeInv, TypeOK
<1>1. UNCHANGED <<requestId, call, cur, callOf, returned, pc>>
  BY DEF ReaderStep, ReaderPoll, ReaderTake, ReaderDeliver, ReaderEOF, ReaderBlocks, ReaderRespond,
         ReaderExit, ReaderCancel, requestVars, threadVars
<1>2. CallsMatch' /\ AnswersOwnCall'
  BY <1>1 DEF AnswersInv, CallsMatch, AnswersOwnCall, Working, Requests
<1>3. ASSUME UNCHANGED <<queue, stdout, inHand>>, reader' # "deliver" PROVE AnswersInv'
  BY <1>1, <1>2, <1>3
     DEF AnswersInv, PipeMatches, HandMatches, ResultsMatch, Requests
<1>4. CASE ReaderPoll \/ ReaderEOF \/ ReaderBlocks \/ ReaderRespond \/ ReaderExit
  BY <1>3, <1>4 DEF ReaderPoll, ReaderEOF, ReaderBlocks, ReaderRespond, ReaderExit
<1>5. CASE ReaderTake
  <2>1. /\ queue' = queue /\ stdout # <<>> /\ stdout' = Tail(stdout)
        /\ reader' = "deliver" => inHand' = Head(stdout)
    BY <1>5 DEF ReaderTake
  <2>2. /\ \A k \in 1 .. Len(stdout') : stdout'[k] = stdout[k + 1] /\ k + 1 \in 1 .. Len(stdout)
        /\ Head(stdout) = stdout[1] /\ 1 \in 1 .. Len(stdout)
    BY <2>1
  <2>3. PipeMatches' /\ HandMatches'
    BY <2>1, <2>2 DEF AnswersInv, PipeMatches, HandMatches
  <2>4. ResultsMatch'
    BY <1>1, <2>1 DEF AnswersInv, ResultsMatch, Requests
  <2> QED BY <1>2, <2>3, <2>4 DEF AnswersInv
<1>6. CASE ReaderDeliver
  <2> DEFINE result == [kind |-> inHand.kind, body |-> inHand.body]
  <2>1. /\ queue' = [queue EXCEPT ![inHand.id] = Append(@, result)]
        /\ reader = "deliver" /\ reader' = "poll" /\ stdout' = stdout
    BY <1>6 DEF ReaderDeliver
  <2>2. inHand.id \in Requests /\ queue[inHand.id] = <<>> /\ result.body = inHand.id
    BY <2>1 DEF DeliveryInv, InHandIsOpen, AnswersInv, HandMatches
  <2>3. Head(queue'[inHand.id]) = result
    BY <2>1, <2>2
  <2>4. \A j \in Requests : j # inHand.id => queue'[j] = queue[j]
    BY <2>1, Zenon
  <2> HIDE DEF result
  <2>5. ResultsMatch'
    BY <1>1, <2>2, <2>3, <2>4 DEF AnswersInv, ResultsMatch, Requests
  <2>6. PipeMatches' /\ HandMatches'
    BY <2>1 DEF AnswersInv, PipeMatches, HandMatches
  <2> QED BY <1>2, <2>5, <2>6 DEF AnswersInv
<1>7. CASE ReaderCancel
  <2>1. /\ reader' = "cancelled" /\ stdout' = stdout
        /\ \A i \in Requests : queue'[i] = IF i \in pendingRequests
                                            THEN Append(queue[i], Terminated) ELSE queue[i]
    BY <1>7 DEF ReaderCancel
  <2>2. \A i \in pendingRequests : queue'[i] = Append(<<>>, Terminated)
    BY <2>1 DEF DeliveryInv, PendingIsOpen
  <2>3. Head(Append(<<>>, Terminated)) = Terminated /\ Terminated.kind # "ok"
    BY DEF Terminated
  <2>4. ASSUME NEW i \in Requests, queue'[i] # <<>>, Head(queue'[i]).kind = "ok"
        PROVE  Head(queue'[i]).body = i
    <3>1. i \notin pendingRequests
      BY <2>2, <2>3, <2>4, Zenon
    <3>2. queue'[i] = queue[i]
      BY <2>1, <3>1
    <3> QED BY <2>4, <3>2, Zenon DEF AnswersInv, ResultsMatch
  <2>5. ResultsMatch'
    BY <1>1, <2>4, Zenon DEF ResultsMatch, Requests
  <2>6. PipeMatches' /\ HandMatches'
    BY <2>1 DEF AnswersInv, PipeMatches, HandMatches
  <2> QED BY <1>2, <2>5, <2>6 DEF AnswersInv
<1> QED BY <1>4, <1>5, <1>6, <1>7 DEF ReaderStep

LEMMA AnswersServerStopStep ==
  ASSUME TypeInv, DeliveryInv, AnswersInv,
         ServerStopStep
  PROVE  AnswersInv'
<1> USE DEF TypeInv, TypeOK
<1>1. ASSUME NEW i \in Requests, ServerAnswer(i) PROVE AnswersInv'
  <2>1. PICK kind \in Answers : stdout' = Append(stdout, [id |-> i, kind |-> kind, body |-> i])
    BY <1>1 DEF ServerAnswer
  <2>2. UNCHANGED <<requestId, call, queue, cur, callOf, returned, pc, reader, inHand>>
    BY <1>1 DEF ServerAnswer, requestVars, threadVars
  <2> DEFINE response == [id |-> i, kind |-> kind, body |-> i]
  <2>3. response \in Response /\ response.id = response.body
    <3>1. i \in Nat
      BY DEF Requests
    <3> QED BY <2>1, <3>1 DEF Response
  <2> HIDE DEF response
  <2>4. stdout' = Append(stdout, response)
    BY <2>1 DEF response
  <2>5. /\ Len(stdout') = Len(stdout) + 1 /\ stdout'[Len(stdout) + 1] = response
        /\ \A k \in 1 .. Len(stdout) : stdout'[k] = stdout[k]
    BY <2>3, <2>4
  <2>6. PipeMatches' /\ HandMatches'
    <3>1. ASSUME NEW k \in 1 .. Len(stdout') PROVE stdout'[k].body = stdout'[k].id
      <4>1. k \in 1 .. Len(stdout) \/ k = Len(stdout) + 1
        BY <2>5
      <4>2. CASE k \in 1 .. Len(stdout)
        BY <2>5, <4>2, Zenon DEF AnswersInv, PipeMatches
      <4>3. CASE k = Len(stdout) + 1
        BY <2>3, <2>5, <4>3, Zenon
      <4> QED BY <4>1, <4>2, <4>3
    <3>2. HandMatches'
      BY <2>2 DEF AnswersInv, HandMatches
    <3> QED BY <3>1, <3>2 DEF PipeMatches
  <2>7. ResultsMatch' /\ AnswersOwnCall'
    <3>1. Requests' = Requests
      BY <2>2 DEF Requests
    <3>2. ResultsMatch'
      BY <2>2, <3>1 DEF AnswersInv, ResultsMatch
    <3>3. AnswersOwnCall'
      BY <2>2, <3>1 DEF AnswersInv, AnswersOwnCall
    <3> QED BY <3>2, <3>3
  <2>8. CallsMatch'
    BY <2>2 DEF AnswersInv, CallsMatch, Working
  <2> QED BY <2>6, <2>7, <2>8 DEF AnswersInv
<1>2. CASE StopBegin
  <2>1. Begin(Shutdown, FALSE) /\ Shutdown \in Threads
    BY <1>2 DEF StopBegin, Threads
  <2>2. UNCHANGED <<requestId, call, queue, stdout, reader, inHand>>
    BY <1>2 DEF StopBegin, requestVars, readerVars
  <2> QED BY <2>1, <2>2, AnswersBegin
<1>3. CASE \/ ServerExit \/ ServerStalls \/ ReaderAsked \/ StderrPoll
           \/ StopCheck \/ StopJoin \/ StopTerminate \/ StopClear
  <2>1. /\ UNCHANGED <<requestId, call, queue, cur, callOf, returned, stdout, inHand, pc>>
        /\ reader' = "deliver" => reader = "deliver"
    BY <1>3 DEF ServerExit, ServerStalls, ReaderAsked, StderrPoll, StopCheck, StopJoin,
                StopTerminate, StopClear, requestVars, threadVars, readerVars
  <2>2. \A t \in Threads : Working(t)' => Working(t)
    BY <2>1 DEF Working
  <2> QED BY <2>1, <2>2, AnswersFrame
<1> QED BY <1>1, <1>2, <1>3 DEF ServerStopStep, StopStep

LEMMA AnswersStep == TypeInv /\ DeliveryInv /\ AnswersInv /\ [Next]_vars => AnswersInv'
<1> SUFFICES ASSUME TypeInv, DeliveryInv, AnswersInv, [Next]_vars PROVE AnswersInv'
  OBVIOUS
<1>1. CASE UNCHANGED vars
  <2>1. \A t \in Threads : Working(t)' => Working(t)
    BY <1>1 DEF vars, Working
  <2> QED BY <1>1, <2>1, AnswersFrame DEF vars
<1>2. CASE Next
  BY <1>2, AnswersThreadStep, AnswersReaderStep, AnswersServerStopStep DEF Next, ServerStopStep
<1> QED BY <1>1, <1>2

\* A payload that send_request returns was computed for a request of that call,
\* whatever the interleaving of callers, late and repeated answers, and timeouts.
THEOREM AnswersReachTheirCall == Spec => []AnswersOwnCall
<1>1. AnswersInv => AnswersOwnCall
  BY DEF AnswersInv
<1>2. Spec => []AnswersInv
  BY AnswersInit, AnswersStep, TypeCorrect, Delivery, PTL DEF Spec
<1> QED BY <1>1, <1>2, PTL

-----------------------------------------------------------------------------
(* Calls under way.                                                          *)

\* A call under way has not returned.
NotReturned == \A t \in Threads : pc[t] # "idle" => returned[t].kind = "none"

\* A call that asks again has had the ContentModified answer to its last request.
AsksAgain ==
  \A t \in Threads :
    (pc[t] = "alloc" /\ attempt[t] > 1) =>
      /\ cur[t] \in Requests
      /\ queue[cur[t]] # <<>>
      /\ Head(queue[cur[t]]).kind = "modified"

\* The shutdown thread does nothing before stop() starts it.
ShutdownWaits == stopper \in {"off", "checked"} => pc[Shutdown] = "idle"

CallInv == NotReturned /\ AsksAgain /\ ShutdownWaits

\* At first no call is under way.
LEMMA CallInit == Init => CallInv
BY DEF Init, CallInv, NotReturned, AsksAgain, ShutdownWaits, Threads

\* A step that is no caller's leaves calls and results as they are, or adds results to
\* requests that had none.
LEMMA CallFrame ==
  ASSUME TypeInv, CallInv,
         UNCHANGED <<requestId, pc, attempt, cur, returned>>,
         \A i \in Requests : queue[i] # <<>> => queue'[i] = queue[i],
         stopper' \in {"off", "checked"} => stopper \in {"off", "checked"}
  PROVE  CallInv'
BY DEF CallInv, NotReturned, AsksAgain, ShutdownWaits, Requests

\* A call begins: it has not returned, and asks for the first time.
LEMMA CallBegin ==
  ASSUME TypeInv, CallInv, NEW t \in Threads, NEW registered, Begin(t, registered),
         UNCHANGED <<requestId, queue>>,
         stopper' \in {"off", "checked"} => t # Shutdown /\ stopper \in {"off", "checked"}
  PROVE  CallInv'
<1> USE DEF TypeInv, TypeOK
<1>1. /\ pc' = [pc EXCEPT ![t] = "alloc"] /\ attempt' = [attempt EXCEPT ![t] = 1]
      /\ returned' = [returned EXCEPT ![t] = NoResult] /\ cur' = cur
  BY DEF Begin
<1>2. NotReturned'
  BY <1>1 DEF CallInv, NotReturned, NoResult
<1>3. AsksAgain'
  BY <1>1 DEF CallInv, AsksAgain, Requests
<1>4. ShutdownWaits'
  BY <1>1 DEF CallInv, ShutdownWaits, Threads
<1> QED BY <1>2, <1>3, <1>4 DEF CallInv

\* A call goes on with its request, or ends.
LEMMA CallAdvance ==
  ASSUME TypeInv, CallInv, NEW t \in Threads, pc[t] # "idle",
         NEW to \in {"check", "write", "wait", "idle"}, pc' = [pc EXCEPT ![t] = to],
         UNCHANGED <<requestId, queue, cur, attempt, stopper>>,
         \/ returned' = returned
         \/ to = "idle" /\ \E result : returned' = [returned EXCEPT ![t] = result]
  PROVE  CallInv'
<1> USE DEF TypeInv, TypeOK
<1>1. NotReturned'
  BY DEF CallInv, NotReturned
<1>2. AsksAgain'
  BY DEF CallInv, AsksAgain, Requests
<1>3. ShutdownWaits'
  BY DEF CallInv, ShutdownWaits, Threads
<1> QED BY <1>1, <1>2, <1>3 DEF CallInv

\* Every step of a caller thread.
LEMMA CallThreadStep ==
  ASSUME TypeInv, CallInv, NEW t \in Threads, Call(t) \/ ThreadStep(t)
  PROVE  CallInv'
<1> USE DEF TypeInv, TypeOK
<1>1. CASE Call(t)
  <2>1. t # Shutdown
    BY <1>1, ThreadsAssumption DEF Call
  <2> QED BY <1>1, <2>1, CallBegin DEF Call, requestVars, stopVars
<1>2. CASE AllocId(t)
  <2>1. /\ pc[t] = "alloc" /\ pc' = [pc EXCEPT ![t] = "register"]
        /\ cur' = [cur EXCEPT ![t] = requestId]
        /\ UNCHANGED <<attempt, returned, stopper>>
        /\ Requests \subseteq Requests'
        /\ \A i \in Requests : queue'[i] = queue[i]
    BY <1>2 DEF AllocId, stopVars, Requests
  <2>2. NotReturned' /\ ShutdownWaits'
    BY <2>1 DEF CallInv, NotReturned, ShutdownWaits, Threads
  <2>3. AsksAgain'
    BY <2>1 DEF CallInv, AsksAgain
  <2> QED BY <2>2, <2>3 DEF CallInv
<1>3. CASE Register(t)
  BY <1>3, CallAdvance DEF Register, requestVars, stopVars
<1>4. CASE CheckProcess(t)
  BY <1>4, CallAdvance DEF CheckProcess, requestVars, stopVars
<1>5. CASE WriteBlocks(t)
  BY <1>5, CallFrame DEF WriteBlocks, requestVars, threadVars, stopVars
<1>6. CASE Write(t)
  <2>1. \/ pc' = [pc EXCEPT ![t] = "wait"] /\ returned' = returned
        \/ Leave(t, [kind |-> "raised", body |-> 0])
    BY <1>6 DEF Write
  <2> QED BY <1>6, <2>1, CallAdvance DEF Write, Leave, requestVars, stopVars
<1>7. CASE Receive(t)
  <2> DEFINE result == Head(queue[cur[t]])
  <2>1. /\ pc[t] = "wait" /\ queue[cur[t]] # <<>>
        /\ UNCHANGED <<requestId, queue, cur, stopper>>
    BY <1>7, Zenon DEF Receive, requestVars, stopVars
  <2>2. cur[t] \in Requests
    BY <2>1 DEF HasRequest, Working
  <2>3. CASE ShouldRetry(t, result)
    <3>1. /\ attempt' = [attempt EXCEPT ![t] = @ + 1] /\ pc' = [pc EXCEPT ![t] = "alloc"]
          /\ returned' = returned /\ result.kind = "modified"
      BY <1>7, <2>3, Zenon DEF Receive, ShouldRetry
    <3>2. NotReturned' /\ ShutdownWaits'
      BY <2>1, <3>1 DEF CallInv, NotReturned, ShutdownWaits, Threads
    <3>3. AsksAgain'
      BY <2>1, <2>2, <3>1 DEF CallInv, AsksAgain, Requests
    <3> QED BY <3>2, <3>3 DEF CallInv
  <2>4. CASE ~ShouldRetry(t, result)
    <3>1. Leave(t, result) /\ attempt' = attempt
      BY <1>7, <2>4, Zenon DEF Receive
    <3> QED BY <2>1, <3>1, CallAdvance DEF Leave
  <2> QED BY <2>3, <2>4
<1>8. CASE TimeOut(t)
  BY <1>8, CallAdvance DEF TimeOut, Leave, requestVars, stopVars
<1> QED BY <1>1, <1>2, <1>3, <1>4, <1>5, <1>6, <1>7, <1>8 DEF ThreadStep

\* Every step preserves what is known of the calls under way.
LEMMA CallStep == TypeInv /\ DeliveryInv /\ CallInv /\ [Next]_vars => CallInv'
<1> SUFFICES ASSUME TypeInv, DeliveryInv, CallInv, [Next]_vars PROVE CallInv'
  OBVIOUS
<1> USE DEF TypeInv, TypeOK
<1>1. CASE UNCHANGED vars
  BY <1>1, CallFrame DEF vars
<1>2. ASSUME NEW t \in Threads, Call(t) \/ ThreadStep(t) PROVE CallInv'
  BY <1>2, CallThreadStep
<1>3. CASE ReaderStep
  <2>1. UNCHANGED <<requestId, pc, attempt, cur, returned, stopper>>
    BY <1>3 DEF ReaderStep, ReaderPoll, ReaderTake, ReaderDeliver, ReaderEOF, ReaderBlocks,
                ReaderRespond, ReaderExit, ReaderCancel, requestVars, threadVars, stopVars
  <2>2. ASSUME NEW i \in Requests, queue[i] # <<>> PROVE queue'[i] = queue[i]
    <3>1. CASE ReaderDeliver
      <4>1. i # inHand.id
        BY <2>2, <3>1 DEF ReaderDeliver, DeliveryInv, InHandIsOpen
      <4> QED BY <3>1, <4>1 DEF ReaderDeliver
    <3>2. CASE ReaderCancel
      <4>1. i \notin pendingRequests
        BY <2>2 DEF DeliveryInv, PendingIsOpen
      <4> QED BY <3>2, <4>1 DEF ReaderCancel
    <3>3. CASE ~ReaderDeliver /\ ~ReaderCancel
      BY <1>3, <3>3 DEF ReaderStep, ReaderPoll, ReaderTake, ReaderEOF, ReaderBlocks,
                        ReaderRespond, ReaderExit
    <3> QED BY <3>1, <3>2, <3>3
  <2> QED BY <2>1, <2>2, CallFrame
<1>4. CASE ServerStopStep
  <2>1. CASE StopBegin
    <3>1. Shutdown \in Threads /\ stopper' = "joining" /\ UNCHANGED <<requestId, queue>>
          /\ Begin(Shutdown, FALSE)
      BY <2>1 DEF StopBegin, Threads, requestVars
    <3> QED BY <3>1, CallBegin
  <2>2. CASE ~StopBegin
    <3>1. UNCHANGED <<requestId, queue, pc, attempt, cur, returned>>
      BY <1>4, <2>2
      DEF ServerStopStep, StopStep, ServerAnswer, ServerExit, ServerStalls, ReaderAsked,
          StderrPoll, StopCheck, StopJoin, StopTerminate, StopClear, requestVars, threadVars
    <3>2. stopper' \in {"off", "checked"} => stopper \in {"off", "checked"}
      BY <1>4, <2>2
      DEF ServerStopStep, StopStep, ServerAnswer, ServerExit, ServerStalls, ReaderAsked,
          StderrPoll, StopCheck, StopJoin, StopTerminate, StopClear, stopVars
    <3> QED BY <3>1, <3>2, CallFrame
  <2> QED BY <2>1, <2>2
<1> QED BY <1>1, <1>2, <1>3, <1>4 DEF Next, ServerStopStep

\* The types, where requests are, and what is known of the calls under way.
THEOREM CallsUnderWay == Spec => [](TypeInv /\ DeliveryInv /\ CallInv)
<1>1. Spec => []CallInv
  <2>1. TypeInv /\ DeliveryInv /\ CallInv /\ [Next]_vars => CallInv'
    BY CallStep
  <2> QED BY <2>1, CallInit, TypeCorrect, Delivery, PTL DEF Spec
<1> QED BY <1>1, TypeCorrect, Delivery, PTL

\* A request is asked again only after the server answered it with ContentModified:
\* never after a timeout, a termination or any other end (send_request's retry loop).
THEOREM RetriesAreAsked == Spec => RetryAfterModified
<1> DEFINE Again(t) == (cur'[t] # cur[t] /\ attempt'[t] > 1) =>
                         queue[cur[t]] # <<>> /\ Head(queue[cur[t]]).kind = "modified"
<1>1. TypeInv /\ CallInv /\ [Next]_vars => \A t \in Threads : Again(t)
  <2> SUFFICES ASSUME TypeInv, CallInv, [Next]_vars, NEW t \in Threads,
                      cur'[t] # cur[t], attempt'[t] > 1
               PROVE  queue[cur[t]] # <<>> /\ Head(queue[cur[t]]).kind = "modified"
    OBVIOUS
  <2>1. AllocId(t)
    BY DEF Next, ThreadStep, ReaderStep, StopStep, Call, Begin, AllocId, Register, CheckProcess,
           WriteBlocks, Write, Receive, TimeOut, ReaderPoll, ReaderTake, ReaderDeliver, ReaderEOF,
           ReaderBlocks, ReaderRespond, ReaderExit, ReaderCancel, StderrPoll, ServerAnswer,
           ServerExit, ServerStalls, ReaderAsked, StopCheck, StopBegin, StopJoin, StopTerminate,
           StopClear, threadVars, vars, TypeInv, TypeOK
  <2>2. pc[t] = "alloc" /\ attempt[t] > 1
    BY <2>1 DEF AllocId
  <2> QED BY <2>2 DEF CallInv, AsksAgain
<1>2. Spec => [](TypeInv /\ CallInv)
  BY CallsUnderWay, PTL
<1>3. TypeInv /\ CallInv /\ [Next]_vars =>
        [\A t \in Threads : (cur'[t] # cur[t] /\ attempt'[t] > 1) =>
           /\ queue[cur[t]] # <<>>
           /\ Head(queue[cur[t]]).kind = "modified"]_vars
  BY <1>1
<1> HIDE DEF Again
<1> QED BY <1>2, <1>3, PTL DEF Spec, RetryAfterModified

-----------------------------------------------------------------------------
\* A sequence of at most one element that is not empty is that element.
LEMMA OneLong ==
  ASSUME NEW S, NEW s \in Seq(S), s # <<>>, Len(s) <= 1
  PROVE  Len(s) = 1 /\ s = <<Head(s)>> /\ Head(s) \in S
<1>1. Len(s) \in Nat /\ Len(s) # 0
  OBVIOUS
<1>2. Len(s) = 1
  BY <1>1
<1> QED BY <1>2

\* A request that has a result has one.
LEMMA SingleResult ==
  ASSUME TypeInv, DeliveryInv, NEW i \in Requests, queue[i] # <<>>
  PROVE  Len(queue[i]) = 1 /\ queue[i] = <<Head(queue[i])>> /\ Head(queue[i]) \in Result
<1>1. queue[i] \in Seq(Result)
  BY DEF TypeInv, TypeOK
<1>2. Len(queue[i]) <= 1
  BY DEF DeliveryInv, OneResult
<1> QED BY <1>1, <1>2, OneLong

(* Requests are futures that settle once.  A call's beginning, a taken id, a   *)
(* delivered result, the cancellation and the end of a call are steps of       *)
(* RpcFutures; every other step leaves it where it is.                        *)

\* At first there are no futures.
LEMMA FuturesInit == Init => Futures!Init
BY DEF Init, Futures!Init, Requests, Held, NoResult

\* A step that moves no result and takes no thread from or to a request.
LEMMA FuturesStutter ==
  ASSUME UNCHANGED <<requestId, queue, returned>>, \A t \in Threads : Held(t)' = Held(t)
  PROVE  UNCHANGED Futures!vars
BY DEF Futures!vars, Requests, Settled

\* A call begins.
LEMMA FuturesBegin ==
  ASSUME TypeInv, NEW t \in Threads, NEW registered, Begin(t, registered), pc[t] = "idle",
         UNCHANGED <<requestId, queue>>
  PROVE  Futures!Begin(t)
<1> USE DEF TypeInv, TypeOK
<1>1. /\ returned' = [returned EXCEPT ![t] = NoResult]
      /\ pc' = [pc EXCEPT ![t] = "alloc"] /\ attempt' = [attempt EXCEPT ![t] = 1]
      /\ cur' = cur
  BY DEF Begin
<1>2. \A u \in Threads : Held(u)' = Held(u)
  BY <1>1 DEF Held
<1>3. Held(t) = 0
  BY DEF Held
<1>4. [u \in Threads |-> returned[u].kind]' =
        [[u \in Threads |-> returned[u].kind] EXCEPT ![t] = "none"]
  BY <1>1 DEF NoResult
<1> QED BY <1>2, <1>3, <1>4 DEF Futures!Begin, Requests, Settled

\* An id is taken: a new future, and after a first one only when that settled to
\* "modified".
LEMMA FuturesIssue ==
  ASSUME TypeInv, DeliveryInv, CallInv, NEW t \in Threads, AllocId(t)
  PROVE  Futures!Issue(t)
<1> USE DEF TypeInv, TypeOK
<1>1. /\ pc[t] = "alloc" /\ pc' = [pc EXCEPT ![t] = "register"]
      /\ cur' = [cur EXCEPT ![t] = requestId] /\ requestId' = requestId + 1
      /\ UNCHANGED <<attempt, returned>>
      /\ queue' = [i \in 1 .. requestId |-> IF i = requestId THEN <<>> ELSE queue[i]]
  BY DEF AllocId
<1>2. returned[t].kind = "none"
  BY <1>1 DEF CallInv, NotReturned
<1>3. Held(t) # 0 => Held(t) \in Requests /\ Settled(Held(t)) = "modified"
  <2> SUFFICES ASSUME Held(t) # 0 PROVE Held(t) \in Requests /\ Settled(Held(t)) = "modified"
    OBVIOUS
  <2>1. Held(t) = cur[t] /\ attempt[t] > 1
    BY <1>1 DEF Held
  <2>2. cur[t] \in Requests /\ queue[cur[t]] # <<>> /\ Head(queue[cur[t]]).kind = "modified"
    BY <1>1, <2>1 DEF CallInv, AsksAgain
  <2>3. Len(queue[cur[t]]) = 1 /\ queue[cur[t]] = <<Head(queue[cur[t]])>>
    BY <2>2, SingleResult
  <2> QED BY <2>1, <2>2, <2>3 DEF Settled
<1>4. [i \in Requests |-> Settled(i)]' =
        [i \in 1 .. (requestId - 1) + 1 |->
           IF i \in 1 .. requestId - 1 THEN [j \in Requests |-> Settled(j)][i] ELSE "open"]
  BY <1>1 DEF Requests, Settled
<1>5. [u \in Threads |-> Held(u)]' =
        [[u \in Threads |-> Held(u)] EXCEPT ![t] = (requestId - 1) + 1]
  <2>1. Held(t)' = (requestId - 1) + 1
    BY <1>1 DEF Held
  <2>2. \A u \in Threads \ {t} : Held(u)' = Held(u)
    BY <1>1 DEF Held
  <2> QED BY <2>1, <2>2
<1>6. (requestId - 1)' = (requestId - 1) + 1
  BY <1>1
<1>7. /\ [u \in Threads |-> returned[u].kind][t] = "none"
      /\ UNCHANGED [u \in Threads |-> returned[u].kind]
  BY <1>1, <1>2
<1>8. [u \in Threads |-> Held(u)][t] # 0 =>
        [j \in Requests |-> Settled(j)][[u \in Threads |-> Held(u)][t]] = "modified"
  BY <1>3
<1> QED BY <1>4, <1>5, <1>6, <1>7, <1>8, Zenon DEF Futures!Issue, Futures!FutureIds

\* A call ends, with what its request settled to or giving it up.
LEMMA FuturesLeave ==
  ASSUME TypeInv, DeliveryInv, NEW t \in Threads, NEW result, Working(t), Leave(t, result),
         UNCHANGED <<requestId, queue, cur, attempt>>,
         \/ queue[cur[t]] # <<>> /\ result = Head(queue[cur[t]])
         \/ queue[cur[t]] = <<>> /\ result.kind = "timeout"
         \/ result.kind = "raised"
  PROVE  Futures!Next
<1> USE DEF TypeInv, TypeOK
<1>1. /\ pc' = [pc EXCEPT ![t] = "idle"] /\ returned' = [returned EXCEPT ![t] = result]
  BY DEF Leave
<1>2. Held(t) = cur[t] /\ cur[t] \in Requests /\ cur[t] # 0
  BY DEF Held, Working, HasRequest
<1>3. [u \in Threads |-> Held(u)]' = [[u \in Threads |-> Held(u)] EXCEPT ![t] = 0]
  BY <1>1 DEF Held
<1>4. [u \in Threads |-> returned[u].kind]' =
        [[u \in Threads |-> returned[u].kind] EXCEPT ![t] = result.kind]
  BY <1>1
<1>5. UNCHANGED <<requestId - 1, [i \in Requests |-> Settled(i)]>>
  BY DEF Requests, Settled
<1>6. CASE queue[cur[t]] # <<>> /\ result = Head(queue[cur[t]])
  <2>1. Len(queue[cur[t]]) = 1 /\ queue[cur[t]] = <<result>> /\ result \in Result
    BY <1>2, <1>6, SingleResult
  <2>2. Settled(cur[t]) = result.kind
    BY <1>6, <2>1 DEF Settled
  <2>3. Settled(cur[t]) = result.kind /\ result.kind # "open"
    BY <2>1, <2>2 DEF Result, ResultKinds, Answers
  <2>4. Futures!Finish(t)
    BY <1>2, <1>3, <1>4, <1>5, <2>3 DEF Futures!Finish
  <2> QED BY <2>4 DEF Futures!Next
<1>7. CASE queue[cur[t]] = <<>> /\ result.kind = "timeout"
  <2>1. Futures!GiveUp(t, "timeout")
    BY <1>2, <1>3, <1>4, <1>5, <1>7 DEF Futures!GiveUp, Settled
  <2> QED BY <2>1 DEF Futures!Next
<1>8. CASE result.kind = "raised"
  <2>1. Futures!GiveUp(t, "raised")
    BY <1>2, <1>3, <1>4, <1>5, <1>8 DEF Futures!GiveUp
  <2> QED BY <2>1 DEF Futures!Next
<1> QED BY <1>6, <1>7, <1>8


\* A delivered result answers one open future.
LEMMA FuturesAnswer ==
  ASSUME TypeInv, DeliveryInv, ReaderDeliver
  PROVE  Futures!Next
<1> USE DEF TypeInv, TypeOK
<1> DEFINE result == [kind |-> inHand.kind, body |-> inHand.body]
<1>0. inHand.id \in Requests /\ queue[inHand.id] = <<>>
  BY DEF ReaderDeliver, DeliveryInv, InHandIsOpen
<1> PICK i \in Requests : i = inHand.id
  BY <1>0
<1>1. /\ queue' = [queue EXCEPT ![i] = Append(@, result)]
      /\ i \in Requests /\ queue[i] = <<>>
      /\ UNCHANGED <<requestId, pc, attempt, cur, returned>>
  BY <1>0 DEF ReaderDeliver, requestVars, threadVars
<1>2. inHand.kind \in {"ok", "modified", "error"}
  BY DEF Response, Answers
<1>3. queue'[i] = <<result>> /\ \A j \in Requests \ {i} : queue'[j] = queue[j]
  BY <1>1
<1>4. Settled(i) = "open" /\ Settled(i)' = inHand.kind
  <2>1. result.kind = inHand.kind
    OBVIOUS
  <2> HIDE DEF result
  <2>2. Len(<<result>>) = 1 /\ <<result>>[1] = result /\ <<result>> # <<>>
    OBVIOUS
  <2> QED BY <1>1, <1>3, <2>1, <2>2, Zenon DEF Settled
<1>5. \A j \in Requests \ {i} : Settled(j)' = Settled(j)
  BY <1>3 DEF Settled
<1> HIDE DEF result
<1>6. [j \in Requests |-> Settled(j)]' = [[j \in Requests |-> Settled(j)] EXCEPT ![i] = inHand.kind]
  <2>1. Requests' = Requests
    BY <1>1 DEF Requests
  <2> HIDE DEF Requests
  <2> QED BY <1>4, <1>5, <2>1
<1>7. [j \in Requests |-> Settled(j)][i] = "open"
  BY <1>1, <1>4
<1>8. UNCHANGED <<requestId - 1, [u \in Threads |-> Held(u)],
                  [u \in Threads |-> returned[u].kind]>>
  BY <1>1 DEF Held
<1>9. Futures!Answer(i, inHand.kind)
  BY <1>6, <1>7, <1>8, Zenon DEF Futures!Answer
<1> QED BY <1>1, <1>2, <1>9 DEF Futures!Next, Futures!FutureIds, Requests

\* The cancellation ends all pending requests, which are open, at once.
LEMMA FuturesTerminate ==
  ASSUME TypeInv, DeliveryInv, ReaderCancel
  PROVE  Futures!Next
<1> USE DEF TypeInv, TypeOK
<1>1. /\ queue' = [i \in Requests |-> IF i \in pendingRequests THEN Append(queue[i], Terminated)
                                                               ELSE queue[i]]
      /\ UNCHANGED <<requestId, pc, attempt, cur, returned>>
      /\ pendingRequests \subseteq Requests
  BY DEF ReaderCancel, requestVars, threadVars
<1>2. ASSUME NEW i \in pendingRequests
      PROVE  Settled(i) = "open" /\ Settled(i)' = "terminated"
  <2>1. queue[i] = <<>> /\ i \in Requests
    BY DEF DeliveryInv, PendingIsOpen
  <2>2. queue'[i] = Append(<<>>, Terminated)
    BY <1>1, <2>1
  <2>3. queue'[i] = <<Terminated>>
    BY <2>2
  <2> QED BY <2>1, <2>3 DEF Settled, Terminated
<1>3. \A i \in Requests \ pendingRequests : Settled(i)' = Settled(i)
  BY <1>1 DEF Settled
<1>4. [i \in Requests |-> Settled(i)]' =
        [i \in 1 .. requestId - 1 |-> IF i \in pendingRequests THEN "terminated"
                                         ELSE [j \in Requests |-> Settled(j)][i]]
  BY <1>1, <1>2, <1>3 DEF Requests
<1>5. \A i \in pendingRequests : [j \in Requests |-> Settled(j)][i] = "open"
  BY <1>1, <1>2
<1>6. UNCHANGED <<requestId - 1, [u \in Threads |-> Held(u)],
                  [u \in Threads |-> returned[u].kind]>>
  BY <1>1 DEF Held
<1>7. Futures!Terminate(pendingRequests)
  BY <1>4, <1>5, <1>6, Zenon DEF Futures!Terminate, Futures!FutureIds
<1> QED BY <1>1, <1>7 DEF Futures!Next, Futures!FutureIds, Requests

\* Every step of a caller thread is a step of the futures, or none.
LEMMA FuturesThreadStep ==
  ASSUME TypeInv, DeliveryInv, CallInv, NEW t \in Threads, Call(t) \/ ThreadStep(t)
  PROVE  [Futures!Next]_(Futures!vars)
<1> USE DEF TypeInv, TypeOK
<1>1. CASE Call(t)
  <2>1. Futures!Begin(t)
    BY <1>1, FuturesBegin DEF Call, requestVars
  <2> QED BY <2>1 DEF Futures!Next
<1>2. CASE AllocId(t)
  BY <1>2, FuturesIssue DEF Futures!Next
<1>3. ASSUME pc[t] \in {"register", "check", "write", "wait"},
             NEW to \in {"check", "write", "wait"}, pc' = [pc EXCEPT ![t] = to],
             UNCHANGED <<requestId, queue, returned, cur, attempt>>
      PROVE  UNCHANGED Futures!vars
  BY <1>3, FuturesStutter DEF Held
<1>4. CASE Register(t) \/ CheckProcess(t)
  BY <1>3, <1>4 DEF Register, CheckProcess, requestVars
<1>5. CASE WriteBlocks(t)
  <2>1. UNCHANGED <<requestId, queue, returned, pc, cur, attempt>>
    BY <1>5 DEF WriteBlocks, requestVars, threadVars
  <2> QED BY <2>1, FuturesStutter DEF Held
<1>6. CASE Write(t)
  <2>1. /\ pc[t] = "write" /\ UNCHANGED <<requestId, queue, cur, attempt>>
        /\ \/ pc' = [pc EXCEPT ![t] = "wait"] /\ returned' = returned
           \/ Leave(t, [kind |-> "raised", body |-> 0])
    BY <1>6 DEF Write, requestVars
  <2> QED BY <2>1, <1>3, FuturesLeave DEF Working
<1>7. CASE Receive(t)
  <2> DEFINE result == Head(queue[cur[t]])
  <2>1. pc[t] = "wait" /\ queue[cur[t]] # <<>> /\ UNCHANGED <<requestId, queue, cur>>
    BY <1>7, Zenon DEF Receive, requestVars
  <2>2. CASE ShouldRetry(t, result)
    <3>1. /\ attempt' = [attempt EXCEPT ![t] = @ + 1] /\ pc' = [pc EXCEPT ![t] = "alloc"]
          /\ returned' = returned
      BY <1>7, <2>2, Zenon DEF Receive
    <3>2. \A u \in Threads : Held(u)' = Held(u)
      BY <2>1, <3>1 DEF Held
    <3> QED BY <2>1, <3>1, <3>2, FuturesStutter
  <2>3. CASE ~ShouldRetry(t, result)
    <3>1. Leave(t, result) /\ attempt' = attempt
      BY <1>7, <2>3, Zenon DEF Receive
    <3>2. Working(t)
      BY <2>1 DEF Working
    <3> QED BY <2>1, <3>1, <3>2, FuturesLeave
  <2> QED BY <2>2, <2>3
<1>8. CASE TimeOut(t)
  <2>1. /\ pc[t] = "wait" /\ queue[cur[t]] = <<>>
        /\ Leave(t, [kind |-> "timeout", body |-> 0])
        /\ UNCHANGED <<requestId, queue, cur, attempt>>
    BY <1>8 DEF TimeOut, requestVars
  <2> QED BY <2>1, FuturesLeave DEF Working
<1> QED BY <1>1, <1>2, <1>4, <1>5, <1>6, <1>7, <1>8 DEF ThreadStep

\* Every step is a step of the futures, or none.
LEMMA FuturesStep ==
  TypeInv /\ DeliveryInv /\ CallInv /\ [Next]_vars => [Futures!Next]_(Futures!vars)
<1> SUFFICES ASSUME TypeInv, DeliveryInv, CallInv, [Next]_vars
             PROVE  [Futures!Next]_(Futures!vars)
  OBVIOUS
<1>1. ASSUME UNCHANGED <<requestId, queue, returned, pc, cur, attempt>>
      PROVE  UNCHANGED Futures!vars
  BY <1>1, FuturesStutter DEF Held
<1>2. CASE UNCHANGED vars
  BY <1>1, <1>2 DEF vars
<1>3. ASSUME NEW t \in Threads, Call(t) \/ ThreadStep(t)
      PROVE  [Futures!Next]_(Futures!vars)
  BY <1>3, FuturesThreadStep
<1>4. CASE ReaderStep
  <2>1. CASE ReaderDeliver
    BY <2>1, FuturesAnswer
  <2>2. CASE ReaderCancel
    BY <2>2, FuturesTerminate
  <2>3. CASE ~ReaderDeliver /\ ~ReaderCancel
    BY <1>1, <1>4, <2>3
    DEF ReaderStep, ReaderPoll, ReaderTake, ReaderEOF, ReaderBlocks, ReaderRespond, ReaderExit,
        requestVars, threadVars
  <2> QED BY <2>1, <2>2, <2>3
<1>5. CASE ServerStopStep
  <2>1. CASE StopBegin
    <3>1. Shutdown \in Threads /\ pc[Shutdown] = "idle" /\ UNCHANGED <<requestId, queue>>
          /\ Begin(Shutdown, FALSE)
      BY <2>1 DEF StopBegin, Threads, CallInv, ShutdownWaits, requestVars
    <3>2. Futures!Begin(Shutdown)
      BY <3>1, FuturesBegin
    <3> QED BY <3>1, <3>2 DEF Futures!Next
  <2>2. CASE ~StopBegin
    BY <1>1, <1>5, <2>2
    DEF ServerStopStep, StopStep, ServerAnswer, ServerExit, ServerStalls, ReaderAsked,
        StderrPoll, StopCheck, StopJoin, StopTerminate, StopClear, requestVars, threadVars
  <2> QED BY <2>1, <2>2
<1> QED BY <1>2, <1>3, <1>4, <1>5 DEF Next, ServerStopStep

\* send_request with its ids, pipes, reader thread, retries and cancellation implements
\* futures that settle at most once, and of which each call gets its own.
THEOREM Refinement == Spec => FuturesSpec
<1>1. TypeInv /\ DeliveryInv /\ CallInv /\ [Next]_vars => [Futures!Next]_(Futures!vars)
  BY FuturesStep
<1> QED BY <1>1, FuturesInit, CallsUnderWay, PTL DEF Spec, FuturesSpec, Futures!Spec

-----------------------------------------------------------------------------
(* The cancellation.  Once the reader has left its loop the process is dead, so *)
(* that nothing reaches it any more; what becomes pending later was not sent.  *)

Left == {"exit", "cancel", "cancelled", "quiet"}

\* The process is dead when the reader has left its loop, and when stop() has
\* terminated it.
LeftIsDead == (reader \in Left \/ stopper = "clearing" \/ ~handle) => ~alive

\* A request that is not registered has not been sent.
UnsentYet == \A t \in Threads : pc[t] = "register" => cur[t] \notin received

CancelInv == LeftIsDead /\ UnsentYet /\ CancelIsComplete

\* At first the process runs and nothing is sent.
LEMMA CancelInit == Init => CancelInv
BY DEF Init, CancelInv, LeftIsDead, UnsentYet, CancelIsComplete, Left

\* A step that sends, registers and takes nothing, and revives nobody.
LEMMA CancelFrame ==
  ASSUME CancelInv, received' \subseteq received, pendingRequests' \subseteq pendingRequests,
         cur' = cur, alive' => alive,
         \A t \in Threads : pc'[t] = "register" => pc[t] = "register",
         reader' \in Left => ~alive' \/ reader \in Left,
         reader' = "cancelled" => reader = "cancelled",
         (stopper' = "clearing" \/ ~handle') => (~alive' \/ stopper = "clearing" \/ ~handle)
  PROVE  CancelInv'
BY DEF CancelInv, LeftIsDead, UnsentYet, CancelIsComplete

\* Every step of a caller thread.
LEMMA CancelThreadStep ==
  ASSUME TypeInv, DeliveryInv, CancelInv, NEW t \in Threads, Call(t) \/ ThreadStep(t)
  PROVE  CancelInv'
<1> USE DEF TypeInv, TypeOK
<1>0. UNCHANGED <<alive, reader, handle>> /\ (stopper' = stopper)
  BY DEF Call, ThreadStep, AllocId, Register, CheckProcess, WriteBlocks, Write, Receive, TimeOut,
         serverVars, readerVars, stopVars
<1>1. LeftIsDead'
  BY <1>0 DEF CancelInv, LeftIsDead
<1>2. CASE AllocId(t)
  <2>1. /\ cur' = [cur EXCEPT ![t] = requestId] /\ pc' = [pc EXCEPT ![t] = "register"]
        /\ UNCHANGED <<received, pendingRequests>> /\ requestId \notin Requests
    BY <1>2 DEF AllocId, serverVars, Requests
  <2>2. UnsentYet'
    BY <2>1 DEF CancelInv, UnsentYet
  <2> QED BY <1>0, <1>1, <2>1, <2>2 DEF CancelInv, CancelIsComplete
<1>3. CASE Register(t)
  <2>1. /\ pc[t] = "register" /\ pc' = [pc EXCEPT ![t] = "check"]
        /\ pendingRequests' = pendingRequests \cup {cur[t]} /\ UNCHANGED <<received, cur>>
    BY <1>3 DEF Register, serverVars
  <2>2. UnsentYet' /\ CancelIsComplete'
    BY <1>0, <2>1 DEF CancelInv, UnsentYet, CancelIsComplete
  <2> QED BY <1>1, <2>2 DEF CancelInv
<1>4. CASE Write(t)
  <2>1. /\ pc[t] = "write" /\ pc' \in {[pc EXCEPT ![t] = "wait"], [pc EXCEPT ![t] = "idle"]}
        /\ UNCHANGED <<pendingRequests, cur>>
        /\ \/ received' = received
           \/ alive /\ received' = received \cup {cur[t]}
    BY <1>4 DEF Write, Leave
  <2>2. UnsentYet'
    BY <2>1 DEF CancelInv, UnsentYet, DeliveryInv, OwnRequest, Working
  <2>3. CancelIsComplete'
    BY <1>0, <2>1 DEF CancelInv, LeftIsDead, CancelIsComplete, Left
  <2> QED BY <1>1, <2>2, <2>3 DEF CancelInv
<1>5. CASE Call(t) \/ CheckProcess(t) \/ WriteBlocks(t) \/ TimeOut(t)
  <2>1. /\ UNCHANGED <<received, pendingRequests, cur>>
        /\ pc' = pc \/ \E to \in {"alloc", "write", "wait", "idle"} : pc' = [pc EXCEPT ![t] = to]
    BY <1>5 DEF Call, Begin, CheckProcess, WriteBlocks, TimeOut, Leave, serverVars, threadVars
  <2> QED BY <1>0, <2>1, CancelFrame
<1>6. CASE Receive(t)
  <2>1. /\ UNCHANGED <<received, pendingRequests, cur>>
        /\ \E to \in {"alloc", "idle"} : pc' = [pc EXCEPT ![t] = to]
    BY <1>6, Zenon DEF Receive, Leave
  <2> QED BY <1>0, <2>1, CancelFrame
<1> QED BY <1>2, <1>3, <1>4, <1>5, <1>6 DEF ThreadStep

\* Every step keeps the cancellation complete.
LEMMA CancelStep == TypeInv /\ DeliveryInv /\ CancelInv /\ [Next]_vars => CancelInv'
<1> SUFFICES ASSUME TypeInv, DeliveryInv, CancelInv, [Next]_vars PROVE CancelInv'
  OBVIOUS
<1>1. CASE UNCHANGED vars
  BY <1>1, CancelFrame DEF vars
<1>2. ASSUME NEW t \in Threads, Call(t) \/ ThreadStep(t) PROVE CancelInv'
  BY <1>2, CancelThreadStep
<1>3. CASE ReaderStep
  <2>0. UNCHANGED <<received, alive, pc, cur, handle, stopper>>
    BY <1>3 DEF ReaderStep, ReaderPoll, ReaderTake, ReaderDeliver, ReaderEOF, ReaderBlocks,
                ReaderRespond, ReaderExit, ReaderCancel, serverVars, threadVars, stopVars
  <2>1. CASE ReaderPoll
    <3>1. reader' = "read" \/ (reader' = "exit" /\ ~(handle /\ alive))
      BY <2>1 DEF ReaderPoll
    <3>2. pendingRequests' = pendingRequests /\ (reader' \in Left => ~alive)
      BY <2>1, <3>1 DEF ReaderPoll, CancelInv, LeftIsDead, Left
    <3> QED BY <2>0, <3>1, <3>2, CancelFrame
  <2>2. CASE ReaderCancel
    <3>1. reader = "cancel" /\ reader' = "cancelled" /\ pendingRequests' = {}
      BY <2>2 DEF ReaderCancel
    <3> QED BY <2>0, <3>1 DEF CancelInv, LeftIsDead, UnsentYet, CancelIsComplete, Left
  <2>3. CASE ~ReaderPoll /\ ~ReaderCancel
    <3>1. /\ pendingRequests' \subseteq pendingRequests /\ reader' # "cancelled"
          /\ reader' \in Left => reader \in Left
      BY <1>3, <2>3 DEF ReaderStep, ReaderTake, ReaderDeliver, ReaderEOF, ReaderBlocks,
                        ReaderRespond, ReaderExit, Left
    <3> QED BY <2>0, <3>1, CancelFrame
  <2> QED BY <2>1, <2>2, <2>3
<1>4. CASE ServerStopStep
  <2>1. /\ received' \subseteq received /\ pendingRequests' = pendingRequests /\ cur' = cur
        /\ pc' = pc \/ pc' = [pc EXCEPT ![Shutdown] = "alloc"]
        /\ reader' = reader \/ reader' = "respond"
        /\ alive' => alive
    BY <1>4 DEF ServerStopStep, StopStep, ServerAnswer, ServerExit, ServerStalls, ReaderAsked,
                StderrPoll, StopCheck, StopBegin, Begin, StopJoin, StopTerminate, StopClear,
                serverVars, threadVars, readerVars
  <2>2. (stopper' = "clearing" \/ ~handle') => (~alive' \/ stopper = "clearing" \/ ~handle)
    BY <1>4 DEF ServerStopStep, StopStep, ServerAnswer, ServerExit, ServerStalls, ReaderAsked,
                StderrPoll, StopCheck, StopBegin, StopJoin, StopTerminate, StopClear, stopVars
  <2> QED BY <2>1, <2>2, CancelFrame DEF TypeInv, TypeOK, Left
<1> QED BY <1>1, <1>2, <1>3, <1>4 DEF Next, ServerStopStep

\* Once the reader has cancelled, no request that reached the server is pending:
\* whoever sent one has been told (_cancel_pending_requests).
THEOREM CancellationComplete == Spec => []CancelIsComplete
<1>1. TypeInv /\ DeliveryInv /\ CancelInv /\ [Next]_vars => CancelInv'
  BY CancelStep
<1>2. CancelInv => CancelIsComplete
  BY DEF CancelInv
<1> QED BY <1>1, <1>2, CancelInit, TypeCorrect, Delivery, PTL DEF Spec

-----------------------------------------------------------------------------
(* What is pending.                                                          *)

\* Every step that leaves stdin open keeps an awaiting thread for what is pending,
\* when no wait times out.
LEMMA AwaitedStep ==
  ASSUME ~HasTimeout, TypeInv, DeliveryInv, CallInv, PendingIsAwaited, [Next]_vars
  PROVE  PendingIsAwaited'
<1> USE DEF TypeInv, TypeOK
<1> SUFFICES ASSUME stdinOpen', NEW i \in pendingRequests'
             PROVE  \E t \in Threads : Working(t)' /\ cur'[t] = i
  BY DEF PendingIsAwaited
<1>1. stdinOpen
  BY DEF Next, ThreadStep, ReaderStep, StopStep, Call, AllocId, Register, CheckProcess,
         WriteBlocks, Write, Receive, TimeOut, ReaderPoll, ReaderTake, ReaderDeliver, ReaderEOF,
         ReaderBlocks, ReaderRespond, ReaderExit, ReaderCancel, StderrPoll, ServerAnswer,
         ServerExit, ServerStalls, ReaderAsked, StopCheck, StopBegin, StopJoin, StopTerminate,
         StopClear, stopVars, vars
<1>2. ASSUME i \in pendingRequests, UNCHANGED <<pc, cur>>
      PROVE  \E t \in Threads : Working(t)' /\ cur'[t] = i
  BY <1>1, <1>2 DEF PendingIsAwaited, Working
<1>3. CASE UNCHANGED vars
  BY <1>2, <1>3 DEF vars
<1>4. ASSUME NEW t \in Threads, Call(t) \/ ThreadStep(t)
      PROVE  \E u \in Threads : Working(u)' /\ cur'[u] = i
  <2>1. CASE Register(t)
    <3>1. /\ pc[t] = "register" /\ pc' = [pc EXCEPT ![t] = "check"] /\ cur' = cur
          /\ pendingRequests' = pendingRequests \cup {cur[t]}
      BY <2>1 DEF Register
    <3> QED BY <1>1, <3>1 DEF PendingIsAwaited, Working
  <2>2. CASE ~Register(t)
    <3>1. i \in pendingRequests
      BY <1>4, <2>2 DEF ThreadStep, Call, AllocId, CheckProcess, WriteBlocks, Write, Receive, TimeOut
    <3>2. PICK u \in Threads : Working(u) /\ cur[u] = i
      BY <1>1, <3>1 DEF PendingIsAwaited
    <3>3. CASE u # t
      <4>1. pc'[u] = pc[u] /\ cur'[u] = cur[u]
        BY <1>4, <2>2, <3>3 DEF ThreadStep, Call, Begin, AllocId, CheckProcess, WriteBlocks,
                                Write, Receive, Leave, TimeOut, threadVars
      <4> QED BY <3>2, <4>1 DEF Working
    <3>4. CASE u = t
      <4>1. queue[cur[t]] = <<>>
        BY <3>1, <3>2, <3>4 DEF DeliveryInv, PendingIsOpen
      <4>2. CheckProcess(t) \/ WriteBlocks(t) \/ Write(t)
        BY <1>4, <2>2, <3>2, <3>4, <4>1
        DEF ThreadStep, Call, AllocId, Receive, TimeOut, Working
      <4>3. /\ cur' = cur
            /\ pc' = pc \/ \E to \in {"write", "wait"} : pc' = [pc EXCEPT ![t] = to]
        BY <1>1, <4>2 DEF CheckProcess, WriteBlocks, Write, threadVars
      <4> QED BY <3>2, <3>4, <4>3 DEF Working
    <3> QED BY <3>3, <3>4
  <2> QED BY <2>1, <2>2
<1>5. CASE ReaderStep
  <2>1. i \in pendingRequests /\ UNCHANGED <<pc, cur>>
    BY <1>5 DEF ReaderStep, ReaderPoll, ReaderTake, ReaderDeliver, ReaderEOF, ReaderBlocks,
                ReaderRespond, ReaderExit, ReaderCancel, threadVars
  <2> QED BY <1>2, <2>1
<1>6. CASE ServerStopStep
  <2>1. CASE StopBegin
    <3>1. /\ pendingRequests' = pendingRequests /\ cur' = cur
          /\ pc' = [pc EXCEPT ![Shutdown] = "alloc"]
      BY <2>1 DEF StopBegin, Begin
    <3>2. pc[Shutdown] = "idle"
      BY <2>1 DEF StopBegin, CallInv, ShutdownWaits
    <3>3. PICK t \in Threads : Working(t) /\ cur[t] = i
      BY <1>1, <3>1 DEF PendingIsAwaited
    <3> QED BY <3>1, <3>2, <3>3 DEF Working
  <2>2. CASE ~StopBegin
    <3>1. pendingRequests' = pendingRequests /\ UNCHANGED <<pc, cur>>
      BY <1>6, <2>2
      DEF ServerStopStep, StopStep, ServerAnswer, ServerExit, ServerStalls, ReaderAsked,
          StderrPoll, StopCheck, StopJoin, StopTerminate, StopClear, threadVars
    <3> QED BY <1>2, <3>1
  <2> QED BY <2>1, <2>2
<1> QED BY <1>3, <1>4, <1>5, <1>6 DEF Next, ServerStopStep

\* Without timeouts, as the program runs, nothing leaks in _pending_requests until stop()
\* closes stdin: each entry is a request some thread still works on.
THEOREM PendingAwaited ==
  ASSUME ~HasTimeout
  PROVE  Spec => []PendingIsAwaited
<1>1. Init => PendingIsAwaited
  BY DEF Init, PendingIsAwaited
<1>2. TypeInv /\ DeliveryInv /\ CallInv /\ PendingIsAwaited /\ [Next]_vars => PendingIsAwaited'
  BY AwaitedStep
<1> QED BY <1>1, <1>2, CallsUnderWay, PTL DEF Spec
===============================================================================
