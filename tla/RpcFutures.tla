------------------------------ MODULE RpcFutures ------------------------------
(***************************************************************************)
(* What send_request promises its callers, without ids in messages, pipes, *)
(* reader thread or process: every request is a future that settles at     *)
(* most once and never changes again; a thread holds at most one future,   *)
(* leaves with exactly what its future settled to or gives it up, and      *)
(* takes another one in the same call only after "modified".               *)
(***************************************************************************)
EXTENDS Integers

CONSTANTS Threads

VARIABLES issued,   \* number of futures made
          state,    \* future -> "open" or what it settled to
          held,     \* thread -> the future it holds, 0 if none
          outcome   \* thread -> how its last call ended

vars == <<issued, state, held, outcome>>

FutureIds == 1 .. issued

Init ==
  /\ issued = 0 /\ state = [i \in {} |-> "open"]
  /\ held = [t \in Threads |-> 0]
  /\ outcome = [t \in Threads |-> "none"]

\* A call begins.
Begin(t) ==
  /\ held[t] = 0
  /\ outcome' = [outcome EXCEPT ![t] = "none"]
  /\ UNCHANGED <<issued, state, held>>

\* A thread in a call takes a new future.
Issue(t) ==
  /\ outcome[t] = "none"
  /\ held[t] # 0 => state[held[t]] = "modified"
  /\ issued' = issued + 1
  /\ state' = [i \in 1 .. issued + 1 |-> IF i \in FutureIds THEN state[i] ELSE "open"]
  /\ held' = [held EXCEPT ![t] = issued + 1]
  /\ UNCHANGED outcome

\* One open future is answered.
Answer(i, kind) ==
  /\ state[i] = "open"
  /\ state' = [state EXCEPT ![i] = kind]
  /\ UNCHANGED <<issued, held, outcome>>

\* Some open futures end together because the connection does.
Terminate(ended) ==
  /\ \A i \in ended : state[i] = "open"
  /\ state' = [i \in FutureIds |-> IF i \in ended THEN "terminated" ELSE state[i]]
  /\ UNCHANGED <<issued, held, outcome>>

\* A call ends as its future settled.
Finish(t) ==
  /\ held[t] # 0 /\ state[held[t]] # "open"
  /\ outcome' = [outcome EXCEPT ![t] = state[held[t]]]
  /\ held' = [held EXCEPT ![t] = 0]
  /\ UNCHANGED <<issued, state>>

\* A call ends without waiting for its future.
GiveUp(t, reason) ==
  /\ held[t] # 0
  /\ reason = "timeout" => state[held[t]] = "open"
  /\ outcome' = [outcome EXCEPT ![t] = reason]
  /\ held' = [held EXCEPT ![t] = 0]
  /\ UNCHANGED <<issued, state>>

Next ==
  \/ \E t \in Threads :
       \/ Begin(t) \/ Issue(t) \/ Finish(t)
       \/ \E reason \in {"timeout", "raised"} : GiveUp(t, reason)
  \/ \E i \in FutureIds, kind \in {"ok", "modified", "error"} : Answer(i, kind)
  \/ \E ended \in SUBSET FutureIds : Terminate(ended)

Spec == Init /\ [][Next]_vars
=============================================================================
