---------------------------- MODULE ServerRegistry ----------------------------
(***************************************************************************)
(* The registry of language servers (semantic_tools.py): _get_server       *)
(* starts at most one server per project root under _servers_lock, which   *)
(* it holds from the lookup until Pyright is initialised and its first     *)
(* analysis waited for; shutdown_all_servers stops the registered servers  *)
(* at exit.  The launcher (subprocess_util.py) forks every process on a    *)
(* thread that lives as long as the program, and has the kernel end it     *)
(* when that thread does.                                                  *)
(*                                                                         *)
(* Processes are numbered in the order they are launched.  The request     *)
(* machinery under initialize is LspRequests; what matters of it here is   *)
(* that a request registered before the reader thread has seen the process *)
(* die is cancelled, and one registered later waits for ever.              *)
(***************************************************************************)
EXTENDS Integers, FiniteSets

CONSTANTS Threads,     \* threads that run semantic tools
          Main,        \* the main thread, which runs the exit handler
          Nobody,      \* no thread
          Roots,       \* project roots
          MayCrash,    \* a server process may die by itself
          MayRefuse,   \* initialize may fail: an error, or a capability is missing
          MayShutdown, \* the program exits
          MayKill,     \* the program is killed, with no chance to clean up
          MaxLaunches  \* bound: processes launched in a behaviour

ASSUME ThreadsAssumption ==
  Main \notin Threads /\ Nobody \notin Threads \cup {Main}
ASSUME SwitchesAssumption == {MayCrash, MayRefuse, MayShutdown, MayKill} \subseteq BOOLEAN
ASSUME BoundAssumption == MaxLaunches \in Nat

VARIABLES
  lock,       \* holder of _servers_lock, or Nobody
  servers,    \* _servers: root -> process of its registered server, 0 if none
  up,         \* the program runs
  rootOf,     \* process -> root it was launched for
  alive,      \* processes that run
  guarded,    \* processes that have asked the kernel to end them with the program
  watched,    \* processes whose reader thread still reads
  abandoned,  \* processes whose start() raised: nothing refers to them any more
  pc,         \* thread -> where in _get_server it is
  want,       \* thread -> project root of its call
  proc,       \* thread -> the process it starts or was given, 0 if none
  shutdown    \* where shutdown_all_servers is

vars == <<lock, servers, up, rootOf, alive, guarded, watched, abandoned, pc, want, proc, shutdown>>
threadVars == <<pc, want, proc>>
processVars == <<rootOf, alive, guarded, watched, abandoned>>

-----------------------------------------------------------------------------
Launched == DOMAIN rootOf
Starting == {"launch", "spawn", "connect", "initialize", "analysis"}

Init ==
  /\ lock = Nobody /\ up = TRUE
  /\ servers = [r \in Roots |-> 0]
  /\ rootOf = [p \in {} |-> 0] /\ alive = {} /\ guarded = {}
  /\ watched = {} /\ abandoned = {}
  /\ pc = [t \in Threads |-> "idle"]
  /\ want \in [Threads -> Roots]
  /\ proc = [t \in Threads |-> 0]
  /\ shutdown = "off"

-----------------------------------------------------------------------------
(* _get_server                                                               *)

\* A tool call begins, for any root.
Begin(t, r) ==
  /\ pc[t] \in {"idle", "ready", "failed"}
  /\ pc' = [pc EXCEPT ![t] = "acquire"]
  /\ want' = [want EXCEPT ![t] = r]
  /\ proc' = [proc EXCEPT ![t] = 0]
  /\ UNCHANGED <<lock, servers, processVars, shutdown>>

\* Faulty variant: the registry is read before the lock is taken, and a miss is
\* believed once it is.
LookUpUnlocked(t) ==
  /\ pc[t] = "acquire"
  /\ IF servers[want[t]] # 0
       THEN /\ pc' = [pc EXCEPT ![t] = "ready"]
            /\ proc' = [proc EXCEPT ![t] = servers[want[t]]]
       ELSE /\ pc' = [pc EXCEPT ![t] = "launch"]
            /\ UNCHANGED proc
  /\ UNCHANGED <<lock, servers, want, processVars, shutdown>>

\* The lock is taken and the registry read: a registered server is returned at once,
\* whether or not its process still runs.
LookUp(t) ==
  /\ pc[t] = "acquire" /\ lock = Nobody
  /\ IF servers[want[t]] # 0
       THEN /\ pc' = [pc EXCEPT ![t] = "ready"]
            /\ proc' = [proc EXCEPT ![t] = servers[want[t]]]
            /\ UNCHANGED lock
       ELSE /\ pc' = [pc EXCEPT ![t] = "launch"]
            /\ lock' = t
            /\ UNCHANGED proc
  /\ UNCHANGED <<servers, want, processVars, shutdown>>

\* Faulty variant: the process runs but nothing keeps its root.
LaunchUntracked(t) ==
  /\ pc[t] = "launch" /\ Cardinality(Launched) < MaxLaunches
  /\ alive' = alive \cup {Cardinality(Launched) + 1}
  /\ pc' = [pc EXCEPT ![t] = "spawn"]
  /\ UNCHANGED <<lock, servers, want, proc, rootOf, guarded, watched, abandoned, shutdown>>

\* create and StdioLanguageServer._start: the launcher's spawner thread forks, and the
\* caller waits for it.
Launch(t) ==
  /\ pc[t] = "launch" /\ Cardinality(Launched) < MaxLaunches
  /\ LET p == Cardinality(Launched) + 1
     IN  /\ rootOf' = [q \in Launched \cup {p} |-> IF q = p THEN want[t] ELSE rootOf[q]]
         /\ alive' = alive \cup {p}
         /\ proc' = [proc EXCEPT ![t] = p]
  /\ pc' = [pc EXCEPT ![t] = "spawn"]
  /\ UNCHANGED <<lock, servers, want, guarded, watched, abandoned, shutdown>>

\* The child asks for the signal, before it becomes the server.  Once the program is
\* gone that is too late: no signal comes.
Protect(t) ==
  /\ pc[t] = "spawn" /\ proc[t] \in alive \ guarded
  /\ guarded' = guarded \cup {proc[t]}
  /\ UNCHANGED <<lock, servers, threadVars, rootOf, alive, watched, abandoned, shutdown>>

\* Faulty variant: the fork is not waited for.
SpawnedEarly(t) ==
  /\ pc[t] = "spawn"
  /\ watched' = watched \cup {proc[t]}
  /\ pc' = [pc EXCEPT ![t] = "connect"]
  /\ UNCHANGED <<lock, servers, want, proc, rootOf, alive, guarded, abandoned, shutdown>>

\* Popen returns to the caller when the child has become the server, or has died; the
\* reader threads start.
Spawned(t) ==
  /\ pc[t] = "spawn" /\ (proc[t] \in guarded \/ proc[t] \notin alive)
  /\ watched' = watched \cup {proc[t]}
  /\ pc' = [pc EXCEPT ![t] = "connect"]
  /\ UNCHANGED <<lock, servers, want, proc, rootOf, alive, guarded, abandoned, shutdown>>

\* start() raises: the with statement releases the lock, and nothing is registered
\* or stopped.
Raise(t) ==
  /\ pc' = [pc EXCEPT ![t] = "failed"]
  /\ abandoned' = abandoned \cup ({proc[t]} \ {0})
  /\ proc' = [proc EXCEPT ![t] = 0]
  /\ lock' = Nobody
Fail(t) == Raise(t) /\ UNCHANGED <<servers, want, rootOf, alive, guarded, watched, shutdown>>

\* create or Popen raises before there is a process.
LaunchFails(t) == pc[t] = "launch" /\ Fail(t)

\* The initialize request is registered and sent.
SendInitialize(t) ==
  /\ pc[t] = "connect"
  /\ pc' = [pc EXCEPT ![t] = "initialize"]
  /\ UNCHANGED <<lock, servers, want, proc, processVars, shutdown>>

\* The server answers and has the capabilities that are asserted.
Initialized(t) ==
  /\ pc[t] = "initialize" /\ proc[t] \in alive \cap watched
  /\ pc' = [pc EXCEPT ![t] = "analysis"]
  /\ UNCHANGED <<lock, servers, want, proc, processVars, shutdown>>

\* The server answers with an error, or an assertion on its capabilities fails.
InitializeRefused(t) ==
  /\ MayRefuse
  /\ pc[t] = "initialize" /\ proc[t] \in alive \cap watched
  /\ Fail(t)

\* The server is put in _servers and the with statement releases the lock.
Register(t) ==
  /\ servers' = [servers EXCEPT ![want[t]] = proc[t]]
  /\ pc' = [pc EXCEPT ![t] = "ready"]
  /\ lock' = Nobody
  /\ UNCHANGED <<want, proc, processVars, shutdown>>

\* Faulty variant: the lock is not released after the registration.
PublishKeepingLock(t) ==
  /\ pc[t] = "analysis"
  /\ servers' = [servers EXCEPT ![want[t]] = proc[t]]
  /\ pc' = [pc EXCEPT ![t] = "ready"]
  /\ UNCHANGED <<lock, want, proc, processVars, shutdown>>

\* The analysis has ended or its 60 seconds have passed, the server alive or not:
\* start() returns and the server is registered.
Publish(t) ==
  /\ pc[t] = "analysis"
  /\ Register(t)

-----------------------------------------------------------------------------
(* The server processes (external) and their reader threads.                 *)

Crash(p) ==
  /\ MayCrash /\ p \in alive
  /\ alive' = alive \ {p}
  /\ UNCHANGED <<lock, servers, rootOf, guarded, watched, abandoned, threadVars, shutdown>>

\* The reader thread of a dead process ends and cancels the pending requests: an
\* initialize in flight raises; one that comes later is never answered.
ReaderEnds(p) ==
  /\ p \in watched \ alive
  /\ watched' = watched \ {p}
  /\ \/ \E t \in Threads : pc[t] = "initialize" /\ proc[t] = p /\ Raise(t)
     \/ /\ ~\E t \in Threads : pc[t] = "initialize" /\ proc[t] = p
        /\ UNCHANGED <<pc, proc, lock, abandoned>>
  /\ UNCHANGED <<servers, rootOf, alive, guarded, want, shutdown>>

-----------------------------------------------------------------------------
(* shutdown_all_servers                                                      *)

ShutdownBegins ==
  /\ MayShutdown /\ shutdown = "off"
  /\ shutdown' = "acquire"
  /\ UNCHANGED <<lock, servers, processVars, threadVars>>

ShutdownLocks ==
  /\ shutdown = "acquire" /\ lock = Nobody
  /\ lock' = Main
  /\ shutdown' = "stopping"
  /\ UNCHANGED <<servers, processVars, threadVars>>

\* srv.stop() for one registered server: whatever happens in it, its process is
\* gone when it returns.
StopServer(r) ==
  /\ shutdown = "stopping" /\ servers[r] \in alive
  /\ alive' = alive \ {servers[r]}
  /\ UNCHANGED <<lock, servers, rootOf, guarded, watched, abandoned, threadVars, shutdown>>

\* Faulty variant: an exception in one stop() ends the loop over the servers.
ShutdownEndsEarly ==
  /\ shutdown = "stopping"
  /\ servers' = [r \in Roots |-> 0]
  /\ lock' = Nobody
  /\ shutdown' = "done"
  /\ UNCHANGED <<processVars, threadVars>>

\* All registered servers are stopped: the registry is cleared, the lock released.
ShutdownEnds ==
  /\ shutdown = "stopping" /\ \A r \in Roots : servers[r] \notin alive
  /\ servers' = [r \in Roots |-> 0]
  /\ lock' = Nobody
  /\ shutdown' = "done"
  /\ UNCHANGED <<processVars, threadVars>>

-----------------------------------------------------------------------------
(* The end of the program.                                                   *)

\* The exit handler has returned, or the program is killed.  Its threads stop where
\* they are.
End ==
  /\ shutdown = "done" \/ MayKill
  /\ up' = FALSE
  /\ UNCHANGED <<lock, servers, processVars, threadVars, shutdown>>

\* The kernel sends the signal that the process has asked for, which ends it.
DeathSignal(p) ==
  /\ p \in alive \cap guarded
  /\ alive' = alive \ {p}
  /\ UNCHANGED <<lock, servers, rootOf, guarded, watched, abandoned, threadVars, shutdown>>

-----------------------------------------------------------------------------
\* A step of the program's own.
Runs == up /\ UNCHANGED up

ThreadStep(t) ==
  /\ Runs
  /\ \/ LookUp(t) \/ Launch(t) \/ Protect(t) \/ Spawned(t) \/ LaunchFails(t)
     \/ SendInitialize(t) \/ Initialized(t) \/ InitializeRefused(t) \/ Publish(t)

ShutdownStep ==
  /\ Runs
  /\ \/ ShutdownLocks \/ ShutdownEnds
     \/ \E r \in Roots : StopServer(r)

ReaderStep == Runs /\ \E p \in Launched : ReaderEnds(p)

SignalStep == ~up /\ UNCHANGED up /\ \E p \in Launched : DeathSignal(p)

Next ==
  \/ Runs /\ (ShutdownBegins \/ \E t \in Threads, r \in Roots : Begin(t, r))
  \/ ShutdownStep \/ ReaderStep
  \/ \E t \in Threads : ThreadStep(t)
  \/ UNCHANGED up /\ \E p \in Launched : Crash(p)
  \/ up /\ End
  \/ SignalStep

Spec == Init /\ [][Next]_vars

\* Every thread that can go on does; a server that lives answers initialize; the
\* kernel delivers its signals.
FairSpec ==
  /\ Spec
  /\ \A t \in Threads : WF_vars(ThreadStep(t))
  /\ WF_vars(ShutdownStep)
  /\ WF_vars(ReaderStep)
  /\ WF_vars(SignalStep)

-----------------------------------------------------------------------------
(* Properties.                                                               *)

\* Every variable has its type.
TypeOK ==
  /\ lock \in Threads \cup {Main, Nobody}
  /\ Launched = 1 .. Cardinality(Launched)
  /\ servers \in [Roots -> Launched \cup {0}]
  /\ up \in BOOLEAN
  /\ rootOf \in [Launched -> Roots]
  /\ alive \cup guarded \cup watched \cup abandoned \subseteq Launched
  /\ pc \in [Threads -> {"idle", "acquire", "ready", "failed"} \cup Starting]
  /\ want \in [Threads -> Roots]
  /\ proc \in [Threads -> Launched \cup {0}]
  /\ shutdown \in {"off", "acquire", "stopping", "done"}

\* One language server process runs per project root.
OneProcessPerRoot ==
  \A p, q \in alive : rootOf[p] = rootOf[q] => p = q

\* Whatever threads ask for a root, crash or fail to start its server or shut it down,
\* two processes of a root run only if the start of one of them raised.
OneStartedPerRoot ==
  \A p, q \in alive \ abandoned : rootOf[p] = rootOf[q] => p = q

\* Until the exit, all calls for a root are given the same server.
SameServer ==
  shutdown = "off" =>
    \A t, u \in Threads :
      (pc[t] = "ready" /\ pc[u] = "ready" /\ want[t] = want[u]) => proc[t] = proc[u]

\* When the exit handler has stopped the servers, every process still running was
\* launched for a call that was waiting for the lock, so that it belongs to a thread
\* that starts it or to the registry, or its start raised.
ShutdownStopsStarted ==
  shutdown = "done" =>
    \A p \in alive \ abandoned :
      \/ \E r \in Roots : servers[r] = p
      \/ \E t \in Threads : pc[t] \in Starting /\ proc[t] = p

\* The thread waits for an initialize that it sent after its server's reader thread
\* had ended.
Unheard(t) == pc[t] = "initialize" /\ proc[t] \notin watched

\* While the program runs the registry lock is never kept for ever, whatever crashes
\* or is refused, but for an initialize that nobody will answer.
LockIsReleased ==
  lock # Nobody ~> (lock = Nobody \/ ~up \/ \E t \in Threads : Unheard(t))

\* However the program ends, every process that it has launched ends after it, a start
\* that raised and a call in the middle of its start included; only one that was being
\* forked when it ended may be left.
NothingOutlives ==
  ~up ~> \A p \in alive : \E t \in Threads : pc[t] = "spawn" /\ proc[t] = p
=============================================================================
