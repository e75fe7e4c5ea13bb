------------------------- MODULE ServerRegistryProofs -------------------------
(***************************************************************************)
(* Theorems about ServerRegistry, for any number of threads, roots and     *)
(* launches: type correctness, who holds the registry lock, and that every *)
(* process whose start did not raise has one owner, from which at most one *)
(* runs per root, all callers get the same one, and the exit leaves none.  *)
(***************************************************************************)
EXTENDS ServerRegistry, FiniteSetTheorems, TLAPS

-----------------------------------------------------------------------------
(* Processes are numbered without gaps, and a thread that has launched one     *)
(* knows it: without that Spawned could watch process 0.                      *)

\* The start of thread t has a process.
InHand(t) == pc[t] \in Starting \ {"launch"}

TypeInv ==
  /\ TypeOK
  /\ IsFiniteSet(Launched)
  /\ \A t \in Threads : InHand(t) => proc[t] # 0

\* 0 stands for no process.
LEMMA NoProcessIsZero == TypeInv => 0 \notin Launched
<1> SUFFICES ASSUME TypeInv PROVE 0 \notin Launched
  OBVIOUS
<1>1. Launched = 1 .. Cardinality(Launched) /\ Cardinality(Launched) \in Nat
  BY FS_CardinalityType DEF TypeInv, TypeOK
<1> QED BY <1>1

\* The first process has number 1, the next one follows the last.
LEMMA NextNumber ==
  ASSUME TypeInv
  PROVE  LET p == Cardinality(Launched) + 1
         IN  /\ p \in Nat \ {0}
             /\ p \notin Launched
             /\ IsFiniteSet(Launched \cup {p})
             /\ Cardinality(Launched \cup {p}) = p
             /\ Launched \cup {p} = 1 .. p
<1> DEFINE n == Cardinality(Launched)
<1>1. n \in Nat
  BY FS_CardinalityType DEF TypeInv
<1>2. Launched = 1 .. n
  BY DEF TypeInv, TypeOK
<1> HIDE DEF n
<1>3. Launched \cup {n + 1} = 1 .. n + 1
  BY <1>1, <1>2
<1>4. IsFiniteSet(1 .. n + 1) /\ Cardinality(1 .. n + 1) = n + 1
  BY <1>1, FS_Interval
<1>5. n + 1 \notin Launched
  BY <1>1, <1>2
<1>6. IsFiniteSet(Launched \cup {n + 1}) /\ Cardinality(Launched \cup {n + 1}) = n + 1
  BY <1>3, <1>4, Zenon
<1>7. n + 1 \in Nat \ {0}
  BY <1>1
<1> QED BY <1>3, <1>5, <1>6, <1>7 DEF n

-----------------------------------------------------------------------------
(* Type correctness.                                                         *)

\* The first state is well typed: no process was launched.
LEMMA TypeInit == Init => TypeInv
<1> SUFFICES ASSUME Init PROVE TypeInv
  OBVIOUS
<1>1. Launched = {}
  BY DEF Init, Launched
<1>2. Cardinality(Launched) = 0 /\ IsFiniteSet(Launched)
  BY <1>1, FS_EmptySet
<1>3. Launched = 1 .. Cardinality(Launched)
  BY <1>1, <1>2
<1>4. rootOf \in [Launched -> Roots]
  BY <1>1 DEF Init
<1> QED BY <1>1, <1>2, <1>3, <1>4 DEF Init, TypeInv, TypeOK, InHand, Starting

\* A launch preserves the types: the new process takes the next number.
LEMMA TypeLaunch ==
  ASSUME TypeInv, NEW t \in Threads, Launch(t), up' = up
  PROVE  TypeInv'
<1> DEFINE p == Cardinality(Launched) + 1
<1>1. rootOf' = [q \in Launched \cup {p} |-> IF q = p THEN want[t] ELSE rootOf[q]]
  BY DEF Launch
<1>2. Launched' = Launched \cup {p}
  BY <1>1 DEF Launched
<1>3. IsFiniteSet(Launched') /\ Launched' = 1 .. Cardinality(Launched') /\ p # 0
  BY <1>2, NextNumber
<1> HIDE DEF p
<1>4. rootOf' \in [Launched' -> Roots]
  BY <1>1, <1>2 DEF TypeInv, TypeOK
<1>5. alive' = alive \cup {p} /\ proc' = [proc EXCEPT ![t] = p]
  BY DEF Launch, p
<1> QED BY <1>2, <1>3, <1>4, <1>5 DEF Launch, TypeInv, TypeOK, InHand, Starting

\* Every step preserves the types.
LEMMA TypeStep == TypeInv /\ [Next]_vars => TypeInv'
<1> SUFFICES ASSUME TypeInv, [Next]_vars PROVE TypeInv'
  OBVIOUS
<1>1. CASE \E t \in Threads : Launch(t) /\ up' = up
  BY <1>1, TypeLaunch
<1> SUFFICES ASSUME ~\E t \in Threads : Launch(t) /\ up' = up PROVE TypeInv'
  BY <1>1
<1>2. rootOf' = rootOf
  BY DEF Next, Runs, ThreadStep, ShutdownStep, ReaderStep, SignalStep, ShutdownBegins, Begin,
         ShutdownLocks, ShutdownEnds, StopServer, ReaderEnds, LookUp, Protect, Spawned,
         LaunchFails, Fail, SendInitialize, Initialized, InitializeRefused, Publish, Register,
         Crash, End, DeathSignal, vars, processVars
<1>3. Launched' = Launched
  BY <1>2 DEF Launched
<1> USE <1>2, <1>3 DEF TypeInv, TypeOK, InHand, Starting
<1>4. CASE ShutdownBegins /\ up' = up
  BY <1>4 DEF ShutdownBegins, processVars, threadVars
<1>5. ASSUME NEW t \in Threads, NEW r \in Roots, Begin(t, r), up' = up PROVE TypeInv'
  BY <1>5 DEF Begin, processVars
<1>6. CASE ShutdownStep
  BY <1>6 DEF ShutdownStep, Runs, ShutdownLocks, ShutdownEnds, StopServer, processVars, threadVars
<1>7. ASSUME NEW p \in Launched, ReaderEnds(p), up' = up PROVE TypeInv'
  BY <1>7 DEF ReaderEnds, Raise
<1>8. ASSUME NEW t \in Threads, ThreadStep(t) PROVE TypeInv'
  <2> USE <1>8 DEF Runs
  <2>1. CASE LookUp(t)
    BY <2>1 DEF ThreadStep, LookUp, processVars
  <2>2. CASE Protect(t)
    BY <2>2 DEF ThreadStep, Protect, threadVars
  <2>3. CASE Spawned(t)
    BY <2>3 DEF ThreadStep, Spawned
  <2>4. CASE LaunchFails(t) \/ InitializeRefused(t)
    BY <2>4 DEF ThreadStep, LaunchFails, InitializeRefused, Fail, Raise
  <2>5. CASE SendInitialize(t) \/ Initialized(t)
    BY <2>5 DEF ThreadStep, SendInitialize, Initialized, processVars
  <2>6. CASE Publish(t)
    BY <2>6 DEF ThreadStep, Publish, Register, processVars
  <2> QED BY <2>1, <2>2, <2>3, <2>4, <2>5, <2>6 DEF ThreadStep
<1>9. ASSUME NEW p \in Launched, Crash(p) \/ DeathSignal(p), up' = up PROVE TypeInv'
  BY <1>9 DEF Crash, DeathSignal, threadVars
<1>10. CASE End
  BY <1>10 DEF End, processVars, threadVars
<1>11. CASE UNCHANGED vars
  BY <1>11 DEF vars
<1> QED BY <1>4, <1>5, <1>6, <1>7, <1>8, <1>9, <1>10, <1>11
      DEF Next, Runs, ReaderStep, SignalStep

\* Every variable keeps its type, and processes are numbered without gaps.
THEOREM TypeCorrect == Spec => []TypeInv
<1> QED BY TypeInit, TypeStep, PTL DEF Spec

\* The type invariant that the run checks.
THEOREM TypesHold == Spec => []TypeOK
<1>1. TypeInv => TypeOK
  BY DEF TypeInv
<1> QED BY <1>1, TypeCorrect, PTL
-----------------------------------------------------------------------------
(* The lock and the owner of every process.                                  *)

\* The lock is held by the thread whose call starts a server, or by the exit handler
\* that stops them, and by nobody else.
LockHeld ==
  /\ \A t \in Threads : pc[t] \in Starting <=> lock = t
  /\ shutdown = "stopping" <=> lock = Main

\* A thread starts a server only for a root that has none, and its process was
\* launched for that root.
StartsOwn ==
  \A t \in Threads :
    /\ pc[t] \in Starting => servers[want[t]] = 0
    /\ InHand(t) => rootOf[proc[t]] = want[t] /\ proc[t] \notin abandoned

\* Outside a start a thread refers to no process before its call has returned one.
NoneYet ==
  \A t \in Threads :
    /\ pc[t] \in {"idle", "acquire", "failed", "launch"} => proc[t] = 0
    /\ pc[t] = "ready" => proc[t] # 0

\* A registered server is the one launched for its root, and its start has not raised.
RegistersOwn ==
  \A r \in Roots : servers[r] # 0 => rootOf[servers[r]] = r /\ servers[r] \notin abandoned

\* A process that runs and whose start has not raised is registered, or in the hands
\* of the thread that starts it.
Owned(p) == \/ \E r \in Roots : servers[r] = p
            \/ \E t \in Threads : InHand(t) /\ proc[t] = p
AllOwned == \A p \in alive \ abandoned : Owned(p)

\* Until the exit handler clears the registry, a call returns the registered server.
GivesRegistered ==
  shutdown # "done" => \A t \in Threads : pc[t] = "ready" => servers[want[t]] = proc[t]

OwnerInv ==
  LockHeld /\ StartsOwn /\ NoneYet /\ RegistersOwn /\ AllOwned /\ GivesRegistered

\* At first there is no process and no call.
LEMMA OwnerInit == Init => OwnerInv
BY ThreadsAssumption
DEF Init, OwnerInv, LockHeld, StartsOwn, NoneYet, RegistersOwn, AllOwned, Owned,
    GivesRegistered, InHand, Starting

\* A raised start leaves no trace but its process, which nothing refers to any more.
LEMMA OwnerRaise ==
  ASSUME TypeInv, OwnerInv, NEW t \in Threads, pc[t] \in Starting, Raise(t),
         alive' \subseteq alive, UNCHANGED <<servers, want, rootOf, shutdown>>
  PROVE  OwnerInv'
<1> USE ThreadsAssumption DEF TypeInv, TypeOK, OwnerInv, InHand, Raise
<1>1. lock = t /\ shutdown # "stopping"
  BY DEF LockHeld
<1>2. LockHeld'
  BY <1>1 DEF LockHeld, Starting
<1>3. \A u \in Threads \ {t} : pc[u] \notin Starting /\ pc'[u] = pc[u] /\ proc'[u] = proc[u]
  BY <1>1 DEF LockHeld
<1>4. pc'[t] = "failed" /\ proc'[t] = 0
  OBVIOUS
<1>5. StartsOwn'
  BY <1>3, <1>4 DEF StartsOwn, Starting
<1>6. NoneYet'
  BY <1>3, <1>4 DEF NoneYet
<1>7. RegistersOwn'
  BY DEF RegistersOwn, StartsOwn, NoneYet, Starting
<1>8. AllOwned'
  <2> SUFFICES ASSUME NEW p \in (alive \ abandoned)' PROVE Owned(p)'
    BY DEF AllOwned
  <2>1. p \in alive \ abandoned /\ p # proc[t]
    BY NoProcessIsZero
  <2>2. Owned(p)
    BY <2>1 DEF AllOwned
  <2> QED BY <2>1, <2>2, <1>3 DEF Owned
<1>9. GivesRegistered'
  BY <1>3, <1>4 DEF GivesRegistered
<1> QED BY <1>2, <1>5, <1>6, <1>7, <1>8, <1>9

\* A step that takes no lock and starts, registers and gives up nothing keeps the
\* owners, whatever processes die in it.
LEMMA OwnerFrame ==
  ASSUME TypeInv, OwnerInv, alive' \subseteq alive,
         UNCHANGED <<lock, servers, rootOf, abandoned, pc, want, proc>>,
         shutdown' = "stopping" <=> shutdown = "stopping",
         shutdown' # "done" => shutdown # "done"
  PROVE  OwnerInv'
BY DEF OwnerInv, LockHeld, StartsOwn, NoneYet, RegistersOwn, AllOwned, Owned,
       GivesRegistered, InHand

\* A step in the middle of a start keeps the process in hand.
LEMMA OwnerAdvance ==
  ASSUME TypeInv, OwnerInv, NEW t \in Threads, InHand(t), NEW to \in Starting \ {"launch"},
         pc' = [pc EXCEPT ![t] = to],
         UNCHANGED <<lock, servers, rootOf, alive, abandoned, want, proc, shutdown>>
  PROVE  OwnerInv'
<1> USE DEF TypeInv, TypeOK, OwnerInv
<1>1. /\ pc[t] \in Starting /\ pc'[t] \in Starting \ {"launch"}
      /\ \A u \in Threads \ {t} : pc'[u] = pc[u]
  BY DEF InHand
<1>2. LockHeld'
  BY <1>1 DEF LockHeld
<1>3. StartsOwn'
  BY <1>1 DEF StartsOwn, InHand
<1>4. NoneYet'
  BY <1>1 DEF NoneYet, Starting
<1>5. RegistersOwn'
  BY DEF RegistersOwn
<1>6. AllOwned'
  BY <1>1 DEF AllOwned, Owned, InHand
<1>7. GivesRegistered'
  BY <1>1 DEF GivesRegistered, Starting
<1> QED BY <1>2, <1>3, <1>4, <1>5, <1>6, <1>7

\* A call looks its root up: it gets the registered server, or the lock and the right
\* to start one.
LEMMA OwnerLookUp ==
  ASSUME TypeInv, OwnerInv, NEW t \in Threads, LookUp(t)
  PROVE  OwnerInv'
<1> USE ThreadsAssumption DEF TypeInv, TypeOK, OwnerInv
<1>0. /\ pc[t] = "acquire" /\ lock = Nobody /\ proc[t] = 0
      /\ UNCHANGED <<servers, want, rootOf, alive, abandoned, shutdown>>
      /\ \A u \in Threads : pc[u] \notin Starting
  BY DEF LookUp, processVars, NoneYet, LockHeld
<1>1. /\ \A u \in Threads \ {t} : pc'[u] = pc[u] /\ proc'[u] = proc[u]
      /\ \/ pc'[t] = "ready" /\ servers[want[t]] # 0 /\ proc'[t] = servers[want[t]]
            /\ lock' = lock
         \/ pc'[t] = "launch" /\ servers[want[t]] = 0 /\ proc'[t] = proc[t] /\ lock' = t
  BY DEF LookUp
<1>2. LockHeld'
  BY <1>0, <1>1 DEF LockHeld, Starting
<1>3. StartsOwn'
  BY <1>0, <1>1 DEF StartsOwn, InHand, Starting
<1>4. NoneYet'
  BY <1>0, <1>1 DEF NoneYet
<1>5. RegistersOwn'
  BY <1>0 DEF RegistersOwn
<1>6. AllOwned'
  BY <1>0, <1>1 DEF AllOwned, Owned, InHand
<1>7. GivesRegistered'
  BY <1>0, <1>1 DEF GivesRegistered
<1> QED BY <1>2, <1>3, <1>4, <1>5, <1>6, <1>7

\* A launched process is in the hands of the thread that holds the lock.
LEMMA OwnerLaunch ==
  ASSUME TypeInv, OwnerInv, NEW t \in Threads, Launch(t)
  PROVE  OwnerInv'
<1> USE ThreadsAssumption DEF OwnerInv
<1> DEFINE p == Cardinality(Launched) + 1
<1>0. /\ pc[t] = "launch" /\ pc' = [pc EXCEPT ![t] = "spawn"]
      /\ proc' = [proc EXCEPT ![t] = p] /\ alive' = alive \cup {p}
      /\ rootOf' = [q \in Launched \cup {p} |-> IF q = p THEN want[t] ELSE rootOf[q]]
      /\ UNCHANGED <<lock, servers, want, abandoned, shutdown>>
  BY DEF Launch
<1>1. p \notin Launched /\ p # 0
  BY NextNumber
<1> HIDE DEF p
<1> USE DEF TypeInv, TypeOK
<1>2. /\ pc'[t] = "spawn" /\ proc'[t] = p /\ rootOf'[p] = want[t] /\ p \notin abandoned
      /\ \A u \in Threads \ {t} : pc'[u] = pc[u] /\ proc'[u] = proc[u]
      /\ \A q \in Launched : rootOf'[q] = rootOf[q]
  BY <1>0, <1>1
<1>3. LockHeld'
  BY <1>0, <1>2 DEF LockHeld, Starting
<1>4. StartsOwn'
  <2> SUFFICES ASSUME NEW u \in Threads
               PROVE  /\ pc'[u] \in Starting => servers[want[u]] = 0
                      /\ InHand(u)' => rootOf'[proc'[u]] = want[u] /\ proc'[u] \notin abandoned
    BY <1>0 DEF StartsOwn
  <2>1. CASE u = t
    BY <2>1, <1>0, <1>2 DEF StartsOwn, Starting
  <2>2. CASE u # t
    BY <2>2, <1>2 DEF StartsOwn, InHand
  <2> QED BY <2>1, <2>2
<1>5. NoneYet'
  BY <1>1, <1>2 DEF NoneYet
<1>6. RegistersOwn'
  BY <1>0, <1>2 DEF RegistersOwn
<1>7. AllOwned'
  <2> SUFFICES ASSUME NEW q \in (alive \ abandoned)' PROVE Owned(q)'
    BY DEF AllOwned
  <2>1. CASE q = p
    BY <2>1, <1>2 DEF Owned, InHand, Starting
  <2>2. CASE q # p
    <3>1. Owned(q)
      BY <2>2, <1>0 DEF AllOwned
    <3> QED BY <3>1, <1>0, <1>2 DEF Owned, InHand
  <2> QED BY <2>1, <2>2
<1>8. GivesRegistered'
  BY <1>0, <1>2 DEF GivesRegistered
<1> QED BY <1>3, <1>4, <1>5, <1>6, <1>7, <1>8

\* The started server passes from its thread to the registry.
LEMMA OwnerPublish ==
  ASSUME TypeInv, OwnerInv, NEW t \in Threads, Publish(t)
  PROVE  OwnerInv'
<1> USE ThreadsAssumption DEF TypeInv, TypeOK, OwnerInv
<1>0. /\ pc[t] = "analysis" /\ pc' = [pc EXCEPT ![t] = "ready"] /\ lock' = Nobody
      /\ servers' = [servers EXCEPT ![want[t]] = proc[t]]
      /\ UNCHANGED <<want, proc, rootOf, alive, abandoned, shutdown>>
  BY DEF Publish, Register, processVars
<1>1. /\ lock = t /\ InHand(t) /\ servers[want[t]] = 0 /\ proc[t] # 0
      /\ \A u \in Threads \ {t} : pc[u] \notin Starting
  BY <1>0 DEF LockHeld, InHand, Starting, StartsOwn
<1>2. /\ pc'[t] = "ready" /\ servers'[want[t]] = proc[t]
      /\ \A u \in Threads \ {t} : pc'[u] = pc[u]
      /\ \A r \in Roots \ {want[t]} : servers'[r] = servers[r]
  BY <1>0
<1>3. LockHeld'
  BY <1>0, <1>1, <1>2 DEF LockHeld, Starting
<1>4. StartsOwn'
  BY <1>0, <1>1, <1>2 DEF StartsOwn, InHand, Starting
<1>5. NoneYet'
  BY <1>0, <1>1, <1>2 DEF NoneYet
<1>6. RegistersOwn'
  BY <1>0, <1>1, <1>2 DEF RegistersOwn, StartsOwn
<1>7. AllOwned'
  <2> SUFFICES ASSUME NEW q \in alive \ abandoned PROVE Owned(q)'
    BY <1>0 DEF AllOwned
  <2>1. Owned(q)
    BY DEF AllOwned
  <2>2. ASSUME NEW r \in Roots, servers[r] = q PROVE servers'[r] = q
    <3>1. q # 0
      BY NoProcessIsZero
    <3> QED BY <2>2, <3>1, <1>1, <1>2
  <2>3. ASSUME NEW u \in Threads, InHand(u), proc[u] = q PROVE servers'[want[t]] = q
    BY <2>3, <1>1, <1>2 DEF InHand
  <2> QED BY <2>1, <2>2, <2>3 DEF Owned
<1>8. GivesRegistered'
  BY <1>0, <1>1, <1>2 DEF GivesRegistered, NoneYet
<1> QED BY <1>3, <1>4, <1>5, <1>6, <1>7, <1>8

\* Every step keeps the owners.
LEMMA OwnerStep == TypeInv /\ OwnerInv /\ [Next]_vars => OwnerInv'
<1> SUFFICES ASSUME TypeInv, OwnerInv, [Next]_vars PROVE OwnerInv'
  OBVIOUS
<1>1. CASE ShutdownBegins
  BY <1>1, OwnerFrame DEF ShutdownBegins, processVars, threadVars
<1>2. ASSUME NEW t \in Threads, NEW r \in Roots, Begin(t, r) PROVE OwnerInv'
  <2>1. /\ pc[t] \notin Starting /\ pc'[t] = "acquire" /\ proc'[t] = 0
        /\ \A u \in Threads \ {t} : pc'[u] = pc[u] /\ proc'[u] = proc[u] /\ want'[u] = want[u]
        /\ UNCHANGED <<lock, servers, rootOf, alive, abandoned, shutdown>>
    BY <1>2 DEF Begin, Starting, processVars, TypeInv, TypeOK
  <2> QED
    BY <2>1 DEF OwnerInv, LockHeld, StartsOwn, NoneYet, RegistersOwn, AllOwned, Owned,
                GivesRegistered, InHand, Starting
<1>3. CASE ShutdownStep
  <2>1. CASE ShutdownLocks
    BY <2>1, ThreadsAssumption
    DEF ShutdownLocks, processVars, threadVars, OwnerInv, LockHeld, StartsOwn, NoneYet,
        RegistersOwn, AllOwned, Owned, GivesRegistered, InHand
  <2>2. ASSUME NEW r \in Roots, StopServer(r) PROVE OwnerInv'
    BY <2>2, OwnerFrame DEF StopServer, threadVars
  <2>3. CASE ShutdownEnds
    <3>1. /\ lock = Main /\ \A t \in Threads : pc[t] \notin Starting
          /\ \A r \in Roots : servers[r] \notin alive
          /\ servers' = [r \in Roots |-> 0] /\ lock' = Nobody /\ shutdown' = "done"
          /\ UNCHANGED <<pc, want, proc, rootOf, alive, abandoned>>
      BY <2>3, ThreadsAssumption
      DEF ShutdownEnds, OwnerInv, LockHeld, processVars, threadVars
    <3>2. alive \ abandoned = {}
      BY <3>1 DEF OwnerInv, AllOwned, Owned, InHand
    <3> QED
      BY <3>1, <3>2, ThreadsAssumption
      DEF OwnerInv, LockHeld, StartsOwn, NoneYet, RegistersOwn, AllOwned, GivesRegistered,
          InHand
  <2> QED BY <1>3, <2>1, <2>2, <2>3 DEF ShutdownStep
<1>4. ASSUME NEW p \in Launched, ReaderEnds(p) PROVE OwnerInv'
  <2>1. ASSUME NEW t \in Threads, pc[t] = "initialize", Raise(t) PROVE OwnerInv'
    BY <1>4, <2>1, OwnerRaise DEF ReaderEnds, Starting
  <2>2. CASE UNCHANGED <<pc, proc, lock, abandoned>>
    BY <1>4, <2>2, OwnerFrame DEF ReaderEnds
  <2> QED BY <1>4, <2>1, <2>2 DEF ReaderEnds
<1>5. ASSUME NEW t \in Threads, ThreadStep(t) PROVE OwnerInv'
  <2>1. CASE LookUp(t)
    BY <2>1, OwnerLookUp
  <2>2. CASE Launch(t)
    BY <2>2, OwnerLaunch
  <2>3. CASE Protect(t)
    BY <2>3, OwnerFrame DEF Protect, threadVars
  <2>4. CASE Spawned(t)
    BY <2>4, OwnerAdvance DEF Spawned, InHand, Starting
  <2>5. CASE LaunchFails(t) \/ InitializeRefused(t)
    BY <2>5, OwnerRaise DEF LaunchFails, InitializeRefused, Fail, Starting
  <2>6. CASE SendInitialize(t) \/ Initialized(t)
    BY <2>6, OwnerAdvance DEF SendInitialize, Initialized, InHand, Starting, processVars
  <2>7. CASE Publish(t)
    BY <2>7, OwnerPublish
  <2> QED BY <1>5, <2>1, <2>2, <2>3, <2>4, <2>5, <2>6, <2>7 DEF ThreadStep
<1>6. ASSUME NEW p \in Launched, Crash(p) \/ DeathSignal(p) PROVE OwnerInv'
  BY <1>6, OwnerFrame DEF Crash, DeathSignal, threadVars
<1>7. CASE End
  BY <1>7, OwnerFrame DEF End, processVars, threadVars
<1>8. CASE UNCHANGED vars
  BY <1>8, OwnerFrame DEF vars
<1> QED BY <1>1, <1>2, <1>3, <1>4, <1>5, <1>6, <1>7, <1>8
      DEF Next, ReaderStep, SignalStep

\* The lock has one holder, and every process whose start did not raise one owner.
THEOREM Ownership == Spec => [](TypeInv /\ OwnerInv)
<1>1. Init => TypeInv /\ OwnerInv
  BY TypeInit, OwnerInit
<1>2. (TypeInv /\ OwnerInv) /\ [Next]_vars => (TypeInv /\ OwnerInv)'
  BY TypeStep, OwnerStep
<1> QED BY <1>1, <1>2, PTL DEF Spec

-----------------------------------------------------------------------------
(* What the owners are for.                                                  *)

\* A process that runs and has an owner is the one its root's registration, or the
\* one start under way, stands for.
LEMMA OwnersDiffer ==
  ASSUME TypeInv, OwnerInv, NEW p \in alive \ abandoned, NEW q \in alive \ abandoned,
         rootOf[p] = rootOf[q]
  PROVE  p = q
<1> USE DEF TypeInv, TypeOK, OwnerInv
<1>1. p # 0 /\ q # 0
  BY NoProcessIsZero
<1>2. Owned(p) /\ Owned(q)
  BY DEF AllOwned
<1>3. \A r \in Roots, t \in Threads : InHand(t) => servers[r] \notin {p, q} \/ r # want[t]
  BY <1>1 DEF StartsOwn, InHand
<1>4. \A t, u \in Threads : InHand(t) /\ InHand(u) => t = u
  BY DEF LockHeld, InHand
<1> QED BY <1>1, <1>2, <1>3, <1>4 DEF Owned, RegistersOwn, StartsOwn

\* Whatever threads ask for a root, crash or fail to start its server or shut it down,
\* two processes of a root run only if the start of one of them raised (_get_server
\* under _servers_lock, and shutdown_all_servers).
THEOREM OneStarted == Spec => []OneStartedPerRoot
<1>1. TypeInv /\ OwnerInv => OneStartedPerRoot
  BY OwnersDiffer DEF OneStartedPerRoot
<1> QED BY <1>1, Ownership, PTL

\* Until the exit, all calls for a root are given the same server.
THEOREM Same == Spec => []SameServer
<1>1. TypeInv /\ OwnerInv => SameServer
  BY DEF SameServer, OwnerInv, GivesRegistered
<1> QED BY <1>1, Ownership, PTL

\* When the exit handler has stopped the servers, only a process with an owner still
\* runs, or one whose start raised.
THEOREM ShutdownStops == Spec => []ShutdownStopsStarted
<1>1. TypeInv /\ OwnerInv => ShutdownStopsStarted
  BY DEF ShutdownStopsStarted, OwnerInv, AllOwned, Owned, InHand
<1> QED BY <1>1, Ownership, PTL

\* No two threads are between the lookup of a root and the registration of its server,
\* and none is while the exit handler stops the servers.
THEOREM OneStarts ==
  Spec => [](\A t \in Threads : pc[t] \in Starting =>
               /\ \A u \in Threads : pc[u] \in Starting => u = t
               /\ shutdown # "stopping")
<1>1. TypeInv /\ OwnerInv =>
        \A t \in Threads : pc[t] \in Starting =>
          /\ \A u \in Threads : pc[u] \in Starting => u = t
          /\ shutdown # "stopping"
  BY ThreadsAssumption DEF OwnerInv, LockHeld
<1> QED BY <1>1, Ownership, PTL
===============================================================================
