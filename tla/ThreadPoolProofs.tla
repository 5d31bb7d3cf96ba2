-------------------------- MODULE ThreadPoolProofs --------------------------
(* What TLAPS proves of ThreadPool, for every number of threads, clients    *)
(* and tasks, every priority function and every pair of limits.             *)
EXTENDS ThreadPool, FiniteSetTheorems, TLAPS

USE DEF poolVars, clientVars, Awake, Stopping

-----------------------------------------------------------------------------
(* Every step of the pool keeps the type of every variable.                 *)
LEMMA TypeStep == TypeOK /\ [Next]_vars => TypeOK'
<1> SUFFICES ASSUME TypeOK, [Next]_vars PROVE TypeOK'
  OBVIOUS
<1> USE DEF TypeOK
<1>1. CASE Construct
  BY <1>1 DEF Construct, add_thread
<1>2. ASSUME NEW c \in Clients, ClientCall(c) PROVE TypeOK'
  <2>1. ASSUME NEW t \in Tasks, SubmitRejected(c, t) PROVE TypeOK'
    BY <2>1 DEF SubmitRejected
  <2>2. ASSUME NEW t \in Tasks, SubmitQueued(c, t) PROVE TypeOK'
    BY <2>2 DEF SubmitQueued, Push
  <2>3. ASSUME NEW t \in Tasks, SubmitGrows(c, t) PROVE TypeOK'
    BY <2>3 DEF SubmitGrows, Push, add_thread
  <2>4. ASSUME NEW t \in Tasks, SubmitSpawnFails(c, t) PROVE TypeOK'
    BY <2>4 DEF SubmitSpawnFails, Push
  <2>5. CASE WaitAndStop(c)
    BY <2>5 DEF WaitAndStop, Close
  <2>6. CASE StopImmediately(c)
    BY <2>6 DEF StopImmediately, Close, Discard
  <2>7. ASSUME NEW how \in {"drain", "discard"}, StopReturnsEarly(c, how)
        PROVE  TypeOK'
    BY <2>7 DEF StopReturnsEarly
  <2> QED BY <1>2, <2>1, <2>2, <2>3, <2>4, <2>5, <2>6, <2>7 DEF ClientCall
<1>3. ASSUME NEW c \in Clients, ClientStep(c) PROVE TypeOK'
  <2>1. CASE notify_one(c)
    BY <2>1 DEF notify_one, Waiting
  <2>2. CASE notify_all(c)
    BY <2>2 DEF notify_all, Waiting
  <2>3. CASE SwapWorkers(c)
    BY <2>3 DEF SwapWorkers
  <2>4. CASE StopReturns(c)
    BY <2>4 DEF StopReturns
  <2>5. ASSUME NEW w \in Workers, Join(c, w) PROVE TypeOK'
    BY <2>5 DEF Join
  <2> QED BY <1>3, <2>1, <2>2, <2>3, <2>4, <2>5 DEF ClientStep
<1>4. CASE DestroyRunning
  BY <1>4, OwnerAssumption DEF DestroyRunning, Close, Discard
<1>5. CASE DestroyStopped
  BY <1>5 DEF DestroyStopped
<1>6. ASSUME NEW w \in Workers, WorkerStep(w) PROVE TypeOK'
  <2>1. CASE TakeTask(w)
    BY <2>1 DEF TakeTask
  <2>2. CASE Exit(w)
    BY <2>2 DEF Exit
  <2>3. CASE Wait(w)
    BY <2>3 DEF Wait
  <2>4. CASE Shrink(w)
    BY <2>4 DEF Shrink
  <2>5. CASE StayCore(w)
    BY <2>5 DEF StayCore
  <2>6. CASE FinishTask(w)
    BY <2>6 DEF FinishTask
  <2> HIDE DEF TypeOK
  <2> QED BY <1>6, <2>1, <2>2, <2>3, <2>4, <2>5, <2>6 DEF WorkerStep
<1>7. ASSUME NEW w \in Workers, Timeout(w) \/ SpuriousWake(w) PROVE TypeOK'
  <2>1. PICK to \in {"expired", "woken"} : LeaveWait(w, to)
    BY <1>7 DEF Timeout, SpuriousWake
  <2> QED BY <2>1 DEF LeaveWait
<1>8. CASE UNCHANGED vars
  BY <1>8 DEF vars
<1>9. CASE Gone
  BY <1>8, <1>9 DEF Gone
<1> HIDE DEF TypeOK
<1> QED BY <1>1, <1>2, <1>3, <1>4, <1>5, <1>6, <1>7, <1>8, <1>9 DEF Next

LEMMA InitType ==
  ASSUME Init
  PROVE  TypeOK
<1> USE DEF Init
<1>1. /\ future \in [Tasks -> {"none", "pending", "ready", "broken", "rejected"}]
      /\ current \in [Workers -> Tasks \cup {NoTask}]
      /\ toJoin \in [Clients -> SUBSET Workers]
  OBVIOUS
<1>2. /\ pc \in [Workers -> Awake \cup {"none", "wait", "exited"}]
      /\ cpc \in [Clients -> {"idle", "notifyOne"} \cup Stopping]
  OBVIOUS
<1>3. /\ phase \in {"constructing", "open", "destroying", "destroyed"}
      /\ accepting \in BOOLEAN /\ stop \in BOOLEAN
      /\ workers \subseteq Workers /\ tasks \subseteq Tasks
      /\ shutdown \in {"none", "drain", "discard"}
      /\ early \subseteq {"drain", "discard"} /\ threw \subseteq Tasks
  OBVIOUS
<1> QED BY <1>1, <1>2, <1>3, Zenon DEF TypeOK

(* Type correctness: every variable of the pool keeps its type.             *)
THEOREM TypeCorrect == Spec => []TypeOK
<1>1. Init => TypeOK
  BY InitType
<1> QED BY <1>1, TypeStep, PTL DEF Spec

-----------------------------------------------------------------------------
(* How the sizes of the two containers change, as the steps change them.    *)
LEMMA Sizes ==
  ASSUME TypeOK
  PROVE  /\ IsFiniteSet(workers) /\ Cardinality(workers) \in Nat
         /\ IsFiniteSet(tasks) /\ Cardinality(tasks) \in Nat
         /\ workers = {} <=> Cardinality(workers) = 0
         /\ tasks = {} <=> Cardinality(tasks) = 0
         /\ \A w : w \notin workers =>
               Cardinality(workers \cup {w}) = Cardinality(workers) + 1
         /\ \A w \in workers :
               Cardinality(workers \ {w}) = Cardinality(workers) - 1
         /\ \A t : t \notin tasks =>
               Cardinality(tasks \cup {t}) = Cardinality(tasks) + 1
         /\ \A t \in tasks : Cardinality(tasks \ {t}) = Cardinality(tasks) - 1
<1>1. IsFiniteSet(workers) /\ IsFiniteSet(tasks)
  BY FS_Subset, WorkersAssumption, TasksAssumption DEF TypeOK
<1>2. Cardinality(workers) \in Nat /\ Cardinality(tasks) \in Nat
  BY <1>1, FS_CardinalityType
<1>3. (workers = {} <=> Cardinality(workers) = 0)
      /\ (tasks = {} <=> Cardinality(tasks) = 0)
  BY <1>1, FS_EmptySet
<1>4. \A w : w \notin workers =>
         Cardinality(workers \cup {w}) = Cardinality(workers) + 1
  BY <1>1, FS_AddElement
<1>5. \A w \in workers : Cardinality(workers \ {w}) = Cardinality(workers) - 1
  BY <1>1, FS_RemoveElement
<1>6. \A t : t \notin tasks =>
         Cardinality(tasks \cup {t}) = Cardinality(tasks) + 1
  BY <1>1, FS_AddElement
<1>7. \A t \in tasks : Cardinality(tasks \ {t}) = Cardinality(tasks) - 1
  BY <1>1, FS_RemoveElement
<1> QED BY <1>1, <1>2, <1>3, <1>4, <1>5, <1>6, <1>7

(* The inductive invariant for the properties of the open pool.  The two    *)
(* flags are set together and before a stop call goes on; until then every  *)
(* thread in the container is alive, and the constructor has not finished   *)
(* exactly while it holds fewer than the core threads.                      *)
Closing ==
    /\ accepting = ~stop
    /\ \A c \in Clients : cpc[c] \in Stopping => stop

Members == ~stop => \A w \in workers : Live(w)

Building ==
    phase = "constructing" =>
       ~stop /\ tasks = {} /\ Cardinality(workers) < CoreThreads

SomeoneLive == tasks # {} => \E w \in Workers : Live(w)

OpenInv ==
    /\ TypeOK /\ Closing /\ Members /\ Building /\ SomeoneLive
    /\ WorkerBounds /\ NoStrandedTask /\ GrowsWithBacklog

(* An empty queue and a set of threads that stays alive keep most of the    *)
(* parts; a step that leaves the containers and phase alone keeps the rest. *)
LEMMA OpenInvStep == OpenInv /\ [Next]_vars => OpenInv'
<1> SUFFICES ASSUME OpenInv, [Next]_vars, TypeOK' PROVE OpenInv'
  BY TypeStep DEF OpenInv
<1> USE CoreAssumption DEF OpenInv, TypeOK, Closing, Members, Building, SomeoneLive,
        WorkerBounds, NoStrandedTask, GrowsWithBacklog, Live
<1>s. /\ Cardinality(workers) \in Nat /\ Cardinality(tasks) \in Nat
      /\ workers = {} <=> Cardinality(workers) = 0
      /\ tasks = {} <=> Cardinality(tasks) = 0
      /\ \A w : w \notin workers =>
            Cardinality(workers \cup {w}) = Cardinality(workers) + 1
      /\ \A w \in workers :
            Cardinality(workers \ {w}) = Cardinality(workers) - 1
      /\ \A t : t \notin tasks =>
            Cardinality(tasks \cup {t}) = Cardinality(tasks) + 1
      /\ \A t \in tasks : Cardinality(tasks \ {t}) = Cardinality(tasks) - 1
  BY Sizes
<1>m. max_threads \in Nat
  BY DEF max_threads
<1>1. CASE Construct
  <2>1. PICK w \in Workers : add_thread(w)
    BY <1>1 DEF Construct
  <2>2. ~stop /\ tasks = {} /\ w \notin workers
    BY <1>1, <2>1 DEF Construct, add_thread
  <2>3. Cardinality(workers') = Cardinality(workers) + 1
    BY <1>s, <2>1, <2>2 DEF add_thread
  <2> QED BY <1>1, <1>s, <1>m, <2>1, <2>2, <2>3 DEF Construct, add_thread, Elastic
<1>2. ASSUME NEW c \in Clients, ClientCall(c) PROVE OpenInv'
  <2>1. ASSUME NEW t \in Tasks, SubmitRejected(c, t) PROVE OpenInv'
    BY <2>1 DEF SubmitRejected
  <2>p. ASSUME NEW t \in Tasks, Push(c, t)
        PROVE  /\ phase = "open" /\ accepting /\ ~stop
               /\ Cardinality(tasks') \in Nat
               /\ Cardinality(tasks') <= Cardinality(tasks) + 1
               /\ Cardinality(workers) >= CoreThreads
               /\ \E w \in Workers : Live(w)
    <3>1. phase = "open" /\ accepting /\ ~stop /\ tasks' = tasks \cup {t}
      BY <2>p DEF Push, CanCall
    <3>2. Cardinality(tasks') = Cardinality(tasks)
          \/ Cardinality(tasks') = Cardinality(tasks) + 1
      <4>1. CASE t \in tasks
        <5>1. tasks' = tasks
          BY <3>1, <4>1
        <5> QED BY <5>1
      <4>2. CASE t \notin tasks
        BY <3>1, <4>2, <1>s
      <4> QED BY <4>1, <4>2
    <3>3. Cardinality(workers) >= CoreThreads
      BY <3>1
    <3>4. PICK w \in workers : Live(w)
      BY <3>1, <3>3, <1>s
    <3> QED BY <3>1, <3>2, <3>3, <3>4, <1>s
  <2>2. ASSUME NEW t \in Tasks, SubmitQueued(c, t) PROVE OpenInv'
    <3>1. Push(c, t) /\ ~MustGrow /\ cpc' = [cpc EXCEPT ![c] = "notifyOne"]
          /\ UNCHANGED <<phase, accepting, stop, workers, pc, threw>>
      BY <2>2 DEF SubmitQueued
    <3>2. GrowsWithBacklog'
      BY <3>1, <2>p, <1>s, <1>m DEF MustGrow
    <3> QED BY <3>1, <3>2, <2>p
  <2>3. ASSUME NEW t \in Tasks, SubmitGrows(c, t) PROVE OpenInv'
    <3>1. PICK w \in Workers : add_thread(w)
      BY <2>3 DEF SubmitGrows
    <3>2. /\ Push(c, t) /\ MustGrow /\ cpc' = [cpc EXCEPT ![c] = "notifyOne"]
          /\ UNCHANGED <<phase, accepting, stop, threw>>
      BY <2>3 DEF SubmitGrows
    <3>3. Cardinality(workers') = Cardinality(workers) + 1
      BY <3>1, <3>2, <2>p, <1>s DEF add_thread
    <3>4. WorkerBounds' /\ GrowsWithBacklog'
      BY <3>2, <3>3, <2>p, <1>s, <1>m DEF MustGrow, Elastic
    <3>5. Members' /\ SomeoneLive' /\ NoStrandedTask'
      BY <3>1, <3>2, <2>p DEF add_thread
    <3> QED BY <3>2, <3>4, <3>5, <2>p
  <2>4. ASSUME NEW t \in Tasks, SubmitSpawnFails(c, t) PROVE OpenInv'
    <3>1. /\ Push(c, t) /\ MustGrow /\ t \in threw'
          /\ UNCHANGED <<phase, accepting, stop, workers, pc, cpc>>
      BY <2>4 DEF SubmitSpawnFails
    <3>2. tasks # {}
      BY <3>1, <2>p, <1>s DEF MustGrow
    <3> QED BY <3>1, <3>2, <2>p
  <2>5. CASE WaitAndStop(c)
    BY <2>5 DEF WaitAndStop, Close, CanCall
  <2>6. CASE StopImmediately(c)
    BY <2>6 DEF StopImmediately, Close, Discard, CanCall
  <2>7. ASSUME NEW how \in {"drain", "discard"}, StopReturnsEarly(c, how)
        PROVE  OpenInv'
    BY <2>7 DEF StopReturnsEarly
  <2> QED BY <1>2, <2>1, <2>2, <2>3, <2>4, <2>5, <2>6, <2>7 DEF ClientCall
<1>3. ASSUME NEW c \in Clients, ClientStep(c) PROVE OpenInv'
  <2>1. CASE notify_one(c)
    BY <2>1 DEF notify_one, Waiting
  <2>2. CASE notify_all(c)
    BY <2>2 DEF notify_all, Waiting
  <2>3. CASE SwapWorkers(c)
    BY <2>3 DEF SwapWorkers
  <2>4. CASE StopReturns(c)
    BY <2>4 DEF StopReturns
  <2>5. ASSUME NEW w \in Workers, Join(c, w) PROVE OpenInv'
    BY <2>5 DEF Join
  <2> QED BY <1>3, <2>1, <2>2, <2>3, <2>4, <2>5 DEF ClientStep
<1>4. CASE DestroyRunning
  BY <1>4, OwnerAssumption DEF DestroyRunning, Close, Discard
<1>5. CASE DestroyStopped
  BY <1>5 DEF DestroyStopped, CanDestroy, MustStop
<1>6. ASSUME NEW w \in Workers, WorkerStep(w) PROVE OpenInv'
  <2>1. CASE TakeTask(w)
    <3>1. PICK t \in tasks : tasks' = tasks \ {t}
      BY <2>1 DEF TakeTask, IsTop
    <3>2. Cardinality(tasks') = Cardinality(tasks) - 1
      BY <3>1, <1>s
    <3>3. /\ pc' = [pc EXCEPT ![w] = "run"] /\ pc[w] \in Awake
          /\ UNCHANGED <<phase, accepting, stop, workers, cpc, threw>>
      BY <2>1 DEF TakeTask, Locks
    <3>4. GrowsWithBacklog'
      BY <3>2, <3>3, <1>s, <1>m
    <3> QED BY <3>1, <3>3, <3>4
  <2>2. CASE Exit(w)
    BY <2>2 DEF Exit, Locks
  <2>3. CASE Wait(w)
    BY <2>3 DEF Wait
  <2>4. CASE Shrink(w)
    <3>1. /\ ~stop /\ tasks = {} /\ Cardinality(workers) > CoreThreads
          /\ workers' = workers \ {w} /\ pc' = [pc EXCEPT ![w] = "none"]
          /\ UNCHANGED <<phase, accepting, stop, tasks, cpc, threw>>
      BY <2>4 DEF Shrink
    <3>2. \/ Cardinality(workers') = Cardinality(workers)
          \/ Cardinality(workers') = Cardinality(workers) - 1
      <4>1. CASE w \in workers
        BY <3>1, <4>1, <1>s
      <4>2. CASE w \notin workers
        <5>1. workers' = workers
          BY <3>1, <4>2
        <5> QED BY <5>1
      <4> QED BY <4>1, <4>2
    <3>3. GrowsWithBacklog' /\ WorkerBounds' /\ Building'
      BY <3>1, <3>2, <1>s, <1>m DEF Elastic
    <3>4. Members' /\ SomeoneLive' /\ NoStrandedTask' /\ Closing'
      BY <3>1
    <3> QED BY <3>3, <3>4
  <2>5. CASE StayCore(w)
    BY <2>5 DEF StayCore
  <2>6. CASE FinishTask(w)
    BY <2>6 DEF FinishTask
  <2> QED BY <1>6, <2>1, <2>2, <2>3, <2>4, <2>5, <2>6 DEF WorkerStep
<1>7. ASSUME NEW w \in Workers, Timeout(w) \/ SpuriousWake(w) PROVE OpenInv'
  BY <1>7 DEF Timeout, SpuriousWake, LeaveWait
<1>8. CASE UNCHANGED vars
  BY <1>8 DEF vars
<1> QED BY <1>1, <1>2, <1>3, <1>4, <1>5, <1>6, <1>7, <1>8 DEF Next, Gone

LEMMA OpenInvariant == Spec => []OpenInv
<1>1. Init => OpenInv
  <2> SUFFICES ASSUME Init PROVE OpenInv
    OBVIOUS
  <2>1. TypeOK /\ workers = {} /\ tasks = {}
    BY DEF Init, TypeOK
  <2>2. Cardinality(workers) = 0 /\ Cardinality(tasks) = 0
    BY <2>1, Sizes
  <2>3. Closing
    BY DEF Init, Closing
  <2>4. Building
    BY <2>2, CoreAssumption DEF Init, Building
  <2>5. WorkerBounds /\ GrowsWithBacklog
    BY <2>2 DEF Init, WorkerBounds, GrowsWithBacklog
  <2>6. Members /\ SomeoneLive /\ NoStrandedTask
    BY <2>1 DEF Members, SomeoneLive, NoStrandedTask
  <2> QED BY <2>1, <2>3, <2>4, <2>5, <2>6 DEF OpenInv
<1> QED BY <1>1, OpenInvStep, PTL DEF Spec

(* No lost wake-up, in a fixed pool and in an elastic one, while the pool   *)
(* is open and while it is drained, even when a thread cannot be created.   *)
THEOREM TaskNeverStranded == Spec => []NoStrandedTask
BY OpenInvariant, PTL DEF OpenInv

(* The open pool keeps between the core size and the limit.                 *)
THEOREM PoolSizeBounded == Spec => []WorkerBounds
BY OpenInvariant, PTL DEF OpenInv

(* The open pool falls behind its backlog only at its limit, or when the    *)
(* system refused a thread.                                                 *)
THEOREM PoolFollowsBacklog == Spec => []GrowsWithBacklog
BY OpenInvariant, PTL DEF OpenInv

-----------------------------------------------------------------------------
(* The inductive invariant for the futures, thread by thread and task by    *)
(* task: a queued task is pending and with no thread, a thread runs exactly *)
(* when it holds a task, the task it holds is pending and no other thread's *)
(* and a pending task is queued or held.                                    *)
Queued ==
    \A t \in tasks : future[t] = "pending" /\ \A w \in Workers : current[w] # t

Held ==
    \A w \in Workers :
       /\ pc[w] = "run" <=> current[w] # NoTask
       /\ current[w] # NoTask => future[current[w]] = "pending"

HeldOnce ==
    \A v, w \in Workers : current[v] # NoTask /\ current[v] = current[w] => v = w

Somewhere ==
    \A t \in Tasks : future[t] = "pending" =>
       t \in tasks \/ \E w \in Workers : current[w] = t

TaskInv == TypeOK /\ Queued /\ Held /\ HeldOnce /\ Somewhere

(* The inductive invariant for closing the pool.  One stop call at a time   *)
(* does the work; a thread that exists is in the container or in the local  *)
(* list of that call, the container is empty once that call has swapped it, *)
(* and only stop_immediately breaks a promise.                              *)
OneStopper ==
    \A c, d \in Clients : cpc[c] \in Stopping /\ cpc[d] \in Stopping => c = d

Owned ==
    \A w \in Workers :
       \/ pc[w] = "none" \/ w \in workers
       \/ \E c \in Clients : cpc[c] = "join" /\ w \in toJoin[c]

Emptied ==
    stop => workers = {} \/ \E c \in Clients : cpc[c] \in {"notifyAll", "swap"}

Ending ==
    /\ phase = "constructing" => ~stop
    /\ phase \in {"destroying", "destroyed"} => stop
    /\ phase = "destroyed" => \A w \in Workers : pc[w] = "none"

Discarding ==
    /\ ~stop => shutdown = "none"
    /\ shutdown # "discard" => \A t \in Tasks : future[t] # "broken"

ShutInv ==
    TypeOK /\ Closing /\ OneStopper /\ Owned /\ Emptied /\ Ending /\ Discarding

LEMMA TaskInvStep == TaskInv /\ [Next]_vars => TaskInv'
<1> SUFFICES ASSUME TaskInv, [Next]_vars, TypeOK' PROVE TaskInv'
  BY TypeStep DEF TaskInv
<1> USE TasksAssumption DEF TaskInv, TypeOK, Queued, Held, HeldOnce, Somewhere
<1>1. CASE Construct
  BY <1>1 DEF Construct, add_thread
<1>2. ASSUME NEW c \in Clients, ClientCall(c) PROVE TaskInv'
  <2>1. ASSUME NEW t \in Tasks, SubmitRejected(c, t) PROVE TaskInv'
    BY <2>1 DEF SubmitRejected
  <2>2. ASSUME NEW t \in Tasks, SubmitQueued(c, t) PROVE TaskInv'
    BY <2>2 DEF SubmitQueued, Push
  <2>3. ASSUME NEW t \in Tasks, SubmitGrows(c, t) PROVE TaskInv'
    BY <2>3 DEF SubmitGrows, Push, add_thread
  <2>4. ASSUME NEW t \in Tasks, SubmitSpawnFails(c, t) PROVE TaskInv'
    BY <2>4 DEF SubmitSpawnFails, Push
  <2>5. CASE WaitAndStop(c)
    BY <2>5 DEF WaitAndStop, Close
  <2>6. CASE StopImmediately(c)
    BY <2>6 DEF StopImmediately, Close, Discard
  <2>7. ASSUME NEW how \in {"drain", "discard"}, StopReturnsEarly(c, how)
        PROVE  TaskInv'
    BY <2>7 DEF StopReturnsEarly
  <2> QED BY <1>2, <2>1, <2>2, <2>3, <2>4, <2>5, <2>6, <2>7 DEF ClientCall
<1>3. ASSUME NEW c \in Clients, ClientStep(c) PROVE TaskInv'
  <2>1. CASE notify_one(c)
    BY <2>1 DEF notify_one, Waiting
  <2>2. CASE notify_all(c)
    BY <2>2 DEF notify_all, Waiting
  <2>3. CASE SwapWorkers(c)
    BY <2>3 DEF SwapWorkers
  <2>4. CASE StopReturns(c)
    BY <2>4 DEF StopReturns
  <2>5. ASSUME NEW w \in Workers, Join(c, w) PROVE TaskInv'
    BY <2>5 DEF Join
  <2> QED BY <1>3, <2>1, <2>2, <2>3, <2>4, <2>5 DEF ClientStep
<1>4. CASE DestroyRunning
  BY <1>4, OwnerAssumption DEF DestroyRunning, Close, Discard
<1>5. CASE DestroyStopped
  BY <1>5 DEF DestroyStopped
<1>6. ASSUME NEW w \in Workers, WorkerStep(w) PROVE TaskInv'
  <2>1. CASE TakeTask(w)
    BY <2>1 DEF TakeTask, IsTop, Locks
  <2>2. CASE Exit(w)
    BY <2>2 DEF Exit, Locks
  <2>3. CASE Wait(w)
    BY <2>3 DEF Wait
  <2>4. CASE Shrink(w)
    BY <2>4 DEF Shrink
  <2>5. CASE StayCore(w)
    BY <2>5 DEF StayCore
  <2>6. CASE FinishTask(w)
    BY <2>6 DEF FinishTask
  <2> HIDE DEF TaskInv
  <2> QED BY <1>6, <2>1, <2>2, <2>3, <2>4, <2>5, <2>6 DEF WorkerStep
<1>7. ASSUME NEW w \in Workers, Timeout(w) \/ SpuriousWake(w) PROVE TaskInv'
  BY <1>7 DEF Timeout, SpuriousWake, LeaveWait
<1>8. CASE UNCHANGED vars
  BY <1>8 DEF vars
<1> HIDE DEF TaskInv
<1> QED BY <1>1, <1>2, <1>3, <1>4, <1>5, <1>6, <1>7, <1>8 DEF Next, Gone

LEMMA TaskInvariant == Spec => []TaskInv
<1>1. ASSUME Init PROVE TaskInv
  <2>1. TypeOK
    BY <1>1, InitType
  <2>2. Queued /\ Held /\ HeldOnce /\ Somewhere
    BY <1>1, TasksAssumption DEF Init, Queued, Held, HeldOnce, Somewhere
  <2> QED BY <2>1, <2>2 DEF TaskInv
<1> QED BY <1>1, TaskInvStep, PTL DEF Spec

(* Every accepted task is in exactly one place until its future is settled, *)
(* and in none afterwards.                                                  *)
THEOREM NoTaskLostOrRunTwice == Spec => []FutureAccounting
<1>1. TaskInv => FutureAccounting
  <2> SUFFICES ASSUME TaskInv, NEW t \in Tasks
               PROVE  IF future[t] = "pending"
                      THEN IF t \in tasks THEN Running(t) = {}
                           ELSE \E w \in Workers : Running(t) = {w}
                      ELSE t \notin tasks /\ Running(t) = {}
    BY DEF FutureAccounting
  <2> USE TasksAssumption
          DEF TaskInv, Queued, Held, HeldOnce, Somewhere, Running
  <2>1. CASE t \in tasks
    BY <2>1
  <2>2. CASE t \notin tasks /\ future[t] = "pending"
    <3>1. PICK w \in Workers : current[w] = t
      BY <2>2
    <3>2. Running(t) = {w}
      BY <3>1
    <3> QED BY <2>2, <3>2
  <2>3. CASE t \notin tasks /\ future[t] # "pending"
    BY <2>3
  <2> QED BY <2>1, <2>2, <2>3
<1> QED BY <1>1, TaskInvariant, PTL

LEMMA ShutInvStep == ShutInv /\ [Next]_vars => ShutInv'
<1> SUFFICES ASSUME ShutInv, [Next]_vars, TypeOK' PROVE ShutInv'
  BY TypeStep DEF ShutInv
<1> USE DEF ShutInv, TypeOK, Closing, OneStopper, Owned, Emptied, Ending, Discarding
<1>1. CASE Construct
  BY <1>1 DEF Construct, add_thread
<1>2. ASSUME NEW c \in Clients, ClientCall(c) PROVE ShutInv'
  <2>1. ASSUME NEW t \in Tasks, SubmitRejected(c, t) PROVE ShutInv'
    BY <2>1 DEF SubmitRejected
  <2>2. ASSUME NEW t \in Tasks, SubmitQueued(c, t) PROVE ShutInv'
    <3>1. /\ accepting /\ phase = "open" /\ cpc[c] = "idle"
          /\ UNCHANGED <<poolVars, workers, pc, current, toJoin, shutdown>>
          /\ cpc' = [cpc EXCEPT ![c] = "notifyOne"]
          /\ future' = [future EXCEPT ![t] = "pending"]
      BY <2>2 DEF SubmitQueued, Push, CanCall
    <3>2. ~stop
      BY <3>1, Zenon
    <3>3. \A d \in Clients : cpc[d] # "join" /\ cpc[d] \notin Stopping
      BY <3>2 DEF Stopping
    <3>4. \A d \in Clients : cpc'[d] \notin Stopping
      BY <3>1, <3>3 DEF Stopping
    <3>5. Owned'
      BY <3>1, <3>3 DEF poolVars
    <3>6. Closing' /\ OneStopper' /\ Emptied' /\ Ending'
      BY <3>1, <3>2, <3>4 DEF poolVars
    <3>7. Discarding'
      BY <3>1, <3>2 DEF poolVars
    <3> QED BY <3>5, <3>6, <3>7
  <2>3. ASSUME NEW t \in Tasks, SubmitGrows(c, t) PROVE ShutInv'
    <3>1. accepting /\ phase = "open" /\ phase' = "open"
      BY <2>3 DEF SubmitGrows, Push, CanCall
    <3>2. ~stop
      BY <3>1, Zenon
    <3>3. PICK w \in Workers : add_thread(w)
      BY <2>3 DEF SubmitGrows
    <3>4. /\ UNCHANGED <<accepting, stop, toJoin, shutdown>>
          /\ cpc' = [cpc EXCEPT ![c] = "notifyOne"]
          /\ future' = [future EXCEPT ![t] = "pending"]
      BY <2>3 DEF SubmitGrows, Push
    <3>5. Owned'
      BY <3>3, <3>4, <3>2 DEF add_thread
    <3>6. Closing' /\ OneStopper' /\ Emptied'
      BY <3>2, <3>4
    <3>7. Ending' /\ Discarding'
      BY <3>1, <3>2, <3>4
    <3> QED BY <3>5, <3>6, <3>7
  <2>4. ASSUME NEW t \in Tasks, SubmitSpawnFails(c, t) PROVE ShutInv'
    BY <2>4 DEF SubmitSpawnFails, Push, CanCall
  <2>5. CASE WaitAndStop(c)
    <3>0. accepting /\ phase' = phase /\ future' = future
      BY <2>5 DEF WaitAndStop
    <3>1. ~stop /\ phase' = phase /\ future' = future
      BY <3>0, Zenon
    <3>2. /\ accepting' = FALSE /\ stop' = TRUE /\ shutdown' = "drain"
          /\ cpc' = [cpc EXCEPT ![c] = "notifyAll"]
          /\ UNCHANGED <<workers, pc, toJoin>>
      BY <2>5 DEF WaitAndStop, Close
    <3>3. phase = "open"
      BY <2>5 DEF WaitAndStop, CanCall
    <3>4. Closing' /\ OneStopper' /\ Emptied'
      BY <3>1, <3>2
    <3>5. Owned'
      BY <3>1, <3>2
    <3>6. Ending' /\ Discarding'
      BY <3>1, <3>2, <3>3
    <3> QED BY <3>4, <3>5, <3>6
  <2>6. CASE StopImmediately(c)
    BY <2>6 DEF StopImmediately, Close, Discard, CanCall
  <2>7. ASSUME NEW how \in {"drain", "discard"}, StopReturnsEarly(c, how)
        PROVE  ShutInv'
    BY <2>7 DEF StopReturnsEarly
  <2> QED BY <1>2, <2>1, <2>2, <2>3, <2>4, <2>5, <2>6, <2>7 DEF ClientCall
<1>3. ASSUME NEW c \in Clients, ClientStep(c) PROVE ShutInv'
  <2>1. CASE notify_one(c)
    BY <2>1 DEF notify_one, Waiting
  <2>2. CASE notify_all(c)
    BY <2>2 DEF notify_all, Waiting
  <2>3. CASE SwapWorkers(c)
    BY <2>3 DEF SwapWorkers
  <2>4. CASE StopReturns(c)
    BY <2>4 DEF StopReturns
  <2>5. ASSUME NEW w \in Workers, Join(c, w) PROVE ShutInv'
    BY <2>5 DEF Join
  <2> QED BY <1>3, <2>1, <2>2, <2>3, <2>4, <2>5 DEF ClientStep
<1>4. CASE DestroyRunning
  BY <1>4, OwnerAssumption DEF DestroyRunning, CanDestroy, MustStop, Close, Discard
<1>5. CASE DestroyStopped
  BY <1>5 DEF DestroyStopped, CanDestroy, MustStop
<1>6. ASSUME NEW w \in Workers, WorkerStep(w) PROVE ShutInv'
  <2>1. CASE TakeTask(w)
    BY <2>1 DEF TakeTask, IsTop, Locks
  <2>2. CASE Exit(w)
    BY <2>2 DEF Exit, Locks
  <2>3. CASE Wait(w)
    BY <2>3 DEF Wait
  <2>4. CASE Shrink(w)
    BY <2>4 DEF Shrink
  <2>5. CASE StayCore(w)
    BY <2>5 DEF StayCore
  <2>6. CASE FinishTask(w)
    BY <2>6 DEF FinishTask
  <2> HIDE DEF ShutInv
  <2> QED BY <1>6, <2>1, <2>2, <2>3, <2>4, <2>5, <2>6 DEF WorkerStep
<1>7. ASSUME NEW w \in Workers, Timeout(w) \/ SpuriousWake(w) PROVE ShutInv'
  BY <1>7 DEF Timeout, SpuriousWake, LeaveWait
<1>8. CASE UNCHANGED vars
  BY <1>8 DEF vars
<1> HIDE DEF ShutInv
<1> QED BY <1>1, <1>2, <1>3, <1>4, <1>5, <1>6, <1>7, <1>8 DEF Next, Gone

LEMMA ShutInvariant == Spec => []ShutInv
<1>1. ASSUME Init PROVE ShutInv
  <2> USE <1>1 DEF Init
  <2>1. TypeOK
    BY InitType
  <2>2. Closing /\ OneStopper /\ Emptied
    BY DEF Closing, OneStopper, Emptied, Stopping
  <2>3. Owned /\ Ending /\ Discarding
    BY DEF Owned, Ending, Discarding
  <2> QED BY <2>1, <2>2, <2>3 DEF ShutInv
<1> QED BY <1>1, ShutInvStep, PTL DEF Spec

(* The winning stop call, on its return, leaves no thread and no pending    *)
(* future behind; wait_and_stop discards nothing.                           *)
THEOREM StopIsComplete == Spec => []ShutdownComplete
<1>1. ShutInv /\ OpenInv /\ TaskInv => ShutdownComplete
  <2> SUFFICES ASSUME ShutInv, OpenInv, TaskInv, stop,
                      \A c \in Clients : cpc[c] \notin Stopping
               PROVE  /\ workers = {}
                      /\ \A w \in Workers : pc[w] = "none"
                      /\ \A t \in Tasks : future[t] # "pending"
                      /\ shutdown = "drain" =>
                            \A t \in Tasks : future[t] # "broken"
    BY DEF ShutdownComplete
  <2>1. workers = {}
    BY DEF ShutInv, Emptied
  <2>2. \A w \in Workers : pc[w] = "none"
    BY <2>1 DEF ShutInv, Owned
  <2>3. tasks = {}
    BY <2>2 DEF OpenInv, SomeoneLive, Live
  <2>4. \A w \in Workers : current[w] = NoTask
    BY <2>2 DEF TaskInv, Held
  <2>5. \A t \in Tasks : future[t] # "pending"
    BY <2>3, <2>4, TasksAssumption DEF TaskInv, Somewhere
  <2> QED BY <2>1, <2>2, <2>5 DEF ShutInv, Discarding
<1> QED BY <1>1, ShutInvariant, OpenInvariant, TaskInvariant, PTL

(* The destructor leaves no thread that could touch the pool.               *)
THEOREM PoolOutlivesThreads == Spec => []NoThreadOutlivesPool
<1>1. ShutInv => NoThreadOutlivesPool
  BY DEF ShutInv, Ending, NoThreadOutlivesPool, Live
<1> QED BY <1>1, ShutInvariant, PTL

-----------------------------------------------------------------------------
(* What no step does.                                                       *)

Settled(t) == future[t] \in {"ready", "broken", "rejected"}

(* A promise is set once, and its task is then nowhere for good; a task that*)
(* has begun runs to its end on the thread that took it, whatever is stopped*)
(* or destroyed meanwhile.                                                  *)
TaskCourse ==
    [][\A t \in Tasks :
          /\ Settled(t) => future'[t] = future[t] /\ t \notin tasks' /\ Running(t)' = {}
          /\ Running(t) # {} => future'[t] = "ready" \/ Running(t)' = Running(t)]_vars

(* A stopped pool stays so: no task enters its queue and no thread is added,*)
(* though a submit that found it open may still be about to notify.         *)
ClosedForGood ==
    [][stop => /\ stop' /\ ~accepting'
               /\ tasks' \subseteq tasks /\ workers' \subseteq workers
               /\ \A w \in Workers : pc[w] = "none" => pc'[w] = "none"]_vars

(* A settled future is not set again; a thread keeps the task it holds until*)
(* its future is ready.                                                     *)
LEMMA CourseStep ==
  ASSUME TaskInv, [Next]_vars, NEW t \in Tasks
  PROVE  /\ Settled(t) => future'[t] = future[t]
         /\ \A w \in Workers : current[w] = t => current'[w] = t \/ future'[t] = "ready"
<1> DEFINE Goes == /\ Settled(t) => future'[t] = future[t]
                   /\ \A w \in Workers :
                         current[w] = t => current'[w] = t \/ future'[t] = "ready"
<1> SUFFICES Goes
  OBVIOUS
<1> USE TasksAssumption DEF TaskInv, TypeOK, Queued, Held
<1>1. CASE UNCHANGED <<future, current>>
  BY <1>1
<1>2. ASSUME NEW c \in Clients, NEW u \in Tasks,
             SubmitRejected(c, u) \/ SubmitQueued(c, u) \/ SubmitGrows(c, u)
                \/ SubmitSpawnFails(c, u)
      PROVE  Goes
  <2>1. future[u] = "none" /\ UNCHANGED current
        /\ \E v \in {"rejected", "pending"} : future' = [future EXCEPT ![u] = v]
    BY <1>2 DEF SubmitRejected, SubmitQueued, SubmitGrows, SubmitSpawnFails, Push
  <2> QED BY <2>1 DEF Settled
<1>3. CASE Discard /\ UNCHANGED current
  BY <1>3 DEF Discard, Settled
<1>4. ASSUME NEW w \in Workers, TakeTask(w) PROVE Goes
  <2>1. pc[w] # "run" /\ UNCHANGED future
        /\ \E u \in Tasks : current' = [current EXCEPT ![w] = u]
    BY <1>4 DEF TakeTask, Locks
  <2> QED BY <2>1
<1>5. ASSUME NEW w \in Workers, FinishTask(w) PROVE Goes
  BY <1>5 DEF FinishTask, Settled
<1>6. ASSUME NEW c \in Clients, ClientCall(c) \/ ClientStep(c) PROVE Goes
  <2>1. CASE ClientCall(c)
    <3>1. CASE WaitAndStop(c)
      BY <1>1, <3>1 DEF WaitAndStop, Close
    <3>2. CASE StopImmediately(c)
      BY <1>3, <3>2 DEF StopImmediately, Close
    <3>3. CASE \E how \in {"drain", "discard"} : StopReturnsEarly(c, how)
      BY <1>1, <3>3 DEF StopReturnsEarly
    <3> QED BY <1>2, <2>1, <3>1, <3>2, <3>3 DEF ClientCall
  <2>2. CASE ClientStep(c)
    BY <1>1, <2>2 DEF ClientStep, notify_one, notify_all, SwapWorkers, StopReturns, Join
  <2> QED BY <1>6, <2>1, <2>2
<1>7. ASSUME NEW w \in Workers, WorkerStep(w) \/ Timeout(w) \/ SpuriousWake(w) PROVE Goes
  <2>1. CASE Exit(w) \/ Wait(w) \/ Shrink(w) \/ StayCore(w) \/ Timeout(w) \/ SpuriousWake(w)
    BY <1>1, <2>1 DEF Exit, Wait, Shrink, StayCore, Timeout, SpuriousWake, LeaveWait
  <2> QED BY <1>4, <1>5, <1>7, <2>1 DEF WorkerStep
<1>8. CASE Construct \/ DestroyStopped \/ UNCHANGED vars
  BY <1>1, <1>8 DEF Construct, DestroyStopped, vars
<1>9. CASE DestroyRunning
  BY <1>3, <1>9 DEF DestroyRunning, Close
<1> HIDE DEF Goes
<1> QED BY <1>6, <1>7, <1>8, <1>9 DEF Next, Gone

(* The course of a task, from its future and the thread that holds it.      *)
THEOREM TasksTakeTheirCourse == Spec => TaskCourse
<1> DEFINE Course == \A t \in Tasks :
             /\ Settled(t) => future'[t] = future[t] /\ t \notin tasks' /\ Running(t)' = {}
             /\ Running(t) # {} => future'[t] = "ready" \/ Running(t)' = Running(t)
<1>1. TaskInv /\ TaskInv' /\ [Next]_vars => Course
  <2> SUFFICES ASSUME TaskInv, TaskInv', [Next]_vars, NEW t \in Tasks
               PROVE  /\ Settled(t) => /\ future'[t] = future[t] /\ t \notin tasks'
                                       /\ Running(t)' = {}
                      /\ Running(t) # {} => \/ future'[t] = "ready"
                                            \/ Running(t)' = Running(t)
    OBVIOUS
  <2> USE TasksAssumption
  <2>1. /\ Settled(t) => future'[t] = future[t]
        /\ \A w \in Workers : current[w] = t => current'[w] = t \/ future'[t] = "ready"
    BY CourseStep
  <2>2. Settled(t) => t \notin tasks' /\ Running(t)' = {}
    BY <2>1 DEF TaskInv, Queued, Held, Settled, Running
  <2>3. ASSUME Running(t) # {}, future'[t] # "ready" PROVE Running(t)' = Running(t)
    <3>1. PICK w \in Workers : current[w] = t
      BY <2>3 DEF Running
    <3>2. current'[w] = t
      BY <2>1, <2>3, <3>1
    <3> QED BY <3>1, <3>2 DEF TaskInv, HeldOnce, Running
  <2> QED BY <2>1, <2>2, <2>3
<1> HIDE DEF Course
<1>2. [][Next]_vars /\ []TaskInv => [][Course]_vars
  BY <1>1, PTL
<1> QED BY <1>2, TaskInvariant, PTL DEF Spec, TaskCourse, Course

(* What stop_ ends, from the flags, which are set together, and the phase:  *)
(* the constructor has returned.                                            *)
THEOREM StopIsForGood == Spec => ClosedForGood
<1> DEFINE Closed == stop => /\ stop' /\ ~accepting'
                             /\ tasks' \subseteq tasks /\ workers' \subseteq workers
                             /\ \A w \in Workers : pc[w] = "none" => pc'[w] = "none"
<1>1. ShutInv /\ [Next]_vars => Closed
  <2> SUFFICES ASSUME ShutInv, [Next]_vars, stop
               PROVE  /\ stop' /\ ~accepting'
                      /\ tasks' \subseteq tasks /\ workers' \subseteq workers
                      /\ \A w \in Workers : pc[w] = "none" => pc'[w] = "none"
    OBVIOUS
  <2>1. ~accepting /\ phase # "constructing" /\ TypeOK
    BY DEF ShutInv, Closing, Ending
  <2> USE DEF TypeOK
  <2>2. ~Construct
    BY <2>1 DEF Construct
  <2>3. ASSUME NEW c \in Clients, ClientCall(c)
        PROVE  stop' /\ ~accepting' /\ tasks' \subseteq tasks /\ UNCHANGED <<workers, pc>>
    <3>1. ASSUME NEW t \in Tasks
          PROVE  ~SubmitQueued(c, t) /\ ~SubmitGrows(c, t) /\ ~SubmitSpawnFails(c, t)
      BY <2>1 DEF SubmitQueued, SubmitGrows, SubmitSpawnFails, Push
    <3>2. CASE \E t \in Tasks : SubmitRejected(c, t)
      BY <2>1, <3>2 DEF SubmitRejected, poolVars
    <3>3. CASE WaitAndStop(c) \/ StopImmediately(c)
      BY <2>1, <3>3 DEF WaitAndStop, StopImmediately, Close, Discard
    <3>4. CASE \E how \in {"drain", "discard"} : StopReturnsEarly(c, how)
      BY <2>1, <3>4 DEF StopReturnsEarly, poolVars
    <3> QED BY <2>3, <3>1, <3>2, <3>3, <3>4 DEF ClientCall
  <2>4. ASSUME NEW c \in Clients, ClientStep(c)
        PROVE  /\ UNCHANGED <<stop, accepting, tasks>> /\ workers' \subseteq workers
               /\ \A w \in Workers : pc[w] = "none" => pc'[w] = "none"
    <3>1. CASE \E w \in Workers : Join(c, w)
      BY <2>1, <3>1 DEF Join, poolVars
    <3> QED BY <2>1, <2>4, <3>1
            DEF ClientStep, notify_one, notify_all, Waiting, SwapWorkers, StopReturns, poolVars
  <2>5. ASSUME NEW w \in Workers, WorkerStep(w) \/ Timeout(w) \/ SpuriousWake(w)
        PROVE  /\ UNCHANGED <<stop, accepting>>
               /\ tasks' \subseteq tasks /\ workers' \subseteq workers
               /\ \A v \in Workers : pc[v] = "none" => pc'[v] = "none"
    <3>1. CASE TakeTask(w)
      BY <2>1, <3>1 DEF TakeTask, Locks, poolVars
    <3>2. CASE Exit(w) \/ Wait(w) \/ StayCore(w) \/ FinishTask(w)
      BY <2>1, <3>2 DEF Exit, Wait, StayCore, FinishTask, Locks, poolVars
    <3>3. ~Shrink(w)
      BY DEF Shrink
    <3>4. CASE Timeout(w) \/ SpuriousWake(w)
      BY <2>1, <3>4 DEF Timeout, SpuriousWake, LeaveWait, poolVars
    <3> QED BY <2>5, <3>1, <3>2, <3>3, <3>4 DEF WorkerStep
  <2>6. CASE DestroyRunning
    BY <2>1, <2>6 DEF DestroyRunning, Close, Discard
  <2>7. CASE DestroyStopped
    BY <2>1, <2>7 DEF DestroyStopped
  <2>8. CASE UNCHANGED vars
    BY <2>1, <2>8 DEF vars
  <2> QED BY <2>1, <2>2, <2>3, <2>4, <2>5, <2>6, <2>7, <2>8 DEF Next, Gone
<1> HIDE DEF Closed
<1>2. [][Next]_vars /\ []ShutInv => [][Closed]_vars
  BY <1>1, PTL
<1> QED BY <1>2, ShutInvariant, PTL DEF Spec, ClosedForGood, Closed
=============================================================================
