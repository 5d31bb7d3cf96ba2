----------------------------- MODULE ThreadPool -----------------------------
(***************************************************************************)
(* The elastic priority thread pool of thread_pool/ThreadPool.h.           *)
(*                                                                         *)
(* mtx_ is held for a whole critical section, and nothing blocks inside    *)
(* one except on cv_, so each critical section is one action.  What the    *)
(* code does between two critical sections (notify, swap, join, running a  *)
(* task) is a step of its own and interleaves with every other thread.     *)
(*                                                                         *)
(* Workers are the threads the operating system can give the pool.  A slot *)
(* is "none" before its thread is created and again once the thread is     *)
(* joined or, detached, gone; std::thread fails when no slot is left.      *)
(* Clients are the threads that call the pool, Owner the one that destroys *)
(* it.                                                                     *)
(***************************************************************************)
EXTENDS Integers, FiniteSets

CONSTANTS
    Workers,      \* threads the operating system can provide
    Clients,      \* threads that submit and stop
    Owner,        \* the client whose thread runs the constructor and destructor
    Tasks,        \* the callables ever submitted, each at most once
    Priority,     \* PrioTask::priority of each task, lower runs first
    CoreThreads,  \* constructor argument coreThreads
    MaxArg,       \* constructor argument maxThreads, 0 for "not elastic"
    NoTask

ASSUME CoreAssumption == CoreThreads \in Nat \ {0} /\ MaxArg \in Nat
ASSUME WorkersAssumption ==
    IsFiniteSet(Workers) /\ Cardinality(Workers) >= CoreThreads
ASSUME TasksAssumption ==
    /\ IsFiniteSet(Tasks) /\ NoTask \notin Tasks
    /\ Priority \in [Tasks -> Int]
ASSUME OwnerAssumption == Owner \in Clients

VARIABLES
    phase,      \* "constructing", "open", "destroying" or "destroyed"
    accepting,  \* accepting_
    stop,       \* stop_
    workers,    \* workers_, the threads the container holds
    tasks,      \* tasks_
    future,     \* what the future of each task shows
    pc,         \* where each thread is in worker_loop
    current,    \* the task a thread has taken and is running
    cpc,        \* where each client is in submit or in a stop call
    toJoin,     \* the local to_join of each client's join_all_workers
    shutdown,   \* ghost: which stop call won, "none" before
    early,      \* ghost: stop calls that returned because another had won
    threw       \* ghost: tasks whose submit threw

vars == <<phase, accepting, stop, workers, tasks, future, pc, current, cpc,
          toJoin, shutdown, early, threw>>

poolVars   == <<phase, accepting, stop>>
clientVars == <<cpc, toJoin, shutdown, early, threw>>

max_threads == IF MaxArg > 0 THEN MaxArg ELSE CoreThreads

(* Mutant: the two limits swapped in the test for an elastic pool.         *)
ElasticSwapped == max_threads < CoreThreads

Elastic == max_threads > CoreThreads

Awake == {"loop", "woken", "expired", "run"}

Stopping == {"notifyAll", "swap", "join"}

TypeOK ==
    /\ phase \in {"constructing", "open", "destroying", "destroyed"}
    /\ accepting \in BOOLEAN
    /\ stop \in BOOLEAN
    /\ workers \subseteq Workers
    /\ tasks \subseteq Tasks
    /\ future \in [Tasks -> {"none", "pending", "ready", "broken", "rejected"}]
    /\ pc \in [Workers -> Awake \cup {"none", "wait", "exited"}]
    /\ current \in [Workers -> Tasks \cup {NoTask}]
    /\ cpc \in [Clients -> {"idle", "notifyOne"} \cup Stopping]
    /\ toJoin \in [Clients -> SUBSET Workers]
    /\ shutdown \in {"none", "drain", "discard"}
    /\ early \subseteq {"drain", "discard"}
    /\ threw \subseteq Tasks

Init ==
    /\ phase = "constructing"
    /\ accepting = TRUE
    /\ stop = FALSE
    /\ workers = {}
    /\ tasks = {}
    /\ future = [t \in Tasks |-> "none"]
    /\ pc = [w \in Workers |-> "none"]
    /\ current = [w \in Workers |-> NoTask]
    /\ cpc = [c \in Clients |-> "idle"]
    /\ toJoin = [c \in Clients |-> {}]
    /\ shutdown = "none"
    /\ early = {}
    /\ threw = {}

-----------------------------------------------------------------------------
(* add_thread: emplace_back starts the thread at the top of worker_loop.   *)
add_thread(w) ==
    /\ pc[w] = "none"
    /\ workers' = workers \cup {w}
    /\ pc' = [pc EXCEPT ![w] = "loop"]

(* The constructor adds the core threads one at a time and without mtx_,   *)
(* while those already started run.                                        *)
Construct ==
    /\ phase = "constructing"
    /\ \E w \in Workers : add_thread(w)
    /\ phase' = IF Cardinality(workers') = CoreThreads THEN "open" ELSE phase
    /\ UNCHANGED <<accepting, stop, tasks, future, current, clientVars>>

-----------------------------------------------------------------------------
(* submit_impl.  The push, the growth test (queued tasks > threads, and    *)
(* threads left to the limit) and add_thread are one critical section;     *)
(* notify_one comes after the unlock.                                      *)
CanCall(c) == phase = "open" /\ cpc[c] = "idle"

SubmitRejected(c, t) ==
    /\ CanCall(c) /\ future[t] = "none"
    /\ ~accepting
    /\ future' = [future EXCEPT ![t] = "rejected"]
    /\ UNCHANGED <<poolVars, workers, tasks, pc, current, clientVars>>

Push(c, t) ==
    /\ CanCall(c) /\ future[t] = "none"
    /\ accepting
    /\ tasks' = tasks \cup {t}
    /\ future' = [future EXCEPT ![t] = "pending"]

(* Mutant: the growth test counts the queue before the push.               *)
MustGrowBeforePush ==
    Cardinality(tasks) > Cardinality(workers)
    /\ Cardinality(workers) < max_threads

MustGrow ==
    Cardinality(tasks') > Cardinality(workers)
    /\ Cardinality(workers) < max_threads

(* Mutant: a submit that does not grow the pool forgets notify_one.        *)
SubmitWithoutNotify(c, t) ==
    /\ Push(c, t)
    /\ ~MustGrow
    /\ UNCHANGED <<poolVars, workers, pc, current, clientVars>>

SubmitQueued(c, t) ==
    /\ Push(c, t)
    /\ ~MustGrow
    /\ cpc' = [cpc EXCEPT ![c] = "notifyOne"]
    /\ UNCHANGED <<poolVars, workers, pc, current, toJoin, shutdown, early, threw>>

SubmitGrows(c, t) ==
    /\ Push(c, t)
    /\ MustGrow
    /\ \E w \in Workers : add_thread(w)
    /\ cpc' = [cpc EXCEPT ![c] = "notifyOne"]
    /\ UNCHANGED <<poolVars, current, toJoin, shutdown, early, threw>>

(* std::thread throws: submit fails, the caller gets no future, but the    *)
(* task stays in the queue, and nobody is notified.                        *)
SubmitSpawnFails(c, t) ==
    /\ Push(c, t)
    /\ MustGrow
    /\ \A w \in Workers : pc[w] # "none"
    /\ threw' = threw \cup {t}
    /\ UNCHANGED <<poolVars, workers, pc, current, cpc, toJoin, shutdown, early>>

Waiting == {w \in Workers : pc[w] = "wait"}

notify_one(c) ==
    /\ cpc[c] = "notifyOne"
    /\ IF Waiting = {} THEN pc' = pc
       ELSE \E w \in Waiting : pc' = [pc EXCEPT ![w] = "woken"]
    /\ cpc' = [cpc EXCEPT ![c] = "idle"]
    /\ UNCHANGED <<poolVars, workers, tasks, future, current, toJoin, shutdown,
                   early, threw>>

-----------------------------------------------------------------------------
(* wait_and_stop and stop_immediately, up to the unlock.                   *)
Close(c, how) ==
    /\ accepting' = FALSE
    /\ stop' = TRUE
    /\ shutdown' = how
    /\ cpc' = [cpc EXCEPT ![c] = "notifyAll"]
    /\ UNCHANGED <<workers, pc, current, toJoin, early, threw>>

WaitAndStop(c) ==
    /\ CanCall(c)
    /\ accepting
    /\ Close(c, "drain")
    /\ UNCHANGED <<phase, tasks, future>>

(* The queue swapped out is destroyed with every packaged_task in it: the  *)
(* futures of the discarded tasks report a broken promise.                 *)
Discard ==
    /\ tasks' = {}
    /\ future' = [t \in Tasks |-> IF t \in tasks THEN "broken" ELSE future[t]]

StopImmediately(c) ==
    /\ CanCall(c)
    /\ ~(~accepting /\ stop)
    /\ Close(c, "discard")
    /\ Discard
    /\ UNCHANGED phase

(* The early return of either call when the pool is already closing.       *)
StopReturnsEarly(c, how) ==
    /\ CanCall(c)
    /\ IF how = "drain" THEN ~accepting ELSE ~accepting /\ stop
    /\ early' = early \cup {how}
    /\ UNCHANGED <<poolVars, workers, tasks, future, pc, current, cpc, toJoin,
                   shutdown, threw>>

(* Mutant: a stop call notifies one thread only.                           *)
NotifyOneOnStop(c) ==
    /\ cpc[c] = "notifyAll"
    /\ IF Waiting = {} THEN pc' = pc
       ELSE \E w \in Waiting : pc' = [pc EXCEPT ![w] = "woken"]
    /\ cpc' = [cpc EXCEPT ![c] = "swap"]
    /\ UNCHANGED <<poolVars, workers, tasks, future, current, toJoin, shutdown,
                   early, threw>>

notify_all(c) ==
    /\ cpc[c] = "notifyAll"
    /\ pc' = [w \in Workers |-> IF w \in Waiting THEN "woken" ELSE pc[w]]
    /\ cpc' = [cpc EXCEPT ![c] = "swap"]
    /\ UNCHANGED <<poolVars, workers, tasks, future, current, toJoin, shutdown,
                   early, threw>>

(* join_all_workers: take the container over under mtx_, then join.  An    *)
(* exited thread stays exited, so the order of the joins does not matter.  *)
SwapWorkers(c) ==
    /\ cpc[c] = "swap"
    /\ toJoin' = [toJoin EXCEPT ![c] = workers]
    /\ workers' = {}
    /\ cpc' = [cpc EXCEPT ![c] = "join"]
    /\ UNCHANGED <<poolVars, tasks, future, pc, current, shutdown, early, threw>>

Join(c, w) ==
    /\ cpc[c] = "join"
    /\ w \in toJoin[c]
    /\ pc[w] = "exited"
    /\ pc' = [pc EXCEPT ![w] = "none"]
    /\ toJoin' = [toJoin EXCEPT ![c] = @ \ {w}]
    /\ UNCHANGED <<poolVars, workers, tasks, future, current, cpc, shutdown,
                   early, threw>>

StopReturns(c) ==
    /\ cpc[c] = "join"
    /\ toJoin[c] = {}
    /\ cpc' = [cpc EXCEPT ![c] = "idle"]
    /\ phase' = IF phase = "destroying" THEN "destroyed" ELSE phase
    /\ UNCHANGED <<accepting, stop, workers, tasks, future, pc, current, toJoin,
                   shutdown, early, threw>>

(* ~ThreadPool, which C++ allows only once every other call has returned:   *)
(* it calls stop_immediately unless the pool was stopped and emptied, and   *)
(* stop_immediately has an early return of its own.                         *)
CanDestroy == phase = "open" /\ \A c \in Clients : cpc[c] = "idle"

(* Mutant: && for || in the destructor's condition.                        *)
MustStopAnd == ~stop /\ workers = {}

MustStop == (~stop \/ workers # {}) /\ ~(~accepting /\ stop)

DestroyRunning ==
    /\ CanDestroy /\ MustStop
    /\ phase' = "destroying"
    /\ Close(Owner, "discard")
    /\ Discard

DestroyStopped ==
    /\ CanDestroy /\ ~MustStop
    /\ phase' = "destroyed"
    /\ UNCHANGED <<accepting, stop, workers, tasks, future, pc, current,
                   clientVars>>

-----------------------------------------------------------------------------
(* worker_loop.  A thread about to take mtx_ is at "loop" (top of the       *)
(* loop), "woken" (out of cv_ by a notification) or "expired" (out of       *)
(* wait_for by the one second timeout).                                     *)
Locks(w) == pc[w] \in {"loop", "woken", "expired"}

(* tasks_.top(): a lowest priority value; equal values come in any order.   *)
IsTop(t) == t \in tasks /\ \A u \in tasks : Priority[t] <= Priority[u]

(* Mutant: the task is read from the top of the queue but not popped.      *)
TakeWithoutPop(w) ==
    /\ Locks(w)
    /\ \E t \in Tasks :
          /\ IsTop(t)
          /\ tasks' = tasks
          /\ current' = [current EXCEPT ![w] = t]
    /\ pc' = [pc EXCEPT ![w] = "run"]
    /\ UNCHANGED <<poolVars, workers, future, clientVars>>

(* Mutant: a thread woken by the stop takes from an empty queue.           *)
TakeFromEmpty(w) ==
    /\ Locks(w)
    /\ tasks = {} /\ stop
    /\ current' = [current EXCEPT ![w] = "garbage"]
    /\ pc' = [pc EXCEPT ![w] = "run"]
    /\ UNCHANGED <<poolVars, workers, tasks, future, clientVars>>

TakeTask(w) ==
    /\ Locks(w)
    /\ \E t \in Tasks :
          /\ IsTop(t)
          /\ tasks' = tasks \ {t}
          /\ current' = [current EXCEPT ![w] = t]
    /\ pc' = [pc EXCEPT ![w] = "run"]
    /\ UNCHANGED <<poolVars, workers, future, clientVars>>

(* Mutant: a thread exits on stop_ without looking at the queue.           *)
ExitWithoutDraining(w) ==
    /\ Locks(w)
    /\ stop
    /\ pc' = [pc EXCEPT ![w] = "exited"]
    /\ UNCHANGED <<poolVars, workers, tasks, future, current, clientVars>>

Exit(w) ==
    /\ Locks(w)
    /\ stop /\ tasks = {}
    /\ pc' = [pc EXCEPT ![w] = "exited"]
    /\ UNCHANGED <<poolVars, workers, tasks, future, current, clientVars>>

(* Mutant: a thread waits on cv_ without testing the predicate first.      *)
WaitUnchecked(w) ==
    /\ pc[w] \in {"loop", "woken"}
    /\ ~stop
    /\ pc' = [pc EXCEPT ![w] = "wait"]
    /\ UNCHANGED <<poolVars, workers, tasks, future, current, clientVars>>

Wait(w) ==
    /\ pc[w] \in {"loop", "woken"}
    /\ tasks = {} /\ ~stop
    /\ pc' = [pc EXCEPT ![w] = "wait"]
    /\ UNCHANGED <<poolVars, workers, tasks, future, current, clientVars>>

(* A timed-out idle thread above the core size detaches itself and ends.    *)
(* Mutant: >= for > in the test against the core size.                     *)
ShrinkBelowCore(w) ==
    /\ pc[w] = "expired"
    /\ tasks = {} /\ ~stop
    /\ Cardinality(workers) >= CoreThreads
    /\ workers' = workers \ {w}
    /\ pc' = [pc EXCEPT ![w] = "none"]
    /\ UNCHANGED <<poolVars, tasks, future, current, clientVars>>

Shrink(w) ==
    /\ pc[w] = "expired"
    /\ tasks = {} /\ ~stop
    /\ Cardinality(workers) > CoreThreads
    /\ workers' = workers \ {w}
    /\ pc' = [pc EXCEPT ![w] = "none"]
    /\ UNCHANGED <<poolVars, tasks, future, current, clientVars>>

StayCore(w) ==
    /\ pc[w] = "expired"
    /\ tasks = {} /\ ~stop
    /\ Cardinality(workers) <= CoreThreads
    /\ pc' = [pc EXCEPT ![w] = "loop"]
    /\ UNCHANGED <<poolVars, workers, tasks, future, current, clientVars>>

(* The task runs outside mtx_ and ends in a value or an exception, either   *)
(* of which packaged_task stores in the future.                             *)
FinishTask(w) ==
    /\ pc[w] = "run"
    /\ future' = [future EXCEPT ![current[w]] = "ready"]
    /\ current' = [current EXCEPT ![w] = NoTask]
    /\ pc' = [pc EXCEPT ![w] = "loop"]
    /\ UNCHANGED <<poolVars, workers, tasks, clientVars>>

LeaveWait(w, to) ==
    /\ pc[w] = "wait"
    /\ pc' = [pc EXCEPT ![w] = to]
    /\ UNCHANGED <<poolVars, workers, tasks, future, current, clientVars>>

(* wait_for is used only by an elastic pool; a fixed one waits for ever.    *)
Timeout(w) == Elastic /\ LeaveWait(w, "expired")

SpuriousWake(w) == LeaveWait(w, "woken")

-----------------------------------------------------------------------------
WorkerStep(w) ==
    \/ TakeTask(w) \/ Exit(w) \/ Wait(w) \/ Shrink(w) \/ StayCore(w)
    \/ FinishTask(w)

(* What a client that has begun a call does next.                           *)
ClientStep(c) ==
    \/ notify_one(c) \/ notify_all(c) \/ SwapWorkers(c) \/ StopReturns(c)
    \/ \E w \in Workers : Join(c, w)

ClientCall(c) ==
    \/ \E t \in Tasks : \/ SubmitRejected(c, t) \/ SubmitQueued(c, t)
                        \/ SubmitGrows(c, t) \/ SubmitSpawnFails(c, t)
    \/ WaitAndStop(c) \/ StopImmediately(c)
    \/ \E how \in {"drain", "discard"} : StopReturnsEarly(c, how)

Gone == phase = "destroyed" /\ UNCHANGED vars

Next ==
    \/ Construct
    \/ \E c \in Clients : ClientCall(c) \/ ClientStep(c)
    \/ DestroyRunning \/ DestroyStopped
    \/ \E w \in Workers : WorkerStep(w) \/ Timeout(w) \/ SpuriousWake(w)
    \/ Gone

Spec == Init /\ [][Next]_vars

(* The constructor, a begun call, a runnable thread and a task (assumed to  *)
(* terminate) go on.  The deadline of wait_for is absolute, so a spurious   *)
(* wake-up does not put it off: strong fairness.  No call has to be made.   *)
FairSpec ==
    /\ Spec
    /\ WF_vars(Construct)
    /\ \A c \in Clients : WF_vars(ClientStep(c))
    /\ \A w \in Workers : WF_vars(WorkerStep(w)) /\ SF_vars(Timeout(w))

-----------------------------------------------------------------------------
Running(t) == {w \in Workers : current[w] = t}

Live(w) == pc[w] \in Awake \cup {"wait"}

(* A task whose future is pending is in exactly one place, queued or being  *)
(* run by one thread, and no settled task is anywhere: nothing is lost,     *)
(* run twice, or run after it was discarded.                                *)
FutureAccounting ==
    \A t \in Tasks :
       IF future[t] = "pending"
       THEN IF t \in tasks THEN Running(t) = {}
            ELSE \E w \in Workers : Running(t) = {w}
       ELSE t \notin tasks /\ Running(t) = {}

(* No lost wake-up: while a task is queued some thread is on its way to the *)
(* queue, or a client is about to notify.                                   *)
NoStrandedTask ==
    tasks # {} => \/ \E w \in Workers : pc[w] \in Awake
                  \/ \E c \in Clients : cpc[c] \in {"notifyOne", "notifyAll"}

(* Between the constructor and the first stop the pool never shrinks below  *)
(* the core size nor grows beyond the limit.                                *)
WorkerBounds ==
    phase # "constructing" /\ ~stop =>
       /\ Cardinality(workers) >= CoreThreads
       /\ Cardinality(workers) <= IF Elastic THEN max_threads ELSE CoreThreads

(* The pool grows as far as the backlog asks and the limit and the system   *)
(* allow: more queued tasks than threads only at the limit, or after a      *)
(* submit that failed to create a thread.                                   *)
GrowsWithBacklog ==
    ~stop /\ Cardinality(tasks) > Cardinality(workers) =>
       Cardinality(workers) >= max_threads \/ threw # {}

(* Once the stop call that won has returned, every thread is gone and every *)
(* future settled; if it was wait_and_stop, no task was discarded.          *)
ShutdownComplete ==
    stop /\ (\A c \in Clients : cpc[c] \notin Stopping) =>
       /\ workers = {}
       /\ \A w \in Workers : pc[w] = "none"
       /\ \A t \in Tasks : future[t] # "pending"
       /\ shutdown = "drain" => \A t \in Tasks : future[t] # "broken"

(* No thread that could touch a member is left when the pool is destroyed,  *)
(* detached ones included.                                                  *)
NoThreadOutlivesPool ==
    phase = "destroyed" => \A w \in Workers : ~Live(w)

(* Every accepted task is eventually run or discarded.                      *)
EveryTaskSettles ==
    \A t \in Tasks : (future[t] = "pending") ~> (future[t] \in {"ready", "broken"})

(* A stop call, and so the destructor, returns.                             *)
StopCallReturns ==
    \A c \in Clients : (cpc[c] = "notifyAll") ~> (cpc[c] = "idle")

(* An elastic pool comes back to its core size whenever it stays idle.      *)
ShrinksWhenIdle ==
    []<>(\/ tasks # {} \/ \E w \in Workers : pc[w] = "run"
         \/ Cardinality(workers) <= CoreThreads)

-----------------------------------------------------------------------------
(* What ThreadPool.h:163-168 says and the code does not keep.               *)

(* "stop_immediately: the queue is emptied at once, tasks not executed are  *)
(* all discarded."                                                          *)
StopImmediatelyEmptiesQueue == "discard" \in early => tasks = {}
=============================================================================
