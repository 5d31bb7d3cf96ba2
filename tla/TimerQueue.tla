----------------------------- MODULE TimerQueue -----------------------------
(***************************************************************************)
(* TimerQueue of reactor_net: a heap of timers behind one timerfd, served   *)
(* by the thread of an EventLoop and used from it and from other threads.   *)
(*                                                                         *)
(* Time is counted in ticks and relative: due[t] is how far the expiration  *)
(* of t is away, and TimePasses brings everything nearer.  A tick is the    *)
(* shortest time the timerfd is ever set to (100 microseconds).  A name in  *)
(* Timers is the address of a Timer: new takes a free one, delete frees it  *)
(* for reuse.                                                              *)
(*                                                                         *)
(* Bounds: MaxDelay on delays and intervals, MaxLag on how long the thread  *)
(* takes to get back to its timers, MaxPending on functors in the queue.    *)
(***************************************************************************)
EXTENDS Integers, Sequences, SequencesExt, FiniteSets

CONSTANTS Timers, MaxDelay, MaxLag, MaxPending

ASSUME TimersAssumption ==
    /\ IsFiniteSet(Timers)
    /\ MaxDelay \in Nat \ {0} /\ MaxLag \in Nat \ {0} /\ MaxPending \in Nat

Off == MaxDelay + 1   \* a timerfd that is not set

VARIABLES
    timers,        \* timers_, the heap, as a set: its front is a minimum
    activeTimers,  \* activeTimers_
    due,           \* ticks until expiration_, negative once it is past
    interval,      \* interval_, 0 for a timer that does not repeat
    fd,            \* ticks until the timerfd is readable, 0 when it is
    qpc,           \* where the loop thread is
    active,        \* activeChannels_ still to handle: "timer", "io"
    expired,       \* the local expired of handleRead
    called,        \* how many of them have been run
    age,           \* ticks since handleRead took its now
    pending,       \* pendingFunctors_ that insert or cancel a timer
    calling        \* functors of doPendingFunctors, those still to call

heapVars  == <<timers, activeTimers, due, interval, fd>>
roundVars == <<active, expired, called, age>>
timerVars == <<heapVars, roundVars, qpc, pending, calling>>

Functors == [op : {"insert", "cancel"}, timer : Timers]

TimersTypeOK ==
    /\ timers \subseteq Timers /\ activeTimers \subseteq Timers
    /\ due \in [Timers -> -MaxLag - 1 .. MaxDelay]
    /\ interval \in [Timers -> 0 .. MaxDelay]
    /\ fd \in 0 .. Off
    /\ qpc \in {"poll", "handle", "run", "pending", "call", "dead"}
    /\ active \subseteq {"timer", "io"}
    /\ expired \in Seq(Timers) /\ called \in 0 .. Len(expired)
    /\ age \in 0 .. MaxLag
    /\ pending \in Seq(Functors) /\ calling \in Seq(Functors)

TimersInit ==
    /\ timers = {} /\ activeTimers = {}
    /\ due = [t \in Timers |-> 0] /\ interval = [t \in Timers |-> 0]
    /\ fd = Off
    /\ qpc = "poll" /\ active = {}
    /\ expired = <<>> /\ called = 0 /\ age = 0
    /\ pending = <<>> /\ calling = <<>>

Queued(op) ==
    {f.timer : f \in {g \in ToSet(pending) \cup ToSet(calling) : g.op = op}}

(* The addresses of timers that are not deleted.                           *)
Alive == timers \cup activeTimers \cup ToSet(expired) \cup Queued("insert")

-----------------------------------------------------------------------------
(* The heap and the timerfd.                                               *)
Earliest(S, d) == CHOOSE t \in S : \A u \in S : d[t] <= d[u]

(* resetTimerfd with howMuchTimeFromNow; setting it also clears it.         *)
Armed(d) == IF d < 1 THEN 1 ELSE d

(* Mutant: the timerfd is set only for the first timer.                    *)
InsertArmsFirst(t, d) ==
    /\ timers' = timers \cup {t}
    /\ activeTimers' = activeTimers \cup {t}
    /\ fd' = IF timers = {} THEN Armed(d) ELSE fd

(* insert, of a timer that expires in d.                                   *)
insert(t, d) ==
    /\ timers' = timers \cup {t}
    /\ activeTimers' = activeTimers \cup {t}
    /\ fd' = IF timers = {} \/ d < due[Earliest(timers, due)] THEN Armed(d) ELSE fd

(* The functor of cancel: only a timer in the active set is deleted.        *)
cancelInLoop(t) ==
    IF t \in activeTimers
    THEN /\ timers' = timers \ {t}
         /\ activeTimers' = activeTimers \ {t}
         /\ due' = [due EXCEPT ![t] = 0]
         /\ interval' = [interval EXCEPT ![t] = 0]
         /\ UNCHANGED fd
    ELSE UNCHANGED heapVars

Call(f) ==
    IF f.op = "insert"
    THEN insert(f.timer, due[f.timer]) /\ UNCHANGED <<due, interval>>
    ELSE cancelInLoop(f.timer)

(* addTimer on the loop thread, where runInLoop inserts at once.            *)
AddHere ==
    \E t \in Timers \ Alive, d \in 0 .. MaxDelay, i \in 0 .. MaxDelay :
       /\ insert(t, d)
       /\ due' = [due EXCEPT ![t] = d]
       /\ interval' = [interval EXCEPT ![t] = i]

(* What a callback on the loop thread may do with the timers.               *)
Use == AddHere \/ (\E t \in Timers : cancelInLoop(t)) \/ UNCHANGED heapVars

-----------------------------------------------------------------------------
(* The loop thread.  Poll returns for the timerfd, another channel, a       *)
(* wake-up or its timeout.                                                 *)
Poll ==
    /\ qpc = "poll"
    /\ active' \in SUBSET {"timer", "io"}
    /\ ("timer" \in active') <=> (fd = 0)
    /\ qpc' = "handle"
    /\ UNCHANGED <<heapVars, expired, called, age, pending, calling>>

HandleIo ==
    /\ qpc = "handle" /\ "io" \in active
    /\ active' = active \ {"io"}
    /\ Use
    /\ UNCHANGED <<qpc, expired, called, age, pending, calling>>

(* Mutant: the expired timers stay in the active set.                      *)
ExpiredStayActive(E) == activeTimers

(* getExpired drops from the active set what it takes from the heap.        *)
ActiveAfter(E) == activeTimers \ E

(* handleRead up to the callbacks.  The read gets nothing when a callback   *)
(* before it in this round has set the timerfd anew.                        *)
HandleRead ==
    /\ qpc = "handle" /\ "timer" \in active
    /\ active' = active \ {"timer"}
    /\ fd' = IF fd = 0 THEN Off ELSE fd
    /\ LET E == {t \in timers : due[t] <= 0} IN
       /\ timers' = timers \ E
       /\ activeTimers' = ActiveAfter(E)
       /\ \E s \in SetToSeqs(E) :
             /\ \A i, j \in 1 .. Len(s) : i < j => due[s[i]] <= due[s[j]]
             /\ expired' = s
    /\ called' = 0 /\ age' = 0
    /\ qpc' = "run"
    /\ UNCHANGED <<due, interval, pending, calling>>

RunExpired ==
    /\ qpc = "run" /\ called < Len(expired)
    /\ called' = called + 1
    /\ Use
    /\ UNCHANGED <<qpc, active, expired, age, pending, calling>>

(* Mutant: the timerfd is not set again after the callbacks.               *)
ResetLeavesFd(S, d) == fd

(* The last lines of reset.  They come after every insert of it and set the *)
(* timerfd to the same front.                                               *)
FdAfterReset(S, d) == IF S = {} THEN fd ELSE Armed(d[Earliest(S, d)])

Repeating == {t \in ToSet(expired) : interval[t] > 0}

Reset ==
    /\ qpc = "run" /\ called = Len(expired)
    /\ due' = [t \in Timers |-> IF t \in Repeating THEN interval[t] - age
                                ELSE IF t \in ToSet(expired) THEN 0 ELSE due[t]]
    /\ interval' = [t \in Timers |->
                      IF t \in ToSet(expired) \ Repeating THEN 0 ELSE interval[t]]
    /\ timers' = timers \cup Repeating
    /\ activeTimers' = activeTimers \cup Repeating
    /\ fd' = FdAfterReset(timers', due')
    /\ expired' = <<>> /\ called' = 0 /\ age' = 0
    /\ qpc' = "handle"
    /\ UNCHANGED <<active, pending, calling>>

Handled ==
    /\ qpc = "handle" /\ active = {}
    /\ qpc' = "pending"
    /\ UNCHANGED <<heapVars, roundVars, pending, calling>>

Swap ==
    /\ qpc = "pending"
    /\ calling' = pending /\ pending' = <<>>
    /\ qpc' = "call"
    /\ UNCHANGED <<heapVars, roundVars>>

CallFunctor ==
    /\ qpc = "call"
    /\ IF calling = <<>>
       THEN qpc' = "poll" /\ UNCHANGED <<heapVars, calling>>
       ELSE Call(Head(calling)) /\ calling' = Tail(calling) /\ UNCHANGED qpc
    /\ UNCHANGED <<roundVars, pending>>

(* ~TimerQueue, after the loop has left loop(), with the EventLoop it is a  *)
(* member of: what is in the heap is deleted, what waits in a functor leaks. *)
DestroyTimers ==
    /\ qpc = "poll"
    /\ timers' = {} /\ activeTimers' = {} /\ pending' = <<>>
    /\ due' = [t \in Timers |-> 0] /\ interval' = [t \in Timers |-> 0]
    /\ fd' = Off
    /\ qpc' = "dead"
    /\ UNCHANGED <<roundVars, calling>>

LoopStep ==
    Poll \/ HandleIo \/ HandleRead \/ RunExpired \/ Reset \/ Handled \/ Swap
      \/ CallFunctor

-----------------------------------------------------------------------------
(* The other threads.                                                      *)
AddElsewhere ==
    /\ qpc # "dead" /\ Len(pending) < MaxPending
    /\ \E t \in Timers \ Alive, d \in 0 .. MaxDelay, i \in 0 .. MaxDelay :
          /\ due' = [due EXCEPT ![t] = d]
          /\ interval' = [interval EXCEPT ![t] = i]
          /\ pending' = Append(pending, [op |-> "insert", timer |-> t])
    /\ UNCHANGED <<timers, activeTimers, fd, roundVars, qpc, calling>>

(* Any pointer addTimer ever returned may be passed, at any time.           *)
CancelElsewhere ==
    /\ qpc # "dead" /\ Len(pending) < MaxPending
    /\ \E t \in Timers : pending' = Append(pending, [op |-> "cancel", timer |-> t])
    /\ UNCHANGED <<heapVars, roundVars, qpc, calling>>

(* The timers that wait to expire.                                         *)
Waiting == timers \cup Queued("insert")

(* The thread is at most MaxLag late for its timers, besides the tick it    *)
(* still has to pass until the timerfd tells it.                            *)
InTime(t) == due[t] > -MaxLag \/ (t \in timers /\ fd \notin {0, Off})

TimePasses ==
    /\ \A t \in Waiting : InTime(t)
    /\ qpc = "run" => age < MaxLag
    /\ due' = [t \in Timers |-> IF t \in Waiting THEN due[t] - 1 ELSE due[t]]
    /\ fd' = IF fd \in {0, Off} THEN fd ELSE fd - 1
    /\ age' = IF qpc = "run" THEN age + 1 ELSE age
    /\ UNCHANGED <<timers, activeTimers, interval, active, expired, called, qpc,
                   pending, calling>>

TimersNext ==
    LoopStep \/ DestroyTimers \/ AddElsewhere \/ CancelElsewhere \/ TimePasses

(* The loop runs, every callback returns, and time passes.                  *)
TimersSpec ==
    /\ TimersInit /\ [][TimersNext]_timerVars
    /\ WF_timerVars(LoopStep) /\ WF_timerVars(TimePasses)

-----------------------------------------------------------------------------
(* Outside handleRead, whatever was inserted, cancelled or restarted and in *)
(* which order: while there is a timer the timerfd is set, and it is        *)
(* readable no later than the earliest expiration or the next tick.         *)
ArmedInTime ==
    qpc # "run" /\ timers # {} =>
       /\ fd # Off
       /\ \A t \in timers : fd <= due[t] \/ fd <= 1

(* A timer that is not deleted has one owner: the queued functor that will  *)
(* insert it, the heap together with the active set, or the handleRead that *)
(* is running.  A cancel deletes only what is in the heap, so nothing is    *)
(* deleted twice or used after it.                                          *)
OneOwner ==
    /\ timers = activeTimers
    /\ timers \cap ToSet(expired) = {}
    /\ Queued("insert") \cap (timers \cup ToSet(expired)) = {}
    /\ IsInjective(expired)
    /\ \A q \in {pending, calling} : \A i, j \in 1 .. Len(q) :
          q[i] = q[j] /\ q[i].op = "insert" => i = j
    /\ \A f \in ToSet(pending) \cap ToSet(calling) : f.op # "insert"

(* Every timer that is added leaves the heap, run or cancelled, however     *)
(* often other timers are added, cancelled and restarted around it.         *)
AddedLeaves == \A t \in Timers : (t \in Waiting) ~> (t \notin Waiting)
=============================================================================
