------------------------------ MODULE EventLoop ------------------------------
(***************************************************************************)
(* EventLoop of reactor_net, its eventfd wake-up and its queue of functors, *)
(* run by the thread of an EventLoopThread.                                 *)
(*                                                                         *)
(* The loop thread, the owner of the EventLoopThread and the clients that   *)
(* hold the pointer startLoop returned interleave at every mutex_ section,  *)
(* access to quit_ and use of the eventfd.  Channels other than the wake-up *)
(* channel are external: at any time one may be ready, and its callback may *)
(* queue a functor, quit, or do neither.                                    *)
(***************************************************************************)
EXTENDS Naturals, Sequences

CONSTANTS Functors, Clients

VARIABLES
    tpc,       \* where the loop thread is
    looping,   \* looping_
    quit,      \* quit_
    signaled,  \* the eventfd counter is not 0
    active,    \* activeChannels_ still to handle: "wakeup", "io"
    pending,   \* pendingFunctors_
    batch,     \* functors of doPendingFunctors, those still to call
    calling,   \* callingPendingFunctors_
    loop_,     \* EventLoopThread::loop_ is not null
    poller,    \* poller_ is not null
    opc,       \* where the owner is
    cpc,       \* where each client is: "idle" or about to "wakeup"
    queued,    \* ghost: every functor ever queued, in order
    executed   \* ghost: every functor called, in order

loopVars   == <<looping, quit, signaled, active, calling>>
queueVars  == <<pending, batch, queued, executed>>
threadVars == <<loop_, poller>>
vars == <<tpc, loopVars, queueVars, threadVars, opc, cpc>>

(* The loop thread is inside loop().                                       *)
InLoop == {"while", "poll", "handle", "pending", "call"}

TypeOK ==
    /\ tpc \in {"none", "created", "published", "returned", "cleared",
                "members", "crashed"} \cup InLoop
    /\ looping \in BOOLEAN /\ quit \in BOOLEAN /\ signaled \in BOOLEAN
    /\ active \subseteq {"wakeup", "io"}
    /\ calling \in BOOLEAN
    /\ pending \in Seq(Functors) /\ batch \in Seq(Functors)
    /\ queued \in Seq(Functors) /\ executed \in Seq(Functors)
    /\ loop_ \in BOOLEAN /\ poller \in BOOLEAN
    /\ opc \in {"new", "starting", "waiting", "started", "quitting", "wakeup", "join"}
    /\ cpc \in [Clients -> {"idle", "wakeup"}]

Init ==
    /\ tpc = "none"
    /\ looping = FALSE /\ quit = FALSE /\ signaled = FALSE
    /\ active = {} /\ calling = FALSE
    /\ pending = <<>> /\ batch = <<>> /\ queued = <<>> /\ executed = <<>>
    /\ loop_ = FALSE /\ poller = FALSE
    /\ opc = "new"
    /\ cpc = [c \in Clients |-> "idle"]

-----------------------------------------------------------------------------
(* queueInLoop pushes under mutex_.  Each functor is queued once, which     *)
(* bounds the behaviours.                                                   *)
Push(f) ==
    /\ \A i \in DOMAIN queued : queued[i] # f
    /\ pending' = Append(pending, f)
    /\ queued' = Append(queued, f)

NoPush == UNCHANGED <<pending, queued>>

(* Mutant: queueInLoop on the loop thread never writes the eventfd.         *)
OnLoopThreadSilent ==
    \/ /\ \E f \in Functors : Push(f)
       /\ UNCHANGED <<quit, signaled>>
    \/ quit' = TRUE /\ NoPush /\ UNCHANGED signaled
    \/ NoPush /\ UNCHANGED <<quit, signaled>>

(* What a callback or a functor may do on the loop thread: call queueInLoop,*)
(* which writes the eventfd only while functors are being called, or quit,  *)
(* which does not write it, or nothing.                                     *)
OnLoopThread ==
    \/ /\ \E f \in Functors : Push(f)
       /\ signaled' = (signaled \/ calling)
       /\ UNCHANGED quit
    \/ quit' = TRUE /\ NoPush /\ UNCHANGED signaled
    \/ NoPush /\ UNCHANGED <<quit, signaled>>

-----------------------------------------------------------------------------
(* The loop thread: threadFunc, and loop() inside it.                       *)
CreateLoop ==
    /\ tpc = "none" /\ opc # "new"
    /\ poller' = TRUE
    /\ tpc' = "created"
    /\ UNCHANGED <<loopVars, queueVars, loop_, opc, cpc>>

(* Mutant: the loop is published without notify_one.                        *)
PublishSilently ==
    /\ tpc = "created"
    /\ loop_' = TRUE
    /\ tpc' = "published"
    /\ UNCHANGED <<loopVars, queueVars, poller, opc, cpc>>

(* Under the mutex of EventLoopThread, notify_one included.                 *)
Publish ==
    /\ tpc = "created"
    /\ loop_' = TRUE
    /\ opc' = IF opc = "waiting" THEN "starting" ELSE opc
    /\ tpc' = "published"
    /\ UNCHANGED <<loopVars, queueVars, poller, cpc>>

EnterLoop ==
    /\ tpc = "published"
    /\ looping' = TRUE
    /\ quit' = FALSE
    /\ tpc' = "while"
    /\ UNCHANGED <<signaled, active, calling, queueVars, threadVars, opc, cpc>>

TestQuit ==
    /\ tpc = "while"
    /\ tpc' = IF quit THEN "returned" ELSE "poll"
    /\ looping' = ~quit
    /\ active' = {}
    /\ UNCHANGED <<quit, signaled, calling, queueVars, threadVars, opc, cpc>>

(* epoll_wait reports what is ready; it blocks while nothing is.  There are *)
(* other channels only once startLoop has handed the pointer out.           *)
Started == opc \notin {"new", "starting", "waiting"}

PollReturns(ready) ==
    /\ tpc = "poll"
    /\ active' = ready
    /\ tpc' = "handle"
    /\ UNCHANGED <<looping, quit, signaled, calling, queueVars, threadVars, opc, cpc>>

PollWakeup ==
    signaled /\ \E io \in SUBSET {"io"} : PollReturns({"wakeup"} \cup io)

PollIO == ~signaled /\ Started /\ PollReturns({"io"})

PollTimeout == ~signaled /\ PollReturns({})

(* handleWakeup reads the eventfd, which zeroes it.                         *)
HandleWakeup ==
    /\ tpc = "handle" /\ "wakeup" \in active
    /\ signaled' = FALSE
    /\ active' = active \ {"wakeup"}
    /\ UNCHANGED <<tpc, looping, quit, calling, queueVars, threadVars, opc, cpc>>

HandleIO ==
    /\ tpc = "handle" /\ "io" \in active
    /\ OnLoopThread
    /\ active' = active \ {"io"}
    /\ UNCHANGED <<tpc, looping, calling, batch, executed, threadVars, opc, cpc>>

EventsHandled ==
    /\ tpc = "handle" /\ active = {}
    /\ calling' = TRUE
    /\ tpc' = "pending"
    /\ UNCHANGED <<looping, quit, signaled, active, queueVars, threadVars, opc, cpc>>

(* Mutant: the functors are copied out of the queue, not swapped.           *)
CopyPending ==
    /\ tpc = "pending"
    /\ batch' = pending
    /\ tpc' = "call"
    /\ UNCHANGED <<loopVars, pending, queued, executed, threadVars, opc, cpc>>

SwapPending ==
    /\ tpc = "pending"
    /\ batch' = pending
    /\ pending' = <<>>
    /\ tpc' = "call"
    /\ UNCHANGED <<loopVars, queued, executed, threadVars, opc, cpc>>

CallFunctor ==
    /\ tpc = "call" /\ batch # <<>>
    /\ OnLoopThread
    /\ executed' = Append(executed, Head(batch))
    /\ batch' = Tail(batch)
    /\ UNCHANGED <<tpc, looping, active, calling, threadVars, opc, cpc>>

PendingDone ==
    /\ tpc = "call" /\ batch = <<>>
    /\ calling' = FALSE
    /\ tpc' = "while"
    /\ UNCHANGED <<looping, quit, signaled, active, queueVars, threadVars, opc, cpc>>

ClearLoop ==
    /\ tpc = "returned"
    /\ loop_' = FALSE
    /\ tpc' = "cleared"
    /\ UNCHANGED <<loopVars, queueVars, poller, opc, cpc>>

(* ~EventLoop: the body deletes the poller, then the members are destroyed, *)
(* and ~TimerQueue disables its channel, an update on the poller.  On a     *)
(* null poller that is the end of the process.                              *)
DestroyBody ==
    /\ tpc = "cleared"
    /\ poller' = FALSE
    /\ tpc' = "members"
    /\ UNCHANGED <<loopVars, queueVars, loop_, opc, cpc>>

DestroyTimerQueue ==
    /\ tpc = "members" /\ ~poller
    /\ tpc' = "crashed"
    /\ UNCHANGED <<loopVars, queueVars, threadVars, opc, cpc>>

LoopThread ==
    \/ CreateLoop \/ Publish \/ EnterLoop \/ TestQuit \/ PollWakeup
    \/ HandleWakeup \/ HandleIO \/ EventsHandled \/ SwapPending \/ CallFunctor
    \/ PendingDone \/ ClearLoop \/ DestroyBody \/ DestroyTimerQueue

-----------------------------------------------------------------------------
(* The owner: startLoop, then ~EventLoopThread, which reads loop_ without   *)
(* its mutex.  The join that follows never returns: the thread ends in a    *)
(* crash or not at all.                                                     *)
StartThread ==
    /\ opc = "new"
    /\ opc' = "starting"
    /\ UNCHANGED <<tpc, loopVars, queueVars, threadVars, cpc>>

StartWaits ==
    /\ opc = "starting" /\ tpc # "crashed"
    /\ opc' = IF loop_ THEN "started" ELSE "waiting"
    /\ UNCHANGED <<tpc, loopVars, queueVars, threadVars, cpc>>

DtorReadsLoop ==
    /\ opc = "started" /\ tpc # "crashed"
    /\ opc' = IF loop_ THEN "quitting" ELSE "join"
    /\ UNCHANGED <<tpc, loopVars, queueVars, threadVars, cpc>>

DtorQuits ==
    /\ opc = "quitting" /\ tpc # "crashed"
    /\ quit' = TRUE
    /\ opc' = "wakeup"
    /\ UNCHANGED <<tpc, looping, signaled, active, calling, queueVars, threadVars, cpc>>

DtorWakes ==
    /\ opc = "wakeup" /\ tpc # "crashed"
    /\ signaled' = TRUE
    /\ opc' = "join"
    /\ UNCHANGED <<tpc, looping, quit, active, calling, queueVars, threadVars, cpc>>

OwnerStep == StartWaits \/ DtorQuits \/ DtorWakes

(* Clients use the pointer only while the loop exists.                      *)
CanCall(c) ==
    /\ cpc[c] = "idle"
    /\ Started
    /\ tpc \in InLoop \cup {"published", "returned"}

(* Mutant: queueInLoop from another thread does not wake the loop.          *)
QueueSilently(c) ==
    /\ CanCall(c)
    /\ \E f \in Functors : Push(f)
    /\ UNCHANGED <<tpc, loopVars, batch, executed, threadVars, opc, cpc>>

QueueInLoop(c) ==
    /\ CanCall(c)
    /\ \E f \in Functors : Push(f)
    /\ cpc' = [cpc EXCEPT ![c] = "wakeup"]
    /\ UNCHANGED <<tpc, loopVars, batch, executed, threadVars, opc>>

(* Mutant: quit() from another thread does not wake the loop.               *)
QuitSilently(c) ==
    /\ CanCall(c)
    /\ quit' = TRUE
    /\ UNCHANGED <<tpc, looping, signaled, active, calling, queueVars,
                   threadVars, opc, cpc>>

Quit(c) ==
    /\ CanCall(c)
    /\ quit' = TRUE
    /\ cpc' = [cpc EXCEPT ![c] = "wakeup"]
    /\ UNCHANGED <<tpc, looping, signaled, active, calling, queueVars, threadVars, opc>>

Wakeup(c) ==
    /\ cpc[c] = "wakeup" /\ tpc # "crashed"
    /\ signaled' = TRUE
    /\ cpc' = [cpc EXCEPT ![c] = "idle"]
    /\ UNCHANGED <<tpc, looping, quit, active, calling, queueVars, threadVars, opc>>

Ended == tpc = "crashed" /\ UNCHANGED vars

Next ==
    \/ LoopThread \/ PollIO \/ PollTimeout
    \/ StartThread \/ OwnerStep \/ DtorReadsLoop
    \/ \E c \in Clients : QueueInLoop(c) \/ Quit(c) \/ Wakeup(c)
    \/ Ended

Spec == Init /\ [][Next]_vars

(* Threads that can go on do; a blocked epoll_wait returns when the eventfd *)
(* is readable.  Neither I/O nor the ten second timeout is counted on.      *)
FairSpec ==
    /\ Spec
    /\ WF_vars(LoopThread) /\ WF_vars(OwnerStep)
    /\ \A c \in Clients : WF_vars(Wakeup(c))

-----------------------------------------------------------------------------
Waking == opc = "wakeup" \/ \E c \in Clients : cpc[c] = "wakeup"

(* The loop never goes to sleep in poll on work another thread gave it, nor *)
(* on a quit: the eventfd is readable or about to be.                       *)
NoSleepOnWork ==
    tpc = "poll" /\ (pending # <<>> \/ quit) => signaled \/ Waking

(* Functors run in the order they were queued, each once.                   *)
QueueOrder == queued = executed \o batch \o pending

(* A functor queued while the loop runs is called, unless the loop quits.   *)
QueuedIsCalled ==
    \A f \in Functors :
       (\E i \in DOMAIN pending : pending[i] = f) ~>
          \/ \E i \in DOMAIN executed : executed[i] = f
          \/ tpc \notin InLoop

(* quit() on a loop that has been entered ends it.                          *)
QuitEndsLoop == (quit /\ tpc \in InLoop) ~> (tpc \notin InLoop)

(* startLoop returns.                                                       *)
StartLoopReturns == (opc = "starting") ~> (opc = "started")

-----------------------------------------------------------------------------
(* EventLoop.h:29, "Signal the loop to stop after the current iteration":   *)
(* not so for a quit() between the publication of the loop and loop().      *)
QuitIsObeyed == (opc = "join" /\ loop_) ~> (tpc \notin InLoop)

(* Poller.h:24, "Remove a channel from the interest list": whatever takes a *)
(* channel of a loop off its poller finds the poller.                       *)
RemovalHasPoller == tpc = "members" => poller
=============================================================================
