--------------------------- MODULE EventLoopProofs ---------------------------
(* What TLAPS proves of EventLoop, for any number of clients and functors.  *)
EXTENDS EventLoop, SequenceTheorems, TLAPS

USE DEF loopVars, queueVars, threadVars, InLoop

-----------------------------------------------------------------------------
(* Where the queues are empty, when the loop thread has to be told of work, *)
(* and what is already told: whatever is pending once the batch has been    *)
(* swapped out is announced on the eventfd, or somebody is about to.        *)
QuietQueues ==
    /\ tpc \in {"none", "created"} => pending = <<>>
    /\ tpc # "call" => batch = <<>>
    /\ tpc \in {"pending", "call"} => calling

Announced ==
    tpc \in {"published", "while", "poll", "call"} /\ pending # <<>> =>
       signaled \/ Waking

QuitAnnounced == tpc = "poll" /\ quit => signaled \/ Waking

LoopInv ==
    TypeOK /\ QuietQueues /\ Announced /\ QuitAnnounced /\ QueueOrder

(* The four ways the queues change keep the concatenation.                  *)
LEMMA PushToPending ==
  ASSUME NEW S, NEW x \in Seq(S), NEW p \in Seq(S), NEW f \in S
  PROVE  x \o Append(p, f) = Append(x \o p, f)
<1>1. x \o p \in Seq(S) /\ <<f>> \in Seq(S)
  BY ConcatProperties
<1>2. Append(x \o p, f) = (x \o p) \o <<f>> /\ Append(p, f) = p \o <<f>>
  BY <1>1, AppendIsConcat
<1>3. (x \o p) \o <<f>> = x \o (p \o <<f>>)
  BY <1>1, ConcatAssociative
<1> QED BY <1>2, <1>3

LEMMA PushKeepsOrder ==
  ASSUME NEW S, NEW e \in Seq(S), NEW b \in Seq(S), NEW p \in Seq(S), NEW f \in S
  PROVE  Append(e \o b \o p, f) = e \o b \o Append(p, f)
<1>1. e \o b \in Seq(S)
  BY ConcatProperties
<1>2. (e \o b) \o Append(p, f) = Append((e \o b) \o p, f)
  BY <1>1, PushToPending
<1> QED BY <1>2

LEMMA CallKeepsOrder ==
  ASSUME NEW S, NEW e \in Seq(S), NEW b \in Seq(S), b # <<>>
  PROVE  /\ Append(e, Head(b)) \o Tail(b) = e \o b
         /\ Tail(b) \in Seq(S) /\ Head(b) \in S
<1>1. Head(b) \in S /\ Tail(b) \in Seq(S)
  BY HeadTailProperties
<1>2. <<Head(b)>> \o Tail(b) = b
  <2>1. Len(b) \in Nat \ {0}
    BY EmptySeq
  <2>2. SubSeq(b, 1, Len(b)) = <<b[1]>> \o SubSeq(b, 2, Len(b))
    BY <2>1, SubSeqRecursiveFirst
  <2>3. SubSeq(b, 1, Len(b)) = b /\ Tail(b) = SubSeq(b, 2, Len(b))
    BY SubSeqFull, TailIsSubSeq
  <2>4. Head(b) = b[1]
    OBVIOUS
  <2> QED BY <2>2, <2>3, <2>4
<1>3. Append(e, Head(b)) = e \o <<Head(b)>>
  BY <1>1, AppendIsConcat
<1>4. (e \o <<Head(b)>>) \o Tail(b) = e \o (<<Head(b)>> \o Tail(b))
  BY <1>1, ConcatAssociative
<1> QED BY <1>1, <1>2, <1>3, <1>4

(* What a callback or a functor may do keeps the types.                     *)
LEMMA PushType ==
  ASSUME TypeOK, NEW f \in Functors, Push(f)
  PROVE  pending' \in Seq(Functors) /\ queued' \in Seq(Functors)
<1>1. pending' = Append(pending, f) /\ queued' = Append(queued, f)
  BY DEF Push
<1> QED BY <1>1, AppendProperties DEF TypeOK

LEMMA OnLoopThreadType ==
  ASSUME TypeOK, OnLoopThread
  PROVE  /\ pending' \in Seq(Functors) /\ queued' \in Seq(Functors)
         /\ quit' \in BOOLEAN /\ signaled' \in BOOLEAN
<1>1. CASE \E f \in Functors : Push(f) /\ signaled' = (signaled \/ calling)
                                /\ UNCHANGED quit
  <2>1. PICK f \in Functors : Push(f)
    BY <1>1
  <2>2. pending' \in Seq(Functors) /\ queued' \in Seq(Functors)
    BY <2>1, PushType
  <2>3. signaled' \in BOOLEAN /\ quit' \in BOOLEAN
    BY <1>1 DEF TypeOK
  <2> QED BY <2>2, <2>3
<1>2. CASE UNCHANGED <<pending, queued, signaled>> /\ quit' \in BOOLEAN
  BY <1>2 DEF TypeOK
<1> QED BY <1>1, <1>2 DEF OnLoopThread, NoPush, TypeOK

(* Every step of the program keeps the types.                               *)
LEMMA TypeStep == TypeOK /\ [Next]_vars => TypeOK'
<1> SUFFICES ASSUME TypeOK, [Next]_vars PROVE TypeOK'
  OBVIOUS
<1> USE DEF TypeOK
<1>1. CASE LoopThread
  <2>1. CASE CreateLoop
    BY <2>1 DEF CreateLoop
  <2>2. CASE Publish
    BY <2>2 DEF Publish
  <2>3. CASE EnterLoop
    BY <2>3 DEF EnterLoop
  <2>4. CASE TestQuit
    BY <2>4 DEF TestQuit
  <2>5. CASE PollWakeup
    BY <2>5 DEF PollWakeup, PollReturns
  <2>6. CASE HandleWakeup
    BY <2>6 DEF HandleWakeup
  <2>7. CASE HandleIO
    BY <2>7, OnLoopThreadType DEF HandleIO
  <2>8. CASE EventsHandled
    BY <2>8 DEF EventsHandled
  <2>9. CASE SwapPending
    BY <2>9 DEF SwapPending
  <2>10. CASE CallFunctor
    <3>1. Head(batch) \in Functors /\ Tail(batch) \in Seq(Functors)
      BY <2>10, HeadTailProperties DEF CallFunctor
    <3>2. executed' \in Seq(Functors) /\ batch' \in Seq(Functors)
      BY <2>10, <3>1, AppendProperties DEF CallFunctor
    <3> QED BY <2>10, <3>2, OnLoopThreadType DEF CallFunctor
  <2>11. CASE PendingDone
    BY <2>11 DEF PendingDone
  <2>12. CASE ClearLoop \/ DestroyBody \/ DestroyTimerQueue
    BY <2>12 DEF ClearLoop, DestroyBody, DestroyTimerQueue
  <2> QED BY <1>1, <2>1, <2>2, <2>3, <2>4, <2>5, <2>6, <2>7, <2>8, <2>9, <2>10,
             <2>11, <2>12 DEF LoopThread
<1>2. CASE PollIO \/ PollTimeout
  BY <1>2 DEF PollIO, PollTimeout, PollReturns
<1>3. CASE StartThread \/ OwnerStep \/ DtorReadsLoop
  <2>1. CASE StartThread
    BY <2>1 DEF StartThread
  <2>2. CASE StartWaits
    BY <2>2 DEF StartWaits
  <2>3. CASE DtorReadsLoop
    BY <2>3 DEF DtorReadsLoop
  <2>4. CASE DtorQuits
    BY <2>4 DEF DtorQuits
  <2>5. CASE DtorWakes
    BY <2>5 DEF DtorWakes
  <2> HIDE DEF TypeOK
  <2> QED BY <1>3, <2>1, <2>2, <2>3, <2>4, <2>5 DEF OwnerStep
<1>4. ASSUME NEW c \in Clients, QueueInLoop(c) \/ Quit(c) \/ Wakeup(c)
      PROVE  TypeOK'
  <2>1. CASE QueueInLoop(c)
    <3>1. PICK f \in Functors : Push(f)
      BY <2>1 DEF QueueInLoop
    <3>2. pending' \in Seq(Functors) /\ queued' \in Seq(Functors)
      BY <3>1, PushType
    <3>3. /\ cpc' = [cpc EXCEPT ![c] = "wakeup"]
          /\ UNCHANGED <<tpc, looping, quit, signaled, active, calling, batch,
                         executed, loop_, poller, opc>>
      BY <2>1 DEF QueueInLoop
    <3> QED BY <3>2, <3>3
  <2>2. CASE Quit(c)
    BY <2>2 DEF Quit
  <2>3. CASE Wakeup(c)
    BY <2>3 DEF Wakeup
  <2> QED BY <1>4, <2>1, <2>2, <2>3
<1>5. CASE UNCHANGED vars
  BY <1>5 DEF vars
<1> QED BY <1>1, <1>2, <1>3, <1>4, <1>5 DEF Next, Ended

(* Type correctness of the loop, its queue and its thread.                  *)
THEOREM TypeCorrect == Spec => []TypeOK
<1>1. Init => TypeOK
  BY EmptySeq DEF Init, TypeOK
<1> QED BY <1>1, TypeStep, PTL DEF Spec

-----------------------------------------------------------------------------
(* One push anywhere keeps the order; so does a callback of the loop.       *)
LEMMA PushOrder ==
  ASSUME TypeOK, QueueOrder, NEW f \in Functors, Push(f)
  PROVE  queued' = executed \o batch \o pending'
<1>1. queued' = Append(executed \o batch \o pending, f)
  BY DEF Push, QueueOrder
<1>2. pending' = Append(pending, f)
  BY DEF Push
<1>3. executed \o batch \o Append(pending, f) = Append(executed \o batch \o pending, f)
  <2>1. executed \in Seq(Functors) /\ batch \in Seq(Functors) /\ pending \in Seq(Functors)
    BY DEF TypeOK
  <2> QED BY <2>1, PushKeepsOrder
<1> QED BY <1>1, <1>2, <1>3

LEMMA OnLoopThreadOrder ==
  ASSUME TypeOK, QueueOrder, OnLoopThread
  PROVE  queued' = executed \o batch \o pending'
<1>1. CASE \E f \in Functors : Push(f)
  BY <1>1, PushOrder
<1>2. CASE UNCHANGED <<pending, queued>>
  BY <1>2 DEF QueueOrder
<1> QED BY <1>1, <1>2 DEF OnLoopThread, NoPush

LEMMA QueueOrderStep ==
  TypeOK /\ QuietQueues /\ QueueOrder /\ [Next]_vars => QueueOrder'
<1> SUFFICES ASSUME TypeOK, QuietQueues, QueueOrder, [Next]_vars
             PROVE  QueueOrder'
  OBVIOUS
<1>1. CASE UNCHANGED queueVars
  BY <1>1 DEF QueueOrder
<1>2. CASE HandleIO
  BY <1>2, OnLoopThreadOrder DEF HandleIO, QueueOrder
<1>3. CASE SwapPending
  <2>1. batch = <<>> /\ batch' = pending /\ pending' = <<>>
        /\ UNCHANGED <<queued, executed>>
    BY <1>3 DEF SwapPending, QuietQueues
  <2>2. executed \o <<>> = executed
    BY ConcatEmptySeq DEF TypeOK
  <2>3. (executed \o pending) \o <<>> = executed \o pending
    BY ConcatProperties, ConcatEmptySeq DEF TypeOK
  <2> QED BY <2>1, <2>2, <2>3 DEF QueueOrder
<1>4. CASE CallFunctor
  <2>1. /\ batch # <<>> /\ OnLoopThread
        /\ executed' = Append(executed, Head(batch)) /\ batch' = Tail(batch)
    BY <1>4 DEF CallFunctor
  <2>2. queued' = executed \o batch \o pending'
    BY <2>1, OnLoopThreadOrder
  <2>3. executed' \o batch' = executed \o batch
    BY <2>1, CallKeepsOrder DEF TypeOK
  <2> QED BY <2>2, <2>3 DEF QueueOrder
<1>5. ASSUME NEW c \in Clients, QueueInLoop(c) PROVE QueueOrder'
  <2>1. PICK f \in Functors : Push(f)
    BY <1>5 DEF QueueInLoop
  <2>2. UNCHANGED <<executed, batch>>
    BY <1>5 DEF QueueInLoop
  <2> QED BY <2>1, <2>2, PushOrder DEF QueueOrder
<1>6. CASE \/ CreateLoop \/ Publish \/ EnterLoop \/ TestQuit \/ PollWakeup
           \/ HandleWakeup \/ EventsHandled \/ PendingDone \/ ClearLoop
           \/ DestroyBody \/ DestroyTimerQueue \/ PollIO \/ PollTimeout
  BY <1>1, <1>6 DEF CreateLoop, Publish, EnterLoop, TestQuit, PollWakeup,
     HandleWakeup, EventsHandled, PendingDone, ClearLoop, DestroyBody,
     DestroyTimerQueue, PollIO, PollTimeout, PollReturns
<1>7. CASE StartThread \/ OwnerStep \/ DtorReadsLoop
  BY <1>1, <1>7
     DEF StartThread, OwnerStep, StartWaits, DtorQuits, DtorWakes, DtorReadsLoop
<1>8. ASSUME NEW c \in Clients, Quit(c) \/ Wakeup(c) PROVE QueueOrder'
  BY <1>1, <1>8 DEF Quit, Wakeup
<1>9. CASE UNCHANGED vars
  BY <1>1, <1>9 DEF vars
<1> QED BY <1>2, <1>3, <1>4, <1>5, <1>6, <1>7, <1>8, <1>9 DEF Next, LoopThread, Ended

(* The wake-ups.  A push on the loop thread while functors are called       *)
(* writes the eventfd; a push or a quit elsewhere leaves a thread waking.   *)
LEMMA WakeupStep ==
  TypeOK /\ QuietQueues /\ Announced /\ QuitAnnounced /\ [Next]_vars
     => QuietQueues' /\ Announced' /\ QuitAnnounced'
<1> SUFFICES ASSUME TypeOK, QuietQueues, Announced, QuitAnnounced, [Next]_vars
             PROVE  QuietQueues' /\ Announced' /\ QuitAnnounced'
  OBVIOUS
<1> USE DEF QuietQueues, Announced, QuitAnnounced, Waking
<1>1. CASE CreateLoop \/ Publish \/ EnterLoop
  BY <1>1 DEF CreateLoop, Publish, EnterLoop, TypeOK
<1>2. CASE TestQuit
  BY <1>2 DEF TestQuit
<1>3. CASE PollWakeup \/ PollIO \/ PollTimeout \/ HandleWakeup
  BY <1>3 DEF PollWakeup, PollIO, PollTimeout, PollReturns, HandleWakeup
<1>4. CASE HandleIO
  BY <1>4 DEF HandleIO
<1>5. CASE EventsHandled \/ SwapPending \/ PendingDone
  BY <1>5 DEF EventsHandled, SwapPending, PendingDone
<1>6. CASE CallFunctor
  <2>1. tpc = "call" /\ tpc' = "call" /\ calling /\ calling' = calling
    BY <1>6 DEF CallFunctor
  <2>2. UNCHANGED <<opc, cpc>>
    BY <1>6 DEF CallFunctor
  <2>3. signaled => signaled'
    BY <1>6 DEF CallFunctor, OnLoopThread
  <2>4. signaled' \/ pending' = pending
    BY <1>6, <2>1 DEF CallFunctor, OnLoopThread, NoPush
  <2> QED BY <2>1, <2>2, <2>3, <2>4
<1>7. CASE ClearLoop \/ DestroyBody \/ DestroyTimerQueue
  BY <1>7 DEF ClearLoop, DestroyBody, DestroyTimerQueue
<1>8. CASE StartThread \/ OwnerStep \/ DtorReadsLoop
  BY <1>8
     DEF StartThread, OwnerStep, StartWaits, DtorQuits, DtorWakes, DtorReadsLoop
<1>9. ASSUME NEW c \in Clients, QueueInLoop(c) \/ Quit(c) \/ Wakeup(c)
      PROVE  QuietQueues' /\ Announced' /\ QuitAnnounced'
  <2>1. CASE QueueInLoop(c)
    BY <2>1 DEF QueueInLoop, CanCall, TypeOK
  <2>2. CASE Quit(c)
    BY <2>2 DEF Quit, TypeOK
  <2>3. CASE Wakeup(c)
    BY <2>3 DEF Wakeup
  <2> QED BY <1>9, <2>1, <2>2, <2>3
<1>10. CASE UNCHANGED vars
  BY <1>10 DEF vars
<1> QED BY <1>1, <1>2, <1>3, <1>4, <1>5, <1>6, <1>7, <1>8, <1>9, <1>10
        DEF Next, LoopThread, Ended

LEMMA LoopInvariant == Spec => []LoopInv
<1>1. Init => LoopInv
  <2> SUFFICES ASSUME Init PROVE LoopInv
    OBVIOUS
  <2>1. TypeOK
    BY EmptySeq DEF Init, TypeOK
  <2>2. QuietQueues /\ Announced /\ QuitAnnounced
    BY DEF Init, QuietQueues, Announced, QuitAnnounced
  <2>3. QueueOrder
    BY ConcatEmptySeq DEF Init, QueueOrder
  <2> QED BY <2>1, <2>2, <2>3 DEF LoopInv
<1>2. LoopInv /\ [Next]_vars => LoopInv'
  BY TypeStep, WakeupStep, QueueOrderStep DEF LoopInv
<1> QED BY <1>1, <1>2, PTL DEF Spec

(* The loop never sleeps in poll on queued work or on a quit.               *)
THEOREM NeverSleepsOnWork == Spec => []NoSleepOnWork
<1>1. LoopInv => NoSleepOnWork
  BY DEF LoopInv, Announced, QuitAnnounced, NoSleepOnWork
<1> QED BY <1>1, LoopInvariant, PTL

(* Functors are called in the order they were queued, none twice, none lost *)
(* while the loop lives.                                                    *)
THEOREM FunctorsInOrder == Spec => []QueueOrder
BY LoopInvariant, PTL DEF LoopInv
=============================================================================
