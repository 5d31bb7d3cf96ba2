---------------------------- MODULE MCUtilities ----------------------------
(* The parts that share nothing with each other or, as the repository is,   *)
(* with the rest.  In a behaviour one of them runs and the others stay as   *)
(* they were made.                                                         *)
EXTENDS TimerQueue, TimerList, LogFile, LockedQueue, MemoryPool

CONSTANT Utilities

VARIABLE running

others == <<listVars, logVars, lockedVars, poolVars>>
allVars == <<timerVars, others, running>>

Init ==
    /\ running \in Utilities
    /\ TimersInit /\ ListInit /\ LogInit /\ LockedInit
    /\ IF running = "pool" THEN PoolInit
       ELSE PoolInit /\ link = [b \in Blocks |-> NoBlock]

Timing(A) == running = "timers" /\ A /\ UNCHANGED <<others, running>>

Next ==
    \/ Timing(TimersNext)
    \/ /\ UNCHANGED <<timerVars, running>>
       /\ \/ running = "list" /\ ListNext /\ UNCHANGED <<logVars, lockedVars, poolVars>>
          \/ running = "log" /\ LogNext /\ UNCHANGED <<listVars, lockedVars, poolVars>>
          \/ running = "queue" /\ LockedNext /\ UNCHANGED <<listVars, logVars, poolVars>>
          \/ running = "pool" /\ PoolNext /\ UNCHANGED <<listVars, logVars, lockedVars>>

(* Fairness as in TimersSpec; the others promise nothing.                   *)
Spec ==
    /\ Init /\ [][Next]_allVars
    /\ WF_allVars(Timing(LoopStep)) /\ WF_allVars(Timing(TimePasses))
=============================================================================
