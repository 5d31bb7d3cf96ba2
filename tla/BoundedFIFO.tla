----------------------------- MODULE BoundedFIFO -----------------------------
(* What ring_buffer.h promises of its queues: of the batch a producer hands *)
(* over, as much as there is room for goes in, in order and in one piece;   *)
(* at most Capacity items are held; and an item is handed out once, oldest  *)
(* first.  The operations are atomic here.                                  *)
EXTENDS Naturals, Sequences

CONSTANTS Producers, Items, Capacity, MaxBatch

VARIABLES
    given,  \* the batch each producer has handed over and not yet put in
    q,      \* the items in the queue, oldest first
    got     \* the batch the consumer received last

Init == given = [p \in Producers |-> <<>>] /\ q = <<>> /\ got = <<>>

Hand(p) ==
    /\ given[p] = <<>>
    /\ \E n \in 1..MaxBatch : \E s \in [1..n -> Items] :
          given' = [given EXCEPT ![p] = s]
    /\ UNCHANGED <<q, got>>

Room == Capacity - Len(q)

Put(p) ==
    /\ given[p] # <<>>
    /\ q' = q \o SubSeq(given[p], 1, IF Len(given[p]) > Room THEN Room ELSE Len(given[p]))
    /\ given' = [given EXCEPT ![p] = <<>>]
    /\ UNCHANGED got

Take ==
    \E n \in 1..Len(q) :
       /\ got' = SubSeq(q, 1, n)
       /\ q' = SubSeq(q, n + 1, Len(q))
       /\ UNCHANGED given

Next == (\E p \in Producers : Hand(p) \/ Put(p)) \/ Take

Spec == Init /\ [][Next]_<<given, q, got>>
=============================================================================
