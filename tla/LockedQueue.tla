----------------------------- MODULE LockedQueue -----------------------------
(***************************************************************************)
(* MPMCLockedQueue of ring_buffer.h: any number of producers and consumers, *)
(* each operation under the mutex and so one step.  Indices are size_t and  *)
(* run modulo Width, a multiple of Slots as 2^64 is.                        *)
(***************************************************************************)
EXTENDS Naturals, Sequences

CONSTANTS Writers, Values, Slots, Width, MaxCount

ASSUME LockedAssumption ==
    /\ Values # {} /\ Slots \in Nat \ {0} /\ Width \in Nat /\ Width % Slots = 0
    /\ Width > Slots /\ MaxCount \in Nat \ {0}

VARIABLES
    ring,       \* buffer_
    write_idx,  \* write_idx_
    read_idx,   \* read_idx_
    given,      \* the arguments of each producer's call that waits for the lock
    taken       \* ghost: the batch the last dequeue_bulk returned

lockedVars == <<ring, write_idx, read_idx, given, taken>>

LockedTypeOK ==
    /\ ring \in [0 .. Slots - 1 -> Values]
    /\ write_idx \in 0 .. Width - 1 /\ read_idx \in 0 .. Width - 1
    /\ given \in [Writers -> UNION {[1 .. n -> Values] : n \in 0 .. MaxCount}]
    /\ taken \in UNION {[1 .. n -> Values] : n \in 0 .. MaxCount}

LockedInit ==
    /\ ring \in [0 .. Slots - 1 -> {CHOOSE v \in Values : TRUE}]
    /\ write_idx = 0 /\ read_idx = 0 /\ taken = <<>>
    /\ given = [p \in Writers |-> <<>>]

(* write_idx - read_idx in size_t arithmetic.                               *)
Filled == (write_idx + Width - read_idx) % Width

(* Mutant: the free slots are counted without the subtraction wrapping.     *)
RoomNoWrap == IF write_idx >= read_idx THEN Slots - (write_idx - read_idx) ELSE Slots

Room == Slots - Filled

AtMost(n, limit) == IF n > limit THEN limit ELSE n

(* enqueue_bulk is called; the calls overlap up to the lock.                *)
CallEnqueue(p) ==
    /\ given[p] = <<>>
    /\ \E n \in 1 .. MaxCount : \E items \in [1 .. n -> Values] :
          given' = [given EXCEPT ![p] = items]
    /\ UNCHANGED <<ring, write_idx, read_idx, taken>>

(* As much of the batch is taken as there is room for, nothing of it when   *)
(* there is none.                                                           *)
EnqueueBulk(p) ==
    /\ given[p] # <<>>
    /\ LET count == AtMost(Len(given[p]), Room) IN
       /\ ring' = [s \in 0 .. Slots - 1 |->
                     IF \E i \in 1 .. count : (write_idx + i - 1) % Slots = s
                     THEN given[p][CHOOSE i \in 1 .. count : (write_idx + i - 1) % Slots = s]
                     ELSE ring[s]]
       /\ write_idx' = (write_idx + count) % Width
    /\ given' = [given EXCEPT ![p] = <<>>]
    /\ UNCHANGED <<read_idx, taken>>

DequeueBulk ==
    \E n \in 1 .. MaxCount :
       LET count == AtMost(n, Filled) IN
       /\ count > 0
       /\ taken' = [i \in 1 .. count |-> ring[(read_idx + i - 1) % Slots]]
       /\ read_idx' = (read_idx + count) % Width
       /\ UNCHANGED <<ring, write_idx, given>>

LockedNext == (\E p \in Writers : CallEnqueue(p) \/ EnqueueBulk(p)) \/ DequeueBulk

LockedSpec == LockedInit /\ [][LockedNext]_lockedVars

-----------------------------------------------------------------------------
Stored == [i \in 1 .. Filled |-> ring[(read_idx + i - 1) % Slots]]

LockedFIFO ==
    INSTANCE BoundedFIFO WITH
        Producers <- Writers, Items <- Values, Capacity <- Slots, MaxBatch <- MaxCount,
        q <- Stored, got <- taken

(* The locked queue is the same bounded FIFO as the lock-free one, across   *)
(* the overflow of its indices and with batches cut at both ends: what goes *)
(* in is the front of what the call was given.                              *)
LockedImplementsFIFO == LockedFIFO!Spec
=============================================================================
