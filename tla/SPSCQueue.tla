------------------------------ MODULE SPSCQueue ------------------------------
(***************************************************************************)
(* The lock-free SPSCQueue of ring_buffer/include/ring_buffer.h, one atomic *)
(* load, store or CAS, or one plain slot access, per step.                  *)
(*                                                                         *)
(* The class is meant for one producer, but reserves with a CAS and commits *)
(* in order, so Producers is a set.  Indices are size_t: they run modulo M, *)
(* a multiple of Capacity as 2^64 is.  Memory is sequentially consistent.   *)
(* With one producer the acquire and release pairs on the indices give that *)
(* for the slots; with several, the relaxed load of write_idx_ may be newer *)
(* than the read_idx_ loaded after it, and this is not modelled.            *)
(***************************************************************************)
EXTENDS Naturals, Sequences

CONSTANTS Producers, Items, Capacity, M, MaxBatch

ASSUME CapacityAssumption ==
    /\ Capacity \in Nat \ {0} /\ M \in Nat /\ M % Capacity = 0
    /\ M >= 3 * Capacity /\ MaxBatch \in Nat \ {0}

ASSUME ItemsAssumption == Items # {}

VARIABLES
    buffer,      \* buffer_
    write_idx,   \* write_idx_, the end of the reserved slots
    read_idx,    \* read_idx_
    commit_idx,  \* commit_idx_, the end of the filled slots
    ppc,         \* where each producer is in enqueue_bulk
    count,       \* the local count of each producer
    w,           \* the local write_idx of each producer
    items,       \* the accepted items of each producer's batch
    filled,      \* the local i of each producer's fill loop
    cpc,         \* where the consumer is in dequeue_bulk
    want,        \* the consumer's argument count, then its local actual
    r,           \* the local read_idx of the consumer
    out,         \* the consumer's out[], as far as copied
    got          \* ghost: the batch of the last dequeue_bulk that succeeded

prodVars == <<write_idx, commit_idx, ppc, count, w, items, filled>>
consVars == <<read_idx, cpc, want, r, out, got>>
vars == <<buffer, prodVars, consVars>>

Plus(i, n) == (i + n) % M

(* j - i in size_t arithmetic.                                             *)
Minus(j, i) == (j + M - i) % M

Slot(i) == i % Capacity

Least(a, b) == IF a <= b THEN a ELSE b

Index == 0..(M - 1)

Batches == UNION {[1..n -> Items] : n \in 0..MaxBatch}

TypeOK ==
    /\ buffer \in [0..(Capacity - 1) -> Items]
    /\ write_idx \in Index /\ read_idx \in Index /\ commit_idx \in Index
    /\ ppc \in [Producers -> {"idle", "space", "reserve", "fill", "spin", "commit"}]
    /\ count \in [Producers -> 0..MaxBatch]
    /\ w \in [Producers -> Index]
    /\ items \in [Producers -> Batches]
    /\ filled \in [Producers -> 0..MaxBatch]
    /\ cpc \in {"idle", "avail", "copy", "advance"}
    /\ want \in 0..MaxBatch
    /\ r \in Index
    /\ out \in Batches /\ got \in Batches

Init ==
    /\ buffer \in [0..(Capacity - 1) -> {CHOOSE v \in Items : TRUE}]
    /\ write_idx = 0 /\ read_idx = 0 /\ commit_idx = 0
    /\ ppc = [p \in Producers |-> "idle"]
    /\ count = [p \in Producers |-> 0]
    /\ w = [p \in Producers |-> 0]
    /\ items = [p \in Producers |-> <<>>]
    /\ filled = [p \in Producers |-> 0]
    /\ cpc = "idle" /\ want = 0 /\ r = 0 /\ out = <<>> /\ got = <<>>

-----------------------------------------------------------------------------
(* enqueue_bulk                                                            *)
Goto(p, label) == ppc' = [ppc EXCEPT ![p] = label]

LoadWriteIdx(p) ==
    /\ ppc[p] = "idle"
    /\ \E n \in 1..MaxBatch : count' = [count EXCEPT ![p] = n]
    /\ w' = [w EXCEPT ![p] = write_idx]
    /\ Goto(p, "space")
    /\ UNCHANGED <<buffer, write_idx, commit_idx, items, filled, consVars>>

(* Mutant: one slot too many counted as free.                              *)
AvailableOffByOne(p) == Minus(Capacity + 1, Minus(w[p], read_idx))

(* Load read_idx_, cut count to the free slots, return 0 when none is left. *)
Available(p) == Minus(Capacity, Minus(w[p], read_idx))

LoadReadIdx(p) ==
    /\ ppc[p] = "space"
    /\ LET n == Least(count[p], Available(p)) IN
       /\ Goto(p, IF n = 0 THEN "idle" ELSE "reserve")
       /\ count' = [count EXCEPT ![p] = n]
       /\ w' = [w EXCEPT ![p] = IF n = 0 THEN 0 ELSE @]
    /\ UNCHANGED <<buffer, write_idx, commit_idx, items, filled, consVars>>

(* The bound on the width: 2^64 items do not pass through during one call.  *)
(* Without it a small M lets another producer bring write_idx back to the   *)
(* value a sleeping one has loaded.                                         *)
NoWrapDuringCall(p) ==
    \A o \in Producers \ {p} :
       ppc[o] \in {"space", "reserve"} =>
          Minus(write_idx, w[o]) + count[p] <= M - Capacity - 1

(* The items of the batch are fixed here, where how many are accepted is.   *)
Reserve(p) ==
    /\ ppc[p] = "reserve"
    /\ write_idx = w[p]
    /\ NoWrapDuringCall(p)
    /\ write_idx' = Plus(w[p], count[p])
    /\ \E s \in [1..count[p] -> Items] : items' = [items EXCEPT ![p] = s]
    /\ filled' = [filled EXCEPT ![p] = 0]
    /\ Goto(p, "fill")
    /\ UNCHANGED <<buffer, commit_idx, count, w, consVars>>

(* The CAS fails, for another producer's sake or, being weak, for no        *)
(* reason, and loads the current index.                                     *)
ReserveFails(p) ==
    /\ ppc[p] = "reserve"
    /\ w' = [w EXCEPT ![p] = write_idx]
    /\ Goto(p, "space")
    /\ UNCHANGED <<buffer, write_idx, commit_idx, count, items, filled, consVars>>

(* Mutant: every slot is filled with the first item of the batch.          *)
FillRepeats(p) ==
    /\ ppc[p] = "fill"
    /\ buffer' = [buffer EXCEPT ![Slot(Plus(w[p], filled[p]))] = items[p][1]]
    /\ filled' = [filled EXCEPT ![p] = @ + 1]
    /\ Goto(p, IF filled'[p] = count[p] THEN "spin" ELSE "fill")
    /\ UNCHANGED <<write_idx, commit_idx, count, w, items, consVars>>

Fill(p) ==
    /\ ppc[p] = "fill"
    /\ buffer' = [buffer EXCEPT ![Slot(Plus(w[p], filled[p]))] =
                                   items[p][filled[p] + 1]]
    /\ filled' = [filled EXCEPT ![p] = @ + 1]
    /\ Goto(p, IF filled'[p] = count[p] THEN "spin" ELSE "fill")
    /\ UNCHANGED <<write_idx, commit_idx, count, w, items, consVars>>

(* Mutant: no spin before the commit.                                      *)
SpinSkipped(p) ==
    /\ ppc[p] = "spin"
    /\ Goto(p, "commit")
    /\ UNCHANGED <<buffer, write_idx, commit_idx, count, w, items, filled, consVars>>

(* Mutant: the spin waits for the end of the producer's own batch.         *)
SpinForOwnEnd(p) ==
    /\ ppc[p] = "spin"
    /\ commit_idx = Plus(w[p], count[p])
    /\ Goto(p, "commit")
    /\ UNCHANGED <<buffer, write_idx, commit_idx, count, w, items, filled, consVars>>

(* The spin ends when every earlier batch is committed.                     *)
SpinEnds(p) ==
    /\ ppc[p] = "spin"
    /\ commit_idx = w[p]
    /\ Goto(p, "commit")
    /\ UNCHANGED <<buffer, write_idx, commit_idx, count, w, items, filled, consVars>>

Commit(p) ==
    /\ ppc[p] = "commit"
    /\ commit_idx' = Plus(w[p], count[p])
    /\ Goto(p, "idle")
    /\ count' = [count EXCEPT ![p] = 0]
    /\ w' = [w EXCEPT ![p] = 0]
    /\ items' = [items EXCEPT ![p] = <<>>]
    /\ filled' = [filled EXCEPT ![p] = 0]
    /\ UNCHANGED <<buffer, write_idx, consVars>>

-----------------------------------------------------------------------------
(* dequeue_bulk                                                            *)
LoadOwnReadIdx ==
    /\ cpc = "idle"
    /\ \E n \in 1..MaxBatch : want' = n
    /\ r' = read_idx
    /\ cpc' = "avail"
    /\ UNCHANGED <<buffer, prodVars, read_idx, out, got>>

LoadCommitIdx ==
    /\ cpc = "avail"
    /\ want' = Least(want, Minus(commit_idx, r))
    /\ cpc' = IF want' = 0 THEN "idle" ELSE "copy"
    /\ out' = <<>>
    /\ UNCHANGED <<buffer, prodVars, read_idx, r, got>>

Copy ==
    /\ cpc = "copy"
    /\ out' = Append(out, buffer[Slot(Plus(r, Len(out)))])
    /\ cpc' = IF Len(out') = want THEN "advance" ELSE "copy"
    /\ UNCHANGED <<buffer, prodVars, read_idx, want, r, got>>

(* The CAS can fail only spuriously and is then repeated: a stuttering step. *)
Advance ==
    /\ cpc = "advance"
    /\ read_idx = r
    /\ read_idx' = Plus(r, want)
    /\ got' = out
    /\ out' = <<>>
    /\ want' = 0
    /\ cpc' = "idle"
    /\ UNCHANGED <<buffer, prodVars, r>>

-----------------------------------------------------------------------------
(* A call that has reserved its slots goes on by itself.                    *)
Finish(p) == Fill(p) \/ SpinEnds(p) \/ Commit(p)

Produce(p) ==
    LoadWriteIdx(p) \/ LoadReadIdx(p) \/ Reserve(p) \/ ReserveFails(p) \/ Finish(p)

Consume == LoadOwnReadIdx \/ LoadCommitIdx \/ Copy \/ Advance

Next == (\E p \in Producers : Produce(p)) \/ Consume

(* The consumer keeps polling, as the tests and the demo do, and a producer *)
(* is not stopped for good with slots reserved; nobody has to enqueue.      *)
Spec ==
    /\ Init /\ [][Next]_vars
    /\ \A p \in Producers : WF_vars(Finish(p))
    /\ WF_vars(Consume)

-----------------------------------------------------------------------------
(* The items between the two indices the consumer looks at.                 *)
Queue == [i \in 1..Minus(commit_idx, read_idx) |-> buffer[Slot(read_idx + i - 1)]]

FIFO == INSTANCE BoundedFIFO WITH given <- items, q <- Queue

(* The queue is a bounded FIFO: the batch that goes in whole at the commit  *)
(* is the one its producer got slots for, and what comes out whole at the   *)
(* CAS on read_idx_ is the oldest of the queue: nothing lost, torn,         *)
(* duplicated or reordered, whichever producer is how far.                  *)
ImplementsFIFO == FIFO!Spec

SlotsFrom(i, n) == {Slot(Plus(i, k)) : k \in 0..(n - 1)}

(* Slots a thread is still going to touch without synchronization.          *)
ToFill(p) ==
    IF ppc[p] = "fill"
    THEN SlotsFrom(Plus(w[p], filled[p]), count[p] - filled[p]) ELSE {}

ToCopy ==
    IF cpc = "copy" THEN SlotsFrom(Plus(r, Len(out)), want - Len(out)) ELSE {}

(* No data race on a slot: a producer about to write it excludes the        *)
(* consumer about to read it and any other producer.                        *)
NoSlotRace ==
    \A p \in Producers :
       /\ ToFill(p) \cap ToCopy = {}
       /\ \A o \in Producers \ {p} : ToFill(p) \cap ToFill(o) = {}

(* The three indices stay in order and within Capacity, across the          *)
(* overflow of size_t.                                                      *)
IndexOrder ==
    /\ Minus(commit_idx, read_idx) <= Minus(write_idx, read_idx)
    /\ Minus(write_idx, read_idx) <= Capacity

(* A batch that has its slots is committed, however the producers overtake  *)
(* each other while they fill, and what is committed does not stay in the   *)
(* queue.                                                                   *)
ReservedIsConsumed ==
    /\ \A p \in Producers : (ppc[p] = "fill") ~> (ppc[p] = "idle")
    /\ \A i \in Index : (read_idx = i /\ commit_idx # i) ~> (read_idx # i)
=============================================================================
