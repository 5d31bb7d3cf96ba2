--------------------------- MODULE SPSCQueueProofs ---------------------------
(***************************************************************************)
(* Proofs about SPSCQueue, for any number of producers, any capacity and    *)
(* any width of the indices that the capacity divides.                      *)
(*                                                                         *)
(* Inv measures every index from read_idx_.  A producer past its CAS holds  *)
(* places between commit_idx_ and write_idx_ that no other holds; the       *)
(* consumer copies places before commit_idx_; and a CAS that is going to    *)
(* succeed has found room, since an index that has not moved since it was   *)
(* loaded is not passed by the consumer.                                    *)
(***************************************************************************)
EXTENDS SPSCQueue, ArithmeticLemmas, SequenceTheorems

-----------------------------------------------------------------------------
(* Indices and slots.                                                      *)

(* The constants of the class.                                              *)
LEMMA Sizes ==
  /\ Capacity \in Nat /\ Capacity > 0 /\ M \in Nat /\ M > 0 /\ MaxBatch \in Nat /\ MaxBatch > 0
  /\ 3 * Capacity <= M
  /\ Index = 0..(M - 1) /\ 0 \in 0..(M - 1)
BY CapacityAssumption DEF Index

(* Adding to an index wraps at M.                                           *)
LEMMA PlusIs ==
  ASSUME NEW i \in 0..(M - 1), NEW n \in 0..M
  PROVE  /\ Plus(i, n) = IF i + n < M THEN i + n ELSE i + n - M
         /\ Plus(i, n) \in 0..(M - 1)
BY Sizes, Moves DEF Plus

(* So does the distance of two indices.                                     *)
LEMMA MinusIs ==
  ASSUME NEW i \in 0..(M - 1), NEW j \in 0..(M - 1)
  PROVE  /\ Minus(j, i) = IF j >= i THEN j - i ELSE j + M - i
         /\ Minus(j, i) \in 0..(M - 1)
BY Sizes, Distance DEF Minus

(* Two additions are one.                                                   *)
LEMMA PlusPlus ==
  ASSUME NEW i \in 0..(M - 1), NEW m \in Nat, NEW n \in Nat, m + n < M
  PROVE  Plus(Plus(i, m), n) = Plus(i, m + n)
<1>1. M \in Nat /\ m \in 0..M /\ n \in 0..M /\ m + n \in 0..M
  BY Sizes
<1>2. PICK j \in 0..(M - 1) : j = Plus(i, m) /\ j = IF i + m < M THEN i + m ELSE i + m - M
  BY <1>1, PlusIs
<1>3. Plus(j, n) = IF j + n < M THEN j + n ELSE j + n - M
  BY <1>1, PlusIs
<1>4. Plus(i, m + n) = IF i + (m + n) < M THEN i + (m + n) ELSE i + (m + n) - M
  BY <1>1, PlusIs
<1>5. Plus(j, n) = Plus(i, m + n)
  BY <1>1, <1>2, <1>3, <1>4
<1> QED BY <1>2, <1>5

(* An index is its distance away.                                           *)
LEMMA PlusMinus ==
  ASSUME NEW i \in 0..(M - 1), NEW j \in 0..(M - 1)
  PROVE  Plus(i, Minus(j, i)) = j
<1>1. PICK d \in 0..(M - 1) : d = Minus(j, i) /\ d = IF j >= i THEN j - i ELSE j + M - i
  BY MinusIs
<1>2. M \in Nat /\ d \in 0..M
  BY Sizes
<1>3. Plus(i, d) = IF i + d < M THEN i + d ELSE i + d - M
  BY <1>2, PlusIs
<1>4. Plus(i, d) = j
  BY <1>1, <1>2, <1>3
<1> QED BY <1>1, <1>4

(* An index that moves on is as much farther away.                          *)
LEMMA MinusOfPlus ==
  ASSUME NEW i \in 0..(M - 1), NEW j \in 0..(M - 1), NEW n \in Nat, Minus(j, i) + n < M
  PROVE  Minus(Plus(j, n), i) = Minus(j, i) + n
BY Sizes, DistanceGrows DEF Plus, Minus

(* What it is measured from moves nearer.                                   *)
LEMMA MinusFromPlus ==
  ASSUME NEW i \in 0..(M - 1), NEW j \in 0..(M - 1), NEW n \in Nat, n <= Minus(j, i)
  PROVE  Minus(j, Plus(i, n)) = Minus(j, i) - n
BY Sizes, DistanceShrinks DEF Plus, Minus

(* Nothing but an index itself is at no distance from it.                   *)
LEMMA MinusZero ==
  ASSUME NEW i \in 0..(M - 1), NEW j \in 0..(M - 1)
  PROVE  Minus(j, i) = 0 <=> j = i
<1>1. Minus(j, i) = IF j >= i THEN j - i ELSE j + M - i
  BY MinusIs
<1>2. M \in Nat
  BY Sizes
<1> QED BY <1>1, <1>2

(* Slots come round as the indices do, since Capacity divides M.            *)
LEMMA SlotOfPlus ==
  ASSUME NEW i \in 0..(M - 1), NEW n \in 0..M
  PROVE  /\ Slot(Plus(i, n)) = (i + n) % Capacity
         /\ Slot(Plus(i, n)) \in 0..(Capacity - 1)
<1>1. M \in Nat /\ M % Capacity = 0 /\ Capacity \in Nat /\ Capacity > 0
  BY Sizes, CapacityAssumption
<1>2. PICK k \in 0..(M - 1) : k = Plus(i, n) /\ k = IF i + n < M THEN i + n ELSE i + n - M
  BY PlusIs
<1>3. k \in Nat /\ (k = i + n \/ k + M = i + n)
  BY <1>1, <1>2
<1>4. (k + M) % Capacity = k % Capacity
  BY <1>1, <1>3, ModMultiple
<1>5. k % Capacity = (i + n) % Capacity /\ k % Capacity \in 0..(Capacity - 1)
  BY <1>1, <1>3, <1>4
<1> QED BY <1>2, <1>5 DEF Slot

(* Places less than Capacity apart are different slots.                     *)
LEMMA SlotsApart ==
  ASSUME NEW i \in 0..(M - 1), NEW a \in 0..(Capacity - 1), NEW b \in 0..(Capacity - 1), a # b
  PROVE  Slot(Plus(i, a)) # Slot(Plus(i, b))
<1>1. a \in 0..M /\ b \in 0..M /\ i + a \in Nat /\ i + b \in Nat /\ Capacity \in Nat /\ Capacity > 0
  BY Sizes
<1>2. CASE a < b
  <2>1. b - a \in 1..(Capacity - 1) /\ i + b = (i + a) + (b - a)
    BY <1>1, <1>2
  <2>2. (i + a) % Capacity # (i + b) % Capacity
    BY <2>1, <1>1, ModApart
  <2> QED BY <2>2, <1>1, SlotOfPlus
<1>3. CASE b < a
  <2>1. a - b \in 1..(Capacity - 1) /\ i + a = (i + b) + (a - b)
    BY <1>1, <1>3
  <2>2. (i + b) % Capacity # (i + a) % Capacity
    BY <2>1, <1>1, ModApart
  <2> QED BY <2>2, <1>1, SlotOfPlus
<1> QED BY <1>1, <1>2, <1>3

-----------------------------------------------------------------------------
(* The invariant.                                                          *)

(* How far an index is ahead of the consumer.                              *)
Place(i) == Minus(i, read_idx)

(* p has slots of its own: between the CAS and the commit.                  *)
Holds(p) == ppc[p] \in {"fill", "spin", "commit"}

(* The slots of p are reserved and not committed, up to its turn, and filled *)
(* with its batch as far as it says.                                       *)
Reserved(p) ==
    /\ Place(commit_idx) <= Place(w[p])
    /\ Place(w[p]) + count[p] <= Place(write_idx)
    /\ ppc[p] = "commit" => w[p] = commit_idx

Filled(p) ==
    /\ items[p] \in [1..count[p] -> Items]
    /\ filled[p] <= count[p]
    /\ ppc[p] = "fill" <=> filled[p] < count[p]
    /\ \A k \in 0..(count[p] - 1) :
          k < filled[p] => buffer[Slot(Plus(w[p], k))] = items[p][k + 1]

Apart(p, o) ==
    \/ Place(w[p]) + count[p] <= Place(w[o])
    \/ Place(w[o]) + count[o] <= Place(w[p])

(* A CAS that will succeed has found room: if write_idx_ has not moved since *)
(* it was loaded, the consumer can only have made more.                     *)
Room(p) ==
    ppc[p] = "reserve" /\ w[p] = write_idx => Place(write_idx) + count[p] <= Capacity

Producer(p) ==
    /\ ppc[p] # "idle" => count[p] >= 1
    /\ Room(p)
    /\ ~ Holds(p) => items[p] = <<>>
    /\ Holds(p) => /\ Reserved(p) /\ Filled(p)
                   /\ \A o \in Producers \ {p} : Holds(o) => Apart(p, o)

(* The consumer is about to take what is committed, and has copied it as far *)
(* as out goes.                                                            *)
Consumer ==
    /\ cpc # "idle" => r = read_idx
    /\ cpc \in {"copy", "advance"} =>
          /\ 1 <= want /\ want <= Place(commit_idx)
          /\ Len(out) <= want
          /\ cpc = "copy" <=> Len(out) < want
          /\ \A k \in 0..(want - 1) :
                k < Len(out) => out[k + 1] = buffer[Slot(Plus(r, k))]

Inv ==
    /\ TypeOK
    /\ IndexOrder
    /\ Consumer
    /\ \A p \in Producers : Producer(p)

-----------------------------------------------------------------------------
(* What the invariant says of the indices.                                  *)
LEMMA Indices ==
  ASSUME Inv
  PROVE  /\ read_idx \in 0..(M - 1) /\ write_idx \in 0..(M - 1) /\ commit_idx \in 0..(M - 1)
         /\ Place(commit_idx) \in Nat /\ Place(write_idx) \in Nat
         /\ Place(commit_idx) <= Place(write_idx) /\ Place(write_idx) <= Capacity
<1>1. /\ read_idx \in 0..(M - 1) /\ write_idx \in 0..(M - 1) /\ commit_idx \in 0..(M - 1)
  BY DEF Inv, TypeOK, Index
<1>2. Place(commit_idx) \in 0..(M - 1) /\ Place(write_idx) \in 0..(M - 1)
  BY <1>1, MinusIs DEF Place
<1>3. Place(commit_idx) <= Place(write_idx) /\ Place(write_idx) <= Capacity
  BY DEF Inv, IndexOrder, Place
<1> QED BY <1>1, <1>2, <1>3, Sizes

(* What it says of a producer.                                              *)
LEMMA Locals ==
  ASSUME Inv, NEW p \in Producers
  PROVE  /\ w[p] \in 0..(M - 1) /\ count[p] \in Nat /\ filled[p] \in Nat
         /\ Place(w[p]) \in Nat /\ Place(w[p]) < M
         /\ ppc[p] # "idle" => count[p] >= 1
<1>1. w[p] \in 0..(M - 1) /\ count[p] \in Nat /\ filled[p] \in Nat /\ read_idx \in 0..(M - 1)
  BY Sizes DEF Inv, TypeOK, Index
<1>2. Place(w[p]) \in 0..(M - 1)
  BY <1>1, MinusIs DEF Place
<1>3. Producer(p)
  BY DEF Inv
<1> QED BY <1>1, <1>2, <1>3, Sizes DEF Producer

(* The places of the slots a producer holds.                                *)
LEMMA Held ==
  ASSUME Inv, NEW p \in Producers, Holds(p), NEW k \in Nat, k < count[p]
  PROVE  /\ Place(w[p]) + k \in 0..(Capacity - 1)
         /\ Place(commit_idx) <= Place(w[p]) + k
         /\ Plus(w[p], k) = Plus(read_idx, Place(w[p]) + k)
<1>1. Producer(p)
  BY DEF Inv
<1>2. Place(commit_idx) <= Place(w[p]) /\ Place(w[p]) + count[p] <= Place(write_idx)
  BY <1>1 DEF Producer, Reserved
<1>3. /\ w[p] \in 0..(M - 1) /\ count[p] \in Nat /\ Place(w[p]) \in Nat
      /\ read_idx \in 0..(M - 1) /\ Place(commit_idx) \in Nat
      /\ Place(write_idx) \in Nat /\ Place(write_idx) <= Capacity
  BY Indices, Locals
<1>4. Plus(read_idx, Place(w[p])) = w[p]
  BY <1>3, PlusMinus DEF Place
<1>5. Place(w[p]) + k \in 0..(Capacity - 1) /\ Place(w[p]) + k < M
  BY <1>2, <1>3, Sizes
<1>6. Plus(Plus(read_idx, Place(w[p])), k) = Plus(read_idx, Place(w[p]) + k)
  BY <1>3, <1>5, PlusPlus
<1>7. Place(commit_idx) <= Place(w[p]) + k
  BY <1>2, <1>3
<1> QED BY <1>4, <1>5, <1>6, <1>7

(* No two producers hold the same slot.                                     *)
LEMMA HeldApart ==
  ASSUME Inv, NEW p \in Producers, NEW o \in Producers, p # o, Holds(p), Holds(o),
         NEW k \in Nat, k < count[p], NEW l \in Nat, l < count[o]
  PROVE  Slot(Plus(w[p], k)) # Slot(Plus(w[o], l))
<1>1. Apart(p, o)
  BY DEF Inv, Producer
<1>2. /\ Place(w[p]) + k \in 0..(Capacity - 1) /\ Plus(w[p], k) = Plus(read_idx, Place(w[p]) + k)
      /\ Place(w[o]) + l \in 0..(Capacity - 1) /\ Plus(w[o], l) = Plus(read_idx, Place(w[o]) + l)
  BY Held
<1>3. /\ Place(w[p]) \in Nat /\ Place(w[o]) \in Nat /\ count[p] \in Nat /\ count[o] \in Nat
      /\ read_idx \in 0..(M - 1)
  BY Indices, Locals
<1>4. Place(w[p]) + k # Place(w[o]) + l
  BY <1>1, <1>3 DEF Apart
<1> QED BY <1>2, <1>3, <1>4, SlotsApart

(* No producer holds a slot the consumer may read.                          *)
LEMMA HeldUnread ==
  ASSUME Inv, NEW p \in Producers, Holds(p), NEW k \in Nat, k < count[p],
         NEW l \in Nat, l < Place(commit_idx)
  PROVE  Slot(Plus(w[p], k)) # Slot(Plus(read_idx, l))
<1>1. /\ Place(w[p]) + k \in 0..(Capacity - 1) /\ Plus(w[p], k) = Plus(read_idx, Place(w[p]) + k)
      /\ Place(commit_idx) <= Place(w[p]) + k
  BY Held
<1>2. /\ Place(commit_idx) \in Nat /\ Place(commit_idx) <= Capacity /\ Place(w[p]) \in Nat
      /\ read_idx \in 0..(M - 1) /\ Place(write_idx) \in Nat
  BY Indices, Locals, Sizes
<1>3. l \in 0..(Capacity - 1) /\ l # Place(w[p]) + k
  BY <1>1, <1>2, Sizes
<1> QED BY <1>1, <1>2, <1>3, SlotsApart

-----------------------------------------------------------------------------
(* The steps.                                                              *)

(* The others do not move.                                                  *)
OthersSame(p) ==
    \A o \in Producers \ {p} :
       /\ ppc'[o] = ppc[o] /\ count'[o] = count[o] /\ w'[o] = w[o]
       /\ items'[o] = items[o] /\ filled'[o] = filled[o]

(* A step of p that leaves the indices and the slots alone.                 *)
LEMMA StepOfOne ==
  ASSUME Inv, NEW p \in Producers, OthersSame(p),
         UNCHANGED <<buffer, write_idx, commit_idx, consVars>>, TypeOK', Producer(p)'
  PROVE  Inv'
<1> USE DEF consVars
<1>1. IndexOrder'
  BY DEF Inv, IndexOrder
<1>2. Consumer'
  BY DEF Inv, Consumer, Place
<1>3. ASSUME NEW o \in Producers, o # p
      PROVE  Producer(o)'
  <2>1. Producer(o) /\ (Holds(o)' <=> Holds(o)) /\ ppc'[o] = ppc[o] /\ w'[o] = w[o] /\ count'[o] = count[o]
        /\ items'[o] = items[o] /\ filled'[o] = filled[o]
    BY <1>3 DEF Inv, OthersSame, Holds
  <2>2. Room(o)'
    BY <2>1 DEF Producer, Room, Place
  <2>3. Holds(o) => Reserved(o)' /\ Filled(o)'
    BY <2>1 DEF Producer, Reserved, Filled, Place
  <2>4. ASSUME NEW a \in Producers \ {o}, Holds(o)', Holds(a)'
        PROVE  Apart(o, a)'
    <3>1. CASE a = p
      <4>1. Apart(p, o)'
        BY <3>1, <2>4, <1>3 DEF Producer
      <4> QED BY <3>1, <4>1 DEF Apart, Place
    <3>2. CASE a # p
      BY <3>2, <2>1, <2>4 DEF Producer, OthersSame, Apart, Holds, Place
    <3> QED BY <3>1, <3>2
  <2> QED BY <2>1, <2>2, <2>3, <2>4 DEF Producer
<1> QED BY <1>1, <1>2, <1>3 DEF Inv

(* It has no slots then.                                                    *)
LEMMA StepOutside ==
  ASSUME Inv, NEW p \in Producers, OthersSame(p),
         UNCHANGED <<buffer, write_idx, commit_idx, consVars>>, TypeOK',
         ppc'[p] \in {"idle", "space", "reserve"}, ppc'[p] # "idle" => count'[p] >= 1,
         ~ Holds(p), items' = items, Room(p)'
  PROVE  Inv'
<1>1. ~ Holds(p)'
  BY DEF Holds
<1>2. items'[p] = <<>>
  BY DEF Inv, Producer
<1>3. Producer(p)'
  BY <1>1, <1>2 DEF Producer
<1> QED BY <1>3, StepOfOne

(* A load of write_idx_ promises nothing.                                   *)
LEMMA LoadWriteIdxInv ==
  ASSUME Inv, NEW p \in Producers, LoadWriteIdx(p)
  PROVE  Inv'
<1>1. PICK n \in 1..MaxBatch : count' = [count EXCEPT ![p] = n]
  BY DEF LoadWriteIdx
<1>2. TypeOK /\ n \in 0..MaxBatch
  BY Sizes DEF Inv
<1>3. OthersSame(p) /\ UNCHANGED <<buffer, write_idx, commit_idx, consVars>>
  BY <1>1, <1>2 DEF LoadWriteIdx, Goto, OthersSame, TypeOK
<1>4. /\ TypeOK' /\ ppc'[p] = "space" /\ count'[p] = n
  BY <1>1, <1>2 DEF LoadWriteIdx, Goto, TypeOK, consVars
<1>5. Room(p)'
  BY <1>4 DEF Room
<1>6. ~ Holds(p) /\ items' = items
  BY DEF LoadWriteIdx, Holds
<1> QED BY <1>3, <1>4, <1>5, <1>6, StepOutside, Sizes

(* What is free counts what the producer has loaded of write_idx_.          *)
LEMMA LoadReadIdxInv ==
  ASSUME Inv, NEW p \in Producers, LoadReadIdx(p)
  PROVE  Inv'
<1> DEFINE n == Least(count[p], Available(p))
<1>1. /\ TypeOK
      /\ count[p] \in 0..MaxBatch /\ count[p] >= 1 /\ w[p] \in 0..(M - 1) /\ read_idx \in 0..(M - 1)
  BY Indices, Locals, Sizes DEF Inv, LoadReadIdx, TypeOK
<1>2. Available(p) \in 0..(M - 1)
  <2>1. PICK d \in 0..(M - 1) : d = Minus(w[p], read_idx)
    BY <1>1, MinusIs
  <2>2. Capacity \in 0..(M - 1)
    BY Sizes
  <2>3. Minus(Capacity, d) \in 0..(M - 1)
    BY <2>2, MinusIs
  <2> QED BY <2>1, <2>3 DEF Available
<1>3. n \in 0..MaxBatch
  BY <1>1, <1>2, Sizes DEF Least
<1>4. /\ ppc' = [ppc EXCEPT ![p] = IF n = 0 THEN "idle" ELSE "reserve"]
      /\ count' = [count EXCEPT ![p] = n]
      /\ w' = [w EXCEPT ![p] = IF n = 0 THEN 0 ELSE w[p]]
      /\ UNCHANGED <<buffer, write_idx, commit_idx, items, filled, consVars>>
  BY DEF LoadReadIdx, Goto
<1>5. n = Least(count[p], Available(p))
  OBVIOUS
<1> HIDE DEF n
<1>6. OthersSame(p)
  BY <1>1, <1>4 DEF OthersSame, TypeOK
<1>7. TypeOK'
  BY <1>1, <1>3, <1>4, Sizes DEF TypeOK, consVars, Index
<1>8. /\ ppc'[p] \in {"idle", "reserve"} /\ count'[p] = n
      /\ ppc'[p] # "idle" => n # 0 /\ w'[p] = w[p]
  BY <1>1, <1>4 DEF TypeOK
<1>9. Room(p)'
  <2> SUFFICES ASSUME ppc'[p] = "reserve", w'[p] = write_idx
               PROVE  Place(write_idx)' + count'[p] <= Capacity
    BY <1>4 DEF Room
  <2>1. w[p] = write_idx /\ Place(write_idx)' = Place(write_idx)
    BY <1>4, <1>8 DEF Place, consVars
  <2>2. PICK d \in Nat : d = Place(write_idx) /\ d <= Capacity
    BY Indices
  <2>3. Minus(Capacity, d) = Capacity - d
    <3>1. Capacity \in 0..(M - 1) /\ d \in 0..(M - 1)
      BY <2>2, Sizes
    <3>2. Minus(Capacity, d) = IF Capacity >= d THEN Capacity - d ELSE Capacity + M - d
      BY <3>1, MinusIs
    <3> QED BY <2>2, <3>2, Sizes
  <2>4. Available(p) = Capacity - d
    BY <2>1, <2>2, <2>3 DEF Available, Place
  <2>5. n <= Capacity - d
    BY <1>1, <1>5, <2>2, <2>4, Sizes DEF Least
  <2> QED BY <1>3, <1>8, <2>1, <2>2, <2>5, Sizes
<1>10. ~ Holds(p)
  BY DEF LoadReadIdx, Holds
<1> QED BY <1>3, <1>4, <1>6, <1>7, <1>8, <1>9, <1>10, StepOutside

(* The CAS that fails loads the index anew.                                 *)
LEMMA ReserveFailsInv ==
  ASSUME Inv, NEW p \in Producers, ReserveFails(p)
  PROVE  Inv'
<1>1. TypeOK /\ count[p] >= 1
  BY Locals DEF Inv, ReserveFails
<1>2. OthersSame(p) /\ UNCHANGED <<buffer, write_idx, commit_idx, consVars>>
  BY <1>1 DEF ReserveFails, Goto, OthersSame, TypeOK
<1>3. TypeOK' /\ ppc'[p] = "space" /\ count'[p] = count[p]
  BY <1>1 DEF ReserveFails, Goto, TypeOK, consVars
<1>4. Room(p)'
  BY <1>3 DEF Room
<1>5. ~ Holds(p) /\ items' = items
  BY DEF ReserveFails, Holds
<1> QED BY <1>1, <1>2, <1>3, <1>4, <1>5, StepOutside

(* The spin ends at the producer's turn.                                    *)
LEMMA SpinEndsInv ==
  ASSUME Inv, NEW p \in Producers, SpinEnds(p)
  PROVE  Inv'
<1>1. TypeOK /\ Producer(p) /\ Holds(p)
  BY DEF Inv, SpinEnds, Holds
<1>2. OthersSame(p) /\ UNCHANGED <<buffer, write_idx, commit_idx, consVars>>
      /\ UNCHANGED <<count, w, items, filled>>
  BY <1>1 DEF SpinEnds, Goto, OthersSame, TypeOK
<1>3. TypeOK' /\ ppc'[p] = "commit"
  BY <1>1 DEF SpinEnds, Goto, TypeOK, consVars
<1>4. Reserved(p)' /\ Filled(p)'
  BY <1>1, <1>2, <1>3 DEF Producer, Reserved, Filled, Place, SpinEnds, consVars
<1>5. \A o \in Producers \ {p} : Holds(o)' => Apart(p, o)'
  BY <1>1, <1>2 DEF Producer, Apart, OthersSame, Holds, Place, consVars
<1>6. Producer(p)'
  <2>1. Holds(p)'
    BY <1>3 DEF Holds
  <2> QED BY <1>1, <1>2, <1>3, <1>4, <1>5, <2>1 DEF Producer, Room, SpinEnds
<1> QED BY <1>2, <1>3, <1>6, StepOfOne

(* The CAS that succeeds.  No other sleeping producer takes the new index   *)
(* for the one it has loaded.                                               *)
LEMMA ReserveInv ==
  ASSUME Inv, NEW p \in Producers, Reserve(p)
  PROVE  Inv'
<1>1. PICK s \in [1..count[p] -> Items] : items' = [items EXCEPT ![p] = s]
  BY DEF Reserve
<1>2. /\ TypeOK /\ ppc[p] = "reserve" /\ write_idx = w[p] /\ NoWrapDuringCall(p)
      /\ write_idx' = Plus(write_idx, count[p])
      /\ filled' = [filled EXCEPT ![p] = 0] /\ ppc' = [ppc EXCEPT ![p] = "fill"]
      /\ UNCHANGED <<buffer, commit_idx, count, w, consVars>>
  BY DEF Reserve, Goto, Inv
<1>3. /\ Producer(p) /\ ~ Holds(p) /\ count[p] >= 1 /\ count[p] \in 0..MaxBatch /\ count[p] \in Nat
      /\ Place(write_idx) + count[p] <= Capacity
      /\ write_idx \in 0..(M - 1) /\ read_idx \in 0..(M - 1)
  BY <1>2, Indices, Locals DEF Inv, Producer, Room, Holds, TypeOK
<1>4. OthersSame(p)
  BY <1>1, <1>2 DEF OthersSame, TypeOK
<1>5. /\ Place(write_idx)' = Place(write_idx) + count[p] /\ write_idx' \in 0..(M - 1)
      /\ \A i : Place(i)' = Minus(i', read_idx)
  <2>1. Place(write_idx) \in Nat /\ Place(write_idx) + count[p] < M /\ count[p] \in 0..M
    BY <1>3, Indices, Sizes
  <2>2. Minus(Plus(write_idx, count[p]), read_idx) = Minus(write_idx, read_idx) + count[p]
    BY <1>3, <2>1, MinusOfPlus DEF Place
  <2>3. Plus(write_idx, count[p]) \in 0..(M - 1)
    BY <1>3, <2>1, PlusIs
  <2> QED BY <1>2, <2>2, <2>3 DEF Place, consVars
<1>6. TypeOK'
  <2>1. s \in Batches
    BY <1>1, <1>3 DEF Batches
  <2>2. items' \in [Producers -> Batches]
    BY <1>1, <1>2, <2>1 DEF TypeOK
  <2>3. filled' \in [Producers -> 0..MaxBatch] /\ ppc' \in [Producers -> {"idle", "space", "reserve", "fill", "spin", "commit"}]
    BY <1>2, Sizes DEF TypeOK
  <2> QED BY <1>2, <1>5, <2>2, <2>3 DEF TypeOK, consVars, Index
<1>7. IndexOrder'
  <2>1. Place(commit_idx)' = Place(commit_idx)
    BY <1>2 DEF Place, consVars
  <2>2. Place(commit_idx)' <= Place(write_idx)' /\ Place(write_idx)' <= Capacity
    BY <1>3, <1>5, <2>1, Indices
  <2> QED BY <2>2 DEF Place, IndexOrder
<1>8. Consumer'
  BY <1>2 DEF Inv, Consumer, Place, consVars
<1>9. Producer(p)'
  <2>1. /\ ppc'[p] = "fill" /\ w'[p] = write_idx /\ count'[p] = count[p] /\ filled'[p] = 0
        /\ items'[p] = s
    BY <1>1, <1>2 DEF TypeOK
  <2>2. Place(w[p])' = Place(write_idx) /\ Place(commit_idx)' = Place(commit_idx)
    BY <1>2 DEF Place, consVars
  <2>3. Reserved(p)'
    BY <1>3, <1>5, <2>1, <2>2, Indices DEF Reserved
  <2>4. Filled(p)'
    BY <1>1, <1>3, <2>1 DEF Filled
  <2>5. ASSUME NEW o \in Producers \ {p}, Holds(o)'
        PROVE  Apart(p, o)'
    <3>1. Holds(o) /\ Producer(o) /\ w'[o] = w[o] /\ count'[o] = count[o]
      BY <1>4, <2>5 DEF OthersSame, Holds, Inv
    <3>2. Place(w[o]) + count[o] <= Place(write_idx)
      BY <3>1 DEF Producer, Reserved
    <3>3. Place(w[o])' = Place(w[o])
      BY <1>2 DEF Place, consVars
    <3> QED BY <3>1, <3>2, <3>3, <2>2 DEF Apart
  <2>6. Holds(p)'
    BY <2>1 DEF Holds
  <2> QED BY <1>3, <2>1, <2>3, <2>4, <2>5, <2>6 DEF Producer, Room
<1>10. ASSUME NEW o \in Producers, o # p
       PROVE  Producer(o)'
  <2>1. /\ Producer(o) /\ (Holds(o)' <=> Holds(o)) /\ ppc'[o] = ppc[o] /\ w'[o] = w[o]
        /\ count'[o] = count[o] /\ items'[o] = items[o] /\ filled'[o] = filled[o]
    BY <1>4, <1>10 DEF OthersSame, Holds, Inv
  <2>2. /\ Place(w[o])' = Place(w[o]) /\ Place(commit_idx)' = Place(commit_idx)
        /\ w[o] \in 0..(M - 1) /\ Place(w[o]) \in Nat /\ count[o] \in Nat
    BY <1>2, Locals DEF Place, consVars
  <2>3. Room(o)'
    <3> SUFFICES ASSUME ppc[o] = "reserve", w[o] = write_idx' PROVE FALSE
      BY <2>1 DEF Room
    <3>1. PICK d \in 0..(M - 1) : d = Minus(write_idx, w[o])
      BY <1>3, <2>2, MinusIs
    <3>2. d + count[p] < M
      <4>1. Minus(write_idx, w[o]) + count[p] <= M - Capacity - 1
        BY <1>2, <1>10 DEF NoWrapDuringCall
      <4>2. d + count[p] <= M - Capacity - 1
        BY <3>1, <4>1
      <4> QED BY <1>3, <4>2, Sizes
    <3>3. Minus(Plus(write_idx, count[p]), w[o]) = d + count[p]
      BY <1>3, <2>2, <3>1, <3>2, MinusOfPlus
    <3>4. Minus(write_idx', w[o]) = 0
      BY <1>5, <2>2, MinusZero
    <3> QED BY <1>2, <1>3, <3>1, <3>3, <3>4
  <2>4. Holds(o) => Reserved(o)'
    <3>1. Place(write_idx) \in Nat /\ Place(write_idx) <= Place(write_idx)'
      BY <1>3, <1>5, Indices
    <3> QED BY <1>2, <1>3, <1>5, <2>1, <2>2, <3>1, Indices DEF Producer, Reserved
  <2>5. Holds(o) => Filled(o)'
    BY <1>2, <2>1 DEF Producer, Filled
  <2>6. ASSUME NEW a \in Producers \ {o}, Holds(o)', Holds(a)'
        PROVE  Apart(o, a)'
    <3>1. CASE a = p
      <4>1. Apart(p, o)'
        BY <3>1, <2>6, <1>9, <1>10, <2>1 DEF Producer
      <4> QED BY <3>1, <4>1 DEF Apart, Place
    <3>2. CASE a # p
      BY <3>2, <2>1, <2>6, <1>2, <1>4 DEF Producer, OthersSame, Apart, Holds, Place, consVars
    <3> QED BY <3>1, <3>2
  <2> QED BY <2>1, <2>3, <2>4, <2>5, <2>6 DEF Producer
<1> QED BY <1>6, <1>7, <1>8, <1>9, <1>10 DEF Inv

(* A slot of the producer's own, which nobody else holds or may read.       *)
LEMMA FillInv ==
  ASSUME Inv, NEW p \in Producers, Fill(p)
  PROVE  Inv'
<1> DEFINE b == Slot(Plus(w[p], filled[p]))
<1> DEFINE v == items[p][filled[p] + 1]
<1>1. /\ TypeOK /\ ppc[p] = "fill" /\ Holds(p) /\ Producer(p)
      /\ count[p] \in 0..MaxBatch /\ filled[p] \in Nat /\ filled[p] < count[p] /\ count[p] \in Nat
      /\ w[p] \in 0..(M - 1) /\ read_idx \in 0..(M - 1)
      /\ items[p] \in [1..count[p] -> Items]
  BY Indices, Locals DEF Inv, Producer, Holds, Filled, Fill, TypeOK
<1>2. /\ buffer' = [buffer EXCEPT ![b] = v]
      /\ filled' = [filled EXCEPT ![p] = filled[p] + 1]
      /\ ppc' = [ppc EXCEPT ![p] = IF filled'[p] = count[p] THEN "spin" ELSE "fill"]
      /\ UNCHANGED <<write_idx, commit_idx, count, w, items, consVars>>
  BY DEF Fill, Goto
<1>3. OthersSame(p)
  BY <1>1, <1>2 DEF OthersSame, TypeOK
<1>4. b \in 0..(Capacity - 1) /\ v \in Items
  <2>1. filled[p] \in 0..M /\ filled[p] + 1 \in 1..count[p]
    <3>1. count[p] <= Place(write_idx) /\ Place(write_idx) <= Capacity /\ Place(write_idx) \in Nat
      BY <1>1, Indices, Locals DEF Producer, Reserved
    <3> QED BY <1>1, <3>1, Sizes
  <2>2. b \in 0..(Capacity - 1)
    BY <1>1, <2>1, SlotOfPlus
  <2> QED BY <1>1, <2>1, <2>2
<1>5. \A k \in Nat : k < count[p] /\ k # filled[p] => Slot(Plus(w[p], k)) # b
  <2> SUFFICES ASSUME NEW k \in Nat, k < count[p], k # filled[p]
               PROVE  Slot(Plus(w[p], k)) # Slot(Plus(w[p], filled[p]))
    OBVIOUS
  <2>1. /\ Place(w[p]) + k \in 0..(Capacity - 1) /\ Plus(w[p], k) = Plus(read_idx, Place(w[p]) + k)
        /\ Place(w[p]) + filled[p] \in 0..(Capacity - 1)
        /\ Plus(w[p], filled[p]) = Plus(read_idx, Place(w[p]) + filled[p])
    BY <1>1, Held
  <2>2. Place(w[p]) + k # Place(w[p]) + filled[p]
    BY <1>1, Locals
  <2> QED BY <1>1, <2>1, <2>2, SlotsApart
<1>6. /\ ppc'[p] = IF filled[p] + 1 = count[p] THEN "spin" ELSE "fill"
      /\ filled'[p] = filled[p] + 1
  BY <1>1, <1>2 DEF TypeOK
<1>7. \A o \in Producers \ {p}, l \in Nat :
         Holds(o) /\ l < count[o] => Slot(Plus(w[o], l)) # b
  BY <1>1, HeldApart
<1>8. \A l \in Nat : l < Place(commit_idx) => Slot(Plus(read_idx, l)) # b
  BY <1>1, HeldUnread
<1>9. buffer'[b] = v /\ \A c \in 0..(Capacity - 1) : c # b => buffer'[c] = buffer[c]
  BY <1>1, <1>2, <1>4 DEF TypeOK
<1> HIDE DEF b
<1>10. TypeOK'
  <2>1. buffer' \in [0..(Capacity - 1) -> Items]
    BY <1>1, <1>2, <1>4 DEF TypeOK
  <2>2. filled' \in [Producers -> 0..MaxBatch]
    <3>1. filled[p] + 1 \in 0..MaxBatch
      BY <1>1, Sizes
    <3> QED BY <1>1, <1>2, <3>1 DEF TypeOK
  <2>3. ppc' \in [Producers -> {"idle", "space", "reserve", "fill", "spin", "commit"}]
    BY <1>1, <1>2 DEF TypeOK
  <2> QED BY <1>1, <1>2, <2>1, <2>2, <2>3 DEF TypeOK, consVars
<1> HIDE DEF v
<1>11. IndexOrder'
  BY <1>2 DEF Inv, IndexOrder, consVars
<1>12. Consumer'
  <2> SUFFICES ASSUME cpc \in {"copy", "advance"}, NEW k \in 0..(want - 1), k < Len(out)
               PROVE  out[k + 1] = buffer'[Slot(Plus(r, k))]
    BY <1>2 DEF Inv, Consumer, Place, consVars
  <2>1. /\ r = read_idx /\ want \in Nat /\ want <= Place(commit_idx)
        /\ out[k + 1] = buffer[Slot(Plus(r, k))]
    BY <1>1, Sizes DEF Inv, Consumer, TypeOK
  <2>2. k \in Nat /\ k < Place(commit_idx) /\ k \in 0..M
    BY <2>1, Indices, Sizes
  <2>3. Slot(Plus(r, k)) # b /\ Slot(Plus(r, k)) \in 0..(Capacity - 1)
    BY <1>1, <1>8, <2>1, <2>2, SlotOfPlus
  <2> QED BY <1>9, <2>1, <2>3
<1>13. Producer(p)'
  <2>1. Reserved(p)'
    BY <1>1, <1>2, <1>6 DEF Producer, Reserved, Place, consVars
  <2>2. Filled(p)'
    <3>1. \A k \in 0..(count[p] - 1) : k < filled[p] + 1 => buffer'[Slot(Plus(w[p], k))] = items[p][k + 1]
      <4> SUFFICES ASSUME NEW k \in 0..(count[p] - 1), k < filled[p] + 1
                   PROVE  buffer'[Slot(Plus(w[p], k))] = items[p][k + 1]
        OBVIOUS
      <4>1. CASE k = filled[p]
        BY <1>9, <4>1 DEF b, v
      <4>2. CASE k < filled[p]
        <5>1. buffer[Slot(Plus(w[p], k))] = items[p][k + 1]
          BY <1>1, <4>2 DEF Producer, Filled
        <5>2. k \in Nat /\ k < count[p] /\ Place(w[p]) + k \in 0..(Capacity - 1)
              /\ Plus(w[p], k) = Plus(read_idx, Place(w[p]) + k)
          BY <1>1, <4>2, Held
        <5>3. Slot(Plus(w[p], k)) \in 0..(Capacity - 1)
          <6>1. Place(w[p]) + k \in 0..M
            BY <5>2, Sizes
          <6> QED BY <1>1, <5>2, <6>1, SlotOfPlus
        <5>4. Slot(Plus(w[p], k)) # b
          BY <1>1, <1>5, <4>2, <5>2
        <5> QED BY <1>9, <5>1, <5>3, <5>4
      <4> QED BY <1>1, <4>1, <4>2
    <3>2. /\ items'[p] \in [1..count'[p] -> Items]
          /\ filled'[p] <= count'[p]
          /\ ppc'[p] = "fill" <=> filled'[p] < count'[p]
      BY <1>1, <1>2, <1>6
    <3> QED BY <1>2, <1>6, <3>1, <3>2 DEF Filled
  <2>3. \A o \in Producers \ {p} : Holds(o)' => Apart(p, o)'
    BY <1>1, <1>2, <1>3 DEF Producer, Apart, OthersSame, Holds, Place, consVars
  <2>4. Holds(p)' /\ ppc'[p] # "reserve"
    BY <1>6 DEF Holds
  <2> QED BY <1>1, <1>2, <1>6, <2>1, <2>2, <2>3, <2>4 DEF Producer, Room
<1>14. ASSUME NEW o \in Producers, o # p
       PROVE  Producer(o)'
  <2>1. /\ Producer(o) /\ (Holds(o)' <=> Holds(o)) /\ ppc'[o] = ppc[o] /\ w'[o] = w[o]
        /\ count'[o] = count[o] /\ items'[o] = items[o] /\ filled'[o] = filled[o]
    BY <1>3, <1>14 DEF OthersSame, Holds, Inv
  <2>2. Room(o)' /\ (Holds(o) => Reserved(o)')
    BY <1>2, <2>1 DEF Producer, Room, Reserved, Place, consVars
  <2>3. ASSUME Holds(o) PROVE Filled(o)'
    <3>1. Filled(o)
      BY <2>1, <2>3 DEF Producer
    <3>2. ASSUME NEW k \in 0..(count[o] - 1), k < filled[o]
          PROVE  buffer'[Slot(Plus(w[o], k))] = items[o][k + 1]
      <4>1. buffer[Slot(Plus(w[o], k))] = items[o][k + 1] /\ k \in Nat /\ k < count[o]
        BY <3>1, <3>2, Locals DEF Filled
      <4>2. Place(w[o]) + k \in 0..(Capacity - 1) /\ Plus(w[o], k) = Plus(read_idx, Place(w[o]) + k)
        BY <2>3, <4>1, Held
      <4>3. Slot(Plus(w[o], k)) \in 0..(Capacity - 1)
        <5>1. Place(w[o]) + k \in 0..M
          BY <4>2, Sizes
        <5> QED BY <1>1, <4>2, <5>1, SlotOfPlus
      <4>4. Slot(Plus(w[o], k)) # b
        BY <1>7, <1>14, <2>3, <4>1
      <4> QED BY <1>9, <4>1, <4>3, <4>4
    <3> QED BY <2>1, <3>1, <3>2 DEF Filled
  <2>4. ASSUME NEW a \in Producers \ {o}, Holds(o)', Holds(a)'
        PROVE  Apart(o, a)'
    <3>1. Holds(a)
      BY <1>1, <1>3, <2>4 DEF OthersSame, Holds
    <3> QED BY <3>1, <2>1, <2>4, <1>2 DEF Producer, Apart, Place, consVars
  <2> QED BY <2>1, <2>2, <2>3, <2>4 DEF Producer
<1> QED BY <1>10, <1>11, <1>12, <1>13, <1>14 DEF Inv

(* The batch at its turn becomes the consumer's.                            *)
LEMMA CommitInv ==
  ASSUME Inv, NEW p \in Producers, Commit(p)
  PROVE  Inv'
<1>1. /\ TypeOK /\ ppc[p] = "commit" /\ Holds(p) /\ Producer(p) /\ w[p] = commit_idx
      /\ count[p] \in Nat /\ 1 <= count[p]
      /\ Place(w[p]) + count[p] <= Place(write_idx)
      /\ commit_idx \in 0..(M - 1) /\ read_idx \in 0..(M - 1)
      /\ Place(commit_idx) \in Nat /\ Place(write_idx) \in Nat /\ Place(write_idx) <= Capacity
  BY Indices, Locals DEF Inv, Producer, Reserved, Holds, Commit
<1>2. /\ commit_idx' = Plus(commit_idx, count[p])
      /\ ppc' = [ppc EXCEPT ![p] = "idle"] /\ count' = [count EXCEPT ![p] = 0]
      /\ w' = [w EXCEPT ![p] = 0] /\ items' = [items EXCEPT ![p] = <<>>]
      /\ filled' = [filled EXCEPT ![p] = 0]
      /\ UNCHANGED <<buffer, write_idx, consVars>>
  BY <1>1 DEF Commit, Goto
<1>3. OthersSame(p)
  BY <1>1, <1>2 DEF OthersSame, TypeOK
<1>4. Place(commit_idx)' = Place(commit_idx) + count[p] /\ commit_idx' \in 0..(M - 1)
  <2>1. Place(commit_idx) + count[p] < M /\ count[p] \in 0..M
    BY <1>1, Sizes
  <2>2. Minus(Plus(commit_idx, count[p]), read_idx) = Minus(commit_idx, read_idx) + count[p]
    BY <1>1, <2>1, MinusOfPlus DEF Place
  <2> QED BY <1>1, <1>2, <2>1, <2>2, PlusIs DEF Place, consVars
<1>5. Place(write_idx)' = Place(write_idx)
  BY <1>2 DEF Place, consVars
<1>6. TypeOK'
  <2>1. <<>> \in Batches
    <3>1. <<>> \in [1..0 -> Items] /\ 0 \in 0..MaxBatch
      BY Sizes
    <3> QED BY <3>1 DEF Batches
  <2>2. items' \in [Producers -> Batches]
    BY <1>1, <1>2, <2>1 DEF TypeOK
  <2>3. filled' \in [Producers -> 0..MaxBatch] /\ count' \in [Producers -> 0..MaxBatch]
    BY <1>1, <1>2, Sizes DEF TypeOK
  <2>4. w' \in [Producers -> Index] /\ commit_idx' \in Index
    BY <1>1, <1>2, <1>4, Sizes DEF TypeOK
  <2>5. ppc' \in [Producers -> {"idle", "space", "reserve", "fill", "spin", "commit"}]
    BY <1>1, <1>2 DEF TypeOK
  <2> QED BY <1>1, <1>2, <2>2, <2>3, <2>4, <2>5 DEF TypeOK, consVars
<1>7. IndexOrder'
  <2>1. Place(commit_idx)' <= Place(write_idx)' /\ Place(write_idx)' <= Capacity
    BY <1>1, <1>4, <1>5
  <2> QED BY <2>1 DEF Place, IndexOrder
<1>8. Consumer'
  <2>1. Place(commit_idx) <= Place(commit_idx)'
    BY <1>1, <1>4
  <2>2. TypeOK /\ Consumer /\ UNCHANGED consVars /\ UNCHANGED buffer
    BY <1>2 DEF Inv
  <2>3. want \in Nat
    BY <1>1, Sizes DEF TypeOK
  <2>4. want <= Place(commit_idx) => want <= Place(commit_idx)'
    BY <1>1, <1>4, <2>3
  <2> QED BY <2>2, <2>4 DEF Consumer, consVars
<1>9. Producer(p)'
  <2>1. ppc'[p] = "idle" /\ items'[p] = <<>>
    BY <1>1, <1>2 DEF TypeOK
  <2> QED BY <2>1 DEF Producer, Room, Holds
<1>10. ASSUME NEW o \in Producers, o # p
       PROVE  Producer(o)'
  <2>1. /\ Producer(o) /\ (Holds(o)' <=> Holds(o)) /\ ppc'[o] = ppc[o] /\ w'[o] = w[o]
        /\ count'[o] = count[o] /\ items'[o] = items[o] /\ filled'[o] = filled[o]
    BY <1>3, <1>10 DEF OthersSame, Holds, Inv
  <2>2. Place(w[o])' = Place(w[o]) /\ Place(w[o]) \in Nat /\ w[o] \in 0..(M - 1) /\ count[o] \in Nat
    BY <1>2, <2>1, Locals DEF Place, consVars
  <2>3. Room(o)'
    BY <1>2, <2>1, <1>5 DEF Producer, Room
  <2>4. ASSUME Holds(o) PROVE Reserved(o)' /\ Filled(o)'
    <3>1. Reserved(o) /\ Filled(o) /\ Apart(p, o) /\ 1 <= count[o]
      BY <1>1, <1>10, <2>1, <2>4, Locals DEF Producer, Holds
    <3>2. Place(w[p]) + count[p] <= Place(w[o])
      BY <1>1, <2>2, <3>1 DEF Apart, Reserved
    <3>3. ppc[o] # "commit"
      <4> SUFFICES ASSUME ppc[o] = "commit" PROVE FALSE
        OBVIOUS
      <4>1. Place(w[o]) = Place(commit_idx)
        BY <3>1 DEF Reserved
      <4> QED BY <1>1, <2>2, <3>2, <4>1
    <3>4. Reserved(o)'
      BY <1>1, <1>2, <1>4, <1>5, <2>1, <2>2, <3>1, <3>2, <3>3 DEF Reserved
    <3>5. Filled(o)'
      BY <1>2, <2>1, <3>1 DEF Filled
    <3> QED BY <3>4, <3>5
  <2>5. ASSUME NEW a \in Producers \ {o}, Holds(o)', Holds(a)'
        PROVE  Apart(o, a)'
    <3>1. a # p
      BY <1>1, <1>2, <2>5 DEF Holds, TypeOK
    <3> QED BY <3>1, <2>1, <2>5, <1>2, <1>3 DEF Producer, OthersSame, Apart, Holds, Place, consVars
  <2> QED BY <2>1, <2>3, <2>4, <2>5 DEF Producer
<1> QED BY <1>6, <1>7, <1>8, <1>9, <1>10 DEF Inv

(* The consumer, up to its CAS, moves nothing of the producers.             *)
LEMMA StepOfConsumer ==
  ASSUME Inv, UNCHANGED <<buffer, prodVars, read_idx>>, TypeOK', Consumer'
  PROVE  Inv'
<1> USE DEF prodVars
<1>1. IndexOrder'
  BY DEF Inv, IndexOrder
<1>2. ASSUME NEW p \in Producers
      PROVE  Producer(p)'
  <2>1. Producer(p)
    BY DEF Inv
  <2>2. Room(p)'
    BY <2>1 DEF Producer, Room, Place
  <2>3. Holds(p)' => Reserved(p)' /\ Filled(p)'
    BY <2>1 DEF Producer, Reserved, Filled, Holds, Place
  <2>4. \A o \in Producers \ {p} : Holds(p)' /\ Holds(o)' => Apart(p, o)'
    BY <2>1 DEF Producer, Apart, Holds, Place
  <2>5. ~ Holds(p)' => items'[p] = <<>>
    BY <2>1 DEF Producer, Holds
  <2> QED BY <2>1, <2>2, <2>3, <2>4, <2>5 DEF Producer
<1> QED BY <1>1, <1>2 DEF Inv

(* Only the consumer moves read_idx_.                                       *)
LEMMA LoadOwnReadIdxInv ==
  ASSUME Inv, LoadOwnReadIdx
  PROVE  Inv'
<1>1. PICK n \in 1..MaxBatch : want' = n
  BY DEF LoadOwnReadIdx
<1>2. TypeOK /\ n \in 0..MaxBatch
  BY Sizes DEF Inv
<1>3. r' = read_idx' /\ cpc' = "avail" /\ UNCHANGED <<buffer, prodVars, read_idx, out, got>>
  BY DEF LoadOwnReadIdx
<1>4. TypeOK'
  BY <1>1, <1>2, <1>3 DEF TypeOK, prodVars
<1>5. Consumer'
  BY <1>3 DEF Consumer
<1> QED BY <1>3, <1>4, <1>5, StepOfConsumer

(* It takes no more than is committed.                                      *)
LEMMA LoadCommitIdxInv ==
  ASSUME Inv, LoadCommitIdx
  PROVE  Inv'
<1>1. /\ TypeOK /\ Consumer /\ cpc = "avail" /\ r = read_idx
      /\ want' = Least(want, Minus(commit_idx, r))
      /\ cpc' = IF want' = 0 THEN "idle" ELSE "copy"
      /\ out' = <<>>
      /\ UNCHANGED <<buffer, prodVars, read_idx, r, got>>
  BY DEF Inv, Consumer, LoadCommitIdx
<1>2. want \in 0..MaxBatch /\ Place(commit_idx) \in Nat /\ want' = Least(want, Place(commit_idx))
  BY <1>1, Indices DEF TypeOK, Place
<1>3. want' \in 0..MaxBatch /\ want' <= Place(commit_idx)
  BY <1>2, Sizes DEF Least
<1>4. <<>> \in Batches /\ Len(<<>>) = 0
  <2>1. <<>> \in [1..0 -> Items] /\ 0 \in 0..MaxBatch
    BY Sizes
  <2> QED BY <2>1 DEF Batches
<1>5. TypeOK'
  BY <1>1, <1>3, <1>4 DEF TypeOK, prodVars
<1>6. Consumer'
  <2>1. Place(commit_idx)' = Place(commit_idx)
    BY <1>1 DEF Place, prodVars
  <2>2. Len(out') = 0 /\ r' = read_idx'
    BY <1>1, <1>4
  <2>3. cpc' # "idle" => 1 <= want' /\ cpc' = "copy"
    BY <1>1, <1>3, Sizes
  <2>4. \A k \in 0..(want' - 1) : ~ (k < 0)
    BY <1>3, Sizes
  <2>5. cpc' \in {"idle", "copy"}
    BY <1>1
  <2> QED BY <1>3, <2>1, <2>2, <2>3, <2>4, <2>5, Sizes DEF Consumer
<1> QED BY <1>1, <1>5, <1>6, StepOfConsumer

(* Batches are short sequences.                                             *)
LEMMA BatchesAre ==
  ASSUME NEW s
  PROVE  s \in Batches <=> s \in Seq(Items) /\ Len(s) <= MaxBatch
<1>1. MaxBatch \in Nat
  BY Sizes
<1>2. ASSUME s \in Batches PROVE s \in Seq(Items) /\ Len(s) <= MaxBatch
  <2>1. PICK n \in 0..MaxBatch : s \in [1..n -> Items]
    BY <1>2 DEF Batches
  <2>2. s \in Seq(Items) /\ DOMAIN s = 1..n /\ n \in Nat
    BY <2>1, <1>1, SeqDef
  <2>3. Len(s) = n
    BY <2>2, LenProperties
  <2> QED BY <1>1, <2>1, <2>2, <2>3
<1>3. ASSUME s \in Seq(Items), Len(s) <= MaxBatch PROVE s \in Batches
  <2>1. Len(s) \in 0..MaxBatch /\ s \in [1..Len(s) -> Items]
    BY <1>1, <1>3, LenProperties
  <2> QED BY <2>1 DEF Batches
<1> QED BY <1>2, <1>3

(* What it copies is what was committed.                                    *)
LEMMA CopyInv ==
  ASSUME Inv, Copy
  PROVE  Inv'
<1> DEFINE v == buffer[Slot(Plus(r, Len(out)))]
<1>1. /\ TypeOK /\ Consumer /\ cpc = "copy" /\ r = read_idx
      /\ out' = Append(out, v)
      /\ cpc' = IF Len(out') = want THEN "advance" ELSE "copy"
      /\ UNCHANGED <<buffer, prodVars, read_idx, want, r, got>>
  BY DEF Inv, Consumer, Copy
<1>2. /\ out \in Seq(Items) /\ Len(out) \in Nat /\ Len(out) < want
      /\ 1 <= want /\ want <= Place(commit_idx)
  <2>1. out \in Seq(Items)
    BY <1>1, BatchesAre DEF TypeOK
  <2> QED BY <1>1, <2>1, LenProperties DEF Consumer
<1>3. want \in 0..MaxBatch /\ MaxBatch \in Nat /\ want \in Nat
  BY <1>1, Sizes DEF TypeOK
<1>4. Len(out) \in 0..M
  BY <1>2, <1>3, Indices, Sizes
<1>5. Slot(Plus(r, Len(out))) \in 0..(Capacity - 1)
  BY <1>1, <1>4, Indices, SlotOfPlus
<1>6. v \in Items
  BY <1>1, <1>5 DEF TypeOK
<1>7. v = buffer'[Slot(Plus(r', Len(out)))]
  BY <1>1
<1> HIDE DEF v
<1>8. /\ out' \in Seq(Items) /\ Len(out') = Len(out) + 1
      /\ \A k \in 1..Len(out) : out'[k] = out[k]
      /\ out'[Len(out) + 1] = v
  BY <1>1, <1>2, <1>6, AppendProperties
<1>9. TypeOK'
  <2>1. out' \in Batches
    BY <1>2, <1>3, <1>8, BatchesAre
  <2> QED BY <1>1, <2>1 DEF TypeOK, prodVars
<1>10. Consumer'
  <2>1. Place(commit_idx)' = Place(commit_idx)
    BY <1>1 DEF Place, prodVars
  <2>2. Len(out') <= want /\ (cpc' = "copy" <=> Len(out') < want)
    BY <1>1, <1>2, <1>3, <1>8
  <2>3. ASSUME NEW k \in 0..(want - 1), k < Len(out')
        PROVE  out'[k + 1] = buffer'[Slot(Plus(r', k))]
    <3>1. CASE k = Len(out)
      BY <3>1, <1>7, <1>8
    <3>2. CASE k < Len(out)
      <4>1. out[k + 1] = buffer[Slot(Plus(r, k))]
        BY <1>1, <3>2 DEF Consumer
      <4>2. out'[k + 1] = out[k + 1]
        BY <1>2, <1>3, <1>8, <3>2
      <4> QED BY <1>1, <4>1, <4>2
    <3> QED BY <1>2, <1>3, <1>8, <2>3, <3>1, <3>2
  <2> QED BY <1>1, <1>2, <2>1, <2>2, <2>3 DEF Consumer
<1> QED BY <1>1, <1>9, <1>10, StepOfConsumer

(* Every index of a producer is as much nearer.                             *)
LEMMA AdvanceInv ==
  ASSUME Inv, Advance
  PROVE  Inv'
<1>1. /\ TypeOK /\ Consumer /\ cpc = "advance" /\ r = read_idx
      /\ read_idx' = Plus(read_idx, want)
      /\ got' = out /\ out' = <<>> /\ want' = 0 /\ cpc' = "idle"
      /\ UNCHANGED <<buffer, prodVars, r>>
  BY DEF Inv, Consumer, Advance
<1>2. /\ want \in 0..MaxBatch /\ want \in Nat /\ want <= Place(commit_idx)
  BY <1>1, Sizes DEF TypeOK, Consumer
<1>3. /\ read_idx \in 0..(M - 1) /\ write_idx \in 0..(M - 1) /\ commit_idx \in 0..(M - 1)
      /\ Place(commit_idx) \in Nat /\ Place(write_idx) \in Nat
      /\ Place(commit_idx) <= Place(write_idx) /\ Place(write_idx) <= Capacity
  BY Indices
<1>4. \A j \in 0..(M - 1) : want <= Place(j) => Minus(j, read_idx') = Place(j) - want
  BY <1>1, <1>2, <1>3, MinusFromPlus DEF Place
<1>5. /\ Place(commit_idx)' = Place(commit_idx) - want
      /\ Place(write_idx)' = Place(write_idx) - want
  <2>1. want <= Place(write_idx)
    BY <1>2, <1>3
  <2> QED BY <1>1, <1>2, <1>3, <1>4, <2>1 DEF Place, prodVars
<1>6. TypeOK'
  <2>1. want \in 0..M
    BY <1>2, <1>3, Sizes
  <2>2. read_idx' \in Index
    BY <1>1, <1>3, <2>1, PlusIs, Sizes
  <2>3. <<>> \in Batches /\ 0 \in 0..MaxBatch
    <3>1. <<>> \in [1..0 -> Items] /\ 0 \in 0..MaxBatch
      BY Sizes
    <3> QED BY <3>1 DEF Batches
  <2> QED BY <1>1, <2>2, <2>3 DEF TypeOK, prodVars
<1>7. IndexOrder'
  <2>1. Place(commit_idx)' <= Place(write_idx)' /\ Place(write_idx)' <= Capacity
    BY <1>2, <1>3, <1>5, Sizes
  <2> QED BY <2>1 DEF Place, IndexOrder
<1>8. Consumer'
  BY <1>1 DEF Consumer
<1>9. ASSUME NEW p \in Producers
      PROVE  /\ Holds(p) => /\ Place(w[p])' = Place(w[p]) - want
                            /\ want <= Place(w[p])
             /\ w[p] \in 0..(M - 1) /\ Place(w[p]) \in Nat /\ count[p] \in Nat
             /\ Producer(p)
  <2>1. w[p] \in 0..(M - 1) /\ Place(w[p]) \in Nat /\ count[p] \in Nat /\ Producer(p)
    BY Locals DEF Inv
  <2>2. ASSUME Holds(p) PROVE want <= Place(w[p])
    <3>1. Place(commit_idx) <= Place(w[p])
      BY <2>1, <2>2 DEF Producer, Reserved
    <3> QED BY <1>2, <1>3, <2>1, <3>1
  <2>3. ASSUME Holds(p) PROVE Place(w[p])' = Place(w[p]) - want
    BY <1>1, <1>4, <2>1, <2>2, <2>3 DEF Place, prodVars
  <2> QED BY <2>1, <2>2, <2>3
<1>10. ASSUME NEW p \in Producers
       PROVE  Producer(p)'
  <2>1. UNCHANGED <<ppc, count, w, items, filled, buffer, write_idx, commit_idx>> /\ (Holds(p)' <=> Holds(p))
    BY <1>1 DEF prodVars, Holds
  <2>2. Room(p)'
    <3> SUFFICES ASSUME ppc[p] = "reserve", w[p] = write_idx
                 PROVE  Place(write_idx)' + count[p] <= Capacity
      BY <2>1 DEF Room
    <3>1. Place(write_idx) + count[p] <= Capacity
      BY <1>9 DEF Producer, Room
    <3> QED BY <1>2, <1>3, <1>5, <1>9, <3>1, Sizes
  <2>3. ASSUME Holds(p) PROVE Reserved(p)' /\ Filled(p)'
    <3>1. Reserved(p) /\ Filled(p) /\ Place(w[p])' = Place(w[p]) - want
      BY <1>9, <2>3 DEF Producer
    <3>2. Reserved(p)'
      BY <1>2, <1>3, <1>5, <1>9, <2>1, <3>1 DEF Reserved
    <3>3. Filled(p)'
      BY <2>1, <3>1 DEF Filled
    <3> QED BY <3>2, <3>3
  <2>4. ASSUME NEW o \in Producers \ {p}, Holds(p), Holds(o)
        PROVE  Apart(p, o)'
    <3>1. Apart(p, o)
      BY <1>9, <2>4 DEF Producer
    <3> QED BY <1>2, <1>9, <2>1, <2>4, <3>1 DEF Apart
  <2>5. \A o \in Producers : Holds(o)' <=> Holds(o)
    BY <2>1 DEF Holds
  <2> QED BY <1>9, <2>1, <2>2, <2>3, <2>4, <2>5 DEF Producer
<1> QED BY <1>6, <1>7, <1>8, <1>10 DEF Inv

-----------------------------------------------------------------------------
(* An empty queue.                                                         *)
LEMMA InitInv == Init => Inv
<1> SUFFICES ASSUME Init PROVE Inv
  OBVIOUS
<1>1. 0 \in 0..(M - 1) /\ Minus(0, 0) = 0
  <2>1. 0 \in 0..(M - 1)
    BY Sizes
  <2> QED BY <2>1, MinusZero
<1>2. <<>> \in Batches /\ 0 \in 0..MaxBatch
  <2>1. <<>> \in [1..0 -> Items] /\ 0 \in 0..MaxBatch
    BY Sizes
  <2> QED BY <2>1 DEF Batches
<1>3. buffer \in [0..(Capacity - 1) -> Items]
  <2>1. (CHOOSE v \in Items : TRUE) \in Items
    BY ItemsAssumption
  <2> QED BY <2>1 DEF Init
<1>4. TypeOK
  BY <1>1, <1>2, <1>3, Sizes DEF Init, TypeOK
<1>5. IndexOrder
  BY <1>1, Sizes DEF Init, IndexOrder
<1>6. Consumer
  BY DEF Init, Consumer
<1>7. \A p \in Producers : Producer(p)
  BY DEF Init, Producer, Room, Holds
<1> QED BY <1>4, <1>5, <1>6, <1>7 DEF Inv

(* Every step.                                                              *)
LEMMA NextInv == Inv /\ [Next]_vars => Inv'
<1> SUFFICES ASSUME Inv, [Next]_vars PROVE Inv'
  OBVIOUS
<1>1. ASSUME NEW p \in Producers, Produce(p) PROVE Inv'
  BY <1>1, LoadWriteIdxInv, LoadReadIdxInv, ReserveInv, ReserveFailsInv, FillInv, SpinEndsInv,
     CommitInv DEF Produce, Finish
<1>2. ASSUME Consume PROVE Inv'
  BY <1>2, LoadOwnReadIdxInv, LoadCommitIdxInv, CopyInv, AdvanceInv DEF Consume
<1>3. ASSUME UNCHANGED vars PROVE Inv'
  <2>1. UNCHANGED <<buffer, prodVars, read_idx>> /\ UNCHANGED consVars
    BY <1>3 DEF vars, consVars
  <2>2. TypeOK' /\ Consumer'
    BY <2>1 DEF Inv, TypeOK, Consumer, Place, prodVars, consVars
  <2> QED BY <2>1, <2>2, StepOfConsumer
<1> QED BY <1>1, <1>2, <1>3 DEF Next

(* The invariant holds of every state the queue reaches.                    *)
THEOREM Invariance == Spec => []Inv
<1> QED BY InitInv, NextInv, PTL DEF Spec

(* Every index stays within its width and every local within its bound.     *)
THEOREM TypeCorrect == Spec => []TypeOK
<1>1. Inv => TypeOK
  BY DEF Inv
<1> QED BY <1>1, Invariance, PTL

(* The three indices stay in order and within Capacity of one another,      *)
(* however stale what a producer has loaded before its CAS.                 *)
THEOREM IndicesInOrder == Spec => []IndexOrder
<1>1. Inv => IndexOrder
  BY DEF Inv
<1> QED BY <1>1, Invariance, PTL

-----------------------------------------------------------------------------
(* The slots p still has to fill are slots it holds.                        *)
LEMMA FillsHeld ==
  ASSUME Inv, NEW p \in Producers, NEW s \in ToFill(p)
  PROVE  Holds(p) /\ \E k \in Nat : k < count[p] /\ s = Slot(Plus(w[p], k))
<1>1. ppc[p] = "fill" /\ Holds(p) /\ Producer(p)
  BY DEF ToFill, Holds, Inv
<1>2. /\ w[p] \in 0..(M - 1) /\ count[p] \in Nat /\ filled[p] \in Nat
      /\ Place(w[p]) \in Nat /\ Place(w[p]) + count[p] <= Place(write_idx)
      /\ Place(write_idx) \in Nat /\ Place(write_idx) <= Capacity
      /\ filled[p] <= count[p]
  BY <1>1, Indices, Locals DEF Producer, Reserved, Filled
<1>3. PICK k \in 0..(count[p] - filled[p] - 1) : s = Slot(Plus(Plus(w[p], filled[p]), k))
  BY <1>1 DEF ToFill, SlotsFrom
<1>4. filled[p] + k \in Nat /\ filled[p] + k < count[p] /\ filled[p] + k < M /\ k \in Nat
  BY <1>2, Sizes
<1>5. Plus(Plus(w[p], filled[p]), k) = Plus(w[p], filled[p] + k)
  BY <1>2, <1>4, PlusPlus
<1> QED BY <1>1, <1>3, <1>4, <1>5

(* The slots the consumer still has to copy are committed.                  *)
LEMMA CopiesCommitted ==
  ASSUME Inv, NEW s \in ToCopy
  PROVE  \E l \in Nat : l < Place(commit_idx) /\ s = Slot(Plus(read_idx, l))
<1>1. cpc = "copy" /\ TypeOK /\ Consumer /\ r = read_idx /\ read_idx \in 0..(M - 1)
  BY Indices DEF ToCopy, Inv, Consumer
<1>2. want \in Nat /\ Len(out) \in Nat /\ Len(out) < want /\ want <= Place(commit_idx)
      /\ Place(commit_idx) \in Nat /\ Place(commit_idx) <= Capacity
  <2>1. out \in Seq(Items)
    BY <1>1, BatchesAre DEF TypeOK
  <2>2. Len(out) \in Nat /\ want \in Nat
    BY <1>1, <2>1, LenProperties, Sizes DEF TypeOK
  <2>3. Place(commit_idx) \in Nat /\ Place(commit_idx) <= Capacity
    BY Indices, Sizes
  <2> QED BY <1>1, <2>2, <2>3 DEF Consumer
<1>3. PICK k \in 0..(want - Len(out) - 1) : s = Slot(Plus(Plus(read_idx, Len(out)), k))
  BY <1>1 DEF ToCopy, SlotsFrom
<1>4. /\ Len(out) + k \in Nat /\ Len(out) + k < Place(commit_idx) /\ Len(out) + k < M /\ k \in Nat
  BY <1>2, Sizes
<1>5. Plus(Plus(read_idx, Len(out)), k) = Plus(read_idx, Len(out) + k)
  BY <1>1, <1>2, <1>4, PlusPlus
<1> QED BY <1>3, <1>4, <1>5

(* No data race on a slot: fill and copy need no synchronization of their   *)
(* own.                                                                    *)
THEOREM SlotsExclusive == Spec => []NoSlotRace
<1>1. ASSUME Inv PROVE NoSlotRace
  <2> USE <1>1
  <2>1. ASSUME NEW p \in Producers, NEW s \in ToFill(p), s \in ToCopy
        PROVE  FALSE
    BY <2>1, FillsHeld, CopiesCommitted, HeldUnread
  <2>2. ASSUME NEW p \in Producers, NEW o \in Producers \ {p}, NEW s \in ToFill(p), s \in ToFill(o)
        PROVE  FALSE
    BY <2>2, FillsHeld, HeldApart
  <2> QED BY <2>1, <2>2 DEF NoSlotRace
<1> QED BY <1>1, Invariance, PTL

-----------------------------------------------------------------------------
(* The queue the consumer and the producers implement.                      *)
QueueIs ==
    /\ Queue \in Seq(Items) /\ Len(Queue) = Place(commit_idx)
    /\ \A k \in Nat : k < Place(commit_idx) =>
          Queue[k + 1] = buffer[Slot(Plus(read_idx, k))]

(* The committed slots are the queue.                                       *)
LEMMA QueueIsCommitted == Inv => QueueIs
<1> SUFFICES ASSUME Inv PROVE QueueIs
  OBVIOUS
<1>1. /\ read_idx \in 0..(M - 1) /\ Place(commit_idx) \in Nat /\ Place(commit_idx) <= Capacity
      /\ buffer \in [0..(Capacity - 1) -> Items]
  BY Indices, Sizes DEF Inv, TypeOK
<1>2. Queue = [i \in 1..Place(commit_idx) |-> buffer[Slot(read_idx + i - 1)]]
  BY DEF Queue, Place
<1>3. ASSUME NEW k \in Nat, k < Place(commit_idx)
      PROVE  /\ Slot(read_idx + (k + 1) - 1) = Slot(Plus(read_idx, k))
             /\ Slot(Plus(read_idx, k)) \in 0..(Capacity - 1)
  <2>1. k \in 0..M /\ read_idx + (k + 1) - 1 = read_idx + k
    BY <1>1, <1>3, Sizes
  <2> QED BY <1>1, <2>1, SlotOfPlus DEF Slot
<1>4. ASSUME NEW k \in Nat, k < Place(commit_idx)
      PROVE  Queue[k + 1] = buffer[Slot(Plus(read_idx, k))]
  <2>1. k + 1 \in 1..Place(commit_idx)
    BY <1>1, <1>4
  <2> QED BY <1>2, <1>3, <1>4, <2>1
<1>5. ASSUME NEW i \in 1..Place(commit_idx)
      PROVE  buffer[Slot(read_idx + i - 1)] \in Items
  <2>1. PICK k \in Nat : k < Place(commit_idx) /\ i = k + 1
    <3>1. i - 1 \in Nat /\ i - 1 < Place(commit_idx) /\ i = (i - 1) + 1
      BY <1>1
    <3> QED BY <3>1
  <2> QED BY <1>1, <1>3, <2>1
<1>6. Queue \in [1..Place(commit_idx) -> Items]
  BY <1>2, <1>5
<1>7. Queue \in Seq(Items) /\ Len(Queue) = Place(commit_idx)
  BY <1>1, <1>6, SeqDef, LenProperties
<1> QED BY <1>4, <1>7 DEF QueueIs

(* A step that neither moves the two indices nor touches the slots between   *)
(* them leaves the queue as it is.                                          *)
LEMMA QueueSame ==
  ASSUME Inv, Inv', UNCHANGED <<read_idx, commit_idx>>,
         \A k \in Nat : k < Place(commit_idx) =>
            buffer'[Slot(Plus(read_idx, k))] = buffer[Slot(Plus(read_idx, k))]
  PROVE  UNCHANGED Queue
<1>1. Place(commit_idx)' = Place(commit_idx) /\ Place(commit_idx) \in Nat
  BY Indices DEF Place
<1>2. Inv' => QueueIs'
  BY QueueIsCommitted, PTL
<1>3. QueueIs /\ QueueIs'
  BY <1>2, QueueIsCommitted
<1>4. ASSUME NEW i \in 1..Len(Queue) PROVE Queue'[i] = Queue[i]
  <2>1. i - 1 \in Nat /\ i - 1 < Place(commit_idx) /\ (i - 1) + 1 = i
    BY <1>1, <1>3 DEF QueueIs
  <2> QED BY <1>1, <1>3, <2>1 DEF QueueIs
<1> QED BY <1>1, <1>3, <1>4, SeqEqual DEF QueueIs

(* The step that commits a batch puts it in whole.                          *)
LEMMA CommitPuts ==
  ASSUME Inv, Inv', NEW p \in Producers, Commit(p)
  PROVE  FIFO!Put(p)
<1> DEFINE n == count[p]
<1> DEFINE s == items[p]
<1>1. /\ TypeOK /\ ppc[p] = "commit" /\ Holds(p) /\ Producer(p) /\ w[p] = commit_idx
      /\ n \in Nat /\ 1 <= n /\ s \in [1..n -> Items] /\ filled[p] = n
      /\ Place(w[p]) + n <= Place(write_idx)
      /\ commit_idx \in 0..(M - 1) /\ read_idx \in 0..(M - 1)
      /\ Place(commit_idx) \in Nat /\ Place(write_idx) \in Nat /\ Place(write_idx) <= Capacity
  <2>1. /\ TypeOK /\ ppc[p] = "commit" /\ Holds(p) /\ Producer(p)
    BY DEF Inv, Holds, Commit
  <2>2. Reserved(p) /\ Filled(p)
    BY <2>1 DEF Producer
  <2>3. filled[p] \in Nat /\ count[p] \in Nat /\ 1 <= count[p]
    BY <2>1, Locals
  <2>4. filled[p] = count[p]
    BY <2>1, <2>2, <2>3 DEF Filled
  <2> QED BY <2>1, <2>2, <2>3, <2>4, Indices DEF Reserved, Filled
<1>2. \A k \in Nat : k < n =>
         /\ buffer[Slot(Plus(w[p], k))] = s[k + 1]
         /\ Plus(w[p], k) = Plus(read_idx, Place(commit_idx) + k)
  <2> SUFFICES ASSUME NEW k \in Nat, k < n
               PROVE  /\ buffer[Slot(Plus(w[p], k))] = s[k + 1]
                      /\ Plus(w[p], k) = Plus(read_idx, Place(commit_idx) + k)
    OBVIOUS
  <2>1. k \in 0..(count[p] - 1) /\ k < filled[p]
    BY <1>1
  <2>2. buffer[Slot(Plus(w[p], k))] = s[k + 1]
    BY <1>1, <2>1 DEF Producer, Filled
  <2>3. Plus(w[p], k) = Plus(read_idx, Place(w[p]) + k)
    BY <1>1, Held
  <2> QED BY <1>1, <2>2, <2>3
<1>3. commit_idx' = Plus(commit_idx, n) /\ UNCHANGED <<buffer, read_idx, got>>
  BY <1>1 DEF Commit, consVars
<1> HIDE DEF n, s
<1>4. Place(commit_idx)' = Place(commit_idx) + n
  <2>1. Place(commit_idx) + n < M
    BY <1>1, Sizes
  <2>2. Minus(Plus(commit_idx, n), read_idx) = Minus(commit_idx, read_idx) + n
    BY <1>1, <2>1, MinusOfPlus DEF Place
  <2> QED BY <1>3, <2>2 DEF Place
<1>5. QueueIs /\ QueueIs'
  <2>1. Inv' => QueueIs'
    BY QueueIsCommitted, PTL
  <2> QED BY <2>1, QueueIsCommitted
<1>6. s \in Seq(Items) /\ Len(s) = n
  BY <1>1, SeqDef, LenProperties
<1>7. /\ Queue \o s \in Seq(Items) /\ Len(Queue \o s) = Place(commit_idx) + n
      /\ \A i \in 1..(Place(commit_idx) + n) :
            (Queue \o s)[i] = IF i <= Place(commit_idx) THEN Queue[i] ELSE s[i - Place(commit_idx)]
  <2>1. Queue \in Seq(Items) /\ Len(Queue) = Place(commit_idx)
    BY <1>5 DEF QueueIs
  <2>2. /\ Queue \o s \in Seq(Items) /\ Len(Queue \o s) = Len(Queue) + Len(s)
        /\ \A i \in 1..Len(Queue) + Len(s) :
              (Queue \o s)[i] = IF i <= Len(Queue) THEN Queue[i] ELSE s[i - Len(Queue)]
    BY <1>6, <2>1, ConcatProperties
  <2> QED BY <1>6, <2>1, <2>2
<1>8. ASSUME NEW i \in 1..(Place(commit_idx) + n)
      PROVE  Queue'[i] = (Queue \o s)[i]
  <2>1. PICK k \in Nat : k = i - 1 /\ i = k + 1
    BY <1>1
  <2>2. Queue'[i] = buffer[Slot(Plus(read_idx, k))]
    <3>1. k < Place(commit_idx)'
      <4>1. k < Place(commit_idx) + n
        BY <1>1, <2>1
      <4> QED BY <1>4, <4>1
    <3> QED BY <1>3, <1>5, <2>1, <3>1 DEF QueueIs
  <2>3. CASE k < Place(commit_idx)
    <3>1. i <= Place(commit_idx)
      BY <1>1, <2>1, <2>3
    <3>2. Queue[i] = buffer[Slot(Plus(read_idx, k))]
      BY <1>5, <2>1, <2>3 DEF QueueIs
    <3> QED BY <1>7, <2>2, <3>1, <3>2
  <2>4. CASE ~ (k < Place(commit_idx))
    <3>1. PICK j \in Nat : j = k - Place(commit_idx) /\ j < n
      BY <1>1, <2>1, <2>4
    <3>2. Place(commit_idx) + j = k /\ i - Place(commit_idx) = j + 1 /\ ~ (i <= Place(commit_idx))
      BY <1>1, <2>1, <3>1
    <3>3. buffer[Slot(Plus(read_idx, k))] = s[j + 1]
      BY <1>2, <3>1, <3>2
    <3> QED BY <1>7, <2>2, <3>2, <3>3
  <2> QED BY <2>3, <2>4
<1>9. Queue' = Queue \o s
  <2>1. Queue' \in Seq(Items) /\ Len(Queue') = Place(commit_idx) + n
    BY <1>4, <1>5 DEF QueueIs
  <2> QED BY <1>7, <1>8, <2>1, SeqEqual
<1>10. SubSeq(s, 1, IF Len(s) > Capacity - Len(Queue) THEN Capacity - Len(Queue) ELSE Len(s)) = s
  <2>1. Len(Queue) = Place(commit_idx)
    BY <1>5 DEF QueueIs
  <2>2. ~ (Len(s) > Capacity - Len(Queue))
    BY <1>1, <1>6, <2>1, Sizes
  <2>3. SubSeq(s, 1, Len(s)) = s
    BY <1>6, SubSeqFull
  <2> QED BY <2>2, <2>3
<1>11. s = items[p] /\ s # <<>>
  <2>1. s # <<>>
    BY <1>1, <1>6, EmptySeq
  <2> QED BY <2>1 DEF s
<1>12. items' = [items EXCEPT ![p] = <<>>]
  BY DEF Commit
<1> QED BY <1>3, <1>9, <1>10, <1>11, <1>12 DEF FIFO!Put, FIFO!Room

(* The step that gets its slots hands its batch over.                       *)
LEMMA ReserveHands ==
  ASSUME Inv, Inv', NEW p \in Producers, Reserve(p)
  PROVE  FIFO!Hand(p)
<1>1. /\ Producer(p) /\ ~ Holds(p) /\ count[p] >= 1 /\ count[p] \in 0..MaxBatch
      /\ UNCHANGED <<buffer, read_idx, commit_idx, got>>
  BY Locals DEF Inv, TypeOK, Reserve, Holds, consVars
<1>2. items[p] = <<>> /\ count[p] \in 1..MaxBatch
  BY <1>1, Sizes DEF Producer
<1>3. UNCHANGED Queue
  BY <1>1, QueueSame
<1>4. PICK s \in [1..count[p] -> Items] : items' = [items EXCEPT ![p] = s]
  BY DEF Reserve
<1> QED BY <1>1, <1>2, <1>3, <1>4 DEF FIFO!Hand

(* The step that advances read_idx_ takes a batch out whole.                *)
LEMMA AdvanceTakes ==
  ASSUME Inv, Inv', Advance
  PROVE  FIFO!Take
<1>1. /\ TypeOK /\ Consumer /\ cpc = "advance" /\ r = read_idx
      /\ read_idx' = Plus(read_idx, want) /\ got' = out
      /\ UNCHANGED <<buffer, commit_idx, items>>
  BY DEF Inv, Consumer, Advance, prodVars
<1>2. /\ read_idx \in 0..(M - 1) /\ commit_idx \in 0..(M - 1) /\ Place(commit_idx) \in Nat
      /\ Place(commit_idx) <= Capacity
  BY Indices, Sizes
<1>3. /\ want \in Nat /\ 1 <= want /\ want <= Place(commit_idx)
      /\ out \in Seq(Items) /\ Len(out) = want
      /\ \A k \in Nat : k < want => out[k + 1] = buffer[Slot(Plus(read_idx, k))]
  <2>1. out \in Seq(Items) /\ want \in Nat
    BY <1>1, BatchesAre, Sizes DEF TypeOK
  <2>2. Len(out) \in Nat
    BY <2>1, LenProperties
  <2>3. Len(out) = want /\ 1 <= want /\ want <= Place(commit_idx)
    BY <1>1, <2>1, <2>2 DEF Consumer
  <2>4. \A k \in Nat : k < want => k \in 0..(want - 1)
    BY <2>1
  <2> QED BY <1>1, <2>1, <2>3, <2>4 DEF Consumer
<1>4. Place(commit_idx)' = Place(commit_idx) - want
  BY <1>1, <1>2, <1>3, MinusFromPlus DEF Place
<1>5. QueueIs /\ QueueIs'
  <2>1. Inv' => QueueIs'
    BY QueueIsCommitted, PTL
  <2> QED BY <2>1, QueueIsCommitted
<1> DEFINE L == Place(commit_idx)
<1>6. /\ Queue \in Seq(Items) /\ Len(Queue) = L /\ L \in Nat
      /\ Queue' \in Seq(Items) /\ Len(Queue') = L - want
      /\ \A k \in Nat : k < L => Queue[k + 1] = buffer[Slot(Plus(read_idx, k))]
      /\ \A k \in Nat : k < L - want => Queue'[k + 1] = buffer[Slot(Plus(Plus(read_idx, want), k))]
  BY <1>1, <1>2, <1>4, <1>5 DEF QueueIs
<1>7. \A i \in 1..L : Queue[i] \in Items
  BY <1>6, ElementOfSeq
<1>8. want <= L
  BY <1>3
<1>9. \A k \in Nat : want + k < L => Plus(Plus(read_idx, want), k) = Plus(read_idx, want + k)
  <2> SUFFICES ASSUME NEW k \in Nat, want + k < L
               PROVE  Plus(Plus(read_idx, want), k) = Plus(read_idx, want + k)
    OBVIOUS
  <2>1. want + k < M
    BY <1>2, <1>3, Sizes
  <2> QED BY <1>2, <1>3, <2>1, PlusPlus
<1> HIDE DEF L
<1>10. SubSeq(Queue, 1, want) = out
  <2>1. \A i \in 1..want : Queue[i] \in Items
    BY <1>3, <1>6, <1>7, <1>8
  <2>2. /\ SubSeq(Queue, 1, want) \in Seq(Items)
        /\ Len(SubSeq(Queue, 1, want)) = IF 1 <= want THEN want - 1 + 1 ELSE 0
        /\ \A i \in 1..(want - 1 + 1) : SubSeq(Queue, 1, want)[i] = Queue[1 + i - 1]
    BY <1>3, <2>1, SubSeqProperties
  <2>3. Len(SubSeq(Queue, 1, want)) = want
    BY <1>3, <2>2
  <2>4. ASSUME NEW i \in 1..want PROVE SubSeq(Queue, 1, want)[i] = out[i]
    <3>1. PICK k \in Nat : k + 1 = i /\ k < want /\ k < L
      <4>1. i - 1 \in Nat /\ (i - 1) + 1 = i /\ i - 1 < want /\ i - 1 < L
        BY <1>3, <1>6, <1>8
      <4> QED BY <4>1
    <3>2. SubSeq(Queue, 1, want)[i] = Queue[k + 1]
      <4>1. 1 + i - 1 = k + 1 /\ i \in 1..(want - 1 + 1)
        BY <1>3, <3>1
      <4> QED BY <2>2, <4>1
    <3> QED BY <1>3, <1>6, <3>1, <3>2
  <2> QED BY <1>3, <2>2, <2>3, <2>4, SeqEqual
<1>11. SubSeq(Queue, want + 1, L) = Queue'
  <2>1. want + 1 \in Int /\ L \in Int /\ \A i \in (want + 1)..L : Queue[i] \in Items
    BY <1>3, <1>6, <1>7
  <2>2. /\ SubSeq(Queue, want + 1, L) \in Seq(Items)
        /\ Len(SubSeq(Queue, want + 1, L)) = IF want + 1 <= L THEN L - (want + 1) + 1 ELSE 0
        /\ \A i \in 1..(L - (want + 1) + 1) : SubSeq(Queue, want + 1, L)[i] = Queue[(want + 1) + i - 1]
    BY <2>1, SubSeqProperties
  <2>3. Len(SubSeq(Queue, want + 1, L)) = L - want
    BY <1>3, <1>6, <1>8, <2>2
  <2>4. ASSUME NEW i \in 1..(L - want) PROVE SubSeq(Queue, want + 1, L)[i] = Queue'[i]
    <3>1. PICK k \in Nat : k + 1 = i /\ k < L - want /\ want + k < L /\ want + k \in Nat
      <4>1. i - 1 \in Nat /\ (i - 1) + 1 = i /\ i - 1 < L - want /\ want + (i - 1) < L /\ want + (i - 1) \in Nat
        BY <1>3, <1>6, <1>8
      <4> QED BY <4>1
    <3>2. SubSeq(Queue, want + 1, L)[i] = Queue[(want + k) + 1]
      <4>1. (want + 1) + i - 1 = (want + k) + 1 /\ i \in 1..(L - (want + 1) + 1)
        BY <1>3, <1>6, <3>1
      <4> QED BY <2>2, <4>1
    <3>3. Queue'[k + 1] = buffer[Slot(Plus(Plus(read_idx, want), k))]
      BY <1>6, <3>1
    <3>4. Queue[(want + k) + 1] = buffer[Slot(Plus(read_idx, want + k))]
      BY <1>6, <3>1
    <3> QED BY <1>9, <3>1, <3>2, <3>3, <3>4
  <2> QED BY <1>6, <2>2, <2>3, <2>4, SeqEqual
<1>12. want \in 1..Len(Queue)
  BY <1>3, <1>6, <1>8
<1>13. got' = SubSeq(Queue, 1, want) /\ Queue' = SubSeq(Queue, want + 1, Len(Queue))
  BY <1>1, <1>6, <1>10, <1>11
<1> QED BY <1>1, <1>12, <1>13 DEF FIFO!Take

(* A slot being filled is not yet in the queue.                             *)
LEMMA FillHides ==
  ASSUME Inv, Inv', NEW p \in Producers, Fill(p)
  PROVE  UNCHANGED <<items, Queue, got>>
<1>1. /\ TypeOK /\ Holds(p) /\ Producer(p) /\ ppc[p] = "fill"
      /\ filled[p] \in Nat /\ count[p] \in Nat
      /\ read_idx \in 0..(M - 1) /\ Place(commit_idx) \in Nat /\ Place(commit_idx) <= Capacity
  BY Indices, Locals, Sizes DEF Inv, Fill, Holds
<1>2. filled[p] < count[p]
  BY <1>1 DEF Producer, Filled
<1>3. /\ buffer' = [buffer EXCEPT ![Slot(Plus(w[p], filled[p]))] = items[p][filled[p] + 1]]
      /\ UNCHANGED <<read_idx, commit_idx, items, got>>
  BY DEF Fill, consVars
<1>4. ASSUME NEW k \in Nat, k < Place(commit_idx)
      PROVE  buffer'[Slot(Plus(read_idx, k))] = buffer[Slot(Plus(read_idx, k))]
  <2>1. Slot(Plus(w[p], filled[p])) # Slot(Plus(read_idx, k))
    BY <1>1, <1>2, <1>4, HeldUnread
  <2>2. k \in 0..M
    BY <1>1, <1>4, Sizes
  <2>3. Slot(Plus(read_idx, k)) \in 0..(Capacity - 1)
    BY <1>1, <2>2, SlotOfPlus
  <2> QED BY <1>1, <1>3, <2>1, <2>3 DEF TypeOK
<1> QED BY <1>3, <1>4, QueueSame

(* The others neither move the indices nor touch a slot or a batch.         *)
LEMMA OthersHide ==
  ASSUME Inv, Inv', UNCHANGED <<buffer, read_idx, commit_idx, items, got>>
  PROVE  UNCHANGED <<items, Queue, got>>
BY QueueSame

(* The queue starts empty, as the abstract one.                             *)
LEMMA InitImplements == Init => FIFO!Init
<1> SUFFICES ASSUME Init PROVE FIFO!Init
  OBVIOUS
<1>1. Inv /\ QueueIs
  BY InitInv, QueueIsCommitted
<1>2. Place(commit_idx) = 0
  <2>1. read_idx = commit_idx /\ read_idx \in 0..(M - 1)
    BY <1>1, Indices DEF Init
  <2> QED BY <2>1, MinusZero DEF Place
<1>3. Queue = <<>>
  <2>1. Queue \in Seq(Items) /\ Len(Queue) = 0
    BY <1>1, <1>2 DEF QueueIs
  <2> QED BY <2>1, EmptySeq
<1> QED BY <1>3 DEF Init, FIFO!Init

(* Every step hands a batch over, puts it in, takes one out, or changes     *)
(* nothing of this.                                                        *)
LEMMA NextImplements ==
  Inv /\ Inv' /\ [Next]_vars => [FIFO!Next]_<<items, Queue, got>>
<1> SUFFICES ASSUME Inv, Inv', [Next]_vars
             PROVE  FIFO!Next \/ UNCHANGED <<items, Queue, got>>
  OBVIOUS
<1>1. ASSUME NEW p \in Producers, Produce(p)
      PROVE  FIFO!Hand(p) \/ FIFO!Put(p) \/ UNCHANGED <<items, Queue, got>>
  <2>1. CASE Commit(p)
    BY <2>1, CommitPuts
  <2>2. CASE Fill(p)
    BY <2>2, FillHides
  <2>3. CASE Reserve(p)
    BY <2>3, ReserveHands
  <2>4. CASE LoadWriteIdx(p) \/ LoadReadIdx(p) \/ ReserveFails(p) \/ SpinEnds(p)
    <3>1. UNCHANGED <<buffer, read_idx, commit_idx, items, got>>
      BY <2>4 DEF LoadWriteIdx, LoadReadIdx, ReserveFails, SpinEnds, consVars
    <3> QED BY <3>1, OthersHide
  <2> QED BY <1>1, <2>1, <2>2, <2>3, <2>4 DEF Produce, Finish
<1>2. ASSUME Consume PROVE FIFO!Take \/ UNCHANGED <<items, Queue, got>>
  <2>1. CASE Advance
    BY <2>1, AdvanceTakes
  <2>2. CASE LoadOwnReadIdx \/ LoadCommitIdx \/ Copy
    <3>1. UNCHANGED <<buffer, read_idx, commit_idx, items, got>>
      BY <2>2 DEF LoadOwnReadIdx, LoadCommitIdx, Copy, prodVars
    <3> QED BY <3>1, OthersHide
  <2> QED BY <1>2, <2>1, <2>2 DEF Consume
<1>3. ASSUME UNCHANGED vars PROVE UNCHANGED <<items, Queue, got>>
  BY <1>3, OthersHide DEF vars, prodVars, consVars
<1> QED BY <1>1, <1>2, <1>3 DEF Next, FIFO!Next

(* The queue is a bounded FIFO: the batch that goes in whole at the commit  *)
(* is the one its producer got slots for, and what comes out whole at the   *)
(* CAS on read_idx_ is the oldest of the queue: nothing is lost, torn,      *)
(* repeated or reordered.                                                   *)
THEOREM QueueImplementsFIFO == Spec => ImplementsFIFO
<1> QED BY InitImplements, NextImplements, Invariance, PTL DEF Spec, ImplementsFIFO, FIFO!Spec
=============================================================================
