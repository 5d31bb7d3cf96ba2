--------------------------- MODULE TcpServerProofs ---------------------------
(***************************************************************************)
(* Proofs about TcpServer, for any number of connections and of loops.      *)
(*                                                                         *)
(* Inv is the invariant of what runs: every connection is in a phase of     *)
(* ConnectionProofs, active channels belong to connections that are up, and *)
(* every functor is queued on its own loop, in an order its connection can  *)
(* take.  It gives the order of callbacks, the agreement with epoll and the *)
(* orderly shutdown.                                                        *)
(*                                                                         *)
(* Safe is the invariant of what is kept: who refers to a connection, what  *)
(* the map holds and what has still to be torn down.  It gives that no      *)
(* assert fails and that nothing is called on a destroyed connection.       *)
(*                                                                         *)
(* Both hold of Spec.  Threaded is what is left of them under ThreadedSpec, *)
(* where other threads of the user call a connection's methods: everything  *)
(* stays on its loop, and a destroyed connection is not revived.            *)
(***************************************************************************)
EXTENDS TcpServer, ConnectionProofs, FiniteSetTheorems

USE DEF loopVars, queueVars, serverVars

-----------------------------------------------------------------------------
(* Queues of functors.                                                      *)
Items(q) == {q[i] : i \in DOMAIN q}

(* What may follow f in a queue: a connection is established and removed    *)
(* once, and not established after it was destroyed.                        *)
Before(f, g) ==
    /\ f.call \in {"connectEstablished", "removeConnectionInLoop"} => g # f
    /\ f.call = "connectDestroyed" => g # Functor("connectEstablished", f.conn)

InOrder(q) == \A i, j \in 1..Len(q) : i < j => Before(q[i], q[j])

(* The functors of a queue after queueInLoop.                               *)
LEMMA ItemsOfAppend ==
  ASSUME NEW S, NEW q \in Seq(S), NEW f \in S
  PROVE  /\ Append(q, f) \in Seq(S)
         /\ Items(Append(q, f)) = Items(q) \cup {f}
<1>1. /\ Append(q, f) \in Seq(S) /\ Len(Append(q, f)) = Len(q) + 1
      /\ \A i \in 1..Len(q) : Append(q, f)[i] = q[i]
      /\ Append(q, f)[Len(q) + 1] = f
  BY AppendProperties
<1>2. Len(q) \in Nat /\ DOMAIN q = 1..Len(q) /\ DOMAIN Append(q, f) = 1..(Len(q) + 1)
  BY <1>1, LenProperties
<1>3. 1..(Len(q) + 1) = 1..Len(q) \cup {Len(q) + 1}
  BY <1>2
<1> QED BY <1>1, <1>2, <1>3 DEF Items

(* The functors of a queue are the first and those that follow it.          *)
LEMMA ItemsOfTail ==
  ASSUME NEW S, NEW q \in Seq(S), q # <<>>
  PROVE  /\ Tail(q) \in Seq(S) /\ Head(q) \in S
         /\ Items(q) = {Head(q)} \cup Items(Tail(q))
<1>1. /\ Head(q) \in S /\ Tail(q) \in Seq(S) /\ Len(Tail(q)) = Len(q) - 1
      /\ \A i \in 1..Len(Tail(q)) : Tail(q)[i] = q[i + 1]
  BY HeadTailProperties
<1>2. Len(q) \in Nat \ {0} /\ DOMAIN q = 1..Len(q) /\ DOMAIN Tail(q) = 1..(Len(q) - 1)
  BY <1>1, LenProperties, EmptySeq
<1>3. Head(q) = q[1]
  OBVIOUS
<1>4. \A i \in 1..(Len(q) - 1) : i + 1 \in 1..Len(q)
  BY <1>2
<1>6. Items(q) \subseteq {Head(q)} \cup Items(Tail(q))
  <2> SUFFICES ASSUME NEW i \in 1..Len(q)
               PROVE  q[i] \in {Head(q)} \cup Items(Tail(q))
    BY <1>2 DEF Items
  <2>1. CASE i = 1
    BY <1>3, <2>1
  <2>2. CASE i # 1
    <3>1. i - 1 \in 1..(Len(q) - 1) /\ (i - 1) + 1 = i
      BY <1>2, <2>2
    <3>2. q[i] = Tail(q)[i - 1]
      BY <1>1, <3>1
    <3> QED BY <1>2, <3>1, <3>2 DEF Items
  <2> QED BY <2>1, <2>2
<1>7. Items(Tail(q)) \subseteq Items(q)
  BY <1>1, <1>2, <1>4 DEF Items
<1>8. Head(q) \in Items(q)
  BY <1>2, <1>3 DEF Items
<1> QED BY <1>1, <1>6, <1>7, <1>8

(* The functors of two queues put together.                                 *)
LEMMA ItemsOfConcat ==
  ASSUME NEW S, NEW p \in Seq(S), NEW q \in Seq(S)
  PROVE  p \o q \in Seq(S) /\ Items(p \o q) = Items(p) \cup Items(q)
<1>1. /\ p \o q \in Seq(S) /\ Len(p \o q) = Len(p) + Len(q)
      /\ \A i \in 1..Len(p) + Len(q) :
            (p \o q)[i] = IF i <= Len(p) THEN p[i] ELSE q[i - Len(p)]
  BY ConcatProperties
<1>2. /\ Len(p) \in Nat /\ Len(q) \in Nat
      /\ DOMAIN p = 1..Len(p) /\ DOMAIN q = 1..Len(q)
      /\ DOMAIN (p \o q) = 1..(Len(p) + Len(q))
  BY <1>1, LenProperties
<1>3. \A i \in 1..(Len(p) + Len(q)) : i \in 1..Len(p) \/ (~(i <= Len(p)) /\ i - Len(p) \in 1..Len(q))
  BY <1>2
<1>4. \A i \in 1..Len(p) : i \in 1..(Len(p) + Len(q)) /\ (p \o q)[i] = p[i]
  BY <1>1, <1>2
<1>5. \A i \in 1..Len(q) : /\ i + Len(p) \in 1..(Len(p) + Len(q))
                           /\ ~(i + Len(p) <= Len(p)) /\ (i + Len(p)) - Len(p) = i
  BY <1>2
<1>6. \A i \in 1..Len(q) : (p \o q)[i + Len(p)] = q[i]
  BY <1>1, <1>5
<1>7. Items(p \o q) \subseteq Items(p) \cup Items(q)
  BY <1>1, <1>2, <1>3 DEF Items
<1>8. Items(p) \subseteq Items(p \o q)
  BY <1>2, <1>4 DEF Items
<1>9. Items(q) \subseteq Items(p \o q)
  BY <1>2, <1>5, <1>6 DEF Items
<1> QED BY <1>1, <1>7, <1>8, <1>9

(* A functor queued in order leaves the queue in order.                     *)
LEMMA OrderOfAppend ==
  ASSUME NEW S, NEW q \in Seq(S), NEW f \in S,
         InOrder(q), \A g \in Items(q) : Before(g, f)
  PROVE  InOrder(Append(q, f))
<1>1. /\ Append(q, f) \in Seq(S) /\ Len(Append(q, f)) = Len(q) + 1
      /\ \A i \in 1..Len(q) : Append(q, f)[i] = q[i]
      /\ Append(q, f)[Len(q) + 1] = f
  BY AppendProperties
<1>2. Len(q) \in Nat /\ DOMAIN q = 1..Len(q)
  BY LenProperties
<1>3. SUFFICES ASSUME NEW i \in 1..(Len(q) + 1), NEW j \in 1..(Len(q) + 1), i < j
               PROVE  Before(Append(q, f)[i], Append(q, f)[j])
  BY <1>1 DEF InOrder
<1>4. i \in 1..Len(q) /\ Append(q, f)[i] = q[i]
  BY <1>1, <1>2, <1>3
<1>5. CASE j \in 1..Len(q)
  BY <1>1, <1>3, <1>4, <1>5 DEF InOrder
<1>6. CASE j = Len(q) + 1
  BY <1>1, <1>2, <1>4, <1>6 DEF Items
<1> QED BY <1>2, <1>3, <1>5, <1>6

(* Calling the first functor leaves the queue in order, and it was before   *)
(* the others.                                                              *)
LEMMA OrderOfTail ==
  ASSUME NEW S, NEW q \in Seq(S), q # <<>>, InOrder(q)
  PROVE  /\ InOrder(Tail(q))
         /\ \A g \in Items(Tail(q)) : Before(Head(q), g)
<1>1. /\ Head(q) \in S /\ Tail(q) \in Seq(S) /\ Len(Tail(q)) = Len(q) - 1
      /\ \A i \in 1..Len(Tail(q)) : Tail(q)[i] = q[i + 1]
  BY HeadTailProperties
<1>2. Len(q) \in Nat \ {0} /\ DOMAIN q = 1..Len(q) /\ DOMAIN Tail(q) = 1..(Len(q) - 1)
  BY <1>1, LenProperties, EmptySeq
<1>3. Head(q) = q[1]
  OBVIOUS
<1>4. \A i \in 1..(Len(q) - 1) : i + 1 \in 1..Len(q) /\ 1 < i + 1 /\ 1 \in 1..Len(q)
  BY <1>2
<1>5. ASSUME NEW i \in 1..(Len(q) - 1), NEW j \in 1..(Len(q) - 1), i < j
      PROVE  Before(Tail(q)[i], Tail(q)[j])
  <2>1. i + 1 < j + 1
    BY <1>2, <1>5
  <2> QED BY <1>1, <1>4, <2>1 DEF InOrder
<1>6. ASSUME NEW i \in 1..(Len(q) - 1)
      PROVE  Before(Head(q), Tail(q)[i])
  BY <1>1, <1>3, <1>4 DEF InOrder
<1>7. InOrder(Tail(q))
  BY <1>1, <1>5 DEF InOrder
<1> QED BY <1>2, <1>6, <1>7 DEF Items

(* Two queues in order, and in order with each other.                       *)
LEMMA OrderOfConcat ==
  ASSUME NEW S, NEW p \in Seq(S), NEW q \in Seq(S), InOrder(p), InOrder(q),
         \A f \in Items(p), g \in Items(q) : Before(f, g)
  PROVE  InOrder(p \o q)
<1>1. /\ p \o q \in Seq(S) /\ Len(p \o q) = Len(p) + Len(q)
      /\ \A i \in 1..Len(p) + Len(q) :
            (p \o q)[i] = IF i <= Len(p) THEN p[i] ELSE q[i - Len(p)]
  BY ConcatProperties
<1>2. /\ Len(p) \in Nat /\ Len(q) \in Nat
      /\ DOMAIN p = 1..Len(p) /\ DOMAIN q = 1..Len(q)
  BY LenProperties
<1>3. SUFFICES ASSUME NEW i \in 1..(Len(p) + Len(q)), NEW j \in 1..(Len(p) + Len(q)), i < j
               PROVE  Before((p \o q)[i], (p \o q)[j])
  BY <1>1 DEF InOrder
<1>4. CASE j <= Len(p)
  <2>1. i \in 1..Len(p) /\ j \in 1..Len(p) /\ i <= Len(p)
    BY <1>2, <1>3, <1>4
  <2> QED BY <1>1, <1>3, <1>4, <2>1 DEF InOrder
<1>5. CASE i <= Len(p) /\ ~(j <= Len(p))
  <2>1. i \in 1..Len(p) /\ j - Len(p) \in 1..Len(q)
    BY <1>2, <1>3, <1>5
  <2> QED BY <1>1, <1>2, <1>5, <2>1 DEF Items
<1>6. CASE ~(i <= Len(p))
  <2>1. /\ i - Len(p) \in 1..Len(q) /\ j - Len(p) \in 1..Len(q)
        /\ i - Len(p) < j - Len(p) /\ ~(j <= Len(p))
    BY <1>2, <1>3, <1>6
  <2> QED BY <1>1, <1>6, <2>1 DEF InOrder
<1> QED BY <1>2, <1>3, <1>4, <1>5, <1>6

(* A functor queued goes to the end of what the loop has to call; the one   *)
(* called was the first of it.                                              *)
LEMMA Queued ==
  ASSUME NEW S, NEW b \in Seq(S), NEW p \in Seq(S), NEW f \in S
  PROVE  b \o Append(p, f) = Append(b \o p, f)
<1>1. b \o p \in Seq(S) /\ <<f>> \in Seq(S)
  BY ConcatProperties
<1>2. Append(b \o p, f) = (b \o p) \o <<f>> /\ Append(p, f) = p \o <<f>>
  BY <1>1, AppendIsConcat
<1>3. (b \o p) \o <<f>> = b \o (p \o <<f>>)
  BY <1>1, ConcatAssociative
<1> QED BY <1>2, <1>3

(* The first of what a loop has to call, and what follows it.               *)
LEMMA Dequeued ==
  ASSUME NEW S, NEW b \in Seq(S), NEW p \in Seq(S), b # <<>>
  PROVE  /\ b \o p \in Seq(S) /\ b \o p # <<>>
         /\ Head(b \o p) = Head(b) /\ Tail(b \o p) = Tail(b) \o p
<1>1. Head(b) \in S /\ Tail(b) \in Seq(S) /\ <<Head(b)>> \in Seq(S)
  BY HeadTailProperties
<1>2. b = <<Head(b)>> \o Tail(b)
  <2>1. Len(b) \in Nat \ {0}
    BY EmptySeq
  <2>2. SubSeq(b, 1, Len(b)) = <<b[1]>> \o SubSeq(b, 2, Len(b))
    BY <2>1, SubSeqRecursiveFirst
  <2>3. SubSeq(b, 1, Len(b)) = b /\ Tail(b) = SubSeq(b, 2, Len(b))
    BY SubSeqFull, TailIsSubSeq
  <2>4. Head(b) = b[1]
    OBVIOUS
  <2> QED BY <2>2, <2>3, <2>4
<1> DEFINE t == Tail(b) \o p
<1>3. t \in Seq(S)
  BY <1>1, ConcatProperties
<1>4. b \o p = <<Head(b)>> \o t
  BY <1>1, <1>2, ConcatAssociative
<1>5. b \o p \in Seq(S) /\ b \o p # <<>>
  BY ConcatProperties, ConcatEqualIffEmpty
<1> HIDE DEF t
<1>6. /\ Head(<<Head(b)>> \o t) = Head(b)
      /\ Tail(<<Head(b)>> \o t) = t
  <2> DEFINE h == <<Head(b)>>  w == h \o t
  <2>1. h \in Seq(S) /\ Len(h) = 1 /\ h[1] = Head(b)
    BY <1>1
  <2>2. /\ w \in Seq(S) /\ Len(w) = 1 + Len(t)
        /\ \A i \in 1..(1 + Len(t)) : w[i] = IF i <= 1 THEN h[i] ELSE t[i - 1]
    BY <1>3, <2>1, ConcatProperties
  <2>3. Len(t) \in Nat
    BY <1>3, LenProperties
  <2>4. w # <<>>
    BY <1>4, <1>5
  <2> HIDE DEF h, w
  <2>5. w[1] = Head(b)
    BY <2>1, <2>2, <2>3
  <2>6. Head(w) = w[1]
    OBVIOUS
  <2>7. /\ Tail(w) \in Seq(S) /\ Len(Tail(w)) = Len(t)
        /\ \A i \in 1..Len(t) : Tail(w)[i] = w[i + 1]
    BY <2>2, <2>3, <2>4, HeadTailProperties
  <2>8. ASSUME NEW i \in 1..Len(t) PROVE Tail(w)[i] = t[i]
    <3>1. i + 1 \in 1..(1 + Len(t)) /\ ~(i + 1 <= 1) /\ (i + 1) - 1 = i
      BY <2>3
    <3> QED BY <2>2, <2>7, <3>1
  <2>9. Tail(w) = t
    BY <1>3, <2>7, <2>8, SeqEqual
  <2> QED BY <2>5, <2>6, <2>9 DEF w, h
<1> QED BY <1>4, <1>5, <1>6 DEF t

-----------------------------------------------------------------------------
(* What runs.                                                               *)

(* A socket that was not accepted yet.                                      *)
Fresh(r) == New(r) /\ ~r.failed

(* A connection is what its methods make of it; before it is accepted,      *)
(* nothing has been called on it.                                           *)
Records == \A c \in Conns : Sound(conn[c]) /\ (Accepted(c) \/ Fresh(conn[c]))

Running(c) == conn[c].state \in {"kConnected", "kDisconnecting"}

(* Channels are active while the loop handles events, functors left to call *)
(* while it calls them; a channel that is active belongs to a connection of *)
(* the loop that is up: nothing else closes it before its event is handled. *)
Rounds ==
    \A l \in Loops :
       /\ lpc[l] # "handle" => active[l] = {}
       /\ lpc[l] # "call" => batch[l] = <<>>
       /\ \A c \in active[l] : Accepted(c) /\ io[c] = l /\ Running(c) /\ ~conn[c].failed

(* What a loop has to call.                                                 *)
Jobs(l) == Items(batch[l]) \cup Items(pending[l])

(* A functor is queued on the loop it must run on; connectEstablished finds *)
(* the connection as it was accepted, removeConnectionInLoop finds it       *)
(* closed.                                                                  *)
Entry(l, f) ==
    /\ f.call \in {"connectEstablished", "connectDestroyed",
                   "removeConnectionInLoop", "forceCloseInLoop"}
    /\ Accepted(f.conn)
    /\ IF f.call = "removeConnectionInLoop"
       THEN l = 0 /\ conn[f.conn].state = "kDisconnected"
       ELSE l = io[f.conn]
    /\ f.call = "connectEstablished" => l # 0 /\ conn[f.conn].state = "kConnecting"

(* What the loops have to call, and that they call it in order.             *)
Work ==
    \A l \in Loops :
       /\ InOrder(batch[l] \o pending[l])
       /\ \A f \in Jobs(l) : Entry(l, f)

(* The map, and the loops of connections.                                   *)
Numbered ==
    /\ IsFiniteSet(connections)
    /\ \A c \in connections : Accepted(c)
    /\ \A c \in Conns : io[c] \in 0..threadNum

(* The invariant of the methods, whatever becomes of the map.               *)
Inv == TypeOK /\ Records /\ Rounds /\ Work /\ Numbered

-----------------------------------------------------------------------------
(* The base loop and the loops a server may have.                           *)
LEMMA LoopsAre == /\ Loops \subseteq Nat /\ 0 \in Loops
                  /\ \A n \in ThreadNums : 0..n \subseteq Loops
<1>1. \A n \in ThreadNums : n \in Nat /\ 0 \in 0..n
  BY ThreadsAssumption
<1>2. \A n \in ThreadNums : 0..n \subseteq Loops
  BY DEF Loops
<1>3. Loops \subseteq Nat
  BY <1>1 DEF Loops
<1> QED BY <1>1, <1>2, <1>3, ThreadsAssumption

(* The phase of a connection follows from its state. *)
LEMMA PhaseOf ==
  ASSUME TypeOK, Records, ~Aborted, NEW c \in Conns
  PROVE  /\ conn[c] \in Connections /\ ~conn[c].failed
         /\ conn[c].state = "kConnecting" => New(conn[c])
         /\ Running(c) => Up(conn[c]) /\ Accepted(c)
         /\ conn[c].state = "kDisconnected" => Down(conn[c]) /\ Accepted(c)
<1>1. conn[c] \in Connections
  BY DEF TypeOK
<1>2. ~conn[c].failed
  BY DEF Aborted, AssertFails
<1> QED BY <1>1, <1>2 DEF Records, Sound, Fresh, New, Up, Down, Running

(* One connection changes. *)
LEMMA OneConn ==
  ASSUME TypeOK, Records, NEW c \in Conns, NEW s \in Connections,
         conn' = [conn EXCEPT ![c] = s],
         Sound(s),
         s.peer \in {"open", "eof", "reset"} \/ Fresh(s)
  PROVE  /\ conn' \in [Conns -> Connections] /\ conn'[c] = s
         /\ \A d \in Conns \ {c} : conn'[d] = conn[d]
         /\ Records'
<1>1. /\ conn' \in [Conns -> Connections] /\ conn'[c] = s
      /\ \A d \in Conns \ {c} : conn'[d] = conn[d]
  BY DEF TypeOK
<1>2. s.peer \in {"open", "eof", "reset"} => Accepted(c)'
  BY <1>1 DEF Accepted
<1>3. \A d \in Conns \ {c} : Accepted(d) => Accepted(d)'
  BY <1>1 DEF Accepted
<1> QED BY <1>1, <1>2, <1>3 DEF Records

(* A functor stays as it should be as long as its connection does. *)
Steady(c) ==
    /\ Accepted(c) => Accepted(c)' /\ io'[c] = io[c]
    /\ conn[c].state = "kDisconnected" => conn'[c].state = "kDisconnected"

(* An entry is kept while its connection goes on.                           *)
LEMMA EntryKept ==
  ASSUME NEW l \in Loops, NEW f \in Functors, Entry(l, f), Steady(f.conn),
         f.call = "connectEstablished" => conn'[f.conn].state = "kConnecting"
  PROVE  Entry(l, f)'
BY DEF Entry, Steady

(* What a loop has to call is functors.                                     *)
LEMMA JobsType ==
  ASSUME TypeOK, NEW l \in Loops
  PROVE  Jobs(l) \subseteq Functors
<1>1. batch[l] \in Seq(Functors) /\ pending[l] \in Seq(Functors)
  BY DEF TypeOK
<1> QED BY <1>1, ElementOfSeq, LenProperties DEF Jobs, Items

(* What one functor called and one functor queued leave to call. *)
LEMMA WorkStep ==
  ASSUME TypeOK, Work,
         \/ UNCHANGED batch
         \/ \E l \in Loops : batch[l] # <<>> /\ batch' = [batch EXCEPT ![l] = Tail(@)],
         \/ UNCHANGED pending
         \/ \E l \in Loops, f \in Functors :
               /\ pending' = [pending EXCEPT ![l] = Append(@, f)]
               /\ Entry(l, f)' /\ \A g \in Jobs(l) : Before(g, f),
         \A l \in Loops : \A f \in Items(batch'[l]) \cup Items(pending[l]) : Entry(l, f)'
  PROVE  /\ Work'
         /\ batch' \in [Loops -> Seq(Functors)] /\ pending' \in [Loops -> Seq(Functors)]
<1>1. ASSUME NEW l \in Loops
      PROVE  /\ batch'[l] \in Seq(Functors) /\ Items(batch'[l]) \subseteq Items(batch[l])
             /\ InOrder(batch'[l] \o pending[l])
  <2>1. CASE batch'[l] = batch[l]
    BY <2>1 DEF TypeOK, Work
  <2>2. CASE batch[l] # <<>> /\ batch'[l] = Tail(batch[l])
    <3> DEFINE b == batch[l]  p == pending[l]
    <3>1. b \in Seq(Functors) /\ p \in Seq(Functors) /\ b # <<>> /\ batch'[l] = Tail(b)
      BY <2>2 DEF TypeOK
    <3>2. InOrder(b \o p)
      BY DEF Work
    <3> HIDE DEF b, p
    <3>3. /\ b \o p \in Seq(Functors) /\ b \o p # <<>>
          /\ Tail(b \o p) = Tail(b) \o p
      BY <3>1, Dequeued
    <3>4. InOrder(Tail(b \o p))
      BY <3>2, <3>3, OrderOfTail
    <3>5. Tail(b) \in Seq(Functors) /\ Items(Tail(b)) \subseteq Items(b)
      BY <3>1, ItemsOfTail
    <3> QED BY <3>1, <3>3, <3>4, <3>5 DEF b, p
  <2> QED BY <2>1, <2>2 DEF TypeOK
<1>2. batch' \in [Loops -> Seq(Functors)]
  <2>1. batch' = batch \/ \E l \in Loops : batch' = [batch EXCEPT ![l] = Tail(@)]
    OBVIOUS
  <2> QED BY <1>1, <2>1 DEF TypeOK
<1>3. pending' \in [Loops -> Seq(Functors)]
  <2>1. CASE UNCHANGED pending
    BY <2>1 DEF TypeOK
  <2>2. CASE \E l \in Loops, f \in Functors : pending' = [pending EXCEPT ![l] = Append(@, f)]
    <3>1. PICK l \in Loops, f \in Functors : pending' = [pending EXCEPT ![l] = Append(@, f)]
      BY <2>2
    <3>2. Append(pending[l], f) \in Seq(Functors)
      BY ItemsOfAppend DEF TypeOK
    <3> QED BY <3>1, <3>2 DEF TypeOK
  <2> QED BY <2>1, <2>2
<1>4. ASSUME NEW l \in Loops
      PROVE  InOrder(batch'[l] \o pending'[l]) /\ \A f \in Jobs(l)' : Entry(l, f)'
  <2>1. batch'[l] \in Seq(Functors) /\ pending[l] \in Seq(Functors)
    BY <1>1 DEF TypeOK
  <2>2. CASE pending'[l] = pending[l]
    BY <1>1, <2>2 DEF Jobs
  <2>3. CASE \E f \in Functors : /\ pending'[l] = Append(pending[l], f)
                                 /\ Entry(l, f)' /\ \A g \in Jobs(l) : Before(g, f)
    <3>1. PICK f \in Functors : /\ pending'[l] = Append(pending[l], f)
                                /\ Entry(l, f)' /\ \A g \in Jobs(l) : Before(g, f)
      BY <2>3
    <3> DEFINE w == batch'[l] \o pending[l]
    <3>2. w \in Seq(Functors) /\ Items(w) = Items(batch'[l]) \cup Items(pending[l])
      BY <2>1, ItemsOfConcat
    <3>3. Items(w) \subseteq Jobs(l)
      BY <1>1, <3>2 DEF Jobs
    <3>4. InOrder(Append(w, f))
      <4>1. InOrder(w)
        BY <1>1
      <4> HIDE DEF w
      <4> QED BY <3>1, <3>2, <3>3, <4>1, OrderOfAppend
    <3>5. batch'[l] \o pending'[l] = Append(w, f)
      <4> DEFINE b == batch'[l]  p == pending[l]
      <4>1. b \in Seq(Functors) /\ p \in Seq(Functors)
        BY <2>1
      <4>2. pending'[l] = Append(p, f) /\ w = b \o p
        BY <3>1
      <4> HIDE DEF b, p
      <4>3. b \o Append(p, f) = Append(b \o p, f)
        BY <4>1, Queued
      <4> QED BY <4>2, <4>3 DEF b
    <3>6. Items(pending'[l]) = Items(pending[l]) \cup {f}
      BY <2>1, <3>1, ItemsOfAppend
    <3> QED BY <3>1, <3>4, <3>5, <3>6 DEF Jobs
  <2>4. ASSUME NEW k \in Loops, NEW f \in Functors,
               pending' = [pending EXCEPT ![k] = Append(@, f)], pending'[l] # pending[l]
        PROVE  l = k /\ pending'[l] = Append(pending[l], f)
    <3>1. pending \in [Loops -> Seq(Functors)]
      BY DEF TypeOK
    <3> QED BY <2>4, <3>1
  <2> QED BY <2>2, <2>3, <2>4
<1> QED BY <1>2, <1>3, <1>4 DEF Work

-----------------------------------------------------------------------------
(* The peer. *)
LEMMA PeerAct ==
  ASSUME Inv, ~Aborted, NEW c \in Conns, NEW s \in Connections,
         Keeps(s, conn[c], {"peer", "inbox", "error"}),
         Accepted(c) <=> s.peer \in {"open", "eof", "reset"},
         conn' = [conn EXCEPT ![c] = s],
         UNCHANGED <<lpc, active, revents, queueVars, serverVars, addr, user>>,
         acceptReady' \in BOOLEAN
  PROVE  Inv'
<1>1. TypeOK /\ Records /\ Rounds /\ Work /\ Numbered
  BY DEF Inv
<1>2. /\ conn[c] \in Connections
      /\ New(conn[c]) \/ Up(conn[c]) \/ Down(conn[c])
      /\ s.state = conn[c].state /\ s.failed = conn[c].failed
      /\ ~s.failed
  BY <1>1, PhaseOf DEF Records, Sound, Keeps, Aborted, AssertFails
<1>3. /\ Sound(s) /\ (New(conn[c]) => New(s))
  <2>1. Keeps(s, conn[c], {"peer", "inbox", "error", "failed"})
    BY DEF Keeps
  <2> QED BY <1>2, <2>1, PhaseKept, Phases
<1>4. s.peer \in {"open", "eof", "reset"} \/ Fresh(s)
  BY <1>1, <1>2, <1>3 DEF Records, Fresh
<1>5. /\ conn' \in [Conns -> Connections] /\ conn'[c] = s
      /\ \A d \in Conns \ {c} : conn'[d] = conn[d]
      /\ Records'
  BY <1>1, <1>3, <1>4, OneConn
<1>6. \A d \in Conns : /\ Steady(d) /\ conn'[d].state = conn[d].state
                       /\ conn'[d].failed = conn[d].failed
                       /\ Accepted(d) => Accepted(d)'
  BY <1>2, <1>5 DEF Steady, Accepted
<1>7. TypeOK'
  BY <1>1, <1>5 DEF TypeOK
<1>8. Rounds'
  BY <1>1, <1>6 DEF Rounds, Running, TypeOK
<1>9. Work'
  <2>1. ASSUME NEW l \in Loops, NEW f \in Jobs(l) PROVE Entry(l, f)'
    <3>1. f \in Functors /\ f.conn \in Conns
      BY <1>1, JobsType DEF Functors
    <3>2. Entry(l, f)
      BY <1>1 DEF Work
    <3> QED BY <1>6, <3>1, <3>2, EntryKept DEF Entry
  <2> QED BY <1>1, <2>1 DEF Work, Jobs
<1>10. Numbered'
  BY <1>1, <1>6, FS_Subset DEF Numbered, TypeOK
<1> QED BY <1>5, <1>7, <1>8, <1>9, <1>10 DEF Inv

-----------------------------------------------------------------------------
(* A method of c runs: in a channel event, or in a functor that is called.  *)
LEMMA MethodAct ==
  ASSUME Inv, ~Aborted, NEW c \in Conns, Accepted(c), NEW s \in Connections,
         s.peer = conn[c].peer, Sound(s), conn' = [conn EXCEPT ![c] = s],
         conn[c].state = "kDisconnected" => s.state = "kDisconnected",
         active' \in [Loops -> SUBSET Conns],
         \A l \in Loops : /\ active'[l] \subseteq active[l]
                          /\ c \in active'[l] => /\ s.state \in {"kConnected", "kDisconnecting"}
                                              /\ ~s.failed,
         \/ UNCHANGED batch
         \/ \E l \in Loops : /\ lpc[l] = "call" /\ batch[l] # <<>>
                             /\ batch' = [batch EXCEPT ![l] = Tail(@)],
         \A l \in Loops : \A f \in Items(batch'[l]) \cup Items(pending[l]) :
            f = Functor("connectEstablished", c) => s.state = "kConnecting",
         \/ UNCHANGED pending
         \/ \E l \in Loops, f \in Functors :
               /\ pending' = [pending EXCEPT ![l] = Append(@, f)]
               /\ f.conn = c
               /\ \/ f.call \in {"connectDestroyed", "forceCloseInLoop"} /\ l = io[c]
                  \/ /\ f.call = "removeConnectionInLoop" /\ l = 0
                     /\ s.state = "kDisconnected" /\ conn[c].state # "kDisconnected",
         connections' \subseteq connections,
         revents' \in [Conns -> SUBSET {"IN", "OUT", "ERR", "HUP"}],
         called' \in [Loops -> SUBSET Conns],
         \/ UNCHANGED lpc
         \/ lpc[0] \in {"poll", "left"} /\ lpc' = [lpc EXCEPT ![0] = "left"],
         UNCHANGED <<acceptReady, threadNum, nextConnId, id, io, replaced, addr, user>>
  PROVE  Inv'
<1>1. TypeOK /\ Records /\ Rounds /\ Work /\ Numbered
  BY DEF Inv
<1>2. s.peer \in {"open", "eof", "reset"}
  <2>1. conn[c] \in Connections
    BY <1>1 DEF TypeOK
  <2>2. conn[c].peer \in {"away", "waiting", "refused", "open", "eof", "reset"}
    BY <2>1, FieldTypes
  <2> QED BY <2>2 DEF Accepted
<1>3. /\ conn' \in [Conns -> Connections] /\ conn'[c] = s
      /\ \A d \in Conns \ {c} : conn'[d] = conn[d]
      /\ Records'
  BY <1>1, <1>2, OneConn
<1>4. \A d \in Conns : Steady(d) /\ (Accepted(d) => Accepted(d)')
  BY <1>2, <1>3 DEF Steady, Accepted
<1>5. ASSUME NEW l \in Loops, NEW f \in Items(batch'[l]) \cup Items(pending[l])
      PROVE  Entry(l, f)'
  <2>1. f \in Jobs(l)
    <3>1. CASE batch'[l] = batch[l]
      BY <3>1 DEF Jobs
    <3>2. CASE batch[l] # <<>> /\ batch'[l] = Tail(batch[l])
      <4>1. batch[l] \in Seq(Functors)
        BY <1>1 DEF TypeOK
      <4>2. Items(Tail(batch[l])) \subseteq Items(batch[l])
        BY <3>2, <4>1, ItemsOfTail
      <4> QED BY <3>2, <4>2 DEF Jobs
    <3> QED BY <1>1, <3>1, <3>2 DEF TypeOK
  <2>2. f \in Functors /\ f.conn \in Conns /\ f = Functor(f.call, f.conn)
    BY <1>1, <2>1, JobsType DEF Functors, Functor
  <2>3. Entry(l, f)
    BY <1>1, <2>1 DEF Work
  <2>4. f.call = "connectEstablished" => conn'[f.conn].state = "kConnecting"
    BY <1>3, <2>2, <2>3 DEF Entry
  <2> QED BY <1>4, <2>2, <2>3, <2>4, EntryKept
<1>6. /\ Work'
      /\ batch' \in [Loops -> Seq(Functors)] /\ pending' \in [Loops -> Seq(Functors)]
  <2>1. ASSUME NEW l \in Loops, NEW f \in Functors, f.conn = c,
               \/ f.call \in {"connectDestroyed", "forceCloseInLoop"} /\ l = io[c]
               \/ /\ f.call = "removeConnectionInLoop" /\ l = 0
                  /\ s.state = "kDisconnected" /\ conn[c].state # "kDisconnected"
        PROVE  Entry(l, f)' /\ \A g \in Jobs(l) : Before(g, f)
    <3>1. Entry(l, f)'
      BY <1>3, <1>4, <2>1 DEF Entry
    <3>2. \A g \in Jobs(l) : Before(g, f)
      BY <1>1, <2>1 DEF Work, Entry, Before, Functor
    <3> QED BY <3>1, <3>2
  <2>2. \/ UNCHANGED pending
        \/ \E l \in Loops, f \in Functors :
               /\ pending' = [pending EXCEPT ![l] = Append(@, f)]
               /\ Entry(l, f)' /\ \A g \in Jobs(l) : Before(g, f)
    BY <2>1
  <2>3. \/ UNCHANGED batch
        \/ \E l \in Loops : batch[l] # <<>> /\ batch' = [batch EXCEPT ![l] = Tail(@)]
    OBVIOUS
  <2> QED BY <1>1, <1>5, <2>2, <2>3, WorkStep
<1>7. TypeOK'
  <2>1. lpc \in [Loops -> {"poll", "handle", "call", "left", "destroyed"}]
    BY <1>1 DEF TypeOK
  <2>2. CASE UNCHANGED lpc
    BY <1>1, <1>3, <1>6, <2>2 DEF TypeOK
  <2>3. CASE lpc' = [lpc EXCEPT ![0] = "left"]
    <3>1. lpc' \in [Loops -> {"poll", "handle", "call", "left", "destroyed"}]
      BY <2>1, <2>3
    <3> QED BY <1>1, <1>3, <1>6, <3>1 DEF TypeOK
  <2> QED BY <2>2, <2>3
<1>8. Rounds'
  <2>1. ASSUME NEW l \in Loops
        PROVE  /\ lpc'[l] # "handle" => lpc[l] # "handle"
               /\ lpc'[l] # "call" => lpc[l] # "call"
    BY <1>1 DEF TypeOK
  <2>4. ASSUME NEW l \in Loops, lpc'[l] # "call" PROVE batch'[l] = <<>>
    BY <1>1, <2>1, <2>4 DEF Rounds, TypeOK
  <2>2. ASSUME NEW l \in Loops, NEW d \in active'[l]
        PROVE  (Accepted(d) /\ io[d] = l /\ Running(d) /\ ~conn[d].failed)'
    <3>1. d \in Conns /\ Accepted(d) /\ io[d] = l /\ Running(d) /\ ~conn[d].failed
      BY <1>1, <2>2 DEF Rounds, TypeOK
    <3> QED BY <1>3, <1>4, <2>2, <3>1 DEF Running
  <2>3. \A l \in Loops : lpc'[l] # "handle" => active'[l] = {}
    BY <1>1, <2>1 DEF Rounds
  <2> QED BY <2>2, <2>3, <2>4 DEF Rounds
<1>9. Numbered'
  BY <1>1, <1>4, FS_Subset DEF Numbered, TypeOK
<1> QED BY <1>3, <1>6, <1>7, <1>8, <1>9 DEF Inv

(* What follows a method that left c up or closed it. *)
Pushed(c, t) ==
    \/ UNCHANGED pending
    \/ \E l \in Loops, f \in Functors :
          /\ pending' = [pending EXCEPT ![l] = Append(@, f)]
          /\ f.conn = c
          /\ \/ f.call \in {"connectDestroyed", "forceCloseInLoop"} /\ l = io[c]
             \/ /\ f.call = "removeConnectionInLoop" /\ l = 0
                /\ t.state = "kDisconnected" /\ conn[c].state # "kDisconnected"

(* queueInLoop, as TcpServer and TcpConnection use it on a connection that  *)
(* is up or just closed.                                                    *)
LEMMA Pushes ==
  ASSUME TypeOK, NEW c \in Conns, NEW t, NEW l \in Loops,
         NEW f \in {"connectDestroyed", "forceCloseInLoop", "removeConnectionInLoop"},
         pending' = queueInLoop(l, f, c),
         \/ f # "removeConnectionInLoop" /\ l = io[c]
         \/ /\ f = "removeConnectionInLoop" /\ l = 0
            /\ t.state = "kDisconnected" /\ conn[c].state # "kDisconnected"
  PROVE  Pushed(c, t)
<1> DEFINE g == Functor(f, c)
<1>1. g \in Functors /\ g.conn = c /\ g.call = f
  BY DEF Functor, Functors, FunctorNames
<1>2. pending' = [pending EXCEPT ![l] = Append(@, g)]
  BY DEF queueInLoop
<1> HIDE DEF g
<1> QED BY <1>1, <1>2 DEF Pushed

(* The close callback after a method: at most one functor is queued, and the *)
(* connection is as the method left it but for the assert on the map.       *)
LEMMA AfterAct ==
  ASSUME TypeOK, NEW c \in Conns, NEW r \in Connections,
         New(r) \/ Up(r) \/ Down(r), After(c, r)
  PROVE  \E s \in Connections :
            /\ s.peer = r.peer /\ s.state = r.state /\ Sound(s)
            /\ conn' = [conn EXCEPT ![c] = s]
            /\ connections' \subseteq connections
            /\ Pushed(c, s)
<1>1. Sound(r)
  BY Phases
<1>2. 0 \in Loops
  BY LoopsAre
<1>3. CASE r.state = "kDisconnected" /\ conn[c].state # "kDisconnected"
  <2>1. removeConnection(c, r)
    BY <1>3 DEF After
  <2>2. CASE io[c] = 0
    <3> DEFINE s == Assert(r, Erased(c) # connections)
    <3>1. s \in Connections /\ Keeps(s, r, {"failed"})
      BY AssertProperties
    <3>2. conn' = [conn EXCEPT ![c] = s] /\ connections' = Erased(c)
          /\ pending' = queueInLoop(0, "connectDestroyed", c)
      BY <2>1, <2>2 DEF removeConnection
    <3> HIDE DEF s
    <3>3. Down(r)
      BY <1>3 DEF Up, New
    <3>4. Sound(s)
      <4>1. Keeps(s, r, {"peer", "inbox", "error", "failed"})
        BY <3>1 DEF Keeps
      <4> QED BY <3>1, <3>3, <4>1, PhaseKept, Phases
    <3>5. Pushed(c, s)
      BY <1>2, <2>2, <3>2, Pushes
    <3>6. connections' \subseteq connections
      BY <3>2 DEF Erased
    <3> QED BY <3>1, <3>2, <3>4, <3>5, <3>6 DEF Keeps
  <2>3. CASE io[c] # 0
    <3>1. conn' = [conn EXCEPT ![c] = r] /\ connections' = connections
          /\ pending' = queueInLoop(0, "removeConnectionInLoop", c)
      BY <2>1, <2>3 DEF removeConnection
    <3>2. Pushed(c, r)
      BY <1>2, <1>3, <3>1, Pushes
    <3> QED BY <1>1, <3>1, <3>2
  <2> QED BY <2>2, <2>3
<1>4. CASE ~(r.state = "kDisconnected" /\ conn[c].state # "kDisconnected")
  <2>1. conn' = [conn EXCEPT ![c] = r] /\ connections' = connections /\ pending' = pending
    BY <1>4 DEF After
  <2> QED BY <1>1, <2>1 DEF Pushed
<1> QED BY <1>3, <1>4

(* Channel::handleEvent on an active channel keeps the invariant.           *)
LEMMA HandleStep ==
  ASSUME Inv, ~Aborted, NEW l \in Loops, NEW c \in Conns, Handle(l, c)
  PROVE  Inv'
<1>1. TypeOK /\ Records /\ Rounds
  BY DEF Inv
<1>2. Accepted(c) /\ io[c] = l /\ Running(c) /\ Up(conn[c]) /\ conn[c] \in Connections
      /\ ~conn[c].failed
  BY <1>1, PhaseOf DEF Handle, Rounds
<1>3. PICK react \in Reactions, n \in 1..Chunk :
         LET r == handleEvent(conn[c], revents[c], react, Chunk, n)
         IN  IF Forces(c, react)
             THEN /\ conn' = [conn EXCEPT ![c] = r]
                  /\ pending' = queueInLoop(l, "forceCloseInLoop", c)
                  /\ UNCHANGED connections
             ELSE After(c, r)
  BY DEF Handle
<1> DEFINE r == handleEvent(conn[c], revents[c], react, Chunk, n)
<1>4. /\ Continues(r, conn[c]) /\ (Up(r) \/ Down(r))
      /\ conn[c].inbox /\ "IN" \in revents[c] => Up(r)
  <2>1. Chunk \in Nat /\ n \in Nat
    BY DEF Chunk
  <2> QED BY <1>2, <2>1, Events
<1> HIDE DEF r
<1>5. \E s \in Connections :
         /\ s.peer = conn[c].peer /\ Sound(s)
         /\ conn' = [conn EXCEPT ![c] = s]
         /\ connections' \subseteq connections
         /\ Pushed(c, s)
  <2>1. CASE Forces(c, react)
    <3>1. conn' = [conn EXCEPT ![c] = r] /\ pending' = queueInLoop(l, "forceCloseInLoop", c)
          /\ connections' = connections
      BY <1>3, <2>1 DEF r
    <3>2. Pushed(c, r)
      BY <1>1, <1>2, <3>1, Pushes
    <3>3. Sound(r)
      BY <1>4, Phases DEF Continues
    <3> QED BY <1>4, <3>1, <3>2, <3>3 DEF Continues
  <2>2. CASE ~Forces(c, react)
    <3>1. After(c, r) /\ r \in Connections
      BY <1>3, <1>4, <2>2 DEF r, Continues
    <3>2. r.peer = conn[c].peer
      BY <1>4 DEF Continues
    <3> QED BY <1>1, <1>4, <3>1, <3>2, AfterAct
  <2> QED BY <2>1, <2>2
<1>6. PICK s \in Connections :
         /\ s.peer = conn[c].peer /\ Sound(s)
         /\ conn' = [conn EXCEPT ![c] = s]
         /\ connections' \subseteq connections
         /\ Pushed(c, s)
  BY <1>5
<1>7. /\ active' = [active EXCEPT ![l] = @ \ {c}]
      /\ revents' = [revents EXCEPT ![c] = {}]
      /\ UNCHANGED <<lpc, acceptReady, batch, called, threadNum, nextConnId,
                     id, io, replaced, addr, user>>
  BY DEF Handle
<1>8. /\ active' \in [Loops -> SUBSET Conns]
      /\ \A k \in Loops : active'[k] \subseteq active[k] /\ c \notin active'[k]
  BY <1>1, <1>2, <1>7 DEF TypeOK, Rounds
<1>9. \A k \in Loops : \A f \in Items(batch'[k]) \cup Items(pending[k]) :
         f # Functor("connectEstablished", c)
  BY <1>2, <1>7 DEF Inv, Work, Jobs, Entry, Functor, Running
<1>10. /\ revents' \in [Conns -> SUBSET {"IN", "OUT", "ERR", "HUP"}]
       /\ called' \in [Loops -> SUBSET Conns]
       /\ conn[c].state # "kDisconnected"
  BY <1>1, <1>2, <1>7 DEF TypeOK, Running
<1>11. /\ conn[c].state = "kDisconnected" => s.state = "kDisconnected"
       /\ \A k \in Loops : /\ active'[k] \subseteq active[k]
                           /\ c \in active'[k] => /\ s.state \in {"kConnected", "kDisconnecting"}
                                               /\ ~s.failed
       /\ \A k \in Loops : \A f \in Items(batch'[k]) \cup Items(pending[k]) :
            f = Functor("connectEstablished", c) => s.state = "kConnecting"
  BY <1>8, <1>9, <1>10, Zenon
<1>12. /\ Accepted(c) /\ UNCHANGED batch
       /\ UNCHANGED <<lpc, acceptReady, threadNum, nextConnId, id, io, replaced, addr, user>>
  BY <1>2, <1>7
<1> QED BY <1>6, <1>8, <1>10, <1>11, <1>12, MethodAct DEF Pushed

(* A functor that is called. *)
LEMMA CallFacts ==
  ASSUME Inv, ~Aborted, NEW l \in Loops, NEW f, Call(l, f)
  PROVE  /\ First(l).conn \in Conns /\ First(l) = Functor(f, First(l).conn)
         /\ First(l) \in Jobs(l) /\ Entry(l, First(l))
         /\ InOrder(batch[l] \o pending[l])
         /\ \A g \in Items(Tail(batch[l])) \cup Items(pending[l]) : Before(First(l), g)
         /\ \A k \in Loops : Items(batch'[k]) \cup Items(pending[k]) \subseteq Jobs(k)
         /\ active[l] = {}
         /\ lpc[l] = "call" /\ batch[l] # <<>> /\ batch' = [batch EXCEPT ![l] = Tail(@)]
         /\ UNCHANGED <<loopVars, threadNum, nextConnId, id, io, replaced, addr, user>>
         /\ active' \in [Loops -> SUBSET Conns]
         /\ revents' \in [Conns -> SUBSET {"IN", "OUT", "ERR", "HUP"}]
         /\ called' \in [Loops -> SUBSET Conns]
<1>1. TypeOK /\ Rounds /\ Work
  BY DEF Inv
<1>2. lpc[l] = "call" /\ batch[l] # <<>> /\ batch' = [batch EXCEPT ![l] = Tail(@)]
      /\ First(l).call = f
      /\ UNCHANGED <<loopVars, threadNum, nextConnId, id, io, replaced, addr, user>>
      /\ called' = [called EXCEPT ![l] =
                      IF HoldsConn(First(l)) THEN @ \cup {First(l).conn} ELSE @]
  BY DEF Call
<1> DEFINE b == batch[l]  p == pending[l]
<1>3. b \in Seq(Functors) /\ p \in Seq(Functors) /\ b # <<>>
  BY <1>1, <1>2 DEF TypeOK
<1>4. First(l) = Head(b)
  BY DEF First
<1>5. InOrder(b \o p)
  BY <1>1 DEF Work
<1>6. Jobs(l) = Items(b) \cup Items(p)
  BY DEF Jobs
<1> HIDE DEF b, p
<1>7. Head(b) \in Functors /\ Tail(b) \in Seq(Functors) /\ Head(b) \in Items(b)
  BY <1>3, ItemsOfTail
<1>8. /\ b \o p \in Seq(Functors) /\ b \o p # <<>>
      /\ Head(b \o p) = Head(b) /\ Tail(b \o p) = Tail(b) \o p
  BY <1>3, Dequeued
<1>9. \A g \in Items(Tail(b) \o p) : Before(Head(b), g)
  BY <1>5, <1>8, OrderOfTail
<1>10. Items(Tail(b) \o p) = Items(Tail(b)) \cup Items(p)
  <2> DEFINE r == Tail(b)
  <2>1. r \in Seq(Functors) /\ p \in Seq(Functors)
    BY <1>3, <1>7
  <2> HIDE DEF r
  <2>2. Items(r \o p) = Items(r) \cup Items(p)
    BY <2>1, ItemsOfConcat
  <2> QED BY <2>2 DEF r
<1>11. First(l) \in Functors /\ First(l) \in Jobs(l)
  BY <1>4, <1>6, <1>7
<1>12. First(l).conn \in Conns /\ First(l) = Functor(f, First(l).conn)
  BY <1>2, <1>11 DEF Functors, Functor
<1>13. called' \in [Loops -> SUBSET Conns]
  BY <1>1, <1>2, <1>12 DEF TypeOK
<1>14. active[l] = {}
  BY <1>1, <1>2 DEF Rounds
<1>15. ASSUME NEW k \in Loops
       PROVE  Items(batch'[k]) \cup Items(pending[k]) \subseteq Jobs(k)
  <2>1. CASE k = l
    <3>1. batch'[l] = Tail(b)
      BY <1>1, <1>2 DEF b, TypeOK
    <3>2. Items(Tail(b)) \subseteq Items(b)
      BY <1>3, ItemsOfTail
    <3> QED BY <2>1, <3>1, <3>2 DEF b, Jobs
  <2>2. CASE k # l
    <3>1. batch'[k] = batch[k]
      BY <1>1, <1>2, <2>2 DEF TypeOK
    <3> QED BY <3>1 DEF Jobs
  <2> QED BY <2>1, <2>2
<1>16. \A g \in Items(Tail(batch[l])) \cup Items(pending[l]) : Before(First(l), g)
  BY <1>4, <1>9, <1>10 DEF b, p
<1> QED BY <1>1, <1>2, <1>5, <1>11, <1>12, <1>13, <1>14, <1>15, <1>16 DEF b, p, Work, TypeOK

(* What connectDestroyed makes of a connection. *)
LEMMA TeardownOf ==
  ASSUME TypeOK, Records, ~Aborted, NEW c \in Conns
  PROVE  LET s == connectDestroyed(conn[c]) IN
         /\ s \in Connections /\ s.peer = conn[c].peer /\ Sound(s)
         /\ conn[c].state \in {"kConnecting", "kDisconnecting", "kDisconnected"}
               => s.state = conn[c].state
         /\ conn[c].state = "kConnected" => s.state = "kDisconnected"
         /\ conn[c].state # "kDisconnecting" => ~s.failed /\ ~s.added
         /\ conn[c].state = "kDisconnecting" => s.failed
<1> DEFINE r == conn[c]  s == connectDestroyed(r)
<1>1. /\ r \in Connections /\ ~r.failed
      /\ r.state = "kConnecting" => New(r)
      /\ Running(c) => Up(r)
      /\ r.state = "kDisconnected" => Down(r)
  BY PhaseOf
<1>2. r.state \in {"kConnecting", "kConnected", "kDisconnecting", "kDisconnected"}
  BY <1>1, FieldTypes DEF States
<1>3. CASE r.state = "kConnected"
  <2>1. Continues(s, r) /\ Down(s) /\ ~s.added
    BY <1>1, <1>3, DestroyedUp DEF Running
  <2> QED BY <1>1, <1>3, <2>1, Phases DEF Continues, Down
<1>4. CASE r.state = "kDisconnecting"
  <2>1. Up(r)
    BY <1>1, <1>4 DEF Running
  <2>2. /\ s \in Connections /\ s.failed /\ s.state = "kDisconnecting"
        /\ s.log = r.log /\ s.output = r.output /\ s.shut = r.shut /\ s.peer = r.peer
    BY <1>1, <1>4, <2>1, DestroyedLeaving
  <2>3. Sound(r)
    BY <1>1, <2>1, Phases
  <2> QED BY <1>4, <2>2, <2>3 DEF Sound
<1>5. CASE r.state \in {"kConnecting", "kDisconnected"}
  <2>1. Silent(r)
    BY <1>1, <1>5 DEF New, Down
  <2>2. /\ Continues(s, r) /\ Silent(s) /\ ~s.added
        /\ s.state = r.state /\ s.log = r.log /\ s.output = r.output /\ s.shut = r.shut
    BY <1>1, <1>5, <2>1, DestroyedSilent
  <2>3. New(r) => New(s)
    BY <2>2 DEF New
  <2>4. Down(r) => Down(s)
    BY <2>2 DEF Down
  <2> QED BY <1>1, <1>5, <2>2, <2>3, <2>4, Phases DEF Continues
<1> QED BY <1>2, <1>3, <1>4, <1>5

(* So does connectEstablished, called once on a connection nobody has       *)
(* established,                                                             *)
LEMMA EstablishedStep ==
  ASSUME Inv, ~Aborted, NEW l \in Loops, CallEstablished(l)
  PROVE  Inv'
<1>1. TypeOK /\ Records /\ Rounds /\ Work
  BY DEF Inv
<1> DEFINE c == First(l).conn  s == connectEstablished(conn[c])
<1>2. Call(l, "connectEstablished") /\ conn' = [conn EXCEPT ![c] = s]
      /\ UNCHANGED <<connections, pending>>
  BY DEF CallEstablished
<1>3. /\ c \in Conns /\ First(l) = Functor("connectEstablished", c) /\ Entry(l, First(l))
      /\ \A g \in Items(Tail(batch[l])) \cup Items(pending[l]) : Before(First(l), g)
      /\ lpc[l] = "call" /\ batch[l] # <<>> /\ batch' = [batch EXCEPT ![l] = Tail(@)]
      /\ UNCHANGED <<loopVars, threadNum, nextConnId, id, io, replaced, addr, user>>
      /\ active' \in [Loops -> SUBSET Conns]
      /\ revents' \in [Conns -> SUBSET {"IN", "OUT", "ERR", "HUP"}]
      /\ called' \in [Loops -> SUBSET Conns]
  BY <1>2, CallFacts
<1>4. Accepted(c) /\ l = io[c] /\ conn[c].state = "kConnecting"
  BY <1>3 DEF Entry, Functor
<1>5. conn[c] \in Connections /\ New(conn[c]) /\ ~conn[c].failed
  BY <1>1, <1>3, <1>4, PhaseOf
<1>6. Continues(s, conn[c]) /\ Up(s) /\ s.state = "kConnected"
  BY <1>5, Established
<1>7. s \in Connections /\ s.peer = conn[c].peer /\ Sound(s) /\ ~s.failed
  BY <1>5, <1>6, Phases DEF Continues
<1> HIDE DEF c, s
<1>8. ASSUME NEW k \in Loops, NEW f \in Items(batch'[k]) \cup Items(pending[k])
      PROVE  f # Functor("connectEstablished", c)
  <2>1. CASE k = l
    <3>1. batch'[l] = Tail(batch[l])
      BY <1>1, <1>3 DEF TypeOK
    <3>2. Before(First(l), f)
      BY <1>3, <1>8, <2>1, <3>1
    <3> QED BY <1>3, <3>2 DEF Before, Functor
  <2>2. CASE k # l
    <3>1. batch'[k] = batch[k]
      BY <1>1, <1>3, <2>2 DEF TypeOK
    <3> QED BY <1>1, <1>4, <1>8, <2>2, <3>1 DEF Work, Jobs, Entry, Functor
  <2> QED BY <2>1, <2>2
<1> QED BY <1>2, <1>3, <1>4, <1>6, <1>7, <1>8, MethodAct

(* connectDestroyed, whatever the state it finds,                           *)
LEMMA DestroyedStep ==
  ASSUME Inv, ~Aborted, NEW l \in Loops, CallDestroyed(l)
  PROVE  Inv'
<1>1. TypeOK /\ Records /\ Rounds /\ Work
  BY DEF Inv
<1> DEFINE c == First(l).conn  s == connectDestroyed(conn[c])
<1>2. Call(l, "connectDestroyed") /\ conn' = [conn EXCEPT ![c] = s]
      /\ UNCHANGED <<connections, pending>>
  BY DEF CallDestroyed
<1>3. /\ c \in Conns /\ First(l) = Functor("connectDestroyed", c) /\ Entry(l, First(l))
      /\ \A k \in Loops : Items(batch'[k]) \cup Items(pending[k]) \subseteq Jobs(k)
      /\ active[l] = {}
      /\ lpc[l] = "call" /\ batch[l] # <<>> /\ batch' = [batch EXCEPT ![l] = Tail(@)]
      /\ UNCHANGED <<loopVars, threadNum, nextConnId, id, io, replaced, addr, user>>
      /\ active' \in [Loops -> SUBSET Conns]
      /\ revents' \in [Conns -> SUBSET {"IN", "OUT", "ERR", "HUP"}]
      /\ called' \in [Loops -> SUBSET Conns]
  BY <1>2, CallFacts
<1>4. Accepted(c) /\ l = io[c]
  BY <1>3 DEF Entry, Functor
<1>5. /\ s \in Connections /\ s.peer = conn[c].peer /\ Sound(s)
      /\ conn[c].state = "kDisconnected" => s.state = "kDisconnected"
      /\ conn[c].state = "kConnecting" => s.state = "kConnecting"
  BY <1>1, <1>3, TeardownOf
<1> HIDE DEF c, s
<1>6. ASSUME NEW k \in Loops, NEW f \in Items(batch'[k]) \cup Items(pending[k]),
             f = Functor("connectEstablished", c)
      PROVE  s.state = "kConnecting"
  <2>1. f \in Jobs(k)
    BY <1>3, <1>6
  <2> QED BY <1>1, <1>5, <1>6, <2>1 DEF Work, Entry, Functor
<1>7. ASSUME NEW k \in Loops PROVE c \notin active'[k]
  BY <1>1, <1>3, <1>4 DEF Rounds
<1> QED BY <1>2, <1>3, <1>4, <1>5, <1>6, <1>7, MethodAct

(* forceCloseInLoop, on a connection that may be closed by then,            *)
LEMMA ForceCloseStep ==
  ASSUME Inv, ~Aborted, NEW l \in Loops, CallForceClose(l)
  PROVE  Inv'
<1>1. TypeOK /\ Records /\ Rounds /\ Work
  BY DEF Inv
<1> DEFINE c == First(l).conn  r == forceCloseInLoop(conn[c])
<1>2. Call(l, "forceCloseInLoop") /\ After(c, r)
  BY DEF CallForceClose
<1>3. /\ c \in Conns /\ First(l) = Functor("forceCloseInLoop", c) /\ Entry(l, First(l))
      /\ \A k \in Loops : Items(batch'[k]) \cup Items(pending[k]) \subseteq Jobs(k)
      /\ active[l] = {}
      /\ lpc[l] = "call" /\ batch[l] # <<>> /\ batch' = [batch EXCEPT ![l] = Tail(@)]
      /\ UNCHANGED <<loopVars, threadNum, nextConnId, id, io, replaced, addr, user>>
      /\ active' \in [Loops -> SUBSET Conns]
      /\ revents' \in [Conns -> SUBSET {"IN", "OUT", "ERR", "HUP"}]
      /\ called' \in [Loops -> SUBSET Conns]
  BY <1>2, CallFacts
<1>4. Accepted(c) /\ l = io[c]
  BY <1>3 DEF Entry, Functor
<1>5. /\ conn[c] \in Connections /\ ~conn[c].failed
      /\ Running(c) => Up(conn[c])
      /\ ~Running(c) => New(conn[c]) \/ Down(conn[c])
  BY <1>1, <1>3, PhaseOf DEF Records, Sound, Running, Up
<1>6. /\ Running(c) => Continues(r, conn[c]) /\ Down(r)
      /\ ~Running(c) => r = conn[c]
  <2>1. Running(c) => Continues(r, conn[c]) /\ Down(r)
    BY <1>5, ForceClosed
  <2>2. ~Running(c) => r = conn[c]
    BY DEF forceCloseInLoop, Running
  <2> QED BY <2>1, <2>2
<1>7. /\ r \in Connections /\ (New(r) \/ Up(r) \/ Down(r)) /\ r.peer = conn[c].peer
      /\ conn[c].state \in {"kConnecting", "kDisconnected"} => r.state = conn[c].state
  BY <1>5, <1>6 DEF Continues, Running
<1> HIDE DEF c, r
<1>8. PICK s \in Connections :
            /\ s.peer = r.peer /\ s.state = r.state /\ Sound(s)
            /\ conn' = [conn EXCEPT ![c] = s]
            /\ connections' \subseteq connections
            /\ Pushed(c, s)
  BY <1>1, <1>2, <1>3, <1>7, AfterAct
<1>9. ASSUME NEW k \in Loops, NEW f \in Items(batch'[k]) \cup Items(pending[k]),
             f = Functor("connectEstablished", c)
      PROVE  s.state = "kConnecting"
  <2>1. f \in Jobs(k)
    BY <1>3, <1>9
  <2> QED BY <1>1, <1>7, <1>8, <1>9, <2>1 DEF Work, Entry, Functor
<1>10. ASSUME NEW k \in Loops PROVE c \notin active'[k]
  BY <1>1, <1>3, <1>4 DEF Rounds
<1> QED BY <1>3, <1>4, <1>7, <1>8, <1>9, <1>10, MethodAct DEF Pushed

(* and removeConnectionInLoop.                                              *)
LEMMA RemoveStep ==
  ASSUME Inv, ~Aborted, CallRemove
  PROVE  Inv'
<1>1. TypeOK /\ Records /\ Rounds /\ Work
  BY DEF Inv
<1> DEFINE c == First(0).conn  s == Assert(conn[c], Erased(c) # connections)
<1>2. /\ Call(0, "removeConnectionInLoop")
      /\ connections' = Erased(c) /\ conn' = [conn EXCEPT ![c] = s]
      /\ pending' = queueInLoop(io[c], "connectDestroyed", c)
  BY DEF CallRemove
<1>3. /\ c \in Conns /\ First(0) = Functor("removeConnectionInLoop", c) /\ Entry(0, First(0))
      /\ \A k \in Loops : Items(batch'[k]) \cup Items(pending[k]) \subseteq Jobs(k)
      /\ lpc[0] = "call" /\ batch[0] # <<>> /\ batch' = [batch EXCEPT ![0] = Tail(@)]
      /\ UNCHANGED <<loopVars, threadNum, nextConnId, id, io, replaced, addr, user>>
      /\ active' \in [Loops -> SUBSET Conns]
      /\ revents' \in [Conns -> SUBSET {"IN", "OUT", "ERR", "HUP"}]
      /\ called' \in [Loops -> SUBSET Conns]
  BY <1>2, CallFacts, LoopsAre
<1>4. Accepted(c) /\ conn[c].state = "kDisconnected" /\ io[c] \in Loops
  BY <1>1, <1>3 DEF Entry, Functor, TypeOK
<1>5. conn[c] \in Connections /\ Down(conn[c])
  BY <1>1, <1>3, <1>4, PhaseOf
<1>6. s \in Connections /\ Keeps(s, conn[c], {"failed"})
  BY <1>5, AssertProperties
<1>7. /\ s.peer = conn[c].peer /\ s.state = "kDisconnected" /\ Sound(s)
  <2>1. Keeps(s, conn[c], {"peer", "inbox", "error", "failed"})
    BY <1>6 DEF Keeps
  <2>2. Sound(s)
    BY <1>5, <1>6, <2>1, PhaseKept, Phases
  <2> QED BY <1>4, <1>6, <2>2 DEF Keeps
<1> HIDE DEF c, s
<1>8. Pushed(c, s)
  BY <1>1, <1>2, <1>3, <1>4, Pushes
<1>9. connections' \subseteq connections
  BY <1>2 DEF Erased
<1>10. ASSUME NEW k \in Loops, NEW f \in Items(batch'[k]) \cup Items(pending[k])
       PROVE  f # Functor("connectEstablished", c)
  <2>1. f \in Jobs(k)
    BY <1>3, <1>10
  <2> QED BY <1>1, <1>4, <2>1 DEF Work, Entry, Functor
<1>11. ASSUME NEW k \in Loops PROVE c \notin active'[k]
  BY <1>1, <1>3, <1>4 DEF Rounds, Running
<1> QED BY <1>2, <1>3, <1>4, <1>6, <1>7, <1>8, <1>9, <1>10, <1>11, MethodAct, LoopsAre DEF Pushed

-----------------------------------------------------------------------------
(* epoll_wait reports connections that are up: the closed ones are out of   *)
(* epoll.                                                                   *)
LEMMA PollStep ==
  ASSUME Inv, ~Aborted, NEW l \in Loops, Poll(l)
  PROVE  Inv'
<1>1. TypeOK /\ Records /\ Rounds /\ Work /\ Numbered
  BY DEF Inv
<1>2. /\ active' = [active EXCEPT ![l] = ReadyIn(l)]
      /\ revents' = [c \in Conns |-> IF c \in ReadyIn(l) THEN Ready(conn[c]) ELSE revents[c]]
      /\ acceptReady' = IF l = 0 THEN Waiting # {} ELSE acceptReady
      /\ lpc[l] = "poll" /\ lpc' = [lpc EXCEPT ![l] = "handle"]
      /\ UNCHANGED <<queueVars, serverVars, conn, addr, user>>
  BY DEF Poll
<1>3. ASSUME NEW c \in ReadyIn(l)
      PROVE  c \in Conns /\ Accepted(c) /\ io[c] = l /\ Running(c) /\ ~conn[c].failed
  <2>1. c \in Conns /\ Accepted(c) /\ io[c] = l /\ conn[c].polled
    BY DEF ReadyIn, Ready
  <2>2. ~conn[c].failed /\ (New(conn[c]) \/ Up(conn[c]) \/ Down(conn[c]))
    BY <1>1, <2>1, PhaseOf DEF Records, Sound
  <2> QED BY <2>1, <2>2 DEF New, Up, Down, Silent, Running
<1>4. \A c \in Conns : Ready(conn[c]) \subseteq {"IN", "OUT", "ERR", "HUP"}
  BY DEF Ready
<1>5. TypeOK'
  <2>1. active' \in [Loops -> SUBSET Conns]
    BY <1>1, <1>2, <1>3 DEF TypeOK
  <2>2. revents' \in [Conns -> SUBSET {"IN", "OUT", "ERR", "HUP"}]
    BY <1>1, <1>2, <1>4 DEF TypeOK
  <2>3. acceptReady' \in BOOLEAN
    BY <1>1, <1>2 DEF TypeOK
  <2>4. lpc' \in [Loops -> {"poll", "handle", "call", "left", "destroyed"}]
    BY <1>1, <1>2 DEF TypeOK
  <2> QED BY <1>1, <1>2, <2>1, <2>2, <2>3, <2>4 DEF TypeOK
<1>6. Records' /\ Work' /\ Numbered'
  BY <1>1, <1>2 DEF Records, Accepted, Work, Jobs, Entry, Numbered
<1>7. Rounds'
  <2>1. ASSUME NEW k \in Loops
        PROVE  /\ lpc'[k] # "handle" => active'[k] = {}
               /\ lpc'[k] # "call" => batch'[k] = <<>>
    BY <1>1, <1>2 DEF Rounds, TypeOK
  <2>2. ASSUME NEW k \in Loops, NEW c \in active'[k]
        PROVE  (Accepted(c) /\ io[c] = k /\ Running(c) /\ ~conn[c].failed)'
    <3>1. Accepted(c) /\ io[c] = k /\ Running(c) /\ ~conn[c].failed
      BY <1>1, <1>2, <1>3, <2>2 DEF Rounds, TypeOK
    <3> QED BY <1>2, <3>1 DEF Accepted, Running
  <2> QED BY <2>1, <2>2 DEF Rounds
<1> QED BY <1>5, <1>6, <1>7 DEF Inv

(* doPendingFunctors takes the whole queue.                                 *)
LEMMA SwapStep ==
  ASSUME Inv, ~Aborted, NEW l \in Loops, SwapPending(l)
  PROVE  Inv'
<1>1. TypeOK /\ Records /\ Rounds /\ Work /\ Numbered
  BY DEF Inv
<1>2. /\ lpc[l] = "handle" /\ active[l] = {}
      /\ batch' = [batch EXCEPT ![l] = pending[l]]
      /\ pending' = [pending EXCEPT ![l] = <<>>]
      /\ lpc' = [lpc EXCEPT ![l] = IF pending[l] = <<>> THEN "poll" ELSE "call"]
      /\ UNCHANGED <<acceptReady, active, revents, called, serverVars, conn, addr, user>>
  BY DEF SwapPending
<1>3. batch[l] = <<>> /\ pending[l] \in Seq(Functors)
  BY <1>1, <1>2 DEF Rounds, TypeOK
<1>4. TypeOK'
  <2>1. <<>> \in Seq(Functors)
    BY EmptySeq
  <2>2. /\ batch' \in [Loops -> Seq(Functors)] /\ pending' \in [Loops -> Seq(Functors)]
        /\ lpc' \in [Loops -> {"poll", "handle", "call", "left", "destroyed"}]
    BY <1>1, <1>2, <1>3, <2>1 DEF TypeOK
  <2> QED BY <1>1, <1>2, <2>2 DEF TypeOK
<1>5. \A k \in Loops : batch'[k] \o pending'[k] = batch[k] \o pending[k] /\ Jobs(k)' = Jobs(k)
  <2>1. ASSUME NEW k \in Loops, k # l
        PROVE  batch'[k] = batch[k] /\ pending'[k] = pending[k]
    BY <1>1, <1>2, <2>1 DEF TypeOK
  <2>2. batch'[l] = pending[l] /\ pending'[l] = <<>>
    BY <1>1, <1>2 DEF TypeOK
  <2>3. pending[l] \o <<>> = pending[l] /\ <<>> \o pending[l] = pending[l]
    BY <1>3, ConcatEmptySeq
  <2> QED BY <1>3, <2>1, <2>2, <2>3 DEF Jobs
<1>6. Records' /\ Numbered'
  BY <1>1, <1>2 DEF Records, Accepted, Numbered
<1>7. Work'
  BY <1>1, <1>2, <1>5 DEF Work, Entry, Accepted
<1>8. Rounds'
  BY <1>1, <1>2 DEF Rounds, TypeOK, Accepted, Running
<1> QED BY <1>4, <1>6, <1>7, <1>8 DEF Inv

(* The batch is destroyed.                                                  *)
LEMMA EndStep ==
  ASSUME Inv, ~Aborted, NEW l \in Loops, EndBatch(l)
  PROVE  Inv'
<1>1. TypeOK /\ Records /\ Rounds /\ Work /\ Numbered
  BY DEF Inv
<1>2. /\ lpc[l] = "call" /\ batch[l] = <<>>
      /\ called' = [called EXCEPT ![l] = {}]
      /\ lpc' = [lpc EXCEPT ![l] = "poll"]
      /\ UNCHANGED <<acceptReady, active, revents, pending, batch, serverVars, conn,
                     addr, user>>
  BY DEF EndBatch
<1>3. TypeOK'
  BY <1>1, <1>2 DEF TypeOK
<1>4. Records' /\ Numbered' /\ Work'
  BY <1>1, <1>2 DEF Records, Accepted, Numbered, Work, Jobs, Entry
<1>5. Rounds'
  BY <1>1, <1>2 DEF Rounds, TypeOK, Accepted, Running
<1> QED BY <1>3, <1>4, <1>5 DEF Inv

(* A connection accepted is established at once on the base loop, or by a   *)
(* functor that is the first its loop gets of it.                           *)
LEMMA AcceptStep ==
  ASSUME Inv, ~Aborted, NEW c \in Conns, Accept(c)
  PROVE  Inv'
<1>1. TypeOK /\ Records /\ Rounds /\ Work /\ Numbered
  BY DEF Inv
<1> DEFINE same   == {d \in connections : Name(d) = <<addr[c], NextNumber>>}
           opened == [conn[c] EXCEPT !.peer = "open"]
           s      == IF NextLoop = 0 THEN connectEstablished(opened) ELSE opened
<1>2. /\ conn[c].peer = "waiting"
      /\ acceptReady' = FALSE /\ nextConnId' = NextNumber
      /\ id' = [id EXCEPT ![c] = NextNumber]
      /\ io' = [io EXCEPT ![c] = NextLoop]
      /\ connections' = (connections \ same) \cup {c}
      /\ replaced' = replaced \cup same
      /\ conn' = [conn EXCEPT ![c] = s]
      /\ NextLoop = 0 => UNCHANGED pending
      /\ NextLoop # 0 => pending' = queueInLoop(NextLoop, "connectEstablished", c)
      /\ UNCHANGED <<lpc, active, revents, batch, called, threadNum, addr, user>>
  BY DEF Accept
<1>3. ~Accepted(c) /\ conn[c] \in Connections /\ New(conn[c]) /\ ~conn[c].failed
  BY <1>1, <1>2, PhaseOf DEF Accepted, Records, Fresh
<1>4. opened \in Connections /\ opened.peer = "open" /\ New(opened) /\ ~opened.failed
  <2>1. opened \in Connections /\ opened.peer = "open" /\ Keeps(opened, conn[c], {"peer"})
    BY <1>3, SetPeer
  <2> HIDE DEF opened
  <2>2. Keeps(opened, conn[c], {"peer", "inbox", "error", "failed"})
    BY <2>1 DEF Keeps
  <2> QED BY <1>3, <2>1, <2>2, PhaseKept DEF Keeps
<1> HIDE DEF opened
<1>5. /\ s \in Connections /\ s.peer = "open" /\ Sound(s)
      /\ NextLoop # 0 => s.state = "kConnecting"
  <2>1. CASE NextLoop = 0
    <3>1. s = connectEstablished(opened)
      BY <2>1
    <3>2. Continues(s, opened) /\ Up(s)
      BY <1>4, <3>1, Established
    <3> QED BY <1>4, <2>1, <3>2, Phases DEF Continues
  <2>2. CASE NextLoop # 0
    BY <1>4, <2>2, Phases DEF New
  <2> QED BY <2>1, <2>2
<1> HIDE DEF s, same
<1>6. threadNum \in Nat /\ nextConnId \in Nat /\ 0..threadNum \subseteq Loops
  BY <1>1, LoopsAre, ThreadsAssumption DEF TypeOK
<1>7. NextNumber \in Nat /\ NextLoop \in 0..threadNum /\ NextLoop \in Loops
  BY <1>6 DEF NextNumber, NextLoop
<1>8. /\ conn' \in [Conns -> Connections] /\ conn'[c] = s
      /\ \A d \in Conns \ {c} : conn'[d] = conn[d]
      /\ Records'
  BY <1>1, <1>2, <1>5, OneConn
<1>9. /\ Accepted(c)'
      /\ \A d \in Conns : Accepted(d) => d # c /\ Accepted(d)' /\ io'[d] = io[d] /\ conn'[d] = conn[d]
  BY <1>1, <1>2, <1>3, <1>5, <1>8 DEF Accepted, TypeOK
<1>10. ASSUME NEW l \in Loops, NEW f \in Jobs(l)
       PROVE  Entry(l, f)' /\ f.conn # c /\ f.conn \in Conns
  <2>1. Entry(l, f) /\ f.conn \in Conns
    BY <1>1, JobsType DEF Work, Functors
  <2> QED BY <1>9, <2>1 DEF Entry
<1>11. /\ Work'
       /\ batch' \in [Loops -> Seq(Functors)] /\ pending' \in [Loops -> Seq(Functors)]
  <2>1. \A l \in Loops : \A f \in Items(batch'[l]) \cup Items(pending[l]) : Entry(l, f)'
    BY <1>2, <1>10 DEF Jobs
  <2>2. ASSUME NextLoop # 0
        PROVE  \E l \in Loops, f \in Functors :
               /\ pending' = [pending EXCEPT ![l] = Append(@, f)]
               /\ Entry(l, f)' /\ \A g \in Jobs(l) : Before(g, f)
    <3> DEFINE f == Functor("connectEstablished", c)
    <3>0. PICK l \in Loops : l = NextLoop
      BY <1>7
    <3>1. f \in Functors /\ f.call = "connectEstablished" /\ f.conn = c
      BY DEF Functor, Functors, FunctorNames
    <3>2. pending' = [pending EXCEPT ![l] = Append(@, f)]
      BY <1>2, <2>2, <3>0 DEF queueInLoop
    <3> HIDE DEF f
    <3>3. Entry(l, f)'
      <4>1. io'[c] = l
        BY <1>1, <1>2, <3>0 DEF TypeOK
      <4> QED BY <1>5, <1>8, <1>9, <2>2, <3>0, <3>1, <4>1 DEF Entry
    <3>4. \A g \in Jobs(l) : Before(g, f)
      BY <1>10, <3>1 DEF Before, Functor
    <3> QED BY <3>1, <3>2, <3>3, <3>4
  <2>3. UNCHANGED batch
    BY <1>2
  <2> QED BY <1>1, <1>2, <2>1, <2>2, <2>3, WorkStep
<1>12. TypeOK'
  <2>1. connections' \subseteq Conns /\ replaced' \subseteq Conns
    BY <1>1, <1>2 DEF TypeOK, same
  <2>2. id' \in [Conns -> Nat] /\ io' \in [Conns -> Loops]
    BY <1>1, <1>2, <1>7 DEF TypeOK
  <2> QED BY <1>1, <1>2, <1>7, <1>8, <1>11, <2>1, <2>2 DEF TypeOK
<1>13. Rounds'
  <2>1. ASSUME NEW l \in Loops, NEW d \in active[l]
        PROVE  (Accepted(d) /\ io[d] = l /\ Running(d) /\ ~conn[d].failed)'
    <3>1. d \in Conns /\ Accepted(d) /\ io[d] = l /\ Running(d) /\ ~conn[d].failed
      BY <1>1 DEF Rounds, TypeOK
    <3> QED BY <1>9, <3>1 DEF Running
  <2> QED BY <1>1, <1>2, <2>1 DEF Rounds
<1>14. Numbered'
  <2>1. IsFiniteSet(connections')
    <3>1. IsFiniteSet(connections \ same)
      BY <1>1, FS_Subset DEF Numbered
    <3> QED BY <1>2, <3>1, FS_AddElement
  <2>2. \A d \in connections' : Accepted(d)'
    BY <1>1, <1>2, <1>9 DEF Numbered, TypeOK
  <2>3. \A d \in Conns : io'[d] \in 0..threadNum
    BY <1>1, <1>2, <1>7 DEF Numbered, TypeOK
  <2> QED BY <1>2, <2>1, <2>2, <2>3 DEF Numbered
<1> QED BY <1>8, <1>11, <1>12, <1>13, <1>14 DEF Inv

-----------------------------------------------------------------------------
(* ~TcpServer keeps the invariant, as a method of the connection it tears   *)
(* down,                                                                    *)
LEMMA ServerStep ==
  ASSUME Inv, ~Aborted, NEW c \in Conns, DestroyServer(c)
  PROVE  Inv'
<1>1. TypeOK /\ Records /\ Rounds /\ Work /\ Numbered
  BY DEF Inv
<1>2. /\ lpc[0] \in {"poll", "left"} /\ lpc' = [lpc EXCEPT ![0] = "left"]
      /\ c \in connections /\ connections' \subseteq connections
      /\ UNCHANGED <<acceptReady, active, revents, batch, called, threadNum, nextConnId,
                     id, io, replaced, addr, user>>
  BY DEF DestroyServer, Left
<1>3. Accepted(c) /\ io[c] \in Loops /\ conn[c] \in Connections /\ Sound(conn[c])
  BY <1>1, <1>2 DEF Numbered, TypeOK, Records
<1>4. ASSUME NEW l \in Loops, NEW f \in Items(batch'[l]) \cup Items(pending[l]),
             f = Functor("connectEstablished", c)
      PROVE  conn[c].state = "kConnecting"
  <2>1. f \in Jobs(l) /\ f.call = "connectEstablished" /\ f.conn = c
    BY <1>2, <1>4 DEF Jobs, Functor
  <2> QED BY <1>1, <2>1 DEF Work, Entry
<1>5. /\ active' \in [Loops -> SUBSET Conns]
      /\ revents' \in [Conns -> SUBSET {"IN", "OUT", "ERR", "HUP"}]
      /\ called' \in [Loops -> SUBSET Conns]
  BY <1>1, <1>2 DEF TypeOK
<1>6. CASE io[c] = 0
  <2> DEFINE s == connectDestroyed(conn[c])
  <2>1. conn' = [conn EXCEPT ![c] = s] /\ UNCHANGED pending
    BY <1>6 DEF DestroyServer
  <2>2. /\ s \in Connections /\ s.peer = conn[c].peer /\ Sound(s)
        /\ conn[c].state = "kDisconnected" => s.state = "kDisconnected"
        /\ conn[c].state = "kConnecting" => s.state = "kConnecting"
    BY <1>1, TeardownOf
  <2> HIDE DEF s
  <2>3. ASSUME NEW l \in Loops PROVE c \notin active'[l]
    <3>1. active'[l] = active[l] /\ (c \in active[l] => io[c] = l)
      BY <1>1, <1>2 DEF Rounds
    <3>2. active[0] = {}
      BY <1>1, <1>2, LoopsAre DEF Rounds
    <3> QED BY <1>6, <3>1, <3>2
  <2> QED BY <1>2, <1>3, <1>4, <1>5, <2>1, <2>2, <2>3, MethodAct
<1>7. CASE io[c] # 0
  <2>1. conn' = [conn EXCEPT ![c] = conn[c]] /\ pending' = queueInLoop(io[c], "connectDestroyed", c)
    BY <1>1, <1>7 DEF DestroyServer, TypeOK
  <2>2. Pushed(c, conn[c])
    BY <1>1, <1>3, <2>1, Pushes
  <2>3. ASSUME NEW l \in Loops, c \in active'[l]
        PROVE  conn[c].state \in {"kConnected", "kDisconnecting"} /\ ~conn[c].failed
    BY <1>1, <1>2, <2>3 DEF Rounds, Running
  <2> QED BY <1>2, <1>3, <1>4, <1>5, <2>1, <2>2, <2>3, MethodAct DEF Pushed
<1> QED BY <1>6, <1>7

(* and a loop that goes is between two rounds.                              *)
LEMMA LoopLeft ==
  ASSUME TypeOK, NEW l \in Loops, DestroyLoop(l)
  PROVE  /\ lpc' \in [Loops -> {"poll", "handle", "call", "left", "destroyed"}]
         /\ \A k \in Loops : /\ lpc'[k] # "handle" => lpc[k] # "handle"
                             /\ lpc'[k] # "call" => lpc[k] # "call"
         /\ lpc'[0] \in {"left", "destroyed"}
         /\ UNCHANGED <<acceptReady, active, revents, queueVars, serverVars, conn, addr, user>>
<1>1. /\ lpc[0] \in {"poll", "left"} /\ (l = 0 \/ lpc[l] = "poll")
      /\ lpc' = [lpc EXCEPT ![0] = "left", ![l] = "destroyed"]
      /\ UNCHANGED <<acceptReady, active, revents, queueVars, serverVars, conn, addr, user>>
  BY DEF DestroyLoop, Left
<1>2. 0 \in Loops /\ lpc \in [Loops -> {"poll", "handle", "call", "left", "destroyed"}]
  BY LoopsAre DEF TypeOK
<1> QED BY <1>1, <1>2

LEMMA LoopLeftStep ==
  ASSUME Inv, NEW l \in Loops, DestroyLoop(l)
  PROVE  Inv'
<1>1. TypeOK /\ Records /\ Rounds /\ Work /\ Numbered
  BY DEF Inv
<1>2. /\ lpc' \in [Loops -> {"poll", "handle", "call", "left", "destroyed"}]
      /\ \A k \in Loops : /\ lpc'[k] # "handle" => lpc[k] # "handle"
                          /\ lpc'[k] # "call" => lpc[k] # "call"
      /\ UNCHANGED <<acceptReady, active, revents, queueVars, serverVars, conn, addr, user>>
  BY <1>1, LoopLeft
<1>3. TypeOK'
  BY <1>1, <1>2 DEF TypeOK
<1>4. Records' /\ Numbered' /\ Work'
  BY <1>1, <1>2 DEF Records, Accepted, Numbered, Work, Jobs, Entry
<1>5. Rounds'
  BY <1>1, <1>2 DEF Rounds, Accepted, Running
<1> QED BY <1>3, <1>4, <1>5 DEF Inv

-----------------------------------------------------------------------------
(* What a client does, and a socket that is refused, is about its peer.     *)
LEMMA PeersMake ==
  ASSUME TypeOK, NEW c \in Conns,
         Connect(c) \/ PeerSends(c) \/ PeerCloses(c) \/ PeerResets(c) \/ Refuse(c)
  PROVE  \E s \in Connections :
            /\ Keeps(s, conn[c], {"peer", "inbox", "error"})
            /\ Accepted(c) <=> s.peer \in {"open", "eof", "reset"}
            /\ conn' = [conn EXCEPT ![c] = s]
            /\ UNCHANGED <<lpc, active, revents, queueVars, serverVars, addr, user>>
            /\ acceptReady' \in BOOLEAN
<1>1. conn[c] \in Connections /\ acceptReady \in BOOLEAN
  BY DEF TypeOK
<1>2. CASE Connect(c) \/ PeerCloses(c) \/ Refuse(c)
  <2>1. PICK p \in {"waiting", "refused", "eof"} :
           /\ conn' = [conn EXCEPT ![c] = [conn[c] EXCEPT !.peer = p]]
           /\ Accepted(c) <=> p = "eof"
           /\ UNCHANGED <<lpc, active, revents, queueVars, serverVars, addr, user>>
           /\ acceptReady' \in BOOLEAN
    <3>1. CASE Connect(c)
      <4>1. /\ conn' = [conn EXCEPT ![c] = [conn[c] EXCEPT !.peer = "waiting"]]
            /\ ~Accepted(c) /\ acceptReady' = acceptReady
            /\ UNCHANGED <<lpc, active, revents, queueVars, serverVars, addr, user>>
        BY <3>1 DEF Connect, Accepted
      <4> QED BY <1>1, <4>1
    <3>2. CASE PeerCloses(c)
      <4>1. /\ conn' = [conn EXCEPT ![c] = [conn[c] EXCEPT !.peer = "eof"]]
            /\ Accepted(c) /\ acceptReady' = acceptReady
            /\ UNCHANGED <<lpc, active, revents, queueVars, serverVars, addr, user>>
        BY <3>2 DEF PeerCloses, Accepted
      <4> QED BY <1>1, <4>1
    <3>3. CASE Refuse(c)
      <4>1. /\ conn' = [conn EXCEPT ![c] = [conn[c] EXCEPT !.peer = "refused"]]
            /\ ~Accepted(c) /\ acceptReady' = FALSE
            /\ UNCHANGED <<lpc, active, revents, queueVars, serverVars, addr, user>>
        BY <3>3 DEF Refuse, Accepted
      <4> QED BY <4>1
    <3> QED BY <1>2, <3>1, <3>2, <3>3
  <2> DEFINE s == [conn[c] EXCEPT !.peer = p]
  <2>2. s \in Connections /\ s.peer = p /\ Keeps(s, conn[c], {"peer"})
    <3>1. p \in {"away", "waiting", "refused", "open", "eof", "reset"}
      OBVIOUS
    <3> QED BY <1>1, <3>1, SetPeer
  <2>3. conn' = [conn EXCEPT ![c] = s]
    BY <2>1
  <2> HIDE DEF s
  <2>4. Keeps(s, conn[c], {"peer", "inbox", "error"})
    BY <2>2 DEF Keeps
  <2> QED BY <2>1, <2>2, <2>3, <2>4
<1>3. CASE PeerSends(c)
  <2> DEFINE s == [conn[c] EXCEPT !.inbox = TRUE]
  <2>1. s \in Connections /\ Keeps(s, conn[c], {"inbox"})
    BY <1>1, SetInbox
  <2>2. /\ conn' = [conn EXCEPT ![c] = s] /\ conn[c].peer = "open"
        /\ UNCHANGED <<loopVars, queueVars, serverVars, addr, user>>
    BY <1>3 DEF PeerSends
  <2> HIDE DEF s
  <2>3. Keeps(s, conn[c], {"peer", "inbox", "error"}) /\ s.peer = "open" /\ Accepted(c)
    BY <2>1, <2>2 DEF Keeps, Accepted
  <2> QED BY <1>1, <2>1, <2>2, <2>3
<1>4. CASE PeerResets(c)
  <2> DEFINE a == [conn[c] EXCEPT !.peer = "reset"]
             s == [a EXCEPT !.error = TRUE]
  <2>1. a \in Connections /\ a.peer = "reset" /\ Keeps(a, conn[c], {"peer"})
    BY <1>1, SetPeer
  <2>2. /\ conn' = [conn EXCEPT ![c] = s] /\ conn[c].peer \in {"open", "eof"}
        /\ UNCHANGED <<loopVars, queueVars, serverVars, addr, user>>
    BY <1>4 DEF PeerResets
  <2> HIDE DEF a
  <2>3. s \in Connections /\ Keeps(s, a, {"error"})
    BY <2>1, SetError
  <2> HIDE DEF s
  <2>4. Keeps(s, conn[c], {"peer", "inbox", "error"}) /\ s.peer = "reset" /\ Accepted(c)
    BY <2>1, <2>2, <2>3 DEF Keeps, Accepted
  <2> QED BY <1>1, <2>2, <2>3, <2>4
<1> QED BY <1>2, <1>3, <1>4

(* It keeps the invariant.                                                  *)
LEMMA PeersStep ==
  ASSUME Inv, ~Aborted, NEW c \in Conns,
         Connect(c) \/ PeerSends(c) \/ PeerCloses(c) \/ PeerResets(c) \/ Refuse(c)
  PROVE  Inv'
<1>1. TypeOK
  BY DEF Inv
<1> QED BY <1>1, PeersMake, PeerAct

(* The invariant holds at the start,                                        *)
LEMMA InvInit == Init => Inv
<1> SUFFICES ASSUME Init PROVE Inv
  OBVIOUS
<1> USE DEF Init
<1>1. NewConnection \in Connections
  BY EmptySeq DEF NewConnection, Connections, States
<1>2. New(NewConnection) /\ ~NewConnection.failed /\ NewConnection.peer = "away"
  BY DEF New, Silent, NewConnection
<1>3. addr \in [Conns -> Addrs] /\ 0 \in Loops /\ threadNum \in Nat
  BY ClientsAssumption, ThreadsAssumption, LoopsAre
<1>4. TypeOK
  BY <1>1, <1>3, EmptySeq DEF TypeOK
<1>5. Records
  BY <1>1, <1>2, Phases DEF Records, Fresh
<1>6. \A l \in Loops : Jobs(l) = {} /\ InOrder(batch[l] \o pending[l])
  <2>1. <<>> \o <<>> = <<>> /\ Len(<<>>) = 0 /\ DOMAIN <<>> = {}
    BY EmptySeq, ConcatEmptySeq
  <2> QED BY <2>1 DEF Jobs, Items, InOrder
<1>7. Rounds /\ Work
  BY <1>6 DEF Rounds, Work
<1>8. Numbered
  BY <1>3, FS_EmptySet DEF Numbered
<1> QED BY <1>4, <1>5, <1>7, <1>8 DEF Inv

(* and every step of the server keeps it.                                   *)
LEMMA InvStep == Inv /\ [Next]_vars => Inv'
<1> SUFFICES ASSUME Inv, [Next]_vars PROVE Inv'
  OBVIOUS
<1>1. CASE UNCHANGED vars
  BY <1>1 DEF vars, Inv, TypeOK, Records, Rounds, Work, Numbered, Accepted, Jobs, Entry, Running
<1>2. CASE Next
  <2>1. ~Aborted /\ Step
    BY <1>2 DEF Next
  <2>2. CASE \E c \in Conns : Connect(c) \/ PeerSends(c) \/ PeerCloses(c) \/ PeerResets(c)
    BY <2>1, <2>2, PeersStep
  <2>3. ASSUME NEW l \in Loops, LoopStep(l) PROVE Inv'
    <3>1. CASE Poll(l)
      BY <2>1, <3>1, PollStep
    <3>2. CASE SwapPending(l)
      BY <2>1, <3>2, SwapStep
    <3>3. CASE EndBatch(l)
      BY <2>1, <3>3, EndStep
    <3>4. CASE \E c \in Conns : Handle(l, c)
      BY <2>1, <3>4, HandleStep
    <3>5. CASE CallEstablished(l)
      BY <2>1, <3>5, EstablishedStep
    <3>6. CASE CallDestroyed(l)
      BY <2>1, <3>6, DestroyedStep
    <3>7. CASE CallForceClose(l)
      BY <2>1, <3>7, ForceCloseStep
    <3>8. CASE CallRemove
      BY <2>1, <3>8, RemoveStep
    <3>9. CASE \E c \in Conns : Accept(c) \/ Refuse(c)
      BY <2>1, <3>9, AcceptStep, PeersStep
    <3> QED BY <2>3, <3>1, <3>2, <3>3, <3>4, <3>5, <3>6, <3>7, <3>8, <3>9 DEF LoopStep
  <2>4. CASE \E c \in Conns : DestroyServer(c)
    BY <2>1, <2>4, ServerStep
  <2>5. CASE \E l \in Loops : DestroyLoop(l)
    BY <2>5, LoopLeftStep
  <2> QED BY <2>1, <2>2, <2>3, <2>4, <2>5 DEF Step
<1> QED BY <1>1, <1>2 DEF Next

(* It holds of the server.                                                  *)
LEMMA Invariant == Spec => []Inv
<1> QED BY InvInit, InvStep, PTL DEF Spec

(* Every variable of the server has its type.                               *)
THEOREM TypeCorrect == Spec => []TypeOK
<1>1. Inv => TypeOK
  BY DEF Inv
<1> QED BY <1>1, Invariant, PTL

(* The poller, the channels and epoll agree on every connection, on any     *)
(* number of loops, and a closed connection is never left in epoll.         *)
THEOREM EpollAgrees == Spec => []RegistrationAgrees
<1>1. Inv => RegistrationAgrees
  <2> SUFFICES ASSUME Inv, ~Aborted, NEW c \in Conns
               PROVE  LET r == conn[c]
                      IN  IF r.index = 1
                          THEN r.polled /\ r.interest = r.events /\ r.events # {}
                          ELSE ~r.polled /\ r.events = {}
    BY DEF RegistrationAgrees
  <2>1. New(conn[c]) \/ Up(conn[c]) \/ Down(conn[c])
    BY PhaseOf DEF Inv, Records, Sound
  <2> QED BY <2>1 DEF New, Up, Down, Silent, Polling
<1> QED BY <1>1, Invariant, PTL

(* The user of the server sees each connection come up once, its messages,  *)
(* and its end once, whatever the loops, the clients and ~TcpServer do.     *)
THEOREM CallbacksInOrder == Spec => []CallbackOrder
<1>1. Inv => CallbackOrder
  BY DEF Inv, Records, Sound, OrderedLog, CallbackOrder
<1> QED BY <1>1, Invariant, PTL

(* The write side of a connection is shut down on an empty buffer.          *)
THEOREM OutputFirst == Spec => []OutputBeforeShutdown
<1>1. Inv => OutputBeforeShutdown
  BY DEF Inv, Records, Sound, OutputBeforeShutdown
<1> QED BY <1>1, Invariant, PTL

-----------------------------------------------------------------------------
(* Whose the connections are.                                               *)

(* The functors still to call.                                              *)
Todo == UNION {Jobs(l) : l \in Loops}

(* A batch holds the connections of the functors it called, each on its     *)
(* loop or on the base loop, and lets them go with the batch.               *)
Turns ==
    /\ \A t \in Threads : user[t] = Idle
    /\ \A l \in Loops : lpc[l] # "call" => called[l] = {}
    /\ \A l \in Loops : \A c \in called[l] : Accepted(c) /\ (l = 0 \/ l = io[c])

(* Names of the map.                                                        *)
Named ==
    /\ \A c \in connections : id[c] <= nextConnId
    /\ \A c, d \in connections : Name(c) = Name(d) => c = d
    /\ \A c \in replaced : threadNum = 0 /\ conn[c].peer = "reset"

(* An address serves one connection at a time.                              *)
Served == {"waiting", "open", "eof"}

Addresses ==
    \A c, d \in Conns :
       c # d /\ addr[c] = addr[d] /\ conn[c].peer \in Served /\ conn[d].peer \in Served
          => Dead(c) \/ Dead(d)

(* A connection that was accepted is on its way to be established.          *)
Awaited ==
    \A c \in Conns : Accepted(c) /\ conn[c].state = "kConnecting"
                        => Functor("connectEstablished", c) \in Todo

(* Until ~TcpServer, only closed connections are torn down.                 *)
Torn ==
    ~Gone \/ threadNum = 0 =>
       \A c \in Conns : Functor("connectDestroyed", c) \in Todo
                           => conn[c].state = "kDisconnected"

(* The map keeps a connection until it is closed, and what was taken off it *)
(* is torn down; an assert fails only on a connection that ~TcpServer tears *)
(* down while it is closing.  All of it as long as no entry was replaced.   *)
Keeping(c) ==
    /\ conn[c].failed => Gone /\ conn[c].state = "kDisconnecting"
    /\ Accepted(c) /\ ~Gone /\ conn[c].state # "kDisconnected" => c \in connections
    /\ Functor("removeConnectionInLoop", c) \in Todo /\ ~Gone => c \in connections
    /\ Accepted(c) /\ ~conn[c].failed /\ ~Destructible(conn[c])
          => c \in connections \/ Functor("connectDestroyed", c) \in Todo

Kept == replaced = {} => \A c \in Conns : Keeping(c)

(* A server without loops of its own: between rounds its queue has nothing  *)
(* but connections to tear down, and an event is of a connection of the map.*)
Single ==
    threadNum = 0 =>
       /\ lpc[0] \in {"poll", "call"} =>
             \A f \in Items(pending[0]) : f.call = "connectDestroyed"
       /\ \A c \in active[0] : \A f \in Todo : f.conn # c
       /\ active[0] \ replaced \subseteq connections

(* The invariant of the map and of who refers to what.                      *)
Safe == Turns /\ Named /\ Addresses /\ Awaited /\ Torn /\ Kept /\ Single

-----------------------------------------------------------------------------
(* A functor to call holds its connection, but for one that a loop took     *)
(* along when it was destroyed.                                             *)
LEMMA InJobs ==
  ASSUME NEW l \in Loops, NEW f \in Jobs(l), HoldsConn(f),
         lpc[l] # "destroyed" \/ f \in Items(batch[l])
  PROVE  Referenced(f.conn)
<1>1. \/ InQueue(f.conn, batch[l])
      \/ InQueue(f.conn, pending[l]) /\ lpc[l] # "destroyed"
  BY DEF Jobs, Items, InQueue
<1> QED BY <1>1 DEF Referenced

(* What may refer to a connection that no thread of the user holds, and     *)
(* does as long as no loop was destroyed.                                   *)
Holds(c) == \/ c \in connections
            \/ \E l \in Loops : c \in called[l]
            \/ \E f \in Todo : f.conn = c

Held == \A c \in Conns : Referenced(c) => Holds(c)

Referrers == \A c \in Conns : Referenced(c) <=> Holds(c)

(* What refers to a connection: the map, a batch, or a functor to call.     *)
LEMMA HeldBy == TypeOK /\ Work /\ Turns => Held
<1> SUFFICES ASSUME TypeOK, Work, Turns, NEW c \in Conns, Referenced(c)
             PROVE  Holds(c)
  BY DEF Held
<1>1. \A t \in Threads : user[t] \notin Functors
  BY DEF Turns, Idle, Functors, FunctorNames
<1>2. ASSUME NEW l \in Loops, InQueue(c, pending[l]) \/ InQueue(c, batch[l])
      PROVE  \E f \in Todo : f.conn = c
  <2>1. \E f \in Jobs(l) : f.conn = c
    BY <1>2 DEF InQueue, Jobs, Items
  <2> QED BY <2>1 DEF Todo
<1> QED BY <1>1, <1>2 DEF Referenced, Holds

LEMMA Holders == TypeOK /\ Work /\ Turns /\ ~Aborted => Referrers
<1> SUFFICES ASSUME TypeOK, Work, Turns, ~Aborted, NEW c \in Conns
             PROVE  Referenced(c) <=> Holds(c)
  BY DEF Referrers
<1>1. ASSUME NEW f \in Todo PROVE Referenced(f.conn)
  <2>1. PICK l \in Loops : f \in Jobs(l)
    BY DEF Todo
  <2>2. HoldsConn(f) /\ lpc[l] # "destroyed"
    BY <2>1 DEF Work, Entry, HoldsConn, Aborted
  <2> QED BY <2>1, <2>2, InJobs
<1>2. Referenced(c) => Holds(c)
  BY HeldBy DEF Held
<1> QED BY <1>1, <1>2 DEF Referenced, Holds

(* The first of them after a step.                                          *)
LEMMA HoldersNext == (TypeOK /\ Work /\ Turns)' => Held'
<1> QED BY HeldBy, PTL

-----------------------------------------------------------------------------
(* A connection nobody refers to is not found again, so an address it left  *)
(* is not served twice.                                                     *)
LEMMA AddressesKept ==
  ASSUME TypeOK /\ Work /\ Turns, (TypeOK /\ Work /\ Turns)', Addresses, addr' = addr,
         \A d \in Conns : /\ conn'[d].peer \in Served => conn[d].peer \in Served
                          /\ Accepted(d) => Accepted(d)'
                          /\ Accepted(d) /\ d \in connections' => Referenced(d),
         \A l \in Loops : \A d \in called'[l] : Referenced(d),
         \A f \in Todo' : Accepted(f.conn) => Referenced(f.conn)
  PROVE  Addresses'
<1>1. Held'
  BY HoldersNext
<1>2. ASSUME NEW d \in Conns, Dead(d) PROVE Dead(d)'
  <2>1. Accepted(d) /\ ~Referenced(d) /\ Accepted(d)'
    BY <1>2 DEF Dead
  <2>2. ~(Referenced(d)')
    BY <1>1, <2>1 DEF Held, Holds
  <2> QED BY <2>1, <2>2 DEF Dead
<1> QED BY <1>2 DEF Addresses

(* One functor called, one functor queued. *)
LEMMA TodoStep ==
  ASSUME TypeOK, NEW D, NEW N,
         \/ UNCHANGED batch
         \/ \E l \in Loops : /\ batch[l] # <<>> /\ batch' = [batch EXCEPT ![l] = Tail(@)]
                             /\ First(l) \in D,
         \/ UNCHANGED pending /\ N = {}
         \/ \E l \in Loops, f \in Functors :
               pending' = [pending EXCEPT ![l] = Append(@, f)] /\ N = {f}
  PROVE  /\ Todo \ D \subseteq Todo' /\ Todo' \subseteq Todo \cup N /\ N \subseteq Todo'
         /\ \A l \in Loops : /\ Items(pending'[l]) \subseteq Items(pending[l]) \cup N
                             /\ Items(batch'[l]) \subseteq Items(batch[l])
<1>1. ASSUME NEW l \in Loops
      PROVE  /\ Items(batch'[l]) \subseteq Items(batch[l])
             /\ Items(batch[l]) \ D \subseteq Items(batch'[l])
  <2>1. CASE batch'[l] = batch[l]
    BY <2>1
  <2>2. CASE batch[l] # <<>> /\ batch'[l] = Tail(batch[l]) /\ First(l) \in D
    <3>1. batch[l] \in Seq(Functors)
      BY DEF TypeOK
    <3>2. Items(batch[l]) = {Head(batch[l])} \cup Items(Tail(batch[l]))
      BY <2>2, <3>1, ItemsOfTail
    <3> QED BY <2>2, <3>2 DEF First
  <2> QED BY <2>1, <2>2 DEF TypeOK
<1>2. ASSUME NEW l \in Loops
      PROVE  /\ Items(pending'[l]) \subseteq Items(pending[l]) \cup N
             /\ Items(pending[l]) \subseteq Items(pending'[l])
  <2>1. CASE pending'[l] = pending[l]
    BY <2>1
  <2>2. ASSUME NEW f \in Functors, pending'[l] = Append(pending[l], f), N = {f}
        PROVE  /\ Items(pending'[l]) \subseteq Items(pending[l]) \cup N
               /\ Items(pending[l]) \subseteq Items(pending'[l])
    <3>1. pending[l] \in Seq(Functors)
      BY DEF TypeOK
    <3> QED BY <2>2, <3>1, ItemsOfAppend
  <2>3. CASE \E k \in Loops, f \in Functors :
               pending' = [pending EXCEPT ![k] = Append(@, f)] /\ N = {f}
    <3>1. PICK k \in Loops, f \in Functors :
               pending' = [pending EXCEPT ![k] = Append(@, f)] /\ N = {f}
      BY <2>3
    <3>2. pending'[l] = pending[l] \/ pending'[l] = Append(pending[l], f)
      BY <3>1 DEF TypeOK
    <3> QED BY <2>1, <2>2, <3>1, <3>2
  <2> QED BY <2>1, <2>3
<1>3. N \subseteq Todo'
  <2>1. CASE \E l \in Loops, f \in Functors :
               pending' = [pending EXCEPT ![l] = Append(@, f)] /\ N = {f}
    <3>1. PICK l \in Loops, f \in Functors :
               pending' = [pending EXCEPT ![l] = Append(@, f)] /\ N = {f}
      BY <2>1
    <3>2. pending[l] \in Seq(Functors) /\ pending'[l] = Append(pending[l], f)
      BY <3>1 DEF TypeOK
    <3>3. f \in Items(pending'[l])
      BY <3>2, ItemsOfAppend
    <3> QED BY <3>1, <3>3 DEF Todo, Jobs
  <2> QED BY <2>1
<1>4. Todo \ D \subseteq Todo'
  BY <1>1, <1>2 DEF Todo, Jobs
<1>5. Todo' \subseteq Todo \cup N
  BY <1>1, <1>2 DEF Todo, Jobs
<1> QED BY <1>1, <1>2, <1>3, <1>4, <1>5

(* What is left to call concerns connections that were accepted. *)
LEMMA TodoFacts ==
  ASSUME TypeOK, Work, NEW f \in Todo
  PROVE  /\ f \in Functors /\ f.conn \in Conns /\ Accepted(f.conn)
         /\ f.call = "removeConnectionInLoop" => conn[f.conn].state = "kDisconnected"
         /\ f.call = "connectEstablished" => conn[f.conn].state = "kConnecting"
         /\ f.call = "connectEstablished" => io[f.conn] # 0
<1>1. PICK l \in Loops : f \in Jobs(l)
  BY DEF Todo
<1>2. Entry(l, f) /\ f \in Functors
  BY <1>1, JobsType DEF Work
<1> QED BY <1>2 DEF Entry, Functors

(* A method of c ran, in a channel event or in a functor that was called,   *)
(* and made s of c; D is what was called for it and N what was queued.      *)
Ran(c, s, D, N) ==
    /\ Accepted(c) /\ Referenced(c)
    /\ s \in Connections /\ s.peer = conn[c].peer /\ conn' = [conn EXCEPT ![c] = s]
    /\ \A f \in D \cup N : f.conn = c
    /\ Todo \ D \subseteq Todo' /\ Todo' \subseteq Todo \cup N
    /\ \A l \in Loops : Items(pending'[l]) \subseteq Items(pending[l]) \cup N
    /\ threadNum = 0 /\ lpc[0] # "handle" => \A f \in N : f.call = "connectDestroyed"
    /\ connections' \subseteq connections
    /\ replaced = {} \/ (threadNum = 0 /\ active'[0] # {})
          => connections \ {c} \subseteq connections'
    /\ \A l \in Loops : active'[l] \subseteq active[l] \ {c}
    /\ \A l \in Loops : \A d \in called'[l] :
          \/ d \in called[l]
          \/ d = c /\ lpc[l] = "call" /\ (l = 0 \/ l = io[c])
    /\ UNCHANGED <<lpc, threadNum, nextConnId, id, io, replaced, addr, user>>

(* What a method must answer for to keep the server safe: the connection it *)
(* ran on; the others are as they were.                                     *)
LEMMA MethodSafe ==
  ASSUME Inv, Inv', Safe, ~Aborted, NEW c \in Conns, NEW s, NEW D, NEW N, Ran(c, s, D, N),
         s.state = "kConnecting" => Functor("connectEstablished", c) \in Todo',
         Functor("connectDestroyed", c) \in Todo' /\ (~Gone \/ threadNum = 0)
            => s.state = "kDisconnected",
         replaced = {} => Keeping(c)'
  PROVE  Safe'
<1> USE DEF Ran
<1>1. TypeOK /\ Records /\ Rounds /\ Work /\ Numbered
  BY DEF Inv
<1>2. Turns /\ Named /\ Addresses /\ Awaited /\ Torn /\ Kept /\ Single
  BY DEF Safe
<1>3. conn'[c] = s /\ \A d \in Conns \ {c} : conn'[d] = conn[d]
  BY <1>1 DEF TypeOK
<1>4. (Gone' <=> Gone) /\ (TypeOK /\ Work)'
  BY DEF Gone, Inv
<1>5. \A d \in Conns : conn'[d].peer = conn[d].peer /\ (Accepted(d)' <=> Accepted(d))
  BY <1>3 DEF Accepted
<1>6. \A d \in Conns \ {c}, f \in FunctorNames : Functor(f, d) \in Todo' <=> Functor(f, d) \in Todo
  BY DEF Functor
<1>7. Turns'
  <2>1. ASSUME NEW l \in Loops, lpc'[l] # "call" PROVE called'[l] = {}
    BY <1>2, <2>1 DEF Turns
  <2>2. ASSUME NEW l \in Loops, NEW d \in called'[l]
        PROVE  Accepted(d)' /\ (l = 0 \/ l = io'[d])
    <3>1. Accepted(d) /\ d \in Conns /\ (l = 0 \/ l = io[d])
      BY <1>1, <1>2, <2>2 DEF Turns, TypeOK
    <3> QED BY <1>5, <3>1
  <2> QED BY <1>2, <2>1, <2>2 DEF Turns
<1>8. Named'
  <2>1. \A d \in replaced' : threadNum' = 0 /\ conn'[d].peer = "reset"
    BY <1>1, <1>2, <1>5 DEF Named, TypeOK
  <2> QED BY <1>2, <2>1 DEF Named, Name
<1>9. Addresses'
  <2>1. Referrers
    BY <1>1, <1>2, Holders
  <2>2. \A d \in Conns : d \in connections' => Referenced(d)
    BY <2>1 DEF Referrers, Holds
  <2>3. ASSUME NEW l \in Loops, NEW d \in called'[l] PROVE Referenced(d)
    <3>1. CASE d \in called[l]
      <4>1. d \in Conns
        BY <1>1, <3>1 DEF TypeOK
      <4> QED BY <2>1, <3>1, <4>1 DEF Referrers, Holds
    <3>2. CASE d = c
      BY <3>2
    <3> QED BY <3>1, <3>2
  <2>4. \A f \in Todo' : Referenced(f.conn)
    BY <1>1, <2>1, TodoFacts DEF Referrers, Holds
  <2> QED BY <1>1, <1>2, <1>4, <1>5, <1>7, <2>2, <2>3, <2>4, AddressesKept
<1>10. Awaited'
  BY <1>2, <1>3, <1>5, <1>6 DEF Awaited, FunctorNames
<1>11. Torn'
  BY <1>2, <1>3, <1>4, <1>6 DEF Torn, FunctorNames
<1>12. Kept'
  <2> SUFFICES ASSUME replaced = {}, NEW d \in Conns \ {c} PROVE Keeping(d)'
    BY DEF Kept
  <2>1. Keeping(d)
    BY <1>2 DEF Kept
  <2>2. d \in connections' <=> d \in connections
    OBVIOUS
  <2>3. /\ Functor("removeConnectionInLoop", d) \in Todo' <=> Functor("removeConnectionInLoop", d) \in Todo
        /\ Functor("connectDestroyed", d) \in Todo' <=> Functor("connectDestroyed", d) \in Todo
    BY <1>6 DEF FunctorNames
  <2>4. conn'[d] = conn[d] /\ (Accepted(d)' <=> Accepted(d))
    BY <1>3, <1>5
  <2> QED BY <1>4, <2>1, <2>2, <2>3, <2>4 DEF Keeping, Destructible
<1>13. Single'
  <2> SUFFICES ASSUME threadNum = 0
               PROVE  /\ lpc[0] \in {"poll", "call"} =>
                            \A f \in Items(pending'[0]) : f.call = "connectDestroyed"
                      /\ \A d \in active'[0] : \A f \in Todo' : f.conn # d
                      /\ active'[0] \ replaced \subseteq connections'
    BY DEF Single
  <2>1. 0 \in Loops
    BY LoopsAre
  <2> QED BY <1>2, <2>1 DEF Single
<1> QED BY <1>7, <1>8, <1>9, <1>10, <1>11, <1>12, <1>13 DEF Safe

(* A connection that is up is referred to, has not been removed, and is torn *)
(* down by ~TcpServer only.                                                 *)
LEMMA RunningFacts ==
  ASSUME Inv, Safe, ~Aborted, NEW c \in Conns, Accepted(c), Running(c)
  PROVE  /\ Referenced(c)
         /\ replaced = {} => /\ ~Gone => c \in connections
                             /\ c \in connections \/ Functor("connectDestroyed", c) \in Todo
         /\ Functor("connectDestroyed", c) \in Todo => Gone /\ threadNum # 0
         /\ Functor("removeConnectionInLoop", c) \notin Todo
         /\ Functor("connectEstablished", c) \notin Todo
<1>1. TypeOK /\ Work /\ Torn /\ Kept
  BY DEF Inv, Safe
<1>2. ~Destructible(conn[c]) /\ conn[c].state \notin {"kDisconnected", "kConnecting"}
  BY DEF Running, Destructible
<1>3. Referenced(c) /\ ~conn[c].failed
  BY <1>2 DEF Aborted, AssertFails, Dead
<1>4. replaced = {} => Keeping(c)
  BY <1>1 DEF Kept
<1>5. Functor("connectDestroyed", c) \in Todo => Gone /\ threadNum # 0
  BY <1>1, <1>2 DEF Torn
<1>6. Functor("removeConnectionInLoop", c) \notin Todo /\ Functor("connectEstablished", c) \notin Todo
  BY <1>1, <1>2, TodoFacts DEF Functor
<1> QED BY <1>2, <1>3, <1>4, <1>5, <1>6 DEF Keeping

(* A method that leaves the connection open, or as it was, is safe.         *)
LEMMA StaysSafe ==
  ASSUME Inv, Inv', Safe, ~Aborted, NEW c \in Conns, NEW s, NEW D, NEW N, Ran(c, s, D, N),
         D \cup N \subseteq {Functor("forceCloseInLoop", c)},
         connections' = connections,
         \/ Running(c) /\ s.state \in {"kConnected", "kDisconnecting"} /\ ~s.failed
         \/ s = conn[c]
  PROVE  Safe'
<1>1. TypeOK /\ Awaited /\ Torn /\ Kept /\ ~conn[c].failed
  BY DEF Inv, Safe, Aborted, AssertFails
<1>2. /\ Accepted(c) /\ s.peer = conn[c].peer /\ conn' = [conn EXCEPT ![c] = s]
      /\ Todo \ D \subseteq Todo' /\ Todo' \subseteq Todo \cup N
      /\ UNCHANGED <<lpc, threadNum, replaced>>
  BY DEF Ran
<1>3. conn'[c] = s /\ (Accepted(c)' <=> Accepted(c)) /\ (Gone' <=> Gone)
  BY <1>1, <1>2 DEF TypeOK, Accepted, Gone
<1>4. \A f \in {"connectEstablished", "connectDestroyed", "removeConnectionInLoop"} :
         Functor(f, c) \in Todo' <=> Functor(f, c) \in Todo
  BY <1>2 DEF Functor
<1>5. s.state = "kConnecting" => Functor("connectEstablished", c) \in Todo'
  BY <1>1, <1>2, <1>4 DEF Awaited
<1>6. Functor("connectDestroyed", c) \in Todo' /\ (~Gone \/ threadNum = 0)
         => s.state = "kDisconnected"
  BY <1>1, <1>2, <1>4, RunningFacts DEF Torn
<1>7. replaced = {} => Keeping(c)'
  <2>1. CASE s = conn[c]
    BY <1>1, <1>2, <1>3, <1>4, <2>1 DEF Kept, Keeping
  <2>2. CASE Running(c) /\ s.state \in {"kConnected", "kDisconnecting"} /\ ~s.failed
    BY <1>2, <1>3, <1>4, <2>2, RunningFacts DEF Keeping
  <2> QED BY <2>1, <2>2
<1> QED BY <1>5, <1>6, <1>7, MethodSafe

(* A method that closes the connection has it removed, from the map it is   *)
(* still in.                                                                *)
LEMMA ClosesSafe ==
  ASSUME Inv, Inv', Safe, ~Aborted, NEW c \in Conns, Accepted(c), Running(c),
         NEW r \in Connections, r.peer = conn[c].peer, r.state = "kDisconnected", ~r.failed,
         removeConnection(c, r),
         lpc[io[c]] \notin {"left", "destroyed"},
         threadNum = 0 /\ active'[0] # {} => c \in connections,
         NEW D, D \subseteq {Functor("forceCloseInLoop", c)},
         \/ UNCHANGED batch
         \/ \E l \in Loops : /\ batch[l] # <<>> /\ batch' = [batch EXCEPT ![l] = Tail(@)]
                             /\ First(l) \in D,
         \A l \in Loops : active'[l] \subseteq active[l] \ {c},
         \A l \in Loops : \A d \in called'[l] :
            \/ d \in called[l]
            \/ d = c /\ lpc[l] = "call" /\ (l = 0 \/ l = io[c]),
         UNCHANGED <<lpc, threadNum, nextConnId, id, io, replaced, addr, user>>
  PROVE  Safe'
<1>1. TypeOK /\ Named /\ Kept /\ Numbered /\ ~conn[c].failed
  BY DEF Inv, Safe, Aborted, AssertFails
<1>2. Gone' <=> Gone
  BY DEF Gone
<1>3. \A f \in D : f.conn = c /\ f.call = "forceCloseInLoop"
  BY DEF Functor
<1>4. CASE io[c] = 0
  <2> DEFINE s == Assert(r, Erased(c) # connections)
             f == Functor("connectDestroyed", c)
  <2>1. /\ conn' = [conn EXCEPT ![c] = s] /\ connections' = Erased(c)
        /\ pending' = [pending EXCEPT ![0] = Append(@, f)]
    BY <1>4 DEF removeConnection, queueInLoop
  <2>2. /\ s \in Connections /\ Keeps(s, r, {"failed"})
        /\ s.failed <=> Erased(c) = connections
    BY AssertProperties
  <2>3. /\ 0 \in Loops /\ f \in Functors /\ f.conn = c /\ f.call = "connectDestroyed"
        /\ Functor("removeConnectionInLoop", c) # f
    BY LoopsAre DEF Functor, Functors, FunctorNames
  <2> HIDE DEF s, f
  <2>4. /\ Todo \ D \subseteq Todo' /\ Todo' \subseteq Todo \cup {f} /\ f \in Todo'
        /\ \A l \in Loops : Items(pending'[l]) \subseteq Items(pending[l]) \cup {f}
    <3>1. \E l \in Loops, g \in Functors :
             pending' = [pending EXCEPT ![l] = Append(@, g)] /\ {f} = {g}
      BY <2>1, <2>3
    <3> QED BY <1>1, <3>1, TodoStep
  <2>5. /\ s.peer = conn[c].peer /\ s.state = "kDisconnected"
    BY <2>2 DEF Keeps
  <2>6. ~Gone
    BY <1>4 DEF Gone
  <2>7. c \in connections => /\ connections \ {c} \subseteq connections'
                             /\ Erased(c) # connections
    BY <1>1, <2>1 DEF Named, Erased
  <2>8. replaced = {} => c \in connections
    BY <2>6, RunningFacts
  <2>9. replaced = {} => Keeping(c)'
    <3> SUFFICES ASSUME replaced = {} PROVE Keeping(c)'
      OBVIOUS
    <3>1. conn'[c] = s /\ ~s.failed
      BY <1>1, <2>1, <2>2, <2>7, <2>8 DEF TypeOK
    <3>2. Functor("removeConnectionInLoop", c) \notin Todo'
      BY <2>3, <2>4, RunningFacts
    <3>3. Functor("connectDestroyed", c) \in Todo'
      BY <2>4 DEF f
    <3> QED BY <2>5, <3>1, <3>2, <3>3 DEF Keeping
  <2>10. connections' \subseteq connections
    BY <2>1 DEF Erased
  <2>11. \A g \in D \cup {f} : g.conn = c
    BY <1>3, <2>3
  <2>12. Ran(c, s, D, {f})
    BY <2>1, <2>2, <2>3, <2>4, <2>5, <2>7, <2>8, <2>10, <2>11, RunningFacts DEF Ran
  <2> QED BY <2>5, <2>9, <2>12, MethodSafe
<1>5. CASE io[c] # 0
  <2> DEFINE f == Functor("removeConnectionInLoop", c)
  <2>1. /\ conn' = [conn EXCEPT ![c] = r] /\ connections' = connections
        /\ pending' = [pending EXCEPT ![0] = Append(@, f)]
    BY <1>5 DEF removeConnection, queueInLoop
  <2>3. 0 \in Loops /\ f \in Functors /\ f.conn = c /\ f.call = "removeConnectionInLoop"
    BY LoopsAre DEF Functor, Functors, FunctorNames
  <2>4. Functor("connectDestroyed", c) # f
    BY DEF Functor
  <2> HIDE DEF f
  <2>5. /\ Todo \ D \subseteq Todo' /\ Todo' \subseteq Todo \cup {f} /\ f \in Todo'
        /\ \A l \in Loops : Items(pending'[l]) \subseteq Items(pending[l]) \cup {f}
    <3>1. \E l \in Loops, g \in Functors :
             pending' = [pending EXCEPT ![l] = Append(@, g)] /\ {f} = {g}
      BY <2>1, <2>3
    <3> QED BY <1>1, <3>1, TodoStep
  <2>6. replaced = {} => Keeping(c)'
    <3> SUFFICES ASSUME replaced = {} PROVE Keeping(c)'
      OBVIOUS
    <3>1. conn'[c] = r
      BY <1>1, <2>1 DEF TypeOK
    <3>2. Functor("connectDestroyed", c) \in Todo => Functor("connectDestroyed", c) \in Todo'
      BY <1>3, <2>5 DEF Functor
    <3> QED BY <1>2, <2>1, <3>1, <3>2, RunningFacts DEF Keeping
  <2>7. threadNum # 0
    BY <1>1, <1>5 DEF Numbered
  <2>8. \A g \in D \cup {f} : g.conn = c
    BY <1>3, <2>3
  <2>9. Ran(c, r, D, {f})
    BY <2>1, <2>3, <2>5, <2>7, <2>8, RunningFacts DEF Ran
  <2> QED BY <2>6, <2>9, MethodSafe
<1> QED BY <1>4, <1>5

(* A channel event is safe; on a server with no loops of its own, it is so  *)
(* because a connection with an event is in the map or already dead.        *)
LEMMA HandleSafe ==
  ASSUME Inv, Inv', Safe, ~Aborted, NEW l \in Loops, NEW c \in Conns, Handle(l, c)
  PROVE  Safe'
<1>1. TypeOK /\ Records /\ Rounds /\ Work /\ Numbered /\ Turns /\ Single
  BY DEF Inv, Safe
<1>2. /\ lpc[l] = "handle" /\ c \in active[l]
      /\ active' = [active EXCEPT ![l] = @ \ {c}]
      /\ UNCHANGED <<lpc, batch, called, threadNum, nextConnId, id, io, replaced, addr, user>>
  BY DEF Handle
<1>3. Accepted(c) /\ io[c] = l /\ Running(c) /\ Up(conn[c]) /\ conn[c] \in Connections
      /\ ~conn[c].failed
  BY <1>1, <1>2, PhaseOf DEF Rounds
<1>4. PICK react \in Reactions, n \in 1..Chunk :
         LET r == handleEvent(conn[c], revents[c], react, Chunk, n)
         IN  IF Forces(c, react)
             THEN /\ conn' = [conn EXCEPT ![c] = r]
                  /\ pending' = queueInLoop(l, "forceCloseInLoop", c)
                  /\ UNCHANGED connections
             ELSE After(c, r)
  BY DEF Handle
<1> DEFINE r == handleEvent(conn[c], revents[c], react, Chunk, n)
<1>5. /\ r \in Connections /\ r.peer = conn[c].peer /\ ~r.failed
      /\ r.state \in {"kConnected", "kDisconnecting", "kDisconnected"}
      /\ conn[c].inbox /\ "IN" \in revents[c] => r.state # "kDisconnected"
  <2>1. Chunk \in Nat /\ n \in Nat
    BY DEF Chunk
  <2>2. /\ Continues(r, conn[c]) /\ (Up(r) \/ Down(r))
        /\ conn[c].inbox /\ "IN" \in revents[c] => Up(r)
    BY <1>3, <2>1, Events
  <2> QED BY <1>3, <2>2 DEF Continues, Up, Down
<1>6. (Forces(c, react) /\ conn' = [conn EXCEPT ![c] = r]
          /\ pending' = queueInLoop(l, "forceCloseInLoop", c) /\ connections' = connections)
      \/ After(c, r)
  BY <1>4
<1>7. Forces(c, react) => r.state # "kDisconnected"
  BY <1>5 DEF Forces
<1> HIDE DEF r
<1>8. Referenced(c)
  BY <1>3, RunningFacts
<1>9. \A k \in Loops : active'[k] \subseteq active[k] \ {c}
  BY <1>1, <1>2, <1>3 DEF TypeOK, Rounds
<1>10. 0 \in Loops /\ (threadNum = 0 => l = 0)
  BY <1>1, <1>3, LoopsAre DEF Numbered
<1>11. threadNum = 0 => c \in connections
  <2> SUFFICES ASSUME threadNum = 0, c \notin connections PROVE FALSE
    OBVIOUS
  <2>1. \A k \in Loops : c \notin called[k]
    <3>1. \A k \in Loops : c \in called[k] => k = 0
      BY <1>1, <1>3, <1>10 DEF Turns
    <3> QED BY <1>1, <1>2, <1>10, <3>1 DEF Turns
  <2>2. \A f \in Todo : f.conn # c
    BY <1>1, <1>2, <1>10 DEF Single
  <2> QED BY <1>1, <1>8, <2>1, <2>2, Holders DEF Referrers, Holds
<1>12. ASSUME pending' = pending, connections' = connections,
              conn' = [conn EXCEPT ![c] = r], r.state # "kDisconnected"
       PROVE  Safe'
  <2>1. /\ Todo \ {} \subseteq Todo' /\ Todo' \subseteq Todo \cup {}
        /\ \A k \in Loops : Items(pending'[k]) \subseteq Items(pending[k]) \cup {}
    BY <1>2, <1>12 DEF Todo, Jobs
  <2>2. Ran(c, r, {}, {})
    BY <1>2, <1>3, <1>5, <1>8, <1>9, <1>12, <2>1 DEF Ran
  <2> QED BY <1>3, <1>5, <1>12, <2>2, StaysSafe
<1>13. CASE Forces(c, react) /\ conn' = [conn EXCEPT ![c] = r]
          /\ pending' = queueInLoop(l, "forceCloseInLoop", c) /\ connections' = connections
  <2> DEFINE f == Functor("forceCloseInLoop", c)
  <2>1. f \in Functors /\ f.conn = c /\ pending' = [pending EXCEPT ![l] = Append(@, f)]
    BY <1>13 DEF Functor, Functors, FunctorNames, queueInLoop
  <2> HIDE DEF f
  <2>2. /\ Todo \ {} \subseteq Todo' /\ Todo' \subseteq Todo \cup {f}
        /\ \A k \in Loops : Items(pending'[k]) \subseteq Items(pending[k]) \cup {f}
    <3>1. \E k \in Loops, g \in Functors :
             pending' = [pending EXCEPT ![k] = Append(@, g)] /\ {f} = {g}
      BY <2>1
    <3> QED BY <1>1, <1>2, <3>1, TodoStep
  <2>3. Ran(c, r, {}, {f})
    BY <1>2, <1>3, <1>5, <1>8, <1>9, <1>10, <1>11, <1>13, <2>1, <2>2 DEF Ran
  <2>4. {} \cup {f} \subseteq {Functor("forceCloseInLoop", c)}
    BY DEF f
  <2> QED BY <1>3, <1>5, <1>7, <1>13, <2>3, <2>4, StaysSafe
<1>14. CASE After(c, r)
  <2>1. CASE r.state = "kDisconnected"
    <3>1. removeConnection(c, r)
      BY <1>3, <1>14, <2>1 DEF After, Running
    <3>2. lpc[io[c]] \notin {"left", "destroyed"}
      BY <1>2, <1>3
    <3>3. \A k \in Loops : \A d \in called'[k] : d \in called[k]
      BY <1>2
    <3>4. UNCHANGED batch /\ {} \subseteq {Functor("forceCloseInLoop", c)}
      BY <1>2
    <3> HIDE DEF Running
    <3> QED BY <1>2, <1>3, <1>5, <1>9, <1>11, <2>1, <3>1, <3>2, <3>3, <3>4, ClosesSafe
  <2>2. CASE r.state # "kDisconnected"
    BY <1>12, <1>14, <2>2 DEF After
  <2> QED BY <2>1, <2>2
<1> QED BY <1>6, <1>13, <1>14

(* A functor that is called holds its connection.                           *)
LEMMA CallHolds ==
  ASSUME Inv, Safe, NEW l \in Loops, NEW f, Call(l, f), ~Aborted
  PROVE  LET c == First(l).conn IN
         /\ c \in Conns /\ First(l) = Functor(f, c) /\ First(l) \in Todo
         /\ Accepted(c) /\ Referenced(c)
         /\ IF f = "removeConnectionInLoop" THEN l = 0 ELSE l = io[c]
         /\ lpc[l] = "call" /\ batch[l] # <<>> /\ batch' = [batch EXCEPT ![l] = Tail(@)]
         /\ UNCHANGED <<lpc, active, threadNum, nextConnId, id, io, replaced, addr, user>>
         /\ \A k \in Loops : active'[k] \subseteq active[k] \ {c}
         /\ \A k \in Loops : \A d \in called'[k] :
               \/ d \in called[k]
               \/ d = c /\ lpc[k] = "call" /\ (k = 0 \/ k = io[c])
<1> DEFINE c == First(l).conn
<1>1. TypeOK /\ Rounds /\ Work /\ Turns
  BY DEF Inv, Safe
<1>2. /\ c \in Conns /\ First(l) = Functor(f, c) /\ First(l) \in Jobs(l) /\ Entry(l, First(l))
      /\ lpc[l] = "call" /\ batch[l] # <<>> /\ batch' = [batch EXCEPT ![l] = Tail(@)]
      /\ UNCHANGED <<loopVars, threadNum, nextConnId, id, io, replaced, addr, user>>
  BY CallFacts
<1>3. called' = [called EXCEPT ![l] =
                   IF HoldsConn(First(l)) THEN @ \cup {First(l).conn} ELSE @]
  BY DEF Call
<1> HIDE DEF c
<1>4. /\ Accepted(c)
      /\ IF f = "removeConnectionInLoop" THEN l = 0 ELSE l = io[c]
      /\ f = "removeConnectionInLoop" => conn[c].state = "kDisconnected"
  BY <1>2 DEF Entry, Functor
<1>5. First(l) \in Todo
  BY <1>2 DEF Todo
<1>6. Referenced(c)
  <2>1. First(l).conn = c
    BY DEF c
  <2> QED BY <1>1, <1>2, <1>5, <2>1, Holders DEF Referrers, Holds
<1>7. ASSUME NEW k \in Loops PROVE c \notin active[k]
  BY <1>1, <1>2, <1>4 DEF Rounds, Running
<1>8. \A k \in Loops : \A d \in called'[k] :
               \/ d \in called[k]
               \/ d = c /\ lpc[k] = "call" /\ (k = 0 \/ k = io[c])
  BY <1>1, <1>2, <1>3, <1>4 DEF TypeOK, c
<1> QED BY <1>2, <1>4, <1>5, <1>6, <1>7, <1>8 DEF c

(* connectEstablished is safe,                                              *)
LEMMA EstablishedSafe ==
  ASSUME Inv, Inv', Safe, ~Aborted, NEW l \in Loops, CallEstablished(l)
  PROVE  Safe'
<1>0. PICK c \in Conns : c = First(l).conn
  BY CallHolds DEF CallEstablished
<1>1. TypeOK /\ Records /\ Work /\ Torn /\ Kept
  BY DEF Inv, Safe
<1> DEFINE s == connectEstablished(conn[c])
<1>2. Call(l, "connectEstablished") /\ conn' = [conn EXCEPT ![c] = s]
      /\ UNCHANGED <<connections, pending>>
  BY <1>0 DEF CallEstablished
<1>3. /\ c \in Conns /\ First(l) = Functor("connectEstablished", c) /\ First(l) \in Todo
      /\ Accepted(c) /\ Referenced(c)
      /\ lpc[l] = "call" /\ batch[l] # <<>> /\ batch' = [batch EXCEPT ![l] = Tail(@)]
      /\ UNCHANGED <<lpc, active, threadNum, nextConnId, id, io, replaced, addr, user>>
      /\ \A k \in Loops : active'[k] \subseteq active[k] \ {c}
      /\ \A k \in Loops : \A d \in called'[k] :
            \/ d \in called[k]
            \/ d = c /\ lpc[k] = "call" /\ (k = 0 \/ k = io[c])
  BY <1>0, <1>2, CallHolds
<1>4. conn[c].state = "kConnecting"
  BY <1>1, <1>3, TodoFacts DEF Functor
<1>5. conn[c] \in Connections /\ New(conn[c]) /\ ~conn[c].failed
  BY <1>1, <1>3, <1>4, PhaseOf
<1>6. Continues(s, conn[c]) /\ s.state = "kConnected"
  BY <1>5, Established
<1>7. s \in Connections /\ s.peer = conn[c].peer /\ ~s.failed
  BY <1>5, <1>6 DEF Continues
<1> HIDE DEF s
<1>8. /\ Todo \ {First(l)} \subseteq Todo' /\ Todo' \subseteq Todo
      /\ \A k \in Loops : Items(pending'[k]) \subseteq Items(pending[k]) \cup {}
  <2>1. First(l) \in {First(l)} /\ UNCHANGED pending /\ {} = {}
    BY <1>2
  <2>2. \E k \in Loops : /\ batch[k] # <<>> /\ batch' = [batch EXCEPT ![k] = Tail(@)]
                         /\ First(k) \in {First(l)}
    BY <1>3
  <2>3. /\ Todo \ {First(l)} \subseteq Todo' /\ Todo' \subseteq Todo \cup {}
        /\ \A k \in Loops : Items(pending'[k]) \subseteq Items(pending[k]) \cup {}
    BY <1>1, <2>1, <2>2, TodoStep
  <2> QED BY <2>3
<1>9. Ran(c, s, {First(l)}, {})
  <2>1. \A f \in {First(l)} \cup {} : f.conn = c
    BY <1>0
  <2> QED BY <1>2, <1>3, <1>7, <1>8, <2>1 DEF Ran
<1>10. \A f \in {"connectDestroyed", "removeConnectionInLoop"} :
          Functor(f, c) \in Todo' <=> Functor(f, c) \in Todo
  BY <1>3, <1>8 DEF Functor
<1>11. Functor("connectDestroyed", c) \in Todo' => ~(~Gone \/ threadNum = 0)
  BY <1>1, <1>3, <1>4, <1>10 DEF Torn
<1>12. replaced = {} => Keeping(c)'
  <2> SUFFICES ASSUME replaced = {} PROVE Keeping(c)'
    OBVIOUS
  <2>1. Keeping(c) /\ ~Destructible(conn[c])
    BY <1>1, <1>3, <1>4 DEF Kept, Destructible
  <2>2. conn'[c] = s /\ (Gone' <=> Gone)
    BY <1>1, <1>2, <1>3 DEF TypeOK, Gone
  <2> QED BY <1>2, <1>3, <1>4, <1>5, <1>7, <1>10, <2>1, <2>2 DEF Keeping
<1> QED BY <1>3, <1>6, <1>9, <1>11, <1>12, MethodSafe

(* and connectDestroyed: it finds the connection closed, or is the work of  *)
(* ~TcpServer; it never comes before connectEstablished,                    *)
LEMMA DestroyedSafe ==
  ASSUME Inv, Inv', Safe, ~Aborted, NEW l \in Loops, CallDestroyed(l)
  PROVE  Safe'
<1>0. PICK c \in Conns : c = First(l).conn
  BY CallHolds DEF CallDestroyed
<1>1. TypeOK /\ Records /\ Work /\ Torn /\ Kept /\ Awaited
  BY DEF Inv, Safe
<1> DEFINE s == connectDestroyed(conn[c])
<1>2. Call(l, "connectDestroyed") /\ conn' = [conn EXCEPT ![c] = s]
      /\ UNCHANGED <<connections, pending>>
  BY <1>0 DEF CallDestroyed
<1>3. /\ c \in Conns /\ First(l) = Functor("connectDestroyed", c) /\ First(l) \in Todo
      /\ Accepted(c) /\ Referenced(c) /\ l = io[c]
      /\ lpc[l] = "call" /\ batch[l] # <<>> /\ batch' = [batch EXCEPT ![l] = Tail(@)]
      /\ UNCHANGED <<lpc, active, threadNum, nextConnId, id, io, replaced, addr, user>>
      /\ \A k \in Loops : active'[k] \subseteq active[k] \ {c}
      /\ \A k \in Loops : \A d \in called'[k] :
            \/ d \in called[k]
            \/ d = c /\ lpc[k] = "call" /\ (k = 0 \/ k = io[c])
  BY <1>0, <1>2, CallHolds
<1>4. /\ s \in Connections /\ s.peer = conn[c].peer
      /\ conn[c].state \in {"kConnecting", "kDisconnecting", "kDisconnected"}
            => s.state = conn[c].state
      /\ conn[c].state = "kConnected" => s.state = "kDisconnected"
      /\ conn[c].state # "kDisconnecting" => ~s.failed /\ ~s.added
      /\ conn[c].state = "kDisconnecting" => s.failed
  BY <1>1, <1>3, TeardownOf
<1>5. conn[c].state \in {"kConnecting", "kConnected", "kDisconnecting", "kDisconnected"}
  BY <1>1, <1>3, FieldTypes DEF TypeOK, States
<1>6. conn[c].state # "kConnecting"
  <2> SUFFICES ASSUME conn[c].state = "kConnecting" PROVE FALSE
    OBVIOUS
  <2> DEFINE e == Functor("connectEstablished", c)
  <2>1. e \in Todo
    BY <1>1, <1>3 DEF Awaited
  <2>2. PICK k \in Loops : e \in Jobs(k)
    BY <2>1 DEF Todo
  <2>3. k = l
    BY <1>1, <1>3, <2>2 DEF Work, Entry, Functor
  <2>4. e = First(l) \/ e \in Items(Tail(batch[l])) \cup Items(pending[l])
    <3>1. batch[l] \in Seq(Functors)
      BY <1>1 DEF TypeOK
    <3>2. Items(batch[l]) = {Head(batch[l])} \cup Items(Tail(batch[l]))
      BY <1>3, <3>1, ItemsOfTail
    <3> QED BY <2>2, <2>3, <3>2 DEF Jobs, First
  <2>5. e # First(l)
    BY <1>3 DEF Functor
  <2>6. Before(First(l), e)
    BY <1>2, <2>4, <2>5, CallFacts
  <2>7. First(l).call = "connectDestroyed"
    BY <1>3 DEF Functor
  <2>8. e # Functor("connectEstablished", First(l).conn)
    BY <2>6, <2>7 DEF Before
  <2> QED BY <1>0, <2>8
<1> HIDE DEF s
<1>7. /\ Todo \ {First(l)} \subseteq Todo' /\ Todo' \subseteq Todo
      /\ \A k \in Loops : Items(pending'[k]) \subseteq Items(pending[k]) \cup {}
  <2>1. First(l) \in {First(l)} /\ UNCHANGED pending /\ {} = {}
    BY <1>2
  <2>2. \E k \in Loops : /\ batch[k] # <<>> /\ batch' = [batch EXCEPT ![k] = Tail(@)]
                         /\ First(k) \in {First(l)}
    BY <1>3
  <2>3. /\ Todo \ {First(l)} \subseteq Todo' /\ Todo' \subseteq Todo \cup {}
        /\ \A k \in Loops : Items(pending'[k]) \subseteq Items(pending[k]) \cup {}
    BY <1>1, <2>1, <2>2, TodoStep
  <2> QED BY <2>3
<1>8. Ran(c, s, {First(l)}, {})
  <2>1. \A f \in {First(l)} \cup {} : f.conn = c
    BY <1>0
  <2> QED BY <1>2, <1>3, <1>4, <1>7, <2>1 DEF Ran
<1>9. ~Gone \/ threadNum = 0 => conn[c].state = "kDisconnected"
  BY <1>1, <1>3 DEF Torn
<1>10. replaced = {} => Keeping(c)'
  <2> SUFFICES ASSUME replaced = {} PROVE Keeping(c)'
    OBVIOUS
  <2>1. Keeping(c)
    BY <1>1, <1>3 DEF Kept
  <2>2. conn'[c] = s /\ (Gone' <=> Gone)
    BY <1>1, <1>2, <1>3 DEF TypeOK, Gone
  <2>3. s.state \in {"kDisconnecting", "kDisconnected"}
    BY <1>4, <1>5, <1>6
  <2>4. s.failed => Gone /\ s.state = "kDisconnecting"
    BY <1>4, <1>9
  <2>5. ~Gone => s.state = "kDisconnected"
    BY <1>4, <1>9
  <2>6. ~s.failed => Destructible(s)
    BY <1>4, <1>5, <1>6 DEF Destructible
  <2> QED BY <1>2, <1>7, <2>1, <2>2, <2>4, <2>5, <2>6 DEF Keeping
<1> QED BY <1>3, <1>4, <1>5, <1>6, <1>8, <1>9, <1>10, MethodSafe

(* and forceCloseInLoop,                                                    *)
LEMMA ForceCloseSafe ==
  ASSUME Inv, Inv', Safe, ~Aborted, NEW l \in Loops, CallForceClose(l)
  PROVE  Safe'
<1>0. PICK c \in Conns : c = First(l).conn
  BY CallHolds DEF CallForceClose
<1>1. TypeOK /\ Records /\ Rounds /\ Work /\ Numbered
  BY DEF Inv
<1> DEFINE r == forceCloseInLoop(conn[c])
<1>2. Call(l, "forceCloseInLoop") /\ After(c, r)
  BY <1>0 DEF CallForceClose
<1>3. /\ c \in Conns /\ First(l) = Functor("forceCloseInLoop", c) /\ First(l) \in Todo
      /\ Accepted(c) /\ Referenced(c) /\ l = io[c]
      /\ lpc[l] = "call" /\ batch[l] # <<>> /\ batch' = [batch EXCEPT ![l] = Tail(@)]
      /\ UNCHANGED <<lpc, active, threadNum, nextConnId, id, io, replaced, addr, user>>
      /\ \A k \in Loops : active'[k] \subseteq active[k] \ {c}
      /\ \A k \in Loops : \A d \in called'[k] :
            \/ d \in called[k]
            \/ d = c /\ lpc[k] = "call" /\ (k = 0 \/ k = io[c])
  BY <1>0, <1>2, CallHolds
<1>4. conn[c] \in Connections /\ ~conn[c].failed /\ (Running(c) => Up(conn[c]))
  BY <1>1, <1>3, PhaseOf
<1>5. CASE Running(c)
  <2>1. Continues(r, conn[c]) /\ Down(r)
    BY <1>4, <1>5, ForceClosed
  <2>2. /\ r \in Connections /\ r.peer = conn[c].peer /\ ~r.failed
        /\ r.state = "kDisconnected"
    BY <1>4, <2>1 DEF Continues, Down
  <2> HIDE DEF r
  <2>3. removeConnection(c, r)
    BY <1>2, <1>5, <2>2 DEF After, Running
  <2>4. threadNum = 0 => active'[0] = {}
    BY <1>1, <1>3 DEF Rounds, Numbered
  <2>5. lpc[io[c]] \notin {"left", "destroyed"}
    BY <1>3
  <2>6. First(l) \in {Functor("forceCloseInLoop", c)}
    BY <1>3
  <2>7. \E k \in Loops : /\ batch[k] # <<>> /\ batch' = [batch EXCEPT ![k] = Tail(@)]
                         /\ First(k) \in {Functor("forceCloseInLoop", c)}
    BY <1>3, <2>6
  <2> QED BY <1>3, <1>5, <2>2, <2>3, <2>4, <2>5, <2>7, ClosesSafe
<1>6. CASE ~Running(c)
  <2>1. r = conn[c]
    BY <1>6 DEF forceCloseInLoop, Running
  <2> HIDE DEF r
  <2>2. conn' = [conn EXCEPT ![c] = r] /\ UNCHANGED <<connections, pending>>
    BY <1>2, <2>1 DEF After
  <2>3. First(l) \in {First(l)} /\ UNCHANGED pending /\ {} = {}
    BY <2>2
  <2>4. \E k \in Loops : /\ batch[k] # <<>> /\ batch' = [batch EXCEPT ![k] = Tail(@)]
                         /\ First(k) \in {First(l)}
    BY <1>3
  <2>5. /\ Todo \ {First(l)} \subseteq Todo' /\ Todo' \subseteq Todo \cup {}
        /\ \A k \in Loops : Items(pending'[k]) \subseteq Items(pending[k]) \cup {}
    BY <1>1, <2>3, <2>4, TodoStep
  <2>6. Ran(c, r, {First(l)}, {})
    <3>1. \A f \in {First(l)} \cup {} : f.conn = c
      BY <1>0
    <3> QED BY <1>3, <1>4, <2>1, <2>2, <2>5, <3>1 DEF Ran
  <2>7. {First(l)} \cup {} \subseteq {Functor("forceCloseInLoop", c)}
    BY <1>3
  <2> QED BY <1>3, <2>1, <2>2, <2>6, <2>7, StaysSafe
<1> QED BY <1>5, <1>6

(* and removeConnectionInLoop, which comes once for a connection.           *)
LEMMA RemoveSafe ==
  ASSUME Inv, Inv', Safe, ~Aborted, CallRemove
  PROVE  Safe'
<1>0. PICK c \in Conns : c = First(0).conn
  BY CallHolds, LoopsAre DEF CallRemove
<1>1. TypeOK /\ Records /\ Rounds /\ Work /\ Numbered /\ Named /\ Kept /\ Work' /\ TypeOK'
  BY DEF Inv, Safe
<1> DEFINE s == Assert(conn[c], Erased(c) # connections)
           f == Functor("connectDestroyed", c)
<1>2. /\ Call(0, "removeConnectionInLoop")
      /\ connections' = Erased(c) /\ conn' = [conn EXCEPT ![c] = s]
      /\ pending' = queueInLoop(io[c], "connectDestroyed", c)
  BY <1>0 DEF CallRemove
<1>3. /\ c \in Conns /\ First(0) = Functor("removeConnectionInLoop", c) /\ First(0) \in Todo
      /\ Accepted(c) /\ Referenced(c)
      /\ lpc[0] = "call" /\ batch[0] # <<>> /\ batch' = [batch EXCEPT ![0] = Tail(@)]
      /\ UNCHANGED <<lpc, active, threadNum, nextConnId, id, io, replaced, addr, user>>
      /\ \A k \in Loops : active'[k] \subseteq active[k] \ {c}
      /\ \A k \in Loops : \A d \in called'[k] :
            \/ d \in called[k]
            \/ d = c /\ lpc[k] = "call" /\ (k = 0 \/ k = io[c])
  BY <1>0, <1>2, CallHolds, LoopsAre
<1>4. /\ conn[c].state = "kDisconnected" /\ conn[c] \in Connections /\ ~conn[c].failed
      /\ io[c] \in Loops /\ 0 \in Loops
  <2>1. First(0).call = "removeConnectionInLoop"
    BY <1>3 DEF Functor
  <2> QED BY <1>0, <1>1, <1>3, <2>1, TodoFacts, LoopsAre DEF Aborted, AssertFails, TypeOK
<1>5. /\ s \in Connections /\ Keeps(s, conn[c], {"failed"})
      /\ s.failed <=> Erased(c) = connections
  BY <1>4, AssertProperties
<1>6. /\ f \in Functors /\ f.conn = c /\ f.call = "connectDestroyed"
      /\ pending' = [pending EXCEPT ![io[c]] = Append(@, f)]
      /\ f # First(0)
  <2>1. f \in Functors /\ f.conn = c /\ f.call = "connectDestroyed"
    BY DEF Functor, Functors, FunctorNames
  <2>2. pending' = [pending EXCEPT ![io[c]] = Append(@, f)]
    BY <1>2 DEF queueInLoop
  <2>3. f # First(0)
    BY <1>3, <2>1 DEF Functor
  <2> QED BY <2>1, <2>2, <2>3
<1> HIDE DEF s
<1>7. s.peer = conn[c].peer /\ s.state = "kDisconnected"
  BY <1>4, <1>5 DEF Keeps
<1>8. f \in Todo'
      /\ Todo \ {First(0)} \subseteq Todo' /\ Todo' \subseteq Todo \cup {f}
      /\ \A k \in Loops : /\ Items(pending'[k]) \subseteq Items(pending[k]) \cup {f}
                          /\ Items(batch'[k]) \subseteq Items(batch[k])
  <2> HIDE DEF f
  <2> DEFINE D == {First(0)}
             N == {f}
  <2>1. \E k \in Loops, g \in Functors :
           pending' = [pending EXCEPT ![k] = Append(@, g)] /\ N = {g}
    BY <1>4, <1>6
  <2>2. \E k \in Loops : /\ batch[k] # <<>> /\ batch' = [batch EXCEPT ![k] = Tail(@)]
                         /\ First(k) \in D
    BY <1>3, <1>4
  <2> HIDE DEF D, N
  <2>3. /\ Todo \ D \subseteq Todo' /\ Todo' \subseteq Todo \cup N /\ N \subseteq Todo'
        /\ \A k \in Loops : /\ Items(pending'[k]) \subseteq Items(pending[k]) \cup N
                            /\ Items(batch'[k]) \subseteq Items(batch[k])
    BY <1>1, <2>1, <2>2, TodoStep
  <2> USE DEF D, N
  <2> QED BY <2>3
<1>9. First(0) \notin Todo'
  <2> SUFFICES ASSUME NEW k \in Loops, First(0) \in Jobs(k)' PROVE FALSE
    BY DEF Todo
  <2> DEFINE g == First(0)
  <2>0. g.call = "removeConnectionInLoop" /\ g \in Items(batch'[k]) \cup Items(pending'[k])
    BY <1>3 DEF Functor, Jobs
  <2> HIDE DEF g
  <2>1. \A h \in Jobs(k)' : h.call = "removeConnectionInLoop" => k = 0
    BY <1>1 DEF Work, Entry
  <2>2. k = 0
    BY <2>0, <2>1 DEF g, Jobs
  <2>3. g \in Items(Tail(batch[0])) \cup Items(pending[0])
    <3>1. batch'[0] = Tail(batch[0])
      BY <1>1, <1>3, <1>4 DEF TypeOK
    <3> QED BY <1>6, <1>8, <2>0, <2>2, <3>1 DEF g
  <2>4. Before(g, g)
    BY <1>2, <1>4, <2>3, CallFacts DEF g
  <2> QED BY <2>0, <2>4 DEF Before
<1>10. c \in connections => connections \ {c} \subseteq connections' /\ Erased(c) # connections
  BY <1>1, <1>2 DEF Named, Erased
<1>11. replaced = {} => c \in connections
  BY <1>1, <1>3 DEF Kept, Keeping, Gone
<1>12. Ran(c, s, {First(0)}, {f})
  <2>1. \A g \in {First(0)} \cup {f} : g.conn = c
    BY <1>0, <1>6
  <2>2. connections' \subseteq connections
    BY <1>2 DEF Erased
  <2>3. active'[0] = {}
    BY <1>1, <1>3, <1>4 DEF Rounds
  <2> QED BY <1>2, <1>3, <1>5, <1>6, <1>7, <1>8, <1>10, <1>11, <2>1, <2>2, <2>3 DEF Ran
<1>13. replaced = {} => Keeping(c)'
  <2> SUFFICES ASSUME replaced = {} PROVE Keeping(c)'
    OBVIOUS
  <2>1. conn'[c] = s /\ ~s.failed
    BY <1>1, <1>2, <1>3, <1>5, <1>10, <1>11 DEF TypeOK
  <2> QED BY <1>3, <1>7, <1>8, <1>9, <2>1 DEF Keeping
<1> QED BY <1>3, <1>7, <1>12, <1>13, MethodSafe

-----------------------------------------------------------------------------
(* A new connection replaces another in the map only if the server gives all *)
(* its connections one number, and then one its client has reset.           *)
LEMMA AcceptSafe ==
  ASSUME Inv, Inv', Safe, ~Aborted, NEW c \in Conns, Accept(c)
  PROVE  Safe'
<1>1. /\ TypeOK /\ Records /\ Work /\ Numbered
      /\ Turns /\ Named /\ Addresses /\ Awaited /\ Torn /\ Kept /\ Single
      /\ (TypeOK /\ Work)'
  BY DEF Inv, Safe
<1> DEFINE same   == {d \in connections : Name(d) = <<addr[c], NextNumber>>}
           opened == [conn[c] EXCEPT !.peer = "open"]
           s      == IF NextLoop = 0 THEN connectEstablished(opened) ELSE opened
           e      == Functor("connectEstablished", c)
<1>2. /\ conn[c].peer = "waiting" /\ lpc[0] = "handle"
      /\ nextConnId' = NextNumber
      /\ id' = [id EXCEPT ![c] = NextNumber]
      /\ io' = [io EXCEPT ![c] = NextLoop]
      /\ connections' = (connections \ same) \cup {c}
      /\ replaced' = replaced \cup same
      /\ conn' = [conn EXCEPT ![c] = s]
      /\ NextLoop = 0 => UNCHANGED pending
      /\ NextLoop # 0 => pending' = queueInLoop(NextLoop, "connectEstablished", c)
      /\ UNCHANGED <<lpc, active, revents, batch, called, threadNum, addr, user>>
  BY DEF Accept
<1>3. ~Accepted(c) /\ conn[c] \in Connections /\ New(conn[c]) /\ ~conn[c].failed
  BY <1>1, <1>2, PhaseOf DEF Accepted, Records, Fresh
<1>4. opened \in Connections /\ opened.peer = "open" /\ New(opened) /\ ~opened.failed
  <2>1. opened \in Connections /\ opened.peer = "open" /\ Keeps(opened, conn[c], {"peer"})
    BY <1>3, SetPeer
  <2> HIDE DEF opened
  <2>2. Keeps(opened, conn[c], {"peer", "inbox", "error", "failed"})
    BY <2>1 DEF Keeps
  <2> QED BY <1>3, <2>1, <2>2, PhaseKept DEF Keeps
<1> HIDE DEF opened
<1>5. /\ s.peer = "open" /\ ~s.failed
      /\ NextLoop = 0 => s.state = "kConnected"
  <2>1. CASE NextLoop = 0
    <3>1. s = connectEstablished(opened)
      BY <2>1
    <3>2. Continues(s, opened) /\ s.state = "kConnected"
      BY <1>4, <3>1, Established
    <3> QED BY <1>4, <3>2 DEF Continues
  <2>2. CASE NextLoop # 0
    BY <1>4, <2>2
  <2> QED BY <2>1, <2>2
<1> HIDE DEF s, same, e
<1>6. threadNum \in Nat /\ nextConnId \in Nat /\ 0..threadNum \subseteq Loops /\ 0 \in Loops
  BY <1>1, LoopsAre, ThreadsAssumption DEF TypeOK
<1>7. /\ NextNumber \in Nat /\ nextConnId <= NextNumber /\ NextLoop \in Loops
      /\ threadNum # 0 => nextConnId < NextNumber
      /\ threadNum = 0 => NextLoop = 0
  BY <1>6 DEF NextNumber, NextLoop
<1>8. conn'[c] = s /\ \A d \in Conns \ {c} : conn'[d] = conn[d]
  BY <1>1, <1>2 DEF TypeOK
<1>9. /\ Accepted(c)'
      /\ \A d \in Conns : Accepted(d) => /\ d # c /\ Accepted(d)' /\ conn'[d] = conn[d]
                                         /\ io'[d] = io[d] /\ id'[d] = id[d]
      /\ Gone' <=> Gone
  BY <1>1, <1>2, <1>3, <1>5, <1>8 DEF Accepted, TypeOK, Gone
<1>10. Todo \subseteq Todo' /\ Todo' \subseteq Todo \cup {e} /\ (NextLoop # 0 => e \in Todo')
       /\ (NextLoop = 0 => Todo' = Todo)
  <2>1. CASE NextLoop = 0
    BY <1>2, <2>1 DEF Todo, Jobs
  <2>2. CASE NextLoop # 0
    <3>1. e \in Functors /\ pending' = [pending EXCEPT ![NextLoop] = Append(@, e)]
      BY <1>2, <2>2 DEF Functor, Functors, FunctorNames, queueInLoop, e
    <3>2. \E l \in Loops, g \in Functors :
             pending' = [pending EXCEPT ![l] = Append(@, g)] /\ {e} = {g}
      BY <1>7, <3>1
    <3>3. UNCHANGED batch
      BY <1>2
    <3>4. Todo \ {} \subseteq Todo' /\ Todo' \subseteq Todo \cup {e} /\ {e} \subseteq Todo'
      BY <1>1, <3>2, <3>3, TodoStep
    <3> QED BY <2>2, <3>4
  <2> QED BY <2>1, <2>2
<1>11. \A f \in Todo : f.conn # c /\ f.conn \in Conns
  BY <1>1, <1>3, TodoFacts
<1>12. \A f \in {"connectDestroyed", "removeConnectionInLoop"}, d \in Conns :
          Functor(f, d) \in Todo' <=> Functor(f, d) \in Todo
  BY <1>10 DEF Functor, e
<1>13. \A d \in same : /\ d \in connections /\ d \in Conns /\ d # c
                       /\ threadNum = 0 /\ conn[d].peer = "reset"
  <2> SUFFICES ASSUME NEW d \in same
               PROVE  /\ d \in connections /\ d \in Conns /\ d # c
                      /\ threadNum = 0 /\ conn[d].peer = "reset"
    OBVIOUS
  <2>1. d \in connections /\ d \in Conns /\ addr[d] = addr[c] /\ id[d] = NextNumber
    BY <1>1 DEF same, Name, TypeOK
  <2>2. Accepted(d) /\ d # c
    BY <1>1, <1>3, <2>1 DEF Numbered
  <2>3. threadNum = 0
    <3>1. id[d] <= nextConnId /\ id[d] \in Nat
      BY <1>1, <2>1 DEF Named, TypeOK
    <3> QED BY <1>6, <1>7, <2>1, <3>1
  <2>4. ~Dead(d) /\ ~Dead(c)
    BY <1>3, <2>1 DEF Dead, Referenced
  <2>5. conn[d].peer \notin Served
    BY <1>1, <1>2, <2>1, <2>2, <2>4 DEF Addresses, Served
  <2>6. conn[d].peer = "reset"
    <3>1. conn[d].peer \in {"away", "waiting", "refused", "open", "eof", "reset"}
      BY <1>1, <2>1, FieldTypes DEF TypeOK
    <3> QED BY <2>2, <2>5, <3>1 DEF Served, Accepted
  <2> QED BY <2>1, <2>2, <2>3, <2>6
<1>14. Turns'
  <2>1. ASSUME NEW l \in Loops, NEW d \in called[l]
        PROVE  Accepted(d)' /\ (l = 0 \/ l = io'[d])
    <3>1. Accepted(d) /\ d \in Conns /\ (l = 0 \/ l = io[d])
      BY <1>1, <2>1 DEF Turns, TypeOK
    <3> QED BY <1>9, <3>1
  <2> QED BY <1>1, <1>2, <2>1 DEF Turns
<1>15. Named'
  <2>1. ASSUME NEW d \in connections'
        PROVE  id'[d] <= nextConnId' /\ (d # c => d \in connections \ same /\ id'[d] = id[d])
    <3>1. CASE d = c
      BY <1>1, <1>2, <1>7, <3>1 DEF TypeOK
    <3>2. CASE d # c
      <4>1. d \in connections \ same /\ d \in Conns /\ id[d] \in Nat
        BY <1>1, <1>2, <3>2 DEF TypeOK
      <4>2. id[d] <= nextConnId
        BY <1>1, <4>1 DEF Named
      <4>3. id'[d] = id[d]
        BY <1>1, <1>2, <3>2, <4>1 DEF TypeOK
      <4> QED BY <1>2, <1>6, <1>7, <3>2, <4>1, <4>2, <4>3
    <3> QED BY <3>1, <3>2
  <2>2. ASSUME NEW d \in connections', NEW b \in connections', Name(d)' = Name(b)' PROVE d = b
    <3>1. Name(c)' = <<addr[c], NextNumber>>
      BY <1>1, <1>2 DEF Name, TypeOK
    <3>2. \A x \in connections' : x # c => x \in connections /\ Name(x)' = Name(x) /\ Name(x)' # Name(c)'
      BY <1>2, <2>1, <3>1 DEF Name, same
    <3> QED BY <1>1, <2>2, <3>2 DEF Named
  <2>3. ASSUME NEW d \in replaced' PROVE threadNum' = 0 /\ conn'[d].peer = "reset"
    <3>1. d \in Conns /\ threadNum = 0 /\ conn[d].peer = "reset"
      BY <1>1, <1>2, <1>13, <2>3 DEF Named, TypeOK
    <3>2. d # c
      BY <1>2, <3>1
    <3> QED BY <1>2, <1>8, <3>1, <3>2
  <2> QED BY <2>1, <2>2, <2>3 DEF Named
<1>16. Addresses'
  <2>1. Referrers
    BY <1>1, Holders
  <2>2. \A d \in Conns : Accepted(d) /\ d \in connections' => Referenced(d)
    BY <1>2, <1>3, <2>1 DEF Referrers, Holds
  <2>3. ASSUME NEW l \in Loops, NEW d \in called'[l] PROVE Referenced(d)
    <3>1. d \in Conns /\ d \in called[l]
      BY <1>1, <1>2, <2>3 DEF TypeOK
    <3> QED BY <2>1, <3>1 DEF Referrers, Holds
  <2>4. \A f \in Todo' : Accepted(f.conn) => Referenced(f.conn)
    <3>1. ~Accepted(e.conn)
      BY <1>3 DEF e, Functor
    <3> QED BY <1>10, <1>11, <2>1, <3>1 DEF Referrers, Holds
  <2>5. \A d \in Conns : conn'[d].peer \in Served => conn[d].peer \in Served
    BY <1>2, <1>8 DEF Served
  <2> QED BY <1>1, <1>2, <1>9, <1>14, <2>2, <2>3, <2>4, <2>5, AddressesKept
<1>17. Awaited'
  <2> SUFFICES ASSUME NEW d \in Conns, Accepted(d)', conn'[d].state = "kConnecting"
               PROVE  Functor("connectEstablished", d) \in Todo'
    BY DEF Awaited
  <2>1. CASE d = c
    BY <1>5, <1>8, <1>10, <2>1 DEF e
  <2>2. CASE d # c
    <3>1. Accepted(d) /\ conn[d].state = "kConnecting"
      BY <1>8, <2>2 DEF Accepted
    <3> QED BY <1>1, <1>10, <3>1 DEF Awaited
  <2> QED BY <2>1, <2>2
<1>18. Torn'
  <2> SUFFICES ASSUME ~Gone \/ threadNum = 0, NEW d \in Conns,
                      Functor("connectDestroyed", d) \in Todo
               PROVE  conn'[d].state = "kDisconnected"
    BY <1>2, <1>9, <1>12 DEF Torn
  <2>1. d # c
    BY <1>11 DEF Functor
  <2> QED BY <1>1, <1>8, <2>1 DEF Torn
<1>19. Kept'
  <2> SUFFICES ASSUME replaced' = {}, NEW d \in Conns PROVE Keeping(d)'
    BY DEF Kept
  <2>1. replaced = {} /\ connections' = connections \cup {c}
    BY <1>2
  <2>2. CASE d = c
    BY <1>5, <1>8, <2>1, <2>2 DEF Keeping
  <2>3. CASE d # c
    <3>1. Keeping(d) /\ conn'[d] = conn[d] /\ (Accepted(d)' <=> Accepted(d))
      BY <1>1, <1>8, <2>1, <2>3 DEF Kept, Accepted
    <3> QED BY <1>9, <1>12, <2>1, <3>1 DEF Keeping
  <2> QED BY <2>2, <2>3
<1>20. Single'
  BY <1>1, <1>2, <1>7, <1>10 DEF Single
<1> QED BY <1>14, <1>15, <1>16, <1>17, <1>18, <1>19, <1>20 DEF Safe

(* The steps of a round that call nothing.                                  *)
LEMMA RoundSafe ==
  ASSUME Inv, Inv', Safe, ~Aborted, Turns', Single',
         Todo' = Todo, \A l \in Loops : called'[l] \subseteq called[l],
         Gone => Gone',
         UNCHANGED <<serverVars, conn, addr, user>>
  PROVE  Safe'
<1>1. /\ TypeOK /\ Work /\ (TypeOK /\ Work)'
      /\ Turns /\ Named /\ Addresses /\ Awaited /\ Torn /\ Kept
  BY DEF Inv, Safe
<1>2. Named'
  BY <1>1 DEF Named, Name
<1>3. Addresses'
  <2>1. Referrers
    BY <1>1, Holders
  <2>2. \A d \in Conns : d \in connections' => Referenced(d)
    BY <2>1 DEF Referrers, Holds
  <2>3. ASSUME NEW l \in Loops, NEW d \in called'[l] PROVE Referenced(d)
    <3>1. d \in Conns /\ d \in called[l]
      BY <1>1, <2>3 DEF TypeOK
    <3> QED BY <2>1, <3>1 DEF Referrers, Holds
  <2>4. \A f \in Todo' : Referenced(f.conn)
    BY <1>1, <2>1, TodoFacts DEF Referrers, Holds
  <2>5. \A d \in Conns : /\ conn'[d].peer \in Served => conn[d].peer \in Served
                         /\ Accepted(d) => Accepted(d)'
    BY DEF Accepted
  <2> QED BY <1>1, <2>2, <2>3, <2>4, <2>5, AddressesKept
<1>4. Awaited' /\ Torn' /\ Kept'
  BY <1>1 DEF Awaited, Torn, Kept, Keeping, Accepted
<1> QED BY <1>2, <1>3, <1>4 DEF Safe

(* epoll_wait on the base loop of a server with no loops of its own reports *)
(* connections of the map.                                                  *)
LEMMA PollSafe ==
  ASSUME Inv, Inv', Safe, ~Aborted, NEW l \in Loops, Poll(l)
  PROVE  Safe'
<1>1. TypeOK /\ Records /\ Rounds /\ Work /\ Numbered /\ Turns /\ Single /\ Torn
  BY DEF Inv, Safe
<1>2. /\ active' = [active EXCEPT ![l] = ReadyIn(l)]
      /\ lpc[l] = "poll" /\ lpc' = [lpc EXCEPT ![l] = "handle"]
      /\ UNCHANGED <<queueVars, serverVars, conn, addr, user>>
  BY DEF Poll
<1>3. 0 \in Loops
  BY LoopsAre
<1>4. Todo' = Todo /\ (Gone' <=> Gone)
  BY <1>1, <1>2, <1>3 DEF Todo, Jobs, Gone, TypeOK
<1>5. Turns'
  BY <1>1, <1>2 DEF Turns, TypeOK, Accepted
<1>6. Single'
  <2>1. CASE l # 0 \/ threadNum # 0
    BY <1>1, <1>2, <1>3, <1>4, <2>1 DEF Single, TypeOK
  <2>2. CASE l = 0 /\ threadNum = 0
    <3>1. lpc'[0] = "handle" /\ active'[0] = ReadyIn(0)
      BY <1>1, <1>2, <1>3, <2>2 DEF TypeOK
    <3>2. ASSUME NEW f \in Todo
          PROVE  f.call = "connectDestroyed" /\ conn[f.conn].state = "kDisconnected"
      <4>1. PICK k \in Loops : f \in Jobs(k)
        BY DEF Todo
      <4>2. Entry(k, f) /\ f \in Functors
        BY <1>1, <4>1, JobsType DEF Work
      <4>3. k = 0
        BY <1>1, <2>2, <4>2 DEF Entry, Numbered, Functors
      <4>4. f \in Items(pending[0])
        <5>1. batch[0] = <<>>
          BY <1>1, <1>2, <1>3, <2>2 DEF Rounds
        <5> QED BY <4>1, <4>3, <5>1 DEF Jobs, Items
      <4>5. f.call = "connectDestroyed"
        BY <1>1, <1>2, <2>2, <4>4 DEF Single
      <4>6. f = Functor("connectDestroyed", f.conn)
        BY <4>2, <4>5 DEF Functors, Functor
      <4> QED BY <1>1, <2>2, <4>2, <4>5, <4>6 DEF Torn, Functors
    <3>3. ASSUME NEW c \in ReadyIn(0)
          PROVE  /\ \A f \in Todo : f.conn # c
                 /\ c \in connections
      <4>1. c \in Conns /\ Accepted(c) /\ ~Dead(c) /\ conn[c].polled
        BY DEF ReadyIn, Ready
      <4>2. conn[c].state # "kDisconnected"
        BY <1>1, <4>1, PhaseOf DEF Down, Silent
      <4>3. \A f \in Todo : f.conn # c
        BY <3>2, <4>2
      <4>4. \A k \in Loops : c \notin called[k]
        BY <1>1, <1>2, <2>2, <4>1 DEF Turns, Numbered
      <4> QED BY <1>1, <4>1, <4>3, <4>4, Holders DEF Referrers, Holds, Dead
    <3> QED BY <1>2, <1>4, <3>1, <3>3 DEF Single
  <2> QED BY <2>1, <2>2
<1>7. \A k \in Loops : called'[k] \subseteq called[k]
  BY <1>2
<1> QED BY <1>2, <1>4, <1>5, <1>6, <1>7, RoundSafe

(* doPendingFunctors is safe,                                               *)
LEMMA SwapSafe ==
  ASSUME Inv, Inv', Safe, ~Aborted, NEW l \in Loops, SwapPending(l)
  PROVE  Safe'
<1>1. TypeOK /\ Rounds /\ Work /\ Turns /\ Single
  BY DEF Inv, Safe
<1>2. /\ lpc[l] = "handle" /\ active[l] = {}
      /\ batch' = [batch EXCEPT ![l] = pending[l]]
      /\ pending' = [pending EXCEPT ![l] = <<>>]
      /\ lpc' = [lpc EXCEPT ![l] = IF pending[l] = <<>> THEN "poll" ELSE "call"]
      /\ UNCHANGED <<acceptReady, active, revents, called, serverVars, conn, addr, user>>
  BY DEF SwapPending
<1>3. batch[l] = <<>> /\ 0 \in Loops /\ Items(<<>>) = {}
  BY <1>1, <1>2, LoopsAre DEF Rounds, Items
<1>4. ASSUME NEW k \in Loops PROVE Jobs(k)' = Jobs(k)
  <2>1. CASE k = l
    BY <1>1, <1>2, <1>3, <2>1 DEF Jobs, TypeOK
  <2>2. CASE k # l
    BY <1>1, <1>2, <2>2 DEF Jobs, TypeOK
  <2> QED BY <2>1, <2>2
<1>5. Todo' = Todo
  BY <1>4 DEF Todo
<1>6. Gone' <=> Gone
  BY <1>1, <1>2, <1>3 DEF Gone, TypeOK
<1>7. Turns'
  BY <1>1, <1>2 DEF Turns, TypeOK, Accepted
<1>8. Single'
  <2>1. CASE l = 0
    BY <1>1, <1>2, <1>3, <1>5, <2>1 DEF Single, TypeOK
  <2>2. CASE l # 0
    BY <1>1, <1>2, <1>3, <1>5, <2>2 DEF Single, TypeOK
  <2> QED BY <2>1, <2>2
<1>9. \A k \in Loops : called'[k] \subseteq called[k]
  BY <1>2
<1> QED BY <1>2, <1>5, <1>6, <1>7, <1>8, <1>9, RoundSafe

(* and so is the end of a batch.                                            *)
LEMMA EndSafe ==
  ASSUME Inv, Inv', Safe, ~Aborted, NEW l \in Loops, EndBatch(l)
  PROVE  Safe'
<1>1. TypeOK /\ Turns /\ Single
  BY DEF Inv, Safe
<1>2. /\ lpc[l] = "call" /\ called' = [called EXCEPT ![l] = {}]
      /\ lpc' = [lpc EXCEPT ![l] = "poll"]
      /\ UNCHANGED <<acceptReady, active, revents, pending, batch, serverVars, conn,
                     addr, user>>
  BY DEF EndBatch
<1>3. 0 \in Loops
  BY LoopsAre
<1>4. Todo' = Todo /\ (Gone' <=> Gone)
  BY <1>1, <1>2, <1>3 DEF Todo, Jobs, Gone, TypeOK
<1>5. \A k \in Loops : called'[k] \subseteq called[k]
  BY <1>1, <1>2 DEF TypeOK
<1>6. Turns'
  <2>1. ASSUME NEW k \in Loops, lpc'[k] # "call" PROVE called'[k] = {}
    BY <1>1, <1>2, <2>1 DEF Turns, TypeOK
  <2>2. \A k \in Loops : \A c \in called'[k] : Accepted(c)' /\ (k = 0 \/ k = io'[c])
    BY <1>1, <1>2, <1>5 DEF Turns, Accepted
  <2> QED BY <1>1, <1>2, <2>1, <2>2 DEF Turns
<1>7. Single'
  BY <1>1, <1>2, <1>3, <1>4 DEF Single, TypeOK
<1> QED BY <1>2, <1>4, <1>5, <1>6, <1>7, RoundSafe

-----------------------------------------------------------------------------
(* What a client does to its connection.                                    *)
LEMMA PeerSafe ==
  ASSUME Inv, Inv', Safe, NEW c \in Conns, NEW s \in Connections,
         Keeps(s, conn[c], {"peer", "inbox", "error"}),
         Accepted(c) <=> s.peer \in {"open", "eof", "reset"},
         conn[c].peer = "reset" => s.peer = "reset",
         s.peer \in Served =>
            \/ conn[c].peer \in Served
            \/ \A d \in Conns \ {c} : addr[d] = addr[c] => conn[d].peer \notin Served \/ Dead(d),
         conn' = [conn EXCEPT ![c] = s],
         UNCHANGED <<lpc, active, revents, queueVars, serverVars, addr, user>>
  PROVE  Safe'
<1>1. /\ TypeOK /\ Turns /\ Named /\ Addresses /\ Awaited /\ Torn /\ Kept /\ Single
  BY DEF Inv, Safe
<1>2. conn'[c] = s /\ \A d \in Conns \ {c} : conn'[d] = conn[d]
  BY <1>1 DEF TypeOK
<1>3. s.state = conn[c].state /\ s.failed = conn[c].failed /\ s.added = conn[c].added
  BY DEF Keeps
<1>4. s.peer \in {"away", "waiting", "refused", "open", "eof", "reset"}
  BY FieldTypes
<1>5. \A d \in Conns : /\ conn'[d].state = conn[d].state /\ conn'[d].failed = conn[d].failed
                       /\ conn'[d].added = conn[d].added
                       /\ Accepted(d)' <=> Accepted(d)
                       /\ conn[d].peer = "reset" => conn'[d].peer = "reset"
  BY <1>2, <1>3, <1>4 DEF Accepted
<1>6. Todo' = Todo /\ (Gone' <=> Gone)
  BY DEF Todo, Jobs, Gone
<1>7. \A d \in Conns : Dead(d)' <=> Dead(d)
  BY <1>5 DEF Dead, Referenced
<1>8. Turns'
  <2>1. \A l \in Loops : \A d \in called[l] : d \in Conns
    BY <1>1 DEF TypeOK
  <2> QED BY <1>1, <1>5, <2>1 DEF Turns
<1>9. Named'
  <2>1. \A d \in replaced : d \in Conns
    BY <1>1 DEF TypeOK
  <2> QED BY <1>1, <1>5, <2>1 DEF Named, Name
<1>10. Addresses'
  <2> SUFFICES ASSUME NEW a \in Conns, NEW b \in Conns, a # b, addr[a] = addr[b],
                      conn'[a].peer \in Served, conn'[b].peer \in Served
               PROVE  Dead(a) \/ Dead(b)
    BY <1>7 DEF Addresses
  <2>1. CASE conn[a].peer \in Served /\ conn[b].peer \in Served
    BY <1>1, <2>1 DEF Addresses
  <2>2. CASE conn[a].peer \notin Served
    <3>1. a = c
      BY <1>2, <2>2
    <3> QED BY <1>2, <2>2, <3>1
  <2>3. CASE conn[b].peer \notin Served
    <3>1. b = c
      BY <1>2, <2>3
    <3> QED BY <1>2, <2>3, <3>1
  <2> QED BY <2>1, <2>2, <2>3
<1>11. Awaited' /\ Torn'
  BY <1>1, <1>5, <1>6 DEF Awaited, Torn
<1>12. Kept'
  <2> SUFFICES ASSUME replaced = {}, NEW d \in Conns PROVE Keeping(d)'
    BY DEF Kept
  <2>1. Keeping(d)
    BY <1>1 DEF Kept
  <2> QED BY <1>5, <1>6, <2>1 DEF Keeping, Destructible
<1>13. Single'
  BY <1>1, <1>6 DEF Single
<1> QED BY <1>8, <1>9, <1>10, <1>11, <1>12, <1>13 DEF Safe

(* A client connects from an address that is free.                          *)
LEMMA PeersSafe ==
  ASSUME Inv, Inv', Safe, NEW c \in Conns,
         Connect(c) \/ PeerSends(c) \/ PeerCloses(c) \/ PeerResets(c) \/ Refuse(c)
  PROVE  Safe'
<1>1. conn[c] \in Connections
  BY DEF Inv, TypeOK
<1>2. CASE Connect(c) \/ PeerCloses(c) \/ Refuse(c)
  <2>1. PICK p \in {"waiting", "refused", "eof"} :
           /\ conn' = [conn EXCEPT ![c] = [conn[c] EXCEPT !.peer = p]]
           /\ Accepted(c) <=> p = "eof"
           /\ conn[c].peer # "reset"
           /\ \/ conn[c].peer \in Served
              \/ \A d \in Conns \ {c} : addr[d] = addr[c] => conn[d].peer \notin Served \/ Dead(d)
           /\ UNCHANGED <<lpc, active, revents, queueVars, serverVars, addr, user>>
    <3>1. CASE Connect(c)
      <4>1. /\ conn' = [conn EXCEPT ![c] = [conn[c] EXCEPT !.peer = "waiting"]]
            /\ ~Accepted(c) /\ conn[c].peer = "away"
            /\ UNCHANGED <<lpc, active, revents, queueVars, serverVars, addr, user>>
        BY <3>1 DEF Connect, Accepted
      <4>2. \A d \in Conns \ {c} : addr[d] = addr[c] => conn[d].peer \notin Served \/ Dead(d)
        BY <3>1 DEF Connect, Served
      <4> QED BY <1>1, <4>1, <4>2
    <3>2. CASE PeerCloses(c)
      <4>1. /\ conn' = [conn EXCEPT ![c] = [conn[c] EXCEPT !.peer = "eof"]]
            /\ Accepted(c) /\ conn[c].peer = "open"
            /\ UNCHANGED <<lpc, active, revents, queueVars, serverVars, addr, user>>
        BY <3>2 DEF PeerCloses, Accepted
      <4> QED BY <1>1, <4>1 DEF Served
    <3>3. CASE Refuse(c)
      <4>1. /\ conn' = [conn EXCEPT ![c] = [conn[c] EXCEPT !.peer = "refused"]]
            /\ ~Accepted(c) /\ conn[c].peer = "waiting"
            /\ UNCHANGED <<lpc, active, revents, queueVars, serverVars, addr, user>>
        BY <3>3 DEF Refuse, Accepted
      <4> QED BY <4>1 DEF Served
    <3> QED BY <1>2, <3>1, <3>2, <3>3
  <2> DEFINE s == [conn[c] EXCEPT !.peer = p]
  <2>2. s \in Connections /\ s.peer = p /\ Keeps(s, conn[c], {"peer"})
    <3>1. p \in {"away", "waiting", "refused", "open", "eof", "reset"}
      OBVIOUS
    <3> QED BY <1>1, <3>1, SetPeer
  <2>3. conn' = [conn EXCEPT ![c] = s]
    BY <2>1
  <2> HIDE DEF s
  <2>4. Keeps(s, conn[c], {"peer", "inbox", "error"})
    BY <2>2 DEF Keeps
  <2> QED BY <2>1, <2>2, <2>3, <2>4, PeerSafe
<1>3. CASE PeerSends(c)
  <2> DEFINE s == [conn[c] EXCEPT !.inbox = TRUE]
  <2>1. s \in Connections /\ Keeps(s, conn[c], {"inbox"})
    BY <1>1, SetInbox
  <2>2. /\ conn' = [conn EXCEPT ![c] = s] /\ conn[c].peer = "open"
        /\ UNCHANGED <<loopVars, queueVars, serverVars, addr, user>>
    BY <1>3 DEF PeerSends
  <2> HIDE DEF s
  <2>3. Keeps(s, conn[c], {"peer", "inbox", "error"}) /\ s.peer = "open" /\ Accepted(c)
        /\ conn[c].peer \in Served
    BY <2>1, <2>2 DEF Keeps, Accepted, Served
  <2> QED BY <1>1, <2>1, <2>2, <2>3, PeerSafe
<1>4. CASE PeerResets(c)
  <2> DEFINE a == [conn[c] EXCEPT !.peer = "reset"]
             s == [a EXCEPT !.error = TRUE]
  <2>1. a \in Connections /\ a.peer = "reset" /\ Keeps(a, conn[c], {"peer"})
    BY <1>1, SetPeer
  <2>2. /\ conn' = [conn EXCEPT ![c] = s] /\ conn[c].peer \in {"open", "eof"}
        /\ UNCHANGED <<loopVars, queueVars, serverVars, addr, user>>
    BY <1>4 DEF PeerResets
  <2> HIDE DEF a
  <2>3. s \in Connections /\ Keeps(s, a, {"error"})
    BY <2>1, SetError
  <2> HIDE DEF s
  <2>4. Keeps(s, conn[c], {"peer", "inbox", "error"}) /\ s.peer = "reset" /\ Accepted(c)
        /\ conn[c].peer \in Served
    BY <2>1, <2>2, <2>3 DEF Keeps, Accepted, Served
  <2> QED BY <1>1, <2>2, <2>3, <2>4, PeerSafe
<1> QED BY <1>2, <1>3, <1>4

-----------------------------------------------------------------------------
(* ~TcpServer has a connection of the map torn down: at once, or on its own *)
(* loop.                                                                    *)
LEMMA ServerSafe ==
  ASSUME Inv, Inv', Safe, ~Aborted, NEW c \in Conns, DestroyServer(c)
  PROVE  Safe'
<1>1. /\ TypeOK /\ Records /\ Rounds /\ Work /\ Numbered
      /\ Turns /\ Named /\ Addresses /\ Awaited /\ Torn /\ Kept /\ Single
      /\ (TypeOK /\ Work)'
  BY DEF Inv, Safe
<1>2. /\ lpc[0] \in {"poll", "left"} /\ lpc' = [lpc EXCEPT ![0] = "left"]
      /\ c \in connections /\ connections' = connections \ {c}
      /\ UNCHANGED <<acceptReady, active, revents, batch, called, threadNum, nextConnId,
                     id, io, replaced, addr, user>>
  BY DEF DestroyServer, Left
<1>3. 0 \in Loops /\ Gone' /\ lpc'[0] = "left" /\ Accepted(c)
  BY <1>1, <1>2, LoopsAre DEF Gone, TypeOK, Numbered
<1>4. /\ \A d \in Conns : /\ conn'[d].peer = conn[d].peer
                          /\ conn'[d].state = "kConnecting" => conn[d].state = "kConnecting"
                          /\ conn[d].state = "kDisconnected" => conn'[d].state = "kDisconnected"
      /\ Todo \subseteq Todo' /\ \A f \in Todo' : f \in Todo \/ f.conn = c
      /\ io[c] = 0 => Todo' = Todo
      /\ replaced = {} => \A d \in Conns : Keeping(d)'
  <2>1. CASE io[c] = 0
    <3>1. conn' = [conn EXCEPT ![c] = connectDestroyed(conn[c])] /\ UNCHANGED pending
      BY <2>1 DEF DestroyServer
    <3>2. Todo' = Todo
      BY <1>2, <3>1 DEF Todo, Jobs
    <3>3. /\ conn'[c] = connectDestroyed(conn[c])
          /\ \A d \in Conns \ {c} : conn'[d] = conn[d]
      BY <1>1, <3>1 DEF TypeOK
    <3>4. conn[c].state \in {"kConnecting", "kConnected", "kDisconnecting", "kDisconnected"}
      BY <1>1, FieldTypes DEF TypeOK, States
    <3>5. /\ conn'[c].peer = conn[c].peer
          /\ conn[c].state = "kConnected" => conn'[c].state = "kDisconnected"
          /\ conn[c].state # "kConnected" => conn'[c].state = conn[c].state
          /\ conn[c].state # "kDisconnecting" => ~conn'[c].failed /\ ~conn'[c].added
      BY <1>1, <3>3, <3>4, TeardownOf
    <3>6. \A d \in Conns : /\ conn'[d].peer = conn[d].peer
                           /\ conn'[d].state = "kConnecting" => conn[d].state = "kConnecting"
                           /\ conn[d].state = "kDisconnected" => conn'[d].state = "kDisconnected"
      BY <3>3, <3>4, <3>5
    <3>7. ASSUME replaced = {}, NEW d \in Conns PROVE Keeping(d)'
      <4>1. Accepted(d)' <=> Accepted(d)
        BY <3>6 DEF Accepted
      <4>2. CASE d # c
        BY <1>1, <1>2, <1>3, <3>2, <3>3, <3>7, <4>1, <4>2 DEF Kept, Keeping
      <4>3. CASE d = c
        <5>1. conn[c].state # "kConnecting"
          <6> SUFFICES ASSUME conn[c].state = "kConnecting" PROVE FALSE
            OBVIOUS
          <6>1. Functor("connectEstablished", c) \in Todo
            BY <1>1, <1>3 DEF Awaited
          <6> QED BY <1>1, <2>1, <6>1, TodoFacts DEF Functor
        <5>2. conn'[c].failed => conn'[c].state = "kDisconnecting"
          BY <3>4, <3>5
        <5>3. ~conn'[c].failed => Destructible(conn'[c])
            \/ conn[c].state = "kDisconnecting"
          BY <3>4, <3>5, <5>1 DEF Destructible
        <5>4. conn[c].state = "kDisconnecting" => conn'[c].failed
          BY <1>1, <3>3, TeardownOf
        <5> QED BY <1>3, <4>3, <5>2, <5>3, <5>4 DEF Keeping
      <4> QED BY <4>2, <4>3
    <3> QED BY <3>2, <3>6, <3>7
  <2>2. CASE io[c] # 0
    <3> DEFINE g == Functor("connectDestroyed", c)
    <3>1. conn' = conn /\ pending' = queueInLoop(io[c], "connectDestroyed", c)
      BY <2>2 DEF DestroyServer
    <3>2. g \in Functors /\ g.conn = c /\ io[c] \in Loops
      BY <1>1 DEF TypeOK, Functor, Functors, FunctorNames
    <3>3. pending' = [pending EXCEPT ![io[c]] = Append(@, g)]
      BY <3>1 DEF queueInLoop
    <3> HIDE DEF g
    <3>4. Todo \subseteq Todo' /\ Todo' \subseteq Todo \cup {g} /\ g \in Todo'
      <4>1. \E l \in Loops, f \in Functors :
               pending' = [pending EXCEPT ![l] = Append(@, f)] /\ {g} = {f}
        BY <3>2, <3>3
      <4>2. UNCHANGED batch /\ TypeOK
        BY <1>1, <1>2
      <4>3. /\ Todo \ {} \subseteq Todo' /\ Todo' \subseteq Todo \cup {g}
            /\ {g} \subseteq Todo'
        BY <4>1, <4>2, TodoStep
      <4> QED BY <4>3
    <3>5. ASSUME replaced = {}, NEW d \in Conns PROVE Keeping(d)'
      <4>1. Keeping(d) /\ ~conn[d].failed
        BY <1>1, <3>5 DEF Kept, Aborted, AssertFails
      <4>2. d \in connections => d \in connections' \/ Functor("connectDestroyed", d) \in Todo'
        BY <1>2, <3>4 DEF g
      <4> QED BY <1>3, <3>1, <3>4, <4>1, <4>2 DEF Keeping, Accepted
    <3> QED BY <2>2, <3>1, <3>2, <3>4, <3>5
  <2> QED BY <2>1, <2>2
<1>5. \A d \in Conns : Accepted(d)' <=> Accepted(d)
  BY <1>4 DEF Accepted
<1>6. Turns'
  <2>1. \A l \in Loops : \A d \in called[l] : d \in Conns
    BY <1>1 DEF TypeOK
  <2>2. \A l \in Loops : lpc'[l] # "call" => lpc[l] # "call"
    BY <1>1, <1>2 DEF TypeOK
  <2> QED BY <1>1, <1>2, <1>5, <2>1, <2>2 DEF Turns
<1>7. Named'
  <2>1. \A d \in replaced : d \in Conns
    BY <1>1 DEF TypeOK
  <2> QED BY <1>1, <1>2, <1>4, <2>1 DEF Named, Name
<1>8. Addresses'
  <2>1. Referrers
    BY <1>1, Holders
  <2>2. \A l \in Loops : \A d \in called'[l] : Referenced(d)
    <3>1. \A l \in Loops : \A d \in called[l] : d \in Conns
      BY <1>1 DEF TypeOK
    <3> QED BY <1>2, <2>1, <3>1 DEF Referrers, Holds
  <2>3. ASSUME NEW f \in Todo' PROVE Referenced(f.conn)
    <3>1. CASE f \in Todo
      BY <1>1, <2>1, <3>1, TodoFacts DEF Referrers, Holds
    <3>2. CASE f.conn = c
      BY <1>2, <3>2 DEF Referenced
    <3> QED BY <1>4, <3>1, <3>2
  <2>4. \A d \in Conns : d \in connections' => Referenced(d)
    BY <1>2 DEF Referenced
  <2> QED BY <1>1, <1>2, <1>4, <1>5, <1>6, <2>2, <2>3, <2>4, AddressesKept
<1>9. Awaited'
  BY <1>1, <1>4, <1>5 DEF Awaited
<1>10. Torn'
  <2>1. threadNum = 0 => io[c] = 0
    BY <1>1 DEF Numbered
  <2> QED BY <1>1, <1>2, <1>3, <1>4, <2>1 DEF Torn
<1>11. Kept'
  BY <1>2, <1>4 DEF Kept
<1>12. Single'
  <2>1. active'[0] = {}
    BY <1>1, <1>2, <1>3 DEF Rounds
  <2> QED BY <1>3, <2>1 DEF Single
<1> QED BY <1>6, <1>7, <1>8, <1>9, <1>10, <1>11, <1>12 DEF Safe

(* A loop that goes changes nothing of it.                                  *)
LEMMA LoopLeftSafe ==
  ASSUME Inv, Inv', Safe, ~Aborted, NEW l \in Loops, DestroyLoop(l)
  PROVE  Safe'
<1>1. TypeOK /\ Turns /\ Single
  BY DEF Inv, Safe
<1>2. /\ \A k \in Loops : lpc'[k] # "call" => lpc[k] # "call"
      /\ lpc'[0] \in {"left", "destroyed"}
      /\ UNCHANGED <<acceptReady, active, revents, queueVars, serverVars, conn, addr, user>>
  BY <1>1, LoopLeft
<1>3. Todo' = Todo /\ Gone'
  BY <1>2 DEF Todo, Jobs, Gone
<1>4. Turns'
  BY <1>1, <1>2 DEF Turns, Accepted
<1>5. Single'
  BY <1>1, <1>2, <1>3 DEF Single
<1> QED BY <1>2, <1>3, <1>4, <1>5, RoundSafe

(* The server is safe at the start,                                         *)
LEMMA SafeInit == Init => Safe
<1> SUFFICES ASSUME Init PROVE Safe
  OBVIOUS
<1> USE DEF Init
<1>1. Inv
  BY InvInit
<1>2. \A c \in Conns : conn[c].peer = "away" /\ ~Accepted(c) /\ ~conn[c].failed
  BY DEF NewConnection, Accepted
<1>3. Todo = {}
  <2>1. DOMAIN <<>> = {}
    OBVIOUS
  <2> QED BY <2>1 DEF Todo, Jobs, Items
<1>4. 0 \in Loops /\ Items(pending[0]) = {}
  BY LoopsAre DEF Items
<1>5. Turns /\ Named /\ Torn
  BY <1>3 DEF Turns, Named, Torn
<1>6. Addresses /\ Awaited
  BY <1>2 DEF Addresses, Served, Awaited
<1>7. Kept
  BY <1>2, <1>3 DEF Kept, Keeping
<1>8. Single
  BY <1>3, <1>4 DEF Single
<1> QED BY <1>5, <1>6, <1>7, <1>8 DEF Safe

(* and stays so by every step.                                              *)
LEMMA SafeStep == Inv /\ Inv' /\ Safe /\ [Next]_vars => Safe'
<1> SUFFICES ASSUME Inv, Inv', Safe, [Next]_vars PROVE Safe'
  OBVIOUS
<1>1. CASE UNCHANGED vars
  <2>1. /\ UNCHANGED <<loopVars, queueVars, serverVars, conn, addr, user>>
        /\ Turns /\ Single
    BY <1>1 DEF vars, Safe
  <2>2. Todo' = Todo /\ (Gone' <=> Gone)
    BY <2>1 DEF Todo, Jobs, Gone
  <2>3. Turns' /\ Single'
    BY <2>1, <2>2 DEF Turns, Single, Accepted
  <2>4. Named' /\ Addresses'
    BY <2>1 DEF Safe, Named, Name, Addresses, Dead, Accepted, Referenced, InQueue
  <2>5. Awaited' /\ Torn' /\ Kept'
    BY <2>1, <2>2 DEF Safe, Awaited, Torn, Kept, Keeping, Accepted
  <2> QED BY <2>3, <2>4, <2>5 DEF Safe
<1>2. CASE Next
  <2>1. ~Aborted /\ Step
    BY <1>2 DEF Next
  <2>2. CASE \E c \in Conns : Connect(c) \/ PeerSends(c) \/ PeerCloses(c) \/ PeerResets(c)
    BY <2>1, <2>2, PeersSafe
  <2>3. ASSUME NEW l \in Loops, LoopStep(l) PROVE Safe'
    <3>1. CASE Poll(l)
      BY <2>1, <3>1, PollSafe
    <3>2. CASE SwapPending(l)
      BY <2>1, <3>2, SwapSafe
    <3>3. CASE EndBatch(l)
      BY <2>1, <3>3, EndSafe
    <3>4. CASE \E c \in Conns : Handle(l, c)
      BY <2>1, <3>4, HandleSafe
    <3>5. CASE CallEstablished(l)
      BY <2>1, <3>5, EstablishedSafe
    <3>6. CASE CallDestroyed(l)
      BY <2>1, <3>6, DestroyedSafe
    <3>7. CASE CallForceClose(l)
      BY <2>1, <3>7, ForceCloseSafe
    <3>8. CASE CallRemove
      BY <2>1, <3>8, RemoveSafe
    <3>9. CASE \E c \in Conns : Accept(c) \/ Refuse(c)
      BY <2>1, <3>9, AcceptSafe, PeersSafe
    <3> QED BY <2>3, <3>1, <3>2, <3>3, <3>4, <3>5, <3>6, <3>7, <3>8, <3>9 DEF LoopStep
  <2>4. CASE \E c \in Conns : DestroyServer(c)
    BY <2>1, <2>4, ServerSafe
  <2>5. CASE \E l \in Loops : DestroyLoop(l)
    BY <2>1, <2>5, LoopLeftSafe
  <2> QED BY <2>1, <2>2, <2>3, <2>4, <2>5 DEF Step
<1> QED BY <1>1, <1>2 DEF Next

(* Both invariants hold.                                                    *)
LEMMA SafeInvariant == Spec => [](Inv /\ Safe)
<1>1. Init => Inv /\ Safe
  BY InvInit, SafeInit
<1>2. Inv /\ Safe /\ [Next]_vars => (Inv /\ Safe)'
  BY InvStep, SafeStep
<1> QED BY <1>1, <1>2, PTL DEF Spec

(* No assert of a connection fails, on any number of loops and connections, *)
(* except when ~TcpServer finds the connection still closing, when its loop *)
(* quits with its connectDestroyed still queued, or when a name was used    *)
(* twice.                                                                   *)
THEOREM NoAssertFails == Spec => []AssertsHold
<1>1. Inv /\ Safe => AssertsHold
  <2> SUFFICES ASSUME Inv, Safe PROVE AssertsHold
    OBVIOUS
  <2>1. Work /\ Named /\ Kept
    BY DEF Inv, Safe
  <2>2. ASSUME NEW c \in Conns, AssertFails(c), replaced = {}
        PROVE  (Gone /\ conn[c].state = "kDisconnecting") \/ Dropped(c)
    <3>1. Keeping(c)
      BY <2>1, <2>2 DEF Kept
    <3>2. ASSUME ~conn[c].failed PROVE Dropped(c)
      <4> DEFINE f == Functor("connectDestroyed", c)
      <4>1. Accepted(c) /\ ~Referenced(c) /\ ~Destructible(conn[c])
        BY <2>2, <3>2 DEF AssertFails, Dead
      <4>2. c \notin connections
        BY <4>1 DEF Referenced
      <4>3. f.conn = c /\ HoldsConn(f)
        BY DEF Functor, HoldsConn
      <4>4. PICK l \in Loops : f \in Jobs(l)
        BY <3>1, <3>2, <4>1, <4>2 DEF Keeping, Todo
      <4> HIDE DEF f
      <4>5. lpc[l] = "destroyed" /\ f \notin Items(batch[l])
        BY <4>1, <4>3, <4>4, InJobs
      <4>6. f \in Items(pending[l])
        BY <4>4, <4>5 DEF Jobs
      <4> QED BY <4>5, <4>6 DEF Items, Dropped, f
    <3> QED BY <3>1, <3>2 DEF Keeping
  <2> QED BY <2>1, <2>2 DEF AssertsHold, Named
<1> QED BY <1>1, SafeInvariant, PTL

(* No channel event and no functor meets a destroyed connection.            *)
THEOREM NothingCalledOnDead == Spec => []NoCallOnDead
<1>1. Inv /\ Safe => NoCallOnDead
  <2> SUFFICES ASSUME Inv, Safe PROVE NoCallOnDead
    OBVIOUS
  <2>1. TypeOK /\ Rounds /\ Work /\ Numbered /\ Turns /\ Named /\ Kept /\ Single
    BY DEF Inv, Safe
  <2>2. ASSUME NEW l \in Loops, NEW f \in Jobs(l), lpc[l] = "handle" \/ f \in Items(batch[l])
        PROVE  Referenced(f.conn) /\ f.conn \in Conns
    <3>1. f \in Todo
      BY DEF Todo
    <3>2. HoldsConn(f)
      BY <2>1 DEF Work, Entry, HoldsConn
    <3> QED BY <2>1, <2>2, <3>1, <3>2, InJobs, TodoFacts
  <2>3. ASSUME NEW l \in Loops, NEW c \in active[l] \ replaced PROVE ~Dead(c)
    <3>1. c \in Conns /\ Accepted(c) /\ io[c] = l /\ Running(c) /\ ~conn[c].failed
      BY <2>1, <2>3 DEF Rounds, TypeOK
    <3>2. CASE threadNum = 0
      <4>1. l = 0
        BY <2>1, <3>1, <3>2 DEF Numbered
      <4>2. c \in connections
        BY <2>1, <2>3, <3>2, <4>1 DEF Single
      <4> QED BY <4>2 DEF Dead, Referenced
    <3>3. CASE threadNum # 0
      <4>1. replaced = {}
        BY <2>1, <3>3 DEF Named
      <4>2. ~Destructible(conn[c])
        BY <3>1 DEF Running, Destructible
      <4>3. c \in connections \/ Functor("connectDestroyed", c) \in Todo
        BY <2>1, <3>1, <4>1, <4>2 DEF Kept, Keeping
      <4> DEFINE f == Functor("connectDestroyed", c)
      <4>4. f.conn = c /\ f.call = "connectDestroyed"
        BY DEF Functor
      <4>5. ASSUME f \in Todo PROVE Referenced(c)
        <5>1. PICK k \in Loops : f \in Jobs(k)
          BY <4>5 DEF Todo
        <5> HIDE DEF f
        <5>2. k = l
          BY <2>1, <3>1, <4>4, <5>1 DEF Work, Entry
        <5>3. lpc[l] = "handle"
          BY <2>1, <2>3 DEF Rounds
        <5> QED BY <2>2, <4>4, <5>1, <5>2, <5>3
      <4> QED BY <4>3, <4>5 DEF Referenced, Dead
    <3> QED BY <3>2, <3>3
  <2>4. ASSUME NEW l \in Loops, NEW i \in DOMAIN batch[l] PROVE ~Dead(batch[l][i].conn)
    <3>1. batch[l][i] \in Jobs(l) /\ batch[l][i] \in Items(batch[l])
      BY DEF Jobs, Items
    <3> QED BY <2>2, <3>1 DEF Dead
  <2> QED BY <2>3, <2>4 DEF NoCallOnDead
<1> QED BY <1>1, SafeInvariant, PTL

-----------------------------------------------------------------------------
(* With other threads of the user, which call send(), shutdown() and        *)
(* forceClose() whenever they like, no phase describes a connection any     *)
(* more.  What is left is that loops keep to their own connections and that *)
(* what is destroyed stays destroyed.                                       *)

Live == {"open", "eof", "reset"}

(* What the poller knows of each connection; before it is accepted the user *)
(* saw nothing of it.                                                       *)
Known == \A c \in Conns : Registered(conn[c]) /\ (Accepted(c) \/ conn[c].log = <<>>)

(* An active channel is of an accepted connection of the loop that handles  *)
(* it, which nothing tears down before.                                     *)
Handled ==
    \A l \in Loops : /\ lpc[l] # "handle" => active[l] = {}
                     /\ \A c \in active[l] : Accepted(c) /\ io[c] = l /\ conn[c].added

(* A functor is queued on the loop of its connection, but for               *)
(* removeConnectionInLoop.                                                  *)
Placed(l, f) == Accepted(f.conn) /\ (f.call # "removeConnectionInLoop" => io[f.conn] = l)

Callers == \A t \in Threads : user[t] \in Functors => Accepted(user[t].conn)

(* The invariant of ThreadedSpec. *)
Threaded ==
    /\ TypeOK /\ Numbered
    /\ Known /\ Handled /\ Callers
    /\ \A l \in Loops : \A f \in Jobs(l) : Placed(l, f)

(* The types of what the invariant does not speak of.                       *)
Others ==
    /\ nextConnId \in Nat /\ replaced \subseteq Conns /\ id \in [Conns -> Nat]
    /\ acceptReady \in BOOLEAN /\ revents \in [Conns -> SUBSET {"IN", "OUT", "ERR", "HUP"}]
    /\ called \in [Loops -> SUBSET Conns]

(* A step that makes s of c and queues at most f for it, on the loop k.     *)
Touches(c, s, k, f) ==
    /\ s \in Connections /\ Registered(s) /\ conn' = [conn EXCEPT ![c] = s]
    /\ s.peer \in Live \/ (~Accepted(c) /\ s.log = <<>>)
    /\ \/ UNCHANGED batch
       \/ \E l \in Loops : batch[l] # <<>> /\ batch' = [batch EXCEPT ![l] = Tail(@)]
    /\ \/ UNCHANGED pending
       \/ /\ pending' = queueInLoop(k, f, c) /\ s.peer \in Live
          /\ f # "removeConnectionInLoop" => io'[c] = k
    /\ connections' \subseteq connections \cup {c} /\ (c \in connections' => s.peer \in Live)
    /\ io' \in [Conns -> 0..threadNum]
    /\ \A d \in Conns : d # c \/ Accepted(c) => io'[d] = io[d]
    /\ active' \in [Loops -> SUBSET Conns]
    /\ \A l \in Loops : active'[l] \subseteq active[l] /\ (c \in active'[l] => s.added)
    /\ \A l \in Loops : called'[l] \subseteq called[l] \cup {c}
    /\ user' \in [Threads -> Functors \cup {Idle, Done}]
    /\ \A t \in Threads : user'[t] \in Functors => user'[t] = user[t]
    /\ \/ UNCHANGED lpc
       \/ lpc[0] \in {"poll", "left"} /\ lpc' = [lpc EXCEPT ![0] = "left"]
    /\ UNCHANGED <<threadNum, addr>> /\ Others'

(* What one functor called and one functor queued leave to each loop.       *)
LEMMA QueueStep ==
  ASSUME TypeOK, NEW c \in Conns, NEW k \in Loops, NEW f \in FunctorNames,
         \/ UNCHANGED batch
         \/ \E l \in Loops : batch[l] # <<>> /\ batch' = [batch EXCEPT ![l] = Tail(@)],
         UNCHANGED pending \/ pending' = queueInLoop(k, f, c)
  PROVE  /\ batch' \in [Loops -> Seq(Functors)] /\ pending' \in [Loops -> Seq(Functors)]
         /\ \A l \in Loops : \A g \in Jobs(l)' :
               g \in Jobs(l) \/ (l = k /\ g = Functor(f, c) /\ pending' # pending)
<1> DEFINE h == Functor(f, c)
<1>1. h \in Functors
  BY DEF Functor, Functors
<1>2. UNCHANGED pending \/ pending' = [pending EXCEPT ![k] = Append(@, h)]
  BY DEF queueInLoop
<1> HIDE DEF h
<1>3. ASSUME NEW l \in Loops
      PROVE  batch'[l] \in Seq(Functors) /\ Items(batch'[l]) \subseteq Items(batch[l])
  <2>1. batch[l] \in Seq(Functors)
    BY DEF TypeOK
  <2>2. batch'[l] = batch[l] \/ (batch[l] # <<>> /\ batch'[l] = Tail(batch[l]))
    BY DEF TypeOK
  <2>3. batch[l] # <<>> => /\ Tail(batch[l]) \in Seq(Functors)
                          /\ Items(Tail(batch[l])) \subseteq Items(batch[l])
    BY <2>1, ItemsOfTail
  <2> QED BY <2>1, <2>2, <2>3
<1>4. batch' \in [Loops -> Seq(Functors)]
  <2>1. batch' = batch \/ \E l \in Loops : batch' = [batch EXCEPT ![l] = Tail(@)]
    OBVIOUS
  <2> QED BY <1>3, <2>1 DEF TypeOK
<1>5. /\ Append(pending[k], h) \in Seq(Functors)
      /\ Items(Append(pending[k], h)) = Items(pending[k]) \cup {h}
  <2>1. pending[k] \in Seq(Functors)
    BY DEF TypeOK
  <2> QED BY <1>1, <2>1, ItemsOfAppend
<1>6. pending' \in [Loops -> Seq(Functors)]
  BY <1>2, <1>5 DEF TypeOK
<1>7. ASSUME NEW l \in Loops, NEW g \in Jobs(l)', g \notin Jobs(l)
      PROVE  l = k /\ g = h /\ pending' # pending
  <2>1. g \in Items(pending'[l]) /\ g \notin Items(pending[l])
    BY <1>3, <1>7 DEF Jobs
  <2>2. pending' = [pending EXCEPT ![k] = Append(@, h)] /\ pending' # pending
    BY <1>2, <2>1
  <2>3. pending'[l] = IF l = k THEN Append(pending[k], h) ELSE pending[l]
    BY <2>2 DEF TypeOK
  <2>4. l = k
    BY <2>1, <2>3
  <2> QED BY <1>5, <2>1, <2>2, <2>3, <2>4
<1> QED BY <1>4, <1>6, <1>7 DEF h

(* Such a step keeps the invariant.                                         *)
LEMMA TouchesKeeps ==
  ASSUME Threaded, NEW c \in Conns, NEW s, NEW k \in Loops, NEW f \in FunctorNames,
         Touches(c, s, k, f)
  PROVE  Threaded'
<1>1. /\ TypeOK /\ Numbered /\ Known /\ Handled /\ Callers
      /\ \A l \in Loops : \A g \in Jobs(l) : Placed(l, g)
  BY DEF Threaded
<1>2. /\ conn' \in [Conns -> Connections] /\ conn'[c] = s
      /\ \A d \in Conns \ {c} : conn'[d] = conn[d]
  BY <1>1 DEF Touches, TypeOK
<1>3. /\ \A d \in Conns : Accepted(d) => Accepted(d)' /\ io'[d] = io[d]
      /\ s.peer \in Live => Accepted(c)'
  <2>1. s.peer \in Live => Accepted(c)'
    BY <1>2 DEF Live, Accepted
  <2>2. ASSUME NEW d \in Conns, Accepted(d) PROVE Accepted(d)' /\ io'[d] = io[d]
    <3>1. io'[d] = io[d]
      BY <2>2 DEF Touches
    <3>2. d = c => s.peer \in Live
      BY <2>2 DEF Touches
    <3> QED BY <1>2, <2>1, <2>2, <3>1, <3>2 DEF Accepted
  <2> QED BY <2>1, <2>2
<1>4. /\ batch' \in [Loops -> Seq(Functors)] /\ pending' \in [Loops -> Seq(Functors)]
      /\ \A l \in Loops : \A g \in Jobs(l)' :
               g \in Jobs(l) \/ (l = k /\ g = Functor(f, c) /\ pending' # pending)
  <2>1. /\ \/ UNCHANGED batch
           \/ \E l \in Loops : batch[l] # <<>> /\ batch' = [batch EXCEPT ![l] = Tail(@)]
        /\ UNCHANGED pending \/ pending' = queueInLoop(k, f, c)
    BY DEF Touches
  <2> QED BY <1>1, <2>1, QueueStep
<1>5. connections' \subseteq connections \cup {c} /\ connections \subseteq Conns
  BY <1>1 DEF Touches, TypeOK
<1>6. threadNum' = threadNum /\ threadNum \in ThreadNums /\ 0..threadNum \subseteq Loops
  BY <1>1, LoopsAre DEF Touches, TypeOK
<1>13. /\ lpc' \in [Loops -> {"poll", "handle", "call", "left", "destroyed"}]
       /\ \A l \in Loops : lpc'[l] # "handle" => lpc[l] # "handle"
  BY <1>1 DEF Touches, TypeOK
<1>7. TypeOK'
  <2>1. io' \in [Conns -> Loops]
    BY <1>6 DEF Touches
  <2>2. connections' \subseteq Conns
    BY <1>5
  <2>3. /\ active' \in [Loops -> SUBSET Conns] /\ addr' = addr
        /\ user' \in [Threads -> Functors \cup {Idle, Done}] /\ Others'
    BY DEF Touches
  <2> QED BY <1>1, <1>2, <1>4, <1>6, <1>13, <2>1, <2>2, <2>3 DEF TypeOK, Others
<1>8. Numbered'
  <2>1. IsFiniteSet(connections')
    <3>1. IsFiniteSet(connections \cup {c})
      BY <1>1, FS_AddElement DEF Numbered
    <3> QED BY <1>5, <3>1, FS_Subset
  <2>2. ASSUME NEW d \in connections' PROVE Accepted(d)'
    <3>1. d = c => s.peer \in Live
      BY <2>2 DEF Touches
    <3>2. d # c => Accepted(d) /\ d \in Conns
      BY <1>1, <1>5, <2>2 DEF Numbered
    <3> QED BY <1>3, <3>1, <3>2
  <2>3. \A d \in Conns : io'[d] \in 0..threadNum
    BY DEF Touches
  <2> QED BY <1>6, <2>1, <2>2, <2>3 DEF Numbered
<1>9. Known'
  <2>1. ASSUME NEW d \in Conns
        PROVE  Registered(conn'[d]) /\ (Accepted(d)' \/ conn'[d].log = <<>>)
    <3>1. CASE d = c
      <4>1. Registered(s) /\ (s.peer \in Live \/ s.log = <<>>)
        BY DEF Touches
      <4> QED BY <1>2, <1>3, <3>1, <4>1
    <3>2. CASE d # c
      BY <1>1, <1>2, <1>3, <3>2 DEF Known
    <3> QED BY <3>1, <3>2
  <2> QED BY <2>1 DEF Known
<1>10. Handled'
  <2>1. ASSUME NEW l \in Loops, NEW d \in active'[l]
        PROVE  Accepted(d)' /\ io'[d] = l /\ conn'[d].added
    <3>1. d \in active[l] /\ (d = c => s.added) /\ d \in Conns
      BY <1>1, <2>1 DEF Touches, TypeOK
    <3>2. Accepted(d) /\ io[d] = l /\ conn[d].added
      BY <1>1, <3>1 DEF Handled
    <3> QED BY <1>2, <1>3, <3>1, <3>2
  <2>2. \A l \in Loops : lpc'[l] # "handle" => active'[l] = {}
    BY <1>1, <1>13 DEF Touches, Handled
  <2> QED BY <2>1, <2>2 DEF Handled
<1>11. Callers'
  <2>1. ASSUME NEW t \in Threads
        PROVE  (user[t] \in Functors => Accepted(user[t].conn))'
    <3>1. SUFFICES ASSUME user'[t] \in Functors PROVE Accepted(user[t].conn)'
      OBVIOUS
    <3>2. user'[t] = user[t]
      BY <3>1 DEF Touches
    <3>3. Accepted(user[t].conn) /\ user[t].conn \in Conns
      BY <1>1, <3>1, <3>2 DEF Callers, Functors
    <3> QED BY <1>3, <3>2, <3>3 DEF Accepted
  <2> QED BY <2>1 DEF Callers
<1>12. ASSUME NEW l \in Loops, NEW g \in Jobs(l)' PROVE Placed(l, g)'
  <2>1. CASE g \in Jobs(l)
    <3>1. Placed(l, g) /\ g.conn \in Conns
      BY <1>1, <2>1, JobsType DEF Functors
    <3> QED BY <1>3, <3>1 DEF Placed
  <2>2. CASE g \notin Jobs(l)
    <3>1. l = k /\ g = Functor(f, c) /\ pending' # pending
      BY <1>4, <2>2
    <3>2. s.peer \in Live /\ (f # "removeConnectionInLoop" => io'[c] = k)
      BY <3>1 DEF Touches
    <3>3. g.call = f /\ g.conn = c
      BY <3>1 DEF Functor
    <3> QED BY <1>3, <3>1, <3>2, <3>3 DEF Placed
  <2> QED BY <2>1, <2>2
<1> QED BY <1>7, <1>8, <1>9, <1>10, <1>11, <1>12 DEF Threaded

(* Some step touches one connection, and a dead one in nothing but the      *)
(* functor that is called.                                                  *)
Touching ==
    \E c \in Conns, k \in Loops, f \in FunctorNames : \E s :
       /\ Touches(c, s, k, f)
       /\ Dead(c) => conn' = conn /\ UNCHANGED <<pending, called, connections>>

(* A socket that is accepted.                                               *)
LEMMA LivePeer ==
  ASSUME TypeOK, NEW c \in Conns
  PROVE  conn[c] \in Connections /\ (Accepted(c) <=> conn[c].peer \in Live)
<1>1. conn[c] \in Connections
  BY DEF TypeOK
<1>2. conn[c].peer \in {"away", "waiting", "refused", "open", "eof", "reset"}
  BY <1>1, FieldTypes
<1> QED BY <1>1, <1>2 DEF Accepted, Live

(* The client's part, and a socket that is refused.                         *)
LEMMA PeersTouch ==
  ASSUME Threaded, NEW c \in Conns,
         Connect(c) \/ PeerSends(c) \/ PeerCloses(c) \/ PeerResets(c) \/ Refuse(c)
  PROVE  Touching
<1>1. TypeOK /\ Numbered /\ Known /\ Handled
  BY DEF Threaded
<1>2. PICK s \in Connections :
            /\ Keeps(s, conn[c], {"peer", "inbox", "error"})
            /\ Accepted(c) <=> s.peer \in {"open", "eof", "reset"}
            /\ conn' = [conn EXCEPT ![c] = s]
            /\ UNCHANGED <<lpc, active, revents, queueVars, serverVars, addr, user>>
            /\ acceptReady' \in BOOLEAN
  BY <1>1, PeersMake
<1>3. ~Dead(c)
  BY DEF Connect, PeerSends, PeerCloses, PeerResets, Refuse, Dead, Accepted
<1>4. s.added = conn[c].added /\ s.log = conn[c].log /\ Registered(s)
  BY <1>1, <1>2 DEF Keeps, Known, Registered
<1>5. s.peer \in Live <=> Accepted(c)
  BY <1>2 DEF Live
<1>6. Touches(c, s, 0, "sendInLoop")
  <2>1. s.peer \in Live \/ (~Accepted(c) /\ s.log = <<>>)
    BY <1>1, <1>4, <1>5 DEF Known
  <2>2. /\ connections' \subseteq connections \cup {c}
        /\ c \in connections' => s.peer \in Live
    BY <1>1, <1>2, <1>5 DEF Numbered
  <2>3. io' = io /\ io \in [Conns -> 0..threadNum]
    BY <1>1, <1>2 DEF Numbered, TypeOK
  <2>4. \A l \in Loops : active'[l] \subseteq active[l] /\ (c \in active'[l] => s.added)
    BY <1>1, <1>2, <1>4 DEF Handled
  <2>5. Others' /\ active' \in [Loops -> SUBSET Conns]
        /\ user' \in [Threads -> Functors \cup {Idle, Done}]
    BY <1>1, <1>2 DEF Others, TypeOK
  <2> QED BY <1>2, <1>4, <2>1, <2>2, <2>3, <2>4, <2>5 DEF Touches
<1>7. 0 \in Loops /\ "sendInLoop" \in FunctorNames
  BY LoopsAre DEF FunctorNames
<1> QED BY <1>3, <1>6, <1>7 DEF Touching

(* What a method made of c, after its close callback.                       *)
LEMMA AfterFollows ==
  ASSUME Threaded, NEW c \in Conns, NEW r, Follows(r, conn[c]), After(c, r)
  PROVE  \E k \in Loops, f \in FunctorNames : \E s :
            /\ Follows(s, conn[c]) /\ conn' = [conn EXCEPT ![c] = s]
            /\ \/ UNCHANGED pending
               \/ pending' = queueInLoop(k, f, c) /\ (f # "removeConnectionInLoop" => io[c] = k)
            /\ connections' \subseteq connections
<1>1. 0 \in Loops /\ {"connectDestroyed", "removeConnectionInLoop"} \subseteq FunctorNames
  BY LoopsAre DEF FunctorNames
<1>2. CASE ~(r.state = "kDisconnected" /\ conn[c].state # "kDisconnected")
  BY <1>1, <1>2 DEF After
<1>3. CASE removeConnection(c, r) /\ io[c] # 0
  BY <1>1, <1>3 DEF removeConnection
<1>4. CASE removeConnection(c, r) /\ io[c] = 0
  <2> DEFINE q == Erased(c) # connections
             s == Assert(r, q)
  <2>1. /\ connections' = Erased(c) /\ conn' = [conn EXCEPT ![c] = s]
        /\ pending' = queueInLoop(0, "connectDestroyed", c)
    BY <1>4 DEF removeConnection
  <2>2. q \in BOOLEAN
    OBVIOUS
  <2> HIDE DEF q
  <2>3. Follows(s, r)
    BY <2>2, FollowsAssert DEF Follows
  <2> HIDE DEF s
  <2>4. Follows(s, conn[c])
    BY <2>3, FollowsOn
  <2>5. connections' \subseteq connections
    BY <2>1 DEF Erased
  <2> QED BY <1>1, <1>4, <2>1, <2>4, <2>5
<1> QED BY <1>2, <1>3, <1>4 DEF After

(* A channel event: its connection is not torn down, so not destroyed.      *)
LEMMA HandleTouches ==
  ASSUME Threaded, ~Aborted, NEW l \in Loops, NEW c \in Conns, Handle(l, c)
  PROVE  Touching
<1>1. TypeOK /\ Numbered /\ Known /\ Handled
  BY DEF Threaded
<1>2. /\ c \in active[l] /\ active' = [active EXCEPT ![l] = @ \ {c}]
      /\ revents' = [revents EXCEPT ![c] = {}]
      /\ UNCHANGED <<lpc, acceptReady, batch, called, threadNum, nextConnId,
                     id, io, replaced, addr, user>>
  BY DEF Handle
<1>3. Accepted(c) /\ io[c] = l /\ conn[c].added /\ Registered(conn[c]) /\ conn[c] \in Connections
  BY <1>1, <1>2 DEF Handled, Known, TypeOK
<1>4. ~Dead(c)
  BY <1>3 DEF Aborted, AssertFails, Destructible
<1>5. PICK react \in Reactions, n \in 1..Chunk :
         \E r \in {handleEvent(conn[c], revents[c], react, Chunk, n)} :
            IF Forces(c, react)
            THEN /\ conn' = [conn EXCEPT ![c] = r]
                 /\ pending' = queueInLoop(l, "forceCloseInLoop", c)
                 /\ UNCHANGED connections
            ELSE After(c, r)
  BY DEF Handle
<1> DEFINE r == handleEvent(conn[c], revents[c], react, Chunk, n)
<1>6. Follows(r, conn[c])
  <2>1. Chunk \in Nat /\ n \in Nat
    BY DEF Chunk
  <2> QED BY <1>3, <2>1, FollowsEvents
<1>7. \/ /\ conn' = [conn EXCEPT ![c] = r]
         /\ pending' = queueInLoop(l, "forceCloseInLoop", c)
         /\ UNCHANGED connections
      \/ After(c, r)
  BY <1>5
<1> HIDE DEF r
<1>8. "forceCloseInLoop" \in FunctorNames
  BY DEF FunctorNames
<1>9. PICK k \in Loops, f \in FunctorNames : \E s :
            /\ Follows(s, conn[c]) /\ conn' = [conn EXCEPT ![c] = s]
            /\ \/ UNCHANGED pending
               \/ pending' = queueInLoop(k, f, c) /\ (f # "removeConnectionInLoop" => io[c] = k)
            /\ connections' \subseteq connections
  <2>1. CASE After(c, r)
    BY <1>6, <2>1, AfterFollows
  <2>2. CASE ~After(c, r)
    BY <1>3, <1>6, <1>7, <1>8, <2>2
  <2> QED BY <2>1, <2>2
<1>10. PICK s :
            /\ Follows(s, conn[c]) /\ conn' = [conn EXCEPT ![c] = s]
            /\ \/ UNCHANGED pending
               \/ pending' = queueInLoop(k, f, c) /\ (f # "removeConnectionInLoop" => io[c] = k)
            /\ connections' \subseteq connections
  BY <1>9
<1>11. s \in Connections /\ Registered(s) /\ s.peer \in Live /\ s.added
  BY <1>1, <1>3, <1>10, LivePeer DEF Follows
<1>12. Touches(c, s, k, f)
  <2>1. io' = io /\ io \in [Conns -> 0..threadNum]
    BY <1>1, <1>2 DEF Numbered, TypeOK
  <2>2. active' \in [Loops -> SUBSET Conns] /\ \A m \in Loops : active'[m] \subseteq active[m]
    BY <1>1, <1>2 DEF TypeOK
  <2>3. Others' /\ user' \in [Threads -> Functors \cup {Idle, Done}]
    BY <1>1, <1>2 DEF Others, TypeOK
  <2>4. connections' \subseteq connections \cup {c}
    BY <1>10
  <2>5. called' = called /\ user' = user /\ batch' = batch /\ lpc' = lpc
        /\ threadNum' = threadNum /\ addr' = addr
    BY <1>2
  <2> QED BY <1>10, <1>11, <2>1, <2>2, <2>3, <2>4, <2>5 DEF Touches
<1> QED BY <1>4, <1>12 DEF Touching

(* A functor that is called is of a connection of its loop, which handles   *)
(* no events at that time; it holds the connection, but for sendInLoop.     *)
LEMMA CallOf ==
  ASSUME Threaded, NEW l \in Loops, NEW f, Call(l, f)
  PROVE  LET c == First(l).conn IN
         /\ c \in Conns /\ Accepted(c) /\ First(l).call = f /\ f \in FunctorNames
         /\ f # "removeConnectionInLoop" => io[c] = l /\ \A k \in Loops : c \notin active[k]
         /\ f # "sendInLoop" => ~Dead(c)
         /\ f = "sendInLoop" => called' = called
         /\ batch[l] # <<>> /\ batch' = [batch EXCEPT ![l] = Tail(@)]
         /\ UNCHANGED <<loopVars, threadNum, nextConnId, id, io, replaced, addr, user>>
         /\ called' \in [Loops -> SUBSET Conns]
         /\ \A k \in Loops : called'[k] \subseteq called[k] \cup {c}
<1>1. /\ TypeOK /\ Handled /\ \A k \in Loops : \A g \in Jobs(k) : Placed(k, g)
  BY DEF Threaded
<1>2. /\ lpc[l] = "call" /\ batch[l] # <<>> /\ batch' = [batch EXCEPT ![l] = Tail(@)]
      /\ First(l).call = f
      /\ UNCHANGED <<loopVars, threadNum, nextConnId, id, io, replaced, addr, user>>
      /\ called' = [called EXCEPT ![l] =
                      IF HoldsConn(First(l)) THEN @ \cup {First(l).conn} ELSE @]
  BY DEF Call
<1>3. First(l) \in Items(batch[l]) /\ First(l) \in Functors
  <2>1. batch[l] \in Seq(Functors)
    BY <1>1 DEF TypeOK
  <2> QED BY <1>2, <2>1, ItemsOfTail DEF First
<1>4. First(l) \in Jobs(l)
  BY <1>3 DEF Jobs
<1> DEFINE c == First(l).conn
<1>5. c \in Conns /\ f \in FunctorNames
  BY <1>2, <1>3 DEF Functors
<1>6. Accepted(c) /\ (f # "removeConnectionInLoop" => io[c] = l)
  BY <1>1, <1>2, <1>4 DEF Placed
<1>7. f # "removeConnectionInLoop" => \A k \in Loops : c \notin active[k]
  BY <1>1, <1>2, <1>6 DEF Handled
<1>8. f # "sendInLoop" => ~Dead(c)
  <2> SUFFICES ASSUME f # "sendInLoop" PROVE Referenced(c)
    BY DEF Dead
  <2>1. HoldsConn(First(l))
    BY <1>2 DEF HoldsConn
  <2>2. InQueue(c, batch[l])
    BY <1>3, <2>1 DEF Items, InQueue
  <2> QED BY <2>2 DEF Referenced
<1>9. /\ called' \in [Loops -> SUBSET Conns]
      /\ \A k \in Loops : called'[k] \subseteq called[k] \cup {c}
      /\ f = "sendInLoop" => called' = called
  BY <1>1, <1>2, <1>5 DEF TypeOK, HoldsConn
<1> QED BY <1>2, <1>5, <1>6, <1>7, <1>8, <1>9

(* What it made of the connection, and what it queued.                      *)
LEMMA CallTouches ==
  ASSUME Threaded, NEW l \in Loops, NEW f, Call(l, f), NEW c \in Conns, c = First(l).conn,
         NEW s \in Connections, Registered(s), s.peer = conn[c].peer,
         conn' = [conn EXCEPT ![c] = s],
         f = "removeConnectionInLoop" => (conn[c].added => s.added),
         NEW k \in Loops, NEW g \in FunctorNames,
         \/ UNCHANGED pending
         \/ pending' = queueInLoop(k, g, c) /\ (g # "removeConnectionInLoop" => io[c] = k),
         connections' \subseteq connections
  PROVE  Touches(c, s, k, g)
<1>1. TypeOK /\ Numbered /\ Handled
  BY DEF Threaded
<1>2. /\ Accepted(c) /\ batch[l] # <<>> /\ batch' = [batch EXCEPT ![l] = Tail(@)]
      /\ f # "removeConnectionInLoop" => \A j \in Loops : c \notin active[j]
      /\ UNCHANGED <<loopVars, threadNum, nextConnId, id, io, replaced, addr, user>>
      /\ called' \in [Loops -> SUBSET Conns]
      /\ \A j \in Loops : called'[j] \subseteq called[j] \cup {c}
  BY CallOf
<1>3. s.peer \in Live
  BY <1>1, <1>2, LivePeer
<1>4. \A j \in Loops : active'[j] \subseteq active[j] /\ (c \in active'[j] => s.added)
  BY <1>1, <1>2 DEF Handled
<1>5. io' = io /\ io \in [Conns -> 0..threadNum]
  BY <1>1, <1>2 DEF Numbered, TypeOK
<1>6. Others' /\ active' \in [Loops -> SUBSET Conns]
      /\ user' = user /\ user \in [Threads -> Functors \cup {Idle, Done}]
  BY <1>1, <1>2 DEF Others, TypeOK
<1>7. lpc' = lpc /\ threadNum' = threadNum /\ addr' = addr
  BY <1>2
<1>8. \E j \in Loops : batch[j] # <<>> /\ batch' = [batch EXCEPT ![j] = Tail(@)]
  BY <1>2
<1> QED BY <1>2, <1>3, <1>4, <1>5, <1>6, <1>7, <1>8 DEF Touches

(* The functors, those other threads queue among them.                      *)
LEMMA FunctorsTouch ==
  ASSUME Threaded, ~Aborted, NEW l \in Loops,
         \/ CallEstablished(l) \/ CallDestroyed(l) \/ CallForceClose(l)
         \/ l = 0 /\ CallRemove
         \/ CallShutdown(l) \/ CallSend(l)
  PROVE  Touching
<1>1. TypeOK /\ Known
  BY DEF Threaded
<1>2. PICK f \in FunctorNames : Call(l, f)
  BY DEF CallEstablished, CallDestroyed, CallForceClose, CallRemove, CallShutdown,
         CallSend, FunctorNames
<1> DEFINE c == First(l).conn
<1>3. /\ c \in Conns /\ First(l).call = f
      /\ f # "sendInLoop" => ~Dead(c)
      /\ f = "sendInLoop" => called' = called
  BY <1>2, CallOf
<1>4. conn[c] \in Connections /\ Registered(conn[c])
  BY <1>1, <1>3 DEF TypeOK, Known
<1>5. c = First(l).conn
  OBVIOUS
<1>6. ASSUME NEW s, Follows(s, conn[c]), conn' = [conn EXCEPT ![c] = s],
             UNCHANGED <<connections, pending>>,
             f = "sendInLoop" => (Dead(c) => s = conn[c])
      PROVE  Touching
  <2> HIDE DEF c
  <2>1. s \in Connections /\ Registered(s) /\ s.peer = conn[c].peer
        /\ (conn[c].added => s.added)
    BY <1>6 DEF Follows
  <2>2. Touches(c, s, l, f)
    BY <1>2, <1>3, <1>5, <1>6, <2>1, CallTouches
  <2>3. Dead(c) => conn' = conn /\ UNCHANGED <<pending, called, connections>>
    <3>1. s = conn[c] => conn' = conn
      BY <1>1, <1>6 DEF TypeOK
    <3> QED BY <1>3, <1>6, <3>1
  <2> QED BY <1>3, <2>2, <2>3 DEF Touching
<1>7. CASE CallEstablished(l)
  <2>1. /\ conn' = [conn EXCEPT ![c] = connectEstablished(conn[c])]
        /\ UNCHANGED <<connections, pending>> /\ f = "connectEstablished"
    BY <1>3, <1>7 DEF CallEstablished, Call
  <2>2. Follows(connectEstablished(conn[c]), conn[c])
    BY <1>4, FollowsEstablished
  <2> HIDE DEF c
  <2> QED BY <1>6, <2>1, <2>2
<1>8. CASE CallShutdown(l)
  <2>1. /\ conn' = [conn EXCEPT ![c] = shutdownInLoop(conn[c])]
        /\ UNCHANGED <<connections, pending>> /\ f = "shutdownInLoop"
    BY <1>3, <1>8 DEF CallShutdown, Call
  <2>2. Follows(shutdownInLoop(conn[c]), conn[c])
    BY <1>4, FollowsInLoop, 0 \in Nat
  <2> HIDE DEF c
  <2> QED BY <1>6, <2>1, <2>2
<1>9. CASE CallSend(l)
  <2>1. /\ conn' = [conn EXCEPT ![c] = sendInLoop(conn[c], Chunk)]
        /\ UNCHANGED <<connections, pending>> /\ f = "sendInLoop"
    BY <1>3, <1>9 DEF CallSend, Call
  <2>2. Follows(sendInLoop(conn[c], Chunk), conn[c])
    BY <1>4, FollowsInLoop DEF Chunk
  <2>3. Dead(c) => sendInLoop(conn[c], Chunk) = conn[c]
    BY <1>3 DEF Aborted, AssertFails, Destructible, sendInLoop
  <2> HIDE DEF c
  <2> QED BY <1>6, <2>1, <2>2, <2>3
<1>10. CASE CallDestroyed(l)
  <2> DEFINE s == connectDestroyed(conn[c])
  <2>1. conn' = [conn EXCEPT ![c] = s] /\ UNCHANGED <<connections, pending>>
        /\ f = "connectDestroyed"
    BY <1>3, <1>10 DEF CallDestroyed, Call
  <2>2. s \in Connections /\ s.peer = conn[c].peer /\ Registered(s)
    BY <1>4, FollowsDestroy
  <2> HIDE DEF c, s
  <2>3. Touches(c, s, l, f)
    BY <1>2, <1>3, <1>5, <2>1, <2>2, CallTouches
  <2> QED BY <1>3, <2>1, <2>3 DEF Touching
<1>11. CASE CallForceClose(l)
  <2> DEFINE r == forceCloseInLoop(conn[c])
  <2>1. After(c, r) /\ f = "forceCloseInLoop"
    BY <1>3, <1>11 DEF CallForceClose, Call
  <2>2. Follows(r, conn[c])
    BY <1>4, FollowsInLoop, 0 \in Nat
  <2> HIDE DEF c, r
  <2>3. PICK k \in Loops, g \in FunctorNames : \E s :
            /\ Follows(s, conn[c]) /\ conn' = [conn EXCEPT ![c] = s]
            /\ \/ UNCHANGED pending
               \/ pending' = queueInLoop(k, g, c) /\ (g # "removeConnectionInLoop" => io[c] = k)
            /\ connections' \subseteq connections
    BY <1>3, <2>1, <2>2, AfterFollows
  <2>4. PICK s :
            /\ Follows(s, conn[c]) /\ conn' = [conn EXCEPT ![c] = s]
            /\ \/ UNCHANGED pending
               \/ pending' = queueInLoop(k, g, c) /\ (g # "removeConnectionInLoop" => io[c] = k)
            /\ connections' \subseteq connections
    BY <2>3
  <2>5. s \in Connections /\ Registered(s) /\ s.peer = conn[c].peer
    BY <2>4 DEF Follows
  <2>6. Touches(c, s, k, g)
    BY <1>2, <1>3, <1>5, <2>1, <2>4, <2>5, CallTouches
  <2> QED BY <1>3, <2>1, <2>6 DEF Touching
<1>12. CASE l = 0 /\ CallRemove
  <2> DEFINE q == Erased(c) # connections
             s == Assert(conn[c], q)
  <2>1. /\ connections' = Erased(c) /\ conn' = [conn EXCEPT ![c] = s]
        /\ pending' = queueInLoop(io[c], "connectDestroyed", c)
        /\ f = "removeConnectionInLoop"
    BY <1>3, <1>12 DEF CallRemove, Call
  <2>2. q \in BOOLEAN
    OBVIOUS
  <2>3. connections' \subseteq connections
    BY <2>1 DEF Erased
  <2>4. io[c] \in Loops /\ "connectDestroyed" \in FunctorNames
    BY <1>1, <1>3 DEF TypeOK, FunctorNames
  <2> HIDE DEF c, q
  <2>5. Follows(s, conn[c])
    BY <1>4, <2>2, FollowsAssert
  <2> HIDE DEF s
  <2>6. s \in Connections /\ Registered(s) /\ s.peer = conn[c].peer
        /\ (conn[c].added => s.added)
    BY <2>5 DEF Follows
  <2>7. PICK k \in Loops : k = io[c]
    BY <2>4
  <2>8. Touches(c, s, k, "connectDestroyed")
    BY <1>2, <1>3, <1>5, <2>1, <2>3, <2>4, <2>6, <2>7, CallTouches
  <2> QED BY <1>3, <2>1, <2>4, <2>8 DEF Touching
<1> QED BY <1>7, <1>8, <1>9, <1>10, <1>11, <1>12

(* A socket that is accepted.                                               *)
LEMMA AcceptTouches ==
  ASSUME Threaded, NEW c \in Conns, Accept(c)
  PROVE  Touching
<1>1. TypeOK /\ Numbered /\ Known /\ Handled
  BY DEF Threaded
<1> DEFINE opened == [conn[c] EXCEPT !.peer = "open"]
           s == IF NextLoop = 0 THEN connectEstablished(opened) ELSE opened
           same == {d \in connections : Name(d) = <<addr[c], NextNumber>>}
<1>2. /\ conn[c].peer = "waiting"
      /\ acceptReady' = FALSE /\ nextConnId' = NextNumber
      /\ id' = [id EXCEPT ![c] = NextNumber] /\ io' = [io EXCEPT ![c] = NextLoop]
      /\ connections' = (connections \ same) \cup {c} /\ replaced' = replaced \cup same
      /\ UNCHANGED <<lpc, active, revents, batch, called, threadNum, addr, user>>
  BY DEF Accept
<1>3. /\ conn' = [conn EXCEPT ![c] = s]
      /\ UNCHANGED pending \/ pending' = queueInLoop(NextLoop, "connectEstablished", c)
  BY DEF Accept
<1>4. ~Accepted(c) /\ ~Dead(c)
  BY <1>2 DEF Accepted, Dead
<1>5. s \in Connections /\ Registered(s) /\ s.peer \in Live
  <2>1. opened \in Connections /\ opened.peer = "open" /\ Keeps(opened, conn[c], {"peer"})
    <3>1. conn[c] \in Connections
      BY <1>1 DEF TypeOK
    <3>2. "open" \in {"away", "waiting", "refused", "open", "eof", "reset"}
      OBVIOUS
    <3> QED BY <3>1, <3>2, SetPeer
  <2> HIDE DEF opened
  <2>2. Registered(opened)
    BY <1>1, <2>1 DEF Known, Registered, Keeps
  <2>3. Follows(connectEstablished(opened), opened)
    BY <2>1, <2>2, FollowsEstablished
  <2> QED BY <2>1, <2>2, <2>3 DEF Follows, Live
<1>6. NextLoop \in 0..threadNum /\ NextLoop \in Loops /\ NextNumber \in Nat
  <2>1. threadNum \in Nat /\ threadNum \in ThreadNums /\ nextConnId \in Nat
    BY <1>1, ThreadsAssumption DEF TypeOK
  <2>2. threadNum # 0 => nextConnId % threadNum \in 0..(threadNum - 1)
    BY <2>1
  <2>3. NextLoop \in 0..threadNum /\ NextNumber \in Nat
    BY <2>1, <2>2 DEF NextLoop, NextNumber
  <2> QED BY <2>1, <2>3, LoopsAre
<1>7. /\ connections' \subseteq connections \cup {c}
      /\ replaced' \subseteq Conns
  BY <1>1, <1>2 DEF TypeOK
<1> HIDE DEF opened, s, same
<1>8. Touches(c, s, NextLoop, "connectEstablished")
  <2>1. io' \in [Conns -> 0..threadNum] /\ io'[c] = NextLoop
        /\ \A d \in Conns \ {c} : io'[d] = io[d]
    BY <1>1, <1>2, <1>6 DEF Numbered, TypeOK
  <2>2. \A l \in Loops : active'[l] \subseteq active[l] /\ (c \in active'[l] => s.added)
    BY <1>1, <1>2, <1>4 DEF Handled
  <2>3. Others' /\ active' \in [Loops -> SUBSET Conns]
        /\ user' = user /\ user \in [Threads -> Functors \cup {Idle, Done}]
    BY <1>1, <1>2, <1>6, <1>7 DEF Others, TypeOK
  <2>4. lpc' = lpc /\ threadNum' = threadNum /\ addr' = addr /\ called' = called
        /\ batch' = batch
    BY <1>2
  <2>5. \A d \in Conns : d # c \/ Accepted(c) => io'[d] = io[d]
    BY <1>4, <2>1
  <2> QED BY <1>3, <1>5, <1>7, <2>1, <2>2, <2>3, <2>4, <2>5 DEF Touches
<1>9. "connectEstablished" \in FunctorNames
  BY DEF FunctorNames
<1>10. PICK k \in Loops : k = NextLoop
  BY <1>6
<1> QED BY <1>4, <1>8, <1>9, <1>10 DEF Touching

(* A thread of the user goes on with the call it is in, holding what it     *)
(* calls.                                                                   *)
LEMMA UserTouches ==
  ASSUME Threaded, NEW t \in Threads, UserQueues(t)
  PROVE  Touching
<1>1. TypeOK /\ Numbered /\ Known /\ Handled /\ Callers
  BY DEF Threaded
<1> DEFINE c == user[t].conn
           f == user[t].call
           s == [conn[c] EXCEPT !.state = IF f = "sendInLoop" THEN @ ELSE "kDisconnecting"]
<1>2. /\ user[t] \in Functors /\ c \in Conns /\ f \in FunctorNames
      /\ conn' = [conn EXCEPT ![c] = s]
      /\ pending' = queueInLoop(io[c], f, c)
      /\ user' = [user EXCEPT ![t] = Done]
      /\ UNCHANGED <<loopVars, batch, called, serverVars, addr>>
  BY DEF UserQueues, Functors
<1>3. Accepted(c) /\ conn[c] \in Connections /\ Registered(conn[c])
      /\ conn[c].peer \in Live
  BY <1>1, <1>2, LivePeer DEF Callers, Known, TypeOK
<1>4. ~Dead(c)
  BY <1>2 DEF Dead, Referenced
<1>5. Follows(s, conn[c])
  <2>1. s = [conn[c] EXCEPT !.state = IF f = "sendInLoop" THEN conn[c].state ELSE "kDisconnecting"]
    OBVIOUS
  <2>2. (IF f = "sendInLoop" THEN conn[c].state ELSE "kDisconnecting") \in States
    BY <1>3, FieldTypes DEF States
  <2> HIDE DEF f, c
  <2>3. s \in Connections /\ Keeps(s, conn[c], {"state"})
    BY <1>3, <2>1, <2>2, SetState
  <2> HIDE DEF s
  <2> QED BY <1>3, <2>3, FollowsSet DEF Keeps
<1>6. user' \in [Threads -> Functors \cup {Idle, Done}]
      /\ \A u \in Threads : user'[u] \in Functors => user'[u] = user[u]
  <2>1. Done \notin Functors
    BY DEF Done, Functors, FunctorNames
  <2>2. user' = [user EXCEPT ![t] = Done] /\ user \in [Threads -> Functors \cup {Idle, Done}]
    BY <1>1, <1>2 DEF TypeOK
  <2> HIDE DEF Done
  <2> QED BY <2>1, <2>2
<1> HIDE DEF s
<1>7. Touches(c, s, io[c], f)
  <2> HIDE DEF c, f
  <2>1. s \in Connections /\ Registered(s) /\ s.peer \in Live /\ (conn[c].added => s.added)
    BY <1>3, <1>5 DEF Follows
  <2>2. io' = io /\ io \in [Conns -> 0..threadNum]
    BY <1>1, <1>2 DEF Numbered, TypeOK
  <2>3. \A l \in Loops : active'[l] \subseteq active[l] /\ (c \in active'[l] => s.added)
    BY <1>1, <1>2, <2>1 DEF Handled
  <2>4. Others' /\ active' \in [Loops -> SUBSET Conns]
    BY <1>1, <1>2 DEF Others, TypeOK
  <2>5. lpc' = lpc /\ threadNum' = threadNum /\ addr' = addr /\ called' = called
        /\ batch' = batch /\ connections' = connections
    BY <1>2
  <2> QED BY <1>2, <1>6, <2>1, <2>2, <2>3, <2>4, <2>5 DEF Touches
<1>8. \E k \in Loops : k = io[c]
  BY <1>1, <1>2 DEF TypeOK
<1> HIDE DEF c, f
<1> QED BY <1>2, <1>4, <1>7, <1>8 DEF Touching

(* A round begins with the channels that are ready, all of the loop's own.  *)
LEMMA PollThreaded ==
  ASSUME Threaded, NEW l \in Loops, Poll(l)
  PROVE  Threaded' /\ UNCHANGED <<batch, pending, called, connections, conn, user>>
<1>1. /\ TypeOK /\ Numbered /\ Known /\ Handled /\ Callers
      /\ \A k \in Loops : \A f \in Jobs(k) : Placed(k, f)
  BY DEF Threaded
<1>2. /\ active' = [active EXCEPT ![l] = ReadyIn(l)]
      /\ revents' = [c \in Conns |-> IF c \in ReadyIn(l) THEN Ready(conn[c]) ELSE revents[c]]
      /\ acceptReady' = IF l = 0 THEN Waiting # {} ELSE acceptReady
      /\ lpc' = [lpc EXCEPT ![l] = "handle"]
      /\ UNCHANGED <<queueVars, serverVars, conn, addr, user>>
  BY DEF Poll
<1>3. ASSUME NEW c \in ReadyIn(l)
      PROVE  c \in Conns /\ Accepted(c) /\ io[c] = l /\ conn[c].added
  <2>1. c \in Conns /\ Accepted(c) /\ io[c] = l /\ conn[c].polled
    BY DEF ReadyIn, Ready
  <2> QED BY <1>1, <2>1 DEF Known, Registered
<1>4. \A c \in Conns : Ready(conn[c]) \subseteq {"IN", "OUT", "ERR", "HUP"}
  BY DEF Ready
<1>5. TypeOK'
  <2>1. active' \in [Loops -> SUBSET Conns]
    BY <1>1, <1>2, <1>3 DEF TypeOK
  <2>2. revents' \in [Conns -> SUBSET {"IN", "OUT", "ERR", "HUP"}]
    BY <1>1, <1>2, <1>4 DEF TypeOK
  <2>3. acceptReady' \in BOOLEAN /\ lpc' \in [Loops -> {"poll", "handle", "call", "left", "destroyed"}]
    BY <1>1, <1>2 DEF TypeOK
  <2> QED BY <1>1, <1>2, <2>1, <2>2, <2>3 DEF TypeOK
<1>6. Handled'
  <2>1. ASSUME NEW k \in Loops
        PROVE  /\ lpc'[k] # "handle" => active'[k] = {}
               /\ \A c \in active'[k] : Accepted(c) /\ io[c] = k /\ conn[c].added
    BY <1>1, <1>2, <1>3 DEF Handled, TypeOK
  <2> QED BY <1>2, <2>1 DEF Handled, Accepted
<1>7. Numbered' /\ Known' /\ Callers' /\ \A k \in Loops : \A f \in Jobs(k)' : Placed(k, f)'
  BY <1>1, <1>2 DEF Numbered, Known, Callers, Accepted, Jobs, Placed
<1> QED BY <1>2, <1>5, <1>6, <1>7 DEF Threaded

(* doPendingFunctors takes the queue and ends with the batch.               *)
LEMMA BatchThreaded ==
  ASSUME Threaded, NEW l \in Loops, SwapPending(l) \/ EndBatch(l)
  PROVE  /\ Threaded' /\ UNCHANGED <<connections, conn, user>>
         /\ \A k \in Loops : called'[k] \subseteq called[k] /\ Jobs(k)' \subseteq Jobs(k)
<1>1. /\ TypeOK /\ Numbered /\ Known /\ Handled /\ Callers
      /\ \A k \in Loops : \A f \in Jobs(k) : Placed(k, f)
  BY DEF Threaded
<1>2. /\ \E p \in {"poll", "call"} : lpc' = [lpc EXCEPT ![l] = p]
      /\ active[l] = {}
      /\ UNCHANGED <<acceptReady, active, revents, serverVars, conn, addr, user>>
  BY <1>1 DEF SwapPending, EndBatch, Handled
<1>3. /\ batch' \in [Loops -> Seq(Functors)] /\ pending' \in [Loops -> Seq(Functors)]
      /\ called' \in [Loops -> SUBSET Conns]
      /\ \A k \in Loops : called'[k] \subseteq called[k] /\ Jobs(k)' \subseteq Jobs(k)
  <2>1. CASE EndBatch(l)
    <3>1. called' = [called EXCEPT ![l] = {}] /\ UNCHANGED <<pending, batch>>
      BY <2>1 DEF EndBatch
    <3> QED BY <1>1, <3>1 DEF TypeOK, Jobs
  <2>2. CASE SwapPending(l)
    <3>1. /\ batch' = [batch EXCEPT ![l] = pending[l]]
          /\ pending' = [pending EXCEPT ![l] = <<>>] /\ called' = called
      BY <2>2 DEF SwapPending
    <3>2. <<>> \in Seq(Functors) /\ Items(<<>>) = {}
      BY EmptySeq DEF Items
    <3>3. /\ batch' \in [Loops -> Seq(Functors)] /\ pending' \in [Loops -> Seq(Functors)]
          /\ called' \in [Loops -> SUBSET Conns]
      BY <1>1, <3>1, <3>2 DEF TypeOK
    <3>4. ASSUME NEW k \in Loops PROVE Jobs(k)' \subseteq Jobs(k)
      <4>1. CASE k = l
        <5>1. batch'[k] = pending[k] /\ pending'[k] = <<>>
          BY <1>1, <3>1, <4>1 DEF TypeOK
        <5> QED BY <3>2, <5>1 DEF Jobs
      <4>2. CASE k # l
        <5>1. batch'[k] = batch[k] /\ pending'[k] = pending[k]
          BY <1>1, <3>1, <4>2 DEF TypeOK
        <5> QED BY <5>1 DEF Jobs
      <4> QED BY <4>1, <4>2
    <3> QED BY <3>1, <3>3, <3>4
  <2> QED BY <2>1, <2>2
<1>4. lpc' \in [Loops -> {"poll", "handle", "call", "left", "destroyed"}]
  BY <1>1, <1>2 DEF TypeOK
<1>5. TypeOK'
  BY <1>1, <1>2, <1>3, <1>4 DEF TypeOK
<1>6. Handled'
  BY <1>1, <1>2 DEF Handled, TypeOK, Accepted
<1>7. Numbered' /\ Known' /\ Callers'
  BY <1>1, <1>2 DEF Numbered, Known, Callers, Accepted
<1>8. \A k \in Loops : \A f \in Jobs(k)' : Placed(k, f)'
  BY <1>1, <1>2, <1>3 DEF Placed, Accepted
<1> QED BY <1>2, <1>3, <1>5, <1>6, <1>7, <1>8 DEF Threaded

(* A thread of the user begins a call on a connection that came up.         *)
LEMMA UserThreaded ==
  ASSUME Threaded, NEW t \in Threads, NEW c \in Conns, NEW f \in FunctorNames, UserTests(t, c, f)
  PROVE  /\ Threaded' /\ UNCHANGED <<batch, pending, called, connections, conn>>
         /\ user' = [user EXCEPT ![t] = Functor(f, c)] /\ ~Dead(c)
<1>1. /\ TypeOK /\ Numbered /\ Known /\ Handled /\ Callers
      /\ \A k \in Loops : \A g \in Jobs(k) : Placed(k, g)
  BY DEF Threaded
<1>2. /\ conn[c].log # <<>> /\ ~Dead(c)
      /\ user' = [user EXCEPT ![t] = Functor(f, c)]
      /\ UNCHANGED <<loopVars, queueVars, serverVars, conn, addr>>
  BY DEF UserTests
<1>3. Accepted(c) /\ Functor(f, c) \in Functors /\ Functor(f, c).conn = c
  BY <1>1, <1>2 DEF Known, Functor, Functors
<1>4. user' \in [Threads -> Functors \cup {Idle, Done}]
  BY <1>1, <1>2, <1>3 DEF TypeOK
<1>5. Callers'
  <2>1. ASSUME NEW u \in Threads
        PROVE  (user[u] \in Functors => Accepted(user[u].conn))'
    <3>1. user'[u] = user[u] \/ user'[u] = Functor(f, c)
      BY <1>1, <1>2 DEF TypeOK
    <3> QED BY <1>1, <1>2, <1>3, <3>1 DEF Callers, Accepted
  <2> QED BY <2>1 DEF Callers
<1>6. TypeOK'
  BY <1>1, <1>2, <1>4 DEF TypeOK
<1>7. Numbered' /\ Known' /\ Handled' /\ \A k \in Loops : \A g \in Jobs(k)' : Placed(k, g)'
  BY <1>1, <1>2 DEF Numbered, Known, Handled, Accepted, Jobs, Placed
<1> QED BY <1>2, <1>5, <1>6, <1>7 DEF Threaded

(* ~TcpServer tears down a connection of the map, on its loop.              *)
LEMMA ServerTouches ==
  ASSUME Threaded, NEW c \in Conns, DestroyServer(c)
  PROVE  Touching
<1>1. TypeOK /\ Numbered /\ Known /\ Handled
  BY DEF Threaded
<1> DEFINE s == IF io[c] = 0 THEN connectDestroyed(conn[c]) ELSE conn[c]
<1>2. /\ lpc[0] \in {"poll", "left"} /\ lpc' = [lpc EXCEPT ![0] = "left"]
      /\ c \in connections /\ connections' \subseteq connections
      /\ UNCHANGED <<acceptReady, active, revents, batch, called, threadNum, nextConnId,
                     id, io, replaced, addr, user>>
  BY DEF DestroyServer, Left
<1>3. /\ conn' = [conn EXCEPT ![c] = s]
      /\ UNCHANGED pending \/ pending' = queueInLoop(io[c], "connectDestroyed", c)
  BY <1>1 DEF DestroyServer, TypeOK
<1>4. /\ Accepted(c) /\ conn[c] \in Connections /\ Registered(conn[c])
      /\ conn[c].peer \in Live
  BY <1>1, <1>2, LivePeer DEF Numbered, Known, TypeOK
<1>5. s \in Connections /\ Registered(s) /\ s.peer \in Live
  BY <1>4, FollowsDestroy
<1>6. ASSUME NEW l \in Loops
      PROVE  active'[l] \subseteq active[l] /\ (c \in active'[l] => s.added)
  <2>1. active'[l] = active[l] /\ (c \in active[l] => io[c] = l /\ conn[c].added)
    BY <1>1, <1>2 DEF Handled
  <2>2. active[0] = {}
    BY <1>1, <1>2, LoopsAre DEF Handled
  <2> QED BY <2>1, <2>2
<1>7. ~Dead(c)
  BY <1>2 DEF Dead, Referenced
<1> HIDE DEF s
<1>8. Touches(c, s, io[c], "connectDestroyed")
  <2>1. io' = io /\ io \in [Conns -> 0..threadNum]
    BY <1>1, <1>2 DEF Numbered, TypeOK
  <2>2. Others' /\ active' \in [Loops -> SUBSET Conns]
        /\ user' = user /\ user \in [Threads -> Functors \cup {Idle, Done}]
    BY <1>1, <1>2 DEF Others, TypeOK
  <2>3. threadNum' = threadNum /\ addr' = addr /\ called' = called /\ batch' = batch
    BY <1>2
  <2> QED BY <1>2, <1>3, <1>4, <1>5, <1>6, <2>1, <2>2, <2>3 DEF Touches
<1>9. "connectDestroyed" \in FunctorNames
  BY DEF FunctorNames
<1>10. \E k \in Loops : k = io[c]
  BY <1>1 DEF TypeOK
<1> QED BY <1>7, <1>8, <1>9, <1>10 DEF Touching

(* A loop goes, between two rounds.                                         *)
LEMMA LoopLeftThreaded ==
  ASSUME Threaded, NEW l \in Loops, DestroyLoop(l)
  PROVE  Threaded' /\ UNCHANGED <<batch, pending, called, connections, conn, user>>
<1>1. /\ TypeOK /\ Numbered /\ Known /\ Handled /\ Callers
      /\ \A k \in Loops : \A f \in Jobs(k) : Placed(k, f)
  BY DEF Threaded
<1>2. /\ lpc' \in [Loops -> {"poll", "handle", "call", "left", "destroyed"}]
      /\ \A k \in Loops : lpc'[k] # "handle" => lpc[k] # "handle"
      /\ UNCHANGED <<acceptReady, active, revents, queueVars, serverVars, conn, addr, user>>
  BY <1>1, LoopLeft
<1>3. TypeOK'
  BY <1>1, <1>2 DEF TypeOK
<1>4. Numbered' /\ Known' /\ Handled' /\ Callers'
  BY <1>1, <1>2 DEF Numbered, Known, Handled, Callers, Accepted
<1>5. \A k \in Loops : \A f \in Jobs(k)' : Placed(k, f)'
  BY <1>1, <1>2 DEF Jobs, Placed, Accepted
<1> QED BY <1>2, <1>3, <1>4, <1>5 DEF Threaded

-----------------------------------------------------------------------------
(* What is destroyed stays destroyed.                                       *)

(* A connection nobody refers to any more is never found again, and nothing *)
(* is done to it: no functor, no event, no client and no ~TcpServer.        *)
NeverRevived == [][\A c \in Conns : Dead(c) => Dead(c)' /\ conn'[c] = conn[c]]_vars

(* A step leaves the dead alone.                                            *)
LeavesDead ==
    /\ \A c \in Conns : Dead(c) => Accepted(c)' /\ conn'[c] = conn[c]
    /\ \A c \in connections' : ~Dead(c)
    /\ \A l \in Loops : \A c \in called'[l] : ~Dead(c)
    /\ \A l \in Loops : \A f \in Jobs(l)' : HoldsConn(f) => ~Dead(f.conn)
    /\ \A t \in Threads : user'[t] \in Functors => ~Dead(user'[t].conn)

(* What holds a connection holds one that lives.                            *)
LEMMA Living ==
  ASSUME ~Aborted
  PROVE  /\ \A c \in connections : ~Dead(c)
         /\ \A l \in Loops : \A c \in called[l] : ~Dead(c)
         /\ \A l \in Loops : \A f \in Jobs(l) : HoldsConn(f) => ~Dead(f.conn)
         /\ \A t \in Threads : user[t] \in Functors => ~Dead(user[t].conn)
<1>1. \A l \in Loops : lpc[l] # "destroyed"
  BY DEF Aborted
<1>2. \A l \in Loops : \A f \in Jobs(l) : HoldsConn(f) => Referenced(f.conn)
  BY <1>1, InJobs
<1> QED BY <1>2 DEF Dead, Referenced

(* After such a step nothing holds what was dead.                           *)
LEMMA StayDead ==
  ASSUME LeavesDead, NEW c \in Conns, Dead(c)
  PROVE  Dead(c)' /\ conn'[c] = conn[c]
<1>1. ASSUME NEW l \in Loops PROVE ~InQueue(c, pending'[l]) /\ ~InQueue(c, batch'[l])
  BY DEF LeavesDead, InQueue, Jobs, Items
<1>2. ~(Referenced(c)')
  BY <1>1 DEF LeavesDead, Referenced
<1> QED BY <1>2 DEF LeavesDead, Dead

(* A step that touches one connection leaves the dead alone.                *)
LEMMA TouchingLeaves ==
  ASSUME Threaded, ~Aborted, Touching
  PROVE  Threaded' /\ LeavesDead
<1>1. PICK c \in Conns, k \in Loops, f \in FunctorNames : \E s :
         /\ Touches(c, s, k, f)
         /\ Dead(c) => conn' = conn /\ UNCHANGED <<pending, called, connections>>
  BY DEF Touching
<1>2. PICK s :
         /\ Touches(c, s, k, f)
         /\ Dead(c) => conn' = conn /\ UNCHANGED <<pending, called, connections>>
  BY <1>1
<1>3. TypeOK
  BY DEF Threaded
<1>4. Threaded'
  BY <1>2, TouchesKeeps
<1>5. \A l \in Loops : \A g \in Jobs(l)' :
         g \in Jobs(l) \/ (l = k /\ g = Functor(f, c) /\ pending' # pending)
  <2>1. /\ \/ UNCHANGED batch
           \/ \E l \in Loops : batch[l] # <<>> /\ batch' = [batch EXCEPT ![l] = Tail(@)]
        /\ UNCHANGED pending \/ pending' = queueInLoop(k, f, c)
    BY <1>2 DEF Touches
  <2> QED BY <1>3, <2>1, QueueStep
<1>6. ASSUME NEW d \in Conns, Dead(d) PROVE Accepted(d)' /\ conn'[d] = conn[d]
  <2>1. conn'[d] = conn[d]
    <3>1. conn' = [conn EXCEPT ![c] = s]
      BY <1>2 DEF Touches
    <3> QED BY <1>2, <1>3, <1>6, <3>1 DEF TypeOK
  <2> QED BY <1>6, <2>1 DEF Dead, Accepted
<1>7. \A d \in connections' : ~Dead(d)
  <2>1. connections' \subseteq connections \cup {c}
    BY <1>2 DEF Touches
  <2> QED BY <1>2, <2>1, Living
<1>8. ASSUME NEW l \in Loops, NEW d \in called'[l] PROVE ~Dead(d)
  <2>1. called'[l] \subseteq called[l] \cup {c}
    BY <1>2 DEF Touches
  <2> QED BY <1>2, <1>8, <2>1, Living
<1>9. ASSUME NEW l \in Loops, NEW g \in Jobs(l)', HoldsConn(g) PROVE ~Dead(g.conn)
  <2>1. CASE g \in Jobs(l)
    BY <1>9, <2>1, Living
  <2>2. CASE g \notin Jobs(l)
    <3>1. g.conn = c /\ pending' # pending
      BY <1>5, <2>2 DEF Functor
    <3> QED BY <1>2, <3>1
  <2> QED BY <2>1, <2>2
<1>10. ASSUME NEW t \in Threads, user'[t] \in Functors PROVE ~Dead(user'[t].conn)
  <2>1. user'[t] = user[t]
    BY <1>2, <1>10 DEF Touches
  <2> QED BY <1>10, <2>1, Living
<1> QED BY <1>4, <1>6, <1>7, <1>8, <1>9, <1>10 DEF LeavesDead

(* So does every other: a round goes on, a thread of the user begins a call *)
(* on a connection it can refer to, a loop is destroyed.                    *)
LEMMA QuietLeaves ==
  ASSUME Threaded, ~Aborted,
         \/ \E l \in Loops : Poll(l) \/ SwapPending(l) \/ EndBatch(l)
         \/ \E t \in Threads, c \in Conns, f \in FunctorNames : UserTests(t, c, f)
         \/ \E l \in Loops : DestroyLoop(l)
  PROVE  Threaded' /\ LeavesDead
<1>1. TypeOK
  BY DEF Threaded
<1>2. ASSUME UNCHANGED conn, NEW d \in Conns, Dead(d)
      PROVE  Accepted(d)' /\ conn'[d] = conn[d]
  BY <1>2 DEF Dead, Accepted
<1>3. ASSUME NEW l \in Loops, Poll(l) PROVE Threaded' /\ LeavesDead
  <2>1. Threaded' /\ UNCHANGED <<batch, pending, called, connections, conn, user>>
    BY <1>3, PollThreaded
  <2>2. \A k \in Loops : Jobs(k)' = Jobs(k)
    BY <2>1 DEF Jobs
  <2> QED BY <1>2, <2>1, <2>2, Living DEF LeavesDead
<1>4. ASSUME NEW l \in Loops, SwapPending(l) \/ EndBatch(l) PROVE Threaded' /\ LeavesDead
  <2>1. /\ Threaded' /\ UNCHANGED <<connections, conn, user>>
        /\ \A k \in Loops : called'[k] \subseteq called[k] /\ Jobs(k)' \subseteq Jobs(k)
    BY <1>4, BatchThreaded
  <2> QED BY <1>2, <2>1, Living DEF LeavesDead
<1>5. ASSUME NEW t \in Threads, NEW c \in Conns, NEW f \in FunctorNames, UserTests(t, c, f)
      PROVE  Threaded' /\ LeavesDead
  <2>1. /\ Threaded' /\ UNCHANGED <<batch, pending, called, connections, conn>>
        /\ user' = [user EXCEPT ![t] = Functor(f, c)] /\ ~Dead(c)
    BY <1>5, UserThreaded
  <2>2. \A k \in Loops : Jobs(k)' = Jobs(k)
    BY <2>1 DEF Jobs
  <2>3. ASSUME NEW u \in Threads, user'[u] \in Functors PROVE ~Dead(user'[u].conn)
    <3>1. user'[u] = user[u] \/ user'[u].conn = c
      BY <1>1, <2>1 DEF TypeOK, Functor
    <3> QED BY <2>1, <2>3, <3>1, Living
  <2> QED BY <1>2, <2>1, <2>2, <2>3, Living DEF LeavesDead
<1>6. ASSUME NEW l \in Loops, DestroyLoop(l) PROVE Threaded' /\ LeavesDead
  <2>1. Threaded' /\ UNCHANGED <<batch, pending, called, connections, conn, user>>
    BY <1>6, LoopLeftThreaded
  <2>2. \A k \in Loops : Jobs(k)' = Jobs(k)
    BY <2>1 DEF Jobs
  <2> QED BY <1>2, <2>1, <2>2, Living DEF LeavesDead
<1> QED BY <1>3, <1>4, <1>5, <1>6

(* Every step of the server and of the threads of its user.                 *)
LEMMA ThreadedStep ==
  ASSUME Threaded, ThreadedNext
  PROVE  Threaded' /\ LeavesDead
<1>1. ~Aborted
  BY DEF ThreadedNext, Next
<1>2. ASSUME NEW l \in Loops, LoopStep(l) PROVE Threaded' /\ LeavesDead
  <2>1. CASE Poll(l) \/ SwapPending(l) \/ EndBatch(l)
    BY <1>1, <2>1, QuietLeaves
  <2>2. CASE \E c \in Conns : Handle(l, c)
    BY <1>1, <2>2, HandleTouches, TouchingLeaves
  <2>3. CASE \/ CallEstablished(l) \/ CallDestroyed(l) \/ CallForceClose(l)
             \/ l = 0 /\ CallRemove
    BY <1>1, <2>3, FunctorsTouch, TouchingLeaves
  <2>4. CASE \E c \in Conns : Accept(c) \/ Refuse(c)
    BY <1>1, <2>4, AcceptTouches, PeersTouch, TouchingLeaves
  <2> QED BY <1>2, <2>1, <2>2, <2>3, <2>4 DEF LoopStep
<1>3. CASE Step
  <2>1. CASE \E c \in Conns : Connect(c) \/ PeerSends(c) \/ PeerCloses(c) \/ PeerResets(c)
    BY <1>1, <2>1, PeersTouch, TouchingLeaves
  <2>2. CASE \E c \in Conns : DestroyServer(c)
    BY <1>1, <2>2, ServerTouches, TouchingLeaves
  <2>3. CASE \E l \in Loops : DestroyLoop(l)
    BY <1>1, <2>3, QuietLeaves
  <2> QED BY <1>2, <1>3, <2>1, <2>2, <2>3 DEF Step
<1>4. CASE \E l \in Loops : CallShutdown(l) \/ CallSend(l)
  BY <1>1, <1>4, FunctorsTouch, TouchingLeaves
<1>5. CASE \E t \in Threads : \/ UserQueues(t)
                              \/ \E c \in Conns, f \in FunctorNames : UserTests(t, c, f)
  BY <1>1, <1>5, UserTouches, TouchingLeaves, QuietLeaves
<1> QED BY <1>3, <1>4, <1>5 DEF ThreadedNext, Next

(* Nothing happened yet.                                                    *)
LEMMA ThreadedInit == Init => Threaded
<1> SUFFICES ASSUME Init PROVE Threaded
  OBVIOUS
<1>1. TypeOK /\ Numbered
  BY InvInit DEF Inv
<1>2. Known
  BY DEF Init, Known, Registered, NewConnection
<1>3. \A l \in Loops : Jobs(l) = {}
  BY DEF Init, Jobs, Items
<1>4. Handled /\ Callers
  BY DEF Init, Handled, Callers, Idle, Functors
<1> QED BY <1>1, <1>2, <1>3, <1>4 DEF Threaded

LEMMA ThreadedInvariant == ThreadedSpec => []Threaded
<1>1. Threaded /\ [ThreadedNext]_vars => Threaded'
  <2> SUFFICES ASSUME Threaded, [ThreadedNext]_vars PROVE Threaded'
    OBVIOUS
  <2>1. CASE UNCHANGED vars
    BY <2>1 DEF vars, Threaded, TypeOK, Numbered, Known, Handled, Callers, Accepted, Jobs,
                Placed
  <2> QED BY <2>1, ThreadedStep
<1> QED BY <1>1, ThreadedInit, PTL DEF ThreadedSpec

(* A connection lives on its loop: that loop handles its events and calls   *)
(* its functors, whichever loop or thread queued them; the base loop only   *)
(* takes it off the map.                                                    *)
OnItsLoop ==
    \A l \in Loops :
       /\ \A c \in active[l] : io[c] = l
       /\ \A f \in Jobs(l) : io[f.conn] = l \/ f.call = "removeConnectionInLoop"

(* No thread of the user gets a loop to run a method of a connection of     *)
(* another, on any number of loops, connections and threads.                *)
THEOREM LoopsKeepApart == ThreadedSpec => []OnItsLoop
<1>1. Threaded => OnItsLoop
  BY DEF Threaded, Handled, Placed, OnItsLoop
<1> QED BY <1>1, ThreadedInvariant, PTL

(* A loop meets a destroyed connection only in a sendInLoop queued by send()*)
(* from another thread, and that one finds it disconnected.                 *)
OnlySendMeetsDead ==
    ~Aborted => \A l \in Loops :
       /\ \A c \in active[l] : ~Dead(c)
       /\ \A f \in Jobs(l) : Dead(f.conn) => /\ f.call = "sendInLoop"
                                             /\ conn[f.conn].state = "kDisconnected"

(* The lambda with the bare this that send() queues is the one way to a     *)
(* destroyed connection: every other functor, every channel event and every *)
(* callback of a server with threads of the user finds it alive.            *)
THEOREM SendAloneMeetsDead == ThreadedSpec => []OnlySendMeetsDead
<1>1. Threaded => OnlySendMeetsDead
  <2> SUFFICES ASSUME Threaded, ~Aborted PROVE OnlySendMeetsDead
    BY DEF OnlySendMeetsDead
  <2>1. TypeOK /\ Handled
    BY DEF Threaded
  <2>2. \A c \in Conns : Dead(c) => Destructible(conn[c])
    BY DEF Aborted, AssertFails
  <2>3. ASSUME NEW l \in Loops, NEW c \in active[l] PROVE ~Dead(c)
    BY <2>1, <2>2, <2>3 DEF Handled, Destructible, TypeOK
  <2>4. ASSUME NEW l \in Loops, NEW f \in Jobs(l), Dead(f.conn)
        PROVE  f.call = "sendInLoop" /\ conn[f.conn].state = "kDisconnected"
    <3>1. f.conn \in Conns
      BY <2>1, <2>4, JobsType DEF Functors
    <3>2. ~HoldsConn(f)
      BY <2>4, Living
    <3> QED BY <2>2, <2>4, <3>1, <3>2 DEF Destructible, HoldsConn
  <2> QED BY <2>3, <2>4 DEF OnlySendMeetsDead
<1> QED BY <1>1, ThreadedInvariant, PTL

(* A destroyed connection stays destroyed and as it was, whatever its socket*)
(* does, whatever was queued for it and whatever other threads call.        *)
THEOREM DestroyedForGood == ThreadedSpec => NeverRevived
<1> DEFINE A == \A c \in Conns : Dead(c) => Dead(c)' /\ conn'[c] = conn[c]
<1>1. Threaded /\ [ThreadedNext]_vars => A
  <2> SUFFICES ASSUME Threaded, [ThreadedNext]_vars PROVE A
    OBVIOUS
  <2>1. CASE UNCHANGED vars
    BY <2>1 DEF vars, Dead, Accepted, Referenced, InQueue
  <2>2. CASE ThreadedNext
    BY <2>2, ThreadedStep, StayDead
  <2> QED BY <2>1, <2>2
<1> HIDE DEF A
<1>2. [][ThreadedNext]_vars /\ []Threaded => [][A]_vars
  BY <1>1, PTL
<1> QED BY <1>2, ThreadedInvariant, PTL DEF ThreadedSpec, NeverRevived, A

(* So it does on a server without such threads, whose steps are among these.*)
COROLLARY DestroyedForGoodAlone == Spec => NeverRevived
<1>1. [Next]_vars => [ThreadedNext]_vars
  BY DEF ThreadedNext
<1>2. Spec => ThreadedSpec
  BY <1>1, PTL DEF Spec, ThreadedSpec
<1> QED BY <1>2, DestroyedForGood

-----------------------------------------------------------------------------
(* A connection goes through its states in one direction.                   *)

(* t is s or a state after it.                                              *)
Onward(s, t) ==
    /\ t = "kConnecting" => s = "kConnecting"
    /\ t = "kConnected" => s \in {"kConnecting", "kConnected"}
    /\ s = "kDisconnected" => t = "kDisconnected"

(* state_ goes from kConnecting through kConnected and kDisconnecting to    *)
(* kDisconnected and never back, whichever of the peer's close, an error,   *)
(* forceClose(), shutdown() and ~TcpServer come together.                   *)
StateMovesOn == [][\A c \in Conns : Onward(conn[c].state, conn'[c].state)]_vars

(* One connection changes, onward.                                          *)
LEMMA OneOnward ==
  ASSUME TypeOK, NEW c \in Conns, NEW s, conn' = [conn EXCEPT ![c] = s],
         Onward(conn[c].state, s.state)
  PROVE  \A d \in Conns : Onward(conn[d].state, conn'[d].state)
<1>1. conn'[c] = s /\ \A d \in Conns \ {c} : conn'[d] = conn[d]
  BY DEF TypeOK
<1>2. ASSUME NEW d \in Conns \ {c} PROVE Onward(conn[d].state, conn'[d].state)
  BY <1>1 DEF Onward
<1> QED BY <1>1, <1>2

(* What follows a method, too.                                              *)
LEMMA AfterOnward ==
  ASSUME TypeOK, NEW c \in Conns, NEW r, Onward(conn[c].state, r.state),
         conn' = [conn EXCEPT ![c] = r] \/ After(c, r)
  PROVE  \A d \in Conns : Onward(conn[d].state, conn'[d].state)
<1>1. \/ conn' = [conn EXCEPT ![c] = r]
      \/ \E p : conn' = [conn EXCEPT ![c] = Assert(r, p)]
  BY DEF After, removeConnection
<1>2. CASE conn' = [conn EXCEPT ![c] = r]
  BY <1>2, OneOnward
<1>3. ASSUME NEW p, conn' = [conn EXCEPT ![c] = Assert(r, p)]
      PROVE  \A d \in Conns : Onward(conn[d].state, conn'[d].state)
  <2>1. Assert(r, p).state = r.state
    BY DEF Assert
  <2> QED BY <1>3, <2>1, OneOnward
<1> QED BY <1>1, <1>2, <1>3

(* The teardown closes a connection that is connected and changes the state *)
(* of no other.                                                             *)
LEMMA TornOnward ==
  ASSUME TypeOK, Records, ~Aborted, NEW c \in Conns
  PROVE  Onward(conn[c].state, connectDestroyed(conn[c]).state)
<1>1. conn[c].state \in {"kConnecting", "kConnected", "kDisconnecting", "kDisconnected"}
  BY FieldTypes DEF TypeOK, States
<1> DEFINE s == connectDestroyed(conn[c])
<1>2. /\ conn[c].state # "kConnected" => s.state = conn[c].state
      /\ conn[c].state = "kConnected" => s.state = "kDisconnected"
  BY <1>1, TeardownOf
<1> HIDE DEF s
<1>3. Onward(conn[c].state, s.state)
  BY <1>1, <1>2 DEF Onward
<1> QED BY <1>3 DEF s

(* A channel event takes its connection onward.                             *)
LEMMA HandleOnward ==
  ASSUME Inv, ~Aborted, NEW l \in Loops, NEW c \in Conns, Handle(l, c)
  PROVE  \A d \in Conns : Onward(conn[d].state, conn'[d].state)
<1>1. TypeOK /\ Records /\ Rounds
  BY DEF Inv
<1>2. Running(c) /\ Up(conn[c]) /\ conn[c] \in Connections
  <2>1. c \in active[l]
    BY DEF Handle
  <2> QED BY <1>1, <2>1, PhaseOf DEF Rounds
<1>3. PICK react \in Reactions, n \in 1..Chunk :
         LET r == handleEvent(conn[c], revents[c], react, Chunk, n)
         IN  conn' = [conn EXCEPT ![c] = r] \/ After(c, r)
  BY DEF Handle
<1> DEFINE r == handleEvent(conn[c], revents[c], react, Chunk, n)
<1>4. Chunk \in Nat /\ n \in Nat
  BY DEF Chunk
<1>5. r.state # "kConnecting" /\ (conn[c].state # "kConnected" => r.state # "kConnected")
  <2>1. Up(r) \/ Down(r)
    BY <1>2, <1>4, Events
  <2>2. conn[c].state # "kConnected" => r.state # "kConnected"
    BY <1>2, <1>4, EventsOnward
  <2> HIDE DEF r
  <2> QED BY <2>1, <2>2 DEF Up, Down
<1>6. conn' = [conn EXCEPT ![c] = r] \/ After(c, r)
  BY <1>3
<1> HIDE DEF r
<1>7. Onward(conn[c].state, r.state)
  BY <1>2, <1>5 DEF Onward, Running
<1> QED BY <1>1, <1>6, <1>7, AfterOnward

(* A functor does too.                                                      *)
LEMMA CallOnward ==
  ASSUME Inv, ~Aborted, NEW l \in Loops,
         \/ CallEstablished(l) \/ CallDestroyed(l) \/ CallForceClose(l)
         \/ l = 0 /\ CallRemove
  PROVE  \A d \in Conns : Onward(conn[d].state, conn'[d].state)
<1>1. TypeOK /\ Records
  BY DEF Inv
<1> DEFINE c == First(l).conn
<1>2. \A f : Call(l, f) => c \in Conns /\ First(l) = Functor(f, c) /\ Entry(l, First(l))
  BY CallFacts
<1>3. CASE CallEstablished(l)
  <2>1. Call(l, "connectEstablished") /\ conn' = [conn EXCEPT ![c] = connectEstablished(conn[c])]
    BY <1>3 DEF CallEstablished
  <2>2. c \in Conns /\ conn[c].state = "kConnecting"
    BY <1>2, <2>1 DEF Entry, Functor
  <2> HIDE DEF c
  <2> QED BY <1>1, <2>1, <2>2, OneOnward, PhaseOf DEF Onward
<1>4. CASE CallDestroyed(l)
  <2>1. Call(l, "connectDestroyed") /\ conn' = [conn EXCEPT ![c] = connectDestroyed(conn[c])]
    BY <1>4 DEF CallDestroyed
  <2>2. c \in Conns
    BY <1>2, <2>1
  <2> HIDE DEF c
  <2>3. Onward(conn[c].state, connectDestroyed(conn[c]).state)
    BY <1>1, <2>2, TornOnward
  <2> QED BY <1>1, <2>1, <2>2, <2>3, OneOnward
<1>5. CASE CallForceClose(l)
  <2>1. Call(l, "forceCloseInLoop") /\ After(c, forceCloseInLoop(conn[c]))
    BY <1>5 DEF CallForceClose
  <2>2. c \in Conns
    BY <1>2, <2>1
  <2> HIDE DEF c
  <2>3. Onward(conn[c].state, forceCloseInLoop(conn[c]).state)
    <3>1. CASE Running(c)
      <4>1. Down(forceCloseInLoop(conn[c]))
        BY <1>1, <2>2, <3>1, PhaseOf, ForceClosed
      <4> QED BY <4>1 DEF Down, Onward
    <3>2. CASE ~Running(c)
      BY <3>2 DEF forceCloseInLoop, Running, Onward
    <3> QED BY <3>1, <3>2
  <2> QED BY <1>1, <2>1, <2>2, <2>3, AfterOnward
<1>6. CASE l = 0 /\ CallRemove
  <2>1. Call(l, "removeConnectionInLoop")
        /\ \E p : conn' = [conn EXCEPT ![c] = Assert(conn[c], p)]
    BY <1>6 DEF CallRemove
  <2>2. c \in Conns
    BY <1>2, <2>1
  <2> HIDE DEF c
  <2>3. PICK p : conn' = [conn EXCEPT ![c] = Assert(conn[c], p)]
    BY <2>1
  <2>4. Assert(conn[c], p).state = conn[c].state
    BY <1>1, <2>2 DEF Assert, TypeOK, Connections
  <2> QED BY <1>1, <2>2, <2>3, <2>4, OneOnward DEF Onward
<1> QED BY <1>3, <1>4, <1>5, <1>6

(* The state of a connection never goes back.                               *)
THEOREM StateGoesForward == Spec => StateMovesOn
<1> DEFINE Moves == \A c \in Conns : Onward(conn[c].state, conn'[c].state)
<1>1. Inv /\ [Next]_vars => Moves
  <2> SUFFICES ASSUME Inv, [Next]_vars PROVE Moves
    OBVIOUS
  <2>1. TypeOK /\ Records
    BY DEF Inv
  <2>2. CASE UNCHANGED conn
    BY <2>2 DEF Onward
  <2>3. CASE Next
    <3>1. ~Aborted /\ Step
      BY <2>3 DEF Next
    <3>2. ASSUME NEW c \in Conns, Connect(c) \/ PeerSends(c) \/ PeerCloses(c)
                                  \/ PeerResets(c) \/ Refuse(c)
          PROVE  Moves
      <4>1. PICK s : conn' = [conn EXCEPT ![c] = s] /\ s.state = conn[c].state
        BY <2>1, <3>2
           DEF Connect, PeerSends, PeerCloses, PeerResets, Refuse, TypeOK, Connections
      <4> QED BY <2>1, <4>1, OneOnward DEF Onward
    <3>3. ASSUME NEW c \in Conns, Accept(c) PROVE Moves
      <4>1. PICK s : conn' = [conn EXCEPT ![c] = s]
        BY <3>3 DEF Accept
      <4>2. ~Accepted(c)
        BY <3>3 DEF Accept, Accepted
      <4>3. conn[c].state = "kConnecting"
        BY <2>1, <4>2 DEF Records, Fresh, New
      <4> QED BY <2>1, <4>1, <4>3, OneOnward DEF Onward
    <3>4. ASSUME NEW l \in Loops, Poll(l) \/ SwapPending(l) \/ EndBatch(l) PROVE UNCHANGED conn
      BY <3>4 DEF Poll, SwapPending, EndBatch
    <3>5. ASSUME NEW l \in Loops, LoopStep(l) PROVE Moves
      BY <2>2, <3>1, <3>2, <3>3, <3>4, <3>5, HandleOnward, CallOnward DEF LoopStep
    <3>6. ASSUME NEW c \in Conns, DestroyServer(c) PROVE Moves
      <4>1. conn' = conn \/ conn' = [conn EXCEPT ![c] = connectDestroyed(conn[c])]
        BY <3>6 DEF DestroyServer
      <4> QED BY <2>1, <2>2, <3>1, <4>1, TornOnward, OneOnward
    <3>7. ASSUME NEW l \in Loops, DestroyLoop(l) PROVE UNCHANGED conn
      BY <3>7 DEF DestroyLoop
    <3> QED BY <2>2, <3>1, <3>2, <3>5, <3>6, <3>7 DEF Step
  <2> QED BY <2>2, <2>3 DEF vars
<1> HIDE DEF Moves
<1>2. [][Next]_vars /\ []Inv => [][Moves]_vars
  BY <1>1, PTL
<1> QED BY <1>2, Invariant, PTL DEF Spec, StateMovesOn, Moves
=============================================================================
