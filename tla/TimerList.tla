----------------------------- MODULE TimerList -----------------------------
(***************************************************************************)
(* TimerListMgr of timer/timer.cc: timers in a doubly linked list ordered   *)
(* by expiry.  The list guards its operations with a mutex, so each is one  *)
(* step; what its users do around them is not guarded: they read the back   *)
(* pointer client_data::timer, and write expire, before they call, and tick *)
(* runs the callbacks after it has unlocked.                                *)
(*                                                                         *)
(* A client owns one client_data and follows the protocol of the README:    *)
(* it finds its node in client_data::timer and drops it when it has called. *)
(* One more thread calls tick.  A name in Nodes is an address, free to be   *)
(* used again after delete, once nobody holds it any more: so that access   *)
(* to freed memory, which ends the behaviour, can be told.                  *)
(***************************************************************************)
EXTENDS Integers, Sequences, SequencesExt, FiniteSets

CONSTANTS Clients, Nodes, MaxTime, Null

ASSUME ListAssumption ==
    Null \notin Nodes \cup Clients /\ IsFiniteSet(Nodes) /\ MaxTime \in Nat

Times == 1 .. MaxTime

VARIABLES
    list,    \* head and tail, and prev and next of every node
    expire,  \* expire of every node
    owner,   \* user_data of every node: the client whose data it is
    alive,   \* the nodes that are allocated
    timer,   \* client_data::timer of every client
    cpc,     \* what each client is about to call
    node,    \* the node it will call it with
    batch,   \* the local expired of tick, the nodes still to run
    raced,   \* ghost: tick or a callback took a node a client had read
    mixed    \* ghost: a node was placed, or found in place, while the
             \* expire of another had changed and its adjust_timer was to come

memory == <<list, expire, owner, alive, timer>>
listVars == <<memory, cpc, node, batch, raced, mixed>>

Pointer == Nodes \cup {Null}

ListTypeOK ==
    /\ list \in [head : Pointer, tail : Pointer,
                 prev : [Nodes -> Pointer], next : [Nodes -> Pointer]]
    /\ expire \in [Nodes -> 0 .. MaxTime]
    /\ owner \in [Nodes -> Clients \cup {Null}]
    /\ alive \subseteq Nodes
    /\ timer \in [Clients -> Pointer]
    /\ cpc \in [Clients -> {"idle", "add", "read", "adjust"}]
    /\ node \in [Clients -> Pointer]
    /\ batch \in Seq(Nodes)
    /\ raced \in BOOLEAN /\ mixed \in BOOLEAN

Nowhere == [n \in Nodes |-> Null]

ListInit ==
    /\ list = [head |-> Null, tail |-> Null, prev |-> Nowhere, next |-> Nowhere]
    /\ expire = [n \in Nodes |-> 0] /\ owner = Nowhere
    /\ alive = {}
    /\ timer = [c \in Clients |-> Null]
    /\ cpc = [c \in Clients |-> "idle"] /\ node = [c \in Clients |-> Null]
    /\ batch = <<>>
    /\ raced = FALSE /\ mixed = FALSE

-----------------------------------------------------------------------------
(* The list.                                                               *)

(* s is what l links, from either end.                                      *)
Links(l, s) ==
    /\ l.head = IF s = <<>> THEN Null ELSE s[1]
    /\ l.tail = IF s = <<>> THEN Null ELSE s[Len(s)]
    /\ \A i \in 1 .. Len(s) :
          /\ l.prev[s[i]] = IF i = 1 THEN Null ELSE s[i - 1]
          /\ l.next[s[i]] = IF i = Len(s) THEN Null ELSE s[i + 1]

Orders == UNION {SetToSeqs(S) : S \in SUBSET Nodes}

Order(l) == CHOOSE s \in Orders : Links(l, s)

Listed == ToSet(Order(list))

(* p->field = v unless p is null.                                          *)
Store(field, p, v) == IF p = Null THEN field ELSE [field EXCEPT ![p] = v]

(* add_timer: before the first node that expires later, behind its equals.  *)
(* prev of a new head, and both links of an only node, are left as they are. *)
Inserted(l, n) ==
    LET s == Order(l)
        later == {i \in 1 .. Len(s) : expire[n] < expire[s[i]]}
        i == CHOOSE k \in later : \A m \in later : k <= m
    IN  IF s = <<>> THEN [l EXCEPT !.head = n, !.tail = n]
        ELSE IF later = {}
        THEN [l EXCEPT !.next = [@ EXCEPT ![s[Len(s)]] = n, ![n] = Null],
                       !.prev[n] = s[Len(s)], !.tail = n]
        ELSE IF i = 1
        THEN [l EXCEPT !.next[n] = s[1], !.prev[s[1]] = n, !.head = n]
        ELSE [l EXCEPT !.next = [@ EXCEPT ![s[i - 1]] = n, ![n] = s[i]],
                       !.prev = [@ EXCEPT ![s[i]] = n, ![n] = s[i - 1]]]

(* Mutant: the links of the node itself are not cleared.                   *)
UnlinkedOnly(l, n) ==
    [head |-> IF l.prev[n] = Null /\ l.head = n THEN l.next[n] ELSE l.head,
     tail |-> IF l.next[n] = Null /\ l.tail = n THEN l.prev[n] ELSE l.tail,
     prev |-> Store(l.prev, l.next[n], l.prev[n]),
     next |-> Store(l.next, l.prev[n], l.next[n])]

(* What del_timer and adjust_timer do to take a node out.  Head and tail    *)
(* move only if they are this node: it may be out of the list already.      *)
Unlinked(l, n) ==
    [head |-> IF l.prev[n] = Null /\ l.head = n THEN l.next[n] ELSE l.head,
     tail |-> IF l.next[n] = Null /\ l.tail = n THEN l.prev[n] ELSE l.tail,
     prev |-> [Store(l.prev, l.next[n], l.prev[n]) EXCEPT ![n] = Null],
     next |-> [Store(l.next, l.prev[n], l.next[n]) EXCEPT ![n] = Null]]

(* Mutant: only the successor is looked at.                                *)
InPlaceAfter(l, n) == l.next[n] = Null \/ expire[n] <= expire[l.next[n]]

(* after_ok && before_ok.                                                  *)
InPlace(l, n) ==
    /\ l.next[n] = Null \/ expire[n] <= expire[l.next[n]]
    /\ l.prev[n] = Null \/ expire[l.prev[n]] <= expire[n]

(* The list without its first nodes, those of s.                           *)
Popped(l, s) ==
    LET rest == SubSeq(Order(l), Len(s) + 1, Len(Order(l)))
        keep(f) == [n \in Nodes |-> IF n \in ToSet(s) THEN Null ELSE f[n]]
        head == IF rest = <<>> THEN Null ELSE rest[1]
    IN  [head |-> head, tail |-> IF rest = <<>> THEN Null ELSE l.tail,
         prev |-> Store(keep(l.prev), head, Null), next |-> keep(l.next)]

-----------------------------------------------------------------------------
(* The clients.                                                            *)
Calls(c, label, n) ==
    /\ cpc' = [cpc EXCEPT ![c] = label]
    /\ node' = [node EXCEPT ![c] = n]

(* The node c holds is still the one it read.                              *)
HoldsOwn(c) == node[c] \in alive /\ owner[node[c]] = c

Held == {node[c] : c \in {o \in Clients : cpc[o] # "idle"}}

(* Nodes in the list whose expire has changed without adjust_timer.         *)
Dirty(c) == {node[o] : o \in {x \in Clients \ {c} : cpc[x] = "adjust"}} \cap Listed

(* new TimerNode, filled in and stored in the client data.                  *)
Make(c) ==
    /\ cpc[c] = "idle" /\ timer[c] = Null
    /\ \E n \in Nodes \ (alive \cup Held \cup ToSet(batch)), t \in Times :
          /\ alive' = alive \cup {n}
          /\ expire' = [expire EXCEPT ![n] = t]
          /\ owner' = [owner EXCEPT ![n] = c]
          /\ timer' = [timer EXCEPT ![c] = n]
          /\ Calls(c, "add", n)
    /\ UNCHANGED <<list, batch, raced, mixed>>

AddTimer(c) ==
    /\ cpc[c] = "add" /\ HoldsOwn(c)
    /\ list' = Inserted(list, node[c])
    /\ mixed' = (mixed \/ Dirty(c) # {})
    /\ Calls(c, "idle", Null)
    /\ UNCHANGED <<expire, owner, alive, timer, batch, raced>>

(* The client data is read without the mutex of the list.                   *)
ReadTimer(c) ==
    /\ cpc[c] = "idle" /\ timer[c] # Null
    /\ Calls(c, "read", timer[c])
    /\ UNCHANGED <<memory, batch, raced, mixed>>

(* The end of del_timer: the back pointer is cleared and the node deleted.  *)
Free(n) ==
    /\ alive' = alive \ {n}
    /\ owner' = [owner EXCEPT ![n] = Null]
    /\ expire' = [expire EXCEPT ![n] = 0]
    /\ timer' = Store(timer, owner[n], Null)

DelTimer(c) ==
    /\ cpc[c] = "read" /\ HoldsOwn(c)
    /\ list' = Unlinked(list, node[c])
    /\ Free(node[c])
    /\ Calls(c, "idle", Null)
    /\ UNCHANGED <<batch, raced, mixed>>

SetExpire(c) ==
    /\ cpc[c] = "read" /\ HoldsOwn(c)
    /\ \E t \in Times : expire' = [expire EXCEPT ![node[c]] = t]
    /\ Calls(c, "adjust", node[c])
    /\ UNCHANGED <<list, owner, alive, timer, batch, raced, mixed>>

AdjustTimer(c) ==
    /\ cpc[c] = "adjust" /\ HoldsOwn(c)
    /\ list' = IF InPlace(list, node[c]) THEN list
               ELSE Inserted(Unlinked(list, node[c]), node[c])
    /\ mixed' = (mixed \/ Dirty(c) # {})
    /\ Calls(c, "idle", Null)
    /\ UNCHANGED <<expire, owner, alive, timer, batch, raced>>

-----------------------------------------------------------------------------
(* The thread that calls tick; cur may be any time.                         *)
Due(s, cur) == SubSeq(s, 1, CHOOSE k \in 0 .. Len(s) :
                               /\ \A i \in 1 .. k : expire[s[i]] <= cur
                               /\ k = Len(s) \/ expire[s[k + 1]] > cur)

(* Mutant: the business side keeps pointing at the nodes to be run.         *)
TakenKeepPointers(s) == timer

(* Every node taken out makes the back pointer to it null.                  *)
PointersAfter(s) ==
    [c \in Clients |-> IF timer[c] # Null /\ timer[c] \in ToSet(s) THEN Null ELSE timer[c]]

(* The section of tick under the mutex.                                     *)
TickTakes ==
    /\ batch = <<>>
    /\ \E cur \in Times :
          LET s == Due(Order(list), cur) IN
          /\ s # <<>>
          /\ batch' = s
          /\ list' = Popped(list, s)
          /\ timer' = PointersAfter(s)
          /\ raced' = (raced \/ ToSet(s) \cap Held # {})
    /\ UNCHANGED <<expire, owner, alive, cpc, node, mixed>>

(* A callback that calls del_timer with what its client data holds.         *)
CallbackDeletes(c) ==
    /\ timer[c] # Null
    /\ list' = Unlinked(list, timer[c])
    /\ alive' = alive \ {Head(batch), timer[c]}
    /\ owner' = [owner EXCEPT ![Head(batch)] = Null, ![timer[c]] = Null]
    /\ expire' = [expire EXCEPT ![Head(batch)] = 0, ![timer[c]] = 0]
    /\ timer' = [timer EXCEPT ![c] = Null]
    /\ raced' = (raced \/ timer[c] \in Held)

(* cb(user_data) and delete, for the next node of the batch.                *)
TickRuns ==
    /\ batch # <<>> /\ Head(batch) \in alive
    /\ batch' = Tail(batch)
    /\ \/ CallbackDeletes(owner[Head(batch)])
       \/ /\ alive' = alive \ {Head(batch)}
          /\ owner' = [owner EXCEPT ![Head(batch)] = Null]
          /\ expire' = [expire EXCEPT ![Head(batch)] = 0]
          /\ UNCHANGED <<list, timer, raced>>
    /\ UNCHANGED <<cpc, node, mixed>>

(* ~TimerListMgr, when nobody is using it; another one may follow.           *)
Destroy ==
    /\ \A c \in Clients : cpc[c] = "idle"
    /\ batch = <<>> /\ Listed # {}
    /\ list' = [head |-> Null, tail |-> Null, prev |-> Nowhere, next |-> Nowhere]
    /\ alive' = alive \ Listed
    /\ owner' = [n \in Nodes |-> IF n \in Listed THEN Null ELSE owner[n]]
    /\ expire' = [n \in Nodes |-> IF n \in Listed THEN 0 ELSE expire[n]]
    /\ timer' = PointersAfter(Order(list))
    /\ UNCHANGED <<cpc, node, batch, raced, mixed>>

ClientStep(c) == \/ Make(c) \/ AddTimer(c) \/ ReadTimer(c)
             \/ DelTimer(c) \/ SetExpire(c) \/ AdjustTimer(c)

ListNext == (\E c \in Clients : ClientStep(c)) \/ TickTakes \/ TickRuns \/ Destroy

ListSpec == ListInit /\ [][ListNext]_listVars

-----------------------------------------------------------------------------
(* The list can be walked from both ends to the same nodes, all of them     *)
(* allocated and owned, after every operation and however they race: also   *)
(* when del_timer or adjust_timer gets a node tick has already taken out.   *)
ListIntact ==
    /\ \E s \in Orders : Links(list, s)
    /\ Listed \subseteq alive
    /\ \A n \in Nodes \ Listed : list.prev[n] = Null /\ list.next[n] = Null

(* The list is in order, except for nodes whose adjust_timer is still to    *)
(* come, so tick finds every timer that is due.  The one exception: expire  *)
(* is written without the mutex, and add_timer or adjust_timer of somebody  *)
(* else then compares with a value that is not in its place.                *)
InOrder ==
    \/ mixed
    \/ LET s == Order(list)
           toMove == {node[c] : c \in {x \in Clients : cpc[x] = "adjust"}}
       IN  \A i, j \in 1 .. Len(s) :
              i < j /\ s[i] \notin toMove /\ s[j] \notin toMove =>
                 expire[s[i]] <= expire[s[j]]

(* A back pointer names a live node of its client, and so does the node a   *)
(* client is about to call with and those tick is about to run.  The one    *)
(* exception: tick, or a callback of it, got hold of the node after the     *)
(* client had read its pointer.                                             *)
NoDangling ==
    \/ raced
    \/ /\ \A c \in Clients : timer[c] # Null =>
             timer[c] \in alive /\ owner[timer[c]] = c /\ timer[c] \notin ToSet(batch)
       /\ \A c \in Clients : cpc[c] # "idle" => HoldsOwn(c)
       /\ ToSet(batch) \subseteq alive /\ IsInjective(batch)
=============================================================================
