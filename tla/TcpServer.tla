----------------------------- MODULE TcpServer -----------------------------
(***************************************************************************)
(* TcpServer of reactor_net: the life of its connections across the base    *)
(* loop, which accepts and removes them, and the loops that run them.       *)
(*                                                                         *)
(* A loop is what EventLoop promises: rounds of poll, the ready channels in *)
(* any order, then the functors queued so far, first in first out; it does  *)
(* not sleep on a queued functor.  One channel event and one functor are    *)
(* one action each; the loops, the clients of the server and, in            *)
(* ThreadedSpec, the user's own threads interleave between them.            *)
(*                                                                         *)
(* shared_ptr counts are not kept but computed: a connection lives as long  *)
(* as the map, a functor that holds one, or a thread refers to it.          *)
(***************************************************************************)
EXTENDS Connection, FiniteSets

CONSTANTS
    Conns,       \* sockets to accept, a TcpConnection each
    Addrs,       \* addresses of clients
    Clients,     \* the ways they may be given to Conns
    ThreadNums,  \* what setThreadNum may be given
    Threads      \* threads of the user that hold connections

ASSUME ThreadsAssumption == ThreadNums \subseteq Nat /\ ThreadNums # {}

ASSUME ClientsAssumption == Clients \subseteq [Conns -> Addrs]

VARIABLES
    threadNum,    \* threadNum_
    nextConnId,   \* nextConnId_
    connections,  \* the connections in connections_
    conn,         \* each connection
    addr, id,     \* the two variable parts of its name_
    io,           \* the number of its loop_
    lpc,          \* where each loop is
    acceptReady,  \* the acceptor's channel is active in the base loop
    active,       \* the connections whose channels are still to handle
    revents,      \* revents_ of each channel
    pending,      \* pendingFunctors_ of each loop
    batch,        \* the functors still to call in doPendingFunctors
    called,       \* the connections held by functors already called there
    user,         \* the call each thread of the user is in
    replaced      \* ghost: connections whose entry in the map was replaced

loopVars   == <<lpc, acceptReady, active, revents>>
queueVars  == <<pending, batch, called>>
serverVars == <<threadNum, nextConnId, connections, id, io, replaced>>
vars == <<loopVars, queueVars, serverVars, conn, addr, user>>

(* Size of a message, enough for a partial write.                          *)
Chunk == 2

(* Loop 0 is baseLoop_, loop i is subLoops_[i - 1].                         *)
Loops == UNION {0..n : n \in ThreadNums}

FunctorNames == {"connectEstablished", "connectDestroyed", "removeConnectionInLoop",
                 "forceCloseInLoop", "shutdownInLoop", "sendInLoop"}

Functor(f, c) == [call |-> f, conn |-> c]

Functors == [call: FunctorNames, conn: Conns]

Idle == [call |-> "none"]

Done == [call |-> "done"]

TypeOK ==
    /\ threadNum \in ThreadNums /\ nextConnId \in Nat
    /\ connections \subseteq Conns /\ replaced \subseteq Conns
    /\ conn \in [Conns -> Connections]
    /\ addr \in [Conns -> Addrs] /\ id \in [Conns -> Nat] /\ io \in [Conns -> Loops]
    /\ lpc \in [Loops -> {"poll", "handle", "call", "left", "destroyed"}]
    /\ acceptReady \in BOOLEAN
    /\ active \in [Loops -> SUBSET Conns]
    /\ revents \in [Conns -> SUBSET {"IN", "OUT", "ERR", "HUP"}]
    /\ pending \in [Loops -> Seq(Functors)] /\ batch \in [Loops -> Seq(Functors)]
    /\ called \in [Loops -> SUBSET Conns]
    /\ user \in [Threads -> Functors \cup {Idle, Done}]

Init ==
    /\ threadNum \in ThreadNums /\ nextConnId = 1
    /\ connections = {} /\ replaced = {}
    /\ conn = [c \in Conns |-> NewConnection]
    /\ addr \in Clients
    /\ id = [c \in Conns |-> 0] /\ io = [c \in Conns |-> 0]
    /\ lpc = [l \in Loops |-> "poll"]
    /\ acceptReady = FALSE
    /\ active = [l \in Loops |-> {}] /\ revents = [c \in Conns |-> {}]
    /\ pending = [l \in Loops |-> <<>>] /\ batch = [l \in Loops |-> <<>>]
    /\ called = [l \in Loops |-> {}]
    /\ user = [t \in Threads |-> Idle]

-----------------------------------------------------------------------------
Name(c) == <<addr[c], id[c]>>

Accepted(c) == conn[c].peer \notin {"away", "waiting", "refused"}

(* Mutant: connectDestroyed is bound to this, not to a shared_ptr.         *)
HoldsNotInDestroyed(f) == f.call \notin {"sendInLoop", "connectDestroyed"}

(* send() from another thread queues a lambda with the bare this.           *)
HoldsConn(f) == f.call # "sendInLoop"

InQueue(c, q) == \E i \in DOMAIN q : q[i].conn = c /\ HoldsConn(q[i])

(* A destroyed loop has dropped the functors that were left to call.        *)
Referenced(c) ==
    \/ c \in connections
    \/ \E l \in Loops : \/ c \in called[l] \/ InQueue(c, batch[l])
                        \/ InQueue(c, pending[l]) /\ lpc[l] # "destroyed"
    \/ \E t \in Threads : user[t] \in Functors /\ user[t].conn = c

Dead(c) == Accepted(c) /\ ~Referenced(c)

(* An assert of the connection failed, in a method or in a destructor.      *)
AssertFails(c) == conn[c].failed \/ (Dead(c) /\ ~Destructible(conn[c]))

(* The process has ended: by an assert, or by the destruction of a loop,    *)
(* which gets no further than its timers: EventLoop refutes its property    *)
(* RemovalHasPoller.                                                        *)
Aborted ==
    \/ \E c \in Conns : AssertFails(c)
    \/ \E l \in Loops : lpc[l] = "destroyed"

queueInLoop(l, f, c) == [pending EXCEPT ![l] = Append(@, Functor(f, c))]

-----------------------------------------------------------------------------
(* The clients.  An address serves one connection at a time, and is free    *)
(* again once that is reset or closed on both sides.                        *)
Connect(c) ==
    /\ conn[c].peer = "away"
    /\ \A d \in Conns \ {c} : addr[d] = addr[c] =>
          conn[d].peer \in {"away", "refused", "reset"} \/ Dead(d)
    /\ conn' = [conn EXCEPT ![c].peer = "waiting"]
    /\ UNCHANGED <<loopVars, queueVars, serverVars, addr, user>>

(* One message, a half-close, a reset, while the server has the socket.     *)
PeerSends(c) ==
    /\ conn[c].peer = "open" /\ ~conn[c].inbox /\ ~Dead(c)
    /\ \A i \in DOMAIN conn[c].log : conn[c].log[i] # "message"
    /\ conn' = [conn EXCEPT ![c].inbox = TRUE]
    /\ UNCHANGED <<loopVars, queueVars, serverVars, addr, user>>

PeerCloses(c) ==
    /\ conn[c].peer = "open" /\ ~Dead(c)
    /\ conn' = [conn EXCEPT ![c].peer = "eof"]
    /\ UNCHANGED <<loopVars, queueVars, serverVars, addr, user>>

PeerResets(c) ==
    /\ conn[c].peer \in {"open", "eof"} /\ ~Dead(c)
    /\ conn' = [conn EXCEPT ![c].peer = "reset", ![c].error = TRUE]
    /\ UNCHANGED <<loopVars, queueVars, serverVars, addr, user>>

-----------------------------------------------------------------------------
(* A round of a loop.                                                       *)
Waiting == {c \in Conns : conn[c].peer = "waiting"}

ReadyIn(l) == {c \in Conns : Accepted(c) /\ ~Dead(c) /\ io[c] = l /\ Ready(conn[c]) # {}}

Poll(l) ==
    /\ lpc[l] = "poll"
    /\ lpc' = [lpc EXCEPT ![l] = "handle"]
    /\ ReadyIn(l) # {} \/ pending[l] # <<>> \/ (l = 0 /\ Waiting # {})
    /\ active' = [active EXCEPT ![l] = ReadyIn(l)]
    /\ revents' = [c \in Conns |->
                      IF c \in ReadyIn(l) THEN Ready(conn[c]) ELSE revents[c]]
    /\ acceptReady' = IF l = 0 THEN Waiting # {} ELSE acceptReady
    /\ UNCHANGED <<queueVars, serverVars, conn, addr, user>>

(* TcpServer::removeConnection, from the close callback: at once on the     *)
(* base loop, queued to it from another.                                    *)
Erased(c) == {d \in connections : Name(d) # Name(c)}

(* Mutant: a connection closed on another loop is not removed.             *)
RemoveOnBaseOnly(c, r) ==
    IF io[c] = 0
    THEN /\ connections' = Erased(c)
         /\ conn' = [conn EXCEPT ![c] = Assert(r, Erased(c) # connections)]
         /\ pending' = queueInLoop(0, "connectDestroyed", c)
    ELSE /\ conn' = [conn EXCEPT ![c] = r]
         /\ UNCHANGED <<connections, pending>>

removeConnection(c, r) ==
    IF io[c] = 0
    THEN /\ connections' = Erased(c)
         /\ conn' = [conn EXCEPT ![c] = Assert(r, Erased(c) # connections)]
         /\ pending' = queueInLoop(0, "connectDestroyed", c)
    ELSE /\ conn' = [conn EXCEPT ![c] = r]
         /\ pending' = queueInLoop(0, "removeConnectionInLoop", c)
         /\ UNCHANGED connections

(* What follows a method that took conn[c] to r: the close callback if it   *)
(* closed the connection.                                                   *)
After(c, r) ==
    IF r.state = "kDisconnected" /\ conn[c].state # "kDisconnected"
    THEN removeConnection(c, r)
    ELSE /\ conn' = [conn EXCEPT ![c] = r]
         /\ UNCHANGED <<connections, pending>>

(* The message callback called forceClose(), which queues the rest.         *)
Forces(c, react) ==
    react = "forceClose" /\ conn[c].inbox /\ "IN" \in revents[c]

(* revents_ is not read again before the next poll sets it: it is forgotten.*)
Handle(l, c) ==
    /\ lpc[l] = "handle" /\ c \in active[l]
    /\ active' = [active EXCEPT ![l] = @ \ {c}]
    /\ revents' = [revents EXCEPT ![c] = {}]
    /\ UNCHANGED <<lpc, acceptReady, batch, called, threadNum, nextConnId,
                   id, io, replaced, addr, user>>
    /\ \E react \in Reactions, n \in 1..Chunk :
       \E r \in {handleEvent(conn[c], revents[c], react, Chunk, n)} :
          IF Forces(c, react)
          THEN /\ conn' = [conn EXCEPT ![c] = r]
               /\ pending' = queueInLoop(l, "forceCloseInLoop", c)
               /\ UNCHANGED connections
          ELSE After(c, r)

(* The loop and the number of the next connection, which only grows on a    *)
(* server with loops of its own.                                            *)
NextNumber == IF threadNum = 0 THEN nextConnId ELSE nextConnId + 1

NextLoop == IF threadNum = 0 THEN 0 ELSE (nextConnId % threadNum) + 1

(* Acceptor::handleRead and newConnection.                                  *)
Accept(c) ==
    /\ lpc[0] = "handle" /\ acceptReady
    /\ conn[c].peer = "waiting"
    /\ acceptReady' = FALSE
    /\ nextConnId' = NextNumber
    /\ id' = [id EXCEPT ![c] = NextNumber]
    /\ io' = [io EXCEPT ![c] = NextLoop]
    /\ LET same   == {d \in connections : Name(d) = <<addr[c], NextNumber>>}
           opened == [conn[c] EXCEPT !.peer = "open"]
       IN  /\ connections' = (connections \ same) \cup {c}
           /\ replaced' = replaced \cup same
           /\ IF NextLoop = 0
              THEN /\ conn' = [conn EXCEPT ![c] = connectEstablished(opened)]
                   /\ UNCHANGED pending
              ELSE /\ conn' = [conn EXCEPT ![c] = opened]
                   /\ pending' = queueInLoop(NextLoop, "connectEstablished", c)
    /\ UNCHANGED <<lpc, active, revents, batch, called, threadNum, addr, user>>

(* Out of descriptors: accepted on the idle one and closed at once.         *)
Refuse(c) ==
    /\ lpc[0] = "handle" /\ acceptReady
    /\ conn[c].peer = "waiting"
    /\ acceptReady' = FALSE
    /\ conn' = [conn EXCEPT ![c].peer = "refused"]
    /\ UNCHANGED <<lpc, active, revents, queueVars, serverVars, addr, user>>

SwapPending(l) ==
    /\ lpc[l] = "handle" /\ active[l] = {} /\ (l = 0 => ~acceptReady)
    /\ batch' = [batch EXCEPT ![l] = pending[l]]
    /\ pending' = [pending EXCEPT ![l] = <<>>]
    /\ lpc' = [lpc EXCEPT ![l] = IF pending[l] = <<>> THEN "poll" ELSE "call"]
    /\ UNCHANGED <<acceptReady, active, revents, called, serverVars, conn, addr, user>>

(* A functor is called; the batch holds on to its connection.               *)
First(l) == Head(batch[l])

Call(l, f) ==
    /\ lpc[l] = "call" /\ batch[l] # <<>> /\ First(l).call = f
    /\ batch' = [batch EXCEPT ![l] = Tail(@)]
    /\ called' = [called EXCEPT ![l] =
                     IF HoldsConn(First(l)) THEN @ \cup {First(l).conn} ELSE @]
    /\ UNCHANGED <<loopVars, threadNum, nextConnId, id, io, replaced, addr, user>>

CallEstablished(l) ==
    /\ Call(l, "connectEstablished")
    /\ LET c == First(l).conn
       IN  conn' = [conn EXCEPT ![c] = connectEstablished(@)]
    /\ UNCHANGED <<connections, pending>>

CallDestroyed(l) ==
    /\ Call(l, "connectDestroyed")
    /\ LET c == First(l).conn
       IN  conn' = [conn EXCEPT ![c] = connectDestroyed(@)]
    /\ UNCHANGED <<connections, pending>>

CallForceClose(l) ==
    /\ Call(l, "forceCloseInLoop")
    /\ LET c == First(l).conn IN After(c, forceCloseInLoop(conn[c]))

CallRemove ==
    /\ Call(0, "removeConnectionInLoop")
    /\ LET c == First(0).conn
       IN  /\ connections' = Erased(c)
           /\ conn' = [conn EXCEPT ![c] = Assert(@, Erased(c) # connections)]
           /\ pending' = queueInLoop(io[c], "connectDestroyed", c)

(* The functors of the batch are destroyed.                                 *)
EndBatch(l) ==
    /\ lpc[l] = "call" /\ batch[l] = <<>>
    /\ called' = [called EXCEPT ![l] = {}]
    /\ lpc' = [lpc EXCEPT ![l] = "poll"]
    /\ UNCHANGED <<acceptReady, active, revents, pending, batch, serverVars, conn,
                   addr, user>>

(* The base loop leaves loop() between two rounds, whatever was queued since *)
(* the last one: its thread goes on in ~TcpServer.                          *)
Left == lpc[0] \in {"poll", "left"}

(* ~TcpServer: one connection after the other is taken off the map and torn *)
(* down, at once or on its own loop.  The other loops go on meanwhile.      *)
DestroyServer(c) ==
    /\ Left /\ c \in connections
    /\ lpc' = [lpc EXCEPT ![0] = "left"]
    /\ connections' = connections \ {c}
    /\ IF io[c] = 0
       THEN /\ conn' = [conn EXCEPT ![c] = connectDestroyed(@)]
            /\ UNCHANGED pending
       ELSE /\ pending' = queueInLoop(io[c], "connectDestroyed", c)
            /\ UNCHANGED conn
    /\ UNCHANGED <<acceptReady, active, revents, batch, called, threadNum, nextConnId,
                   id, io, replaced, addr, user>>

(* Then its member threadPool_ goes: a loop of it is made to quit between   *)
(* two rounds and destroyed with what was queued since the last one.  A     *)
(* server without loops of its own leaves the base loop, destroyed after it.*)
DestroyLoop(l) ==
    /\ Left /\ connections = {}
    /\ IF threadNum = 0 THEN l = 0 ELSE l \in 1..threadNum /\ lpc[l] = "poll"
    /\ lpc' = [lpc EXCEPT ![0] = "left", ![l] = "destroyed"]
    /\ UNCHANGED <<acceptReady, active, revents, queueVars, serverVars, conn, addr, user>>

-----------------------------------------------------------------------------
(* A thread of the user calls send, shutdown or forceClose once: it tests   *)
(* state_, then changes it and queues the functor.  It has a shared_ptr for *)
(* as long as the call lasts.                                               *)
UserTests(t, c, f) ==
    /\ user[t] = Idle
    /\ conn[c].log # <<>> /\ ~Dead(c)
    /\ \/ conn[c].state = "kConnected" /\ f \in {"sendInLoop", "shutdownInLoop"}
       \/ conn[c].state \in {"kConnected", "kDisconnecting"} /\ f = "forceCloseInLoop"
    /\ user' = [user EXCEPT ![t] = Functor(f, c)]
    /\ UNCHANGED <<loopVars, queueVars, serverVars, conn, addr>>

UserQueues(t) ==
    /\ user[t] \in Functors
    /\ LET c == user[t].conn
       IN  /\ conn' = [conn EXCEPT ![c].state =
                          IF user[t].call = "sendInLoop" THEN @ ELSE "kDisconnecting"]
           /\ pending' = queueInLoop(io[c], user[t].call, c)
    /\ user' = [user EXCEPT ![t] = Done]
    /\ UNCHANGED <<loopVars, batch, called, serverVars, addr>>

CallShutdown(l) ==
    /\ Call(l, "shutdownInLoop")
    /\ conn' = [conn EXCEPT ![First(l).conn] = shutdownInLoop(@)]
    /\ UNCHANGED <<connections, pending>>

CallSend(l) ==
    /\ Call(l, "sendInLoop")
    /\ conn' = [conn EXCEPT ![First(l).conn] = sendInLoop(@, Chunk)]
    /\ UNCHANGED <<connections, pending>>

-----------------------------------------------------------------------------
LoopStep(l) ==
    \/ Poll(l) \/ SwapPending(l) \/ EndBatch(l)
    \/ \E c \in Conns : Handle(l, c)
    \/ CallEstablished(l) \/ CallDestroyed(l) \/ CallForceClose(l)
    \/ l = 0 /\ (CallRemove \/ \E c \in Conns : Accept(c) \/ Refuse(c))

Step ==
    \/ \E c \in Conns : Connect(c) \/ PeerSends(c) \/ PeerCloses(c) \/ PeerResets(c)
    \/ \E l \in Loops : LoopStep(l)
    \/ \E c \in Conns : DestroyServer(c)
    \/ \E l \in Loops : DestroyLoop(l)

(* The end of the process ends every thread.                                              *)
Next == ~Aborted /\ Step

Spec == Init /\ [][Next]_vars

(* Every loop that can go on does.  No client has to do anything.           *)
FairSpec == Spec /\ \A l \in Loops : WF_vars(LoopStep(l) /\ ~Aborted)

(* The methods called from other threads too.                               *)
ThreadedNext ==
    \/ Next
    \/ /\ ~Aborted
       /\ \/ \E t \in Threads : \/ UserQueues(t)
                                 \/ \E c \in Conns, f \in FunctorNames : UserTests(t, c, f)
          \/ \E l \in Loops : CallShutdown(l) \/ CallSend(l)

ThreadedSpec == Init /\ [][ThreadedNext]_vars

-----------------------------------------------------------------------------
Gone == lpc[0] \in {"left", "destroyed"}

(* connectDestroyed of c was queued on a loop that quit without calling it. *)
Dropped(c) ==
    \E l \in Loops : /\ lpc[l] = "destroyed"
                    /\ \E i \in DOMAIN pending[l] : pending[l][i] = Functor("connectDestroyed", c)

(* No assert of a connection fails, but for three cases the code leaves     *)
(* open: ~TcpServer tears the connection down while it is closing; its loop *)
(* is made to quit before it calls the connectDestroyed queued on it; its   *)
(* entry in the map was replaced by another of the same name.  The last one *)
(* happens only on a server without loops of its own, which numbers all its *)
(* connections alike, and only to a client that reset the connection it had *)
(* from the same address.                                                   *)
AssertsHold ==
    /\ \A c \in Conns : AssertFails(c) => \/ Gone /\ conn[c].state = "kDisconnecting"
                                         \/ Dropped(c)
                                         \/ replaced # {}
    /\ \A c \in replaced : threadNum = 0 /\ conn[c].peer = "reset"

(* A channel event or a functor never meets a destroyed connection, but for *)
(* a connection that was replaced in the map while its event was waiting.   *)
NoCallOnDead ==
    \A l \in Loops :
       /\ \A c \in active[l] \ replaced : ~Dead(c)
       /\ \A i \in DOMAIN batch[l] : ~Dead(batch[l][i].conn)

(* The poller's index, the channel's events and epoll agree, and no channel *)
(* stays in epoll with nothing to wait for, which would report hang-ups of  *)
(* a closed connection for ever.                                            *)
RegistrationAgrees ==
    ~Aborted => \A c \in Conns :
       LET r == conn[c]
       IN  IF r.index = 1 THEN r.polled /\ r.interest = r.events /\ r.events # {}
                          ELSE ~r.polled /\ r.events = {}

(* The user sees a connection come up once, then its messages, then go down *)
(* once, whatever closes it and however often.                              *)
CallbackOrder ==
    \A c \in Conns :
       LET log == conn[c].log
       IN  \A i \in DOMAIN log : /\ log[i] = "up" <=> i = 1
                                 /\ log[i] = "down" => i = Len(log)

(* shutdown() finishes writing first: the write side closes on an empty     *)
(* buffer, and nothing is added to the buffer afterwards.                   *)
OutputBeforeShutdown == \A c \in Conns : conn[c].shut => conn[c].output = 0

(* A connection whose peer has closed goes away, unless the peer resets it. *)
ClosedIsDestroyed ==
    \A c \in Conns :
       (conn[c].peer = "eof") ~> (conn[c].peer = "reset" \/ Gone \/ Dead(c) \/ Aborted)

(* An orderly shutdown reaches the socket once the output is written.       *)
ShutdownReachesSocket ==
    \A c \in Conns :
       (conn[c].state = "kDisconnecting") ~>
          (conn[c].shut \/ conn[c].state = "kDisconnected" \/ conn[c].peer = "reset"
           \/ Gone \/ Aborted)

-----------------------------------------------------------------------------
(* TcpConnection.cpp:71-72: "If we have pending output, finish writing      *)
(* before closing. Otherwise close immediately."  Not so once the output    *)
(* cannot be written.                                                       *)
ResetIsDestroyed ==
    \A c \in Conns : (conn[c].peer = "reset") ~> (Dead(c) \/ Gone \/ Aborted)

(* TcpConnection.h:52, send is "Thread-safe: if called from another thread, *)
(* the actual send is queued": what is queued outlives the connection.      *)
SendIsSafe ==
    \A l \in Loops :
       ~Gone /\ lpc[l] = "call" /\ batch[l] # <<>> => ~Dead(First(l).conn)
=============================================================================
