----------------------------- MODULE Connection -----------------------------
(***************************************************************************)
(* TcpConnection of reactor_net with its Channel, what EPollPoller knows of *)
(* the channel, and the kernel's side of the socket.                        *)
(*                                                                         *)
(* A connection is a record and each method is an operator from the record  *)
(* before the call to the record after it, composed as the code composes    *)
(* the calls.  What a method asks of other objects (functors queued,        *)
(* callbacks of the server) is up to the module that runs the loops.        *)
(*                                                                         *)
(* Fields: state is state_; events, index and added are the channel's;      *)
(* polled and interest are what epoll holds for the descriptor; output is   *)
(* the size of outputBuffer_; peer is what the peer did last, inbox whether *)
(* data can be read, error whether SO_ERROR is set, shut whether the write  *)
(* side is shut down; log is what the user's callbacks saw, failed whether  *)
(* an assert failed.                                                        *)
(***************************************************************************)
EXTENDS Integers, Sequences

States == {"kConnecting", "kConnected", "kDisconnecting", "kDisconnected"}

Connections ==
    [state: States, events: SUBSET {"read", "write"}, index: -1..1,
     added: BOOLEAN, polled: BOOLEAN, interest: SUBSET {"read", "write"},
     output: Nat,
     peer: {"away", "waiting", "refused", "open", "eof", "reset"},
     inbox: BOOLEAN, error: BOOLEAN, shut: BOOLEAN,
     log: Seq({"up", "message", "down"}), failed: BOOLEAN]

(* The record before the client connects.                                  *)
NewConnection ==
    [state |-> "kConnecting", events |-> {}, index |-> -1,
     added |-> FALSE, polled |-> FALSE, interest |-> {},
     output |-> 0, peer |-> "away", inbox |-> FALSE, error |-> FALSE,
     shut |-> FALSE, log |-> <<>>, failed |-> FALSE]

Assert(r, p) == [r EXCEPT !.failed = @ \/ ~p]

-----------------------------------------------------------------------------
(* EPollPoller.  ADD and MOD fail, with a log line, on a descriptor epoll   *)
(* already has or does not have.                                            *)
epoll_ctl(r, op) ==
    IF op = "DEL" THEN [r EXCEPT !.polled = FALSE, !.interest = {}]
    ELSE IF r.polled = (op = "MOD")
    THEN [r EXCEPT !.polled = TRUE, !.interest = r.events] ELSE r

(* Mutant: the channel taken off epoll keeps the index of an added one.    *)
updateKeepsIndex(r) ==
    IF r.index \in {-1, 0} THEN epoll_ctl([r EXCEPT !.index = 1], "ADD")
    ELSE IF r.events = {} THEN epoll_ctl(r, "DEL")
    ELSE epoll_ctl(r, "MOD")

updateChannel(r) ==
    IF r.index \in {-1, 0} THEN epoll_ctl([r EXCEPT !.index = 1], "ADD")
    ELSE IF r.events = {} THEN [epoll_ctl(r, "DEL") EXCEPT !.index = 0]
    ELSE epoll_ctl(r, "MOD")

removeChannel(r) ==
    [IF r.index = 1 THEN epoll_ctl(r, "DEL") ELSE r EXCEPT !.index = -1]

(* Channel.                                                                *)
update(r) == updateChannel([r EXCEPT !.added = TRUE])

enableReading(r)  == update([r EXCEPT !.events = @ \cup {"read"}])
enableWriting(r)  == update([r EXCEPT !.events = @ \cup {"write"}])
disableWriting(r) == update([r EXCEPT !.events = @ \ {"write"}])
disableAll(r)     == update([r EXCEPT !.events = {}])

isWriting(r) == "write" \in r.events

remove(r) == removeChannel([Assert(r, r.events = {}) EXCEPT !.added = FALSE])

-----------------------------------------------------------------------------
(* TcpConnection, on the thread of its loop.                                *)
connectEstablished(r) ==
    enableReading([Assert(r, r.state = "kConnecting") EXCEPT
                      !.state = "kConnected", !.log = Append(@, "up")])

(* Mutant: the teardown does not test the state.                           *)
DestroyAlways(r) ==
    remove(disableAll([r EXCEPT !.state = "kDisconnected",
                                !.log = Append(@, "down")]))

connectDestroyed(r) ==
    remove(IF r.state = "kConnected"
           THEN disableAll([r EXCEPT !.state = "kDisconnected",
                                     !.log = Append(@, "down")])
           ELSE r)

(* A message of len bytes.                                                  *)
sendInLoop(r, len) ==
    IF r.state = "kDisconnected" THEN r
    ELSE LET s == [r EXCEPT !.output = @ + len]
         IN  IF isWriting(s) THEN s ELSE enableWriting(s)

(* Mutant: the write side is shut down with output left.                   *)
ShutdownAtOnce(r) == [r EXCEPT !.shut = TRUE]

shutdownInLoop(r) == IF isWriting(r) THEN r ELSE [r EXCEPT !.shut = TRUE]

(* Mutant: the channel stays enabled on close.                             *)
CloseKeepsEvents(r) ==
    [Assert(r, r.state \in {"kConnected", "kDisconnecting"}) EXCEPT
        !.state = "kDisconnected", !.log = Append(@, "down")]

handleClose(r) ==
    disableAll([Assert(r, r.state \in {"kConnected", "kDisconnecting"}) EXCEPT
                   !.state = "kDisconnected", !.log = Append(@, "down")])

forceCloseInLoop(r) ==
    IF r.state \in {"kConnected", "kDisconnecting"} THEN handleClose(r) ELSE r

(* What a message callback may do with the connection it is given; the echo *)
(* server sends, the HTTP server sends and shuts down.                      *)
Reactions == {"none", "send", "shutdown", "sendAndShutdown", "forceClose"}

send(r, len) == IF r.state = "kConnected" THEN sendInLoop(r, len) ELSE r

shutdown(r) ==
    IF r.state = "kConnected"
    THEN shutdownInLoop([r EXCEPT !.state = "kDisconnecting"]) ELSE r

forceClose(r) ==
    IF r.state \in {"kConnected", "kDisconnecting"}
    THEN [r EXCEPT !.state = "kDisconnecting"] ELSE r

messageCallback(r, react, len) ==
    CASE react = "none"            -> r
      [] react = "send"            -> send(r, len)
      [] react = "shutdown"        -> shutdown(r)
      [] react = "sendAndShutdown" -> shutdown(send(r, len))
      [] react = "forceClose"      -> forceClose(r)

(* Mutant: the end of the input closes a connection with output left.      *)
ReadClosesAtOnce(r, react, len) ==
    IF r.inbox
    THEN messageCallback([r EXCEPT !.inbox = FALSE, !.log = Append(@, "message")],
                         react, len)
    ELSE IF r.peer \notin {"eof", "reset"} THEN r ELSE handleClose(r)

handleRead(r, react, len) ==
    IF r.inbox
    THEN messageCallback([r EXCEPT !.inbox = FALSE, !.log = Append(@, "message")],
                         react, len)
    ELSE IF r.error THEN [r EXCEPT !.error = FALSE]
    ELSE IF r.peer \notin {"eof", "reset"} THEN r
    ELSE IF r.output > 0 THEN [r EXCEPT !.state = "kDisconnecting"]
    ELSE handleClose(r)

(* write() fails on a reset connection and after shutdown, and takes up to  *)
(* n otherwise.                                                             *)
Written(r, n) ==
    IF r.peer = "reset" \/ r.shut THEN 0
    ELSE IF n < r.output THEN n ELSE r.output

(* Mutant: a shutdown that waits for the output is forgotten.              *)
WriteForgetsShutdown(r, n) ==
    IF ~isWriting(r) THEN r
    ELSE IF Written(r, n) = 0 THEN [r EXCEPT !.error = FALSE]
    ELSE LET s == [r EXCEPT !.output = @ - Written(r, n)]
         IN  IF s.output > 0 THEN s ELSE disableWriting(s)

handleWrite(r, n) ==
    IF ~isWriting(r) THEN r
    ELSE IF Written(r, n) = 0 THEN [r EXCEPT !.error = FALSE]
    ELSE LET s == [r EXCEPT !.output = @ - Written(r, n)]
             d == disableWriting(s)
         IN  IF s.output > 0 THEN s
             ELSE IF d.state = "kDisconnecting" THEN shutdownInLoop(d) ELSE d

handleError(r) == [r EXCEPT !.error = FALSE]

(* Channel::handleEventWithGuard: the four callbacks, in this order.        *)
handleEvent(r, revents, react, len, n) ==
    LET h == IF "HUP" \in revents /\ "IN" \notin revents THEN handleClose(r) ELSE r
        e == IF "ERR" \in revents THEN handleError(h) ELSE h
        i == IF "IN" \in revents THEN handleRead(e, react, len) ELSE e
    IN  IF "OUT" \in revents THEN handleWrite(i, n) ELSE i

-----------------------------------------------------------------------------
(* What epoll_wait reports of a socket.                                     *)
Ready(r) ==
    IF ~r.polled THEN {}
    ELSE    {f \in {"IN"}  : "read" \in r.interest
                             /\ (r.inbox \/ r.peer \in {"eof", "reset"})}
       \cup {f \in {"OUT"} : "write" \in r.interest}
       \cup {f \in {"ERR"} : r.error}
       \cup {f \in {"HUP"} : r.peer = "reset" \/ (r.peer = "eof" /\ r.shut)}

(* The asserts of ~TcpConnection and ~Channel.                              *)
Destructible(r) == r.state = "kDisconnected" /\ ~r.added
=============================================================================
