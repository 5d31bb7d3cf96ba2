-------------------------- MODULE ConnectionProofs --------------------------
(***************************************************************************)
(* What the methods of a connection do to its record, for every record:     *)
(* the phases a connection passes through, and the lemmas that say which    *)
(* phase each method takes it to.  TcpServerProofs cites them.              *)
(***************************************************************************)
EXTENDS Connection, SequenceTheorems, TLAPS

-----------------------------------------------------------------------------
(* The phases.                                                              *)

(* The channel is in epoll, for exactly the events it asks for, reads among *)
(* them.                                                                    *)
Polling(r) ==
    /\ r.index = 1 /\ r.added /\ r.polled /\ r.interest = r.events
    /\ "read" \in r.events

(* The channel is not in epoll: index -1 is new or removed, 0 taken off.    *)
Silent(r) ==
    /\ r.index \in {-1, 0} /\ (r.added <=> r.index = 0)
    /\ ~r.polled /\ r.events = {}

(* Constructed, not yet established.                                        *)
New(r) ==
    /\ r.state = "kConnecting" /\ Silent(r) /\ ~r.added
    /\ r.output = 0 /\ ~r.shut /\ r.log = <<>>

(* The user saw the connection come up, then messages.                      *)
UpLog(log) ==
    /\ Len(log) > 0
    /\ \A i \in 1..Len(log) : log[i] # "down" /\ (log[i] = "up" <=> i = 1)

(* The user saw it come up first, if at all, and go down last, if at all.   *)
OrderedLog(log) ==
    \A i \in DOMAIN log : /\ log[i] = "up" <=> i = 1
                          /\ log[i] = "down" => i = Len(log)

(* Established: it waits to write as long as there is output, and its write *)
(* side is shut down only on the way out.                                   *)
Up(r) ==
    /\ r.state \in {"kConnected", "kDisconnecting"} /\ Polling(r)
    /\ r.output > 0 => "write" \in r.events
    /\ r.shut => r.state = "kDisconnecting" /\ r.output = 0
    /\ UpLog(r.log)

(* Closed.                                                                  *)
Down(r) ==
    /\ r.state = "kDisconnected" /\ Silent(r)
    /\ r.shut => r.output = 0
    /\ OrderedLog(r.log)

(* s is what a method that failed no assert makes of r; methods do not act  *)
(* on the peer.                                                             *)
Continues(s, r) ==
    s \in Connections /\ s.peer = r.peer /\ (~r.failed => ~s.failed)

(* What holds of a connection at any time: its callbacks came in order, its *)
(* write side was shut down on an empty buffer, and it is in a phase, unless*)
(* an assert failed.                                                        *)
Sound(r) ==
    /\ OrderedLog(r.log) /\ (r.shut => r.output = 0)
    /\ r.failed \/ New(r) \/ Up(r) \/ Down(r)

-----------------------------------------------------------------------------
(* Records.                                                                 *)

(* s has what r has in every field but those of F.                          *)
Keeps(s, r, F) ==
    /\ "state" \in F \/ s.state = r.state
    /\ "events" \in F \/ s.events = r.events
    /\ "index" \in F \/ s.index = r.index
    /\ "added" \in F \/ s.added = r.added
    /\ "polled" \in F \/ s.polled = r.polled
    /\ "interest" \in F \/ s.interest = r.interest
    /\ "output" \in F \/ s.output = r.output
    /\ "inbox" \in F \/ s.inbox = r.inbox
    /\ "error" \in F \/ s.error = r.error
    /\ "shut" \in F \/ s.shut = r.shut
    /\ "log" \in F \/ s.log = r.log
    /\ "failed" \in F \/ s.failed = r.failed
    /\ "peer" \in F \/ s.peer = r.peer

(* A field of a connection has its type.                                    *)
LEMMA FieldTypes ==
  ASSUME NEW r \in Connections
  PROVE  /\ r.state \in States
         /\ r.events \in SUBSET {"read", "write"}
         /\ r.index \in -1..1
         /\ r.added \in BOOLEAN
         /\ r.polled \in BOOLEAN
         /\ r.interest \in SUBSET {"read", "write"}
         /\ r.output \in Nat
         /\ r.inbox \in BOOLEAN
         /\ r.error \in BOOLEAN
         /\ r.shut \in BOOLEAN
         /\ r.log \in Seq({"up", "message", "down"})
         /\ r.failed \in BOOLEAN
         /\ r.peer \in {"away", "waiting", "refused", "open", "eof", "reset"}
BY DEF Connections

(* The poller's three indices: new, added, taken off.                       *)
LEMMA Indices ==
  ASSUME NEW r \in Connections
  PROVE  r.index \in {-1, 0} \/ r.index = 1
BY DEF Connections

(* Setting one field to a value of its type gives a connection, and touches *)
(* no other field.  One field at a time is what the provers see through.    *)
LEMMA SetState ==
  ASSUME NEW r \in Connections, NEW v \in States
  PROVE  LET s == [r EXCEPT !.state = v] IN
         s \in Connections /\ s.state = v /\ Keeps(s, r, {"state"})
BY DEF Connections, Keeps

LEMMA SetEvents ==
  ASSUME NEW r \in Connections, NEW v \in SUBSET {"read", "write"}
  PROVE  LET s == [r EXCEPT !.events = v] IN
         s \in Connections /\ s.events = v /\ Keeps(s, r, {"events"})
BY DEF Connections, Keeps

LEMMA SetIndex ==
  ASSUME NEW r \in Connections, NEW v \in -1..1
  PROVE  LET s == [r EXCEPT !.index = v] IN
         s \in Connections /\ s.index = v /\ Keeps(s, r, {"index"})
BY DEF Connections, Keeps

LEMMA SetAdded ==
  ASSUME NEW r \in Connections, NEW v \in BOOLEAN
  PROVE  LET s == [r EXCEPT !.added = v] IN
         s \in Connections /\ s.added = v /\ Keeps(s, r, {"added"})
BY DEF Connections, Keeps

LEMMA SetPolled ==
  ASSUME NEW r \in Connections, NEW v \in BOOLEAN
  PROVE  LET s == [r EXCEPT !.polled = v] IN
         s \in Connections /\ s.polled = v /\ Keeps(s, r, {"polled"})
BY DEF Connections, Keeps

LEMMA SetInterest ==
  ASSUME NEW r \in Connections, NEW v \in SUBSET {"read", "write"}
  PROVE  LET s == [r EXCEPT !.interest = v] IN
         s \in Connections /\ s.interest = v /\ Keeps(s, r, {"interest"})
BY DEF Connections, Keeps

LEMMA SetOutput ==
  ASSUME NEW r \in Connections, NEW v \in Nat
  PROVE  LET s == [r EXCEPT !.output = v] IN
         s \in Connections /\ s.output = v /\ Keeps(s, r, {"output"})
BY DEF Connections, Keeps

LEMMA SetInbox ==
  ASSUME NEW r \in Connections, NEW v \in BOOLEAN
  PROVE  LET s == [r EXCEPT !.inbox = v] IN
         s \in Connections /\ s.inbox = v /\ Keeps(s, r, {"inbox"})
BY DEF Connections, Keeps

LEMMA SetError ==
  ASSUME NEW r \in Connections, NEW v \in BOOLEAN
  PROVE  LET s == [r EXCEPT !.error = v] IN
         s \in Connections /\ s.error = v /\ Keeps(s, r, {"error"})
BY DEF Connections, Keeps

LEMMA SetShut ==
  ASSUME NEW r \in Connections, NEW v \in BOOLEAN
  PROVE  LET s == [r EXCEPT !.shut = v] IN
         s \in Connections /\ s.shut = v /\ Keeps(s, r, {"shut"})
BY DEF Connections, Keeps

LEMMA SetLog ==
  ASSUME NEW r \in Connections, NEW v \in Seq({"up", "message", "down"})
  PROVE  LET s == [r EXCEPT !.log = v] IN
         s \in Connections /\ s.log = v /\ Keeps(s, r, {"log"})
BY DEF Connections, Keeps

LEMMA SetFailed ==
  ASSUME NEW r \in Connections, NEW v \in BOOLEAN
  PROVE  LET s == [r EXCEPT !.failed = v] IN
         s \in Connections /\ s.failed = v /\ Keeps(s, r, {"failed"})
BY DEF Connections, Keeps

LEMMA SetPeer ==
  ASSUME NEW r \in Connections, NEW v \in {"away", "waiting", "refused", "open", "eof", "reset"}
  PROVE  LET s == [r EXCEPT !.peer = v] IN
         s \in Connections /\ s.peer = v /\ Keeps(s, r, {"peer"})
BY DEF Connections, Keeps

(* A failed assert leaves everything else.                                  *)
LEMMA AssertProperties ==
  ASSUME NEW r \in Connections, NEW p \in BOOLEAN
  PROVE  LET s == Assert(r, p) IN
         /\ s \in Connections /\ Keeps(s, r, {"failed"})
         /\ s.failed <=> (r.failed \/ ~p)
BY DEF Assert, Connections, Keeps

-----------------------------------------------------------------------------
(* Channel and EPollPoller.                                                 *)

(* The fields of a channel's registration.                                  *)
Registration == {"index", "added", "polled", "interest"}

(* epoll_ctl changes only what epoll holds: nothing after DEL, the events   *)
(* the channel wants after an ADD or a MOD that fits.                       *)
LEMMA EpollCtl ==
  ASSUME NEW r \in Connections, NEW op
  PROVE  LET s == epoll_ctl(r, op) IN
         /\ s \in Connections /\ Keeps(s, r, {"polled", "interest"})
         /\ op = "DEL" => ~s.polled
         /\ op = "ADD" /\ ~r.polled => s.polled /\ s.interest = r.events
         /\ op = "MOD" /\ r.polled => s.polled /\ s.interest = r.events
<1> DEFINE u == [r EXCEPT !.polled = FALSE, !.interest = {}]
           v == [r EXCEPT !.polled = TRUE, !.interest = r.events]
<1>1. u \in Connections /\ Keeps(u, r, {"polled", "interest"}) /\ ~u.polled
  BY DEF Connections, Keeps
<1>2. /\ v \in Connections /\ Keeps(v, r, {"polled", "interest"})
      /\ v.polled /\ v.interest = r.events
  BY DEF Connections, Keeps
<1>3. Keeps(r, r, {"polled", "interest"})
  BY DEF Keeps
<1>4. epoll_ctl(r, op) = IF op = "DEL" THEN u ELSE IF r.polled = (op = "MOD") THEN v ELSE r
  BY DEF epoll_ctl
<1> HIDE DEF u, v
<1>5. r.polled \in BOOLEAN
  BY FieldTypes
<1> QED BY <1>1, <1>2, <1>3, <1>4, <1>5, Zenon

(* Channel::update puts a channel that wants events into epoll for them,    *)
(* and takes one that wants none out, if the index said the truth before.   *)
LEMMA Update ==
  ASSUME NEW r \in Connections, r.polled <=> r.index = 1
  PROVE  LET s == update(r) IN
         /\ s \in Connections /\ Keeps(s, r, Registration) /\ s.added
         /\ s.polled <=> s.index = 1
         /\ r.events # {} => s.index = 1 /\ s.polled /\ s.interest = r.events
         /\ r.index = 1 /\ r.events = {} => s.index = 0 /\ ~s.polled
<1> DEFINE a == [r EXCEPT !.added = TRUE]
           b == [a EXCEPT !.index = 1]
           d == epoll_ctl(a, "DEL")
           t == epoll_ctl(b, "ADD")
           m == epoll_ctl(a, "MOD")
           z == [d EXCEPT !.index = 0]
<1>1. update(r) = IF a.index \in {-1, 0} THEN t
                  ELSE IF a.events = {} THEN z ELSE m
  BY DEF update, updateChannel
<1>2. a \in Connections /\ a.added /\ Keeps(a, r, {"added"})
  BY SetAdded
<1>3. b \in Connections /\ b.index = 1 /\ Keeps(b, a, {"index"})
  <2> HIDE DEF a
  <2> QED BY <1>2, SetIndex, 1 \in -1..1
<1>4. /\ t \in Connections /\ Keeps(t, b, {"polled", "interest"})
      /\ ~b.polled => t.polled /\ t.interest = b.events
  <2> HIDE DEF b
  <2> QED BY <1>3, EpollCtl
<1>5. /\ m \in Connections /\ Keeps(m, a, {"polled", "interest"})
      /\ a.polled => m.polled /\ m.interest = a.events
  <2> HIDE DEF a
  <2> QED BY <1>2, EpollCtl
<1>6. d \in Connections /\ Keeps(d, a, {"polled", "interest"}) /\ ~d.polled
  <2> HIDE DEF a
  <2> QED BY <1>2, EpollCtl
<1>7. z \in Connections /\ z.index = 0 /\ Keeps(z, d, {"index"})
  <2> HIDE DEF d
  <2> QED BY <1>6, SetIndex, 0 \in -1..1
<1>8. r.index \in {-1, 0} \/ r.index = 1
  BY Indices
<1> HIDE DEF a, b, d, t, m, z
<1>9. CASE r.index \in {-1, 0}
  <2>1. update(r) = t
    BY <1>1, <1>2, <1>9 DEF Keeps
  <2>2. r.index # 1 /\ ~r.polled
    BY <1>9
  <2>3. b.index = 1 /\ ~b.polled /\ b.events = r.events /\ b.added
    BY <1>2, <1>3, <2>2 DEF Keeps
  <2>4. t.index = 1 /\ t.polled /\ t.interest = r.events /\ t.added
    BY <1>4, <2>3 DEF Keeps
  <2>5. Keeps(t, r, Registration)
    BY <1>2, <1>3, <1>4 DEF Keeps, Registration
  <2> QED BY <1>4, <2>1, <2>2, <2>4, <2>5
<1>10. CASE r.index = 1 /\ r.events = {}
  <2>1. update(r) = z
    BY <1>1, <1>2, <1>10 DEF Keeps
  <2>2. z.index = 0 /\ ~z.polled /\ z.added
    BY <1>2, <1>6, <1>7 DEF Keeps
  <2>3. Keeps(d, r, Registration)
    BY <1>2, <1>6 DEF Keeps, Registration
  <2>4. Keeps(z, r, Registration)
    BY <1>7, <2>3 DEF Keeps, Registration
  <2> QED BY <1>7, <1>10, <2>1, <2>2, <2>4
<1>11. CASE r.index = 1 /\ r.events # {}
  <2>1. update(r) = m
    BY <1>1, <1>2, <1>11 DEF Keeps
  <2>2. a.polled /\ a.events = r.events /\ m.index = 1 /\ m.added
    BY <1>2, <1>5, <1>11 DEF Keeps
  <2>3. m.polled /\ m.interest = r.events
    BY <1>5, <2>2
  <2>4. Keeps(m, r, Registration)
    BY <1>2, <1>5 DEF Keeps, Registration
  <2> QED BY <1>5, <1>11, <2>1, <2>2, <2>3, <2>4
<1> QED BY <1>8, <1>9, <1>10, <1>11

(* Channel::remove forgets the channel, and takes it off epoll if the index *)
(* said the truth; it asserts that the channel wants nothing.               *)
LEMMA Remove ==
  ASSUME NEW r \in Connections, r.polled <=> r.index = 1
  PROVE  LET s == remove(r) IN
         /\ s \in Connections /\ Keeps(s, r, Registration \cup {"failed"})
         /\ s.failed <=> (r.failed \/ r.events # {})
         /\ ~s.added /\ s.index = -1 /\ ~s.polled
<1> DEFINE p == Assert(r, r.events = {})
           a == [p EXCEPT !.added = FALSE]
           b == IF a.index = 1 THEN epoll_ctl(a, "DEL") ELSE a
           z == [b EXCEPT !.index = -1]
<1>1. /\ p \in Connections /\ Keeps(p, r, {"failed"})
      /\ p.failed <=> (r.failed \/ r.events # {})
  BY AssertProperties
<1>2. a \in Connections /\ ~a.added /\ Keeps(a, p, {"added"})
  <2> HIDE DEF p
  <2> QED BY <1>1, SetAdded
<1>3. /\ b \in Connections /\ Keeps(b, a, {"polled", "interest"})
      /\ (a.polled <=> a.index = 1) => ~b.polled
  <2> HIDE DEF a
  <2>1. epoll_ctl(a, "DEL") \in Connections /\ Keeps(epoll_ctl(a, "DEL"), a, {"polled", "interest"})
        /\ ~epoll_ctl(a, "DEL").polled
    BY <1>2, EpollCtl
  <2> QED BY <1>2, <2>1 DEF Keeps
<1>4. z \in Connections /\ z.index = -1 /\ Keeps(z, b, {"index"})
  <2> HIDE DEF b
  <2> QED BY <1>3, SetIndex, -1 \in -1..1
<1>5. remove(r) = z
  BY DEF remove, removeChannel
<1> HIDE DEF p, a, b, z
<1> QED BY <1>1, <1>2, <1>3, <1>4, <1>5 DEF Keeps, Registration

(* A channel that reads may turn writing on and off; it stays in epoll.     *)
LEMMA EnableWriting ==
  ASSUME NEW r \in Connections, Polling(r)
  PROVE  LET s == enableWriting(r) IN
         /\ s \in Connections /\ Keeps(s, r, Registration \cup {"events"})
         /\ Polling(s) /\ s.events = r.events \cup {"write"}
<1> DEFINE a == [r EXCEPT !.events = r.events \cup {"write"}]
<1>1. a \in Connections /\ a.events = r.events \cup {"write"} /\ Keeps(a, r, {"events"})
  BY FieldTypes, SetEvents
<1>2. a.polled <=> a.index = 1
  BY <1>1 DEF Keeps, Polling
<1>3. enableWriting(r) = update(a)
  BY DEF enableWriting
<1> HIDE DEF a
<1> QED BY <1>1, <1>2, <1>3, Update DEF Keeps, Registration, Polling

LEMMA DisableWriting ==
  ASSUME NEW r \in Connections, Polling(r)
  PROVE  LET s == disableWriting(r) IN
         /\ s \in Connections /\ Keeps(s, r, Registration \cup {"events"})
         /\ Polling(s) /\ s.events = r.events \ {"write"}
<1> DEFINE a == [r EXCEPT !.events = r.events \ {"write"}]
<1>1. a \in Connections /\ a.events = r.events \ {"write"} /\ Keeps(a, r, {"events"})
  BY FieldTypes, SetEvents
<1>2. a.polled <=> a.index = 1
  BY <1>1 DEF Keeps, Polling
<1>3. disableWriting(r) = update(a)
  BY DEF disableWriting
<1> HIDE DEF a
<1> QED BY <1>1, <1>2, <1>3, Update DEF Keeps, Registration, Polling

(* A channel that wants nothing any more is off epoll, but still known.     *)
LEMMA DisableAll ==
  ASSUME NEW r \in Connections, Polling(r)
  PROVE  LET s == disableAll(r) IN
         /\ s \in Connections /\ Keeps(s, r, Registration \cup {"events"})
         /\ Silent(s) /\ s.added
<1> DEFINE a == [r EXCEPT !.events = {}]
<1>1. a \in Connections /\ a.events = {} /\ Keeps(a, r, {"events"})
  BY SetEvents
<1>2. a.polled <=> a.index = 1
  BY <1>1 DEF Keeps, Polling
<1>3. disableAll(r) = update(a)
  BY DEF disableAll
<1> HIDE DEF a
<1> QED BY <1>1, <1>2, <1>3, Update DEF Keeps, Registration, Polling, Silent

(* A new channel that starts reading enters epoll.                          *)
LEMMA EnableReading ==
  ASSUME NEW r \in Connections, Silent(r)
  PROVE  LET s == enableReading(r) IN
         /\ s \in Connections /\ Keeps(s, r, Registration \cup {"events"})
         /\ Polling(s) /\ s.events = {"read"}
<1> DEFINE a == [r EXCEPT !.events = r.events \cup {"read"}]
<1>1. a \in Connections /\ a.events = r.events \cup {"read"} /\ Keeps(a, r, {"events"})
  BY FieldTypes, SetEvents
<1>2. /\ a.polled <=> a.index = 1
      /\ a.events = {"read"}
  BY <1>1 DEF Keeps, Silent
<1>3. enableReading(r) = update(a)
  BY DEF enableReading
<1> HIDE DEF a
<1> QED BY <1>1, <1>2, <1>3, Update DEF Keeps, Registration, Polling

-----------------------------------------------------------------------------
(* TcpConnection.                                                           *)

(* One more callback.                                                       *)
LEMMA Logs ==
  ASSUME NEW log \in Seq({"up", "message", "down"})
  PROVE  /\ \A e \in {"up", "message", "down"} :
               Append(log, e) \in Seq({"up", "message", "down"})
         /\ log = <<>> => UpLog(Append(log, "up"))
         /\ UpLog(log) => UpLog(Append(log, "message"))
         /\ UpLog(log) => OrderedLog(Append(log, "down"))
         /\ UpLog(log) => OrderedLog(log)
<1> DEFINE E == {"up", "message", "down"}
<1>1. ASSUME NEW e \in E
      PROVE  /\ Append(log, e) \in Seq(E) /\ Len(Append(log, e)) = Len(log) + 1
             /\ \A i \in 1..Len(log) : Append(log, e)[i] = log[i]
             /\ Append(log, e)[Len(log) + 1] = e
  BY AppendProperties
<1>2. Len(log) \in Nat /\ DOMAIN log = 1..Len(log)
  BY LenProperties
<1>3. log = <<>> => UpLog(Append(log, "up"))
  BY <1>1 DEF UpLog
<1>4. UpLog(log) => UpLog(Append(log, "message"))
  <2> SUFFICES ASSUME UpLog(log) PROVE UpLog(Append(log, "message"))
    OBVIOUS
  <2>1. \A i \in 1..(Len(log) + 1) : i \in 1..Len(log) \/ i = Len(log) + 1
    BY <1>2
  <2>2. "message" \in E
    OBVIOUS
  <2> QED BY <1>1, <1>2, <2>1, <2>2 DEF UpLog
<1>5. UpLog(log) => OrderedLog(Append(log, "down"))
  <2> SUFFICES ASSUME UpLog(log) PROVE OrderedLog(Append(log, "down"))
    OBVIOUS
  <2>1. \A i \in 1..(Len(log) + 1) : i \in 1..Len(log) \/ i = Len(log) + 1
    BY <1>2
  <2>2. DOMAIN Append(log, "down") = 1..(Len(log) + 1)
    BY <1>1, LenProperties
  <2> QED BY <1>1, <1>2, <2>1, <2>2 DEF UpLog, OrderedLog
<1>6. UpLog(log) => OrderedLog(log)
  BY <1>2 DEF UpLog, OrderedLog
<1> QED BY <1>1, <1>3, <1>4, <1>5, <1>6

(* A new connection is established: its assert holds.                       *)
LEMMA Established ==
  ASSUME NEW r \in Connections, New(r)
  PROVE  LET s == connectEstablished(r) IN
         /\ Continues(s, r) /\ Up(s) /\ s.state = "kConnected"
         /\ s.output = r.output /\ s.inbox = r.inbox
<1> DEFINE p == Assert(r, r.state = "kConnecting")
           a == [p EXCEPT !.state = "kConnected"]
           b == [a EXCEPT !.log = Append(p.log, "up")]
<1>1. /\ p \in Connections /\ Keeps(p, r, {"failed"})
      /\ ~r.failed => ~p.failed
  BY AssertProperties DEF New
<1>2. a \in Connections /\ a.state = "kConnected" /\ Keeps(a, p, {"state"})
  <2> HIDE DEF p
  <2> QED BY <1>1, SetState, "kConnected" \in States DEF States
<1>3. b \in Connections /\ b.log = Append(p.log, "up") /\ Keeps(b, a, {"log"})
  <2>1. Append(p.log, "up") \in Seq({"up", "message", "down"})
    BY <1>1, FieldTypes, Logs
  <2> HIDE DEF a
  <2> QED BY <1>2, <2>1, SetLog
<1>4. connectEstablished(r) = enableReading(b)
  BY DEF connectEstablished
<1>5. r.log = <<>> /\ UpLog(Append(r.log, "up"))
  BY FieldTypes, Logs DEF New
<1> HIDE DEF p, a, b
<1>6. Silent(b)
  BY <1>1, <1>2, <1>3 DEF New, Silent, Keeps
<1>7. b.log = Append(r.log, "up") /\ b.state = "kConnected" /\ b.output = 0 /\ ~b.shut
      /\ b.output = r.output /\ b.inbox = r.inbox /\ b.peer = r.peer /\ (~r.failed => ~b.failed)
  BY <1>1, <1>2, <1>3 DEF New, Keeps
<1> DEFINE z == enableReading(b)
<1>8. /\ z \in Connections /\ Keeps(z, b, Registration \cup {"events"}) /\ Polling(z)
  BY <1>3, <1>6, EnableReading
<1> HIDE DEF z
<1>9. z.log = b.log /\ z.state = b.state /\ z.output = b.output /\ z.shut = b.shut
      /\ z.inbox = b.inbox /\ z.peer = b.peer /\ z.failed = b.failed
  BY <1>8 DEF Keeps, Registration
<1>10. Up(z)
  BY <1>5, <1>7, <1>8, <1>9 DEF Up
<1> QED BY <1>4, <1>7, <1>8, <1>9, <1>10 DEF z, Continues

(* handleClose closes an established connection: its assert holds.          *)
LEMMA Closes ==
  ASSUME NEW r \in Connections, Up(r)
  PROVE  LET s == handleClose(r) IN
         Continues(s, r) /\ Down(s) /\ s.output = r.output
<1> DEFINE p == Assert(r, r.state \in {"kConnected", "kDisconnecting"})
           a == [p EXCEPT !.state = "kDisconnected"]
           b == [a EXCEPT !.log = Append(p.log, "down")]
<1>1. /\ p \in Connections /\ Keeps(p, r, {"failed"})
      /\ ~r.failed => ~p.failed
  BY AssertProperties DEF Up
<1>2. a \in Connections /\ a.state = "kDisconnected" /\ Keeps(a, p, {"state"})
  <2> HIDE DEF p
  <2> QED BY <1>1, SetState, "kDisconnected" \in States DEF States
<1>3. b \in Connections /\ b.log = Append(p.log, "down") /\ Keeps(b, a, {"log"})
  <2>1. Append(p.log, "down") \in Seq({"up", "message", "down"})
    BY <1>1, FieldTypes, Logs
  <2> HIDE DEF a
  <2> QED BY <1>2, <2>1, SetLog
<1>4. handleClose(r) = disableAll(b)
  BY DEF handleClose
<1>5. OrderedLog(Append(r.log, "down"))
  <2>1. r.log \in Seq({"up", "message", "down"})
    BY FieldTypes
  <2>2. UpLog(r.log)
    BY DEF Up
  <2> QED BY <2>1, <2>2, Logs
<1> HIDE DEF p, a, b
<1>6. Polling(b)
  <2>1. Keeps(a, r, {"failed", "state"})
    BY <1>1, <1>2 DEF Keeps
  <2>2. Keeps(b, r, {"failed", "state", "log"})
    BY <1>3, <2>1 DEF Keeps
  <2>3. Polling(r)
    BY DEF Up
  <2> QED BY <2>2, <2>3 DEF Polling, Keeps
<1>7. b.log = Append(r.log, "down") /\ b.state = "kDisconnected"
      /\ b.output = r.output /\ b.shut = r.shut
      /\ b.peer = r.peer /\ (~r.failed => ~b.failed)
  BY <1>1, <1>2, <1>3 DEF Keeps
<1> DEFINE z == disableAll(b)
<1>8. z \in Connections /\ Keeps(z, b, Registration \cup {"events"}) /\ Silent(z)
  BY <1>3, <1>6, DisableAll
<1> HIDE DEF z
<1>9. z.log = b.log /\ z.state = b.state /\ z.output = b.output /\ z.shut = b.shut
      /\ z.peer = b.peer /\ z.failed = b.failed
  BY <1>8 DEF Keeps, Registration
<1>10. Down(z)
  BY <1>5, <1>7, <1>8, <1>9 DEF Up, Down
<1> QED BY <1>4, <1>7, <1>8, <1>9, <1>10 DEF z, Continues

LEMMA ForceClosed ==
  ASSUME NEW r \in Connections, Up(r)
  PROVE  LET s == forceCloseInLoop(r) IN Continues(s, r) /\ Down(s)
BY Closes DEF forceCloseInLoop, Up

(* connectDestroyed on a connection nobody closed: the user sees it go down,*)
(* and the channel is forgotten.                                            *)
LEMMA DestroyedUp ==
  ASSUME NEW r \in Connections, Up(r), r.state = "kConnected"
  PROVE  LET s == connectDestroyed(r) IN
         Continues(s, r) /\ Down(s) /\ ~s.added
<1> DEFINE a == [r EXCEPT !.state = "kDisconnected"]
           b == [a EXCEPT !.log = Append(r.log, "down")]
           d == disableAll(b)
           z == remove(d)
<1>1. a \in Connections /\ a.state = "kDisconnected" /\ Keeps(a, r, {"state"})
  BY SetState, "kDisconnected" \in States DEF States
<1>2. b \in Connections /\ b.log = Append(r.log, "down") /\ Keeps(b, a, {"log"})
  <2>1. Append(r.log, "down") \in Seq({"up", "message", "down"})
    BY FieldTypes, Logs
  <2> HIDE DEF a
  <2> QED BY <1>1, <2>1, SetLog
<1>3. connectDestroyed(r) = z
  BY DEF connectDestroyed
<1>4. OrderedLog(Append(r.log, "down"))
  BY FieldTypes, Logs DEF Up
<1> HIDE DEF a, b
<1>5. Polling(b)
  BY <1>1, <1>2 DEF Up, Polling, Keeps
<1>6. d \in Connections /\ Keeps(d, b, Registration \cup {"events"}) /\ Silent(d)
  BY <1>2, <1>5, DisableAll
<1> HIDE DEF d
<1>7. d.polled <=> d.index = 1
  BY <1>6 DEF Silent
<1>8. /\ z \in Connections /\ Keeps(z, d, Registration \cup {"failed"})
      /\ ~d.failed => ~z.failed
      /\ ~z.added /\ z.index = -1 /\ ~z.polled
  BY <1>6, <1>7, Remove DEF Silent
<1> HIDE DEF z
<1>9. /\ z.log = Append(r.log, "down") /\ z.state = "kDisconnected"
      /\ z.output = r.output /\ z.shut = r.shut /\ z.peer = r.peer
      /\ d.failed = r.failed
  BY <1>1, <1>2, <1>6, <1>8 DEF Keeps, Registration
<1>10. Silent(z)
  BY <1>6, <1>8 DEF Silent, Keeps, Registration
<1> QED BY <1>3, <1>4, <1>8, <1>9, <1>10 DEF Up, Down, Continues

(* connectDestroyed on one that shuts down: Channel::remove finds a channel *)
(* that still wants events, and its assert fails.                           *)
LEMMA DestroyedLeaving ==
  ASSUME NEW r \in Connections, Up(r), r.state = "kDisconnecting"
  PROVE  LET s == connectDestroyed(r) IN
         /\ s \in Connections /\ s.failed /\ s.state = "kDisconnecting"
         /\ s.log = r.log /\ s.output = r.output /\ s.shut = r.shut /\ s.peer = r.peer
<1> DEFINE z == remove(r)
<1>1. r.polled <=> r.index = 1
  BY DEF Up, Polling
<1>2. r.events # {}
  BY DEF Up, Polling
<1>3. z \in Connections /\ Keeps(z, r, Registration \cup {"failed"}) /\ z.failed
  BY <1>1, <1>2, Remove
<1>4. connectDestroyed(r) = z
  BY DEF connectDestroyed
<1> HIDE DEF z
<1> QED BY <1>3, <1>4 DEF Keeps, Registration

(* connectDestroyed on one that was closed, or never established, only      *)
(* forgets the channel.                                                     *)
LEMMA DestroyedSilent ==
  ASSUME NEW r \in Connections, Silent(r), r.state # "kConnected"
  PROVE  LET s == connectDestroyed(r) IN
         /\ Continues(s, r) /\ Silent(s) /\ ~s.added
         /\ s.state = r.state /\ s.log = r.log /\ s.output = r.output /\ s.shut = r.shut
         /\ s.inbox = r.inbox
<1> DEFINE z == remove(r)
<1>1. r.polled <=> r.index = 1
  BY DEF Silent
<1>2. /\ z \in Connections /\ Keeps(z, r, Registration \cup {"failed"})
      /\ ~r.failed => ~z.failed
      /\ ~z.added /\ z.index = -1 /\ ~z.polled
  BY <1>1, Remove DEF Silent
<1>3. connectDestroyed(r) = z
  BY DEF connectDestroyed
<1> HIDE DEF z
<1>4. Silent(z)
  BY <1>2 DEF Silent, Keeps, Registration
<1> QED BY <1>2, <1>3, <1>4 DEF Keeps, Registration, Continues

(* Sending to a connected peer: what is in the buffer waits to be written.  *)
LEMMA Sends ==
  ASSUME NEW r \in Connections, Up(r), r.state = "kConnected", NEW len \in Nat
  PROVE  LET s == sendInLoop(r, len) IN
         /\ Continues(s, r) /\ Up(s)
         /\ s.state = r.state /\ s.output = r.output + len
<1> DEFINE a == [r EXCEPT !.output = r.output + len]
           z == enableWriting(a)
<1>1. a \in Connections /\ a.output = r.output + len /\ Keeps(a, r, {"output"})
  <2>1. r.output + len \in Nat
    BY FieldTypes
  <2> QED BY <2>1, SetOutput
<1>2. sendInLoop(r, len) = IF isWriting(a) THEN a ELSE z
  BY DEF sendInLoop
<1> HIDE DEF a
<1>3. Polling(a) /\ a.shut = r.shut /\ a.log = r.log /\ a.state = r.state
      /\ a.peer = r.peer /\ a.failed = r.failed
  BY <1>1 DEF Up, Polling, Keeps
<1>4. /\ z \in Connections /\ Keeps(z, a, Registration \cup {"events"})
      /\ Polling(z) /\ "write" \in z.events
  BY <1>1, <1>3, EnableWriting
<1> HIDE DEF z
<1>5. CASE isWriting(a)
  BY <1>1, <1>2, <1>3, <1>5 DEF Up, isWriting, Continues
<1>6. CASE ~isWriting(a)
  <2>1. z.shut = r.shut /\ z.log = r.log /\ z.state = r.state /\ z.peer = r.peer
        /\ z.failed = r.failed /\ z.output = a.output
    BY <1>3, <1>4 DEF Keeps, Registration
  <2> QED BY <1>1, <1>2, <1>4, <1>6, <2>1 DEF Up, Continues
<1> QED BY <1>5, <1>6

(* The write side is shut down on an empty buffer.                          *)
LEMMA ShutsDown ==
  ASSUME NEW r \in Connections, Up(r), r.state = "kDisconnecting"
  PROVE  LET s == shutdownInLoop(r) IN
         Continues(s, r) /\ Up(s) /\ s.state = r.state /\ s.output = r.output
<1> DEFINE a == [r EXCEPT !.shut = TRUE]
<1>1. a \in Connections /\ a.shut /\ Keeps(a, r, {"shut"})
  BY SetShut
<1>2. shutdownInLoop(r) = IF isWriting(r) THEN r ELSE a
  BY DEF shutdownInLoop
<1> HIDE DEF a
<1>3. CASE isWriting(r)
  BY <1>2, <1>3 DEF Continues
<1>4. CASE ~isWriting(r)
  <2>1. r.output = 0
    BY <1>4, FieldTypes DEF Up, isWriting
  <2>2. Polling(a) /\ a.log = r.log /\ a.state = r.state /\ a.peer = r.peer
        /\ a.failed = r.failed /\ a.output = 0 /\ a.events = r.events
    BY <1>1, <2>1 DEF Up, Polling, Keeps
  <2> QED BY <1>1, <1>2, <1>4, <2>1, <2>2 DEF Up, Continues
<1> QED BY <1>3, <1>4

(* state_ becomes kDisconnecting.                                           *)
LEMMA Leaves ==
  ASSUME NEW r \in Connections, Up(r)
  PROVE  LET s == [r EXCEPT !.state = "kDisconnecting"] IN
         Continues(s, r) /\ Up(s) /\ s.state = "kDisconnecting" /\ s.output = r.output
<1> DEFINE a == [r EXCEPT !.state = "kDisconnecting"]
<1>1. a \in Connections /\ a.state = "kDisconnecting" /\ Keeps(a, r, {"state"})
  BY SetState, "kDisconnecting" \in States DEF States
<1> HIDE DEF a
<1>2. Polling(a) /\ a.log = r.log /\ a.peer = r.peer /\ a.failed = r.failed
      /\ a.output = r.output /\ a.events = r.events /\ a.shut = r.shut
  BY <1>1 DEF Up, Polling, Keeps
<1>3. Continues(a, r) /\ Up(a) /\ a.state = "kDisconnecting" /\ a.output = r.output
  BY <1>1, <1>2 DEF Up, Continues
<1> QED BY <1>3 DEF a

(* SO_ERROR is read, which clears it.                                       *)
LEMMA Errors ==
  ASSUME NEW r \in Connections
  PROVE  LET s == [r EXCEPT !.error = FALSE] IN
         Continues(s, r) /\ Keeps(s, r, {"error"})
BY SetError DEF Continues, Keeps

(* Whatever the message callback does, the connection stays up.             *)
LEMMA Reacts ==
  ASSUME NEW r \in Connections, Up(r), NEW react \in Reactions, NEW len \in Nat
  PROVE  LET s == messageCallback(r, react, len) IN Continues(s, r) /\ Up(s)
<1> DEFINE a == [r EXCEPT !.state = "kDisconnecting"]
           t == send(r, len)
<1>1. ASSUME NEW u \in Connections, Up(u)
      PROVE  LET s == shutdown(u) IN Continues(s, u) /\ Up(s)
  <2> DEFINE v == [u EXCEPT !.state = "kDisconnecting"]
  <2>1. Continues(v, u) /\ Up(v) /\ v.state = "kDisconnecting"
    BY <1>1, Leaves
  <2>2. shutdown(u) = IF u.state = "kConnected" THEN shutdownInLoop(v) ELSE u
    BY DEF shutdown
  <2> HIDE DEF v
  <2>3. Continues(shutdownInLoop(v), v) /\ Up(shutdownInLoop(v))
    BY <2>1, ShutsDown DEF Continues
  <2> QED BY <1>1, <2>1, <2>2, <2>3 DEF Continues
<1>2. Continues(t, r) /\ Up(t)
  BY Sends DEF send, Continues
<1>3. Continues(a, r) /\ Up(a)
  BY Leaves
<1>4. Continues(forceClose(r), r) /\ Up(forceClose(r))
  BY <1>3 DEF forceClose, Up
<1>5. Continues(shutdown(r), r) /\ Up(shutdown(r))
  BY <1>1
<1>6. Continues(shutdown(t), r) /\ Up(shutdown(t))
  <2> HIDE DEF t
  <2>1. Continues(shutdown(t), t) /\ Up(shutdown(t))
    BY <1>1, <1>2 DEF Continues
  <2> QED BY <1>2, <2>1 DEF Continues
<1>7. Continues(r, r)
  BY DEF Continues
<1> HIDE DEF t, a
<1>8. CASE react = "none"
  BY <1>7, <1>8 DEF messageCallback
<1>9. CASE react = "send"
  BY <1>2, <1>9 DEF messageCallback, t
<1>10. CASE react = "shutdown"
  BY <1>5, <1>10 DEF messageCallback
<1>11. CASE react = "sendAndShutdown"
  BY <1>6, <1>11 DEF messageCallback, t
<1>12. CASE react = "forceClose"
  BY <1>4, <1>12 DEF messageCallback
<1> QED BY <1>8, <1>9, <1>10, <1>11, <1>12 DEF Reactions

(* handleRead leaves an established connection up or closes it.             *)
LEMMA HandlesRead ==
  ASSUME NEW r \in Connections, Up(r), NEW react \in Reactions, NEW len \in Nat
  PROVE  LET s == handleRead(r, react, len) IN
         /\ Continues(s, r) /\ (Up(s) \/ Down(s))
         /\ r.inbox => Up(s)
<1> DEFINE a == [r EXCEPT !.inbox = FALSE]
           b == [a EXCEPT !.log = Append(r.log, "message")]
           m == messageCallback(b, react, len)
           e == [r EXCEPT !.error = FALSE]
           d == [r EXCEPT !.state = "kDisconnecting"]
           z == handleClose(r)
<1>1. a \in Connections /\ Keeps(a, r, {"inbox"})
  BY SetInbox
<1>2. b \in Connections /\ b.log = Append(r.log, "message") /\ Keeps(b, a, {"log"})
  <2>1. Append(r.log, "message") \in Seq({"up", "message", "down"})
    BY FieldTypes, Logs
  <2> HIDE DEF a
  <2> QED BY <1>1, <2>1, SetLog
<1>3. handleRead(r, react, len) = IF r.inbox THEN m
                                  ELSE IF r.error THEN e
                                  ELSE IF r.peer \notin {"eof", "reset"} THEN r
                                  ELSE IF r.output > 0 THEN d ELSE z
  BY DEF handleRead
<1>4. UpLog(Append(r.log, "message"))
  BY FieldTypes, Logs DEF Up
<1> HIDE DEF a
<1>5. Continues(b, r) /\ Up(b)
  BY <1>1, <1>2, <1>4 DEF Up, Polling, Keeps, Continues
<1> HIDE DEF b
<1>6. Continues(m, r) /\ Up(m)
  BY <1>5, Reacts DEF Continues
<1>7. Continues(e, r) /\ Keeps(e, r, {"error"})
  BY Errors
<1>8. Continues(d, r) /\ Up(d)
  BY Leaves
<1>9. Continues(z, r) /\ Down(z)
  BY Closes
<1> HIDE DEF m, e, d, z
<1>10. Up(e)
  BY <1>7 DEF Up, Polling, Keeps
<1> QED BY <1>3, <1>6, <1>7, <1>8, <1>9, <1>10 DEF Continues

(* handleWrite leaves an established connection up, and a closed one as it  *)
(* is: its channel does not write.                                          *)
LEMMA Writes ==
  ASSUME NEW r \in Connections, NEW n \in Nat
  PROVE  LET s == handleWrite(r, n) IN
         /\ Up(r) => /\ Continues(s, r) /\ Up(s)
                     /\ s.state = r.state /\ s.output <= r.output
         /\ Down(r) => s = r
<1> DEFINE w == Written(r, n)
           e == [r EXCEPT !.error = FALSE]
           a == [r EXCEPT !.output = r.output - w]
           d == disableWriting(a)
<1>1. handleWrite(r, n) = IF ~isWriting(r) THEN r
                          ELSE IF w = 0 THEN e
                          ELSE IF a.output > 0 THEN a
                          ELSE IF d.state = "kDisconnecting" THEN shutdownInLoop(d) ELSE d
  BY DEF handleWrite
<1>2. Down(r) => handleWrite(r, n) = r
  BY DEF handleWrite, isWriting, Down, Silent
<1>3. ASSUME Up(r)
      PROVE  /\ Continues(handleWrite(r, n), r) /\ Up(handleWrite(r, n))
             /\ handleWrite(r, n).state = r.state /\ handleWrite(r, n).output <= r.output
  <2>1. r.output \in Nat
    BY FieldTypes
  <2>2. /\ w \in Nat /\ r.output - w \in Nat /\ (w # 0 => ~r.shut)
        /\ r.output - w <= r.output /\ r.output <= r.output
    BY <2>1 DEF Written
  <2> HIDE DEF w
  <2>3. a \in Connections /\ a.output = r.output - w /\ Keeps(a, r, {"output"})
    BY <2>2, SetOutput
  <2>4. Continues(e, r) /\ Keeps(e, r, {"error"})
    BY Errors
  <2> HIDE DEF a, e
  <2>5. Up(e) /\ e.state = r.state /\ e.output = r.output
    BY <1>3, <2>4 DEF Up, Polling, Keeps
  <2>6. Polling(a) /\ a.shut = r.shut /\ a.log = r.log /\ a.state = r.state
        /\ a.peer = r.peer /\ a.failed = r.failed /\ a.events = r.events
    BY <1>3, <2>3 DEF Up, Polling, Keeps
  <2>7. /\ d \in Connections /\ Keeps(d, a, Registration \cup {"events"})
        /\ Polling(d)
    BY <2>3, <2>6, DisableWriting
  <2> HIDE DEF d
  <2>8. d.shut = r.shut /\ d.log = r.log /\ d.state = r.state /\ d.peer = r.peer
        /\ d.failed = r.failed /\ d.output = a.output
    BY <2>6, <2>7 DEF Keeps, Registration
  <2>9. CASE ~isWriting(r)
    BY <1>1, <1>3, <2>2, <2>9 DEF Continues
  <2>10. CASE isWriting(r) /\ w = 0
    BY <1>1, <2>2, <2>4, <2>5, <2>10
  <2>11. CASE isWriting(r) /\ w # 0 /\ a.output > 0
    <3>1. Up(a)
      BY <1>3, <2>2, <2>6, <2>11 DEF Up, isWriting
    <3> QED BY <1>1, <2>2, <2>3, <2>6, <2>11, <3>1 DEF Continues
  <2>12. CASE isWriting(r) /\ w # 0 /\ ~(a.output > 0)
    <3>1. a.output = 0
      BY <2>2, <2>3, <2>12
    <3>2. Continues(d, r) /\ Up(d)
      BY <1>3, <2>2, <2>7, <2>8, <2>12, <3>1 DEF Up, Continues
    <3>3. d.state = "kDisconnecting" =>
             /\ Continues(shutdownInLoop(d), d) /\ Up(shutdownInLoop(d))
             /\ shutdownInLoop(d).state = d.state /\ shutdownInLoop(d).output = d.output
      BY <2>7, <3>2, ShutsDown
    <3>4. d.state = r.state /\ d.output <= r.output
      BY <2>2, <2>3, <2>8
    <3> QED BY <1>1, <2>12, <3>2, <3>3, <3>4 DEF Continues
  <2> QED BY <2>9, <2>10, <2>11, <2>12
<1> QED BY <1>2, <1>3

(* The events of a channel leave an established connection up or close it,  *)
(* once, whichever of them come together.                                   *)
LEMMA Events ==
  ASSUME NEW r \in Connections, Up(r), NEW revents, NEW react \in Reactions,
         NEW len \in Nat, NEW n \in Nat
  PROVE  LET s == handleEvent(r, revents, react, len, n) IN
         /\ Continues(s, r) /\ (Up(s) \/ Down(s))
         /\ r.inbox /\ "IN" \in revents => Up(s)
<1> DEFINE h == IF "HUP" \in revents /\ "IN" \notin revents THEN handleClose(r) ELSE r
           e == IF "ERR" \in revents THEN handleError(h) ELSE h
           i == IF "IN" \in revents THEN handleRead(e, react, len) ELSE e
           o == IF "OUT" \in revents THEN handleWrite(i, n) ELSE i
<1>1. handleEvent(r, revents, react, len, n) = o
  BY DEF handleEvent
<1>2. /\ Continues(h, r) /\ (Up(h) \/ Down(h))
      /\ "IN" \in revents => h = r
  BY Closes DEF Continues
<1> HIDE DEF h
<1>3. /\ Continues(e, r) /\ (Up(e) \/ Down(e))
      /\ "IN" \in revents => Up(e) /\ e.inbox = r.inbox
  <2>1. h \in Connections
    BY <1>2 DEF Continues
  <2>2. Continues(handleError(h), h) /\ Keeps(handleError(h), h, {"error"})
    BY <2>1, Errors DEF handleError
  <2>3. Up(h) => Up(handleError(h))
    BY <2>2 DEF Up, Polling, Keeps
  <2>4. Down(h) => Down(handleError(h))
    BY <2>2 DEF Down, Silent, Keeps
  <2>5. handleError(h).inbox = h.inbox
    BY <2>2 DEF Keeps
  <2> QED BY <1>2, <2>2, <2>3, <2>4, <2>5 DEF Continues
<1> HIDE DEF e
<1>4. /\ Continues(i, r) /\ (Up(i) \/ Down(i))
      /\ r.inbox /\ "IN" \in revents => Up(i)
  <2>1. CASE "IN" \in revents
    <3>1. e \in Connections
      BY <1>3 DEF Continues
    <3>2. /\ Continues(handleRead(e, react, len), e)
          /\ Up(handleRead(e, react, len)) \/ Down(handleRead(e, react, len))
          /\ e.inbox => Up(handleRead(e, react, len))
      BY <1>3, <2>1, <3>1, HandlesRead
    <3> QED BY <1>3, <2>1, <3>2 DEF Continues
  <2>2. CASE "IN" \notin revents
    BY <1>3, <2>2
  <2> QED BY <2>1, <2>2
<1> HIDE DEF i
<1>5. /\ Continues(o, r) /\ (Up(o) \/ Down(o))
      /\ r.inbox /\ "IN" \in revents => Up(o)
  <2>1. i \in Connections
    BY <1>4 DEF Continues
  <2>2. /\ Up(i) => Continues(handleWrite(i, n), i) /\ Up(handleWrite(i, n))
        /\ Down(i) => handleWrite(i, n) = i
    BY <2>1, Writes
  <2> QED BY <1>4, <2>2 DEF Continues
<1> QED BY <1>1, <1>5

(* A phase is sound.                                                        *)
LEMMA Phases ==
  ASSUME NEW r \in Connections, New(r) \/ Up(r) \/ Down(r)
  PROVE  Sound(r)
<1>1. r.log \in Seq({"up", "message", "down"})
  BY FieldTypes
<1>2. UpLog(r.log) => OrderedLog(r.log)
  BY <1>1, Logs
<1>3. r.log = <<>> => OrderedLog(r.log)
  BY DEF OrderedLog
<1> QED BY <1>2, <1>3 DEF Sound, New, Up, Down

(* What the peer does, and a failed assert, leave the phase as it is.       *)
LEMMA PhaseKept ==
  ASSUME NEW r, NEW s, Keeps(s, r, {"peer", "inbox", "error", "failed"})
  PROVE  /\ New(r) => New(s)
         /\ Up(r) => Up(s)
         /\ Down(r) => Down(s)
BY DEF Keeps, New, Up, Down, Silent, Polling

-----------------------------------------------------------------------------
(* The count of the output, and when a connection leaves kConnected.        *)

(* What the message callback adds to the output.                            *)
Adds(r, react, len) ==
    IF r.state = "kConnected" /\ react \in {"send", "sendAndShutdown"} THEN len ELSE 0

LEMMA ReactsOutput ==
  ASSUME NEW r \in Connections, Up(r), NEW react \in Reactions, NEW len \in Nat
  PROVE  LET s == messageCallback(r, react, len) IN
         /\ s.output = r.output + Adds(r, react, len)
         /\ r.state # "kConnected" => s.state # "kConnected"
         /\ react \in {"none", "send"} => s.state = r.state
         /\ react = "sendAndShutdown" => s.state # "kConnected"
<1> DEFINE t == send(r, len)
           a == [r EXCEPT !.state = "kDisconnecting"]
<1>1. ASSUME NEW u \in Connections, Up(u)
      PROVE  shutdown(u).output = u.output /\ shutdown(u).state # "kConnected"
  <2> DEFINE v == [u EXCEPT !.state = "kDisconnecting"]
  <2>1. v \in Connections /\ Up(v) /\ v.state = "kDisconnecting" /\ v.output = u.output
    BY <1>1, Leaves DEF Continues
  <2>2. shutdown(u) = IF u.state = "kConnected" THEN shutdownInLoop(v) ELSE u
    BY DEF shutdown
  <2> HIDE DEF v
  <2>3. shutdownInLoop(v).state = v.state /\ shutdownInLoop(v).output = v.output
    BY <2>1, ShutsDown
  <2> QED BY <2>1, <2>2, <2>3
<1>2. r.output \in Nat
  BY FieldTypes
<1>3. /\ t \in Connections /\ Up(t) /\ t.state = r.state
      /\ t.output = r.output + IF r.state = "kConnected" THEN len ELSE 0
  BY <1>2, Sends DEF send, Continues
<1>4. a.state = "kDisconnecting" /\ a.output = r.output
  BY Leaves
<1>5. forceClose(r).state # "kConnected" /\ forceClose(r).output = r.output
  BY <1>4 DEF forceClose
<1>6. shutdown(r).output = r.output /\ shutdown(r).state # "kConnected"
  BY <1>1
<1> HIDE DEF t, a
<1>7. shutdown(t).output = t.output /\ shutdown(t).state # "kConnected"
  BY <1>1, <1>3
<1>8. CASE react = "none"
  BY <1>2, <1>8 DEF messageCallback, Adds
<1>9. CASE react = "send"
  BY <1>2, <1>3, <1>9 DEF messageCallback, Adds, t
<1>10. CASE react = "shutdown"
  BY <1>2, <1>6, <1>10 DEF messageCallback, Adds
<1>11. CASE react = "sendAndShutdown"
  <2>1. messageCallback(r, react, len) = shutdown(t)
    BY <1>11 DEF messageCallback, t
  <2>2. Adds(r, react, len) = IF r.state = "kConnected" THEN len ELSE 0
    BY <1>11 DEF Adds
  <2> QED BY <1>3, <1>7, <1>11, <2>1, <2>2
<1>12. CASE react = "forceClose"
  BY <1>2, <1>5, <1>12 DEF messageCallback, Adds
<1> QED BY <1>8, <1>9, <1>10, <1>11, <1>12 DEF Reactions

(* A read with nothing to read ends the connection if the peer has.         *)
LEMMA ReadOutput ==
  ASSUME NEW r \in Connections, Up(r), NEW react \in Reactions, NEW len \in Nat
  PROVE  LET s == handleRead(r, react, len) IN
         /\ s.output = r.output + IF r.inbox THEN Adds(r, react, len) ELSE 0
         /\ r.state # "kConnected" => s.state # "kConnected"
         /\ r.inbox /\ react \in {"none", "send"} => s.state = r.state
         /\ r.inbox /\ react = "sendAndShutdown" => s.state # "kConnected"
         /\ ~r.inbox /\ r.peer \notin {"eof", "reset"} => s.state = r.state
<1> DEFINE a == [r EXCEPT !.inbox = FALSE]
           b == [a EXCEPT !.log = Append(r.log, "message")]
           m == messageCallback(b, react, len)
           e == [r EXCEPT !.error = FALSE]
           d == [r EXCEPT !.state = "kDisconnecting"]
           z == handleClose(r)
<1>1. a \in Connections /\ Keeps(a, r, {"inbox"})
  BY SetInbox
<1>2. b \in Connections /\ b.log = Append(r.log, "message") /\ Keeps(b, a, {"log"})
  <2>1. Append(r.log, "message") \in Seq({"up", "message", "down"})
    BY FieldTypes, Logs
  <2> HIDE DEF a
  <2> QED BY <1>1, <2>1, SetLog
<1>3. handleRead(r, react, len) = IF r.inbox THEN m
                                  ELSE IF r.error THEN e
                                  ELSE IF r.peer \notin {"eof", "reset"} THEN r
                                  ELSE IF r.output > 0 THEN d ELSE z
  BY DEF handleRead
<1>4. UpLog(Append(r.log, "message")) /\ r.output \in Nat
  BY FieldTypes, Logs DEF Up
<1> HIDE DEF a
<1>5. Up(b) /\ b.state = r.state /\ b.output = r.output
  BY <1>1, <1>2, <1>4 DEF Up, Polling, Keeps
<1> HIDE DEF b
<1>6. /\ m.output = b.output + Adds(b, react, len)
      /\ b.state # "kConnected" => m.state # "kConnected"
      /\ react \in {"none", "send"} => m.state = b.state
      /\ react = "sendAndShutdown" => m.state # "kConnected"
  BY <1>2, <1>5, ReactsOutput
<1>7. Adds(b, react, len) = Adds(r, react, len)
  BY <1>5 DEF Adds
<1>8. e.state = r.state /\ e.output = r.output
  BY Errors DEF Keeps
<1>9. d.state = "kDisconnecting" /\ d.output = r.output
  BY Leaves
<1>10. z.state = "kDisconnected" /\ z.output = r.output
  BY Closes DEF Down
<1> HIDE DEF m, e, d, z
<1>11. r.output + 0 = r.output
  BY <1>4
<1> QED BY <1>3, <1>5, <1>6, <1>7, <1>8, <1>9, <1>10, <1>11

(* What the events of a channel make of the output and of the state, when a *)
(* hang-up always comes with something to read.                             *)
LEMMA EventsOutput ==
  ASSUME NEW r \in Connections, Up(r), NEW revents, NEW react \in Reactions,
         NEW len \in Nat, NEW n \in Nat, "HUP" \in revents => "IN" \in revents
  PROVE  LET s == handleEvent(r, revents, react, len, n)
             message == r.inbox /\ "IN" \in revents
         IN
         /\ s.output <= r.output + IF message THEN Adds(r, react, len) ELSE 0
         /\ r.state # "kConnected" => s.state # "kConnected"
         /\ message /\ react = "sendAndShutdown" => s.state # "kConnected"
         /\ \/ s.state = r.state
            \/ message /\ react \notin {"none", "send"}
            \/ ~r.inbox /\ r.peer \in {"eof", "reset"}
<1> DEFINE e == IF "ERR" \in revents THEN handleError(r) ELSE r
           i == IF "IN" \in revents THEN handleRead(e, react, len) ELSE e
           o == IF "OUT" \in revents THEN handleWrite(i, n) ELSE i
           message == r.inbox /\ "IN" \in revents
<1>1. handleEvent(r, revents, react, len, n) = o
  BY DEF handleEvent
<1>2. /\ e \in Connections /\ Up(e) /\ e.inbox = r.inbox
      /\ e.state = r.state /\ e.output = r.output /\ e.peer = r.peer
  <2>1. /\ handleError(r) \in Connections
        /\ Keeps(handleError(r), r, {"error"})
    BY Errors DEF handleError, Continues
  <2>2. Up(handleError(r))
    BY <2>1 DEF Up, Polling, Keeps
  <2> QED BY <2>1, <2>2 DEF Keeps
<1> HIDE DEF e
<1>3. Adds(e, react, len) = Adds(r, react, len) /\ r.output \in Nat
  BY <1>2, FieldTypes DEF Adds
<1>4. /\ i \in Connections /\ (Up(i) \/ Down(i))
      /\ i.output = r.output + IF message THEN Adds(r, react, len) ELSE 0
      /\ r.state # "kConnected" => i.state # "kConnected"
      /\ message /\ react = "sendAndShutdown" => i.state # "kConnected"
      /\ \/ i.state = r.state
         \/ message /\ react \notin {"none", "send"}
         \/ ~r.inbox /\ r.peer \in {"eof", "reset"}
  <2>1. CASE "IN" \in revents
    <3> DEFINE h == handleRead(e, react, len)
    <3>1. h \in Connections /\ (Up(h) \/ Down(h))
      BY <1>2, HandlesRead DEF Continues
    <3>2. /\ h.output = e.output + IF e.inbox THEN Adds(e, react, len) ELSE 0
          /\ e.state # "kConnected" => h.state # "kConnected"
          /\ e.inbox /\ react \in {"none", "send"} => h.state = e.state
          /\ e.inbox /\ react = "sendAndShutdown" => h.state # "kConnected"
          /\ ~e.inbox /\ e.peer \notin {"eof", "reset"} => h.state = e.state
      BY <1>2, ReadOutput
    <3>3. i = h
      BY <2>1
    <3> HIDE DEF h, i
    <3> QED BY <1>2, <1>3, <2>1, <3>1, <3>2, <3>3
  <2>2. CASE "IN" \notin revents
    <3>1. i = e
      BY <2>2
    <3> HIDE DEF i
    <3> QED BY <1>2, <1>3, <2>2, <3>1
  <2> QED BY <2>1, <2>2
<1> HIDE DEF i
<1>5. o.state = i.state /\ o.output <= i.output
  <2>1. i.output \in Nat
    BY <1>4, FieldTypes
  <2>2. handleWrite(i, n).state = i.state /\ handleWrite(i, n).output <= i.output
    BY <1>4, <2>1, Writes
  <2> QED BY <2>1, <2>2
<1>6. o.output \in Int
  <2>1. handleWrite(i, n) \in Connections
    BY <1>4, Writes DEF Continues
  <2> QED BY <1>4, <2>1, FieldTypes
<1> HIDE DEF o
<1>7. Adds(r, react, len) \in Nat
  BY DEF Adds
<1> QED BY <1>1, <1>3, <1>4, <1>5, <1>6, <1>7

(* An event does not bring a connection that shuts down back: a hang-up with*)
(* nothing left to read closes it, anything else leaves it no less far on.  *)
LEMMA EventsOnward ==
  ASSUME NEW r \in Connections, Up(r), NEW revents, NEW react \in Reactions,
         NEW len \in Nat, NEW n \in Nat
  PROVE  LET s == handleEvent(r, revents, react, len, n) IN
         r.state # "kConnected" => s.state # "kConnected"
<1>1. CASE "HUP" \in revents => "IN" \in revents
  BY <1>1, EventsOutput
<1>2. CASE "HUP" \in revents /\ "IN" \notin revents
  <2> DEFINE h == handleClose(r)
             e == IF "ERR" \in revents THEN handleError(h) ELSE h
             o == IF "OUT" \in revents THEN handleWrite(e, n) ELSE e
  <2>1. handleEvent(r, revents, react, len, n) = o
    BY <1>2 DEF handleEvent
  <2>2. h \in Connections /\ Down(h)
    BY Closes DEF Continues
  <2> HIDE DEF h
  <2>3. e \in Connections /\ Down(e)
    <3>1. handleError(h) \in Connections /\ Keeps(handleError(h), h, {"error"})
      BY <2>2, Errors DEF handleError, Continues
    <3>2. Down(handleError(h))
      BY <2>2, <3>1 DEF Down, Silent, Keeps
    <3> QED BY <2>2, <3>1, <3>2
  <2> HIDE DEF e
  <2>4. handleWrite(e, n) = e
    BY <2>3, Writes
  <2> QED BY <2>1, <2>3, <2>4 DEF Down
<1> QED BY <1>1, <1>2

-----------------------------------------------------------------------------
(* What the methods keep of any connection, also of one another thread of   *)
(* the user moved to a state in which no phase describes it.                *)

(* The poller's index says whether epoll has the channel, and a channel epoll*)
(* has is known to its destructor.                                          *)
Registered(r) == (r.polled <=> r.index = 1) /\ (r.polled => r.added)

(* s is what may become of r as long as it is not torn down.                *)
Follows(s, r) ==
    s \in Connections /\ s.peer = r.peer /\ Registered(s) /\ (r.added => s.added)

(* Setting other fields than those of the registration. *)
LEMMA FollowsSet ==
  ASSUME NEW r \in Connections, Registered(r), NEW s \in Connections,
         s.index = r.index, s.polled = r.polled, s.added = r.added, s.peer = r.peer
  PROVE  Follows(s, r)
BY DEF Follows, Registered

LEMMA FollowsOn ==
  ASSUME NEW r, NEW s, NEW t, Follows(s, r), Follows(t, s)
  PROVE  Follows(t, r)
BY DEF Follows

(* A channel that waits for other events, whichever.                        *)
LEMMA FollowsUpdate ==
  ASSUME NEW r \in Connections, Registered(r), NEW v \in SUBSET {"read", "write"}
  PROVE  Follows(update([r EXCEPT !.events = v]), r)
<1> DEFINE a == [r EXCEPT !.events = v]
<1>1. a \in Connections /\ Keeps(a, r, {"events"})
  BY SetEvents
<1> HIDE DEF a
<1>2. (a.polled <=> a.index = 1) /\ a.peer = r.peer
  BY <1>1 DEF Keeps, Registered
<1> DEFINE z == update(a)
<1>3. /\ z \in Connections /\ Keeps(z, a, Registration) /\ z.added
      /\ z.polled <=> z.index = 1
  BY <1>1, <1>2, Update
<1> HIDE DEF z
<1>4. z.peer = a.peer
  BY <1>3 DEF Keeps, Registration
<1>5. Follows(z, r)
  BY <1>2, <1>3, <1>4 DEF Follows, Registered
<1> QED BY <1>5 DEF z, a

(* state_ changes and the user is called back. *)
LEMMA FollowsCallback ==
  ASSUME NEW r \in Connections, Registered(r), NEW v \in States,
         NEW e \in {"up", "message", "down"}
  PROVE  Follows([r EXCEPT !.state = v, !.log = Append(@, e)], r)
<1> DEFINE a == [r EXCEPT !.state = v]
           b == [a EXCEPT !.log = Append(r.log, e)]
<1>1. a \in Connections /\ Keeps(a, r, {"state"})
  BY SetState
<1>2. Append(r.log, e) \in Seq({"up", "message", "down"})
  BY FieldTypes, Logs
<1>3. [r EXCEPT !.state = v, !.log = Append(@, e)] = b
  OBVIOUS
<1> HIDE DEF a
<1>4. b \in Connections /\ Keeps(b, a, {"log"})
  BY <1>1, <1>2, SetLog
<1> HIDE DEF b
<1>5. Follows(b, r)
  BY <1>1, <1>4, FollowsSet DEF Keeps
<1> QED BY <1>3, <1>5

(* So does an assert before it. *)
LEMMA FollowsAssert ==
  ASSUME NEW r \in Connections, Registered(r), NEW p \in BOOLEAN
  PROVE  Follows(Assert(r, p), r)
<1>1. Assert(r, p) \in Connections /\ Keeps(Assert(r, p), r, {"failed"})
  BY AssertProperties
<1> QED BY <1>1, FollowsSet DEF Keeps

(* The methods of the connection that change its channel.                   *)
LEMMA FollowsChannel ==
  ASSUME NEW r \in Connections, Registered(r)
  PROVE  /\ Follows(enableReading(r), r) /\ Follows(enableWriting(r), r)
         /\ Follows(disableWriting(r), r) /\ Follows(disableAll(r), r)
<1>1. r.events \in SUBSET {"read", "write"}
  BY FieldTypes
<1>2. /\ r.events \cup {"read"} \in SUBSET {"read", "write"}
      /\ r.events \cup {"write"} \in SUBSET {"read", "write"}
      /\ r.events \ {"write"} \in SUBSET {"read", "write"}
      /\ {} \in SUBSET {"read", "write"}
  BY <1>1
<1> QED BY <1>2, FollowsUpdate DEF enableReading, enableWriting, disableWriting, disableAll

LEMMA FollowsEstablished ==
  ASSUME NEW r \in Connections, Registered(r)
  PROVE  Follows(connectEstablished(r), r)
<1> DEFINE p == Assert(r, r.state = "kConnecting")
           b == [p EXCEPT !.state = "kConnected", !.log = Append(@, "up")]
<1>1. Follows(p, r)
  BY FollowsAssert
<1>2. connectEstablished(r) = enableReading(b)
  BY DEF connectEstablished
<1> HIDE DEF p
<1>3. Follows(b, p)
  BY <1>1, FollowsCallback DEF Follows, States
<1> HIDE DEF b
<1>4. Follows(enableReading(b), b)
  BY <1>3, FollowsChannel DEF Follows
<1> QED BY <1>1, <1>2, <1>3, <1>4, FollowsOn

LEMMA FollowsClose ==
  ASSUME NEW r \in Connections, Registered(r)
  PROVE  Follows(handleClose(r), r)
<1> DEFINE q == r.state \in {"kConnected", "kDisconnecting"}
           p == Assert(r, q)
           b == [p EXCEPT !.state = "kDisconnected", !.log = Append(@, "down")]
<1>1. q \in BOOLEAN
  OBVIOUS
<1>2. handleClose(r) = disableAll(b)
  BY DEF handleClose
<1> HIDE DEF q
<1>3. Follows(p, r)
  BY <1>1, FollowsAssert
<1> HIDE DEF p
<1>4. Follows(b, p)
  BY <1>3, FollowsCallback DEF Follows, States
<1> HIDE DEF b
<1>5. Follows(disableAll(b), b)
  BY <1>4, FollowsChannel DEF Follows
<1> QED BY <1>2, <1>4, <1>5, <1>3, FollowsOn

(* Teardown forgets the channel, whatever the state.                        *)
LEMMA FollowsDestroy ==
  ASSUME NEW r \in Connections, Registered(r)
  PROVE  LET s == connectDestroyed(r) IN
         s \in Connections /\ s.peer = r.peer /\ Registered(s)
<1> DEFINE b == [r EXCEPT !.state = "kDisconnected", !.log = Append(@, "down")]
           d == IF r.state = "kConnected" THEN disableAll(b) ELSE r
           z == remove(d)
<1>1. connectDestroyed(r) = z
  BY DEF connectDestroyed
<1>2. Follows(b, r)
  BY FollowsCallback DEF States
<1> HIDE DEF b
<1>3. Follows(disableAll(b), b)
  BY <1>2, FollowsChannel DEF Follows
<1>4. Follows(d, r)
  <2>1. Follows(r, r)
    BY DEF Follows
  <2> QED BY <1>2, <1>3, <2>1, FollowsOn
<1> HIDE DEF d
<1>5. d \in Connections /\ (d.polled <=> d.index = 1) /\ d.peer = r.peer
  BY <1>4 DEF Follows, Registered
<1>6. /\ z \in Connections /\ Keeps(z, d, Registration \cup {"failed"})
      /\ z.index = -1 /\ ~z.polled
  BY <1>5, Remove
<1> HIDE DEF z
<1> QED BY <1>1, <1>5, <1>6 DEF Keeps, Registration, Registered

(* The calls a user may make, and what they leave to the loop.              *)
LEMMA FollowsState ==
  ASSUME NEW r \in Connections, Registered(r)
  PROVE  /\ Follows([r EXCEPT !.state = "kDisconnecting"], r)
         /\ Follows([r EXCEPT !.error = FALSE], r)
         /\ Follows([r EXCEPT !.shut = TRUE], r)
         /\ Follows(r, r)
<1> DEFINE a == [r EXCEPT !.state = "kDisconnecting"]
           e == [r EXCEPT !.error = FALSE]
           s == [r EXCEPT !.shut = TRUE]
<1>1. a \in Connections /\ Keeps(a, r, {"state"})
  BY SetState, "kDisconnecting" \in States DEF States
<1>2. e \in Connections /\ Keeps(e, r, {"error"})
  BY SetError
<1>3. s \in Connections /\ Keeps(s, r, {"shut"})
  BY SetShut
<1> HIDE DEF a, e, s
<1>4. Follows(a, r)
  BY <1>1, FollowsSet DEF Keeps
<1>5. Follows(e, r)
  BY <1>2, FollowsSet DEF Keeps
<1>6. Follows(s, r)
  BY <1>3, FollowsSet DEF Keeps
<1> QED BY <1>4, <1>5, <1>6 DEF a, e, s, Follows

LEMMA FollowsInLoop ==
  ASSUME NEW r \in Connections, Registered(r), NEW len \in Nat
  PROVE  /\ Follows(sendInLoop(r, len), r)
         /\ Follows(shutdownInLoop(r), r)
         /\ Follows(forceCloseInLoop(r), r)
<1>1. Follows(sendInLoop(r, len), r)
  <2> DEFINE a == [r EXCEPT !.output = r.output + len]
  <2>1. a \in Connections /\ Keeps(a, r, {"output"})
    <3>1. r.output + len \in Nat
      BY FieldTypes
    <3> QED BY <3>1, SetOutput
  <2>2. sendInLoop(r, len) = IF r.state = "kDisconnected" THEN r
                             ELSE IF isWriting(a) THEN a ELSE enableWriting(a)
    BY DEF sendInLoop
  <2> HIDE DEF a
  <2>3. Follows(a, r)
    BY <2>1, FollowsSet DEF Keeps
  <2>4. Follows(enableWriting(a), a)
    BY <2>3, FollowsChannel DEF Follows
  <2>5. Follows(enableWriting(a), r) /\ Follows(r, r)
    BY <2>3, <2>4, FollowsOn, FollowsState
  <2> QED BY <2>2, <2>3, <2>5
<1> QED BY <1>1, FollowsState, FollowsClose DEF shutdownInLoop, forceCloseInLoop

LEMMA FollowsMessage ==
  ASSUME NEW r \in Connections, Registered(r), NEW react \in Reactions, NEW len \in Nat
  PROVE  Follows(messageCallback(r, react, len), r)
<1>1. Follows(send(r, len), r)
  BY FollowsInLoop, FollowsState DEF send
<1>2. ASSUME NEW u, Follows(u, r) PROVE Follows(shutdown(u), r)
  <2> DEFINE a == [u EXCEPT !.state = "kDisconnecting"]
  <2>1. u \in Connections /\ Registered(u)
    BY <1>2 DEF Follows
  <2>2. Follows(a, u)
    BY <2>1, FollowsState
  <2>3. shutdown(u) = IF u.state = "kConnected" THEN shutdownInLoop(a) ELSE u
    BY DEF shutdown
  <2> HIDE DEF a
  <2>4. Follows(shutdownInLoop(a), a)
    BY <2>2, FollowsInLoop, 0 \in Nat DEF Follows
  <2> QED BY <1>2, <2>2, <2>3, <2>4, FollowsOn
<1>3. Follows(shutdown(r), r) /\ Follows(shutdown(send(r, len)), r)
  BY <1>1, <1>2, FollowsState
<1>4. Follows(forceClose(r), r)
  BY FollowsState DEF forceClose
<1> QED BY <1>1, <1>3, <1>4, FollowsState DEF messageCallback, Reactions

(* The events of a channel, whichever come together.                        *)
LEMMA FollowsEvents ==
  ASSUME NEW r \in Connections, Registered(r), NEW revents, NEW react \in Reactions,
         NEW len \in Nat, NEW n \in Nat
  PROVE  Follows(handleEvent(r, revents, react, len, n), r)
<1>1. ASSUME NEW u, Follows(u, r) PROVE Follows(handleRead(u, react, len), r)
  <2> DEFINE a == [u EXCEPT !.inbox = FALSE]
             b == [u EXCEPT !.inbox = FALSE, !.log = Append(@, "message")]
  <2>1. u \in Connections /\ Registered(u)
    BY <1>1 DEF Follows
  <2>2. a \in Connections /\ Keeps(a, u, {"inbox"})
    BY <2>1, SetInbox
  <2>3. Append(u.log, "message") \in Seq({"up", "message", "down"})
    BY <2>1, FieldTypes, Logs
  <2>4. b = [a EXCEPT !.log = Append(u.log, "message")]
    OBVIOUS
  <2>5. handleRead(u, react, len) =
           IF u.inbox THEN messageCallback(b, react, len)
           ELSE IF u.error THEN [u EXCEPT !.error = FALSE]
           ELSE IF u.peer \notin {"eof", "reset"} THEN u
           ELSE IF u.output > 0 THEN [u EXCEPT !.state = "kDisconnecting"]
           ELSE handleClose(u)
    BY DEF handleRead
  <2> HIDE DEF a, b
  <2>6. b \in Connections /\ Keeps(b, a, {"log"})
    BY <2>2, <2>3, <2>4, SetLog
  <2>7. Follows(b, u)
    BY <2>1, <2>2, <2>6, FollowsSet DEF Keeps
  <2>8. Follows(messageCallback(b, react, len), b)
    BY <2>7, FollowsMessage DEF Follows
  <2>9. Follows(handleRead(u, react, len), u)
    BY <2>1, <2>5, <2>7, <2>8, FollowsOn, FollowsState, FollowsClose
  <2> QED BY <1>1, <2>9, FollowsOn
<1>2. ASSUME NEW u, Follows(u, r) PROVE Follows(handleWrite(u, n), r)
  <2> DEFINE w == Written(u, n)
             a == [u EXCEPT !.output = u.output - w]
             d == disableWriting(a)
  <2>1. u \in Connections /\ Registered(u)
    BY <1>2 DEF Follows
  <2>2. handleWrite(u, n) = IF ~isWriting(u) THEN u
                            ELSE IF w = 0 THEN [u EXCEPT !.error = FALSE]
                            ELSE IF a.output > 0 THEN a
                            ELSE IF d.state = "kDisconnecting" THEN shutdownInLoop(d) ELSE d
    BY DEF handleWrite
  <2>3. u.output - w \in Nat
    <3>1. u.output \in Nat
      BY <2>1, FieldTypes
    <3> QED BY <3>1 DEF Written
  <2> HIDE DEF w
  <2>4. a \in Connections /\ Keeps(a, u, {"output"})
    BY <2>1, <2>3, SetOutput
  <2> HIDE DEF a
  <2>5. Follows(a, u)
    BY <2>1, <2>4, FollowsSet DEF Keeps
  <2>6. Follows(d, a)
    BY <2>5, FollowsChannel DEF Follows
  <2> HIDE DEF d
  <2>7. Follows(shutdownInLoop(d), d)
    BY <2>6, FollowsInLoop, 0 \in Nat DEF Follows
  <2>8. Follows(d, u) /\ Follows(shutdownInLoop(d), u)
    BY <2>5, <2>6, <2>7, FollowsOn
  <2>9. Follows(handleWrite(u, n), u)
    BY <2>1, <2>2, <2>5, <2>8, FollowsState
  <2> QED BY <1>2, <2>9, FollowsOn
<1> DEFINE h == IF "HUP" \in revents /\ "IN" \notin revents THEN handleClose(r) ELSE r
           e == IF "ERR" \in revents THEN handleError(h) ELSE h
           i == IF "IN" \in revents THEN handleRead(e, react, len) ELSE e
           o == IF "OUT" \in revents THEN handleWrite(i, n) ELSE i
<1>3. handleEvent(r, revents, react, len, n) = o
  BY DEF handleEvent
<1>4. Follows(h, r)
  BY FollowsState, FollowsClose
<1> HIDE DEF h
<1>5. Follows(e, r)
  <2>1. Follows(handleError(h), h)
    BY <1>4, FollowsState DEF handleError, Follows
  <2> QED BY <1>4, <2>1, FollowsOn
<1> HIDE DEF e
<1>6. Follows(i, r)
  BY <1>1, <1>5
<1> HIDE DEF i
<1> QED BY <1>2, <1>3, <1>6
=============================================================================
