----------------------------- MODULE DemoServer -----------------------------
(***************************************************************************)
(* The two programs of reactor_net's main.cpp, EchoServer and HttpServer,   *)
(* serving one client: the bytes on their way through the kernel, the two   *)
(* Buffers of the TcpConnection, and the message callback.                  *)
(*                                                                         *)
(* The connection is established when the behaviour starts, on a server     *)
(* without loops of its own; what happens between poll and the handlers is  *)
(* the subject of TcpServer, here they are one step.  A byte is one of      *)
(* "g", the text of a good request line, "x", other text, and "r" and "n",  *)
(* CR and LF.                                                              *)
(***************************************************************************)
EXTENDS Connection, Buffer

CONSTANT MaxBytes   \* bound on what the client sends

ASSUME MaxBytesAssumption == MaxBytes \in Nat

VARIABLES
    app,       \* which program runs
    conn,      \* the connection, without its buffers and its growing log
    arrived,   \* bytes in the socket, not read yet
    input,     \* inputBuffer_
    output,    \* outputBuffer_
    sent,      \* ghost: all the client sent
    consumed,  \* ghost: what the callback retrieved from the input buffer
    replied,   \* ghost: what was appended to the output buffer
    received   \* all the client received

ghosts == <<sent, consumed, replied, received>>
vars == <<app, conn, arrived, input, output, ghosts>>

Bytes(a) == IF a = "echo" THEN {"g", "x"} ELSE {"g", "x", "r", "n"}

(* What appendToBuffer writes: the status line, the header lines, the body. *)
Pieces == <<"status", "headers", "body">>

Buffers == [data : Seq(Bytes("http") \cup {Pieces[i] : i \in 1 .. 3} \cup {Junk}),
            read : Nat, write : Nat]

TypeOK ==
    /\ app \in {"echo", "http"}
    /\ conn \in Connections
    /\ input \in Buffers /\ output \in Buffers
    /\ arrived \in Seq(Bytes(app)) /\ sent \in Seq(Bytes(app))

Init ==
    /\ app \in {"echo", "http"}
    /\ conn = connectEstablished([NewConnection EXCEPT !.peer = "open"])
    /\ arrived = <<>>
    /\ input = NewBuffer /\ output = NewBuffer
    /\ sent = <<>> /\ consumed = <<>> /\ replied = <<>> /\ received = <<>>

-----------------------------------------------------------------------------
(* The client.                                                             *)
Send ==
    /\ conn.peer = "open" /\ Len(sent) < MaxBytes
    /\ \E b \in Bytes(app) :
          /\ sent' = Append(sent, b)
          /\ arrived' = Append(arrived, b)
    /\ conn' = [conn EXCEPT !.inbox = TRUE]
    /\ UNCHANGED <<app, input, output, consumed, replied, received>>

Close ==
    /\ conn.peer = "open"
    /\ conn' = [conn EXCEPT !.peer = "eof"]
    /\ UNCHANGED <<app, arrived, input, output, ghosts>>

Reset ==
    /\ conn.peer \in {"open", "eof"} /\ conn.added
    /\ conn' = [conn EXCEPT !.peer = "reset", !.error = TRUE]
    /\ UNCHANGED <<app, arrived, input, output, ghosts>>

-----------------------------------------------------------------------------
(* HttpRequest.  Where the CRLFs of s are.                                  *)
LineEnds(s) == {i \in 1 .. Len(s) - 1 : s[i] = "r" /\ s[i + 1] = "n"}

First(S) == CHOOSE i \in S : \A j \in S : i <= j

(* The first word is the method, whatever white space comes before it.      *)
parseRequestLine(l) ==
    LET text == SelectSeq(l, LAMBDA b : b \in {"g", "x"})
    IN  text # <<>> /\ Head(text) = "g"

(* An empty line ends the headers.                                          *)
HeaderEnds(s) == {i \in LineEnds(s) : i + 2 \in LineEnds(s)}

parseRequest(s) ==
    /\ HeaderEnds(s) # {}
    /\ parseRequestLine(SubSeq(s, 1, First(LineEnds(s)) - 1))

(* HttpResponse, through a Buffer of its own.                               *)
appendToBuffer(b) == append(append(append(b, <<Pieces[1]>>), <<Pieces[2]>>), <<Pieces[3]>>)

Response == Readable(appendToBuffer(NewBuffer))

(* The message callbacks: what is left of the input buffer, what is sent,   *)
(* and whether the connection is shut down after it.                        *)
Echo(b) == [input |-> retrieveAll(b), reply |-> Readable(b), react |-> "send"]

Consumed(b) == retrieve(b, First(HeaderEnds(Readable(b))) + 3)

(* Mutant: an incomplete request is not kept for more data.                 *)
OnMessageDrops(b) ==
    IF parseRequest(Readable(b))
    THEN [input |-> Consumed(b), reply |-> Response, react |-> "sendAndShutdown"]
    ELSE [input |-> retrieveAll(b), reply |-> <<>>, react |-> "none"]

onMessage(b) ==
    IF parseRequest(Readable(b))
    THEN [input |-> Consumed(b), reply |-> Response, react |-> "sendAndShutdown"]
    ELSE [input |-> b, reply |-> <<>>, react |-> "none"]

-----------------------------------------------------------------------------
(* What readv takes: all there is, up to its two vectors.                   *)
Reads == "IN" \in Ready(conn) /\ arrived # <<>>

Taken ==
    IF ~Reads THEN <<>>
    ELSE SubSeq(arrived, 1, IF Len(arrived) < ReadCap(input) THEN Len(arrived)
                                                             ELSE ReadCap(input))

(* What the message callback makes of the input buffer b.                   *)
Callback(b) ==
    IF ~Reads THEN [input |-> b, reply |-> <<>>, react |-> "none"]
    ELSE IF app = "echo" THEN Echo(b) ELSE onMessage(b)

(* send drops what it is given after shutdown.                              *)
Sent(reply) == IF conn.state = "kConnected" THEN reply ELSE <<>>

(* Channel::handleEvent on the connection, with its buffers: b is the input *)
(* buffer after the read, a what the callback did, o the output buffer      *)
(* before the write, which takes up to n bytes.                             *)
Handle ==
    /\ Ready(conn) # {}
    /\ arrived' = SubSeq(arrived, Len(Taken) + 1, Len(arrived))
    /\ \E b \in {readFd(input, Taken)} : \E a \in {Callback(b)} :
          /\ input' = a.input
          /\ consumed' = consumed \o
                SubSeq(Readable(b), 1, readableBytes(b) - readableBytes(a.input))
          /\ replied' = replied \o Sent(a.reply)
          /\ \E o \in {append(output, Sent(a.reply))}, n \in 1 .. MaxBytes :
             \E r \in {handleEvent(conn, Ready(conn), a.react, Len(a.reply), n)} :
                /\ conn' = [r EXCEPT !.inbox = arrived' # <<>>, !.log = conn.log]
                /\ output' = writeFd(o, readableBytes(o) - r.output)
                /\ received' = received \o
                                  SubSeq(Readable(o), 1, readableBytes(o) - r.output)
    /\ UNCHANGED <<app, sent>>

(* The functor that removeConnection queues once the connection is closed.  *)
CallDestroyed ==
    /\ conn.state = "kDisconnected" /\ conn.added
    /\ conn' = connectDestroyed(conn)
    /\ UNCHANGED <<app, arrived, input, output, ghosts>>

ServerStep == Handle \/ CallDestroyed

Next == Send \/ Close \/ Reset \/ ServerStep

(* The loop runs, and the client reads what it is sent: write takes at      *)
(* least a byte.                                                           *)
Spec == Init /\ [][Next]_vars /\ WF_vars(ServerStep)

-----------------------------------------------------------------------------
(* What the client is to receive when the server has read s.                *)
Answer(s) ==
    IF app = "echo" THEN s ELSE IF parseRequest(s) THEN Response ELSE <<>>

(* Every byte the client sent is, in order and once, consumed, in the input *)
(* buffer or in the socket, and every byte of a reply is received or in the *)
(* output buffer: through partial reads and writes, reads that overflow     *)
(* into the stack buffer, and buffers that grow or move their bytes.        *)
BytesPreserved ==
    /\ sent = consumed \o Readable(input) \o arrived
    /\ replied = received \o Readable(output)
    /\ conn.output = readableBytes(output)

(* The reply depends on the bytes that were read and not on how they were   *)
(* cut into reads: the echo returns them all, the HTTP server answers the   *)
(* first request once, when it is complete and in whatever pieces it came.  *)
AnswersAreRight == replied = Answer(consumed \o Readable(input))

(* Unless the client resets the connection it gets the whole answer, also   *)
(* when it closes its side right after the request.                         *)
EveryAnswerArrives == <>[](received = Answer(sent) \/ conn.peer = "reset")
=============================================================================
