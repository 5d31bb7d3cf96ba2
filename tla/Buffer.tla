------------------------------- MODULE Buffer -------------------------------
(***************************************************************************)
(* Buffer of reactor_net: a vector of bytes and two indices, the readable   *)
(* bytes between them, the writable ones after the second, and room to     *)
(* prepend before the first.  A method is an operator from the record       *)
(* before the call to the record after it.  Nothing reads what lies outside *)
(* the readable bytes; it is blanked to Junk to keep one form for each      *)
(* state.                                                                  *)
(***************************************************************************)
EXTENDS Naturals, Sequences

CONSTANTS
    CheapPrepend,  \* kCheapPrepend
    InitialSize,   \* kInitialSize
    Extra,         \* the size of extrabuf in readFd
    Junk           \* a byte that was never written, or was retrieved

ASSUME BufferAssumption ==
    CheapPrepend \in Nat /\ InitialSize \in Nat /\ Extra \in Nat \ {0}

Blank(n) == [i \in 1 .. n |-> Junk]

(* buffer_, readIndex_ and writeIndex_; byte i of buffer_ is data[i + 1].   *)
NewBuffer ==
    [data |-> Blank(CheapPrepend + InitialSize),
     read |-> CheapPrepend, write |-> CheapPrepend]

readableBytes(b)    == b.write - b.read
writableBytes(b)    == Len(b.data) - b.write
prependableBytes(b) == b.read

(* The readable bytes, from peek().                                         *)
Readable(b) == SubSeq(b.data, b.read + 1, b.write)

(* The bytes s with p before them, in a vector of the given size.           *)
Placed(p, s, size) ==
    [data |-> Blank(p) \o s \o Blank(size - p - Len(s)),
     read |-> p, write |-> p + Len(s)]

-----------------------------------------------------------------------------
retrieveAll(b) == Placed(CheapPrepend, <<>>, Len(b.data))

retrieve(b, len) ==
    IF len < readableBytes(b)
    THEN Placed(b.read + len, SubSeq(Readable(b), len + 1, readableBytes(b)), Len(b.data))
    ELSE retrieveAll(b)

(* Mutant: the move forward does not bring the write index along.           *)
MakeSpaceKeepsWrite(b, len) ==
    IF writableBytes(b) + prependableBytes(b) < len + CheapPrepend
    THEN [b EXCEPT !.data = SubSeq(@, 1, b.write) \o Blank(len)]
    ELSE [Placed(CheapPrepend, Readable(b), Len(b.data)) EXCEPT !.write = b.write]

(* The vector grows, or the readable bytes move to its front.               *)
makeSpace(b, len) ==
    IF writableBytes(b) + prependableBytes(b) < len + CheapPrepend
    THEN [b EXCEPT !.data = SubSeq(@, 1, b.write) \o Blank(len)]
    ELSE Placed(CheapPrepend, Readable(b), Len(b.data))

ensureWritableBytes(b, len) ==
    IF writableBytes(b) < len THEN makeSpace(b, len) ELSE b

(* std::copy into the writable bytes.                                       *)
Filled(b, s) ==
    [b EXCEPT !.data = SubSeq(@, 1, b.write) \o s
                         \o SubSeq(@, b.write + Len(s) + 1, Len(@)),
              !.write = @ + Len(s)]

append(b, s) == Filled(ensureWritableBytes(b, Len(s)), s)

(* The most readv takes: what is writable, and extrabuf unless that alone   *)
(* is no larger.                                                            *)
ReadCap(b) ==
    writableBytes(b) + (IF writableBytes(b) < Extra THEN Extra ELSE 0)

(* readFd, when readv has read s; what does not fit is appended.            *)
readFd(b, s) ==
    LET n == writableBytes(b)
    IN  IF Len(s) <= n THEN Filled(b, s)
        ELSE append(Filled(b, SubSeq(s, 1, n)), SubSeq(s, n + 1, Len(s)))

(* writeFd, when write has taken n bytes.                                   *)
writeFd(b, n) == IF n > 0 THEN retrieve(b, n) ELSE b
=============================================================================
