-------------------------- MODULE DemoServerProofs --------------------------
(***************************************************************************)
(* Proofs about DemoServer, for every size of the buffers and every number  *)
(* of bytes: what the methods of Buffer do to the readable bytes, what the  *)
(* handlers of a connection do to the count of its output, and that no byte *)
(* is lost and no answer wrong between the socket and the client.           *)
(***************************************************************************)
EXTENDS DemoServer, ConnectionProofs, ArithmeticLemmas

-----------------------------------------------------------------------------
(* Buffer.                                                                  *)

(* A buffer of bytes of S, its indices in order within its vector.          *)
Buffered(b, S) ==
    /\ b \in [data : Seq(S), read : Nat, write : Nat]
    /\ CheapPrepend <= b.read /\ b.read <= b.write /\ b.write <= Len(b.data)

(* The readable bytes, one by one.                                          *)
LEMMA ReadableBytes ==
  ASSUME NEW S, NEW b, Buffered(b, S)
  PROVE  /\ Readable(b) \in Seq(S)
         /\ readableBytes(b) \in Nat /\ writableBytes(b) \in Nat
         /\ Len(Readable(b)) = readableBytes(b)
         /\ \A i \in 1..readableBytes(b) : Readable(b)[i] = b.data[b.read + i]
<1>1. /\ b.data \in Seq(S) /\ b.read \in Nat /\ b.write \in Nat
      /\ b.read <= b.write /\ b.write <= Len(b.data)
  BY DEF Buffered
<1>2. Len(b.data) \in Nat
  BY <1>1, LenProperties
<1>3. \A i \in (b.read + 1)..b.write : b.data[i] \in S
  BY <1>1, <1>2, ElementOfSeq
<1>4. /\ Readable(b) \in Seq(S)
      /\ Len(Readable(b)) = IF b.read + 1 <= b.write THEN b.write - (b.read + 1) + 1 ELSE 0
      /\ \A i \in 1..(b.write - (b.read + 1) + 1) : Readable(b)[i] = b.data[b.read + 1 + i - 1]
  <2>1. PICK m, n, d : m = b.read + 1 /\ n = b.write /\ d = b.data
    OBVIOUS
  <2>2. m \in Int /\ n \in Int /\ \A i \in m..n : d[i] \in S
    BY <1>1, <1>3, <2>1
  <2>3. /\ SubSeq(d, m, n) \in Seq(S)
        /\ Len(SubSeq(d, m, n)) = IF m <= n THEN n - m + 1 ELSE 0
        /\ \A i \in 1..(n - m + 1) : SubSeq(d, m, n)[i] = d[m + i - 1]
    BY <2>2, SubSeqProperties
  <2>4. Readable(b) = SubSeq(d, m, n)
    BY <2>1 DEF Readable
  <2> QED BY <2>1, <2>3, <2>4
<1>5. b.write - (b.read + 1) + 1 = b.write - b.read /\ b.write - b.read \in Nat
  BY <1>1
<1>6. Len(Readable(b)) = b.write - b.read
  BY <1>1, <1>4
<1>7. \A i \in 1..(b.write - b.read) : b.read + 1 + i - 1 = b.read + i
  BY <1>1
<1> QED BY <1>1, <1>2, <1>4, <1>5, <1>6, <1>7 DEF readableBytes, writableBytes

(* A concatenation, part by part.                                           *)
LEMMA Parts ==
  ASSUME NEW S, NEW s \in Seq(S), NEW t \in Seq(S),
         NEW m, NEW n, m = Len(s), n = Len(t)
  PROVE  /\ s \o t \in Seq(S) /\ Len(s \o t) = m + n /\ m \in Nat /\ n \in Nat
         /\ \A i \in 1..m : (s \o t)[i] = s[i]
         /\ \A i \in 1..n : (s \o t)[m + i] = t[i]
<1>1. m \in Nat /\ n \in Nat
  BY LenProperties
<1>2. PICK c : c = s \o t
  OBVIOUS
<1>3. /\ c \in Seq(S) /\ Len(c) = m + n
      /\ \A i \in 1..(m + n) : c[i] = IF i <= m THEN s[i] ELSE t[i - m]
  BY <1>2, ConcatProperties
<1>4. \A i \in 1..m : c[i] = s[i]
  BY <1>1, <1>3
<1>5. \A i \in 1..n : c[m + i] = t[i]
  <2> SUFFICES ASSUME NEW i \in 1..n PROVE c[m + i] = t[i]
    OBVIOUS
  <2>1. m + i \in 1..(m + n) /\ ~(m + i <= m) /\ m + i - m = i
    BY <1>1
  <2> QED BY <1>3, <2>1
<1> QED BY <1>1, <1>2, <1>3, <1>4, <1>5

(* The first n bytes, and those after them.                                 *)
LEMMA Cut ==
  ASSUME NEW S, NEW s \in Seq(S), NEW n \in Nat, n <= Len(s)
  PROVE  /\ SubSeq(s, 1, n) \in Seq(S) /\ Len(SubSeq(s, 1, n)) = n
         /\ \A i \in 1..n : SubSeq(s, 1, n)[i] = s[i]
         /\ SubSeq(s, n + 1, Len(s)) \in Seq(S)
         /\ Len(SubSeq(s, n + 1, Len(s))) = Len(s) - n
         /\ SubSeq(s, 1, n) \o SubSeq(s, n + 1, Len(s)) = s
<1>1. PICK l \in Nat : l = Len(s)
  BY LenProperties
<1>2. \A i \in 1..l : s[i] \in S
  BY <1>1, ElementOfSeq
<1>3. PICK m \in Int : m = 1
  OBVIOUS
<1>4. PICK u : u = SubSeq(s, m, n)
  OBVIOUS
<1>5. /\ u \in Seq(S) /\ Len(u) = IF m <= n THEN n - m + 1 ELSE 0
      /\ \A i \in 1..(n - m + 1) : u[i] = s[m + i - 1]
  <2>1. \A i \in m..n : s[i] \in S
    BY <1>1, <1>2, <1>3
  <2> QED BY <1>4, <2>1, SubSeqProperties
<1>6. \A i \in 1..n : i \in 1..(n - m + 1) /\ m + i - 1 = i
  BY <1>3
<1>7. Len(u) = n /\ \A i \in 1..n : u[i] = s[i]
  BY <1>3, <1>5, <1>6
<1>8. SubSeq(s, n + 1, l) \in Seq(S) /\ Len(SubSeq(s, n + 1, l)) = l - n
  <2>1. n + 1 \in Int /\ (\A i \in (n + 1)..l : s[i] \in S) /\ n <= l
    BY <1>1, <1>2
  <2>2. /\ SubSeq(s, n + 1, l) \in Seq(S)
        /\ Len(SubSeq(s, n + 1, l)) = IF n + 1 <= l THEN l - (n + 1) + 1 ELSE 0
    BY <1>1, <2>1, SubSeqProperties
  <2> QED BY <1>1, <2>1, <2>2
<1>9. SubSeq(s, 1, n) \o SubSeq(s, n + 1, l) = s
  <2>1. 1 \in 1..(Len(s) + 1) /\ n \in (1 - 1)..Len(s) /\ Len(s) \in n..Len(s)
    BY <1>1
  <2>2. SubSeq(s, 1, n) \o SubSeq(s, n + 1, Len(s)) = SubSeq(s, 1, Len(s))
    BY <2>1, ConcatAdjacentSubSeq
  <2> QED BY <1>1, <2>2, SubSeqFull
<1> QED BY <1>1, <1>3, <1>4, <1>5, <1>7, <1>8, <1>9

(* n blank bytes.                                                           *)
LEMMA Blanks ==
  ASSUME NEW S, Junk \in S, NEW n \in Nat
  PROVE  Blank(n) \in Seq(S) /\ Len(Blank(n)) = n
<1>1. Blank(n) \in [1..n -> S]
  BY DEF Blank
<1> QED BY <1>1

(* Bytes placed in a vector are what can be read of it.                     *)
LEMMA PlacedBytes ==
  ASSUME NEW S, Junk \in S, NEW s \in Seq(S), NEW p \in Nat, NEW size \in Nat,
         CheapPrepend <= p, p + Len(s) <= size,
         NEW b, b = Placed(p, s, size)
  PROVE  /\ Buffered(b, S) /\ Readable(b) = s /\ readableBytes(b) = Len(s)
         /\ Len(b.data) = size /\ b.read = p /\ b.write = p + Len(s)
<1> DEFINE k == size - p - Len(s)
           u == Blank(p) \o s
           d == u \o Blank(k)
<1>1. Len(s) \in Nat /\ k \in Nat
  BY LenProperties
<1>2. Blank(p) \in Seq(S) /\ Len(Blank(p)) = p /\ Blank(k) \in Seq(S) /\ Len(Blank(k)) = k
  BY <1>1, Blanks
<1>3. p + Len(s) + k = size
  BY <1>1
<1>4. b.data = d /\ b.read = p /\ b.write = p + Len(s)
      /\ b = [data |-> d, read |-> p, write |-> p + Len(s)]
  BY DEF Placed
<1> HIDE DEF k
<1>5. /\ u \in Seq(S) /\ Len(u) = p + Len(s)
      /\ \A i \in 1..Len(s) : u[p + i] = s[i]
  BY <1>2, Parts
<1> HIDE DEF u
<1>6. /\ d \in Seq(S) /\ Len(d) = p + Len(s) + k
      /\ \A i \in 1..(p + Len(s)) : d[i] = u[i]
  BY <1>2, <1>5, Parts
<1> HIDE DEF d
<1>7. Buffered(b, S) /\ readableBytes(b) = Len(s)
  BY <1>1, <1>4, <1>6, <1>3 DEF Buffered, readableBytes
<1>8. /\ Readable(b) \in Seq(S) /\ Len(Readable(b)) = Len(s)
      /\ \A i \in 1..Len(s) : Readable(b)[i] = d[p + i]
  BY <1>4, <1>7, ReadableBytes
<1>9. \A i \in 1..Len(s) : p + i \in 1..(p + Len(s))
  BY <1>1
<1>10. Readable(b) = s
  BY <1>5, <1>6, <1>8, <1>9, SeqEqual
<1> QED BY <1>4, <1>6, <1>3, <1>7, <1>10

(* What is left after retrieve and retrieveAll; they forget the bytes from  *)
(* the front.                                                               *)
LEMMA RetrieveAll ==
  ASSUME NEW S, Junk \in S, NEW b, Buffered(b, S)
  PROVE  LET r == retrieveAll(b) IN
         Buffered(r, S) /\ Readable(r) = <<>> /\ readableBytes(r) = 0
<1>1. Len(b.data) \in Nat /\ CheapPrepend <= Len(b.data) /\ CheapPrepend \in Nat
  <2>1. b.read \in Nat /\ b.write \in Nat /\ Len(b.data) \in Nat
    BY LenProperties DEF Buffered
  <2> QED BY <2>1, BufferAssumption DEF Buffered
<1>2. PICK s \in Seq(S), p \in Nat, size \in Nat :
         s = <<>> /\ p = CheapPrepend /\ size = Len(b.data)
  BY <1>1, EmptySeq
<1>3. Len(s) = 0
  BY <1>2, EmptySeq
<1>4. /\ s \in Seq(S) /\ p \in Nat /\ size \in Nat
      /\ CheapPrepend <= p /\ p + Len(s) <= size
  BY <1>1, <1>2, <1>3
<1>5. PICK r : r = Placed(p, s, size)
  OBVIOUS
<1>6. Buffered(r, S) /\ Readable(r) = s /\ readableBytes(r) = Len(s)
  BY <1>4, <1>5, PlacedBytes
<1> QED BY <1>2, <1>3, <1>5, <1>6 DEF retrieveAll

LEMMA Retrieve ==
  ASSUME NEW S, Junk \in S, NEW b, Buffered(b, S), NEW n \in Nat
  PROVE  LET r == retrieve(b, n) IN
         /\ Buffered(r, S)
         /\ readableBytes(r) = IF n < readableBytes(b) THEN readableBytes(b) - n ELSE 0
         /\ SubSeq(Readable(b), 1, readableBytes(b) - readableBytes(r)) \o Readable(r)
              = Readable(b)
         /\ SubSeq(Readable(b), 1, readableBytes(b) - readableBytes(r)) \in Seq(S)
<1> DEFINE s == Readable(b)
           k == readableBytes(b)
<1>1. s \in Seq(S) /\ k \in Nat /\ Len(s) = k
  BY ReadableBytes
<1> HIDE DEF s, k
<1>3. CASE n < k
  <2> DEFINE u == SubSeq(s, n + 1, k)
             r == Placed(b.read + n, u, Len(b.data))
  <2>1. retrieve(b, n) = r
    BY <1>3 DEF retrieve, s, k
  <2>2. u \in Seq(S) /\ Len(u) = k - n
    BY <1>1, <1>3, Cut
  <2> HIDE DEF u
  <2>3. /\ b.read + n \in Nat /\ CheapPrepend <= b.read + n
        /\ Len(b.data) \in Nat /\ b.read + n + Len(u) <= Len(b.data)
    <3>1. b.read \in Nat /\ b.write \in Nat /\ Len(b.data) \in Nat /\ CheapPrepend \in Nat
      BY BufferAssumption, LenProperties DEF Buffered
    <3>2. CheapPrepend <= b.read /\ b.write <= Len(b.data) /\ k = b.write - b.read
      BY DEF Buffered, k, readableBytes
    <3>3. PICK l, w, x, z : l = Len(u) /\ w = b.write /\ x = b.read /\ z = Len(b.data)
      OBVIOUS
    <3>4. /\ x + n \in Nat /\ CheapPrepend <= x + n /\ z \in Nat
          /\ x + n + l <= z
      <4>1. l = k - n /\ k = w - x /\ n \in Nat
        BY <1>1, <2>2, <3>2, <3>3
      <4>2. /\ x \in Nat /\ w \in Nat /\ z \in Nat /\ CheapPrepend \in Nat
            /\ CheapPrepend <= x /\ w <= z
        BY <3>1, <3>2, <3>3
      <4> QED BY <4>1, <4>2
    <3> QED BY <3>3, <3>4
  <2>4. Buffered(r, S) /\ Readable(r) = u /\ readableBytes(r) = k - n
    <3>1. r = Placed(b.read + n, u, Len(b.data))
      OBVIOUS
    <3> HIDE DEF r
    <3> QED BY <2>2, <2>3, <3>1, PlacedBytes
  <2> HIDE DEF r
  <2>5. k - (k - n) = n /\ n \in 0..k
    BY <1>1, <1>3
  <2>6. SubSeq(s, 1, n) \o u = s /\ SubSeq(s, 1, n) \in Seq(S)
    BY <1>1, <1>3, Cut DEF u
  <2> QED BY <1>3, <2>1, <2>4, <2>5, <2>6 DEF s, k
<1>4. CASE ~(n < k)
  <2> DEFINE r == retrieveAll(b)
  <2>1. retrieve(b, n) = r
    BY <1>4 DEF retrieve, k
  <2>2. Buffered(r, S) /\ Readable(r) = <<>> /\ readableBytes(r) = 0
    BY RetrieveAll
  <2> HIDE DEF r
  <2>3. SubSeq(s, 1, k - 0) = s
    BY <1>1, SubSeqFull
  <2>4. s \o <<>> = s
    BY <1>1, ConcatEmptySeq
  <2> QED BY <1>1, <1>4, <2>1, <2>2, <2>3, <2>4 DEF s, k
<1> QED BY <1>3, <1>4

(* Room is made without touching the readable bytes.                        *)
LEMMA EnsureWritable ==
  ASSUME NEW S, Junk \in S, NEW b, Buffered(b, S), NEW n \in Nat
  PROVE  LET r == ensureWritableBytes(b, n) IN
         Buffered(r, S) /\ Readable(r) = Readable(b) /\ n <= writableBytes(r)
<1>1. /\ b.data \in Seq(S) /\ b.read \in Nat /\ b.write \in Nat /\ Len(b.data) \in Nat
      /\ CheapPrepend \in Nat /\ CheapPrepend <= b.read /\ b.read <= b.write
      /\ b.write <= Len(b.data)
  BY BufferAssumption, LenProperties DEF Buffered
<1>2. CASE ~(writableBytes(b) < n)
  BY <1>1, <1>2 DEF ensureWritableBytes, writableBytes
<1>3. CASE writableBytes(b) < n /\ writableBytes(b) + prependableBytes(b) < n + CheapPrepend
  <2> DEFINE u == SubSeq(b.data, 1, b.write)
             d == u \o Blank(n)
             r == [b EXCEPT !.data = d]
  <2>1. ensureWritableBytes(b, n) = r
    BY <1>3 DEF ensureWritableBytes, makeSpace
  <2>3. /\ u \in Seq(S) /\ Len(u) = b.write
        /\ \A i \in 1..b.write : u[i] = b.data[i]
    BY <1>1, Cut
  <2>4. Blank(n) \in Seq(S) /\ Len(Blank(n)) = n
    BY Blanks
  <2> HIDE DEF u
  <2>5. /\ d \in Seq(S) /\ Len(d) = b.write + n
        /\ \A i \in 1..b.write : d[i] = u[i]
    BY <2>3, <2>4, Parts
  <2> HIDE DEF d
  <2>6. r.data = d /\ r.read = b.read /\ r.write = b.write
        /\ r \in [data : Seq(S), read : Nat, write : Nat]
    BY <2>5 DEF Buffered
  <2> HIDE DEF r
  <2>7. Buffered(r, S) /\ n <= writableBytes(r)
    BY <1>1, <2>5, <2>6 DEF Buffered, writableBytes
  <2>8. /\ Readable(r) \in Seq(S) /\ Len(Readable(r)) = b.write - b.read
        /\ \A i \in 1..(b.write - b.read) : Readable(r)[i] = d[b.read + i]
    BY <2>6, <2>7, ReadableBytes DEF readableBytes
  <2>9. /\ Readable(b) \in Seq(S) /\ Len(Readable(b)) = b.write - b.read
        /\ \A i \in 1..(b.write - b.read) : Readable(b)[i] = b.data[b.read + i]
    BY ReadableBytes DEF readableBytes
  <2>10. \A i \in 1..(b.write - b.read) : b.read + i \in 1..b.write
    BY <1>1
  <2>11. \A i \in 1..(b.write - b.read) : Readable(r)[i] = Readable(b)[i]
    BY <2>3, <2>5, <2>8, <2>9, <2>10
  <2>12. Readable(r) = Readable(b)
    BY <2>8, <2>9, <2>11, SeqEqual
  <2> QED BY <2>1, <2>7, <2>12
<1>4. CASE writableBytes(b) < n /\ ~(writableBytes(b) + prependableBytes(b) < n + CheapPrepend)
  <2> DEFINE s == Readable(b)
             r == Placed(CheapPrepend, s, Len(b.data))
  <2>1. ensureWritableBytes(b, n) = r
    BY <1>4 DEF ensureWritableBytes, makeSpace
  <2>2. s \in Seq(S) /\ Len(s) = b.write - b.read
    BY ReadableBytes DEF readableBytes
  <2> HIDE DEF s
  <2>3. CheapPrepend + Len(s) <= Len(b.data) /\ CheapPrepend <= CheapPrepend
    BY <1>1, <2>2
  <2> HIDE DEF r
  <2>4. /\ Buffered(r, S) /\ Readable(r) = s /\ Len(r.data) = Len(b.data)
        /\ r.write = CheapPrepend + Len(s)
    <3>1. PICK p \in Nat, size \in Nat : p = CheapPrepend /\ size = Len(b.data)
      BY <1>1
    <3>2. /\ s \in Seq(S) /\ p \in Nat /\ size \in Nat
          /\ CheapPrepend <= p /\ p + Len(s) <= size
      BY <1>1, <2>2, <2>3, <3>1
    <3>3. r = Placed(p, s, size)
      BY <3>1 DEF r
    <3>4. /\ Buffered(r, S) /\ Readable(r) = s /\ Len(r.data) = size
          /\ r.write = p + Len(s)
      BY <3>2, <3>3, PlacedBytes
    <3> QED BY <3>1, <3>4
  <2>5. n <= writableBytes(r)
    BY <1>1, <1>4, <2>2, <2>4 DEF writableBytes, prependableBytes
  <2> QED BY <2>1, <2>4, <2>5 DEF s
<1> QED BY <1>2, <1>3, <1>4

(* Bytes that fit are read after those that were there.                     *)
LEMMA Fill ==
  ASSUME NEW S, NEW b, Buffered(b, S), NEW s \in Seq(S), Len(s) <= writableBytes(b)
  PROVE  LET r == Filled(b, s) IN
         /\ Buffered(r, S) /\ Readable(r) = Readable(b) \o s
         /\ readableBytes(r) = readableBytes(b) + Len(s)
<1> DEFINE u == SubSeq(b.data, 1, b.write)
           v == SubSeq(b.data, b.write + Len(s) + 1, Len(b.data))
           c == u \o s
           d == c \o v
           r == Filled(b, s)
<1>1. /\ b.data \in Seq(S) /\ b.read \in Nat /\ b.write \in Nat /\ Len(b.data) \in Nat
      /\ CheapPrepend <= b.read /\ b.read <= b.write /\ b.write <= Len(b.data)
      /\ CheapPrepend \in Nat /\ Len(s) \in Nat /\ b.write + Len(s) <= Len(b.data)
  BY BufferAssumption, LenProperties DEF Buffered, writableBytes
<1>2. /\ u \in Seq(S) /\ Len(u) = b.write
      /\ \A i \in 1..b.write : u[i] = b.data[i]
  BY <1>1, Cut
<1>3. v \in Seq(S) /\ Len(v) = Len(b.data) - (b.write + Len(s))
  <2>1. b.write + Len(s) \in Nat
    BY <1>1
  <2> QED BY <1>1, <2>1, Cut
<1>4. r.data = d /\ r.read = b.read /\ r.write = b.write + Len(s)
      /\ (d \in Seq(S) => r \in [data : Seq(S), read : Nat, write : Nat])
  <2>1. r = [b EXCEPT !.data = d, !.write = b.write + Len(s)]
    BY DEF Filled
  <2> HIDE DEF d, r
  <2>2. PICK x, w : x = d /\ w = b.write + Len(s) /\ w \in Nat
    BY <1>1
  <2>3. r = [b EXCEPT !.data = x, !.write = w]
    BY <2>1, <2>2
  <2> QED BY <2>2, <2>3 DEF Buffered
<1> HIDE DEF u, v, r
<1>5. /\ c \in Seq(S) /\ Len(c) = b.write + Len(s)
      /\ \A i \in 1..b.write : c[i] = u[i]
      /\ \A i \in 1..Len(s) : c[b.write + i] = s[i]
  BY <1>2, Parts
<1> HIDE DEF c
<1>6. /\ d \in Seq(S) /\ Len(d) = Len(c) + Len(v)
      /\ \A i \in 1..Len(c) : d[i] = c[i]
  BY <1>3, <1>5, Parts
<1> HIDE DEF d
<1>7. Len(d) = Len(b.data)
  BY <1>1, <1>3, <1>5, <1>6
<1>8. Buffered(r, S) /\ readableBytes(r) = b.write + Len(s) - b.read
  BY <1>1, <1>4, <1>6, <1>7 DEF Buffered, readableBytes
<1>9. PICK k, l, x, w :
         /\ k \in Nat /\ l \in Nat /\ x \in Seq(S)
         /\ k = b.write - b.read /\ l = Len(s) /\ x = Readable(b) /\ w = x \o s
  <2>1. b.write - b.read \in Nat /\ Readable(b) \in Seq(S)
    BY <1>1, ReadableBytes
  <2> QED BY <1>1, <2>1
<1>10. Len(x) = k /\ \A i \in 1..k : x[i] = b.data[b.read + i]
  BY <1>9, ReadableBytes DEF readableBytes
<1>11. /\ Readable(r) \in Seq(S) /\ Len(Readable(r)) = k + l
       /\ \A i \in 1..(k + l) : Readable(r)[i] = d[b.read + i]
  <2>1. readableBytes(r) = k + l
    BY <1>1, <1>8, <1>9
  <2> QED BY <1>4, <1>8, <2>1, ReadableBytes
<1>12. /\ w \in Seq(S) /\ Len(w) = k + l
       /\ \A i \in 1..k : w[i] = x[i]
       /\ \A i \in 1..l : w[k + i] = s[i]
  <2>1. x \in Seq(S) /\ k = Len(x) /\ l = Len(s) /\ w = x \o s
    BY <1>9, <1>10
  <2> QED BY <2>1, Parts
<1>13. \A i \in 1..(k + l) : Readable(r)[i] = w[i]
  <2> SUFFICES ASSUME NEW i \in 1..(k + l) PROVE Readable(r)[i] = w[i]
    OBVIOUS
  <2>1. PICK p, q, e : p = b.read /\ q = b.write /\ e = Len(c)
    OBVIOUS
  <2>2. /\ p \in Nat /\ q \in Nat /\ e \in Nat /\ k \in Nat /\ l \in Nat
        /\ e = q + l /\ k = q - p /\ p <= q
    BY <1>1, <1>5, <1>9, <2>1
  <2>3. p + i \in 1..e
    BY <2>2
  <2>4. b.read + i \in 1..Len(c)
    BY <2>1, <2>3
  <2>5. Readable(r)[i] = c[b.read + i]
    BY <1>6, <1>11, <2>4
  <2>6. CASE i <= k
    <3>1. i \in 1..k /\ p + i \in 1..q
      BY <2>6, <2>2
    <3> QED BY <1>2, <1>5, <1>10, <1>12, <2>1, <2>5, <3>1
  <2>7. CASE ~(i <= k)
    <3>1. PICK j \in Nat : j = i - k
      BY <2>7, <2>2
    <3>2. j \in 1..l /\ i = k + j /\ p + i = q + j
      BY <2>7, <2>2, <3>1
    <3>3. j \in 1..Len(s) /\ b.read + i = b.write + j
      BY <1>9, <2>1, <3>2
    <3> QED BY <1>5, <1>12, <2>5, <3>2, <3>3
  <2> QED BY <2>6, <2>7
<1>14. Readable(r) = w
  BY <1>11, <1>12, <1>13, SeqEqual
<1>15. readableBytes(r) = readableBytes(b) + Len(s)
  BY <1>1, <1>8 DEF readableBytes
<1> QED BY <1>8, <1>9, <1>14, <1>15 DEF r

(* Any number of bytes can be appended.                                     *)
LEMMA Appends ==
  ASSUME NEW S, Junk \in S, NEW b, Buffered(b, S), NEW s \in Seq(S)
  PROVE  LET r == append(b, s) IN
         /\ Buffered(r, S) /\ Readable(r) = Readable(b) \o s
         /\ readableBytes(r) = readableBytes(b) + Len(s)
<1> DEFINE e == ensureWritableBytes(b, Len(s))
<1>1. Len(s) \in Nat
  BY LenProperties
<1>2. Buffered(e, S) /\ Readable(e) = Readable(b) /\ Len(s) <= writableBytes(e)
  BY <1>1, EnsureWritable
<1>3. append(b, s) = Filled(e, s)
  BY DEF append
<1> HIDE DEF e
<1>4. /\ Buffered(Filled(e, s), S) /\ Readable(Filled(e, s)) = Readable(e) \o s
      /\ readableBytes(Filled(e, s)) = readableBytes(e) + Len(s)
  BY <1>2, Fill
<1>5. readableBytes(e) = readableBytes(b)
  BY <1>2, ReadableBytes
<1> QED BY <1>2, <1>3, <1>4, <1>5

(* A read adds what it took, with the bytes that went to the stack buffer.  *)
LEMMA ReadFd ==
  ASSUME NEW S, Junk \in S, NEW b, Buffered(b, S), NEW s \in Seq(S)
  PROVE  LET r == readFd(b, s) IN
         /\ Buffered(r, S) /\ Readable(r) = Readable(b) \o s
         /\ readableBytes(r) = readableBytes(b) + Len(s)
<1> DEFINE n == writableBytes(b)
           u == SubSeq(s, 1, n)
           v == SubSeq(s, n + 1, Len(s))
           f == Filled(b, u)
<1>1. n \in Nat /\ Len(s) \in Nat
  BY ReadableBytes, LenProperties
<1>2. CASE Len(s) <= n
  BY <1>2, Fill DEF readFd
<1>3. CASE ~(Len(s) <= n)
  <2>1. readFd(b, s) = append(f, v)
    BY <1>3 DEF readFd
  <2> HIDE DEF n
  <2>2. u \in Seq(S) /\ Len(u) = n /\ v \in Seq(S) /\ Len(v) = Len(s) - n /\ u \o v = s
    <3>1. n \in Nat /\ n <= Len(s)
      BY <1>1, <1>3
    <3> QED BY <3>1, Cut
  <2> HIDE DEF u, v
  <2>3. Buffered(f, S) /\ Readable(f) = Readable(b) \o u
        /\ readableBytes(f) = readableBytes(b) + n
    BY <1>1, <2>2, Fill DEF n
  <2> HIDE DEF f
  <2>4. /\ Buffered(append(f, v), S) /\ Readable(append(f, v)) = Readable(f) \o v
        /\ readableBytes(append(f, v)) = readableBytes(f) + Len(v)
    BY <2>2, <2>3, Appends
  <2>5. Readable(b) \in Seq(S) /\ readableBytes(b) \in Nat
    BY ReadableBytes
  <2>6. (Readable(b) \o u) \o v = Readable(b) \o (u \o v)
    <3>1. PICK x \in Seq(S) : x = Readable(b)
      BY <2>5
    <3>2. x \in Seq(S) /\ u \in Seq(S) /\ v \in Seq(S)
      BY <2>2, <3>1
    <3>3. (x \o u) \o v = x \o (u \o v)
      BY <3>2, ConcatAssociative
    <3> QED BY <3>1, <3>3
  <2> QED BY <1>1, <2>1, <2>2, <2>3, <2>4, <2>5, <2>6
<1> QED BY <1>2, <1>3

(* The bytes written leave the buffer.                                      *)
LEMMA WriteFd ==
  ASSUME NEW S, Junk \in S, NEW b, Buffered(b, S), NEW n \in Nat, n <= readableBytes(b)
  PROVE  LET r == writeFd(b, n) IN
         /\ Buffered(r, S) /\ readableBytes(r) = readableBytes(b) - n
         /\ SubSeq(Readable(b), 1, n) \o Readable(r) = Readable(b)
         /\ SubSeq(Readable(b), 1, n) \in Seq(S)
<1>1. Readable(b) \in Seq(S) /\ readableBytes(b) \in Nat /\ Len(Readable(b)) = readableBytes(b)
  BY ReadableBytes
<1>2. CASE n > 0
  <2> DEFINE r == retrieve(b, n)
  <2>1. /\ Buffered(r, S)
        /\ readableBytes(r) = IF n < readableBytes(b) THEN readableBytes(b) - n ELSE 0
        /\ SubSeq(Readable(b), 1, readableBytes(b) - readableBytes(r)) \o Readable(r)
             = Readable(b)
        /\ SubSeq(Readable(b), 1, readableBytes(b) - readableBytes(r)) \in Seq(S)
    BY Retrieve
  <2>2. writeFd(b, n) = r
    BY <1>2 DEF writeFd
  <2> HIDE DEF r
  <2>3. readableBytes(r) = readableBytes(b) - n /\ readableBytes(b) - readableBytes(r) = n
    BY <1>1, <2>1
  <2> QED BY <2>1, <2>2, <2>3
<1>3. CASE ~(n > 0)
  <2>1. n = 0 /\ writeFd(b, n) = b
    BY <1>3 DEF writeFd
  <2>2. SubSeq(Readable(b), 1, 0) = <<>>
    BY SubSeqEmpty
  <2>3. <<>> \o Readable(b) = Readable(b) /\ <<>> \in Seq(S)
    BY <1>1, ConcatEmptySeq
  <2> QED BY <1>1, <2>1, <2>2, <2>3
<1> QED BY <1>2, <1>3

(* A new buffer has nothing to read.                                        *)
LEMMA EmptyBuffer ==
  ASSUME NEW S, Junk \in S
  PROVE  /\ Buffered(NewBuffer, S) /\ Readable(NewBuffer) = <<>>
         /\ readableBytes(NewBuffer) = 0
<1>1. CheapPrepend \in Nat /\ CheapPrepend + InitialSize \in Nat
  BY BufferAssumption
<1>2. /\ Blank(CheapPrepend + InitialSize) \in Seq(S)
      /\ Len(Blank(CheapPrepend + InitialSize)) = CheapPrepend + InitialSize
  BY <1>1, Blanks
<1>3. Buffered(NewBuffer, S) /\ readableBytes(NewBuffer) = 0
  BY <1>1, <1>2, BufferAssumption DEF Buffered, NewBuffer, readableBytes
<1>4. Readable(NewBuffer) \in Seq(S) /\ Len(Readable(NewBuffer)) = 0
  BY <1>3, ReadableBytes
<1>5. Readable(NewBuffer) = <<>>
  BY <1>4, EmptySeq
<1> QED BY <1>3, <1>5

-----------------------------------------------------------------------------
(* HttpRequest and HttpResponse.                                            *)

(* The least of a set of numbers.                                           *)
LEMMA FirstIsLeast ==
  ASSUME NEW T, T \subseteq Nat, T # {}
  PROVE  First(T) \in T /\ \A i \in T : First(T) <= i
BY LeastNat DEF First

(* More bytes add line ends, and leave those there were.                    *)
LEMMA LineEndsKept ==
  ASSUME NEW S, NEW s \in Seq(S), NEW t \in Seq(S)
  PROVE  /\ LineEnds(s) \subseteq Nat /\ LineEnds(s \o t) \subseteq Nat
         /\ LineEnds(s) \subseteq LineEnds(s \o t)
         /\ \A i \in LineEnds(s) : i + 1 <= Len(s)
         /\ \A i \in LineEnds(s \o t) : i + 1 <= Len(s) => i \in LineEnds(s)
<1>1. PICK m, n, u : m = Len(s) /\ n = Len(t) /\ u = s \o t
  OBVIOUS
<1>2. m \in Nat /\ n \in Nat /\ Len(u) = m + n /\ \A i \in 1..m : u[i] = s[i]
  BY <1>1, Parts
<1>3. LineEnds(s) = {i \in 1..(m - 1) : s[i] = "r" /\ s[i + 1] = "n"}
  BY <1>1 DEF LineEnds
<1>4. LineEnds(u) = {i \in 1..(m + n - 1) : u[i] = "r" /\ u[i + 1] = "n"}
  BY <1>2 DEF LineEnds
<1>5. \A i \in 1..(m - 1) : i \in 1..m /\ i + 1 \in 1..m /\ i \in 1..(m + n - 1)
  BY <1>2
<1>6. \A i \in 1..(m + n - 1) : i + 1 <= m => i \in 1..(m - 1)
  BY <1>2
<1>7. \A i \in LineEnds(u) : i + 1 <= m => i \in LineEnds(s)
  BY <1>2, <1>3, <1>4, <1>5, <1>6
<1>8. LineEnds(s) \subseteq LineEnds(u)
  BY <1>2, <1>3, <1>4, <1>5
<1>9. LineEnds(s) \subseteq Nat /\ LineEnds(u) \subseteq Nat /\ \A i \in LineEnds(s) : i + 1 <= m
  BY <1>2, <1>3, <1>4
<1> QED BY <1>1, <1>7, <1>8, <1>9

(* A complete request stays complete, whatever follows it.                  *)
LEMMA ParseKept ==
  ASSUME NEW S, NEW s \in Seq(S), NEW t \in Seq(S), parseRequest(s)
  PROVE  parseRequest(s \o t)
<1>1. PICK u : u = s \o t
  OBVIOUS
<1>2. /\ LineEnds(s) \subseteq Nat /\ LineEnds(u) \subseteq Nat
      /\ LineEnds(s) \subseteq LineEnds(u)
      /\ \A i \in LineEnds(s) : i + 1 <= Len(s)
      /\ \A i \in LineEnds(u) : i + 1 <= Len(s) => i \in LineEnds(s)
  BY <1>1, LineEndsKept
<1>3. HeaderEnds(s) # {} /\ LineEnds(s) # {} /\ LineEnds(u) # {}
  BY <1>2 DEF parseRequest, HeaderEnds
<1>4. HeaderEnds(u) # {}
  BY <1>2, <1>3 DEF HeaderEnds
<1>5. PICK f, g : f = First(LineEnds(s)) /\ g = First(LineEnds(u))
  OBVIOUS
<1>6. /\ f \in LineEnds(s) /\ \A i \in LineEnds(s) : f <= i
      /\ g \in LineEnds(u) /\ \A i \in LineEnds(u) : g <= i
  BY <1>2, <1>3, <1>5, FirstIsLeast
<1>7. f \in Nat /\ g \in Nat /\ g <= f /\ f + 1 <= Len(s) /\ Len(s) \in Nat
  BY <1>2, <1>6, LenProperties
<1>8. g + 1 <= Len(s)
  BY <1>7
<1>9. f = g
  BY <1>2, <1>6, <1>7, <1>8
<1>10. SubSeq(u, 1, f - 1) = SubSeq(s, 1, f - 1)
  <2>1. CASE f <= 1
    <3>1. f - 1 \in Int /\ f - 1 < 1
      BY <1>7, <2>1
    <3> QED BY <3>1, SubSeqEmpty
  <2>2. CASE ~(f <= 1)
    <3>1. 1 \in 1..Len(s) /\ f - 1 \in 1..Len(s)
      BY <1>7, <2>2
    <3> QED BY <1>1, <3>1, SubSeqOfConcat1
  <2> QED BY <2>1, <2>2
<1> QED BY <1>1, <1>4, <1>5, <1>9, <1>10 DEF parseRequest

-----------------------------------------------------------------------------
(* The invariant.                                                           *)

(* What may lie in a buffer.                                                *)
Symbols == Bytes("http") \cup {Pieces[i] : i \in 1..3} \cup {Junk}

(* All the server has read.                                                 *)
Seen == consumed \o Readable(input)

(* The connection is established or closed, and its socket has data to read *)
(* exactly if bytes have arrived.                                           *)
Serving ==
    /\ Up(conn) \/ Down(conn)
    /\ UpLog(conn.log)
    /\ conn.peer \in {"open", "eof", "reset"}
    /\ conn.inbox <=> arrived # <<>>

Held ==
    /\ Buffered(input, Symbols) /\ Buffered(output, Symbols)
    /\ consumed \in Seq(Symbols) /\ replied \in Seq(Symbols) /\ received \in Seq(Symbols)

(* The echo has returned all it has read.  The HTTP server keeps all it has *)
(* read until a request is complete, and shuts down once it has answered.   *)
Answered ==
    /\ app = "echo" => Readable(input) = <<>> /\ replied = consumed
    /\ app = "http" /\ parseRequest(Seen) =>
          replied = Response /\ conn.state # "kConnected"
    /\ app = "http" /\ ~parseRequest(Seen) => consumed = <<>> /\ replied = <<>>

(* A connection on its way out has answered, or will not read again.        *)
Ended ==
    \/ conn.state = "kConnected"
    \/ arrived = <<>> /\ conn.peer # "open"
    \/ app = "http" /\ parseRequest(Seen)

Inv == TypeOK /\ Held /\ BytesPreserved /\ Serving /\ Answered /\ Ended

LEMMA SymbolTypes ==
  /\ Junk \in Symbols
  /\ \A a \in {"echo", "http"} : Bytes(a) \subseteq Symbols
  /\ Buffers = [data : Seq(Symbols), read : Nat, write : Nat]
BY DEF Symbols, Bytes, Buffers

(* The answer is three pieces.                                              *)
LEMMA ResponseType == Response \in Seq(Symbols)
<1> DEFINE a == append(NewBuffer, <<Pieces[1]>>)
           b == append(a, <<Pieces[2]>>)
           c == append(b, <<Pieces[3]>>)
<1>1. \A i \in 1..3 : <<Pieces[i]>> \in Seq(Symbols)
  BY DEF Symbols
<1>2. Junk \in Symbols /\ 1 \in 1..3 /\ 2 \in 1..3 /\ 3 \in 1..3
  BY SymbolTypes
<1>3. Buffered(NewBuffer, Symbols)
  BY <1>2, EmptyBuffer
<1>4. Buffered(a, Symbols)
  BY <1>1, <1>2, <1>3, Appends
<1> HIDE DEF a
<1>5. Buffered(b, Symbols)
  BY <1>1, <1>2, <1>4, Appends
<1> HIDE DEF b
<1>6. Buffered(c, Symbols)
  BY <1>1, <1>2, <1>5, Appends
<1>7. Response = Readable(c)
  BY DEF Response, appendToBuffer, a, b
<1> HIDE DEF c
<1> QED BY <1>6, <1>7, ReadableBytes

-----------------------------------------------------------------------------
(* One round of handleEvent.                                                *)

(* What a callback takes out of the input buffer.                           *)
Gone(b, a) == SubSeq(Readable(b), 1, readableBytes(b) - readableBytes(a.input))

(* The callback keeps what it does not take; the answer is what was read,   *)
(* or the response to a complete request.                                   *)
LEMMA CallbackResult ==
  ASSUME NEW b, Buffered(b, Symbols), app \in {"echo", "http"},
         NEW a, a = Callback(b)
  PROVE  /\ Buffered(a.input, Symbols) /\ a.reply \in Seq(Symbols)
         /\ a.react \in {"none", "send", "sendAndShutdown"}
         /\ Gone(b, a) \in Seq(Symbols) /\ Gone(b, a) \o Readable(a.input) = Readable(b)
         /\ ~Reads \/ (app = "http" /\ ~parseRequest(Readable(b))) =>
               /\ a.input = b /\ a.reply = <<>> /\ a.react = "none" /\ Gone(b, a) = <<>>
         /\ Reads /\ app = "echo" =>
               /\ Readable(a.input) = <<>> /\ a.reply = Readable(b) /\ a.react = "send"
         /\ Reads /\ app = "http" /\ parseRequest(Readable(b)) =>
               a.reply = Response /\ a.react = "sendAndShutdown"
<1>1. /\ Readable(b) \in Seq(Symbols) /\ readableBytes(b) \in Nat
      /\ Len(Readable(b)) = readableBytes(b) /\ Junk \in Symbols
  BY ReadableBytes, SymbolTypes
<1>2. CASE ~Reads \/ (app = "http" /\ ~parseRequest(Readable(b)))
  <2>1. a.input = b /\ a.reply = <<>> /\ a.react = "none"
    BY <1>2 DEF Callback, onMessage
  <2>2. Gone(b, a) = <<>>
    <3>1. readableBytes(b) - readableBytes(a.input) = 0
      BY <1>1, <2>1
    <3>2. SubSeq(Readable(b), 1, 0) = <<>>
      BY SubSeqEmpty
    <3> QED BY <3>1, <3>2 DEF Gone
  <2>3. <<>> \in Seq(Symbols) /\ <<>> \o Readable(b) = Readable(b)
    BY <1>1, EmptySeq, ConcatEmptySeq
  <2> QED BY <1>2, <2>1, <2>2, <2>3
<1>3. CASE Reads /\ app = "echo"
  <2>1. a.input = retrieveAll(b) /\ a.reply = Readable(b) /\ a.react = "send"
    BY <1>3 DEF Callback, Echo
  <2>2. /\ Buffered(a.input, Symbols) /\ Readable(a.input) = <<>>
        /\ readableBytes(a.input) = 0
    BY <1>1, <2>1, RetrieveAll
  <2>3. Gone(b, a) = Readable(b)
    <3>1. readableBytes(b) - readableBytes(a.input) = Len(Readable(b))
      BY <1>1, <2>2
    <3> QED BY <1>1, <3>1, SubSeqFull DEF Gone
  <2>4. Readable(b) \o <<>> = Readable(b)
    BY <1>1, ConcatEmptySeq
  <2> QED BY <1>1, <1>3, <2>1, <2>2, <2>3, <2>4
<1>4. CASE Reads /\ app = "http" /\ parseRequest(Readable(b))
  <2>1. a.input = Consumed(b) /\ a.reply = Response /\ a.react = "sendAndShutdown"
    BY <1>4 DEF Callback, onMessage
  <2>2. PICK n \in Nat : n = First(HeaderEnds(Readable(b))) + 3
    <3>1. HeaderEnds(Readable(b)) # {} /\ HeaderEnds(Readable(b)) \subseteq Nat
      <4>1. LineEnds(Readable(b)) \subseteq Nat
        BY <1>1, LenProperties DEF LineEnds
      <4> QED BY <1>4, <4>1 DEF parseRequest, HeaderEnds
    <3>2. First(HeaderEnds(Readable(b))) \in Nat
      BY <3>1, FirstIsLeast
    <3> QED BY <3>2
  <2>3. a.input = retrieve(b, n)
    BY <2>1, <2>2 DEF Consumed
  <2>4. /\ Buffered(a.input, Symbols)
        /\ Gone(b, a) \o Readable(a.input) = Readable(b) /\ Gone(b, a) \in Seq(Symbols)
    BY <1>1, <2>3, Retrieve DEF Gone
  <2> QED BY <1>4, <2>1, <2>4, ResponseType
<1> QED BY <1>2, <1>3, <1>4

-----------------------------------------------------------------------------
(* The invariant holds at the start and is kept by every step.              *)

LEMMA InitInv == Init => Inv
<1> SUFFICES ASSUME Init PROVE Inv
  OBVIOUS
<1> DEFINE r == [NewConnection EXCEPT !.peer = "open"]
<1>1. r \in Connections /\ New(r) /\ r.output = 0 /\ ~r.inbox /\ r.peer = "open"
  <2>1. <<>> \in Seq({"up", "message", "down"}) /\ -1 \in -1..1
    BY EmptySeq
  <2>2. NewConnection \in Connections
    BY <2>1 DEF NewConnection, Connections, States
  <2>3. r \in Connections /\ r.peer = "open" /\ Keeps(r, NewConnection, {"peer"})
    BY <2>2, SetPeer
  <2>4. New(NewConnection) /\ NewConnection.output = 0 /\ ~NewConnection.inbox
    BY DEF New, Silent, NewConnection
  <2> HIDE DEF r
  <2>5. New(r)
    BY <2>3, <2>4 DEF New, Silent, Keeps
  <2> QED BY <2>3, <2>4, <2>5 DEF Keeps
<1> HIDE DEF r
<1>2. /\ conn \in Connections /\ Up(conn) /\ conn.state = "kConnected"
      /\ conn.output = 0 /\ ~conn.inbox /\ conn.peer = "open"
  BY <1>1, Established DEF Init, r, Continues
<1>3. /\ Buffered(input, Symbols) /\ Readable(input) = <<>> /\ readableBytes(input) = 0
      /\ input = NewBuffer /\ output = NewBuffer
  BY SymbolTypes, EmptyBuffer DEF Init
<1>4. \A S : <<>> \in Seq(S) /\ <<>> \o <<>> = <<>>
  BY EmptySeq, ConcatEmptySeq
<1>5. Held
  BY <1>3, <1>4 DEF Held, Init
<1>6. TypeOK
  BY <1>2, <1>3, <1>4, <1>5, SymbolTypes DEF TypeOK, Init, Buffered
<1>7. BytesPreserved
  BY <1>2, <1>3, <1>4 DEF BytesPreserved, Init
<1>8. Serving
  BY <1>2 DEF Serving, Up, Init
<1>9. Answered
  <2>1. Seen = <<>>
    BY <1>3, <1>4 DEF Seen, Init
  <2>2. ~parseRequest(<<>>)
    <3>1. LineEnds(<<>>) = {}
      <4>1. Len(<<>>) = 0
        BY EmptySeq
      <4> QED BY <4>1 DEF LineEnds
    <3> QED BY <3>1 DEF parseRequest, HeaderEnds
  <2> QED BY <1>3, <2>1, <2>2 DEF Answered, Init
<1>10. Ended
  BY <1>2 DEF Ended
<1> QED BY <1>5, <1>6, <1>7, <1>8, <1>9, <1>10 DEF Inv

(* The client sends a byte.                                                 *)
LEMMA SendInv == ASSUME Inv, Send PROVE Inv'
<1>1. PICK x \in Bytes(app) : sent' = Append(sent, x) /\ arrived' = Append(arrived, x)
  BY DEF Send
<1>2. /\ conn.peer = "open" /\ conn' = [conn EXCEPT !.inbox = TRUE]
      /\ UNCHANGED <<app, input, output, consumed, replied, received>>
  BY DEF Send
<1>3. conn \in Connections /\ arrived \in Seq(Bytes(app)) /\ sent \in Seq(Bytes(app))
  BY DEF Inv, TypeOK
<1>4. conn' \in Connections /\ conn'.inbox /\ Keeps(conn', conn, {"inbox"})
  BY <1>2, <1>3, SetInbox
<1>5. /\ arrived' \in Seq(Bytes(app)) /\ arrived' # <<>> /\ sent' \in Seq(Bytes(app))
      /\ arrived' = arrived \o <<x>> /\ sent' = sent \o <<x>>
  BY <1>1, <1>3, AppendProperties, AppendIsConcat
<1>6. /\ conn'.state = conn.state /\ conn'.log = conn.log /\ conn'.output = conn.output
      /\ conn'.peer = conn.peer
  BY <1>4 DEF Keeps
<1>7. (Up(conn) => Up(conn')) /\ (Down(conn) => Down(conn'))
  <2>1. Keeps(conn', conn, {"peer", "inbox", "error", "failed"})
    BY <1>4 DEF Keeps
  <2> QED BY <2>1, PhaseKept
<1>8. TypeOK'
  BY <1>2, <1>4, <1>5 DEF Inv, TypeOK
<1>9. Held' /\ Seen' = Seen
  BY <1>2 DEF Inv, Held, Seen
<1>10. BytesPreserved'
  <2>1. Seen \in Seq(Symbols) /\ arrived \in Seq(Symbols) /\ <<x>> \in Seq(Symbols)
    <3>1. Bytes(app) \subseteq Symbols
      BY SymbolTypes DEF Inv, TypeOK
    <3>2. consumed \in Seq(Symbols) /\ Readable(input) \in Seq(Symbols)
      BY ReadableBytes DEF Inv, Held
    <3>3. Seen \in Seq(Symbols)
      BY <3>2, ConcatProperties DEF Seen
    <3> QED BY <1>3, <3>1, <3>3, SeqMonotonic
  <2>2. (Seen \o arrived) \o <<x>> = Seen \o (arrived \o <<x>>)
    BY <2>1, ConcatAssociative
  <2>3. sent = Seen \o arrived
    BY DEF Inv, BytesPreserved, Seen
  <2> QED BY <1>2, <1>5, <1>6, <1>9, <2>2, <2>3 DEF Inv, BytesPreserved, Seen
<1>11. Serving'
  BY <1>4, <1>5, <1>6, <1>7 DEF Inv, Serving
<1>12. Answered'
  BY <1>2, <1>6, <1>9 DEF Inv, Answered
<1>13. Ended'
  BY <1>2, <1>6, <1>9 DEF Inv, Ended
<1> QED BY <1>8, <1>9, <1>10, <1>11, <1>12, <1>13 DEF Inv

(* A step that touches only the connection, and neither its phase nor what  *)
(* it has to send or read.                                                  *)
LEMMA ConnInv ==
  ASSUME Inv, UNCHANGED <<app, arrived, input, output, ghosts>>,
         conn' \in Connections, Up(conn') \/ Down(conn'),
         conn'.state = conn.state, conn'.log = conn.log,
         conn'.output = conn.output, conn'.inbox = conn.inbox,
         conn'.peer \in {"open", "eof", "reset"},
         conn'.peer = "open" => conn.peer = "open"
  PROVE  Inv'
<1>1. UNCHANGED <<app, arrived, input, output, sent, consumed, replied, received>>
  BY DEF ghosts
<1>2. TypeOK'
  BY <1>1 DEF Inv, TypeOK
<1>3. Held' /\ Seen' = Seen
  BY <1>1 DEF Inv, Held, Seen
<1>4. BytesPreserved' /\ Serving' /\ Answered' /\ Ended'
  BY <1>1, <1>3 DEF Inv, BytesPreserved, Serving, Answered, Ended
<1> QED BY <1>2, <1>3, <1>4 DEF Inv

(* The client closes or resets the connection.                              *)
LEMMA PeerInv == ASSUME Inv, Close \/ Reset PROVE Inv'
<1>1. conn \in Connections
  BY DEF Inv, TypeOK
<1>2. /\ conn' \in Connections /\ Keeps(conn', conn, {"peer", "error"})
      /\ conn'.peer \in {"eof", "reset"}
  <2>1. CASE Close
    BY <1>1, <2>1, SetPeer DEF Close, Keeps
  <2>2. CASE Reset
    <3> DEFINE a == [conn EXCEPT !.peer = "reset"]
    <3>1. a \in Connections /\ a.peer = "reset" /\ Keeps(a, conn, {"peer"})
      BY <1>1, SetPeer
    <3>2. conn' = [a EXCEPT !.error = TRUE]
      BY <2>2 DEF Reset
    <3> HIDE DEF a
    <3>3. conn' \in Connections /\ Keeps(conn', a, {"error"})
      BY <3>1, <3>2, SetError
    <3> QED BY <3>1, <3>3 DEF Keeps
  <2> QED BY <2>1, <2>2
<1>3. (Up(conn) => Up(conn')) /\ (Down(conn) => Down(conn'))
  <2>1. Keeps(conn', conn, {"peer", "inbox", "error", "failed"})
    BY <1>2 DEF Keeps
  <2> QED BY <2>1, PhaseKept
<1>4. /\ conn'.state = conn.state /\ conn'.log = conn.log
      /\ conn'.output = conn.output /\ conn'.inbox = conn.inbox
  BY <1>2 DEF Keeps
<1>5. UNCHANGED <<app, arrived, input, output, ghosts>>
  BY DEF Close, Reset
<1>6. Up(conn') \/ Down(conn')
  BY <1>3 DEF Inv, Serving
<1> QED BY <1>2, <1>4, <1>5, <1>6, ConnInv

(* The connection is destroyed.                                             *)
LEMMA DestroyedInv == ASSUME Inv, CallDestroyed PROVE Inv'
<1>1. conn \in Connections /\ (Up(conn) \/ Down(conn))
  BY DEF Inv, TypeOK, Serving
<1>2. conn.state = "kDisconnected" /\ conn' = connectDestroyed(conn)
      /\ UNCHANGED <<app, arrived, input, output, ghosts>>
  BY DEF CallDestroyed
<1>3. Down(conn) /\ Silent(conn)
  BY <1>1, <1>2 DEF Up, Down
<1>4. /\ conn' \in Connections /\ conn'.peer = conn.peer /\ Silent(conn')
      /\ conn'.state = conn.state /\ conn'.log = conn.log
      /\ conn'.output = conn.output /\ conn'.shut = conn.shut /\ conn'.inbox = conn.inbox
  BY <1>1, <1>2, <1>3, DestroyedSilent DEF Continues
<1>5. Down(conn')
  BY <1>3, <1>4 DEF Down
<1> QED BY <1>2, <1>4, <1>5, ConnInv DEF Inv, Serving

(* What the socket gives, and what stays in it.                             *)
LEMMA TakenBytes ==
  ASSUME Inv, Handle
  PROVE  /\ Taken \in Seq(Symbols) /\ arrived' \in Seq(Symbols) /\ arrived' \in Seq(Bytes(app))
         /\ Taken \o arrived' = arrived
         /\ ~Reads => Taken = <<>> /\ arrived' = arrived
<1>1. /\ arrived \in Seq(Bytes(app)) /\ Bytes(app) \subseteq Symbols
      /\ arrived' = SubSeq(arrived, Len(Taken) + 1, Len(arrived))
  BY SymbolTypes DEF Inv, TypeOK, Handle
<1>2. CASE ~Reads
  <2>1. Taken = <<>> /\ Len(Taken) = 0
    BY <1>2, EmptySeq DEF Taken
  <2>2. arrived' = arrived
    BY <1>1, <2>1, SubSeqFull
  <2>3. <<>> \o arrived = arrived /\ <<>> \in Seq(Symbols)
    BY <1>1, ConcatEmptySeq, EmptySeq
  <2> QED BY <1>1, <1>2, <2>1, <2>2, <2>3, SeqMonotonic
<1>3. CASE Reads
  <2>1. ReadCap(input) \in Nat /\ Len(arrived) \in Nat
    BY <1>1, ReadableBytes, LenProperties, BufferAssumption DEF Inv, Held, ReadCap
  <2>2. PICK n \in Nat : /\ n <= Len(arrived)
                          /\ Taken = SubSeq(arrived, 1, n)
    BY <1>3, <2>1 DEF Taken
  <2>3. /\ Taken \in Seq(Bytes(app)) /\ Len(Taken) = n
        /\ SubSeq(arrived, n + 1, Len(arrived)) \in Seq(Bytes(app))
        /\ SubSeq(arrived, 1, n) \o SubSeq(arrived, n + 1, Len(arrived)) = arrived
    BY <1>1, <2>2, Cut
  <2>4. arrived' = SubSeq(arrived, n + 1, Len(arrived))
    BY <1>1, <2>3
  <2> QED BY <1>1, <1>3, <2>2, <2>3, <2>4, SeqMonotonic
<1> QED BY <1>2, <1>3

(* When a channel is ready, and what it then means.                         *)
LEMMA ReadyUp ==
  ASSUME Inv, Ready(conn) # {}
  PROVE  /\ Up(conn)
         /\ "HUP" \in Ready(conn) => "IN" \in Ready(conn)
         /\ Reads <=> conn.inbox /\ "IN" \in Ready(conn)
<1>1. Up(conn)
  BY DEF Inv, Serving, Ready, Down, Silent
<1> QED BY <1>1 DEF Inv, Serving, Up, Polling, Ready, Reads

(* One round, by its parts: the buffer after the read, what the callback    *)
(* makes of it, the output before the write and the connection after it.    *)
LEMMA HandleParts ==
  ASSUME Inv, Handle
  PROVE  \E b, a, o, r : \E n \in Nat :
            /\ b = readFd(input, Taken) /\ a = Callback(b)
            /\ o = append(output, Sent(a.reply))
            /\ r = handleEvent(conn, Ready(conn), a.react, Len(a.reply), n)
            /\ input' = a.input
            /\ consumed' = consumed \o Gone(b, a)
            /\ replied' = replied \o Sent(a.reply)
            /\ conn' = [r EXCEPT !.inbox = (arrived' # <<>>), !.log = conn.log]
            /\ output' = writeFd(o, readableBytes(o) - r.output)
            /\ received' = received \o SubSeq(Readable(o), 1, readableBytes(o) - r.output)
            /\ UNCHANGED <<app, sent>>
<1>1. MaxBytes \in Nat
  BY MaxBytesAssumption
<1>2. PICK b \in {readFd(input, Taken)} : \E a \in {Callback(b)} :
          /\ input' = a.input
          /\ consumed' = consumed \o
                SubSeq(Readable(b), 1, readableBytes(b) - readableBytes(a.input))
          /\ replied' = replied \o Sent(a.reply)
          /\ \E o \in {append(output, Sent(a.reply))}, n \in 1 .. MaxBytes :
             \E r \in {handleEvent(conn, Ready(conn), a.react, Len(a.reply), n)} :
                /\ conn' = [r EXCEPT !.inbox = arrived' # <<>>, !.log = conn.log]
                /\ output' = writeFd(o, readableBytes(o) - r.output)
                /\ received' = received \o
                                  SubSeq(Readable(o), 1, readableBytes(o) - r.output)
  BY Zenon DEF Handle
<1>3. PICK a \in {Callback(b)} :
          /\ input' = a.input
          /\ consumed' = consumed \o
                SubSeq(Readable(b), 1, readableBytes(b) - readableBytes(a.input))
          /\ replied' = replied \o Sent(a.reply)
          /\ \E o \in {append(output, Sent(a.reply))}, n \in 1 .. MaxBytes :
             \E r \in {handleEvent(conn, Ready(conn), a.react, Len(a.reply), n)} :
                /\ conn' = [r EXCEPT !.inbox = arrived' # <<>>, !.log = conn.log]
                /\ output' = writeFd(o, readableBytes(o) - r.output)
                /\ received' = received \o
                                  SubSeq(Readable(o), 1, readableBytes(o) - r.output)
  BY <1>2, Zenon
<1>4. PICK o \in {append(output, Sent(a.reply))}, n \in 1 .. MaxBytes :
             \E r \in {handleEvent(conn, Ready(conn), a.react, Len(a.reply), n)} :
                /\ conn' = [r EXCEPT !.inbox = arrived' # <<>>, !.log = conn.log]
                /\ output' = writeFd(o, readableBytes(o) - r.output)
                /\ received' = received \o
                                  SubSeq(Readable(o), 1, readableBytes(o) - r.output)
  BY <1>3, Zenon
<1>5. PICK r \in {handleEvent(conn, Ready(conn), a.react, Len(a.reply), n)} :
                /\ conn' = [r EXCEPT !.inbox = arrived' # <<>>, !.log = conn.log]
                /\ output' = writeFd(o, readableBytes(o) - r.output)
                /\ received' = received \o
                                  SubSeq(Readable(o), 1, readableBytes(o) - r.output)
  BY <1>4, Zenon
<1>6. n \in Nat /\ UNCHANGED <<app, sent>>
  <2>1. n \in Nat
    BY <1>1
  <2>2. UNCHANGED <<app, sent>>
    BY Zenon DEF Handle
  <2> QED BY <2>1, <2>2
<1>7. b = readFd(input, Taken) /\ a = Callback(b)
  BY <1>2, <1>3
<1>8. /\ o = append(output, Sent(a.reply))
      /\ r = handleEvent(conn, Ready(conn), a.react, Len(a.reply), n)
  BY <1>4, <1>5
<1>9. /\ input' = a.input
      /\ consumed' = consumed \o Gone(b, a)
      /\ replied' = replied \o Sent(a.reply)
  BY <1>3 DEF Gone
<1> QED BY <1>5, <1>6, <1>7, <1>8, <1>9, Zenon

(* A round in which the callback reacts with a reply, and write takes up to *)
(* n bytes; r is what handleEvent returns.                                  *)
Round(react, reply, n, r) ==
    /\ react \in {"none", "send", "sendAndShutdown"} /\ reply \in Seq(Symbols) /\ n \in Nat
    /\ r = handleEvent(conn, Ready(conn), react, Len(reply), n)
    /\ conn' = [r EXCEPT !.inbox = (arrived' # <<>>), !.log = conn.log]

(* The connection after a round: in a phase, with at most what it had to    *)
(* send and the answer left to send, and out of kConnected only if the      *)
(* answer was the last or the client had closed.                            *)
LEMMA RoundConn ==
  ASSUME Inv, Handle,
         NEW react, NEW reply, NEW n, NEW r, Round(react, reply, n, r)
  PROVE  /\ conn' \in Connections /\ (Up(conn') \/ Down(conn'))
         /\ conn'.log = conn.log /\ conn'.peer = conn.peer /\ conn'.output = r.output
         /\ conn'.inbox <=> arrived' # <<>>
         /\ r.output \in Nat /\ r.output <= conn.output + Len(Sent(reply))
         /\ conn.state # "kConnected" => conn'.state # "kConnected"
         /\ Reads /\ react = "sendAndShutdown" => conn'.state # "kConnected"
         /\ \/ conn'.state = conn.state
            \/ Reads /\ react = "sendAndShutdown"
            \/ arrived = <<>> /\ conn.peer # "open"
<1> SUFFICES
      ASSUME react \in {"none", "send", "sendAndShutdown"}, reply \in Seq(Symbols), n \in Nat,
             r = handleEvent(conn, Ready(conn), react, Len(reply), n),
             conn' = [r EXCEPT !.inbox = (arrived' # <<>>), !.log = conn.log]
      PROVE  /\ conn' \in Connections /\ (Up(conn') \/ Down(conn'))
             /\ conn'.log = conn.log /\ conn'.peer = conn.peer /\ conn'.output = r.output
             /\ conn'.inbox <=> arrived' # <<>>
             /\ r.output \in Nat /\ r.output <= conn.output + Len(Sent(reply))
             /\ conn.state # "kConnected" => conn'.state # "kConnected"
             /\ Reads /\ react = "sendAndShutdown" => conn'.state # "kConnected"
             /\ \/ conn'.state = conn.state
                \/ Reads /\ react = "sendAndShutdown"
                \/ arrived = <<>> /\ conn.peer # "open"
  BY DEF Round
<1>1. /\ Up(conn) /\ ("HUP" \in Ready(conn) => "IN" \in Ready(conn))
      /\ Reads <=> conn.inbox /\ "IN" \in Ready(conn)
  BY ReadyUp DEF Handle
<1>2. /\ conn \in Connections /\ UpLog(conn.log) /\ (conn.inbox <=> arrived # <<>>)
  BY DEF Inv, TypeOK, Serving
<1>3. Len(reply) \in Nat /\ Len(<<>>) = 0 /\ react \in Reactions
  BY LenProperties, EmptySeq DEF Reactions
<1>4. Continues(r, conn) /\ (Up(r) \/ Down(r))
  BY <1>1, <1>2, <1>3, Events
<1>5. /\ r.output <= conn.output + IF Reads THEN Adds(conn, react, Len(reply)) ELSE 0
      /\ conn.state # "kConnected" => r.state # "kConnected"
      /\ Reads /\ react = "sendAndShutdown" => r.state # "kConnected"
      /\ \/ r.state = conn.state
         \/ Reads /\ react \notin {"none", "send"}
         \/ ~conn.inbox /\ conn.peer \in {"eof", "reset"}
  BY <1>1, <1>2, <1>3, EventsOutput
<1> DEFINE a == [r EXCEPT !.inbox = (arrived' # <<>>)]
<1>6. r \in Connections /\ r.peer = conn.peer
  BY <1>4 DEF Continues
<1>7. a \in Connections /\ (a.inbox <=> arrived' # <<>>) /\ Keeps(a, r, {"inbox"})
  BY <1>6, SetInbox, (arrived' # <<>>) \in BOOLEAN
<1>8. conn' = [a EXCEPT !.log = conn.log]
  OBVIOUS
<1> HIDE DEF a
<1>9. conn' \in Connections /\ conn'.log = conn.log /\ Keeps(conn', a, {"log"})
  <2>1. PICK l \in Seq({"up", "message", "down"}) : l = conn.log
    BY <1>2, FieldTypes
  <2>2. LET s == [a EXCEPT !.log = l] IN
        s \in Connections /\ s.log = l /\ Keeps(s, a, {"log"})
    BY <1>7, <2>1, SetLog
  <2> QED BY <1>8, <2>1, <2>2, Zenon
<1>10. OrderedLog(conn.log)
  BY <1>2, FieldTypes, Logs
<1>11. Up(conn') \/ Down(conn')
  <2>1. Keeps(conn', r, {"inbox", "log"})
    BY <1>7, <1>9 DEF Keeps
  <2>2. Up(r) => Up(conn')
    BY <1>2, <1>9, <2>1 DEF Keeps, Up, Polling
  <2>3. Down(r) => Down(conn')
    BY <1>9, <1>10, <2>1 DEF Keeps, Down, Silent
  <2> QED BY <1>4, <2>2, <2>3
<1>12. /\ conn'.state = r.state /\ conn'.output = r.output /\ conn'.peer = conn.peer
       /\ conn'.inbox <=> arrived' # <<>>
  BY <1>6, <1>7, <1>9 DEF Keeps
<1>13. r.output \in Nat /\ r.output <= conn.output + Len(Sent(reply))
  <2>1. PICK k, l, m : k = Len(reply) /\ l = Len(Sent(reply))
                       /\ m = IF Reads THEN Adds(conn, react, Len(reply)) ELSE 0
    OBVIOUS
  <2>2. k \in Nat /\ m \in Nat /\ l \in Nat /\ m <= l
    BY <1>3, <2>1 DEF Sent, Adds
  <2>3. r.output \in Nat /\ conn.output \in Nat
    BY <1>2, <1>6, FieldTypes
  <2>4. r.output <= conn.output + m
    BY <1>5, <2>1
  <2> QED BY <2>1, <2>2, <2>3, <2>4
<1> QED BY <1>2, <1>5, <1>9, <1>11, <1>12, <1>13

LEMMA HandleInv == ASSUME Inv, Handle PROVE Inv'
<1>1. PICK b, a, o, r : \E n \in Nat :
            /\ b = readFd(input, Taken) /\ a = Callback(b)
            /\ o = append(output, Sent(a.reply))
            /\ r = handleEvent(conn, Ready(conn), a.react, Len(a.reply), n)
            /\ input' = a.input
            /\ consumed' = consumed \o Gone(b, a)
            /\ replied' = replied \o Sent(a.reply)
            /\ conn' = [r EXCEPT !.inbox = (arrived' # <<>>), !.log = conn.log]
            /\ output' = writeFd(o, readableBytes(o) - r.output)
            /\ received' = received \o SubSeq(Readable(o), 1, readableBytes(o) - r.output)
            /\ UNCHANGED <<app, sent>>
  BY HandleParts
<1>2. PICK n \in Nat :
            /\ r = handleEvent(conn, Ready(conn), a.react, Len(a.reply), n)
            /\ conn' = [r EXCEPT !.inbox = (arrived' # <<>>), !.log = conn.log]
  BY <1>1
<1>3. /\ b = readFd(input, Taken) /\ a = Callback(b)
      /\ o = append(output, Sent(a.reply)) /\ input' = a.input
  BY <1>1
<1>4. /\ consumed' = consumed \o Gone(b, a) /\ replied' = replied \o Sent(a.reply)
      /\ output' = writeFd(o, readableBytes(o) - r.output)
      /\ received' = received \o SubSeq(Readable(o), 1, readableBytes(o) - r.output)
      /\ app' = app /\ sent' = sent
  BY <1>1
<1>5. /\ app \in {"echo", "http"} /\ conn \in Connections
      /\ Buffered(input, Symbols) /\ Buffered(output, Symbols)
      /\ consumed \in Seq(Symbols) /\ replied \in Seq(Symbols) /\ received \in Seq(Symbols)
      /\ Readable(input) \in Seq(Symbols) /\ Readable(output) \in Seq(Symbols)
      /\ Junk \in Symbols
  BY ReadableBytes, SymbolTypes DEF Inv, TypeOK, Held
<1>6. /\ Taken \in Seq(Symbols) /\ arrived' \in Seq(Symbols) /\ arrived' \in Seq(Bytes(app))
      /\ Taken \o arrived' = arrived
      /\ ~Reads => Taken = <<>> /\ arrived' = arrived
  BY TakenBytes
<1>7. Buffered(b, Symbols) /\ Readable(b) = Readable(input) \o Taken
  BY <1>3, <1>5, <1>6, ReadFd
<1>8. /\ Buffered(a.input, Symbols) /\ a.reply \in Seq(Symbols)
      /\ a.react \in {"none", "send", "sendAndShutdown"}
      /\ Gone(b, a) \in Seq(Symbols) /\ Gone(b, a) \o Readable(a.input) = Readable(b)
      /\ ~Reads \/ (app = "http" /\ ~parseRequest(Readable(b))) =>
            /\ a.input = b /\ a.reply = <<>> /\ a.react = "none" /\ Gone(b, a) = <<>>
      /\ Reads /\ app = "echo" =>
            /\ Readable(a.input) = <<>> /\ a.reply = Readable(b) /\ a.react = "send"
      /\ Reads /\ app = "http" /\ parseRequest(Readable(b)) =>
            a.reply = Response /\ a.react = "sendAndShutdown"
  BY <1>3, <1>5, <1>7, CallbackResult
<1>9. /\ conn' \in Connections /\ (Up(conn') \/ Down(conn'))
      /\ conn'.log = conn.log /\ conn'.peer = conn.peer /\ conn'.output = r.output
      /\ conn'.inbox <=> arrived' # <<>>
      /\ r.output \in Nat /\ r.output <= conn.output + Len(Sent(a.reply))
      /\ conn.state # "kConnected" => conn'.state # "kConnected"
      /\ Reads /\ a.react = "sendAndShutdown" => conn'.state # "kConnected"
      /\ \/ conn'.state = conn.state
         \/ Reads /\ a.react = "sendAndShutdown"
         \/ arrived = <<>> /\ conn.peer # "open"
  <2>1. Round(a.react, a.reply, n, r)
    BY <1>2, <1>8 DEF Round
  <2> QED BY <2>1, RoundConn
<1>10. Sent(a.reply) \in Seq(Symbols)
  BY <1>8, EmptySeq DEF Sent
<1>11. /\ Buffered(o, Symbols) /\ Readable(o) = Readable(output) \o Sent(a.reply)
       /\ readableBytes(o) = readableBytes(output) + Len(Sent(a.reply))
  BY <1>3, <1>5, <1>10, Appends
<1>12. conn.output = readableBytes(output)
  BY DEF Inv, BytesPreserved
<1>13. PICK w \in Nat : w = readableBytes(o) - r.output /\ w <= readableBytes(o)
  <2>1. readableBytes(o) \in Nat
    BY <1>11, ReadableBytes
  <2>2. r.output <= readableBytes(o) /\ r.output \in Nat
    BY <1>9, <1>11, <1>12
  <2> QED BY <2>1, <2>2
<1>14. /\ Buffered(output', Symbols) /\ readableBytes(output') = r.output
       /\ SubSeq(Readable(o), 1, w) \o Readable(output') = Readable(o)
       /\ SubSeq(Readable(o), 1, w) \in Seq(Symbols)
       /\ received' = received \o SubSeq(Readable(o), 1, w)
  <2>1. output' = writeFd(o, w) /\ received' = received \o SubSeq(Readable(o), 1, w)
    BY <1>4, <1>13
  <2>2. /\ Buffered(writeFd(o, w), Symbols)
        /\ readableBytes(writeFd(o, w)) = readableBytes(o) - w
        /\ SubSeq(Readable(o), 1, w) \o Readable(writeFd(o, w)) = Readable(o)
        /\ SubSeq(Readable(o), 1, w) \in Seq(Symbols)
    BY <1>5, <1>11, <1>13, WriteFd
  <2>3. readableBytes(o) - w = r.output
    <3>1. readableBytes(o) \in Nat
      BY <1>11, ReadableBytes
    <3> QED BY <1>9, <1>13, <3>1
  <2> QED BY <2>1, <2>2, <2>3
<1>15. Held'
  <2>1. consumed \o Gone(b, a) \in Seq(Symbols)
    BY <1>5, <1>8, ConcatProperties
  <2>2. replied \o Sent(a.reply) \in Seq(Symbols)
    BY <1>5, <1>10, ConcatProperties
  <2>3. received \o SubSeq(Readable(o), 1, w) \in Seq(Symbols)
    BY <1>5, <1>14, ConcatProperties
  <2> QED BY <1>3, <1>4, <1>8, <1>14, <2>1, <2>2, <2>3 DEF Held
<1>16. TypeOK'
  <2>1. arrived' \in Seq(Bytes(app')) /\ sent' \in Seq(Bytes(app')) /\ app' \in {"echo", "http"}
    BY <1>4, <1>6 DEF Inv, TypeOK
  <2>2. input' \in Buffers /\ output' \in Buffers
    BY <1>15, SymbolTypes DEF Held, Buffered
  <2> QED BY <1>9, <2>1, <2>2 DEF TypeOK
<1>17. Readable(input') \in Seq(Symbols) /\ Readable(output') \in Seq(Symbols)
  BY <1>3, <1>8, <1>14, ReadableBytes
<1>18. Seen' = Seen \o Taken /\ Seen' = consumed' \o Readable(input') /\ Seen \in Seq(Symbols)
  <2>1. Seen' = (consumed \o Gone(b, a)) \o Readable(a.input)
    BY <1>3, <1>4 DEF Seen
  <2>2. (consumed \o Gone(b, a)) \o Readable(a.input)
           = consumed \o (Gone(b, a) \o Readable(a.input))
    <3>1. /\ consumed \in Seq(Symbols) /\ Gone(b, a) \in Seq(Symbols)
          /\ Readable(a.input) \in Seq(Symbols)
      BY <1>3, <1>5, <1>8, <1>17
    <3> QED BY <3>1, ConcatAssociative
  <2>3. Gone(b, a) \o Readable(a.input) = Readable(input) \o Taken
    BY <1>7, <1>8
  <2>4. consumed \o (Readable(input) \o Taken) = (consumed \o Readable(input)) \o Taken
    <3>1. /\ consumed \in Seq(Symbols) /\ Readable(input) \in Seq(Symbols)
          /\ Taken \in Seq(Symbols)
      BY <1>5, <1>6
    <3> QED BY <3>1, ConcatAssociative
  <2>5. consumed \o Readable(input) \in Seq(Symbols)
    BY <1>5, ConcatProperties
  <2> QED BY <2>1, <2>2, <2>3, <2>4, <2>5 DEF Seen
<1>19. BytesPreserved'
  <2>1. sent = Seen \o arrived
    BY DEF Inv, BytesPreserved, Seen
  <2>2. (Seen \o Taken) \o arrived' = Seen \o (Taken \o arrived')
    <3>1. Seen \in Seq(Symbols) /\ Taken \in Seq(Symbols) /\ arrived' \in Seq(Symbols)
      BY <1>6, <1>18
    <3> QED BY <3>1, ConcatAssociative
  <2>3. sent' = Seen' \o arrived'
    BY <1>4, <1>6, <1>18, <2>1, <2>2
  <2>4. replied' = received' \o Readable(output')
    <3> DEFINE x == SubSeq(Readable(o), 1, w)
    <3>1. replied = received \o Readable(output)
      BY DEF Inv, BytesPreserved
    <3>2. (received \o Readable(output)) \o Sent(a.reply)
             = received \o (Readable(output) \o Sent(a.reply))
      <4>1. /\ received \in Seq(Symbols) /\ Readable(output) \in Seq(Symbols)
            /\ Sent(a.reply) \in Seq(Symbols)
        BY <1>5, <1>10
      <4> QED BY <4>1, ConcatAssociative
    <3>3. Readable(output) \o Sent(a.reply) = x \o Readable(output')
      BY <1>11, <1>14
    <3>4. x \in Seq(Symbols) /\ received' = received \o x
      BY <1>14
    <3> HIDE DEF x
    <3>5. received \o (x \o Readable(output')) = (received \o x) \o Readable(output')
      <4>1. /\ received \in Seq(Symbols) /\ x \in Seq(Symbols)
            /\ Readable(output') \in Seq(Symbols)
        BY <1>5, <1>17, <3>4
      <4> QED BY <4>1, ConcatAssociative
    <3> QED BY <1>4, <3>1, <3>2, <3>3, <3>4, <3>5
  <2> QED BY <1>9, <1>14, <1>18, <2>3, <2>4 DEF BytesPreserved, Seen
<1>20. Serving'
  BY <1>9 DEF Inv, Serving
<1>21. /\ app = "echo" /\ Reads => Readable(b) = Taken
       /\ Reads => arrived # <<>>
       /\ ~Reads => Readable(b) = Readable(input) /\ Seen' = Seen
  <2>1. \A s \in Seq(Symbols) : <<>> \o s = s /\ s \o <<>> = s
    BY ConcatEmptySeq
  <2> QED BY <1>5, <1>6, <1>7, <1>18, <2>1 DEF Inv, Answered, Reads
<1>22. ASSUME app = "echo" PROVE Answered' /\ Ended'
  <2>1. Readable(input) = <<>> /\ replied = consumed
    BY <1>22 DEF Inv, Answered
  <2>2. \/ conn'.state = "kConnected"
        \/ arrived = <<>> /\ conn.peer # "open"
    BY <1>8, <1>9, <1>21, <1>22 DEF Inv, Ended
  <2>3. arrived = <<>> => arrived' = <<>>
    BY <1>6, <1>21
  <2>4. Ended'
    BY <1>9, <2>2, <2>3 DEF Ended
  <2>5. CASE Reads
    <3>1. Readable(a.input) = <<>> /\ a.reply = Readable(b)
      BY <1>8, <1>22, <2>5
    <3>2. Gone(b, a) = Readable(b)
      <4>1. Gone(b, a) \o <<>> = Gone(b, a)
        BY <1>8, ConcatEmptySeq
      <4> QED BY <1>8, <3>1, <4>1
    <3>3. conn.state = "kConnected"
      BY <1>21, <1>22, <2>5 DEF Inv, Ended
    <3> QED BY <1>3, <1>4, <1>22, <2>1, <2>4, <3>1, <3>2, <3>3 DEF Answered, Sent
  <2>6. CASE ~Reads
    <3>1. a.input = b /\ a.reply = <<>> /\ Gone(b, a) = <<>>
      BY <1>8, <2>6
    <3>2. Sent(a.reply) = <<>>
      BY <3>1 DEF Sent
    <3> QED BY <1>3, <1>4, <1>21, <1>22, <2>1, <2>4, <2>6, <3>1, <3>2 DEF Answered
  <2> QED BY <2>5, <2>6
<1>23. ASSUME app = "http" PROVE Answered' /\ Ended'
  <2>1. parseRequest(Seen) => replied = Response /\ conn.state # "kConnected"
    BY <1>23 DEF Inv, Answered
  <2>2. ~parseRequest(Seen) => consumed = <<>> /\ replied = <<>>
    BY <1>23 DEF Inv, Answered
  <2>3. replied \o <<>> = replied /\ consumed \o <<>> = consumed
    BY <1>5, ConcatEmptySeq
  <2>4. CASE parseRequest(Seen)
    <3>1. parseRequest(Seen')
      <4>1. Seen \in Seq(Symbols) /\ Taken \in Seq(Symbols)
        BY <1>6, <1>18
      <4>2. parseRequest(Seen \o Taken)
        BY <2>4, <4>1, ParseKept
      <4> QED BY <1>18, <4>2
    <3>2. Sent(a.reply) = <<>>
      BY <2>1, <2>4 DEF Sent
    <3> QED BY <1>4, <1>9, <1>23, <2>1, <2>3, <2>4, <3>1, <3>2 DEF Answered, Ended
  <2>5. CASE ~parseRequest(Seen) /\ ~Reads
    <3>1. a.reply = <<>> /\ Gone(b, a) = <<>> /\ Seen' = Seen /\ arrived' = arrived
      BY <1>6, <1>8, <1>21, <2>5
    <3>2. Sent(a.reply) = <<>>
      BY <3>1 DEF Sent
    <3>3. Answered'
      BY <1>4, <1>23, <2>2, <2>3, <2>5, <3>1, <3>2 DEF Answered
    <3>4. Ended'
      BY <1>9, <1>23, <2>5, <3>1 DEF Inv, Ended
    <3> QED BY <3>3, <3>4
  <2>6. CASE ~parseRequest(Seen) /\ Reads
    <3>1. conn.state = "kConnected" /\ consumed = <<>> /\ replied = <<>>
      BY <1>21, <2>2, <2>6 DEF Inv, Ended
    <3>2. Seen' = Readable(b)
      <4>1. <<>> \o Readable(input) = Readable(input)
        BY <1>5, ConcatEmptySeq
      <4> QED BY <1>7, <1>18, <3>1, <4>1 DEF Seen
    <3>3. CASE parseRequest(Readable(b))
      <4>1. a.reply = Response /\ a.react = "sendAndShutdown"
        BY <1>8, <1>23, <2>6, <3>3
      <4>2. <<>> \o Response = Response
        BY ResponseType, ConcatEmptySeq
      <4>3. replied' = Response
        BY <1>4, <3>1, <4>1, <4>2 DEF Sent
      <4> QED BY <1>4, <1>9, <1>23, <2>6, <3>2, <3>3, <4>1, <4>3 DEF Answered, Ended
    <3>4. CASE ~parseRequest(Readable(b))
      <4>1. a.reply = <<>> /\ a.react = "none" /\ Gone(b, a) = <<>>
        BY <1>8, <1>23, <3>4
      <4>2. conn'.state = "kConnected"
        BY <1>9, <1>21, <2>6, <3>1, <4>1
      <4>3. consumed' = <<>> /\ replied' = <<>>
        BY <1>4, <2>3, <3>1, <4>1 DEF Sent
      <4> QED BY <1>4, <1>23, <3>2, <3>4, <4>2, <4>3 DEF Answered, Ended
    <3> QED BY <3>3, <3>4
  <2> QED BY <2>4, <2>5, <2>6
<1> QED BY <1>5, <1>15, <1>16, <1>19, <1>20, <1>22, <1>23 DEF Inv

LEMMA NextInv == ASSUME Inv, [Next]_vars PROVE Inv'
<1>1. CASE Send
  BY <1>1, SendInv
<1>2. CASE Close \/ Reset
  BY <1>2, PeerInv
<1>3. CASE Handle
  BY <1>3, HandleInv
<1>4. CASE CallDestroyed
  BY <1>4, DestroyedInv
<1>5. CASE UNCHANGED vars
  <2>1. UNCHANGED <<app, conn, arrived, input, output, sent, consumed, replied, received>>
    BY <1>5 DEF vars, ghosts
  <2>2. UNCHANGED <<app, arrived, input, output, ghosts>> /\ conn' = conn
    BY <1>5 DEF vars
  <2> QED BY <2>2, ConnInv DEF Inv, TypeOK, Serving
<1> QED BY <1>1, <1>2, <1>3, <1>4, <1>5 DEF Next, ServerStep

(* The invariant holds at all times.                                        *)
THEOREM Invariance == Spec => []Inv
<1>1. Init => Inv
  BY InitInv
<1>2. Inv /\ [Next]_vars => Inv'
  BY NextInv
<1> QED BY <1>1, <1>2, PTL DEF Spec

(* All variables keep their types: the buffers hold only bytes the client   *)
(* sent, pieces of answers and blanks, whatever the methods of Buffer do.   *)
THEOREM TypeCorrect == Spec => []TypeOK
<1>1. Inv => TypeOK
  BY DEF Inv
<1> QED BY <1>1, Invariance, PTL

(* No byte is lost, repeated or reordered on its way through the buffers,   *)
(* however readv, write, grow and move cut and shift it, and the count that *)
(* the connection acts on is the size of the buffer.                        *)
THEOREM NoByteIsLost == Spec => []BytesPreserved
<1>1. Inv => BytesPreserved
  BY DEF Inv
<1> QED BY <1>1, Invariance, PTL

(* The echo returns what it read, and the HTTP server answers the first     *)
(* complete request once, in however many pieces it arrives and whatever    *)
(* follows it.                                                              *)
THEOREM AnswersAreComplete == Spec => []AnswersAreRight
<1>1. Inv => AnswersAreRight
  <2> SUFFICES ASSUME Inv PROVE AnswersAreRight
    OBVIOUS
  <2>1. CASE app = "echo"
    <3>1. consumed \in Seq(Symbols) /\ Readable(input) = <<>> /\ replied = consumed
      BY <2>1 DEF Inv, Held, Answered
    <3>2. consumed \o <<>> = consumed
      BY <3>1, ConcatEmptySeq
    <3> QED BY <2>1, <3>1, <3>2 DEF AnswersAreRight, Answer
  <2>2. CASE app = "http"
    BY <2>2 DEF Inv, Answered, Seen, AnswersAreRight, Answer
  <2> QED BY <2>1, <2>2 DEF Inv, TypeOK
<1> QED BY <1>1, Invariance, PTL
=============================================================================
