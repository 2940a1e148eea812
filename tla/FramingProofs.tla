--------------------------- MODULE FramingProofs ---------------------------
(***************************************************************************)
(* Proofs about Framing: the types, what socket_loop prints of every chunk *)
(* and what do_recv makes of the chunks it can deal with, for streams of   *)
(* any length cut anywhere.                                                *)
(*                                                                         *)
(* The stream is FlattenSeq of the framed messages, so its k-th byte is    *)
(* known by induction (StreamBytes): byte j of message m.  A chunk's i-th  *)
(* byte follows (ChunkByte).  From there the two halves are separate:      *)
(*   - socket_loop: Printed is the invariant of the loop over the chunk,   *)
(*     kept by every turn (PieceStep), so it holds at the end (SplitPrints)*)
(*   - do_recv: what strstr finds is computed from where a chunk begins and*)
(*     ends in its message (StartRead, WholeRead, MiddleRead, EndRead,     *)
(*     NextRead), and Outcome says what each case gives.                   *)
(***************************************************************************)
EXTENDS Framing, Induction, FiniteSetTheorems

-----------------------------------------------------------------------------
(* Numbers and sequences.                                                  *)

(* A number is its quotient and its remainder, ...                         *)
LEMMA Division ==
  ASSUME NEW p \in Nat, NEW L \in Nat \ {0}
  PROVE  /\ p \div L \in Nat /\ p % L \in 0..L - 1
         /\ p = (p \div L) * L + (p % L)
OBVIOUS

(* How products grow.                                                      *)
LEMMA Products ==
  ASSUME NEW a \in Nat, NEW c \in Nat, NEW L \in Nat \ {0}
  PROVE  /\ (a + 1) * L = a * L + L /\ a * L \in Nat
         /\ a < c => (a + 1) * L <= c * L
         /\ a * L <= c * L <=> a <= c
<1>1. (a + 1) * L = a * L + L /\ a * L \in Nat
  OBVIOUS
<1>2. ASSUME a < c PROVE (a + 1) * L <= c * L
  <2>1. PICK d \in Nat : c = a + 1 + d
   BY <1>2
  <2>2. d * L \in Nat
   OBVIOUS
  <2>3. c * L = (a + 1) * L + d * L
   BY <2>1
  <2> QED
   BY <2>2, <2>3
<1>3. ASSUME a <= c PROVE a * L <= c * L
  BY <1>1, <1>2, <1>3
<1>4. ASSUME c < a PROVE c * L < a * L
  <2>1. PICK d \in Nat : a = c + 1 + d
   BY <1>4
  <2>2. d * L \in Nat
   OBVIOUS
  <2>3. a * L = c * L + L + d * L
   BY <2>1
  <2> QED
   BY <2>2, <2>3
<1> QED
  BY <1>1, <1>2, <1>3, <1>4

(* ... which are the only ones.                                            *)
LEMMA DivisionUnique ==
  ASSUME NEW a \in Nat, NEW L \in Nat \ {0}, NEW b \in 0..L - 1
  PROVE  (a * L + b) \div L = a /\ (a * L + b) % L = b
<1> DEFINE p == a * L + b
           q == p \div L
<1>1. p \in Nat /\ a * L \in Nat
  BY Products
<1>2. q \in Nat /\ p % L \in 0..L - 1 /\ p = q * L + (p % L)
  BY <1>1, Division
<1>3. ~(a < q) /\ ~(q < a)
  <2>1. (a + 1) * L = a * L + L /\ (q + 1) * L = q * L + L
    BY <1>2
  <2>2. a < q => (a + 1) * L <= q * L
    BY <1>2, Products
  <2>3. q < a => (q + 1) * L <= a * L
    BY <1>2, Products
  <2> HIDE DEF q
  <2> QED
    BY <1>1, <1>2, <2>1, <2>2, <2>3
<1> QED
  BY <1>1, <1>2, <1>3

(* What a concatenation has, ...                                           *)
LEMMA Concat ==
  ASSUME NEW S, NEW s \in Seq(S), NEW t \in Seq(S)
  PROVE  /\ s \o t \in Seq(S) /\ Len(s \o t) = Len(s) + Len(t)
         /\ s \o t = [i \in 1..Len(s) + Len(t) |-> (s \o t)[i]]
         /\ \A i \in 1..Len(s) : (s \o t)[i] = s[i]
         /\ \A i \in 1..Len(t) : (s \o t)[Len(s) + i] = t[i]
<1>1. s \o t \in Seq(S) /\ Len(s \o t) = Len(s) + Len(t)
  BY ConcatProperties
<1>2. \A i \in 1..Len(s) + Len(t) :
        (s \o t)[i] = IF i <= Len(s) THEN s[i] ELSE t[i - Len(s)]
  BY ConcatProperties
<1>3. Len(s) \in Nat /\ Len(t) \in Nat
  OBVIOUS
<1>4. PICK c : c = s \o t
  OBVIOUS
<1>5. c = [i \in 1..Len(s) + Len(t) |-> c[i]]
  <2>1. c \in [1..Len(c) -> S]
    BY <1>1, <1>4, LenProperties
  <2> QED
    BY <1>1, <1>4, <2>1
<1> QED
  BY <1>1, <1>2, <1>3, <1>4, <1>5

-----------------------------------------------------------------------------
(* a framed message's length, which stands in every step                  *)
L == FramedLength

(* the j-th byte of message m                                              *)
Byte(m, j) ==
  IF j = 1 THEN Bar
  ELSE IF j = 2 THEN Dash
  ELSE IF j <= BodyLength + 2 THEN (m - 1) * BodyLength + (j - 2)
  ELSE IF j = BodyLength + 3 THEN Dash
  ELSE IF j = BodyLength + 4 THEN Bar
  ELSE Nul

(* How long a framed message is.                                           *)
LEMMA Lengths ==
  ASSUME terminated \in BOOLEAN
  PROVE  /\ L \in Nat /\ L >= 5
         /\ L = IF terminated THEN BodyLength + 5 ELSE BodyLength + 4
         /\ BodyLength \in Nat \ {0} /\ Messages \in Nat \ {0}
              /\ MY_BUFSIZ \in Nat \ {0}
BY LengthsAssumption DEF L, FramedLength

(* Each kind of byte is only where it belongs.                             *)
LEMMA ByteType ==
  ASSUME terminated \in BOOLEAN, NEW m \in Nat \ {0}, NEW j \in 1..L
  PROVE  /\ Byte(m, j) \in Int
         /\ Byte(m, j) = Nul <=> j = BodyLength + 5
         /\ Byte(m, j) = Bar <=> j = 1 \/ j = BodyLength + 4
         /\ Byte(m, j) = Dash <=> j = 2 \/ j = BodyLength + 3
<1>1. (m - 1) * BodyLength \in Nat
  BY Lengths, Products
<1>2. L \in Nat /\ BodyLength \in Nat \ {0} /\ L <= BodyLength + 5
  BY Lengths
<1>3. PICK c \in Nat : c = (m - 1) * BodyLength
  BY <1>1
<1> QED
  BY <1>2, <1>3 DEF Byte, Nul, Bar, Dash

(* A framed message, byte by byte.                                         *)
LEMMA FramedBytes ==
  ASSUME terminated \in BOOLEAN, NEW m \in Nat \ {0}
  PROVE  Framed(m) = [j \in 1..L |-> Byte(m, j)]
<1>1. L \in Nat /\ BodyLength \in Nat \ {0}
        /\ L = IF terminated THEN BodyLength + 5 ELSE BodyLength + 4
  BY Lengths
<1>2. PICK c \in Nat : c = (m - 1) * BodyLength
  BY Lengths, Products
<1>3. PICK body : body = Body(m)
  OBVIOUS
<1>4. body = [i \in 1..BodyLength |-> c + i]
  BY <1>2, <1>3 DEF Body
<1>5. body \in Seq(Int) /\ Len(body) = BodyLength
  BY <1>1, <1>4
<1>6. PICK end : end = IF terminated THEN <<Nul>> ELSE <<>>
  OBVIOUS
<1>7. /\ end \in Seq(Int)
      /\ terminated => Len(end) = 1 /\ end[1] = Nul
      /\ ~terminated => Len(end) = 0
  BY <1>6 DEF Nul
<1>8. Framed(m) = ((<<Bar, Dash>> \o body) \o <<Dash, Bar>>) \o end
  BY <1>3, <1>6, Zenon DEF Framed
<1>9. PICK a : a = <<Bar, Dash>> \o body
  OBVIOUS
<1>10. /\ a \in Seq(Int) /\ Len(a) = BodyLength + 2 /\ a[1] = Bar
            /\ a[2] = Dash
       /\ \A i \in 3..BodyLength + 2 : a[i] = c + (i - 2)
  BY <1>1, <1>4, <1>5, <1>9 DEF Bar, Dash
<1>11. PICK b : b = a \o <<Dash, Bar>>
  OBVIOUS
<1>12. /\ b \in Seq(Int) /\ Len(b) = BodyLength + 4
       /\ \A i \in 1..BodyLength + 2 : b[i] = a[i]
       /\ b[BodyLength + 3] = Dash /\ b[BodyLength + 4] = Bar
  BY <1>1, <1>10, <1>11 DEF Bar, Dash
<1>13. PICK f : f = b \o end
  OBVIOUS
<1>14. /\ f \in Seq(Int) /\ Len(f) = L
       /\ \A i \in 1..BodyLength + 4 : f[i] = b[i]
       /\ terminated => f[BodyLength + 5] = Nul
  <2>1. CASE terminated
    <3>1. /\ f \in Seq(Int) /\ Len(f) = (BodyLength + 4) + 1
          /\ \A i \in 1..BodyLength + 4 : f[i] = b[i]
          /\ \A i \in 1..1 : f[(BodyLength + 4) + i] = end[i]
      <4>1. /\ f \in Seq(Int) /\ Len(f) = Len(b) + Len(end)
            /\ \A i \in 1..Len(b) : f[i] = b[i]
            /\ \A i \in 1..Len(end) : f[Len(b) + i] = end[i]
        <5>1. end \in Seq(Int) /\ b \in Seq(Int)
          BY <1>7, <1>12
        <5>2. /\ b \o end \in Seq(Int) /\ Len(b \o end) = Len(b) + Len(end)
              /\ \A i \in 1..Len(b) : (b \o end)[i] = b[i]
              /\ \A i \in 1..Len(end) : (b \o end)[Len(b) + i] = end[i]
          BY <5>1, Concat
        <5> QED
          BY <1>13, <5>2, Zenon
      <4> QED
        BY <1>7, <1>12, <2>1, <4>1, Zenon
    <3>2. f[(BodyLength + 4) + 1] = end[1]
            /\ (BodyLength + 4) + 1 = BodyLength + 5
      BY <1>1, <3>1
    <3> QED
      BY <1>1, <1>7, <2>1, <3>1, <3>2
  <2>2. CASE ~terminated
    BY <1>1, <1>7, <1>12, <1>13, <2>2, Concat
  <2> QED
    BY <2>1, <2>2
<1>15. ASSUME NEW j \in 1..L PROVE f[j] = Byte(m, j)
  <2>5. Byte(m, j) = IF j = 1 THEN Bar
          ELSE IF j = 2 THEN Dash
          ELSE IF j <= BodyLength + 2 THEN c + (j - 2)
          ELSE IF j = BodyLength + 3 THEN Dash
          ELSE IF j = BodyLength + 4 THEN Bar
          ELSE Nul
    BY <1>2, Zenon DEF Byte
  <2>1. CASE j <= 2
    <3>1. j \in 1..BodyLength + 2 /\ j \in 1..BodyLength + 4 /\ (j = 1 \/ j = 2)
      BY <1>1, <2>1
    <3>2. f[j] = b[j] /\ b[j] = a[j]
      BY <1>12, <1>14, <3>1, Zenon
    <3>3. a[1] = Bar /\ a[2] = Dash
      BY <1>10
    <3> QED
      BY <2>5, <3>1, <3>2, <3>3
  <2>2. CASE j \in 3..BodyLength + 2
    <3>4. j \in 1..BodyLength + 2 /\ j \in 1..BodyLength + 4
      BY <1>1, <2>2
    <3>1. f[j] = b[j] /\ b[j] = a[j]
      BY <1>12, <1>14, <3>4, Zenon
    <3>2. a[j] = c + (j - 2)
      BY <1>10, <2>2
    <3>3. j # 1 /\ j # 2 /\ j <= BodyLength + 2
      BY <1>1, <2>2
    <3> QED
      BY <2>5, <3>1, <3>2, <3>3
  <2>3. CASE j \in BodyLength + 3..BodyLength + 4
    BY <2>3, <1>1, <1>12, <1>14, <2>5
  <2>4. CASE j = BodyLength + 5
    BY <2>4, <1>1, <1>14, <2>5
  <2> QED
    BY <1>1, <2>1, <2>2, <2>3, <2>4
<1>16. f = [j \in 1..L |-> f[j]]
  BY <1>1, <1>14
<1> QED
  BY <1>8, <1>9, <1>11, <1>13, <1>15, <1>16

(* The stream, byte by byte.                                               *)
LEMMA StreamBytes ==
  ASSUME terminated \in BOOLEAN
  PROVE  /\ Stream \in Seq(Int) /\ Len(Stream) = Messages * L
         /\ \A m \in 1..Messages, j \in 1..L :
              Stream[(m - 1) * L + j] = Byte(m, j)
<1> DEFINE At(k) == Byte(((k - 1) \div L) + 1, ((k - 1) % L) + 1)
           f == [m \in 1..Messages |-> [k \in 1..m * L |-> At(k)]]
           seqs == [m \in 1..Messages |-> Framed(m)]
<1>1. L \in Nat \ {0} /\ Messages \in Nat \ {0}
  BY Lengths
<1>2. ASSUME NEW m \in Nat \ {0}, NEW j \in 1..L
      PROVE  At((m - 1) * L + j) = Byte(m, j)
  <2>1. m - 1 \in Nat /\ j - 1 \in 0..L - 1 /\ (m - 1) * L \in Nat
    BY <1>1, Products
  <2>2. ((m - 1) * L + (j - 1)) \div L = m - 1
          /\ ((m - 1) * L + (j - 1)) % L = j - 1
    BY <1>1, <2>1, DivisionUnique
  <2>3. ((m - 1) * L + j) - 1 = (m - 1) * L + (j - 1)
    BY <2>1
  <2> QED
    BY <1>1, <2>2, <2>3
<1>3. ASSUME NEW m \in Nat \ {0}
      PROVE  Framed(m) = [j \in 1..L |-> At((m - 1) * L + j)]
  <2> HIDE DEF At
  <2> QED
    BY <1>2, FramedBytes
<1> HIDE DEF At
<1>12. ASSUME NEW k \in Nat \ {0} PROVE At(k) \in Int
  <2>1. (k - 1) \div L \in Nat /\ (k - 1) % L \in 0..L - 1
    <3>1. k - 1 \in Nat
      OBVIOUS
    <3> QED
      BY <1>1, <3>1, Division
  <2> QED
    BY <1>1, <2>1, ByteType DEF At
<1>4. f[1] = seqs[1]
  <2>1. 1 * L = L /\ \A j \in 1..L : (1 - 1) * L + j = j
    BY <1>1
  <2> QED
    BY <1>1, <1>3, <2>1
<1>5. ASSUME NEW m \in 2..Messages PROVE f[m] = f[m - 1] \o seqs[m]
  <2>1. m \in 1..Messages /\ m - 1 \in 1..Messages /\ m \in Nat \ {0}
    BY <1>1
  <2>2. PICK n \in Nat : n = (m - 1) * L
    BY <1>1, Products
  <2>3. m * L = n + L
    BY <1>1, <2>2
  <2>4. f[m] = [k \in 1..n + L |-> At(k)] /\ f[m - 1] = [k \in 1..n |-> At(k)]
    BY <2>1, <2>2, <2>3
  <2>5. seqs[m] = [j \in 1..L |-> At(n + j)]
    BY <1>3, <2>1, <2>2
  <2>6. PICK g, h : g = f[m - 1] /\ h = seqs[m]
    OBVIOUS
  <2>7. Len(g) = n /\ Len(h) = L
    BY <1>1, <2>4, <2>5, <2>6
  <2>8. g \o h = f[m]
    <3>1. g \in Seq(Int) /\ h \in Seq(Int)
      <4>1. \A k \in 1..n : At(k) \in Int
        BY <1>12, <2>2
      <4>2. h = Framed(m)
        BY <2>1, <2>6
      <4>3. h = [j \in 1..L |-> Byte(m, j)]
        BY <2>1, <4>2, FramedBytes
      <4>4. \A j \in 1..L : Byte(m, j) \in Int
        BY <1>1, <2>1, ByteType
      <4>5. h \in Seq(Int)
        BY <1>1, <4>3, <4>4
      <4> QED
        BY <2>4, <2>6, <4>1, <4>5
    <3>2. /\ g \o h = [k \in 1..n + L |-> (g \o h)[k]]
          /\ \A k \in 1..n : (g \o h)[k] = g[k]
          /\ \A k \in 1..L : (g \o h)[n + k] = h[k]
      <4>1. /\ g \o h = [k \in 1..Len(g) + Len(h) |-> (g \o h)[k]]
            /\ \A k \in 1..Len(g) : (g \o h)[k] = g[k]
            /\ \A k \in 1..Len(h) : (g \o h)[Len(g) + k] = h[k]
        BY <3>1, Concat
      <4> QED
        BY <2>7, <4>1, Zenon
    <3>3. ASSUME NEW k \in 1..n + L PROVE (g \o h)[k] = At(k)
      <4>1. CASE k \in 1..n
        <5>1. g[k] = At(k)
          BY <2>4, <2>6, <4>1
        <5> QED
          BY <3>2, <4>1, <5>1
      <4>2. CASE k \notin 1..n
        <5>1. PICK i \in 1..L : k = n + i
          <6>1. k - n \in 1..L /\ k = n + (k - n)
            BY <1>1, <4>2
          <6> QED
            BY <6>1
        <5>2. h[i] = At(n + i)
          BY <2>5, <2>6, <5>1
        <5> QED
          BY <3>2, <5>1, <5>2
      <4> QED
        BY <4>1, <4>2
    <3> QED
      BY <2>4, <3>2, <3>3
  <2> QED
    BY <2>6, <2>8
<1>6. PutTogether(f, seqs, Messages)
  <2>1. f = [m \in 1..Messages |-> f[m]] /\ Len(seqs) = Messages
    BY <1>1
  <2> QED
    BY <1>1, <1>4, <1>5, <2>1 DEF PutTogether
<1>7. Stream = f[Messages]
  <2> HIDE DEF f
  <2> QED
    BY <1>6, Flattened DEF Stream
<1>8. Stream = [k \in 1..Messages * L |-> At(k)]
  BY <1>1, <1>7
<1>9. Messages * L \in Nat
  BY <1>1, Products
<1>10. ASSUME NEW m \in 1..Messages, NEW j \in 1..L
       PROVE  (m - 1) * L + j \in 1..Messages * L
  <2>1. (m - 1) * L + L = m * L /\ (m - 1) * L \in Nat /\ m * L <= Messages * L
    BY <1>1, Products
  <2> QED
    BY <1>1, <1>9, <2>1
<1>11. \A m \in 1..Messages, j \in 1..L : Stream[(m - 1) * L + j] = Byte(m, j)
  BY <1>2, <1>8, <1>10
<1> QED
  BY <1>8, <1>9, <1>11, <1>12

(* Parts of sequences, strstr, C strings.                                  *)

(* What CHOOSE gives where the code takes the first.                       *)
LEMMA LeastIs ==
  ASSUME NEW T, T \subseteq Int, NEW r \in T, \A i \in T : r <= i
  PROVE  (CHOOSE i \in T : \A j \in T : i <= j) = r
<1>1. PICK k : k = CHOOSE i \in T : \A j \in T : i <= j
  OBVIOUS
<1>2. k \in T /\ \A j \in T : k <= j
  BY <1>1, Zenon
<1>3. k <= r /\ r <= k
  BY <1>2
<1> QED
  BY <1>1, <1>2, <1>3

(* Parts of a sequence.                                                    *)
LEMMA Part ==
  ASSUME NEW S, NEW s \in Seq(S),
         NEW a \in 1..Len(s) + 1, NEW b \in a - 1..Len(s)
  PROVE  /\ SubSeq(s, a, b) \in Seq(S) /\ Len(SubSeq(s, a, b)) = b - a + 1
         /\ \A i \in 1..b - a + 1 : SubSeq(s, a, b)[i] = s[a + i - 1]
<1>1. a \in Int /\ b \in Int /\ Len(s) \in Nat
  OBVIOUS
<1>2. \A i \in a..b : s[i] \in S
  BY <1>1, ElementOfSeq
<1>3. /\ SubSeq(s, a, b) \in Seq(S)
      /\ Len(SubSeq(s, a, b)) = IF a <= b THEN b - a + 1 ELSE 0
      /\ \A i \in 1..b - a + 1 : SubSeq(s, a, b)[i] = s[a + i - 1]
  BY <1>1, <1>2, SubSeqProperties
<1> QED
  BY <1>1, <1>3

(* A part of a part is a part.                                             *)
LEMMA PartOfPart ==
  ASSUME NEW S, NEW s \in Seq(S),
         NEW a \in 1..Len(s) + 1, NEW b \in a - 1..Len(s),
         NEW c \in 1..b - a + 2, NEW d \in c - 1..b - a + 1
  PROVE  SubSeq(SubSeq(s, a, b), c, d) = SubSeq(s, a + c - 1, a + d - 1)
<1> DEFINE t == SubSeq(s, a, b)
           u == SubSeq(t, c, d)
           v == SubSeq(s, a + c - 1, a + d - 1)
<1>1. a \in Int /\ b \in Int /\ c \in Int /\ d \in Int /\ Len(s) \in Nat
  OBVIOUS
<1>2. /\ t \in Seq(S) /\ Len(t) = b - a + 1
      /\ \A i \in 1..b - a + 1 : t[i] = s[a + i - 1]
  BY Part
<1> HIDE DEF t
<1>3. /\ u \in Seq(S) /\ Len(u) = d - c + 1
      /\ \A i \in 1..d - c + 1 : u[i] = t[c + i - 1]
  <2>1. c \in 1..Len(t) + 1 /\ d \in c - 1..Len(t)
    BY <1>1, <1>2
  <2> QED
    BY <1>2, <2>1, Part
<1>4. /\ v \in Seq(S) /\ Len(v) = d - c + 1
      /\ \A i \in 1..d - c + 1 : v[i] = s[a + c + i - 2]
  <2>1. a + c - 1 \in 1..Len(s) + 1 /\ a + d - 1 \in (a + c - 1) - 1..Len(s)
    BY <1>1
  <2>2. /\ v \in Seq(S) /\ Len(v) = (a + d - 1) - (a + c - 1) + 1
        /\ \A i \in 1..(a + d - 1) - (a + c - 1) + 1 :
             v[i] = s[(a + c - 1) + i - 1]
    BY <2>1, Part
  <2>3. (a + d - 1) - (a + c - 1) + 1 = d - c + 1
          /\ \A i \in 1..d-c+1 : (a + c - 1) + i - 1 = a + c + i - 2
    BY <1>1
  <2> QED
    BY <2>2, <2>3
<1> HIDE DEF u, v
<1>5. ASSUME NEW i \in 1..d - c + 1 PROVE u[i] = v[i]
  <2>1. c + i - 1 \in 1..b - a + 1 /\ a + (c + i - 1) - 1 = a + c + i - 2
    BY <1>1
  <2> QED
    BY <1>2, <1>3, <1>4, <2>1
<1>6. u = v
  BY <1>3, <1>4, <1>5, SeqEqual
<1> QED
  BY <1>6 DEF u, v, t

(* strstr and the end of a C string                                        *)
LEMMA FirstNul ==
  ASSUME NEW s \in Seq(Int), NEW r \in 1..Len(s), s[r] = Nul,
         \A i \in 1..r - 1 : s[i] # Nul
  PROVE  CString(s) = Take(s, r - 1)
<1> DEFINE nuls == {i \in 1..Len(s) : s[i] = Nul}
           least == CHOOSE i \in nuls : \A j \in nuls : i <= j
<1>1. r \in nuls /\ \A i \in nuls : r <= i
  OBVIOUS
<1>2. least = r
  <2>1. nuls \subseteq Int
    OBVIOUS
  <2> HIDE DEF nuls
  <2> QED
    BY <1>1, <2>1, LeastIs
<1>3. nuls # {}
  BY <1>1
<1> HIDE DEF least
<1> QED
  BY <1>2, <1>3 DEF CString, least

(* ... or with the bytes.                                                  *)
LEMMA NoNul ==
  ASSUME NEW s, \A i \in 1..Len(s) : s[i] # Nul
  PROVE  CString(s) = s
BY DEF CString

(* It is no longer than them.                                              *)
LEMMA CStringType ==
  ASSUME NEW s \in Seq(Int)
  PROVE  CString(s) \in Seq(Int) /\ Len(CString(s)) <= Len(s)
<1>1. CASE \A i \in 1..Len(s) : s[i] # Nul
  BY <1>1, NoNul
<1>2. CASE \E i \in 1..Len(s) : s[i] = Nul
  <2> DEFINE nuls == {i \in 1..Len(s) : s[i] = Nul}
  <2>1. PICK r \in nuls : \A i \in nuls : r <= i
    <3>1. nuls \subseteq Nat /\ nuls # {}
      BY <1>2
    <3> QED
      BY <3>1, LeastNumber
  <2>2. CString(s) = Take(s, r - 1)
    BY <2>1, FirstNul
  <2>3. 1 \in 1..Len(s) + 1 /\ r - 1 \in 1 - 1..Len(s)
    BY <2>1
  <2>4. SubSeq(s, 1, r - 1) \in Seq(Int)
          /\ Len(SubSeq(s, 1, r - 1)) = (r - 1) - 1 + 1
    BY <2>3, Part
  <2> QED
    BY <2>1, <2>2, <2>4 DEF Take
<1> QED
  BY <1>1, <1>2

(* the first a b in s begins at r                                          *)
FirstAt(s, a, b, r) ==
  /\ r \in 1..Len(s) - 1 /\ s[r] = a /\ s[r + 1] = b
  /\ \A i \in 1..Len(s) - 1 : s[i] = a /\ s[i + 1] = b => r <= i

(* strstr gives the first place, ...                                       *)
LEMMA StrstrIs ==
  ASSUME NEW s \in Seq(Int), NEW a, NEW b, NEW r, FirstAt(s, a, b, r)
  PROVE  strstr(s, a, b) = r - 1
<1> DEFINE hits == {i \in 1..Len(s) - 1 : s[i] = a /\ s[i + 1] = b}
           least == CHOOSE i \in hits : \A j \in hits : i <= j
<1>1. r \in hits /\ \A i \in hits : r <= i
  BY DEF FirstAt
<1>2. least = r
  <2>1. hits \subseteq Int
    OBVIOUS
  <2> HIDE DEF hits
  <2> QED
    BY <1>1, <2>1, LeastIs
<1>3. hits # {}
  BY <1>1
<1> HIDE DEF least
<1> QED
  BY <1>2, <1>3 DEF strstr, least

(* ... or none, ...                                                        *)
LEMMA StrstrNone ==
  ASSUME NEW s, NEW a, NEW b,
         \A i \in 1..Len(s) - 1 : ~(s[i] = a /\ s[i + 1] = b)
  PROVE  strstr(s, a, b) = None
BY DEF strstr

(* ... and no other.                                                       *)
LEMMA StrstrType ==
  ASSUME NEW s \in Seq(Int), NEW a, NEW b
  PROVE  \/ strstr(s, a, b) = None
         \/ strstr(s, a, b) \in 0..Len(s) - 2
<1> DEFINE hits == {i \in 1..Len(s) - 1 : s[i] = a /\ s[i + 1] = b}
<1>1. CASE hits = {}
  BY <1>1 DEF strstr
<1>2. CASE hits # {}
  <2>1. PICK r \in hits : \A i \in hits : r <= i
    <3>1. hits \subseteq Nat
      OBVIOUS
    <3> QED
      BY <1>2, <3>1, LeastNumber
  <2>2. strstr(s, a, b) = r - 1
    <3>1. FirstAt(s, a, b, r)
      BY <2>1 DEF FirstAt
    <3> QED
      BY <3>1, StrstrIs
  <2> QED
    BY <2>1, <2>2
<1> QED
  BY <1>1, <1>2

-----------------------------------------------------------------------------
(* socket_loop.                                                            *)

Pieces == Seq([at : Nat, text : Seq(Int)])
Loops == [p_str_start : Nat, printed : Pieces]

(* the loop before its i-th turn                                           *)
Loop(buf, loop) ==
  /\ loop \in [0..Len(buf) -> Loops]
  /\ loop[0] = [p_str_start |-> 0, printed |-> <<>>]
  /\ \A i \in 1..Len(buf) : loop[i] = Turn(buf, i, loop[i - 1])

(* What Drop gives, also of too few bytes.                                 *)
LEMMA DropType ==
  ASSUME NEW s \in Seq(Int), NEW p \in Nat
  PROVE  /\ Drop(s, p) \in Seq(Int)
         /\ Len(Drop(s, p)) = IF p <= Len(s) THEN Len(s) - p ELSE 0
<1>1. \A i \in p + 1..Len(s) : s[i] \in Int
  BY ElementOfSeq
<1>2. p + 1 \in Int /\ Len(s) \in Int
  OBVIOUS
<1>3. /\ SubSeq(s, p + 1, Len(s)) \in Seq(Int)
      /\ Len(SubSeq(s, p + 1, Len(s)))
           = IF p + 1 <= Len(s) THEN Len(s) - (p + 1) + 1 ELSE 0
  BY <1>1, <1>2, SubSeqProperties
<1> QED
  BY <1>2, <1>3 DEF Drop

(* The loop keeps its variables in their types.                            *)
LEMMA TurnType ==
  ASSUME NEW buf \in Seq(Int), NEW i \in 1..Len(buf), NEW loop \in Loops
  PROVE  Turn(buf, i, loop) \in Loops
<1>1. CASE buf[i] # Nul
  BY <1>1 DEF Turn
<1>2. CASE buf[i] = Nul
  <2>1. PICK p \in Nat : p = loop.p_str_start
    BY DEF Loops
  <2>2. PICK text \in Seq(Int) : text = CString(Drop(buf, p))
    BY DropType, CStringType
  <2>3. [at |-> p, text |-> text] \in [at : Nat, text : Seq(Int)]
    OBVIOUS
  <2>4. Append(loop.printed, [at |-> p, text |-> text]) \in Pieces
    BY <2>3, AppendProperties DEF Loops, Pieces
  <2>5. p + i \in Nat
    OBVIOUS
  <2> QED
    BY <1>2, <2>1, <2>2, <2>4, <2>5 DEF Turn, Loops
<1> QED
  BY <1>1, <1>2

(* Split is what its loop has printed at the end.                          *)
LEMMA SplitUnfolds ==
  ASSUME NEW buf \in Seq(Int)
  PROVE  \E loop : Loop(buf, loop) /\ Split(buf) = loop[Len(buf)].printed
<1> DEFINE start == [p_str_start |-> 0, printed |-> <<>>]
           rhs(g) == [i \in 0..Len(buf) |->
                        IF i = 0 THEN start ELSE Turn(buf, i, g[i - 1])]
           step == [i \in 1..Len(buf) |-> [v \in Loops |-> Turn(buf, i, v)]]
<1>1. start \in Loops /\ Len(buf) \in Nat
  BY DEF Loops, Pieces
<1>2. step \in [1..Len(buf) -> [Loops -> Loops]]
  BY TurnType
<1>3. PICK f \in [0..Len(buf) -> Loops] : Unfolds(f, Len(buf), start, step)
  <2> HIDE DEF step, start
  <2> QED
    BY <1>1, <1>2, Recursion
<1>4. ASSUME NEW i \in 1..Len(buf) PROVE f[i] = Turn(buf, i, f[i - 1])
  <2>1. f[i] = step[i][f[i - 1]] /\ f[i - 1] \in Loops
    <3> HIDE DEF step
    <3> QED
      BY <1>1, <1>3 DEF Unfolds
  <2> QED
    BY <2>1
<1>5. f = rhs(f)
  <2> HIDE DEF start
  <2>1. f[0] = start
    BY <1>3 DEF Unfolds
  <2> QED
    BY <1>1, <1>3, <1>4, <2>1
<1>6. PICK h : h = CHOOSE g : g = rhs(g)
  OBVIOUS
<1>7. h = rhs(h)
  <2> HIDE DEF rhs
  <2> QED
    BY <1>5, <1>6
<1>8. Split(buf) = h[Len(buf)].printed
  BY <1>6, Zenon DEF Split
<1>9. \A i \in 0..Len(buf) : h[i] = f[i]
  <2>1. h[0] = start
    BY <1>1, <1>7
  <2>2. \A i \in 1..Len(buf) : h[i - 1] \in Loops => h[i] = step[i][h[i - 1]]
    <3>1. SUFFICES ASSUME NEW i \in 1..Len(buf), h[i - 1] \in Loops
                   PROVE  h[i] = step[i][h[i - 1]]
      OBVIOUS
    <3>2. h[i] = Turn(buf, i, h[i - 1])
      BY <1>1, <1>7, SMTT(60)
    <3> QED
      BY <3>1, <3>2
  <2> HIDE DEF step, start
  <2>3. Follows(h, Len(buf), Loops, start, step)
    BY <2>1, <2>2 DEF Follows
  <2> QED
    BY <1>1, <1>3, <2>3, RecursionIsUnique
<1>10. Split(buf) = f[Len(buf)].printed
  BY <1>1, <1>8, <1>9
<1>11. Loop(buf, f)
  <2>1. f[0] = start
    BY <1>3 DEF Unfolds
  <2> QED
    BY <1>3, <1>4, <2>1 DEF Loop
<1> QED
  BY <1>10, <1>11

(* The pieces have their types.                                            *)
LEMMA SplitType ==
  ASSUME NEW buf \in Seq(Int)
  PROVE  Split(buf) \in Pieces
<1>1. PICK loop : Loop(buf, loop) /\ Split(buf) = loop[Len(buf)].printed
  BY SplitUnfolds
<1>2. loop[Len(buf)] \in Loops
  BY <1>1 DEF Loop
<1> QED
  BY <1>1, <1>2 DEF Loops

-----------------------------------------------------------------------------
(* The stream, by message and byte.                                        *)

(* Each byte of the stream is the j-th of some message.                    *)
LEMMA Position ==
  ASSUME terminated \in BOOLEAN, NEW q \in 1..Messages * L
  PROVE  \E m \in 1..Messages, j \in 1..L : q = (m - 1) * L + j
<1>1. L \in Nat \ {0} /\ Messages \in Nat \ {0} /\ Messages * L \in Nat
  BY Lengths, Products
<1>2. PICK a \in Nat, b \in 0..L - 1 : q - 1 = a * L + b
  <2>1. q - 1 \in Nat
    BY <1>1
  <2>2. (q - 1) \div L \in Nat /\ (q - 1) % L \in 0..L - 1
        /\ q - 1 = ((q - 1) \div L) * L + ((q - 1) % L)
    BY <1>1, <2>1, Division
  <2> QED
    BY <2>2
<1>3. a * L < Messages * L
  <2>1. a * L \in Nat
    BY <1>1, Products
  <2> QED
    BY <1>1, <1>2, <2>1
<1>4. a < Messages
  <2>1. Messages <= a => Messages * L <= a * L
    BY <1>1, Products
  <2>2. a * L \in Nat
    BY <1>1, Products
  <2> QED
    BY <1>1, <1>3, <2>1, <2>2
<1>5. a + 1 \in 1..Messages /\ b + 1 \in 1..L
        /\ q = ((a + 1) - 1) * L + (b + 1)
  <2>1. a * L \in Nat /\ (a + 1) - 1 = a
    BY <1>1, Products
  <2> QED
    BY <1>1, <1>2, <1>4, <2>1
<1> QED
  BY <1>5

(* What recv may return.                                                   *)
IsChunk(from, to, chunk) ==
  /\ from \in Nat /\ to \in from + 1..Messages * L
  /\ chunk = SubSeq(Stream, from + 1, to)

(* The bytes of a chunk are those of the stream.                           *)
LEMMA ChunkBytes ==
  ASSUME terminated \in BOOLEAN, NEW from, NEW to, NEW chunk,
         IsChunk(from, to, chunk)
  PROVE  /\ chunk \in Seq(Int) /\ Len(chunk) = to - from
         /\ \A i \in 1..to - from : chunk[i] = Stream[from + i]
<1>1. Stream \in Seq(Int) /\ Len(Stream) = Messages * L /\ Messages * L \in Nat
  BY StreamBytes, Lengths, Products
<1>2. from \in Nat /\ to \in Nat /\ from < to /\ to <= Messages * L
  BY <1>1 DEF IsChunk
<1>3. from + 1 \in 1..Len(Stream) + 1 /\ to \in (from + 1) - 1..Len(Stream)
  BY <1>1, <1>2
<1>4. /\ chunk \in Seq(Int) /\ Len(chunk) = to - (from + 1) + 1
      /\ \A i \in 1..to - (from + 1) + 1 :
           chunk[i] = Stream[(from + 1) + i - 1]
  BY <1>1, <1>3, Part DEF IsChunk
<1>5. to - (from + 1) + 1 = to - from
  BY <1>2
<1>6. \A i \in 1..to - from : (from + 1) + i - 1 = from + i
  BY <1>2
<1> QED
  BY <1>4, <1>5, <1>6

-----------------------------------------------------------------------------
(* Where a chunk lies in the stream.                                       *)

(* A chunk is not empty and within the stream.                             *)
LEMMA ChunkEnds ==
  ASSUME terminated \in BOOLEAN, NEW from, NEW to, NEW chunk,
         IsChunk(from, to, chunk)
  PROVE  from \in Nat /\ to \in Nat /\ from < to /\ to <= Messages * L
<1>1. Messages * L \in Nat
  BY Lengths, Products
<1>2. from \in Nat /\ to \in from + 1..Messages * L
  BY DEF IsChunk
<1> QED
  BY <1>1, <1>2

(* The i-th byte of a chunk, c messages after the one it began in.         *)
LEMMA ChunkByte ==
  ASSUME terminated \in BOOLEAN, NEW from, NEW to, NEW chunk,
         IsChunk(from, to, chunk),
         NEW M \in Nat, NEW o \in 0..L - 1, from = M * L + o,
         NEW c \in Nat, NEW i \in 1..to - from,
         c * L < o + i, o + i <= c * L + L
  PROVE  /\ M + c + 1 \in 1..Messages /\ o + i - c * L \in 1..L
         /\ chunk[i] = Byte(M + c + 1, o + i - c * L)
<1>1. L \in Nat \ {0} /\ Messages \in Nat \ {0} /\ Messages * L \in Nat
  BY Lengths, Products
<1>2. PICK cL \in Nat : cL = c * L
  BY <1>1, Products
<1>3. PICK ML \in Nat : ML = M * L
  BY <1>1, Products
<1>4. (M + c) * L = ML + cL
  BY <1>1, <1>2, <1>3
<1>5. PICK j \in 1..L : j = o + i - cL
  BY <1>1, <1>2
<1>6. (M + c) * L + j = from + i /\ from + i <= Messages * L
  <2>1. from \in Nat /\ to \in Nat /\ to <= Messages * L
    BY <1>1 DEF IsChunk
  <2> QED
    BY <1>1, <1>3, <1>4, <1>5, <2>1
<1>7. M + c < Messages
  <2>1. Messages <= M + c => Messages * L <= (M + c) * L
    BY <1>1, Products
  <2> QED
    BY <1>1, <1>4, <1>6, <2>1
<1>8. PICK m \in 1..Messages : m = M + c + 1
  BY <1>1, <1>7
<1>9. (m - 1) * L + j = from + i
  <2>1. m - 1 = M + c
    BY <1>8
  <2> QED
    BY <1>6, <2>1
<1>10. Stream[from + i] = Byte(m, j)
  <2>1. Stream[(m - 1) * L + j] = Byte(m, j)
    BY StreamBytes
  <2> QED
    BY <1>9, <2>1
<1>11. chunk[i] = Stream[from + i]
  BY ChunkBytes
<1> QED
  BY <1>2, <1>5, <1>8, <1>10, <1>11

(* Where piece k begins, and whether it is printed as it was sent.         *)
Begin(from, M, k) == IF k = 1 THEN from ELSE (M + k - 1) * L
RightPiece(from, M, k, piece) ==
  piece = [at |-> Begin(from, M, k) - from,
           text |-> SubSeq(Stream, Begin(from, M, k) + 1, (M + k) * L - 1)]
    <=> k <= 2

(* What the loop has printed, and where p_str_start is, after i bytes.     *)
Printed(from, M, o, i, v) ==
  LET c == Len(v.printed) IN
    /\ ~terminated => c = 0
    /\ terminated => c * L <= o + i /\ o + i < c * L + L
    /\ c = 0 => v.p_str_start = 0
    /\ c = 1 => v.p_str_start = L - o
    /\ c >= 2 => v.p_str_start > c * L - o
    /\ \A k \in 1..c : RightPiece(from, M, k, v.printed[k])

(* the text of a piece that p_str_start points to the beginning of         *)
LEMMA PieceText ==
  ASSUME terminated \in BOOLEAN, NEW from, NEW to, NEW chunk,
         IsChunk(from, to, chunk),
         NEW p \in Nat, NEW i \in 1..to - from, p < i, chunk[i] = Nul,
         \A h \in p + 1..i - 1 : chunk[h] # Nul
  PROVE  CString(Drop(chunk, p)) = SubSeq(Stream, from + p + 1, from + i - 1)
<1>1. /\ chunk \in Seq(Int) /\ Len(chunk) = to - from
      /\ from \in Nat /\ to \in Nat /\ from < to
  BY ChunkBytes, ChunkEnds
<1>2. PICK s : s = Drop(chunk, p)
  OBVIOUS
<1>3. /\ s \in Seq(Int) /\ Len(s) = to - from - p
      /\ \A h \in 1..to - from - p : s[h] = chunk[p + h]
  <2>1. p + 1 \in 1..Len(chunk) + 1 /\ Len(chunk) \in (p + 1) - 1..Len(chunk)
    BY <1>1
  <2>2. /\ s \in Seq(Int) /\ Len(s) = Len(chunk) - (p + 1) + 1
        /\ \A h \in 1..Len(chunk) - (p + 1) + 1 : s[h] = chunk[(p + 1) + h - 1]
    BY <1>1, <1>2, <2>1, Part DEF Drop
  <2>3. Len(chunk) - (p + 1) + 1 = to - from - p
    BY <1>1
  <2>4. \A h \in 1..to - from - p : (p + 1) + h - 1 = p + h
    OBVIOUS
  <2> QED
    BY <2>2, <2>3, <2>4
<1>4. PICK r \in 1..Len(s) : r = i - p
  BY <1>1, <1>3
<1>5. s[r] = Nul /\ \A h \in 1..r - 1 : s[h] # Nul
  <2>1. p + r = i
    BY <1>1, <1>4
  <2>2. s[r] = chunk[p + r]
    BY <1>1, <1>3
  <2>3. ASSUME NEW h \in 1..r - 1 PROVE s[h] # Nul
    <3>1. h \in 1..to - from - p /\ p + h \in p + 1..i - 1
      BY <1>1, <1>3, <1>4
    <3> QED
      BY <1>3, <3>1
  <2> QED
    BY <2>1, <2>2, <2>3
<1>6. CString(s) = Take(s, r - 1)
  BY <1>3, <1>5, FirstNul
<1>7. Take(s, r - 1) = SubSeq(chunk, p + 1, i - 1)
  <2>1. /\ p + 1 \in 1..Len(chunk) + 1
             /\ Len(chunk) \in (p + 1) - 1..Len(chunk)
        /\ 1 \in 1..Len(chunk) - (p + 1) + 2
        /\ r - 1 \in 1 - 1..Len(chunk) - (p + 1) + 1
    BY <1>1, <1>4
  <2>2. SubSeq(SubSeq(chunk, p + 1, Len(chunk)), 1, r - 1)
          = SubSeq(chunk, (p + 1) + 1 - 1, (p + 1) + (r - 1) - 1)
    BY <1>1, <2>1, PartOfPart
  <2>3. (p + 1) + 1 - 1 = p + 1 /\ (p + 1) + (r - 1) - 1 = i - 1
    BY <1>1, <1>4
  <2> QED
    BY <1>2, <2>2, <2>3 DEF Take, Drop
<1>8. SubSeq(chunk, p + 1, i - 1) = SubSeq(Stream, from + p + 1, from + i - 1)
  <2>1. Stream \in Seq(Int) /\ Len(Stream) = Messages * L
          /\ Messages * L \in Nat
    BY StreamBytes, Lengths, Products
  <2>2. PICK a \in 1..Len(Stream) + 1 : a = from + 1
               /\ to \in a - 1..Len(Stream)
    BY <1>1, <2>1, ChunkEnds
  <2>3. PICK c \in 1..to - a + 2 : c = p + 1 /\ i - 1 \in c - 1..to - a + 1
    BY <1>1, <2>2
  <2>4. SubSeq(SubSeq(Stream, a, to), c, i - 1)
          = SubSeq(Stream, a + c - 1, a + (i - 1) - 1)
    <3>1. Stream \in Seq(Int) /\ to \in a - 1..Len(Stream)
          /\ i - 1 \in c - 1..to - a + 1
      BY <2>1, <2>2, <2>3
    <3> QED
      BY <3>1, PartOfPart
  <2>5. a + c - 1 = from + p + 1 /\ a + (i - 1) - 1 = from + i - 1
    BY <1>1, <2>2, <2>3
  <2> QED
    BY <2>2, <2>3, <2>4, <2>5 DEF IsChunk
<1> QED
  BY <1>2, <1>6, <1>7, <1>8

(* One turn of the loop keeps Printed.                                     *)
LEMMA PieceStep ==
  ASSUME terminated \in BOOLEAN, NEW from, NEW to, NEW chunk,
         IsChunk(from, to, chunk),
         NEW M \in Nat, NEW o \in 0..L - 1, from = M * L + o,
         NEW i \in 1..to - from, NEW v \in Loops,
         Printed(from, M, o, i - 1, v)
  PROVE  Printed(from, M, o, i, Turn(chunk, i, v))
<1>1. L \in Nat /\ L >= 5
        /\ L = (IF terminated THEN BodyLength + 5 ELSE BodyLength + 4)
      /\ BodyLength \in Nat \ {0} /\ Messages \in Nat \ {0}
  BY Lengths
<1>2. from \in Nat /\ to \in Nat /\ from < to /\ to <= Messages * L
  BY ChunkEnds
<1>3. PICK c \in Nat : c = Len(v.printed)
  BY DEF Loops, Pieces
<1>4. PICK p \in Nat : p = v.p_str_start
  BY DEF Loops
<1>5. PICK cL \in Nat : cL = c * L
  BY <1>1, Products
<1>6. PICK ML \in Nat : ML = M * L
  BY <1>1, Products
<1>7. /\ ~terminated => c = 0
      /\ terminated => cL <= o + (i - 1) /\ o + (i - 1) < cL + L
      /\ c = 0 => p = 0
      /\ c = 1 => p = L - o
      /\ c >= 2 => p > cL - o
      /\ \A k \in 1..c : RightPiece(from, M, k, v.printed[k])
  BY <1>3, <1>4, <1>5 DEF Printed
<1>8. CASE chunk[i] # Nul
  <2>1. Turn(chunk, i, v) = v
    BY <1>8 DEF Turn
  <2>2. terminated => o + i < cL + L
    <3>1. SUFFICES ASSUME terminated, o + i = cL + L PROVE FALSE
      BY <1>1, <1>7
    <3>2. c * L < o + i /\ o + i <= c * L + L
      BY <1>1, <1>5, <3>1
    <3>3. chunk[i] = Byte(M + c + 1, o + i - c * L)
      BY <3>2, ChunkByte
    <3>4. o + i - c * L = BodyLength + 5 /\ o + i - c * L \in 1..L
      BY <1>1, <1>5, <3>1
    <3>5. Byte(M + c + 1, o + i - c * L) = Nul
      BY <3>4, ByteType
    <3> QED
      BY <1>8, <3>3, <3>5
  <2>3. terminated => cL <= o + i
    BY <1>7
  <2> QED
    BY <1>3, <1>4, <1>5, <1>7, <2>1, <2>2, <2>3 DEF Printed
<1>9. CASE chunk[i] = Nul
  <2>1. terminated
    <3>1. SUFFICES ASSUME ~terminated PROVE FALSE
      OBVIOUS
    <3>2. from + i \in 1..Messages * L
      BY <1>1, <1>2
    <3>3. PICK m \in 1..Messages, j \in 1..L : from + i = (m - 1) * L + j
      BY <3>2, Position
    <3>4. chunk[i] = Byte(m, j)
      <4>1. Stream[(m - 1) * L + j] = Byte(m, j)
        BY StreamBytes
      <4>2. chunk[i] = Stream[from + i]
        BY ChunkBytes
      <4> QED
        BY <3>3, <4>1, <4>2
    <3>5. j # BodyLength + 5 /\ m \in Nat \ {0}
      BY <1>1, <3>1
    <3> QED
      BY <1>9, <3>4, <3>5, ByteType
  <2>2. o + i = cL + L
    <3>1. c * L < o + i /\ o + i <= c * L + L
      BY <1>1, <1>5, <1>7, <2>1
    <3>2. chunk[i] = Byte(M + c + 1, o + i - c * L) /\ o + i - c * L \in 1..L
      BY <3>1, ChunkByte
    <3>3. o + i - c * L = BodyLength + 5
      BY <1>9, <3>2, ByteType
    <3> QED
      BY <1>1, <1>5, <2>1, <3>3
  <2>3. PICK text : text = CString(Drop(chunk, p))
    OBVIOUS
  <2>4. PICK piece : piece = [at |-> p, text |-> text]
    OBVIOUS
  <2>5. PICK w : w = Turn(chunk, i, v)
    OBVIOUS
  <2>6. w = [p_str_start |-> p + i, printed |-> Append(v.printed, piece)]
    BY <1>4, <1>9, <2>3, <2>4, <2>5 DEF Turn
  <2>7. /\ Len(w.printed) = c + 1
        /\ \A k \in 1..c : w.printed[k] = v.printed[k]
        /\ w.printed[c + 1] = piece
        /\ w.p_str_start = p + i
    <3>1. v.printed \in Seq([at : Nat, text : Seq(Int)])
      BY DEF Loops, Pieces
    <3> QED
      BY <1>3, <2>6, <3>1
  <2>8. (c + 1) * L = cL + L /\ (c >= 1 => cL >= L)
    <3>1. 1 * L = L /\ (1 <= c => 1 * L <= c * L)
      BY <1>1, Products
    <3> QED
      BY <1>1, <1>5, <3>1, Products
  <2>9. ASSUME NEW h \in 1..i - 1, o + h > cL PROVE chunk[h] # Nul
    <3>1. h \in 1..to - from /\ c * L < o + h /\ o + h <= c * L + L
            /\ o + h < c * L + L
      BY <1>1, <1>2, <1>5, <2>2, <2>9
    <3>2. chunk[h] = Byte(M + c + 1, o + h - c * L) /\ o + h - c * L \in 1..L
      BY <3>1, ChunkByte
    <3>3. o + h - c * L # BodyLength + 5
      BY <1>1, <1>5, <2>1, <3>1
    <3> QED
      BY <3>2, <3>3, ByteType
  <2>10. RightPiece(from, M, c + 1, piece)
    <3>1. CASE c = 0
      <4>1. cL = 0 /\ p = 0 /\ o + i = L
        BY <1>1, <1>5, <1>7, <2>2, <3>1
      <4>2. text = SubSeq(Stream, from + p + 1, from + i - 1)
        <5>1. p < i /\ \A h \in p + 1..i - 1 : h \in 1..i - 1 /\ o + h > cL
          BY <1>1, <4>1
        <5>2. \A h \in p + 1..i - 1 : chunk[h] # Nul
          BY <2>9, <5>1
        <5> QED
          BY <1>9, <2>3, <5>1, <5>2, PieceText, SMTT(60)
      <4>3. Begin(from, M, c + 1) = from
              /\ (M + (c + 1)) * L - 1 = from + i - 1
        <5>1. (M + 1) * L = ML + L
          BY <1>1, <1>6
        <5> QED
          BY <1>1, <1>2, <1>6, <3>1, <4>1, <5>1 DEF Begin
      <4>4. piece = [at |-> Begin(from, M, c + 1) - from,
                     text |-> SubSeq(Stream, Begin(from, M, c + 1) + 1,
                                     (M + (c + 1)) * L - 1)]
        <5>1. from - from = 0 /\ from + p + 1 = from + 1
          BY <1>2, <4>1
        <5> QED
          BY <2>4, <4>1, <4>2, <4>3, <5>1
      <4> QED
        BY <3>1, <4>4 DEF RightPiece
    <3>2. CASE c = 1
      <4>1. cL = L /\ p = L - o /\ o + i = L + L
        BY <1>1, <1>5, <1>7, <2>2, <3>2
      <4>2. text = SubSeq(Stream, from + p + 1, from + i - 1)
        <5>1. p < i /\ \A h \in p + 1..i - 1 : h \in 1..i - 1 /\ o + h > cL
          BY <1>1, <4>1
        <5>2. \A h \in p + 1..i - 1 : chunk[h] # Nul
          BY <2>9, <5>1
        <5> QED
          BY <1>9, <2>3, <5>1, <5>2, PieceText, SMTT(60)
      <4>3. Begin(from, M, c + 1) = from + p
              /\ (M + (c + 1)) * L - 1 = from + i - 1
        <5>1. (M + 1) * L = ML + L /\ (M + 2) * L = ML + L + L
          BY <1>1, <1>6
        <5>2. Begin(from, M, c + 1) = (M + 1) * L
                /\ (M + (c + 1)) * L = (M + 2) * L
          BY <3>2 DEF Begin
        <5> QED
          BY <1>1, <1>2, <1>6, <4>1, <5>1, <5>2
      <4>4. piece = [at |-> Begin(from, M, c + 1) - from,
                     text |-> SubSeq(Stream, Begin(from, M, c + 1) + 1,
                                     (M + (c + 1)) * L - 1)]
        <5>1. (from + p) - from = p
          BY <1>2
        <5> QED
          BY <2>4, <4>2, <4>3, <5>1
      <4> QED
        BY <3>2, <4>4 DEF RightPiece
    <3>3. CASE c >= 2
      <4>1. Begin(from, M, c + 1) - from = cL - o
        <5>1. Begin(from, M, c + 1) = (M + c) * L
          BY <3>3 DEF Begin
        <5>2. (M + c) * L = ML + cL
          BY <1>1, <1>5, <1>6
        <5> QED
          BY <1>1, <1>2, <1>6, <5>1, <5>2
      <4>2. piece.at # Begin(from, M, c + 1) - from
        BY <1>1, <1>7, <2>4, <3>3, <4>1
      <4> QED
        BY <3>3, <4>2 DEF RightPiece
    <3> QED
      BY <3>1, <3>2, <3>3
  <2>11. /\ c + 1 = 1 => p + i = L - o
         /\ c + 1 >= 2 => p + i > (c + 1) * L - o
    <3>1. CASE c = 0
      BY <1>1, <1>5, <1>7, <2>2, <3>1
    <3>2. CASE c = 1
      BY <1>1, <1>5, <1>7, <2>2, <2>8, <3>2
    <3>3. CASE c >= 2
      BY <1>1, <1>7, <2>2, <2>8, <3>3
    <3> QED
      BY <3>1, <3>2, <3>3
  <2>12. (c + 1) * L <= o + i /\ o + i < (c + 1) * L + L
    BY <1>1, <2>2, <2>8
  <2>13. \A k \in 1..c + 1 : RightPiece(from, M, k, w.printed[k])
    <3>1. \A k \in 1..c + 1 : k \in 1..c \/ k = c + 1
      OBVIOUS
    <3> QED
      BY <1>7, <2>7, <2>10, <3>1
  <2> QED
    BY <2>1, <2>5, <2>7, <2>11, <2>12, <2>13 DEF Printed
<1> QED
  BY <1>8, <1>9

(* The first two pieces are printed as they were sent, and no other.       *)
LEMMA SplitPrints ==
  ASSUME terminated \in BOOLEAN, NEW from, NEW to, NEW chunk,
         IsChunk(from, to, chunk),
         NEW M \in Nat, NEW o \in 0..L - 1, from = M * L + o
  PROVE  \A k \in 1..Len(Split(chunk)) :
           RightPiece(from, M, k, Split(chunk)[k])
<1>1. L \in Nat /\ L >= 5
  BY Lengths
<1>2. chunk \in Seq(Int) /\ Len(chunk) = to - from /\ to - from \in Nat
  BY ChunkBytes, ChunkEnds
<1>3. PICK loop : Loop(chunk, loop) /\ Split(chunk) = loop[Len(chunk)].printed
  BY <1>2, SplitUnfolds
<1> DEFINE S == {i \in Nat : i <= to - from => Printed(from, M, o, i, loop[i])}
<1>4. 0 \in S
  <2>1. loop[0] = [p_str_start |-> 0, printed |-> <<>>]
    BY <1>3 DEF Loop
  <2>2. 0 * L = 0
    BY <1>1
  <2>3. Printed(from, M, o, 0, loop[0])
    BY <1>1, <2>1, <2>2 DEF Printed
  <2> QED
    BY <2>3
<1>5. ASSUME NEW n \in Nat, n \in S PROVE n + 1 \in S
  <2>1. SUFFICES ASSUME n + 1 <= to - from
                 PROVE  Printed(from, M, o, n + 1, loop[n + 1])
    OBVIOUS
  <2>2. PICK i \in 1..to - from : i = n + 1
    BY <1>2, <2>1
  <2>3. Printed(from, M, o, i - 1, loop[i - 1])
    <3>1. n <= to - from => Printed(from, M, o, n, loop[n])
      BY <1>5
    <3>2. n <= to - from /\ i - 1 = n
      BY <1>2, <2>1, <2>2
    <3> QED
      BY <3>1, <3>2
  <2>4. loop[i - 1] \in Loops /\ loop[i] = Turn(chunk, i, loop[i - 1])
    <3>1. i \in 1..Len(chunk) /\ i - 1 \in 0..Len(chunk)
      BY <1>2
    <3>2. /\ loop \in [0..Len(chunk) -> Loops]
          /\ \A h \in 1..Len(chunk) : loop[h] = Turn(chunk, h, loop[h - 1])
      BY <1>3, Zenon DEF Loop
    <3> HIDE DEF S
    <3>3. loop[i - 1] \in Loops
      BY <3>1, <3>2
    <3>4. loop[i] = Turn(chunk, i, loop[i - 1])
      BY <3>1, <3>2, Zenon
    <3> QED
      BY <3>3, <3>4
  <2>5. Printed(from, M, o, i, loop[i])
    BY <2>3, <2>4, PieceStep
  <2> QED
    BY <2>2, <2>5
<1>6. Nat \subseteq S
  <2> HIDE DEF S
  <2> QED
    BY <1>4, <1>5, SetInduction
<1>7. Printed(from, M, o, to - from, loop[to - from])
  BY <1>2, <1>6
<1> QED
  BY <1>2, <1>3, <1>7 DEF Printed

-----------------------------------------------------------------------------
(* do_recv.                                                                *)

(* What do_recv gives.                                                     *)
Results == [parsed : Seq(Seq(Int)), pre : Seq(Int)]

(* The first n bytes, ...                                                  *)
LEMMA TakeType ==
  ASSUME NEW s \in Seq(Int), NEW n \in 0..Len(s)
  PROVE  /\ Take(s, n) \in Seq(Int) /\ Len(Take(s, n)) = n
         /\ \A i \in 1..n : Take(s, n)[i] = s[i]
<1>1. 1 \in 1..Len(s) + 1 /\ n \in 1 - 1..Len(s) /\ n - 1 + 1 = n
  OBVIOUS
<1>2. /\ SubSeq(s, 1, n) \in Seq(Int) /\ Len(SubSeq(s, 1, n)) = n - 1 + 1
      /\ \A i \in 1..n - 1 + 1 : SubSeq(s, 1, n)[i] = s[1 + i - 1]
  BY <1>1, Part
<1>3. \A i \in 1..n : 1 + i - 1 = i
  BY SMTT(60)
<1> QED
  BY <1>1, <1>2, <1>3 DEF Take

(* ... and the others.                                                     *)
LEMMA DropBytes ==
  ASSUME NEW s \in Seq(Int), NEW n \in 0..Len(s)
  PROVE  /\ Drop(s, n) \in Seq(Int) /\ Len(Drop(s, n)) = Len(s) - n
         /\ \A i \in 1..Len(s) - n : Drop(s, n)[i] = s[n + i]
<1>1. PICK a \in 1..Len(s) + 1 : a = n + 1 /\ Len(s) \in a - 1..Len(s)
  OBVIOUS
<1>2. PICK d : d = SubSeq(s, a, Len(s))
  OBVIOUS
<1>3. /\ d \in Seq(Int) /\ Len(d) = Len(s) - a + 1
      /\ \A i \in 1..Len(s) - a + 1 : d[i] = s[a + i - 1]
  BY <1>1, <1>2, Part
<1>4. Len(s) - a + 1 = Len(s) - n /\ \A i \in 1..Len(s) - n : a + i - 1 = n + i
  BY <1>1
<1> QED
  BY <1>1, <1>2, <1>3, <1>4 DEF Drop

(* what strstr finds is there                                              *)
LEMMA StrstrFinds ==
  ASSUME NEW s \in Seq(Int), NEW a, NEW b, strstr(s, a, b) # None
  PROVE  /\ strstr(s, a, b) \in 0..Len(s) - 2
         /\ s[strstr(s, a, b) + 1] = a /\ s[strstr(s, a, b) + 2] = b
<1> DEFINE T == {i \in 1..Len(s) - 1 : s[i] = a /\ s[i + 1] = b}
<1>1. T # {}
  BY DEF strstr
<1>2. PICK r \in T : \A j \in T : r <= j
  <2>1. T \subseteq Nat
    OBVIOUS
  <2> QED
    BY <1>1, <2>1, LeastNumber
<1>3. FirstAt(s, a, b, r)
  BY <1>2 DEF FirstAt
<1>4. strstr(s, a, b) = r - 1
  BY <1>3, StrstrIs
<1>5. r \in 1..Len(s) - 1 /\ Len(s) \in Nat /\ (r - 1) + 1 = r
        /\ (r - 1) + 2 = r + 1
  OBVIOUS
<1> QED
  BY <1>2, <1>4, <1>5

(* do_recv by its four cases                                               *)
ByCase(data, buff, start, end, result) ==
  /\ start # None /\ end # None /\ end < start =>
       result =
         [parsed |-> EndOf(data, buff, end)
                       \o FromStart(Drop(buff, start)).parsed,
          pre |-> FromStart(Drop(buff, start)).pre]
  /\ start # None /\ (end = None \/ start < end) => result = FromStart(buff)
  /\ start = None /\ end # None =>
       result = [parsed |-> EndOf(data, buff, end), pre |-> <<>>]
  /\ start = None /\ end = None =>
       result = [parsed |-> <<>>, pre |-> Middle(data, buff)]

(* do_recv is one of them.                                                 *)
LEMMA RecvCases ==
  ASSUME NEW data, NEW chunk, NEW buff, buff = CString(chunk),
         NEW start \in Int, start = strstr(buff, Bar, Dash),
         NEW end \in Int, end = strstr(buff, Dash, Bar),
         NEW result, result = do_recv(data, chunk)
  PROVE  ByCase(data, buff, start, end, result)
<1>1. PICK both :
        both = [parsed |-> EndOf(data, buff, end)
                             \o FromStart(Drop(buff, start)).parsed,
                pre |-> FromStart(Drop(buff, start)).pre]
  OBVIOUS
<1>2. PICK first : first = FromStart(buff)
  OBVIOUS
<1>3. PICK second : second = [parsed |-> EndOf(data, buff, end), pre |-> <<>>]
  OBVIOUS
<1>4. PICK neither : neither = [parsed |-> <<>>, pre |-> Middle(data, buff)]
  OBVIOUS
<1>5. result =
        CASE start # None /\ end # None /\ end < start -> both
          [] start # None /\ (end = None \/ start < end) -> first
          [] start = None /\ end # None -> second
          [] OTHER -> neither
  BY <1>1, <1>2, <1>3, <1>4, Zenon DEF do_recv
<1>6. /\ start # None /\ end # None /\ end < start => result = both
      /\ start # None /\ (end = None \/ start < end) => result = first
      /\ start = None /\ end # None => result = second
      /\ start = None /\ end = None => result = neither
  BY <1>5 DEF None
<1> QED
  BY <1>1, <1>2, <1>3, <1>4, <1>6, Zenon DEF ByCase

(* What is dropped does not make it longer.                                *)
LEMMA DropShorter ==
  ASSUME NEW s \in Seq(Int), NEW p \in Nat
  PROVE  Drop(s, p) \in Seq(Int) /\ Len(Drop(s, p)) <= Len(s)
<1>1. PICK t : t = Drop(s, p)
  OBVIOUS
<1>2. t \in Seq(Int) /\ Len(t) = IF p <= Len(s) THEN Len(s) - p ELSE 0
  BY <1>1, DropType
<1>3. Len(s) \in Nat
  OBVIOUS
<1> QED
  BY <1>1, <1>2, <1>3

(* What a message that begins gives.                                       *)
LEMMA FromStartType ==
  ASSUME NEW buff \in Seq(Int)
  PROVE  /\ FromStart(buff) \in Results
         /\ Len(FromStart(buff).pre) <= Len(buff)
<1>1. PICK start : start = strstr(buff, Bar, Dash)
  OBVIOUS
<1>2. PICK end : end = strstr(buff, Dash, Bar)
  OBVIOUS
<1>3. start + 2 \in Nat /\ (end # None => end \in 0..Len(buff))
  BY <1>1, <1>2, StrstrType DEF None
<1>4. FromStart(buff) =
        IF end # None
        THEN [parsed |-> <<Drop(Take(buff, end), start + 2)>>, pre |-> <<>>]
        ELSE [parsed |-> <<>>, pre |-> Drop(buff, start + 2)]
  BY <1>1, <1>2, Zenon DEF FromStart
<1>5. Drop(buff, start + 2) \in Seq(Int)
        /\ Len(Drop(buff, start + 2)) <= Len(buff)
  <2>1. PICK p \in Nat : p = start + 2
    BY <1>3
  <2>2. Drop(buff, p) \in Seq(Int) /\ Len(Drop(buff, p)) <= Len(buff)
    BY DropShorter
  <2> QED
    BY <2>1, <2>2
<1>6. end # None => Drop(Take(buff, end), start + 2) \in Seq(Int)
  BY <1>3, TakeType, DropType
<1> QED
  BY <1>4, <1>5, <1>6 DEF Results

(* What do_recv remembers fits into MY_BUFSIZ.                             *)
LEMMA RecvType ==
  ASSUME NEW data \in Seq(Int), Len(data) <= MY_BUFSIZ, MY_BUFSIZ \in Nat,
         NEW chunk \in Seq(Int), Len(chunk) <= MY_BUFSIZ
  PROVE  /\ do_recv(data, chunk) \in Results
         /\ Len(do_recv(data, chunk).pre) <= MY_BUFSIZ
<1>1. PICK buff \in Seq(Int) : buff = CString(chunk) /\ Len(buff) <= MY_BUFSIZ
  BY CStringType
<1>2. PICK start : start = strstr(buff, Bar, Dash)
  OBVIOUS
<1>3. PICK end : end = strstr(buff, Dash, Bar)
  OBVIOUS
<1>4. /\ start = None \/ start \in 0..Len(buff) - 2
      /\ end = None \/ end \in 0..Len(buff) - 2
  BY <1>2, <1>3, StrstrType
<1>5. ASSUME end # None PROVE EndOf(data, buff, end) \in Seq(Seq(Int))
  <2>1. Take(buff, end) \in Seq(Int)
    BY <1>4, <1>5, TakeType
  <2>2. data \o Take(buff, end) \in Seq(Int)
    BY <2>1, ConcatProperties
  <2> QED
    BY <2>2 DEF EndOf
<1>6. Middle(data, buff) \in Seq(Int) /\ Len(Middle(data, buff)) <= MY_BUFSIZ
  <2>1. data \o buff \in Seq(Int) /\ Len(data \o buff) = Len(data) + Len(buff)
    BY ConcatProperties
  <2> QED
    BY <2>1 DEF Middle
<1>7. PICK result : result = do_recv(data, chunk)
  OBVIOUS
<1>8. start \in Int /\ end \in Int
  BY <1>4 DEF None
<1>14. PICK rest : rest = FromStart(Drop(buff, start))
  OBVIOUS
<1>15. PICK first : first = EndOf(data, buff, end)
  OBVIOUS
<1>16. /\ start # None /\ end # None /\ end < start =>
            result = [parsed |-> first \o rest.parsed, pre |-> rest.pre]
       /\ start # None /\ (end = None \/ start < end) =>
            result = FromStart(buff)
       /\ start = None /\ end # None =>
            result = [parsed |-> first, pre |-> <<>>]
       /\ start = None /\ end = None =>
            result = [parsed |-> <<>>, pre |-> Middle(data, buff)]
  <2>1. ByCase(data, buff, start, end, result)
    BY <1>1, <1>2, <1>3, <1>7, <1>8, RecvCases
  <2> QED
    BY <1>14, <1>15, <2>1, Zenon DEF ByCase
<1>9. CASE start # None /\ end # None /\ end < start
  <2>1. start \in Nat
    BY <1>4, <1>9
  <2>2. Drop(buff, start) \in Seq(Int) /\ Len(Drop(buff, start)) <= Len(buff)
    BY <2>1, DropShorter
  <2>4. rest \in Results /\ Len(rest.pre) <= Len(Drop(buff, start))
    BY <2>2, <1>14, FromStartType
  <2>5. result = [parsed |-> first \o rest.parsed, pre |-> rest.pre]
    BY <1>9, <1>16, Zenon
  <2>6. first \o rest.parsed \in Seq(Seq(Int))
    BY <1>5, <1>9, <1>15, <2>4, ConcatProperties DEF Results
  <2>7. Len(rest.pre) <= MY_BUFSIZ
    BY <1>1, <2>2, <2>4 DEF Results
  <2> QED
    BY <1>7, <2>4, <2>5, <2>6, <2>7 DEF Results
<1>10. CASE start # None /\ (end = None \/ start < end)
  <2>1. result = FromStart(buff)
    BY <1>10, <1>16, Zenon
  <2>2. FromStart(buff) \in Results /\ Len(FromStart(buff).pre) <= Len(buff)
    BY FromStartType
  <2> QED
    BY <1>1, <1>7, <2>1, <2>2 DEF Results
<1>11. CASE start = None /\ end # None
  <2>1. result = [parsed |-> first, pre |-> <<>>]
    BY <1>11, <1>16, Zenon
  <2> QED
    BY <1>15, <1>5, <1>7, <1>11, <2>1 DEF Results
<1>12. CASE start = None /\ end = None
  <2>1. result = [parsed |-> <<>>, pre |-> Middle(data, buff)]
    BY <1>12, <1>16, Zenon
  <2> QED
    BY <1>6, <1>7, <2>1 DEF Results
<1>13. ASSUME start # None, end # None PROVE start # end
  <2>1. buff[start + 1] = Bar
    BY <1>1, <1>2, <1>13, StrstrFinds
  <2>2. buff[end + 1] = Dash
    BY <1>1, <1>3, <1>13, StrstrFinds
  <2> QED
    BY <2>1, <2>2 DEF Bar, Dash
<1> QED
  BY <1>8, <1>9, <1>10, <1>11, <1>12, <1>13

-----------------------------------------------------------------------------
(* The steps of the system.                                                *)

(* A step does not change the stream.                                      *)
LEMMA Same ==
  ASSUME UNCHANGED terminated
  PROVE  Stream' = Stream /\ FramedLength' = FramedLength
<1>1. terminated' = terminated
  OBVIOUS
<1>2. FramedLength' = FramedLength
  BY <1>1 DEF FramedLength
<1>3. Stream' = Stream
  BY <1>1 DEF Stream, Framed, Body
<1> QED
  BY <1>2, <1>3

(* What a step does, with its chunk.                                       *)
LEMMA ReceiveIs ==
  ASSUME TypeOK, Receive
  PROVE  \E n \in 1..MY_BUFSIZ - 1, chunk \in Seq(Int) :
           /\ IsChunk(pos, pos + n, chunk)
           /\ printed' = Split(chunk)
           /\ parsed' = do_recv(pre_read_buff, chunk).parsed
           /\ pre_read_buff' = do_recv(pre_read_buff, chunk).pre
           /\ clean' = (Manageable(pos, pos + n) /\ (clean \/ Starts(pos)))
           /\ last' = pos /\ pos' = pos + n /\ terminated' = terminated
<1>1. PICK n \in 1..MY_BUFSIZ - 1 :
        /\ pos + n <= Len(Stream)
        /\ printed' = Split(SubSeq(Stream, pos + 1, pos + n))
        /\ parsed' =
             do_recv(pre_read_buff, SubSeq(Stream, pos + 1, pos + n)).parsed
        /\ pre_read_buff' =
             do_recv(pre_read_buff, SubSeq(Stream, pos + 1, pos + n)).pre
        /\ clean' = (Manageable(pos, pos + n) /\ (clean \/ Starts(pos)))
        /\ last' = pos /\ pos' = pos + n /\ terminated' = terminated
  BY Zenon DEF Receive
<1>2. PICK chunk : chunk = SubSeq(Stream, pos + 1, pos + n)
  OBVIOUS
<1>3. IsChunk(pos, pos + n, chunk)
  <2>1. Len(Stream) = Messages * L /\ Messages * L \in Nat
    BY StreamBytes, Lengths, Products DEF TypeOK
  <2>2. pos \in Nat /\ MY_BUFSIZ \in Nat
    BY <2>1, LengthsAssumption DEF TypeOK
  <2>3. pos + n \in pos + 1..Messages * L
    BY <1>1, <2>1, <2>2
  <2> QED
    BY <1>2, <2>2, <2>3 DEF IsChunk
<1>4. chunk \in Seq(Int)
  BY <1>3, ChunkBytes DEF TypeOK
<1> QED
  BY <1>1, <1>2, <1>3, <1>4, Zenon

(* The variables always have their types.                                  *)
THEOREM TypeCorrect == Spec => []TypeOK
<1>1. Init => TypeOK
  <2>1. SUFFICES ASSUME Init PROVE TypeOK
    OBVIOUS
  <2>2. terminated \in BOOLEAN
    BY <2>1 DEF Init
  <2>3. /\ L \in Nat /\ L >= 5 /\ Len(Stream) = Messages * L
        /\ Messages \in Nat \ {0} /\ MY_BUFSIZ \in Nat \ {0}
    BY <2>2, Lengths, StreamBytes
  <2>4. 1 * L <= Messages * L
    BY <2>3, Products
  <2>5. pos \in 0..Len(Stream) /\ last \in 0..pos
    <3>1. pos \in 0..L - 1 /\ last = pos
      BY <2>1 DEF Init, L
    <3>2. 1 * L = L /\ Messages * L \in Nat
      BY <2>3, Products
    <3> QED
      BY <2>3, <2>4, <3>1, <3>2
  <2>6. /\ printed = <<>> /\ pre_read_buff = <<>> /\ parsed = <<>>
        /\ clean \in BOOLEAN
    BY <2>1 DEF Init
  <2>7. pre_read_buff \in Seq(Int) /\ Len(pre_read_buff) <= MY_BUFSIZ
    BY <2>3, <2>6
  <2>8. parsed \in Seq(Seq(Int))
          /\ printed \in Seq([at : Nat, text : Seq(Int)])
    BY <2>6
  <2> QED
    BY <2>2, <2>5, <2>6, <2>7, <2>8 DEF TypeOK
<1>2. TypeOK /\ [Next]_vars => TypeOK'
  <2>1. SUFFICES ASSUME TypeOK, [Next]_vars PROVE TypeOK'
    OBVIOUS
  <2>2. CASE UNCHANGED vars
    <3>1. Stream' = Stream
      BY <2>2, Same DEF vars
    <3> QED
      BY <2>1, <2>2, <3>1 DEF TypeOK, vars
  <2>3. CASE Receive
    <3>1. PICK n \in 1..MY_BUFSIZ - 1, chunk \in Seq(Int) :
             /\ IsChunk(pos, pos + n, chunk)
             /\ printed' = Split(chunk)
             /\ parsed' = do_recv(pre_read_buff, chunk).parsed
             /\ pre_read_buff' = do_recv(pre_read_buff, chunk).pre
             /\ clean' = (Manageable(pos, pos + n) /\ (clean \/ Starts(pos)))
             /\ last' = pos /\ pos' = pos + n /\ terminated' = terminated
      BY <2>1, <2>3, ReceiveIs
    <3>2. terminated \in BOOLEAN
      BY <2>1 DEF TypeOK
    <3>3. Len(Stream) = Messages * L /\ MY_BUFSIZ \in Nat \ {0}
      BY <3>2, StreamBytes, Lengths
    <3>4. /\ chunk \in Seq(Int) /\ Len(chunk) = (pos + n) - pos
          /\ pos \in Nat /\ pos + n <= Messages * L
      BY <3>1, <3>2, ChunkBytes, ChunkEnds
    <3>5. Split(chunk) \in Pieces
      BY <3>4, SplitType
    <3>6. Len(chunk) <= MY_BUFSIZ
      BY <3>1, <3>3, <3>4
    <3>7. /\ do_recv(pre_read_buff, chunk) \in Results
          /\ Len(do_recv(pre_read_buff, chunk).pre) <= MY_BUFSIZ
      BY <2>1, <3>3, <3>4, <3>6, RecvType DEF TypeOK
    <3>8. pos + n \in 0..Len(Stream) /\ pos \in 0..pos + n
      <4>1. Messages * L \in Nat
        BY <3>2, Lengths, Products
      <4> QED
        BY <3>1, <3>3, <3>4, <4>1
    <3>9. Stream' = Stream
      BY <3>1, Same
    <3>10. pos' \in 0..Len(Stream') /\ last' \in 0..pos'
      BY <3>1, <3>8, <3>9
    <3>11. printed' \in Seq([at : Nat, text : Seq(Int)])
      BY <3>1, <3>5 DEF Pieces
    <3>12. /\ pre_read_buff' \in Seq(Int) /\ Len(pre_read_buff') <= MY_BUFSIZ
           /\ parsed' \in Seq(Seq(Int))
      BY <3>1, <3>7 DEF Results
    <3>13. clean' \in BOOLEAN /\ terminated' \in BOOLEAN
      <4>1. terminated' \in BOOLEAN
        BY <3>1, <3>2
      <4>2. (Manageable(pos, pos + n) /\ (clean \/ Starts(pos))) \in BOOLEAN
        BY Zenon
      <4> QED
        BY <3>1, <4>1, <4>2, Zenon
    <3> QED
      BY <3>10, <3>11, <3>12, <3>13 DEF TypeOK
  <2> QED
    BY <2>1, <2>2, <2>3 DEF Next
<1> QED
  BY <1>1, <1>2, PTL DEF Spec

(* The first two pieces of a chunk are printed as they were sent, and no   *)
(* later one is.                                                           *)
THEOREM PiecesArePrinted == Spec => []PiecesPrinted
<1>1. Init => PiecesPrinted
  <2>1. SUFFICES ASSUME Init PROVE PiecesPrinted
    OBVIOUS
  <2>2. printed = <<>> /\ Len(printed) = 0
    BY <2>1 DEF Init
  <2> QED
    BY <2>2 DEF PiecesPrinted
<1>2. PiecesPrinted /\ TypeOK /\ [Next]_vars => PiecesPrinted'
  <2>1. SUFFICES ASSUME PiecesPrinted, TypeOK, [Next]_vars PROVE PiecesPrinted'
    OBVIOUS
  <2>2. CASE UNCHANGED vars
    <3>1. Stream' = Stream /\ FramedLength' = FramedLength
      BY <2>2, Same DEF vars
    <3> QED
      BY <2>1, <2>2, <3>1 DEF PiecesPrinted, MessageAt, vars
  <2>3. CASE Receive
    <3>1. PICK n \in 1..MY_BUFSIZ - 1, chunk \in Seq(Int) :
             /\ IsChunk(pos, pos + n, chunk)
             /\ printed' = Split(chunk)
             /\ last' = pos /\ pos' = pos + n /\ terminated' = terminated
      BY <2>1, <2>3, ReceiveIs
    <3>2. terminated \in BOOLEAN
      BY <2>1 DEF TypeOK
    <3>3. Stream' = Stream /\ FramedLength' = FramedLength
      BY <3>1, Same
    <3>4. L \in Nat \ {0} /\ pos \in Nat
      BY <3>1, <3>2, Lengths, ChunkEnds
    <3>5. PICK M \in Nat, o \in 0..L - 1 : pos = M * L + o /\ M = pos \div L
      BY <3>4, Division
    <3>6. \A k \in 1..Len(Split(chunk)) :
            RightPiece(pos, M, k, Split(chunk)[k])
      BY <3>1, <3>2, <3>5, SplitPrints
    <3>7. \A k \in 1..Len(printed') : RightPiece(pos, M, k, printed'[k])
      BY <3>1, <3>6
    <3>8. MessageAt(last)' = M + 1
      BY <3>1, <3>3, <3>5 DEF MessageAt, L
    <3>9. ASSUME NEW k \in 1..Len(printed')
          PROVE  LET m == MessageAt(last)' + k - 1
                     begin == IF k = 1 THEN last' ELSE (m - 1) * FramedLength'
                     piece == SubSeq(Stream', begin + 1, m * FramedLength' - 1)
                 IN printed'[k] = [at |-> begin - last', text |-> piece]
                      <=> k <= 2
      <4>1. MessageAt(last)' + k - 1 = M + k /\ (M + k) - 1 = M + k - 1
        BY <3>8
      <4>2. RightPiece(pos, M, k, printed'[k])
        BY <3>7
      <4> QED
        BY <3>1, <3>3, <4>1, <4>2 DEF RightPiece, Begin, L
    <3> QED
      BY <3>9 DEF PiecesPrinted
  <2> QED
    BY <2>1, <2>2, <2>3 DEF Next
<1> QED
  BY <1>1, <1>2, TypeCorrect, PTL DEF Spec

-----------------------------------------------------------------------------
(* What do_recv remembers.                                                 *)

(* buff is the bytes from o on, up to e, of message m and the next one.    *)
Holds(buff, m, o, e) ==
  /\ m \in Nat \ {0} /\ o \in Nat /\ e \in Nat /\ o <= e /\ e <= L + L
  /\ buff \in Seq(Int) /\ Len(buff) = e - o
  /\ \A i \in 1..e - o :
       buff[i] = IF o + i <= L THEN Byte(m, o + i) ELSE Byte(m + 1, o + i - L)

(* what do_recv remembers of message m after its first n bytes             *)
Had(m, n) == IF n - 2 \in 1..BodyLength THEN Take(Body(m), n - 2) ELSE <<>>

(* The bytes of a body are a message's from the third on.                  *)
LEMMA BodyBytes ==
  ASSUME terminated \in BOOLEAN, NEW m \in Nat \ {0}
  PROVE  /\ Body(m) \in Seq(Int) /\ Len(Body(m)) = BodyLength
         /\ \A i \in 1..BodyLength : Body(m)[i] = Byte(m, i + 2)
<1>1. BodyLength \in Nat \ {0}
  BY Lengths
<1>2. PICK c \in Nat : c = (m - 1) * BodyLength
  BY <1>1, Products
<1>3. Body(m) = [i \in 1..BodyLength |-> c + i]
  BY <1>2 DEF Body
<1>4. \A i \in 1..BodyLength : Byte(m, i + 2) = c + ((i + 2) - 2)
  BY <1>1, <1>2 DEF Byte
<1>5. Body(m) \in Seq(Int) /\ Len(Body(m)) = BodyLength
  BY <1>1, <1>3
<1>6. \A i \in 1..BodyLength : Body(m)[i] = c + i /\ (i + 2) - 2 = i
  BY <1>1, <1>3
<1> QED
  BY <1>4, <1>5, <1>6

(* What do_recv remembers, byte by byte ...                                *)
LEMMA HadBytes ==
  ASSUME terminated \in BOOLEAN, NEW m \in Nat \ {0},
           NEW n \in 2..BodyLength + 2
  PROVE  /\ Had(m, n) \in Seq(Int) /\ Len(Had(m, n)) = n - 2
         /\ \A i \in 1..n - 2 : Had(m, n)[i] = Byte(m, i + 2)
<1>1. BodyLength \in Nat \ {0}
  BY Lengths
<1>2. /\ Body(m) \in Seq(Int) /\ Len(Body(m)) = BodyLength
      /\ \A i \in 1..BodyLength : Body(m)[i] = Byte(m, i + 2)
  BY BodyBytes
<1>3. CASE n = 2
  <2>1. Had(m, n) = <<>> /\ n - 2 = 0
    BY <1>3 DEF Had
  <2>2. \A i \in 1..0 : FALSE
    OBVIOUS
  <2> QED
    BY <2>1, <2>2
<1>4. CASE n # 2
  <2>1. PICK k \in 1..BodyLength : k = n - 2
    BY <1>1, <1>4
  <2>2. Had(m, n) = Take(Body(m), k)
    BY <2>1 DEF Had
  <2>3. /\ Take(Body(m), k) \in Seq(Int) /\ Len(Take(Body(m), k)) = k
        /\ \A i \in 1..k : Take(Body(m), k)[i] = Body(m)[i]
    <3>1. k \in 0..Len(Body(m)) /\ Body(m) \in Seq(Int)
      BY <1>1, <1>2
    <3> QED
      BY <3>1, TakeType
  <2>4. \A i \in 1..k : i \in 1..BodyLength
    BY <1>1
  <2> QED
    BY <1>2, <2>1, <2>2, <2>3, <2>4
<1> QED
  BY <1>3, <1>4

(* ... and all of it is the body.                                          *)
LEMMA HadAll ==
  ASSUME terminated \in BOOLEAN, NEW m \in Nat \ {0}
  PROVE  Had(m, BodyLength + 2) = Body(m)
<1>1. BodyLength \in Nat \ {0} /\ BodyLength + 2 \in 2..BodyLength + 2
        /\ (BodyLength + 2) - 2 = BodyLength
  BY Lengths
<1>2. PICK h : h = Had(m, BodyLength + 2)
  OBVIOUS
<1>3. /\ h \in Seq(Int) /\ Len(h) = BodyLength
      /\ \A i \in 1..BodyLength : h[i] = Byte(m, i + 2)
  BY <1>1, <1>2, HadBytes
<1>4. PICK b : b = Body(m)
  OBVIOUS
<1>5. /\ b \in Seq(Int) /\ Len(b) = BodyLength
      /\ \A i \in 1..BodyLength : b[i] = Byte(m, i + 2)
  BY <1>4, BodyBytes
<1>6. h = b
  BY <1>3, <1>5, SeqEqual
<1> QED
  BY <1>2, <1>4, <1>6

(* What is remembered is never longer than a body.                         *)
LEMMA HadShort ==
  ASSUME terminated \in BOOLEAN, NEW m \in Nat \ {0}, NEW n
  PROVE  Len(Had(m, n)) \in 0..BodyLength
<1>1. BodyLength \in Nat \ {0}
  BY Lengths
<1>2. Body(m) \in Seq(Int) /\ Len(Body(m)) = BodyLength
  BY BodyBytes
<1>3. CASE n - 2 \in 1..BodyLength
  <2>1. PICK k \in 0..Len(Body(m)) : k = n - 2 /\ k <= BodyLength
    BY <1>1, <1>2, <1>3
  <2>2. Len(Take(Body(m), k)) = k
    BY <1>2, TakeType
  <2>3. Had(m, n) = Take(Body(m), k)
    BY <1>3, <2>1 DEF Had
  <2> QED
    BY <2>1, <2>2, <2>3
<1>4. CASE ~(n - 2 \in 1..BodyLength)
  <2>1. Had(m, n) = <<>>
    BY <1>4 DEF Had
  <2> QED
    BY <1>1, <2>1
<1> QED
  BY <1>3, <1>4

(* u is s and then t.                                                      *)
Joins(u, s, t) ==
  /\ Len(u) = Len(s) + Len(t)
  /\ \A i \in 1..Len(s) : u[i] = s[i]
  /\ \A i \in 1..Len(t) : u[Len(s) + i] = t[i]

(* ... in one name, which the provers match at once.                       *)
LEMMA Joined ==
  ASSUME NEW S, NEW s \in Seq(S), NEW t \in Seq(S)
  PROVE  s \o t \in Seq(S) /\ Joins(s \o t, s, t)
BY Concat DEF Joins

(* What is remembered grows by what comes.                                 *)
LEMMA HadMore ==
  ASSUME terminated \in BOOLEAN, NEW m \in Nat \ {0},
         NEW o \in 2..BodyLength + 2, NEW e \in o..BodyLength + 2,
         NEW s \in Seq(Int), Len(s) = e - o,
         \A i \in 1..e - o : s[i] = Byte(m, o + i)
  PROVE  Had(m, o) \o s = Had(m, e)
<1>1. BodyLength \in Nat \ {0} /\ o \in Nat /\ e \in Nat /\ o >= 2
        /\ o <= e /\ e <= BodyLength + 2
      /\ e \in 2..BodyLength + 2
  BY Lengths
<1>2. PICK a : a = Had(m, o)
  OBVIOUS
<1>3. /\ a \in Seq(Int) /\ Len(a) = o - 2
      /\ \A i \in 1..o - 2 : a[i] = Byte(m, i + 2)
  BY <1>2, HadBytes
<1>4. PICK b : b = Had(m, e)
  OBVIOUS
<1>5. /\ b \in Seq(Int) /\ Len(b) = e - 2
      /\ \A i \in 1..e - 2 : b[i] = Byte(m, i + 2)
  BY <1>1, <1>4, HadBytes
<1>6. PICK t : t = a \o s
  OBVIOUS
<1>7. /\ t \in Seq(Int) /\ Len(t) = Len(a) + Len(s)
      /\ \A i \in 1..Len(a) : t[i] = a[i]
      /\ \A i \in 1..Len(s) : t[Len(a) + i] = s[i]
  <2>1. a \in Seq(Int)
    BY <1>3
  <2>2. t \in Seq(Int) /\ Joins(t, a, s)
    BY <1>6, <2>1, Joined, Zenon
  <2> QED
    BY <2>2 DEF Joins
<1>8. Len(t) = e - 2
  BY <1>1, <1>3, <1>7
<1>9. ASSUME NEW i \in 1..e - 2 PROVE t[i] = b[i]
  <2>1. CASE i <= o - 2
    <3>1. i \in 1..o - 2 /\ i \in 1..Len(a)
      BY <1>1, <1>3, <2>1
    <3>2. t[i] = a[i]
      BY <1>7, <3>1
    <3> QED
      BY <1>3, <1>5, <3>1, <3>2
  <2>2. CASE i > o - 2
    <3>1. PICK h \in 1..e - o : h = i - (o - 2)
      BY <1>1, <2>2
    <3>2. h \in 1..Len(s) /\ Len(a) + h = i /\ o + h = i + 2
      BY <1>1, <1>3, <3>1
    <3>3. t[Len(a) + h] = s[h]
      BY <1>7, <3>2
    <3>4. s[h] = Byte(m, o + h)
      BY <3>1
    <3> QED
      BY <1>5, <3>2, <3>3, <3>4
  <2> QED
    BY <1>1, <2>1, <2>2
<1>10. t = b
  BY <1>5, <1>7, <1>8, <1>9, SeqEqual
<1> QED
  BY <1>2, <1>4, <1>6, <1>10

(* Where the bytes of the delimiters are in what Holds.                    *)
HeldAt(buff, m, o, i) ==
  /\ o + i <= L =>
       /\ buff[i] = Bar <=> o + i = 1 \/ o + i = BodyLength + 4
       /\ buff[i] = Dash <=> o + i = 2 \/ o + i = BodyLength + 3
       /\ buff[i] = Byte(m, o + i)
  /\ o + i > L =>
       /\ buff[i] = Bar <=> o + i - L = 1 \/ o + i - L = BodyLength + 4
       /\ buff[i] = Dash <=> o + i - L = 2 \/ o + i - L = BodyLength + 3

(* ... and only there.                                                     *)
LEMMA Held ==
  ASSUME terminated \in BOOLEAN, NEW buff, NEW m, NEW o, NEW e,
         Holds(buff, m, o, e), NEW i \in 1..e - o
  PROVE  HeldAt(buff, m, o, i)
<1>1. L \in Nat /\ L >= 5 /\ BodyLength \in Nat
  BY Lengths
<1>2. m \in Nat \ {0} /\ o \in Nat /\ e \in Nat /\ e <= L + L
      /\ buff[i] = IF o + i <= L THEN Byte(m, o + i)
           ELSE Byte(m + 1, o + i - L)
  BY DEF Holds
<1>3. CASE o + i <= L
  <2>1. PICK j \in 1..L : j = o + i
    BY <1>1, <1>2, <1>3
  <2>2. buff[i] = Byte(m, j)
    BY <1>2, <1>3, <2>1
  <2>3. /\ Byte(m, j) = Bar <=> j = 1 \/ j = BodyLength + 4
        /\ Byte(m, j) = Dash <=> j = 2 \/ j = BodyLength + 3
    BY <1>2, ByteType
  <2> QED
    BY <1>1, <1>2, <1>3, <2>1, <2>2, <2>3 DEF HeldAt
<1>4. CASE o + i > L
  <2>1. PICK j \in 1..L : j = o + i - L
    BY <1>1, <1>2, <1>4
  <2>2. buff[i] = Byte(m + 1, j)
    BY <1>1, <1>2, <1>4, <2>1
  <2>3. /\ Byte(m + 1, j) = Bar <=> j = 1 \/ j = BodyLength + 4
        /\ Byte(m + 1, j) = Dash <=> j = 2 \/ j = BodyLength + 3
    <3>1. m + 1 \in Nat \ {0}
      BY <1>2
    <3> QED
      BY <3>1, ByteType
  <2> QED
    BY <1>1, <1>2, <1>4, <2>1, <2>2, <2>3 DEF HeldAt
<1> QED
  BY <1>1, <1>2, <1>3, <1>4 DEF HeldAt

(* A message that begins buff: its start, or all of it.                    *)
LEMMA StartRead ==
  ASSUME terminated \in BOOLEAN, NEW buff, NEW m, NEW e, Holds(buff, m, 0, e),
         e \in 2..BodyLength + 2
  PROVE  /\ strstr(buff, Bar, Dash) = 0 /\ strstr(buff, Dash, Bar) = None
         /\ FromStart(buff) = [parsed |-> <<>>, pre |-> Had(m, e)]
<1>1. L \in Nat /\ L >= 5 /\ BodyLength \in Nat \ {0} /\ L >= BodyLength + 4
  BY Lengths
<1>2. m \in Nat \ {0} /\ e \in Nat /\ buff \in Seq(Int) /\ Len(buff) = e
  BY DEF Holds
<1>3. \A i \in 1..e : /\ buff[i] = Bar <=> i = 1
                      /\ buff[i] = Dash <=> i = 2
                      /\ buff[i] = Byte(m, i)
  <2>1. SUFFICES ASSUME NEW i \in 1..e
                 PROVE  /\ buff[i] = Bar <=> i = 1
                        /\ buff[i] = Dash <=> i = 2
                        /\ buff[i] = Byte(m, i)
    OBVIOUS
  <2>2. i \in 1..e - 0 /\ 0 + i = i /\ i <= L /\ i < BodyLength + 3
    BY <1>1, <1>2
  <2>3. HeldAt(buff, m, 0, i)
    BY <2>2, Held
  <2> QED
    BY <1>1, <2>2, <2>3 DEF HeldAt
<1>4. strstr(buff, Bar, Dash) = 0
  <2>1. FirstAt(buff, Bar, Dash, 1)
    BY <1>2, <1>3 DEF FirstAt
  <2>2. strstr(buff, Bar, Dash) = 1 - 1
    BY <1>2, <2>1, StrstrIs
  <2> QED
    BY <2>2
<1>5. strstr(buff, Dash, Bar) = None
  <2>1. \A i \in 1..Len(buff) - 1 : ~(buff[i] = Dash /\ buff[i + 1] = Bar)
    BY <1>2, <1>3
  <2> QED
    BY <2>1, StrstrNone
<1>6. Drop(buff, 2) = Had(m, e)
  <2>1. PICK d : d = Drop(buff, 2)
    OBVIOUS
  <2>2. /\ d \in Seq(Int) /\ Len(d) = e - 2
        /\ \A i \in 1..e - 2 : d[i] = buff[i + 2]
    <3>1. 3 \in 1..Len(buff) + 1 /\ Len(buff) \in 3 - 1..Len(buff)
      BY <1>2
    <3>2. /\ d \in Seq(Int) /\ Len(d) = Len(buff) - 3 + 1
          /\ \A i \in 1..Len(buff) - 3 + 1 : d[i] = buff[3 + i - 1]
      BY <1>2, <2>1, <3>1, Part DEF Drop
    <3>3. Len(buff) - 3 + 1 = e - 2 /\ \A i \in 1..e - 2 : 3 + i - 1 = i + 2
      BY <1>2
    <3> QED
      BY <3>2, <3>3
  <2>3. PICK h : h = Had(m, e)
    OBVIOUS
  <2>4. /\ h \in Seq(Int) /\ Len(h) = e - 2
        /\ \A i \in 1..e - 2 : h[i] = Byte(m, i + 2)
    BY <1>1, <1>2, <2>3, HadBytes
  <2>5. ASSUME NEW i \in 1..e - 2 PROVE d[i] = h[i]
    <3>1. i + 2 \in 1..e
      BY <1>2
    <3> QED
      BY <1>3, <2>2, <2>4, <3>1
  <2>6. d = h
    BY <2>2, <2>4, <2>5, SeqEqual
  <2> QED
    BY <2>1, <2>3, <2>6
<1>7. FromStart(buff) = [parsed |-> <<>>, pre |-> Drop(buff, 0 + 2)]
  BY <1>4, <1>5, Zenon DEF FromStart
<1> QED
  BY <1>4, <1>5, <1>6, <1>7

(* All of a message.                                                       *)
LEMMA WholeRead ==
  ASSUME terminated \in BOOLEAN, NEW buff, NEW m, NEW e, Holds(buff, m, 0, e),
         e = BodyLength + 4
  PROVE  /\ strstr(buff, Bar, Dash) = 0
              /\ strstr(buff, Dash, Bar) = BodyLength + 2
         /\ FromStart(buff) = [parsed |-> <<Body(m)>>, pre |-> <<>>]
<1>1. L \in Nat /\ L >= 5 /\ BodyLength \in Nat \ {0} /\ L >= BodyLength + 4
  BY Lengths
<1>2. m \in Nat \ {0} /\ e \in Nat /\ buff \in Seq(Int) /\ Len(buff) = e
  BY DEF Holds
<1>3. \A i \in 1..e : /\ buff[i] = Bar <=> i = 1 \/ i = BodyLength + 4
                      /\ buff[i] = Dash <=> i = 2 \/ i = BodyLength + 3
                      /\ buff[i] = Byte(m, i)
  <2>1. SUFFICES ASSUME NEW i \in 1..e
                 PROVE  /\ buff[i] = Bar <=> i = 1 \/ i = BodyLength + 4
                        /\ buff[i] = Dash <=> i = 2 \/ i = BodyLength + 3
                        /\ buff[i] = Byte(m, i)
    OBVIOUS
  <2>2. i \in 1..e - 0 /\ 0 + i = i /\ i <= L
    BY <1>1, <1>2
  <2>3. HeldAt(buff, m, 0, i)
    BY <2>2, Held
  <2> QED
    BY <1>1, <2>2, <2>3 DEF HeldAt
<1>4. strstr(buff, Bar, Dash) = 0
  <2>1. FirstAt(buff, Bar, Dash, 1)
    BY <1>1, <1>2, <1>3 DEF FirstAt
  <2>2. strstr(buff, Bar, Dash) = 1 - 1
    BY <1>2, <2>1, StrstrIs
  <2> QED
    BY <2>2
<1>5. strstr(buff, Dash, Bar) = BodyLength + 2
  <2>1. PICK r \in Nat : r = BodyLength + 3
    BY <1>1
  <2>2. FirstAt(buff, Dash, Bar, r)
    BY <1>1, <1>2, <1>3, <2>1 DEF FirstAt
  <2>3. strstr(buff, Dash, Bar) = r - 1
    BY <1>2, <2>2, StrstrIs
  <2> QED
    BY <1>1, <2>1, <2>3
<1>6. Drop(Take(buff, BodyLength + 2), 2) = Body(m)
  <2>1. PICK n \in 0..Len(buff) : n = BodyLength + 2
    BY <1>1, <1>2
  <2>2. PICK t : t = Take(buff, n)
    OBVIOUS
  <2>3. /\ t \in Seq(Int) /\ Len(t) = n
        /\ \A i \in 1..n : t[i] = buff[i]
    BY <1>2, <2>2, TakeType
  <2>4. PICK d : d = Drop(t, 2)
    OBVIOUS
  <2>5. /\ d \in Seq(Int) /\ Len(d) = BodyLength
        /\ \A i \in 1..BodyLength : d[i] = t[i + 2]
    <3>1. 3 \in 1..Len(t) + 1 /\ Len(t) \in 3 - 1..Len(t)
      BY <1>1, <2>1, <2>3
    <3>2. /\ d \in Seq(Int) /\ Len(d) = Len(t) - 3 + 1
          /\ \A i \in 1..Len(t) - 3 + 1 : d[i] = t[3 + i - 1]
      BY <2>3, <2>4, <3>1, Part DEF Drop
    <3>3. Len(t) - 3 + 1 = BodyLength
            /\ \A i \in 1..BodyLength : 3 + i - 1 = i + 2
      BY <1>1, <2>1, <2>3
    <3> QED
      BY <3>2, <3>3
  <2>6. PICK b : b = Body(m)
    OBVIOUS
  <2>7. /\ b \in Seq(Int) /\ Len(b) = BodyLength
        /\ \A i \in 1..BodyLength : b[i] = Byte(m, i + 2)
    BY <1>2, <2>6, BodyBytes
  <2>8. ASSUME NEW i \in 1..BodyLength PROVE d[i] = b[i]
    <3>1. i + 2 \in 1..n /\ i + 2 \in 1..e
      BY <1>1, <2>1
    <3> QED
      BY <1>3, <2>3, <2>5, <2>7, <3>1, ZenonT(60)
  <2>9. d = b
    BY <2>5, <2>7, <2>8, SeqEqual
  <2> QED
    BY <2>1, <2>2, <2>4, <2>6, <2>9
<1>7. BodyLength + 2 # None /\ 0 + 2 = 2
  BY <1>1 DEF None
<1>8. FromStart(buff) =
        [parsed |-> <<Drop(Take(buff, BodyLength + 2), 0 + 2)>>, pre |-> <<>>]
  BY <1>4, <1>5, <1>7, Zenon DEF FromStart
<1> QED
  BY <1>4, <1>5, <1>6, <1>7, <1>8, Zenon

(* Bytes of a body only.                                                   *)
LEMMA MiddleRead ==
  ASSUME terminated \in BOOLEAN, BodyLength <= MY_BUFSIZ,
         NEW buff, NEW m, NEW o, NEW e, Holds(buff, m, o, e),
         o \in 2..BodyLength + 2, e \in o..BodyLength + 2
  PROVE  /\ strstr(buff, Bar, Dash) = None /\ strstr(buff, Dash, Bar) = None
         /\ Middle(Had(m, o), buff) = Had(m, e)
<1>1. /\ L \in Nat /\ L >= 5 /\ BodyLength \in Nat \ {0} /\ L >= BodyLength + 4
      /\ MY_BUFSIZ \in Nat
  BY Lengths
<1>2. m \in Nat \ {0} /\ e \in Nat /\ o \in Nat /\ buff \in Seq(Int)
        /\ Len(buff) = e - o
  BY DEF Holds
<1>3. \A i \in 1..e - o : buff[i] # Bar /\ buff[i] = Byte(m, o + i)
  <2>1. SUFFICES ASSUME NEW i \in 1..e - o
                 PROVE  buff[i] # Bar /\ buff[i] = Byte(m, o + i)
    OBVIOUS
  <2>2. o + i <= L /\ o + i > 2 /\ o + i < BodyLength + 3
    BY <1>1, <1>2
  <2>3. HeldAt(buff, m, o, i)
    BY Held
  <2> QED
    BY <1>1, <1>2, <2>2, <2>3 DEF HeldAt
<1>4. /\ \A i \in 1..Len(buff) - 1 : ~(buff[i] = Bar /\ buff[i + 1] = Dash)
      /\ \A i \in 1..Len(buff) - 1 : ~(buff[i] = Dash /\ buff[i + 1] = Bar)
  BY <1>2, <1>3, SMTT(60)
<1>5. strstr(buff, Bar, Dash) = None /\ strstr(buff, Dash, Bar) = None
  BY <1>4, StrstrNone
<1>6. PICK data : data = Had(m, o)
  OBVIOUS
<1>7. data \in Seq(Int) /\ Len(data) = o - 2
  BY <1>2, <1>6, HadBytes
<1>8. ~(Len(data) + Len(buff) > MY_BUFSIZ)
  BY <1>1, <1>2, <1>7
<1>9. Middle(data, buff) = data \o buff
  BY <1>8, Zenon DEF Middle
<1>10. Had(m, o) \o buff = Had(m, e)
  BY <1>2, <1>3, HadMore
<1> QED
  BY <1>5, <1>6, <1>9, <1>10, Zenon

(* The rest of a message, after which the next one may have begun.         *)
LEMMA EndRead ==
  ASSUME terminated \in BOOLEAN,
         NEW buff, NEW m, NEW o, NEW e, Holds(buff, m, o, e),
         o \in 2..BodyLength + 2, e >= BodyLength + 4
  PROVE  /\ strstr(buff, Dash, Bar) = BodyLength + 2 - o
         /\ EndOf(Had(m, o), buff, BodyLength + 2 - o) = <<Body(m)>>
         /\ e = BodyLength + 4 => strstr(buff, Bar, Dash) = None
<1>1. L \in Nat /\ L >= 5 /\ BodyLength \in Nat \ {0} /\ L >= BodyLength + 4
  BY Lengths
<1>2. /\ m \in Nat \ {0} /\ e \in Nat /\ o \in Nat /\ o <= e
      /\ buff \in Seq(Int) /\ Len(buff) = e - o
  BY DEF Holds
<1>3. PICK r \in 1..e - o - 1 : r = BodyLength + 3 - o
  BY <1>1, <1>2
<1>4. \A i \in 1..r + 1 : /\ buff[i] = Bar <=> i = r + 1
                          /\ buff[i] = Dash <=> i = r
                          /\ buff[i] = Byte(m, o + i)
  <2>1. SUFFICES ASSUME NEW i \in 1..r + 1
                 PROVE  /\ buff[i] = Bar <=> i = r + 1
                        /\ buff[i] = Dash <=> i = r
                        /\ buff[i] = Byte(m, o + i)
    OBVIOUS
  <2>2. /\ i \in 1..e - o /\ o + i <= L /\ o + i > 2
        /\ o + i = BodyLength + 4 <=> i = r + 1
        /\ o + i = BodyLength + 3 <=> i = r
    BY <1>1, <1>2, <1>3
  <2>3. HeldAt(buff, m, o, i)
    BY <2>2, Held
  <2> QED
    BY <1>1, <1>2, <2>2, <2>3 DEF HeldAt
<1>5. strstr(buff, Dash, Bar) = BodyLength + 2 - o
  <2>1. FirstAt(buff, Dash, Bar, r)
    <3>1. r \in 1..Len(buff) - 1 /\ buff[r] = Dash /\ buff[r + 1] = Bar
      BY <1>2, <1>3, <1>4, SMTT(60)
    <3>2. ASSUME NEW i \in 1..Len(buff) - 1, buff[i] = Dash, i < r PROVE FALSE
      BY <1>4, <3>2
    <3> QED
      BY <1>2, <3>1, <3>2 DEF FirstAt
  <2>2. strstr(buff, Dash, Bar) = r - 1
    BY <1>2, <2>1, StrstrIs
  <2> QED
    BY <1>1, <1>2, <1>3, <2>2
<1>6. EndOf(Had(m, o), buff, BodyLength + 2 - o) = <<Body(m)>>
  <2>1. PICK n \in 0..Len(buff) : n = BodyLength + 2 - o /\ n = r - 1
    BY <1>1, <1>2, <1>3
  <2>2. PICK s : s = Take(buff, n)
    OBVIOUS
  <2>3. /\ s \in Seq(Int) /\ Len(s) = n
        /\ \A i \in 1..n : s[i] = buff[i]
    BY <1>2, <2>2, TakeType
  <2>4. PICK f \in o..BodyLength + 2 : f = BodyLength + 2 /\ Len(s) = f - o
    BY <1>1, <1>2, <2>1, <2>3
  <2>5. \A i \in 1..f - o : s[i] = Byte(m, o + i)
    <3>1. \A i \in 1..f - o : i \in 1..n /\ i \in 1..r + 1
      BY <1>2, <2>1, <2>3, <2>4, SMTT(60)
    <3> QED
      BY <1>4, <2>3, <3>1
  <2>6. Had(m, o) \o s = Had(m, f)
    BY <1>2, <2>3, <2>4, <2>5, HadMore
  <2>7. Had(m, BodyLength + 2) = Body(m)
    BY <1>2, HadAll
  <2> QED
    BY <2>1, <2>2, <2>4, <2>6, <2>7, Zenon DEF EndOf
<1>7. ASSUME e = BodyLength + 4 PROVE strstr(buff, Bar, Dash) = None
  <2>1. Len(buff) = r + 1
    BY <1>1, <1>2, <1>3, <1>7
  <2>2. \A i \in 1..Len(buff) - 1 : ~(buff[i] = Bar /\ buff[i + 1] = Dash)
    BY <1>4, <2>1
  <2> QED
    BY <2>2, StrstrNone
<1> QED
  BY <1>5, <1>6, <1>7

(* ... when it has: where it does.                                         *)
LEMMA NextRead ==
  ASSUME terminated = FALSE,
         NEW buff, NEW m, NEW o, NEW f, Holds(buff, m, o, f),
         o \in 2..BodyLength + 2, NEW e \in 2..L, f = L + e
  PROVE  /\ strstr(buff, Bar, Dash) = L - o
         /\ Holds(Drop(buff, L - o), m + 1, 0, e)
<1>1. terminated \in BOOLEAN /\ L \in Nat /\ L >= 5
        /\ BodyLength \in Nat \ {0} /\ L = BodyLength + 4
  BY Lengths
<1>2. /\ m \in Nat \ {0} /\ e \in Nat /\ o \in Nat
      /\ buff \in Seq(Int) /\ Len(buff) = f - o /\ f = L + e
      /\ \A i \in 1..f - o :
           buff[i] = IF o + i <= L THEN Byte(m, o + i)
             ELSE Byte(m + 1, o + i - L)
  BY <1>1 DEF Holds
<1>3. PICK r \in 1..Len(buff) - 1 : r = L - o + 1
  BY <1>1, <1>2
<1>4. ASSUME NEW i \in 1..r + 1
      PROVE  /\ buff[i] = Bar <=> i = r \/ i = r - 1
             /\ i = r + 1 => buff[i] = Dash
             /\ i = r => buff[i] # Dash
  <2>1. i \in 1..f - o
    BY <1>1, <1>2, <1>3
  <2>2. HeldAt(buff, m, o, i)
    BY <1>1, <2>1, Held
  <2> QED
    BY <1>1, <1>2, <1>3, <2>2 DEF HeldAt
<1>5. FirstAt(buff, Bar, Dash, r)
  <2>1. buff[r] = Bar /\ buff[r + 1] = Dash
    BY <1>3, <1>4
  <2>2. ASSUME NEW i \in 1..Len(buff) - 1,
               buff[i] = Bar, buff[i + 1] = Dash, i < r
        PROVE  FALSE
    <3>1. i = r - 1
      <4>1. i \in 1..r + 1 /\ i # r
        BY <1>3, <2>2
      <4> QED
        BY <1>4, <2>2, <4>1
    <3>2. buff[r] = Dash
      BY <2>2, <3>1
    <3> QED
      BY <1>3, <1>4, <3>2
  <2> QED
    <3>1. \A i \in 1..Len(buff) - 1 :
            buff[i] = Bar /\ buff[i + 1] = Dash => ~(i < r)
      BY <2>2
    <3>2. r \in 1..Len(buff) - 1 /\ Len(buff) \in Nat
      BY <1>2
    <3>3. \A i \in 1..Len(buff) - 1 : ~(i < r) => r <= i
      BY <3>2
    <3> QED
      BY <2>1, <3>1, <3>2, <3>3 DEF FirstAt
<1>6. strstr(buff, Bar, Dash) = L - o
  <2>1. strstr(buff, Bar, Dash) = r - 1
    BY <1>2, <1>5, StrstrIs
  <2> QED
    BY <1>1, <1>2, <1>3, <2>1
<1>7. PICK d : d = Drop(buff, L - o)
  OBVIOUS
<1>8. /\ d \in Seq(Int) /\ Len(d) = e
      /\ \A i \in 1..e : d[i] = buff[r + i - 1]
  <2>1. PICK n \in 0..Len(buff) : n = L - o /\ n + 1 = r /\ Len(buff) - n = e
    BY <1>1, <1>2, <1>3
  <2>2. /\ d \in Seq(Int) /\ Len(d) = Len(buff) - n
        /\ \A i \in 1..Len(buff) - n : d[i] = buff[n + i]
    BY <1>2, <1>7, <2>1, DropBytes
  <2>3. \A i \in 1..e : n + i = r + i - 1
    BY <1>1, <1>2, <1>3, <2>1
  <2> QED
    BY <2>1, <2>2, <2>3
<1>9. ASSUME NEW i \in 1..e
      PROVE  d[i] = IF 0 + i <= L THEN Byte(m + 1, 0 + i)
               ELSE Byte((m + 1) + 1, 0 + i - L)
  <2>1. PICK h \in 1..f - o : h = r + i - 1
    BY <1>1, <1>2, <1>3
  <2>2. o + h > L /\ o + h - L = i /\ i <= L /\ 0 + i = i
    BY <1>1, <1>2, <1>3, <2>1
  <2>3. d[i] = buff[h]
    BY <1>8, <2>1
  <2>4. buff[h] = IF o + h <= L THEN Byte(m, o + h) ELSE Byte(m + 1, o + h - L)
    BY <1>2, <2>1
  <2>5. ~(o + h <= L) /\ 0 + i <= L
    BY <1>1, <1>2, <2>1, <2>2
  <2> QED
    BY <2>2, <2>3, <2>4, <2>5, Zenon
<1>10. Holds(d, m + 1, 0, e)
  <2>1. m + 1 \in Nat \ {0} /\ 0 <= e /\ e <= L + L /\ e - 0 = e
    BY <1>1, <1>2
  <2> QED
    BY <1>2, <1>8, <1>9, <2>1 DEF Holds
<1> QED
  BY <1>6, <1>7, <1>10

-----------------------------------------------------------------------------
(* Manageable chunks.                                                      *)

(* A manageable chunk, from o to e of a message (or of it and the next).   *)
Within(o, e) ==
  /\ o \in 0..L - 1 /\ e \in o + 1..L + L
  /\ o # 1 /\ o # BodyLength + 3 /\ e # 1 /\ e # BodyLength + 3
  /\ e > L => /\ ~terminated /\ o # 0
              /\ e # L + 1 /\ e # L + BodyLength + 3

(* A manageable chunk lies so in the stream.                               *)
LEMMA ManageableIs ==
  ASSUME terminated \in BOOLEAN, NEW from, NEW to, NEW chunk,
         IsChunk(from, to, chunk), Manageable(from, to),
         NEW M \in Nat, NEW o \in 0..L - 1, from = M * L + o
  PROVE  \E e \in Nat : to = M * L + e /\ Within(o, e)
<1>1. /\ L \in Nat \ {0} /\ L >= 5 /\ BodyLength \in Nat \ {0}
           /\ L >= BodyLength + 4
      /\ from \in Nat /\ to \in Nat /\ from < to
  BY Lengths, ChunkEnds
<1>2. PICK ML \in Nat : ML = M * L /\ (M + 1) * L = ML + L
  BY <1>1, Products
<1>3. PICK e \in Nat : e = to - ML /\ to = ML + e /\ e > o
  BY <1>1, <1>2
<1>4. Offset(from) = o
  BY <1>1, DivisionUnique DEF Offset, L
<1>5. PICK p \in Nat : p = ML + L
  BY <1>1
<1>6. Starts(p)
  <2>1. M + 1 \in Nat /\ 0 \in 0..L - 1 /\ (M + 1) * L + 0 = p
    BY <1>1, <1>2, <1>5
  <2>2. ((M + 1) * L + 0) % L = 0
    BY <1>1, <2>1, DivisionUnique
  <2> QED
    BY <2>1, <2>2 DEF Starts, Offset, L
<1>7. o # 1 /\ o # BodyLength + 3
  BY <1>4 DEF Manageable, CutsDelimiter
<1>8. ASSUME e > L PROVE ~terminated /\ o # 0 /\ e <= L + L
  <2>1. p \in from + 1..to - 1 /\ p \in from..to
    BY <1>1, <1>2, <1>3, <1>5, <1>8
  <2>2. ~terminated
    BY <1>6, <2>1 DEF Manageable
  <2>3. \A q \in from..to : Starts(q) => q + FramedLength >= to
    BY <2>2 DEF Manageable
  <2>4. p + L >= to
    BY <1>6, <2>1, <2>3 DEF L
  <2>5. o # 0
    <3>1. SUFFICES ASSUME o = 0 PROVE FALSE
      OBVIOUS
    <3>2. Starts(from) /\ from \in from..to
      BY <1>1, <1>4, <3>1 DEF Starts
    <3>3. from + L >= to
      BY <2>3, <3>2 DEF L
    <3> QED
      BY <1>1, <1>2, <1>3, <1>8, <3>1, <3>3
  <2> QED
    BY <1>1, <1>3, <1>5, <2>2, <2>4, <2>5
<1>9. ASSUME e < L PROVE e # 1 /\ e # BodyLength + 3
  <2>1. e \in 0..L - 1
    BY <1>1, <1>9
  <2>2. (M * L + e) % L = e
    BY <1>1, <2>1, DivisionUnique
  <2>3. Offset(to) = e
    BY <1>2, <1>3, <2>2 DEF Offset, L
  <2> QED
    BY <2>3 DEF Manageable, CutsDelimiter
<1>10. ASSUME e > L PROVE e # L + 1 /\ e # L + BodyLength + 3
  <2>1. CASE e = L + L
    BY <1>1, <2>1
  <2>2. CASE e # L + L
    <3>1. PICK b \in 0..L - 1 : b = e - L
      BY <1>1, <1>8, <1>10, <2>2
    <3>2. ((M + 1) * L + b) % L = b
      BY <1>1, DivisionUnique
    <3>3. (M + 1) * L + b = to
      BY <1>1, <1>2, <1>3, <3>1
    <3>4. Offset(to) = b
      BY <3>2, <3>3 DEF Offset, L
    <3> QED
      BY <1>1, <3>1, <3>4 DEF Manageable, CutsDelimiter
  <2> QED
    BY <2>1, <2>2
<1>11. e <= L + L
  BY <1>1, <1>8
<1>12. e # 1 /\ e # BodyLength + 3
  BY <1>1, <1>9
<1> QED
  BY <1>1, <1>2, <1>3, <1>7, <1>8, <1>10, <1>11, <1>12 DEF Within

(* What strcpy leaves of it: everything but the NUL.                       *)
Text(e) == IF terminated /\ e = L THEN L - 1 ELSE e

(* These bytes are what do_recv works on.                                  *)
LEMMA TextOfChunk ==
  ASSUME terminated \in BOOLEAN, NEW from, NEW to, NEW chunk,
         IsChunk(from, to, chunk),
         NEW M \in Nat, NEW o, NEW e \in Nat, from = M * L + o, to = M * L + e,
         Within(o, e)
  PROVE  Holds(CString(chunk), M + 1, o, Text(e))
<1>1. /\ L \in Nat \ {0} /\ L >= 5 /\ BodyLength \in Nat \ {0}
      /\ L = IF terminated THEN BodyLength + 5 ELSE BodyLength + 4
      /\ from \in Nat /\ to \in Nat /\ from < to /\ M * L \in Nat
      /\ o \in 0..L - 1 /\ e \in o + 1..L + L /\ (e > L => ~terminated)
  BY Lengths, ChunkEnds, Products DEF Within
<1>2. to - from = e - o
  BY <1>1
<1>3. chunk \in Seq(Int) /\ Len(chunk) = e - o
  BY <1>2, ChunkBytes
<1>4. ASSUME NEW i \in 1..e - o
      PROVE  /\ chunk[i] = IF o + i <= L THEN Byte(M + 1, o + i)
                  ELSE Byte((M + 1) + 1, o + i - L)
             /\ chunk[i] = Nul => terminated /\ o + i = L
             /\ terminated /\ o + i = L => chunk[i] = Nul
  <2>1. CASE o + i <= L
    <3>1. PICK c \in Nat : c = 0
      OBVIOUS
    <3>2. c * L < o + i /\ o + i <= c * L + L /\ i \in 1..to - from
      BY <1>1, <1>2, <2>1, <3>1
    <3>3. chunk[i] = Byte(M + c + 1, o + i - c * L)
      <4>1. o \in 0..L - 1
        BY <1>1
      <4> QED
        BY <3>2, <4>1, ChunkByte
    <3>5. M + c + 1 = M + 1 /\ o + i - c * L = o + i /\ o + i \in 1..L
            /\ M + 1 \in Nat \ {0}
      BY <1>1, <2>1, <3>1
    <3>4. Byte(M + 1, o + i) = Nul <=> o + i = BodyLength + 5
      BY <3>5, ByteType
    <3> QED
      BY <1>1, <2>1, <3>3, <3>4, <3>5
  <2>2. CASE o + i > L
    <3>1. PICK c \in Nat : c = 1
      OBVIOUS
    <3>2. c * L < o + i /\ o + i <= c * L + L /\ i \in 1..to - from
      BY <1>1, <1>2, <2>2, <3>1
    <3>3. chunk[i] = Byte(M + c + 1, o + i - c * L)
      <4>1. o \in 0..L - 1
        BY <1>1
      <4> QED
        BY <3>2, <4>1, ChunkByte
    <3>6. /\ M + c + 1 = (M + 1) + 1 /\ o + i - c * L = o + i - L
               /\ o + i - L \in 1..L
          /\ (M + 1) + 1 \in Nat \ {0}
      BY <1>1, <2>2, <3>1
    <3>4. Byte((M + 1) + 1, o + i - L) = Nul <=> o + i - L = BodyLength + 5
      BY <3>6, ByteType
    <3>5. ~terminated /\ ~(o + i <= L)
      BY <1>1, <2>2
    <3> QED
      BY <1>1, <2>2, <3>3, <3>4, <3>5, <3>6
  <2> QED
    BY <1>1, <2>1, <2>2
<1>5. CASE terminated /\ e = L
  <2>1. PICK r \in 1..Len(chunk) : r = L - o
    BY <1>1, <1>3, <1>5
  <2>2. chunk[r] = Nul /\ \A i \in 1..r - 1 : chunk[i] # Nul
    <3>1. ASSUME NEW i \in 1..r - 1 PROVE chunk[i] # Nul
      BY <1>1, <1>3, <1>4, <2>1
    <3>2. chunk[r] = Nul
      BY <1>1, <1>3, <1>4, <1>5, <2>1
    <3> QED
      BY <3>1, <3>2
  <2>3. CString(chunk) = Take(chunk, r - 1)
    BY <1>3, <2>2, FirstNul
  <2>4. PICK b : b = Take(chunk, r - 1)
    OBVIOUS
  <2>5. /\ b \in Seq(Int) /\ Len(b) = r - 1
        /\ \A i \in 1..r - 1 : b[i] = chunk[i]
    <3>1. r - 1 \in 0..Len(chunk)
      BY <1>3, <2>1
    <3> QED
      BY <1>3, <2>4, <3>1, TakeType
  <2>6. PICK t \in Nat : t = L - 1 /\ Text(e) = t /\ r - 1 = t - o
    BY <1>1, <1>5, <2>1 DEF Text
  <2>7. \A i \in 1..t - o :
          b[i] = IF o + i <= L THEN Byte(M + 1, o + i)
            ELSE Byte((M + 1) + 1, o + i - L)
    <3>1. \A i \in 1..t - o : i \in 1..e - o /\ i \in 1..r - 1
      BY <1>1, <1>5, <2>6
    <3> QED
      BY <1>4, <2>5, <3>1
  <2>8. Holds(b, M + 1, o, t)
    BY <1>1, <2>5, <2>6, <2>7 DEF Holds
  <2> QED
    BY <2>3, <2>4, <2>6, <2>8
<1>6. CASE ~(terminated /\ e = L)
  <2>1. \A i \in 1..Len(chunk) : chunk[i] # Nul
    <3>1. ASSUME NEW i \in 1..Len(chunk) PROVE chunk[i] # Nul
      <4>1. i \in 1..e - o /\ o + i <= e
        BY <1>1, <1>3
      <4>2. chunk[i] = Nul => terminated /\ o + i = L
        BY <1>4, <4>1
      <4> QED
        BY <1>1, <1>6, <4>1, <4>2
    <3> QED
      BY <3>1
  <2>2. CString(chunk) = chunk
    BY <2>1, NoNul
  <2>3. Text(e) = e
    BY <1>6 DEF Text
  <2>4. Holds(chunk, M + 1, o, e)
    BY <1>1, <1>3, <1>4 DEF Holds
  <2> QED
    BY <2>2, <2>3, <2>4
<1> QED
  BY <1>5, <1>6

(* Two sequences of one are one of two.                                    *)
LEMMA TwoOf ==
  ASSUME NEW S, NEW a \in S, NEW b \in S
  PROVE  <<a>> \o <<b>> = <<a, b>>
<1>1. PICK s : s = <<a>>
  OBVIOUS
<1>2. s \in Seq(S) /\ Len(s) = 1 /\ s[1] = a
  BY <1>1
<1>3. PICK t : t = <<b>>
  OBVIOUS
<1>4. t \in Seq(S) /\ Len(t) = 1 /\ t[1] = b
  BY <1>3
<1>5. PICK u : u = <<a, b>>
  OBVIOUS
<1>6. u \in Seq(S) /\ Len(u) = 2 /\ u[1] = a /\ u[2] = b
  BY <1>5
<1>7. PICK v : v = s \o t
  OBVIOUS
<1>8. v \in Seq(S) /\ Joins(v, s, t)
  <2>1. s \in Seq(S) /\ t \in Seq(S)
    BY <1>2, <1>4
  <2> QED
    BY <1>7, <2>1, Joined, Zenon
<1>9. Len(v) = 2 /\ v[1] = a /\ v[2] = b
  <2>1. /\ Len(v) = Len(s) + Len(t)
        /\ \A i \in 1..Len(s) : v[i] = s[i]
        /\ \A i \in 1..Len(t) : v[Len(s) + i] = t[i]
    BY <1>8, Zenon DEF Joins
  <2>2. 1 \in 1..Len(s) /\ 1 \in 1..Len(t) /\ Len(s) + 1 = 2
          /\ Len(s) + Len(t) = 2
    BY <1>2, <1>4
  <2>3. v[1] = s[1] /\ v[Len(s) + 1] = t[1]
    BY <2>1, <2>2, Zenon
  <2> QED
    BY <1>2, <1>4, <2>1, <2>2, <2>3
<1>10. u = v
  <2>1. \A i \in 1..Len(u) : u[i] = v[i]
    BY <1>6, <1>9
  <2> QED
    BY <1>6, <1>8, <1>9, <2>1, SeqEqual
<1> QED
  BY <1>1, <1>3, <1>5, <1>7, <1>10

Outcome(m, o, e, result) ==
  /\ e <= BodyLength + 2 => result = [parsed |-> <<>>, pre |-> Had(m, e)]
  /\ e >= BodyLength + 4 /\ e <= L /\ o < BodyLength + 4 =>
       result = [parsed |-> <<Body(m)>>, pre |-> <<>>]
  /\ o >= BodyLength + 4 => result = [parsed |-> <<>>, pre |-> <<>>]
  /\ e > L /\ e <= L + BodyLength + 2 =>
       result = [parsed |-> <<Body(m)>>, pre |-> Had(m + 1, e - L)]
  /\ e > L + BodyLength + 2 =>
       result = [parsed |-> <<Body(m), Body(m + 1)>>, pre |-> <<>>]

(* do_recv has this outcome for every manageable chunk.                    *)
LEMMA Reads ==
  ASSUME terminated \in BOOLEAN, BodyLength <= MY_BUFSIZ,
         NEW m, NEW o, NEW e, Within(o, e),
         NEW chunk, NEW data, Holds(CString(chunk), m, o, Text(e)),
         o # 0 => data = Had(m, o)
  PROVE  Outcome(m, o, e, do_recv(data, chunk))
<1>1. /\ L \in Nat /\ L >= 5 /\ BodyLength \in Nat \ {0} /\ MY_BUFSIZ \in Nat
      /\ L = IF terminated THEN BodyLength + 5 ELSE BodyLength + 4
  BY Lengths
<1>2. PICK buff : buff = CString(chunk)
  OBVIOUS
<1>3. PICK f : f = Text(e)
  OBVIOUS
<1>4. Holds(buff, m, o, f)
  BY <1>2, <1>3
<1>5. /\ m \in Nat \ {0} /\ o \in Nat /\ f \in Nat /\ o <= f
      /\ buff \in Seq(Int) /\ Len(buff) = f - o
  BY <1>4 DEF Holds
<1>6. /\ o \in 0..L - 1 /\ e \in o + 1..L + L /\ e \in Nat
      /\ o # 1 /\ o # BodyLength + 3 /\ e # 1 /\ e # BodyLength + 3
      /\ e > L => ~terminated /\ o # 0 /\ e # L + 1 /\ e # L + BodyLength + 3
  BY <1>1 DEF Within
<1>7. f = IF terminated /\ e = L THEN L - 1 ELSE e
  BY <1>3 DEF Text
<1>8. PICK start : start = strstr(buff, Bar, Dash)
  OBVIOUS
<1>9. PICK end : end = strstr(buff, Dash, Bar)
  OBVIOUS
<1>10. start \in Int /\ end \in Int
  <2>1. /\ start = None \/ start \in 0..Len(buff) - 2
        /\ end = None \/ end \in 0..Len(buff) - 2
    BY <1>5, <1>8, <1>9, StrstrType
  <2> QED
    BY <2>1 DEF None
<1>11. PICK result : result = do_recv(data, chunk)
  OBVIOUS
<1>12. ByCase(data, buff, start, end, result)
  BY <1>2, <1>8, <1>9, <1>10, <1>11, RecvCases
<1>13. CASE e <= BodyLength + 2
  <2>1. f = e /\ e \in 2..BodyLength + 2 /\ o < BodyLength + 4 /\ ~(e > L)
        /\ ~(e >= BodyLength + 4) /\ ~(e > L + BodyLength + 2)
    BY <1>1, <1>6, <1>7, <1>13
  <2>2. CASE o = 0
    <3>1. Holds(buff, m, 0, e)
      BY <1>4, <2>1, <2>2
    <3>2. /\ start = 0 /\ end = None
          /\ FromStart(buff) = [parsed |-> <<>>, pre |-> Had(m, e)]
      BY <1>8, <1>9, <2>1, <3>1, StartRead
    <3>3. start # None
      BY <3>2 DEF None
    <3>4. result = [parsed |-> <<>>, pre |-> Had(m, e)]
      BY <1>12, <3>2, <3>3, Zenon DEF ByCase
    <3> QED
      BY <1>1, <1>6, <1>11, <1>13, <2>1, <3>4 DEF Outcome
  <2>3. CASE o # 0
    <3>1. o \in 2..BodyLength + 2 /\ e \in o..BodyLength + 2
      BY <1>1, <1>6, <2>1, <2>3
    <3>2. /\ start = None /\ end = None
          /\ Middle(Had(m, o), buff) = Had(m, e)
      BY <1>4, <1>8, <1>9, <2>1, <3>1, MiddleRead
    <3>3. result = [parsed |-> <<>>, pre |-> Middle(data, buff)]
      BY <1>12, <3>2, Zenon DEF ByCase
    <3>4. result = [parsed |-> <<>>, pre |-> Had(m, e)]
      BY <2>3, <3>2, <3>3
    <3> QED
      BY <1>1, <1>6, <1>11, <1>13, <2>1, <3>4 DEF Outcome
  <2> QED
    BY <2>2, <2>3
<1>14. CASE e >= BodyLength + 4 /\ e <= L /\ o < BodyLength + 4
  <2>1. f = BodyLength + 4 /\ ~(e <= BodyLength + 2)
          /\ ~(o >= BodyLength + 4) /\ ~(e > L)
        /\ ~(e > L + BodyLength + 2)
    BY <1>1, <1>6, <1>7, <1>14
  <2>2. CASE o = 0
    <3>1. Holds(buff, m, 0, f)
      BY <1>4, <2>2
    <3>2. /\ start = 0 /\ end = BodyLength + 2
          /\ FromStart(buff) = [parsed |-> <<Body(m)>>, pre |-> <<>>]
      BY <1>8, <1>9, <2>1, <3>1, WholeRead
    <3>3. start # None /\ start < end
      BY <1>1, <3>2 DEF None
    <3>4. result = [parsed |-> <<Body(m)>>, pre |-> <<>>]
      BY <1>12, <3>2, <3>3, Zenon DEF ByCase
    <3> QED
      BY <1>11, <2>1, <3>4, Zenon DEF Outcome
  <2>3. CASE o # 0
    <3>1. o \in 2..BodyLength + 2 /\ f >= BodyLength + 4
      BY <1>1, <1>6, <1>14, <2>1, <2>3
    <3>2. /\ end = BodyLength + 2 - o /\ start = None
          /\ EndOf(Had(m, o), buff, BodyLength + 2 - o) = <<Body(m)>>
      BY <1>4, <1>8, <1>9, <2>1, <3>1, EndRead
    <3>3. end # None
      BY <1>1, <3>1, <3>2 DEF None
    <3>4. result = [parsed |-> EndOf(data, buff, end), pre |-> <<>>]
      BY <1>12, <3>2, <3>3, Zenon DEF ByCase
    <3>5. result = [parsed |-> <<Body(m)>>, pre |-> <<>>]
      BY <2>3, <3>2, <3>4
    <3> QED
      BY <1>11, <2>1, <3>5, Zenon DEF Outcome
  <2> QED
    BY <2>2, <2>3
<1>15. CASE o >= BodyLength + 4
  <2>1. /\ terminated /\ e = L /\ o = f /\ ~(e <= BodyLength + 2)
        /\ ~(o < BodyLength + 4) /\ ~(e > L) /\ ~(e > L + BodyLength + 2)
        /\ o = BodyLength + 4 /\ o # 0
    BY <1>1, <1>5, <1>6, <1>7, <1>15
  <2>2. Len(buff) = 0 /\ buff = <<>>
    BY <1>5, <2>1
  <2>3. /\ \A i \in 1..Len(buff) - 1 : ~(buff[i] = Bar /\ buff[i + 1] = Dash)
        /\ \A i \in 1..Len(buff) - 1 : ~(buff[i] = Dash /\ buff[i + 1] = Bar)
    BY <2>2
  <2>4. start = None /\ end = None
    BY <1>8, <1>9, <2>3, StrstrNone
  <2>5. data = <<>>
    BY <1>1, <2>1 DEF Had
  <2>6. Middle(data, buff) = <<>>
    BY <2>2, <2>5 DEF Middle
  <2>7. result = [parsed |-> <<>>, pre |-> <<>>]
    BY <1>12, <2>4, <2>6, Zenon DEF ByCase
  <2> QED
    BY <1>11, <2>1, <2>7, Zenon DEF Outcome
<1>16. CASE e > L
  <2>1. /\ terminated = FALSE /\ f = e /\ ~(e <= BodyLength + 2)
        /\ ~(o >= BodyLength + 4) /\ ~(e <= L) /\ L = BodyLength + 4
        /\ o \in 2..BodyLength + 2 /\ f >= BodyLength + 4
    BY <1>1, <1>6, <1>7, <1>16
  <2>2. PICK h \in 2..L : h = e - L /\ f = L + h
    BY <1>1, <1>6, <1>16, <2>1
  <2>3. /\ end = BodyLength + 2 - o
        /\ EndOf(Had(m, o), buff, BodyLength + 2 - o) = <<Body(m)>>
    BY <1>4, <1>9, <2>1, EndRead
  <2>4. start = L - o /\ Holds(Drop(buff, L - o), m + 1, 0, h)
    <3>1. terminated = FALSE /\ o \in 2..BodyLength + 2 /\ f = L + h
      BY <2>1, <2>2
    <3>2. strstr(buff, Bar, Dash) = L - o
            /\ Holds(Drop(buff, L - o), m + 1, 0, h)
      BY <1>4, <3>1, NextRead
    <3> QED
      BY <1>8, <3>2, Zenon
  <2>5. start # None /\ end # None /\ end < start
    BY <1>1, <2>1, <2>3, <2>4 DEF None
  <2>6. PICK rest : rest = FromStart(Drop(buff, start))
    OBVIOUS
  <2>7. o # 0
    BY <2>1
  <2>8. result = [parsed |-> <<Body(m)>> \o rest.parsed, pre |-> rest.pre]
    <3>1. result = [parsed |-> EndOf(data, buff, end) \o rest.parsed,
            pre |-> rest.pre]
      BY <1>12, <2>5, <2>6, Zenon DEF ByCase
    <3>2. EndOf(data, buff, end) = <<Body(m)>>
      BY <2>3, <2>7, Zenon
    <3> QED
      BY <3>1, <3>2, Zenon
  <2>9. CASE h <= BodyLength + 2
    <3>1. rest = [parsed |-> <<>>, pre |-> Had(m + 1, h)]
      <4>1. h \in 2..BodyLength + 2
        BY <2>2, <2>9
      <4> QED
        BY <2>4, <2>6, <4>1, StartRead
    <3>2. <<Body(m)>> \o <<>> = <<Body(m)>>
      OBVIOUS
    <3>3. result = [parsed |-> <<Body(m)>>, pre |-> Had(m + 1, e - L)]
      BY <2>2, <2>8, <3>1, <3>2
    <3>4. ~(e > L + BodyLength + 2)
      BY <1>1, <1>6, <2>2, <2>9
    <3> QED
      BY <1>11, <2>1, <3>3, <3>4, Zenon DEF Outcome
  <2>10. CASE h > BodyLength + 2
    <3>1. h = BodyLength + 4
      BY <1>1, <1>6, <1>16, <2>1, <2>2, <2>10
    <3>2. rest = [parsed |-> <<Body(m + 1)>>, pre |-> <<>>]
      BY <2>4, <2>6, <3>1, WholeRead
    <3>3. <<Body(m)>> \o <<Body(m + 1)>> = <<Body(m), Body(m + 1)>>
      <4>1. PICK a \in Seq(Int) : a = Body(m)
        BY <1>5, BodyBytes
      <4>2. PICK b \in Seq(Int) : b = Body(m + 1)
        BY <1>5, BodyBytes
      <4>3. <<a>> \o <<b>> = <<a, b>>
        BY TwoOf, Zenon
      <4> QED
        BY <4>1, <4>2, <4>3
    <3>4. result = [parsed |-> <<Body(m), Body(m + 1)>>, pre |-> <<>>]
      BY <2>8, <3>2, <3>3
    <3>5. ~(e <= L + BodyLength + 2)
      BY <1>1, <1>6, <2>2, <2>10
    <3> QED
      BY <1>11, <2>1, <3>4, <3>5, Zenon DEF Outcome
  <2> QED
    BY <1>1, <2>2, <2>9, <2>10
<1> QED
  BY <1>1, <1>6, <1>13, <1>14, <1>15, <1>16

EndsIn(from, to) ==
  {m \in 1..Messages : (m - 1) * L + BodyLength + 4 \in from + 1..to}

(* The messages that end in a manageable chunk.                            *)
LEMMA EndsAre ==
  ASSUME terminated \in BOOLEAN, NEW from, NEW to, NEW chunk,
         IsChunk(from, to, chunk),
         NEW M \in Nat, NEW o, NEW e \in Nat, from = M * L + o, to = M * L + e,
         Within(o, e)
  PROVE  /\ e <= BodyLength + 2 \/ o >= BodyLength + 4 => EndsIn(from, to) = {}
         /\ e >= BodyLength + 4 /\ o < BodyLength + 4
              /\ e <= L + BodyLength + 2 =>
              EndsIn(from, to) = {M + 1}
         /\ e > L + BodyLength + 2 => EndsIn(from, to) = {M + 1, M + 2}
<1>1. /\ L \in Nat \ {0} /\ L >= 5 /\ BodyLength \in Nat \ {0}
           /\ Messages \in Nat \ {0}
      /\ L = IF terminated THEN BodyLength + 5 ELSE BodyLength + 4
      /\ from \in Nat /\ to \in Nat /\ from < to /\ to <= Messages * L
  BY Lengths, ChunkEnds
<1>2. /\ o \in 0..L - 1 /\ e \in o + 1..L + L
      /\ o # 1 /\ o # BodyLength + 3 /\ e # 1 /\ e # BodyLength + 3
      /\ e > L => ~terminated /\ o # 0 /\ e # L + 1 /\ e # L + BodyLength + 3
  BY <1>1 DEF Within
<1>3. PICK ML \in Nat : ML = M * L /\ (M + 1) * L = ML + L
  BY <1>1, Products
<1>4. PICK EL \in Nat : EL = Messages * L
  BY <1>1, Products
<1>5. M + 1 \in 1..Messages /\ (e > L => M + 2 \in 1..Messages)
  <2>1. Messages <= M => EL <= ML
    BY <1>1, <1>3, <1>4, Products
  <2>2. Messages <= M + 1 => EL <= ML + L
    <3>1. M + 1 \in Nat
      OBVIOUS
    <3>2. Messages <= M + 1 => Messages * L <= (M + 1) * L
      BY <1>1, <3>1, Products
    <3> QED
      BY <1>3, <1>4, <3>2
  <2> QED
    BY <1>1, <1>2, <1>3, <1>4, <2>1, <2>2
<1>6. ASSUME NEW m \in 1..Messages
      PROVE  m \in EndsIn(from, to) <=>
               \/ m = M + 1 /\ o < BodyLength + 4 /\ BodyLength + 4 <= e
               \/ m = M + 2 /\ L + BodyLength + 4 <= e
  <2>1. PICK a \in Nat : a = m - 1
    BY <1>1
  <2>2. PICK aL \in Nat : aL = a * L
    BY <1>1, Products
  <2>3. m \in EndsIn(from, to) <=> aL + BodyLength + 4 \in from + 1..to
    BY <1>1, <2>1, <2>2 DEF EndsIn
  <2>4. CASE a < M
    <3>1. (a + 1) * L <= M * L /\ (a + 1) * L = a * L + L
      BY <1>1, <2>4, Products
    <3>2. aL + L <= ML
      BY <1>3, <2>2, <3>1
    <3> QED
      BY <1>1, <1>2, <1>3, <2>1, <2>3, <2>4, <3>2
  <2>5. CASE a = M
    <3>1. aL = ML
      BY <1>3, <2>2, <2>5
    <3> QED
      BY <1>1, <1>2, <1>3, <2>1, <2>3, <2>5, <3>1
  <2>6. CASE a = M + 1
    <3>1. aL = ML + L
      BY <1>3, <2>2, <2>6
    <3> QED
      BY <1>1, <1>2, <1>3, <2>1, <2>3, <2>6, <3>1
  <2>7. CASE a > M + 1
    <3>1. PICK b \in Nat : b = M + 1
      OBVIOUS
    <3>2. b < a /\ b * L = ML + L
      BY <1>3, <2>7, <3>1
    <3>3. (b + 1) * L <= a * L /\ (b + 1) * L = b * L + L
      BY <1>1, <3>2, Products
    <3>4. ML + L + L <= aL
      BY <1>1, <2>2, <3>2, <3>3
    <3> QED
      BY <1>1, <1>2, <1>3, <2>1, <2>3, <2>7, <3>4
  <2> QED
    BY <2>1, <2>4, <2>5, <2>6, <2>7
<1>7. EndsIn(from, to) \subseteq 1..Messages
  BY DEF EndsIn
<1>8. e > L + BodyLength + 2 => L + BodyLength + 4 <= e
  BY <1>1, <1>2
<1>9. /\ e <= BodyLength + 2 => e < BodyLength + 4 /\ e < L + BodyLength + 4
      /\ e > L + BodyLength + 2 => o < BodyLength + 4
           /\ BodyLength + 4 <= e /\ e > L
      /\ e <= L + BodyLength + 2 => e < L + BodyLength + 4
      /\ o >= BodyLength + 4 => e < L + BodyLength + 4
  BY <1>1, <1>2
<1>10. e <= BodyLength + 2 \/ o >= BodyLength + 4 => EndsIn(from, to) = {}
  BY <1>1, <1>2, <1>6, <1>7, <1>9
<1>11. ASSUME e >= BodyLength + 4, o < BodyLength + 4, e <= L + BodyLength + 2
       PROVE  EndsIn(from, to) = {M + 1}
  <2>1. \A m \in 1..Messages : m \in EndsIn(from, to) <=> m = M + 1
    BY <1>1, <1>2, <1>6, <1>9, <1>11
  <2> QED
    BY <1>5, <1>7, <2>1
<1>12. ASSUME e > L + BodyLength + 2
       PROVE  EndsIn(from, to) = {M + 1, M + 2}
  <2>1. \A m \in 1..Messages :
          m \in EndsIn(from, to) <=> m = M + 1 \/ m = M + 2
    BY <1>6, <1>8, <1>9, <1>12
  <2> QED
    BY <1>5, <1>7, <1>9, <1>12, <2>1
<1> QED
  BY <1>10, <1>11, <1>12

(* The bodies of the messages that end, and what is remembered.            *)
LEMMA ParsedAre ==
  ASSUME terminated \in BOOLEAN, NEW from, NEW to, NEW chunk,
         IsChunk(from, to, chunk),
         NEW M \in Nat, NEW o, NEW e \in Nat, from = M * L + o, to = M * L + e,
         Within(o, e), NEW result, Outcome(M + 1, o, e, result)
  PROVE  /\ result.parsed = [i \in 1..Cardinality(EndsIn(from, to)) |->
                                Body((M + 1) + i - 1)]
         /\ result.pre = Had(MessageAt(to), Offset(to))
<1>1. /\ L \in Nat \ {0} /\ L >= 5 /\ BodyLength \in Nat \ {0}
           /\ Messages \in Nat \ {0}
      /\ L = IF terminated THEN BodyLength + 5 ELSE BodyLength + 4
  BY Lengths
<1>2. /\ o \in 0..L - 1 /\ e \in o + 1..L + L
      /\ o # 1 /\ o # BodyLength + 3 /\ e # 1 /\ e # BodyLength + 3
      /\ e > L => ~terminated /\ o # 0 /\ e # L + 1 /\ e # L + BodyLength + 3
  BY <1>1 DEF Within
<1>3. /\ e < L => Offset(to) = e /\ MessageAt(to) = M + 1
      /\ e = L => Offset(to) = 0
      /\ e > L /\ e < L + L => Offset(to) = e - L /\ MessageAt(to) = M + 2
      /\ e = L + L => Offset(to) = 0
  <2>1. ASSUME e < L PROVE Offset(to) = e /\ MessageAt(to) = M + 1
    <3>1. e \in 0..L - 1
      BY <1>1, <2>1
    <3> QED
      BY <1>1, <3>1, DivisionUnique DEF Offset, MessageAt, L
  <2>2. (M + 1) * L = M * L + L /\ (M + 2) * L = M * L + L + L /\ M * L \in Nat
    BY <1>1, Products
  <2>3. ASSUME NEW a \in Nat, NEW b \in 0..L - 1, to = a * L + b
        PROVE  Offset(to) = b /\ MessageAt(to) = a + 1
    <3>1. (a * L + b) \div L = a /\ (a * L + b) % L = b
      BY <1>1, DivisionUnique
    <3>2. to \div L = a /\ to % L = b
      BY <2>3, <3>1
    <3> QED
      BY <3>2 DEF Offset, MessageAt, L
  <2>4. ASSUME e = L PROVE Offset(to) = 0
    <3>1. 0 \in 0..L - 1 /\ M + 1 \in Nat /\ to = (M + 1) * L + 0
      BY <1>1, <2>2, <2>4
    <3> QED
      BY <2>3, <3>1
  <2>5. ASSUME e > L, e < L + L
        PROVE  Offset(to) = e - L /\ MessageAt(to) = M + 2
    <3>1. e - L \in 0..L - 1 /\ M + 1 \in Nat /\ to = (M + 1) * L + (e - L)
      BY <1>1, <2>2, <2>5
    <3>2. Offset(to) = e - L /\ MessageAt(to) = (M + 1) + 1
      BY <2>3, <3>1
    <3> QED
      BY <3>2
  <2>6. ASSUME e = L + L PROVE Offset(to) = 0
    <3>1. 0 \in 0..L - 1 /\ M + 2 \in Nat /\ to = (M + 2) * L + 0
      BY <1>1, <2>2, <2>6
    <3> QED
      BY <2>3, <3>1
  <2> QED
    BY <2>1, <2>4, <2>5, <2>6
<1>4. \A m, n : n \in Int /\ (n <= 2 \/ n > BodyLength + 2) => Had(m, n) = <<>>
  BY <1>1 DEF Had
<1>5. PICK ends : ends = EndsIn(from, to)
  OBVIOUS
<1>6. PICK bodies : bodies
             = [i \in 1..Cardinality(ends) |-> Body((M + 1) + i - 1)]
  OBVIOUS
<1>7. /\ ends = {} => bodies = <<>>
      /\ ends = {M + 1} => bodies = <<Body(M + 1)>>
      /\ ends = {M + 1, M + 2} => bodies = <<Body(M + 1), Body((M + 1) + 1)>>
  <2>1. ASSUME ends = {} PROVE bodies = <<>>
    <3>1. Cardinality(ends) = 0
      BY <2>1, FS_EmptySet
    <3> QED
      BY <1>6, <3>1
  <2>2. ASSUME ends = {M + 1} PROVE bodies = <<Body(M + 1)>>
    <3>1. Cardinality(ends) = 1
      BY <2>2, FS_Singleton
    <3>2. bodies = [i \in 1..1 |-> Body((M + 1) + i - 1)]
      BY <1>6, <3>1
    <3>3. (M + 1) + 1 - 1 = M + 1
      OBVIOUS
    <3> QED
      BY <3>2, <3>3
  <2>3. ASSUME ends = {M + 1, M + 2}
        PROVE  bodies = <<Body(M + 1), Body((M + 1) + 1)>>
    <3>1. Cardinality(ends) = 2
      <4>1. IsFiniteSet({M + 1}) /\ Cardinality({M + 1}) = 1
        BY FS_Singleton
      <4>2. M + 2 \notin {M + 1} /\ ends = {M + 1} \cup {M + 2}
        BY <2>3
      <4>3. Cardinality({M + 1} \cup {M + 2}) = Cardinality({M + 1}) + 1
        BY <4>1, <4>2, FS_AddElement
      <4> QED
        BY <4>1, <4>2, <4>3
    <3>2. bodies = [i \in 1..2 |-> Body((M + 1) + i - 1)]
      BY <1>6, <3>1
    <3>3. (M + 1) + 1 - 1 = M + 1 /\ (M + 1) + 2 - 1 = (M + 1) + 1
      OBVIOUS
    <3> QED
      BY <3>2, <3>3
  <2> QED
    BY <2>1, <2>2, <2>3
<1>8. PICK m : m = M + 1 /\ m + 1 = M + 2
  OBVIOUS
<1>9. Outcome(m, o, e, result)
  BY <1>8
<1>10. CASE e <= BodyLength + 2
  <2>1. result = [parsed |-> <<>>, pre |-> Had(m, e)]
    BY <1>9, <1>10, Zenon DEF Outcome
  <2>2. bodies = <<>>
    BY <1>5, <1>7, <1>10, EndsAre
  <2>3. Offset(to) = e /\ MessageAt(to) = m
    BY <1>1, <1>3, <1>8, <1>10
  <2> QED
    BY <1>5, <1>6, <2>1, <2>2, <2>3
<1>11. CASE e >= BodyLength + 4 /\ e <= L /\ o < BodyLength + 4
  <2>1. result = [parsed |-> <<Body(m)>>, pre |-> <<>>]
    BY <1>9, <1>11, Zenon DEF Outcome
  <2>2. bodies = <<Body(m)>>
    <3>1. e <= L + BodyLength + 2
      BY <1>1, <1>11
    <3> QED
      BY <1>5, <1>7, <1>8, <1>11, <3>1, EndsAre
  <2>3. Had(MessageAt(to), Offset(to)) = <<>>
    BY <1>1, <1>3, <1>4, <1>11
  <2> QED
    BY <1>5, <1>6, <2>1, <2>2, <2>3
<1>12. CASE o >= BodyLength + 4
  <2>1. result = [parsed |-> <<>>, pre |-> <<>>]
    BY <1>9, <1>12, Zenon DEF Outcome
  <2>2. bodies = <<>>
    BY <1>5, <1>7, <1>12, EndsAre
  <2>3. Had(MessageAt(to), Offset(to)) = <<>>
    <3>1. e = L
      BY <1>1, <1>2, <1>12
    <3> QED
      BY <1>3, <1>4, <3>1
  <2> QED
    BY <1>5, <1>6, <2>1, <2>2, <2>3
<1>13. CASE e > L /\ e <= L + BodyLength + 2
  <2>1. result = [parsed |-> <<Body(m)>>, pre |-> Had(m + 1, e - L)]
    BY <1>9, <1>13, Zenon DEF Outcome
  <2>2. bodies = <<Body(m)>>
    <3>1. e >= BodyLength + 4 /\ o < BodyLength + 4
      BY <1>1, <1>2, <1>13
    <3> QED
      BY <1>5, <1>7, <1>8, <1>13, <3>1, EndsAre
  <2>3. Offset(to) = e - L /\ MessageAt(to) = m + 1
    BY <1>1, <1>2, <1>3, <1>8, <1>13
  <2> QED
    BY <1>5, <1>6, <2>1, <2>2, <2>3
<1>14. CASE e > L + BodyLength + 2
  <2>1. result = [parsed |-> <<Body(m), Body(m + 1)>>, pre |-> <<>>]
    BY <1>9, <1>14, Zenon DEF Outcome
  <2>2. bodies = <<Body(m), Body(m + 1)>>
    BY <1>5, <1>7, <1>8, <1>14, EndsAre
  <2>3. Had(MessageAt(to), Offset(to)) = <<>>
    <3>1. e = L + L
      BY <1>1, <1>2, <1>14
    <3> QED
      BY <1>3, <1>4, <3>1
  <2> QED
    BY <1>5, <1>6, <2>1, <2>2, <2>3
<1> QED
  BY <1>1, <1>2, <1>10, <1>11, <1>12, <1>13, <1>14

(* While the chunks are manageable do_recv parses every message that ends, *)
(* once, and remembers exactly what it has of the next.                    *)
THEOREM CleanMessagesAreParsed ==
  ASSUME BodyLength < MY_BUFSIZ
  PROVE  Spec => []CleanIsParsed
<1>1. Init => CleanIsParsed
  BY DEF Init, CleanIsParsed
<1>3. BodyLength \in Nat /\ MY_BUFSIZ \in Nat /\ BodyLength <= MY_BUFSIZ
  BY LengthsAssumption
<1>4. ~(BodyLength >= MY_BUFSIZ)
  BY <1>3
<1>2. CleanIsParsed /\ TypeOK /\ [Next]_vars => CleanIsParsed'
  <2>1. SUFFICES ASSUME CleanIsParsed, TypeOK, [Next]_vars PROVE CleanIsParsed'
    OBVIOUS
  <2>2. CASE UNCHANGED vars
    <3>1. FramedLength' = FramedLength
      BY <2>2, Same DEF vars
    <3> QED
      BY <2>1, <2>2, <3>1
      DEF CleanIsParsed, Ended, MessageAt, Offset, Overrun, vars
  <2>3. CASE Receive
    <3>1. PICK n \in 1..MY_BUFSIZ - 1, chunk \in Seq(Int) :
             /\ IsChunk(pos, pos + n, chunk)
             /\ parsed' = do_recv(pre_read_buff, chunk).parsed
             /\ pre_read_buff' = do_recv(pre_read_buff, chunk).pre
             /\ clean' = (Manageable(pos, pos + n) /\ (clean \/ Starts(pos)))
             /\ last' = pos /\ pos' = pos + n /\ terminated' = terminated
      BY <2>1, <2>3, ReceiveIs
    <3>2. SUFFICES ASSUME clean' PROVE CleanIsParsed'
      BY DEF CleanIsParsed
    <3>3. Manageable(pos, pos + n) /\ (clean \/ Starts(pos))
      BY <3>1, <3>2
    <3>4. terminated \in BOOLEAN
      BY <2>1 DEF TypeOK
    <3>5. L \in Nat \ {0} /\ pos \in Nat
      BY <3>1, <3>4, Lengths, ChunkEnds
    <3>6. PICK M \in Nat, o \in 0..L - 1 :
            pos = M * L + o /\ M = pos \div L /\ o = pos % L
      BY <3>5, Division
    <3>7. MessageAt(pos) = M + 1 /\ Offset(pos) = o
      BY <3>6 DEF MessageAt, Offset, L
    <3>8. o # 0 => pre_read_buff = Had(M + 1, o)
      <4>1. o # 0 => clean
        BY <3>3, <3>7 DEF Starts
      <4>2. clean => pre_read_buff = Had(MessageAt(pos), Offset(pos))
        BY <2>1, Zenon DEF CleanIsParsed, Had
      <4> QED
        BY <3>7, <4>1, <4>2
    <3>9. PICK e \in Nat : pos + n = M * L + e /\ Within(o, e)
      BY <3>1, <3>3, <3>4, <3>6, ManageableIs
    <3>10. Holds(CString(chunk), M + 1, o, Text(e))
      BY <3>1, <3>4, <3>6, <3>9, TextOfChunk
    <3>11. PICK result : result = do_recv(pre_read_buff, chunk)
      OBVIOUS
    <3>12. Outcome(M + 1, o, e, result)
      BY <1>3, <3>4, <3>8, <3>9, <3>10, <3>11, Reads
    <3>13. /\ result.parsed = [i \in 1..Cardinality(EndsIn(pos, pos + n)) |->
                                 Body((M + 1) + i - 1)]
           /\ result.pre = Had(MessageAt(pos + n), Offset(pos + n))
      BY <3>1, <3>4, <3>6, <3>9, <3>12, ParsedAre
    <3>14. FramedLength' = FramedLength
      BY <3>1, Same
    <3>15. Ended' = EndsIn(pos, pos + n)
      BY <3>1, <3>14 DEF Ended, EndsIn, L
    <3>16. /\ MessageAt(last)' = M + 1
           /\ MessageAt(pos)' = MessageAt(pos + n)
           /\ Offset(pos)' = Offset(pos + n)
      BY <3>1, <3>7, <3>14 DEF MessageAt, Offset
    <3>17. parsed' = [i \in 1..Cardinality(Ended') |->
                        Body(MessageAt(last)' + i - 1)]
      BY <3>1, <3>11, <3>13, <3>15, <3>16
    <3>18. pre_read_buff' = Had(MessageAt(pos)', Offset(pos)')
      BY <3>1, <3>11, <3>13, <3>16
    <3>19. ~Overrun'
      <4>1. Len(pre_read_buff') \in 0..BodyLength
        <5>1. MessageAt(pos + n) \in Nat \ {0}
          <6>1. pos + n \in Nat
            BY <3>1, <3>5, <1>3
          <6>2. PICK N \in Nat : N = (pos + n) \div L
            BY <3>5, <6>1, Division
          <6> QED
            BY <6>2 DEF MessageAt, L
        <5> QED
          BY <3>1, <3>4, <3>11, <3>13, <5>1, HadShort
      <4>2. ASSUME NEW i \in DOMAIN parsed' PROVE Len(parsed'[i]) = BodyLength
        <5>1. PICK k : k = Cardinality(EndsIn(pos, pos + n))
          OBVIOUS
        <5>2. parsed' = [j \in 1..k |-> Body((M + 1) + j - 1)]
          BY <3>1, <3>11, <3>13, <5>1
        <5>3. i \in 1..k /\ parsed'[i] = Body((M + 1) + i - 1)
          BY <4>2, <5>2
        <5>4. (M + 1) + i - 1 \in Nat \ {0}
          BY <5>3
        <5> QED
          BY <3>4, <5>3, <5>4, BodyBytes
      <4>3. /\ ~(Len(pre_read_buff') >= MY_BUFSIZ)
            /\ \A i \in DOMAIN parsed' : ~(Len(parsed'[i]) >= MY_BUFSIZ)
        BY <1>3, <1>4, <4>1, <4>2
      <4> QED
        BY <4>3, Zenon DEF Overrun
    <3> QED
      BY <3>17, <3>18, <3>19 DEF CleanIsParsed, Had
  <2> QED
    BY <2>1, <2>2, <2>3 DEF Next
<1> QED
  BY <1>1, <1>2, TypeCorrect, PTL DEF Spec

=============================================================================
