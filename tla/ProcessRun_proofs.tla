-------------------------- MODULE ProcessRun_proofs --------------------------
(***************************************************************************)
(* Proofs about ProcessRun, for every limit, every size of the pipes,      *)
(* every amount of output and every chunking of it.                        *)
(***************************************************************************)
EXTENDS ProcessRun, SequenceTheorems, TLAPS

Units == Streams \X Int

(* A quarter of the limit and the rest of it.                              *)
LEMMA Halves ==
    ASSUME NEW n \in Nat
    PROVE  /\ HeadLimit(n) \in Nat /\ TailLimit(n) \in Nat
           /\ HeadLimit(n) + TailLimit(n) = n
           /\ n > 0 => TailLimit(n) > 0
BY SMT DEF HeadLimit, TailLimit

LEMMA LeastIs ==
    ASSUME NEW a \in Int, NEW b \in Int
    PROVE  /\ Least(a, b) \in Int /\ Least(a, b) <= a /\ Least(a, b) <= b
           /\ a <= b => Least(a, b) = a
           /\ b <= a => Least(a, b) = b
BY DEF Least

-----------------------------------------------------------------------------
(* The numbered bytes of a stream.                                         *)
LEMMA BytesAre ==
    ASSUME NEW s \in Streams, NEW a \in Int, NEW b \in Int, NEW n \in Nat, n = b - a + 1
    PROVE  /\ Bytes(s, a, b) \in Seq(Units)
           /\ Len(Bytes(s, a, b)) = n
           /\ \A i \in 1 .. n : Bytes(s, a, b)[i] = <<s, a + i - 1>>
<1> DEFINE e(i) == <<s, a + i - 1>>
<1>1. \A i \in 1 .. n : e(i) \in Units
  BY DEF Units
<1>2. [i \in 1 .. n |-> e(i)] \in Seq(Units)
  <2> HIDE DEF e
  <2> QED
    BY <1>1, IsASeq
<1>3. Bytes(s, a, b) = [i \in 1 .. n |-> e(i)]
  BY DEF Bytes
<1>4. Bytes(s, a, b) \in Seq(Units) /\ DOMAIN Bytes(s, a, b) = 1 .. n
  BY <1>2, <1>3
<1>5. Len(Bytes(s, a, b)) = n
  BY <1>4, LenProperties
<1>6. QED
  BY <1>3, <1>4, <1>5

LEMMA BytesJoin ==
    ASSUME NEW s \in Streams, NEW a \in Int, NEW b \in Int, NEW c \in Int,
           b >= a - 1, c >= b
    PROVE  Bytes(s, a, b) \o Bytes(s, b + 1, c) = Bytes(s, a, c)
<1> DEFINE x == Bytes(s, a, b)
           y == Bytes(s, b + 1, c)
           z == Bytes(s, a, c)
<1>1. x \in Seq(Units) /\ Len(x) = b - a + 1 /\ \A i \in 1 .. b - a + 1 : x[i] = <<s, a + i - 1>>
  <2>1. b - a + 1 \in Nat
    OBVIOUS
  <2> QED
    BY <2>1, BytesAre
<1>2. /\ y \in Seq(Units) /\ Len(y) = c - b
      /\ \A i \in 1 .. c - b : y[i] = <<s, b + 1 + i - 1>>
  <2> DEFINE d == b + 1
             n == c - b
  <2>1. d \in Int /\ n \in Nat /\ n = c - d + 1
    OBVIOUS
  <2> HIDE DEF d, n
  <2>2. /\ Bytes(s, d, c) \in Seq(Units) /\ Len(Bytes(s, d, c)) = n
        /\ \A i \in 1 .. n : Bytes(s, d, c)[i] = <<s, d + i - 1>>
    BY <2>1, BytesAre
  <2> QED
    BY <2>2 DEF d, n
<1>3. z \in Seq(Units) /\ Len(z) = c - a + 1 /\ \A i \in 1 .. c - a + 1 : z[i] = <<s, a + i - 1>>
  <2>1. c - a + 1 \in Nat
    OBVIOUS
  <2> QED
    BY <2>1, BytesAre
<1> HIDE DEF x, y, z
<1>4. /\ x \o y \in Seq(Units) /\ Len(x \o y) = Len(x) + Len(y)
      /\ \A i \in 1 .. Len(x) + Len(y) : (x \o y)[i] = IF i <= Len(x) THEN x[i] ELSE y[i - Len(x)]
  BY <1>1, <1>2, ConcatProperties
<1>5. Len(x \o y) = Len(z)
  BY <1>1, <1>2, <1>3, <1>4
<1>6. ASSUME NEW i \in 1 .. Len(z)
      PROVE  (x \o y)[i] = z[i]
  <2>0. i \in 1 .. c - a + 1 /\ i \in 1 .. Len(x) + Len(y) /\ Len(x) \in Int /\ i \in Int
        /\ z[i] = <<s, a + i - 1>>
    BY <1>1, <1>2, <1>3
  <2>1. CASE i <= Len(x)
    <3>1. (x \o y)[i] = x[i] /\ i \in 1 .. b - a + 1
      BY <2>0, <2>1, <1>1, <1>4
    <3>2. QED
      BY <3>1, <2>0, <1>1
  <2>2. CASE i > Len(x)
    <3>1. PICK j \in 1 .. c - b : j = i - Len(x) /\ b + 1 + j - 1 = a + i - 1
      BY <2>0, <2>2, <1>1
    <3>2. (x \o y)[i] = y[j]
      BY <2>0, <2>2, <3>1, <1>4
    <3>3. y[j] = <<s, a + i - 1>>
      BY <3>1, <1>2
    <3>4. QED
      BY <2>0, <3>2, <3>3
  <2>3. QED
    BY <2>0, <2>1, <2>2
<1>7. x \o y = z
  BY <1>3, <1>4, <1>5, <1>6, SeqEqual
<1>8. QED
  BY <1>7 DEF x, y, z

LEMMA BytesFront ==
    ASSUME NEW s \in Streams, NEW a \in Int, NEW b \in Int, b >= a - 1, NEW n \in Nat
    PROVE  Front(Bytes(s, a, b), n) = Bytes(s, a, a - 1 + Least(n, b - a + 1))
<1> DEFINE x == Bytes(s, a, b)
           m == Least(n, b - a + 1)
           y == Bytes(s, a, a - 1 + m)
<1>1. x \in Seq(Units) /\ Len(x) = b - a + 1 /\ \A i \in 1 .. b - a + 1 : x[i] = <<s, a + i - 1>>
  <2>1. b - a + 1 \in Nat
    OBVIOUS
  <2> QED
    BY <2>1, BytesAre
<1>2. m \in Nat /\ m <= b - a + 1
  BY LeastIs DEF Least
<1>3. /\ y \in Seq(Units) /\ Len(y) = m
      /\ \A i \in 1 .. m : y[i] = <<s, a + i - 1>>
  <2> HIDE DEF m
  <2> DEFINE d == a - 1 + m
  <2>1. d \in Int /\ m = d - a + 1
    BY <1>2
  <2> HIDE DEF d
  <2>2. /\ Bytes(s, a, d) \in Seq(Units) /\ Len(Bytes(s, a, d)) = m
        /\ \A i \in 1 .. m : Bytes(s, a, d)[i] = <<s, a + i - 1>>
    BY <1>2, <2>1, BytesAre
  <2> QED
    BY <2>2 DEF d
<1>4. Front(x, n) = SubSeq(x, 1, m)
  BY <1>1 DEF Front
<1> HIDE DEF x, y, m
<1>5. /\ SubSeq(x, 1, m) \in Seq(Units) /\ Len(SubSeq(x, 1, m)) = m
      /\ \A i \in 1 .. m : SubSeq(x, 1, m)[i] = x[i]
  <2>1. \A i \in 1 .. m : x[i] \in Units
    BY <1>1, <1>2, ElementOfSeq
  <2>2. /\ SubSeq(x, 1, m) \in Seq(Units)
        /\ Len(SubSeq(x, 1, m)) = IF 1 <= m THEN m - 1 + 1 ELSE 0
        /\ \A i \in 1 .. m - 1 + 1 : SubSeq(x, 1, m)[i] = x[1 + i - 1]
    BY <2>1, <1>2, SubSeqProperties
  <2> QED
    BY <2>2, <1>2
<1>6. \A i \in 1 .. m : SubSeq(x, 1, m)[i] = y[i]
  <2> SUFFICES ASSUME NEW i \in 1 .. m
               PROVE  SubSeq(x, 1, m)[i] = y[i]
    OBVIOUS
  <2>1. i \in 1 .. b - a + 1
    BY <1>2
  <2> QED
    BY <2>1, <1>1, <1>3, <1>5
<1>7. SubSeq(x, 1, m) = y
  BY <1>3, <1>5, <1>6, SeqEqual
<1>8. QED
  BY <1>4, <1>7 DEF x, y, m

LEMMA BytesAfter ==
    ASSUME NEW s \in Streams, NEW a \in Int, NEW b \in Int, NEW n \in 0 .. b - a + 1
    PROVE  After(Bytes(s, a, b), n) = Bytes(s, a + n, b)
<1> DEFINE x == Bytes(s, a, b)
           y == Bytes(s, a + n, b)
           m == b - a + 1 - n
<1>1. /\ b >= a - 1
      /\ x \in Seq(Units) /\ Len(x) = b - a + 1
      /\ \A i \in 1 .. b - a + 1 : x[i] = <<s, a + i - 1>>
  <2>1. b >= a - 1 /\ b - a + 1 \in Nat
    OBVIOUS
  <2> QED
    BY <2>1, BytesAre
<1>2. m \in Nat
  OBVIOUS
<1>3. /\ y \in Seq(Units) /\ Len(y) = m
      /\ \A i \in 1 .. m : y[i] = <<s, a + n + i - 1>>
  <2> DEFINE d == a + n
  <2>1. d \in Int /\ m \in Nat /\ m = b - d + 1
    OBVIOUS
  <2> HIDE DEF d, m
  <2>2. /\ Bytes(s, d, b) \in Seq(Units) /\ Len(Bytes(s, d, b)) = m
        /\ \A i \in 1 .. m : Bytes(s, d, b)[i] = <<s, d + i - 1>>
    BY <2>1, BytesAre
  <2> QED
    BY <2>2 DEF d
<1>4. After(x, n) = SubSeq(x, n + 1, Len(x))
  BY DEF After
<1> HIDE DEF x, y
<1>5. /\ SubSeq(x, n + 1, Len(x)) \in Seq(Units) /\ Len(SubSeq(x, n + 1, Len(x))) = m
      /\ \A i \in 1 .. m : SubSeq(x, n + 1, Len(x))[i] = x[n + i]
  <2>1. \A i \in n + 1 .. Len(x) : x[i] \in Units
    BY <1>1, ElementOfSeq
  <2>2. n + 1 \in Int /\ Len(x) \in Int
    BY <1>1
  <2>3. /\ SubSeq(x, n + 1, Len(x)) \in Seq(Units)
        /\ Len(SubSeq(x, n + 1, Len(x))) = IF n + 1 <= Len(x) THEN Len(x) - (n + 1) + 1 ELSE 0
        /\ \A i \in 1 .. Len(x) - (n + 1) + 1 : SubSeq(x, n + 1, Len(x))[i] = x[n + 1 + i - 1]
    BY <2>1, <2>2, SubSeqProperties
  <2>4. \A i \in Int : n + 1 + i - 1 = n + i
    OBVIOUS
  <2> QED
    BY <2>3, <2>4, <1>1, <1>2
<1>6. \A i \in 1 .. m : SubSeq(x, n + 1, Len(x))[i] = y[i]
  <2> SUFFICES ASSUME NEW i \in 1 .. m
               PROVE  SubSeq(x, n + 1, Len(x))[i] = y[i]
    OBVIOUS
  <2>1. PICK j \in 1 .. b - a + 1 : j = n + i /\ a + j - 1 = a + n + i - 1
    OBVIOUS
  <2>2. SubSeq(x, n + 1, Len(x))[i] = x[j]
    BY <2>1, <1>5
  <2> QED
    BY <2>1, <2>2, <1>1, <1>3
<1>7. SubSeq(x, n + 1, Len(x)) = y
  BY <1>3, <1>5, <1>6, SeqEqual
<1>8. QED
  BY <1>4, <1>7 DEF x, y

LEMMA BytesEmpty ==
    ASSUME NEW s \in Streams, NEW a \in Int, NEW b \in Int, b = a - 1
    PROVE  Bytes(s, a, b) = <<>>
<1>1. Bytes(s, a, b) \in Seq(Units) /\ Len(Bytes(s, a, b)) = 0
  BY BytesAre
<1>2. QED
  BY <1>1, EmptySeq

-----------------------------------------------------------------------------
(* A buffer that holds the head and the tail of n bytes holds those of     *)
(* n + k bytes after k more were appended to it: the heart of the matter,  *)
(* for every limit and wherever the chunk begins and ends.                 *)
LEMMA WriteKeepsEnds ==
    ASSUME limit \in Nat, NEW s \in Streams, NEW n \in Nat, NEW k \in Nat
    PROVE  Write(limit, Kept(s, n), Bytes(s, n + 1, n + k)) = Kept(s, n + k)
<1> DEFINE H == HeadLimit(limit)
           T == TailLimit(limit)
           data == Bytes(s, n + 1, n + k)
           h == Least(n, H)
           t == Least(n - h, T)
           room == H - h
           h2 == Least(room, k)
           L == k - h2 + t
           t2 == Least(L, T)
           m == n + k
<1>1. H \in Nat /\ T \in Nat
  BY Halves
<1>2. h \in Nat /\ h <= n /\ (h = n \/ h = H) /\ h <= H
  BY <1>1 DEF Least
<1>3. t \in Nat /\ t <= n - h /\ (t = n - h \/ t = T) /\ t <= T
  <2> HIDE DEF h, T
  <2> QED
    BY <1>1, <1>2 DEF Least
<1>4. room \in Nat /\ h2 \in Nat /\ h2 <= k /\ h2 <= room /\ (h2 = room \/ h2 = k)
  <2> HIDE DEF h, H
  <2> QED
    BY <1>1, <1>2 DEF Least
<1>5. L \in Nat /\ t2 \in Nat /\ t2 <= L
  <2> HIDE DEF h2, t, T
  <2> QED
    BY <1>1, <1>3, <1>4 DEF Least
<1> HIDE DEF H, T
<1>6. Least(m, H) = h + h2
  BY <1>1, <1>2, <1>4 DEF Least
<1>7. Least(m - (h + h2), T) = t2
  BY <1>1, <1>2, <1>3, <1>4, <1>5 DEF Least
<1>8. Kept(s, n) = [head |-> Bytes(s, 1, h), tail |-> Bytes(s, n - t + 1, n), dropped |-> n - h - t]
  BY DEF Kept, H, T
<1>9. Kept(s, m) = [head |-> Bytes(s, 1, h + h2), tail |-> Bytes(s, m - t2 + 1, m),
                    dropped |-> m - (h + h2) - t2]
  BY <1>6, <1>7 DEF Kept, H, T
<1>10. h2 > 0 => h = n /\ t = 0
  BY <1>1, <1>2, <1>3, <1>4
<1> HIDE DEF h, h2, t, t2, room
<1>11. Len(Bytes(s, 1, h)) = h /\ Len(data) = k
  <2>1. Len(Bytes(s, 1, h)) = h
    BY <1>2, BytesAre
  <2> DEFINE d == n + 1
  <2>2. d \in Int /\ m \in Int /\ k = m - d + 1
    OBVIOUS
  <2> HIDE DEF d, m
  <2>3. Len(Bytes(s, d, m)) = k
    BY <2>2, BytesAre
  <2> QED
    BY <2>1, <2>3 DEF d, m
<1>12. Front(data, room) = Bytes(s, n + 1, n + h2)
  <2> DEFINE d == n + 1
  <2>1. d \in Int /\ m \in Int /\ m >= d - 1 /\ m - d + 1 = k /\ d - 1 + h2 = n + h2
    BY <1>4
  <2> HIDE DEF d, m
  <2>2. Front(Bytes(s, d, m), room) = Bytes(s, d, d - 1 + Least(room, m - d + 1))
    BY <2>1, <1>4, BytesFront
  <2>3. Front(Bytes(s, d, m), room) = Bytes(s, d, n + h2)
    BY <2>1, <2>2 DEF h2
  <2> QED
    BY <2>3 DEF d, m
<1>13. After(data, h2) = Bytes(s, n + h2 + 1, m)
  <2> DEFINE d == n + 1
  <2>1. d \in Int /\ m \in Int /\ h2 \in 0 .. m - d + 1 /\ d + h2 = n + h2 + 1
    BY <1>4
  <2> HIDE DEF d, m
  <2>2. After(Bytes(s, d, m), h2) = Bytes(s, d + h2, m)
    BY <2>1, BytesAfter
  <2>3. After(Bytes(s, d, m), h2) = Bytes(s, n + h2 + 1, m)
    BY <2>1, <2>2
  <2> QED
    BY <2>3 DEF d, m
<1>14. Bytes(s, 1, h) \o Bytes(s, n + 1, n + h2) = Bytes(s, 1, h + h2)
  <2>1. CASE h = n
    <3> DEFINE b == n + h2
    <3>1. b \in Int /\ 1 \in Int /\ n \in Int /\ n >= 1 - 1 /\ b >= n
      BY <1>4
    <3> HIDE DEF b
    <3>2. Bytes(s, 1, n) \o Bytes(s, n + 1, b) = Bytes(s, 1, b)
      BY <3>1, BytesJoin
    <3> QED
      BY <3>2, <2>1 DEF b
  <2>2. CASE h # n
    <3>1. h2 = 0
      BY <2>2, <1>4, <1>10
    <3>2. n + 1 \in Int /\ n + h2 \in Int /\ n + h2 = n + 1 - 1 /\ h + h2 = h
      BY <3>1, <1>2
    <3>3. Bytes(s, n + 1, n + h2) = <<>>
      BY <3>2, BytesEmpty
    <3>4. Bytes(s, 1, h) \in Seq(Units)
      BY <1>2, BytesAre
    <3> QED
      BY <3>2, <3>3, <3>4, ConcatEmptySeq
  <2> QED
    BY <2>1, <2>2
<1> DEFINE a == n + h2 - t + 1
<1>15. Bytes(s, n - t + 1, n) \o Bytes(s, n + h2 + 1, m) = Bytes(s, a, m)
  <2>1. CASE h2 = 0
    <3> DEFINE c == n - t + 1
    <3>1. /\ c \in Int /\ n \in Int /\ m \in Int /\ n >= c - 1 /\ m >= n
          /\ a = c /\ n + h2 + 1 = n + 1
      BY <2>1, <1>3
    <3> HIDE DEF c, m, a
    <3>2. Bytes(s, c, n) \o Bytes(s, n + 1, m) = Bytes(s, c, m)
      BY <3>1, BytesJoin
    <3>3. Bytes(s, c, n) \o Bytes(s, n + h2 + 1, m) = Bytes(s, a, m)
      BY <3>1, <3>2
    <3> QED
      BY <3>3 DEF c
  <2>2. CASE h2 > 0
    <3>1. t = 0
      BY <2>2, <1>10
    <3>2. n \in Int /\ a = n + h2 + 1
      BY <3>1, <1>4
    <3>3. Bytes(s, n - t + 1, n) = <<>>
      <4> DEFINE c == n - t + 1
      <4>1. c \in Int /\ n \in Int /\ n = c - 1
        BY <3>1
      <4> HIDE DEF c
      <4>2. Bytes(s, c, n) = <<>>
        BY <4>1, BytesEmpty
      <4> QED
        BY <4>2 DEF c
    <3>4. a \in Int /\ m \in Int /\ m - a + 1 \in Nat
      BY <3>2, <1>4
    <3> HIDE DEF a, m
    <3>5. Bytes(s, a, m) \in Seq(Units)
      BY <3>4, BytesAre
    <3> QED
      BY <3>2, <3>3, <3>5, ConcatEmptySeq
  <2> QED
    BY <2>1, <2>2, <1>4
<1>16. Len(Bytes(s, a, m)) = L
  <2>1. a \in Int /\ m \in Int /\ L = m - a + 1
    BY <1>3, <1>4
  <2> HIDE DEF a, m, L
  <2> QED
    BY <2>1, <1>5, BytesAre
<1>17. After(Bytes(s, a, m), L - t2) = Bytes(s, m - t2 + 1, m)
  <2>1. a \in Int /\ m \in Int /\ L - t2 \in 0 .. m - a + 1 /\ a + (L - t2) = m - t2 + 1
    BY <1>3, <1>4, <1>5
  <2> HIDE DEF a, m, L
  <2> DEFINE e == L - t2
  <2> HIDE DEF e
  <2>2. e \in 0 .. m - a + 1 /\ a + e = m - t2 + 1
    BY <2>1 DEF e
  <2>3. After(Bytes(s, a, m), e) = Bytes(s, a + e, m)
    BY <2>1, <2>2, BytesAfter
  <2> QED
    BY <2>2, <2>3 DEF e
<1>18. Write(limit, Kept(s, n), data) =
          [head |-> Bytes(s, 1, h + h2), tail |-> Bytes(s, m - t2 + 1, m),
           dropped |-> (n - h - t) + (L - t2)]
  <2> DEFINE whole == Bytes(s, n - t + 1, n) \o After(data, Least(room, Len(data)))
  <2>1. whole = Bytes(s, a, m) /\ Len(whole) = L
    BY <1>11, <1>13, <1>15, <1>16 DEF h2
  <2>2. Len(whole) - Least(Len(whole), T) = L - t2
    BY <2>1 DEF t2
  <2>3. Bytes(s, 1, h) \o Front(data, room) = Bytes(s, 1, h + h2)
    BY <1>12, <1>14
  <2>4. After(whole, Len(whole) - Least(Len(whole), T)) = Bytes(s, m - t2 + 1, m)
    BY <2>1, <2>2, <1>17
  <2> HIDE DEF data, a, m, L
  <2>5. Write(limit, Kept(s, n), data) =
          [head |-> Bytes(s, 1, h) \o Front(data, room),
           tail |-> After(whole, Len(whole) - Least(Len(whole), T)),
           dropped |-> (n - h - t) + (Len(whole) - Least(Len(whole), T))]
    <3> DEFINE buffer == Kept(s, n)
    <3>1. /\ buffer.head = Bytes(s, 1, h) /\ buffer.tail = Bytes(s, n - t + 1, n)
          /\ buffer.dropped = n - h - t
      BY <1>8
    <3> HIDE DEF buffer
    <3>2. HeadLimit(limit) - Len(buffer.head) = room
      BY <3>1, <1>11 DEF H, room
    <3>3. buffer.tail \o After(data, Least(room, Len(data))) = whole
      BY <3>1
    <3> HIDE DEF whole
    <3>4. Write(limit, buffer, data) =
            [head |-> buffer.head \o Front(data, room),
             tail |-> After(whole, Len(whole) - Least(Len(whole), TailLimit(limit))),
             dropped |-> buffer.dropped + (Len(whole) - Least(Len(whole), TailLimit(limit)))]
      BY <3>2, <3>3 DEF Write
    <3> QED
      BY <3>1, <3>4 DEF T, buffer
  <2> QED
    BY <2>2, <2>3, <2>4, <2>5
<1>19. (n - h - t) + (L - t2) = m - (h + h2) - t2
  BY <1>2, <1>3, <1>4, <1>5
<1>20. QED
  BY <1>9, <1>18, <1>19

-----------------------------------------------------------------------------
(***************************************************************************)
(* The inductive invariant.  What the result says of the output rests on   *)
(* what a pump that ended knows (PumpsKnowTheEnd), and what it says of the *)
(* exit on the order of wait, kill and wait (OwnExit).                     *)
(***************************************************************************)
RunSteps == {"wait", "kill", "reap", "join out", "join err", "take out", "take err", "result",
             "collect"}
BackgroundSteps == {"up", "logs out", "logs err", "terminate", "stopping", "kill app",
                    "reap app", "kill rest"}
AfterKill == (RunSteps \ {"wait", "kill"}) \cup {"ended"}

Started == process["main"] # "none"

(* Nothing is there before the command was started, or if it never was.    *)
NothingYet ==
    /\ pc = "spawn" => ~Started /\ result = NoRun /\ log = <<>>
    /\ ~Started => /\ pc \in {"spawn", "ended"}
                   /\ \A p \in Processes : process[p] = "none"
                   /\ \A s \in Streams : pump[s] = "none"

UseDecides ==
    /\ pc \in RunSteps => use = "run"
    /\ pc \in BackgroundSteps => use = "background"

(* A pump ends when nobody holds its pipe and nothing is left to read: no  *)
(* process of the run can write to it ever again, for what forks later     *)
(* inherits what its parent holds.                                         *)
PumpsKnowTheEnd ==
    \A s \in Streams : pump[s] = "ended" => holders[s] = {} /\ inPipe[s] = 0 /\ chunk[s] = 0

(* The command exits by itself, or is killed after its timeout.            *)
OwnExit ==
    use = "run" /\ Started =>
        /\ pc \in {"wait", "kill"} /\ process["main"] = "exited" => returncode \in {0, 1}
        /\ pc \in AfterKill => Group \cap Running = {}
        /\ ~timedOut /\ pc # "wait" => process["main"] = "exited" /\ returncode \in {0, 1}

ResultStands ==
    /\ result # NoRun => pc \in {"collect", "ended"} /\ process["main"] # "running"
    /\ log # <<>> => pc = "ended"
    /\ ExitCodeIsItsOwn
    /\ LogEndsWithOutcome

(* The steps at which a pump was waited for, and its text taken.           *)
Joined(s) ==
    {"take out", "take err", "result", "collect", "ended"}
        \cup (IF s = "stdout" THEN {"join err"} ELSE {})
Taken(s) ==
    {"result", "collect", "ended"} \cup (IF s = "stdout" THEN {"take err"} ELSE {})

(* A piece of a text: a byte, a marker, or a line of the log.              *)
Labels == {"stdout", "stderr", "truncated", "command", "exit code", "timed out"}
Pieces == Labels \X ExitCodes

OutputTaken ==
    /\ \A s \in Streams : text[s] \in Seq(Pieces)
    /\ use = "run" /\ Started =>
          \A s \in Streams \ late :
              /\ pc \in Joined(s) => pump[s] = "ended"
              /\ pc \in Taken(s) => text[s] = Text(sink[s])

Control == UseDecides /\ NothingYet /\ PumpsKnowTheEnd /\ OwnExit /\ ResultStands /\ OutputTaken

IInv == TypeOK /\ BuffersKeepBothEnds /\ Control

(* The two halves of the type invariant: what the pipes hold, and the rest. *)
PipesTyped ==
    /\ written \in [Streams -> Nat] /\ inPipe \in [Streams -> Nat] /\ chunk \in [Streams -> Nat]
    /\ \A s \in Streams : written[s] <= MaxWritten[s] /\ Appended(s) >= 0

RestTyped ==
    /\ use \in Uses /\ limit \in Limits
    /\ pc \in {"spawn", "ended"} \cup RunSteps \cup BackgroundSteps
    /\ process \in [Processes -> {"none", "running", "exited"}]
    /\ returncode \in {NoExit, 0, 1, Killed, Terminated}
    /\ holders \in [Streams -> SUBSET Running]
    /\ pump \in [Streams -> {"none", "reading", "ended"}]
    /\ DOMAIN sink = Streams /\ DOMAIN text = Streams
    /\ timedOut \in BOOLEAN /\ late \subseteq Streams
    /\ result \in CommandRuns \cup {NoRun}

LEMMA TypeOKParts ==
    /\ TypeOK <=> PipesTyped /\ RestTyped
    /\ TypeOK' <=> PipesTyped' /\ RestTyped'
<1>1. pc \in {"spawn", "wait", "kill", "reap", "join out", "join err", "take out", "take err",
             "result", "collect", "up", "logs out", "logs err", "terminate", "stopping",
             "kill app", "reap app", "kill rest", "ended"}
      <=> pc \in {"spawn", "ended"} \cup RunSteps \cup BackgroundSteps
  BY DEF RunSteps, BackgroundSteps
<1>2. pc' \in {"spawn", "wait", "kill", "reap", "join out", "join err", "take out", "take err",
             "result", "collect", "up", "logs out", "logs err", "terminate", "stopping",
             "kill app", "reap app", "kill rest", "ended"}
      <=> pc' \in {"spawn", "ended"} \cup RunSteps \cup BackgroundSteps
  BY DEF RunSteps, BackgroundSteps
<1>3. QED
  BY <1>1, <1>2, Zenon DEF TypeOK, PipesTyped, RestTyped

LEMMA PipesUntouched ==
    ASSUME PipesTyped, UNCHANGED <<written, inPipe, chunk>>
    PROVE  PipesTyped'
BY DEF PipesTyped, Appended

LEMMA LimitIsNat == ASSUME TypeOK PROVE limit \in Nat
BY ProcessAssumption DEF TypeOK

LEMMA AppendedIsNat ==
    ASSUME PipesTyped, NEW s \in Streams
    PROVE  /\ written[s] \in Nat /\ inPipe[s] \in Nat /\ chunk[s] \in Nat /\ Appended(s) \in Nat
           /\ Appended(s) = written[s] - inPipe[s] - chunk[s]
<1>1. written[s] \in Nat /\ inPipe[s] \in Nat /\ chunk[s] \in Nat /\ Appended(s) >= 0
  BY DEF PipesTyped
<1>2. QED
  BY <1>1 DEF Appended

-----------------------------------------------------------------------------
(* Steps that leave the pipes alone leave the buffers right.               *)
LEMMA BuffersUntouched ==
    ASSUME BuffersKeepBothEnds, UNCHANGED <<limit, written, inPipe, chunk, sink>>
    PROVE  BuffersKeepBothEnds'
BY DEF BuffersKeepBothEnds, Kept, Bytes, Appended

LEMMA InitHolds == Init => IInv
<1> SUFFICES ASSUME Init PROVE IInv
  OBVIOUS
<1>1. TypeOK
  <2>1. PipesTyped
    BY ProcessAssumption DEF Init, PipesTyped, Streams, Appended
  <2>2. RestTyped
    BY DEF Init, RestTyped, Streams, Processes, Running
  <2> QED
    BY <2>1, <2>2, TypeOKParts
<1>2. BuffersKeepBothEnds
  <2> SUFFICES ASSUME NEW s \in Streams PROVE sink[s] = Kept(s, Appended(s))
    BY DEF BuffersKeepBothEnds
  <2>1. Appended(s) = 0 /\ sink[s] = EmptyBuffer
    BY DEF Init, Appended
  <2>2. limit \in Nat
    BY <1>1, LimitIsNat
  <2>3. HeadLimit(limit) \in Nat /\ TailLimit(limit) \in Nat
    BY <2>2, Halves
  <2>4. Least(0, HeadLimit(limit)) = 0 /\ Least(0 - 0, TailLimit(limit)) = 0
    BY <2>3 DEF Least
  <2>5. Bytes(s, 1, 0) = <<>> /\ Bytes(s, 0 - 0 + 1, 0) = <<>>
    BY BytesEmpty
  <2> QED
    BY <2>1, <2>4, <2>5 DEF Kept, EmptyBuffer
<1>3. Control
  BY DEF Init, Control, UseDecides, NothingYet, PumpsKnowTheEnd, OwnExit, ResultStands,
         OutputTaken, Started, RunSteps, BackgroundSteps, ExitCodeIsItsOwn, LogEndsWithOutcome,
         Processes, Streams
<1>4. QED
  BY <1>1, <1>2, <1>3 DEF IInv

-----------------------------------------------------------------------------
(* The processes.  None of them can write to a pipe whose pump has ended.  *)
LEMMA WriteByteStep ==
    ASSUME IInv, NEW p \in Processes, NEW s \in Streams, WriteByte(p, s)
    PROVE  IInv'
<1> USE DEF IInv, WriteByte, caller
<1>typed. PipesTyped /\ RestTyped
  BY TypeOKParts
<1>moved. \A q \in Streams : Appended(q)' = Appended(q)
  <2> SUFFICES ASSUME NEW q \in Streams PROVE Appended(q)' = Appended(q)
    OBVIOUS
  <2>1. written[q] \in Nat /\ inPipe[q] \in Nat /\ chunk[q] \in Nat
    BY <1>typed, AppendedIsNat
  <2>2. CASE q = s
    <3>1. written'[q] = written[q] + 1 /\ inPipe'[q] = inPipe[q] + 1 /\ chunk'[q] = chunk[q]
      BY <1>typed, <2>2 DEF PipesTyped
    <3> QED
      BY <2>1, <3>1 DEF Appended
  <2>3. CASE q # s
    <3>1. written'[q] = written[q] /\ inPipe'[q] = inPipe[q] /\ chunk'[q] = chunk[q]
      BY <1>typed, <2>3 DEF PipesTyped
    <3> QED
      BY <3>1 DEF Appended
  <2> QED
    BY <2>2, <2>3
<1>1. TypeOK'
  <2>1. PipesTyped'
    BY <1>typed, <1>moved, ProcessAssumption DEF PipesTyped
  <2>2. RestTyped'
    BY <1>typed DEF RestTyped, Running
  <2> QED
    BY <2>1, <2>2, TypeOKParts
<1>2. BuffersKeepBothEnds'
  BY <1>moved DEF BuffersKeepBothEnds, Kept, Bytes
<1>3. PumpsKnowTheEnd'
  BY DEF Control, PumpsKnowTheEnd, Running
<1>4. UseDecides' /\ NothingYet' /\ OwnExit' /\ ResultStands' /\ OutputTaken'
  BY DEF Control, UseDecides, NothingYet, OwnExit, ResultStands, OutputTaken, Started, Running,
         ExitCodeIsItsOwn, LogEndsWithOutcome, Outcome, Joined, Taken
<1>5. QED
  BY <1>1, <1>2, <1>3, <1>4 DEF Control

LEMMA CloseOutputStep ==
    ASSUME IInv, NEW p \in Processes, NEW s \in Streams, CloseOutput(p, s)
    PROVE  IInv'
<1> USE DEF IInv, CloseOutput, caller, pumps
<1>typed. PipesTyped /\ RestTyped
  BY TypeOKParts
<1>1. TypeOK'
  <2>1. PipesTyped'
    BY <1>typed, PipesUntouched
  <2>2. RestTyped'
    BY <1>typed DEF RestTyped, Running
  <2> QED
    BY <2>1, <2>2, TypeOKParts
<1>2. BuffersKeepBothEnds'
  BY BuffersUntouched
<1>3. PumpsKnowTheEnd'
  BY <1>typed DEF Control, PumpsKnowTheEnd, RestTyped
<1>4. UseDecides' /\ NothingYet' /\ OwnExit' /\ ResultStands' /\ OutputTaken'
  BY DEF Control, UseDecides, NothingYet, OwnExit, ResultStands, OutputTaken, Started, Running,
         ExitCodeIsItsOwn, LogEndsWithOutcome, Outcome, Joined, Taken
<1>5. QED
  BY <1>1, <1>2, <1>3, <1>4 DEF Control

(* What ends holds no pipe any more, and nothing else begins to.           *)
LEMMA LetGo ==
    ASSUME NEW gone \in SUBSET Processes, End(gone), holders \in [Streams -> SUBSET Running]
    PROVE  /\ Running' = Running \ gone
           /\ holders' \in [Streams -> SUBSET Running']
           /\ \A s \in Streams : holders[s] = {} => holders'[s] = {}
<1>1. Running' = Running \ gone
  BY DEF End, Running
<1>2. QED
  BY <1>1 DEF End

LEMMA ForkStep ==
    ASSUME IInv, NEW p \in Processes, NEW q \in {"child", "daemon"}, Fork(p, q)
    PROVE  IInv'
<1> USE DEF IInv, Fork, caller, pumps
<1>typed. PipesTyped /\ RestTyped
  BY TypeOKParts
<1>forked. Running' = Running \cup {q}
  BY <1>typed DEF RestTyped, Running, Processes
<1>1. TypeOK'
  <2>1. PipesTyped'
    BY <1>typed, PipesUntouched
  <2>2. holders' \in [Streams -> SUBSET Running']
    BY <1>typed, <1>forked DEF RestTyped
  <2>3. process' \in [Processes -> {"none", "running", "exited"}]
    BY <1>typed DEF RestTyped
  <2>4. RestTyped'
    BY <1>typed, <2>2, <2>3 DEF RestTyped
  <2> QED
    BY <2>1, <2>4, TypeOKParts
<1>2. BuffersKeepBothEnds'
  BY BuffersUntouched
<1>3. /\ process'["main"] = process["main"]
      /\ p \in Group \cap Running
      /\ Started
  BY DEF TypeOK, Processes, Running, Group, Started, Control, NothingYet
<1>4. ~(use = "run" /\ pc \in AfterKill)
  BY <1>3 DEF Control, OwnExit
<1>5. PumpsKnowTheEnd' /\ NothingYet'
  BY <1>3 DEF Control, PumpsKnowTheEnd, NothingYet, Started
<1>6. OwnExit'
  BY <1>3, <1>4 DEF Control, OwnExit, Started
<1>7. UseDecides' /\ ResultStands' /\ OutputTaken'
  BY <1>3 DEF Control, UseDecides, ResultStands, OutputTaken, Started,
              ExitCodeIsItsOwn, LogEndsWithOutcome, Outcome, Joined, Taken
<1>8. QED
  BY <1>1, <1>2, <1>5, <1>6, <1>7 DEF Control

LEMMA ExitStep ==
    ASSUME IInv, NEW p \in Processes, Exit(p)
    PROVE  IInv'
<1> USE DEF IInv, Exit, End, caller, pumps
<1>typed. PipesTyped /\ RestTyped
  BY TypeOKParts
<1>1. TypeOK'
  <2>1. PipesTyped'
    BY <1>typed, PipesUntouched
  <2>2. holders' \in [Streams -> SUBSET Running']
    BY <1>typed, LetGo DEF RestTyped
  <2>3. process' \in [Processes -> {"none", "running", "exited"}]
    BY <1>typed DEF RestTyped
  <2>4. returncode' \in {NoExit, 0, 1, Killed, Terminated}
    BY <1>typed DEF RestTyped
  <2>5. RestTyped'
    BY <1>typed, <2>2, <2>3, <2>4 DEF RestTyped
  <2> QED
    BY <2>1, <2>5, TypeOKParts
<1>2. BuffersKeepBothEnds'
  BY BuffersUntouched
<1>3. Running' \subseteq Running /\ Started /\ Started'
  BY DEF TypeOK, Processes, Running, Started, Control, NothingYet
<1>4. PumpsKnowTheEnd' /\ NothingYet' /\ UseDecides'
  BY <1>3, <1>typed, LetGo DEF Control, PumpsKnowTheEnd, NothingYet, UseDecides, RestTyped
<1>5. OwnExit'
  BY <1>3 DEF Control, OwnExit, TypeOK, Processes, Running, Group
<1>6. ResultStands'
  BY <1>3 DEF Control, ResultStands, Running, TypeOK, Processes, Started, ExitCodeIsItsOwn,
              LogEndsWithOutcome, Outcome
<1>7. OutputTaken'
  BY <1>3 DEF Control, OutputTaken, Joined, Taken
<1>8. QED
  BY <1>1, <1>2, <1>4, <1>5, <1>6, <1>7 DEF Control

-----------------------------------------------------------------------------
(* The pumps. *)
LEMMA ReadChunkStep ==
    ASSUME IInv, NEW s \in Streams, ReadChunk(s)
    PROVE  IInv'
<1> USE DEF IInv, ReadChunk, caller, kernel
<1>1. PICK n \in 1 .. inPipe[s] : /\ chunk' = [chunk EXCEPT ![s] = n]
                                  /\ inPipe' = [inPipe EXCEPT ![s] = @ - n]
  OBVIOUS
<1>typed. PipesTyped /\ RestTyped
  BY TypeOKParts
<1>2. inPipe[s] \in Nat /\ n \in Nat /\ inPipe[s] - n \in Nat
  BY <1>typed DEF PipesTyped
<1>3. \A q \in Streams : Appended(q)' = Appended(q)
  <2> SUFFICES ASSUME NEW q \in Streams PROVE Appended(q)' = Appended(q)
    OBVIOUS
  <2>1. written[q] \in Nat /\ inPipe[q] \in Nat /\ chunk[q] \in Nat
    BY <1>typed, AppendedIsNat
  <2>2. CASE q = s
    <3>1. /\ written'[q] = written[q] /\ inPipe'[q] = inPipe[q] - n
          /\ chunk[q] = 0 /\ chunk'[q] = n
      BY <1>1, <1>typed, <2>2 DEF PipesTyped
    <3> QED
      BY <1>2, <2>1, <3>1 DEF Appended
  <2>3. CASE q # s
    <3>1. written'[q] = written[q] /\ inPipe'[q] = inPipe[q] /\ chunk'[q] = chunk[q]
      BY <1>1, <1>typed, <2>3 DEF PipesTyped
    <3> QED
      BY <3>1 DEF Appended
  <2> QED
    BY <2>2, <2>3
<1>4. TypeOK'
  <2>1. PipesTyped'
    BY <1>typed, <1>1, <1>2, <1>3 DEF PipesTyped
  <2>2. RestTyped'
    BY <1>typed DEF RestTyped, Running
  <2> QED
    BY <2>1, <2>2, TypeOKParts
<1>5. BuffersKeepBothEnds'
  BY <1>3 DEF BuffersKeepBothEnds, Kept, Bytes
<1>6. PumpsKnowTheEnd'
  BY <1>1 DEF Control, PumpsKnowTheEnd, Running, TypeOK
<1>7. UseDecides' /\ NothingYet' /\ OwnExit' /\ ResultStands' /\ OutputTaken'
  BY DEF Control, UseDecides, NothingYet, OwnExit, ResultStands, OutputTaken, Started, Running,
         ExitCodeIsItsOwn, LogEndsWithOutcome, Outcome, Joined, Taken
<1>8. QED
  BY <1>4, <1>5, <1>6, <1>7 DEF Control

LEMMA AppendChunkStep ==
    ASSUME IInv, NEW s \in Streams, AppendChunk(s)
    PROVE  IInv'
<1> USE DEF IInv, AppendChunk, caller, kernel
<1> DEFINE n == Appended(s)
           k == chunk[s]
<1>typed. PipesTyped /\ RestTyped
  BY TypeOKParts
<1>1. n \in Nat /\ k \in Nat /\ k > 0
  BY <1>typed, AppendedIsNat
<1>moved. /\ chunk'[s] = 0
      /\ \A q \in Streams \ {s} : chunk'[q] = chunk[q]
  BY <1>typed DEF PipesTyped
<1>2. /\ Appended(s)' = n + k
      /\ \A q \in Streams \ {s} : Appended(q)' = Appended(q)
  <2>1. written[s] \in Nat /\ inPipe[s] \in Nat /\ n = written[s] - inPipe[s] - k
    BY <1>typed, AppendedIsNat
  <2>2. Appended(s)' = written[s] - inPipe[s] - 0
    BY <1>moved DEF Appended
  <2> QED
    BY <1>1, <1>moved, <2>1, <2>2 DEF Appended
<1>3. TypeOK'
  <2>1. PipesTyped'
    <3>1. chunk' \in [Streams -> Nat]
      BY <1>typed DEF PipesTyped
    <3>2. \A q \in Streams : Appended(q)' >= 0
      BY <1>1, <1>2, <1>typed DEF PipesTyped
    <3> QED
      BY <1>typed, <3>1, <3>2 DEF PipesTyped
  <2>2. RestTyped'
    BY <1>typed DEF RestTyped, Running
  <2> QED
    BY <2>1, <2>2, TypeOKParts
<1>4. limit \in Nat
  BY LimitIsNat
<1>5. ChunkOf(s) = Bytes(s, n + 1, n + k)
  <2>1. ChunkOf(s) = [i \in 1 .. k |-> <<s, n + i>>]
    BY DEF ChunkOf
  <2> HIDE DEF n, k
  <2>2. Bytes(s, n + 1, n + k) = [i \in 1 .. (n + k) - (n + 1) + 1 |-> <<s, (n + 1) + i - 1>>]
    BY DEF Bytes
  <2>3. (n + k) - (n + 1) + 1 = k /\ \A i \in 1 .. k : (n + 1) + i - 1 = n + i
    BY <1>1
  <2>4. \A i \in 1 .. k : <<s, (n + 1) + i - 1>> = <<s, n + i>>
    BY <2>3
  <2>5. [i \in 1 .. k |-> <<s, (n + 1) + i - 1>>] = [i \in 1 .. k |-> <<s, n + i>>]
    BY <2>4
  <2> QED
    BY <2>1, <2>2, <2>3, <2>5
<1>6. sink'[s] = Kept(s, n + k)
  <2>1. sink'[s] = Write(limit, sink[s], ChunkOf(s))
    BY DEF TypeOK
  <2>2. sink[s] = Kept(s, n)
    BY DEF BuffersKeepBothEnds
  <2> HIDE DEF n, k
  <2> QED
    BY <2>1, <2>2, <1>1, <1>4, <1>5, WriteKeepsEnds
<1>7. \A q \in Streams \ {s} : sink'[q] = sink[q]
  BY DEF TypeOK
<1>8. BuffersKeepBothEnds'
  <2> SUFFICES ASSUME NEW q \in Streams PROVE (sink[q] = Kept(q, Appended(q)))'
    BY DEF BuffersKeepBothEnds
  <2>1. ASSUME NEW m, Appended(q)' = m
        PROVE  Kept(q, Appended(q))' = Kept(q, m)
    BY <2>1 DEF Kept, Bytes
  <2>2. CASE q = s
    BY <2>1, <2>2, <1>2, <1>6
  <2>3. CASE q # s
    BY <2>1, <2>3, <1>2, <1>7 DEF BuffersKeepBothEnds
  <2> QED
    BY <2>2, <2>3
<1>9. PumpsKnowTheEnd'
  BY DEF Control, PumpsKnowTheEnd, Running, TypeOK
<1>10. OutputTaken'
  <2>1. pump[s] # "ended"
    BY <1>1 DEF Control, PumpsKnowTheEnd
  <2> QED
    BY <2>1, <1>7 DEF Control, OutputTaken, Started, Joined, Taken, Text
<1>11. UseDecides' /\ NothingYet' /\ OwnExit' /\ ResultStands'
  BY DEF Control, UseDecides, NothingYet, OwnExit, ResultStands, Started, Running,
         ExitCodeIsItsOwn, LogEndsWithOutcome, Outcome
<1>12. QED
  BY <1>3, <1>8, <1>9, <1>10, <1>11 DEF Control

LEMMA EndOfFileStep ==
    ASSUME IInv, NEW s \in Streams, EndOfFile(s)
    PROVE  IInv'
<1> USE DEF IInv, EndOfFile, caller, kernel
<1>typed. PipesTyped /\ RestTyped
  BY TypeOKParts
<1>1. TypeOK'
  <2>1. PipesTyped'
    BY <1>typed, PipesUntouched
  <2>2. RestTyped'
    BY <1>typed DEF RestTyped, Running
  <2> QED
    BY <2>1, <2>2, TypeOKParts
<1>2. BuffersKeepBothEnds'
  BY BuffersUntouched
<1>3. PumpsKnowTheEnd'
  BY DEF Control, PumpsKnowTheEnd, Running, TypeOK
<1>4. NothingYet' /\ OutputTaken'
  BY DEF Control, NothingYet, OutputTaken, Started, Joined, Taken, TypeOK
<1>5. UseDecides' /\ OwnExit' /\ ResultStands'
  BY DEF Control, UseDecides, OwnExit, ResultStands, Started, Running,
         ExitCodeIsItsOwn, LogEndsWithOutcome, Outcome
<1>6. QED
  BY <1>1, <1>2, <1>3, <1>4, <1>5 DEF Control

-----------------------------------------------------------------------------
(* The calling thread.                                                     *)
LEMMA CommandRunType ==
    ASSUME NEW exit \in ExitCodes, NEW out \in BOOLEAN
    PROVE  CommandRun(exit, out) \in CommandRuns /\ CommandRun(exit, out) # NoRun
BY DEF CommandRun, CommandRuns, ClassifyExit, ExecutionStatuses, NoRun

LEMMA SpawnStep ==
    ASSUME IInv, Spawn
    PROVE  IInv'
<1> USE DEF IInv, Spawn, Goto
<1>typed. PipesTyped /\ RestTyped
  BY TypeOKParts
<1>1. CommandRun(NoExit, FALSE) \in CommandRuns /\ CommandRun(NoExit, FALSE).status = "ERROR"
      /\ CommandRun(NoExit, FALSE).timedOut = FALSE
  BY CommandRunType DEF ExitCodes, CommandRun, ClassifyExit
<1>2. TypeOK'
  <2>1. PipesTyped'
    BY <1>typed, PipesUntouched
  <2>2. /\ pc' \in {"spawn", "ended"} \cup RunSteps \cup BackgroundSteps
        /\ process' \in [Processes -> {"none", "running", "exited"}]
        /\ pump' \in [Streams -> {"none", "reading", "ended"}]
        /\ result' \in CommandRuns \cup {NoRun}
        /\ holders' \in [Streams -> SUBSET Running']
    <3>1. pc' \in {"wait", "up", "ended"}
      OBVIOUS
    <3>2. process' \in [Processes -> {"none", "running", "exited"}]
      BY <1>typed DEF RestTyped
    <3>3. StartPumps \in [Streams -> {"none", "reading", "ended"}]
      BY DEF StartPumps
    <3>4. pump' = StartPumps \/ pump' = pump
      OBVIOUS
    <3>5. pump' \in [Streams -> {"none", "reading", "ended"}]
      BY <3>3, <3>4, <1>typed DEF RestTyped
    <3>6. result' = result \/ result' = CommandRun(NoExit, FALSE)
      OBVIOUS
    <3>8. holders' \in [Streams -> SUBSET Running']
      <4>1. CASE /\ process' = [process EXCEPT !["main"] = "running"]
                 /\ holders' = [s \in Streams |-> {"main"}]
        <5>1. "main" \in Running'
          BY <4>1, <1>typed DEF RestTyped, Running, Processes
        <5> QED
          BY <4>1, <5>1
      <4>2. CASE UNCHANGED <<process, holders>>
        BY <4>2, <1>typed DEF RestTyped, Running
      <4> QED
        BY <4>1, <4>2
    <3>7. result' \in CommandRuns \cup {NoRun}
      BY <3>6, <1>1, <1>typed DEF RestTyped
    <3> QED
      BY <3>1, <3>2, <3>5, <3>7, <3>8 DEF RunSteps, BackgroundSteps
  <2>3. RestTyped'
    BY <2>2, <1>typed DEF RestTyped
  <2> QED
    BY <2>1, <2>3, TypeOKParts
<1>3. BuffersKeepBothEnds'
  BY BuffersUntouched
<1>4. /\ ~Started /\ result = NoRun /\ log = <<>>
      /\ \A p \in Processes : process[p] = "none"
      /\ \A s \in Streams : pump[s] = "none"
  BY DEF Control, NothingYet
<1>5. CASE /\ pc' = IF use = "run" THEN "wait" ELSE "up"
           /\ process' = [process EXCEPT !["main"] = "running"]
           /\ holders' = [s \in Streams |-> {"main"}]
           /\ pump' = StartPumps
           /\ UNCHANGED result
  <2>1. process'["main"] = "running" /\ \A s \in Streams : pump'[s] = "reading"
    BY <1>5, <1>typed DEF RestTyped, Processes, StartPumps
  <2>2. use \in {"run", "background"}
    BY <1>typed, ProcessAssumption DEF RestTyped
  <2>3. UseDecides' /\ NothingYet' /\ PumpsKnowTheEnd' /\ OwnExit'
    BY <1>5, <2>1, <2>2 DEF UseDecides, NothingYet, PumpsKnowTheEnd, OwnExit, Started, RunSteps,
                            BackgroundSteps, AfterKill
  <2>4. ResultStands'
    BY <1>4, <1>5 DEF ResultStands, ExitCodeIsItsOwn, LogEndsWithOutcome
  <2>5. OutputTaken'
    BY <1>5 DEF Control, OutputTaken, Joined, Taken
  <2> QED
    BY <1>2, <1>3, <2>3, <2>4, <2>5 DEF Control
<1>6. CASE /\ pc' = "ended"
           /\ result' = CommandRun(NoExit, FALSE)
           /\ UNCHANGED <<process, holders, pump>>
  <2>1. ~Started'
    BY <1>4, <1>6 DEF Started
  <2>2. UseDecides' /\ NothingYet' /\ PumpsKnowTheEnd' /\ OwnExit' /\ OutputTaken'
    BY <1>4, <1>6, <2>1 DEF Control, UseDecides, NothingYet, PumpsKnowTheEnd, OwnExit,
                            OutputTaken, RunSteps, BackgroundSteps
  <2>3. ExitCodeIsItsOwn'
    BY <1>1, <1>6, <2>1 DEF ExitCodeIsItsOwn, Started
  <2>4. ResultStands'
    BY <1>4, <1>6, <2>1, <2>3 DEF ResultStands, LogEndsWithOutcome, Started
  <2> QED
    BY <1>2, <1>3, <2>2, <2>4 DEF Control
<1>7. QED
  BY <1>5, <1>6

(* Steps of the calling thread that touch neither processes nor buffers.   *)
LEMMA QuietTypes ==
    ASSUME PipesTyped, RestTyped, BuffersKeepBothEnds, UNCHANGED <<use, limit, kernel, pumps>>,
           pc' \in {"spawn", "ended"} \cup RunSteps \cup BackgroundSteps,
           timedOut' \in BOOLEAN, late' \subseteq Streams, DOMAIN text' = Streams,
           result' \in CommandRuns \cup {NoRun}
    PROVE  TypeOK' /\ BuffersKeepBothEnds'
<1>1. PipesTyped'
  BY PipesUntouched DEF kernel, pumps
<1>2. RestTyped'
  BY DEF RestTyped, Running, kernel, pumps
<1>3. BuffersKeepBothEnds'
  BY BuffersUntouched DEF kernel, pumps
<1>4. QED
  BY <1>1, <1>2, <1>3, TypeOKParts

LEMMA WaitStep ==
    ASSUME IInv, Wait
    PROVE  IInv'
<1> USE DEF IInv, Wait, At, kernel, pumps
<1>typed. PipesTyped /\ RestTyped
  BY TypeOKParts
<1>1. pc = "wait" /\ pc' = "kill" /\ use = "run" /\ Started /\ result = NoRun /\ log = <<>>
  BY DEF Control, UseDecides, NothingYet, ResultStands, RunSteps, Started
<1>2. TypeOK' /\ BuffersKeepBothEnds'
  <2>1. pc' \in RunSteps /\ timedOut' \in BOOLEAN
    BY <1>1, <1>typed DEF RunSteps, RestTyped
  <2> QED
    BY <2>1, <1>typed, QuietTypes DEF RestTyped
<1>3. OwnExit'
  BY <1>1 DEF Control, OwnExit, Started, AfterKill, RunSteps
<1>4. UseDecides' /\ NothingYet' /\ PumpsKnowTheEnd' /\ ResultStands' /\ OutputTaken'
  BY <1>1 DEF Control, UseDecides, NothingYet, PumpsKnowTheEnd, ResultStands, OutputTaken, Running,
              RunSteps, BackgroundSteps, Started, ExitCodeIsItsOwn, LogEndsWithOutcome, Joined, Taken
<1>5. QED
  BY <1>2, <1>3, <1>4 DEF Control

(* The kill leaves nothing of the group, and takes no exit code away from  *)
(* a command that had one.                                                 *)
LEMMA KillGroupStep ==
    ASSUME IInv, NEW from, NEW label, KillGroup(from, label),
           \/ from = "kill" /\ label = "reap"
           \/ from = "kill app" /\ label = "reap app"
           \/ from = "kill rest" /\ label = "ended"
    PROVE  IInv'
<1> USE DEF IInv, KillGroup, End, At, pumps
<1>typed. PipesTyped /\ RestTyped
  BY TypeOKParts
<1>1. Started /\ result = NoRun /\ log = <<>>
  BY DEF Control, NothingYet, ResultStands, Started
<1>2. /\ Group \cap Running' = {} /\ Running' \subseteq Running /\ Started'
      /\ process["main"] = "exited" => returncode' = returncode /\ process'["main"] = "exited"
      /\ process' \in [Processes -> {"none", "running", "exited"}]
      /\ returncode' \in {NoExit, 0, 1, Killed, Terminated}
  BY <1>typed, <1>1 DEF RestTyped, Processes, Running, Group, GroupMembers, Started
<1>held. holders' \in [Streams -> SUBSET Running']
         /\ \A s \in Streams : holders[s] = {} => holders'[s] = {}
  BY <1>typed, LetGo DEF RestTyped, GroupMembers, Running
<1>3. TypeOK' /\ BuffersKeepBothEnds'
  <2>1. PipesTyped'
    BY <1>typed, PipesUntouched
  <2>2. RestTyped'
    BY <1>typed, <1>2, <1>held DEF RestTyped, RunSteps, BackgroundSteps
  <2>3. BuffersKeepBothEnds'
    BY BuffersUntouched
  <2> QED
    BY <2>1, <2>2, <2>3, TypeOKParts
<1>4. UseDecides'
  BY DEF Control, UseDecides, RunSteps, BackgroundSteps
<1>5. NothingYet' /\ PumpsKnowTheEnd'
  BY <1>2, <1>held DEF Control, NothingYet, PumpsKnowTheEnd
<1>6. OwnExit'
  <2>1. CASE from = "kill"
    BY <2>1, <1>1, <1>2 DEF Control, OwnExit, UseDecides, AfterKill, RunSteps
  <2>2. CASE from # "kill"
    <3>1. use = "background"
      BY <2>2 DEF Control, UseDecides, BackgroundSteps
    <3> QED
      BY <3>1 DEF OwnExit
  <2> QED
    BY <2>1, <2>2
<1>7. ResultStands'
  BY <1>1 DEF ResultStands, ExitCodeIsItsOwn, LogEndsWithOutcome
<1>8. OutputTaken'
  <2>1. CASE from = "kill"
    BY <2>1 DEF Control, OutputTaken, Joined, Taken
  <2>2. CASE from # "kill"
    <3>1. use = "background"
      BY <2>2 DEF Control, UseDecides, BackgroundSteps
    <3> QED
      BY <3>1 DEF Control, OutputTaken
  <2> QED
    BY <2>1, <2>2
<1>9. QED
  BY <1>3, <1>4, <1>5, <1>6, <1>7, <1>8 DEF Control

LEMMA ReapStep ==
    ASSUME IInv, NEW from, NEW label, Reap(from, label),
           \/ from = "reap" /\ label = "join out"
           \/ from = "reap app" /\ label = "ended"
    PROVE  IInv'
<1> USE DEF IInv, Reap, At, kernel, pumps
<1>typed. PipesTyped /\ RestTyped
  BY TypeOKParts
<1>1. Started /\ result = NoRun /\ log = <<>>
  BY DEF Control, NothingYet, ResultStands, Started
<1>2. TypeOK' /\ BuffersKeepBothEnds'
  <2>1. pc' \in {"spawn", "ended"} \cup RunSteps \cup BackgroundSteps
    BY DEF RunSteps
  <2> QED
    BY <2>1, <1>typed, QuietTypes DEF RestTyped
<1>3. use = IF from = "reap" THEN "run" ELSE "background"
  BY DEF Control, UseDecides, RunSteps, BackgroundSteps
<1>4. UseDecides' /\ NothingYet' /\ PumpsKnowTheEnd'
  BY <1>1, <1>3 DEF Control, UseDecides, NothingYet, PumpsKnowTheEnd, Running, RunSteps,
                    BackgroundSteps, Started
<1>5. OwnExit' /\ ResultStands' /\ OutputTaken'
  BY <1>1, <1>3 DEF Control, OwnExit, ResultStands, OutputTaken, Running, RunSteps, AfterKill,
                    Started, ExitCodeIsItsOwn, LogEndsWithOutcome, Joined, Taken
<1>6. QED
  BY <1>2, <1>4, <1>5 DEF Control

(* A pump that was not given up on has ended.                              *)
LEMMA JoinStep ==
    ASSUME IInv, NEW s \in Streams, NEW from, NEW label, Join(s, from, label),
           \/ s = "stdout" /\ from = "join out" /\ label = "join err"
           \/ s = "stderr" /\ from = "join err" /\ label = "take out"
    PROVE  IInv'
<1> USE DEF IInv, Join, At, kernel, pumps
<1>typed. PipesTyped /\ RestTyped
  BY TypeOKParts
<1>1. use = "run" /\ Started /\ result = NoRun /\ log = <<>>
  BY DEF Control, UseDecides, NothingYet, ResultStands, Started, RunSteps
<1>2. late \subseteq late' /\ late' \subseteq Streams /\ (s \in late' \/ pump[s] = "ended")
  BY <1>typed DEF RestTyped, PumpEnded
<1>3. TypeOK' /\ BuffersKeepBothEnds'
  <2>1. pc' \in {"spawn", "ended"} \cup RunSteps \cup BackgroundSteps
    BY DEF RunSteps
  <2> QED
    BY <2>1, <1>2, <1>typed, QuietTypes DEF RestTyped
<1>4. UseDecides' /\ NothingYet' /\ PumpsKnowTheEnd' /\ OwnExit' /\ ResultStands'
  BY <1>1 DEF Control, UseDecides, NothingYet, PumpsKnowTheEnd, OwnExit, ResultStands, Running,
              RunSteps, BackgroundSteps, AfterKill, Started, ExitCodeIsItsOwn, LogEndsWithOutcome
<1>5. OutputTaken'
  <2>1. \A q \in Streams : text'[q] \in Seq(Pieces) /\ pc' \notin Taken(q)
    BY DEF Control, OutputTaken, Taken
  <2>2. ASSUME NEW q \in Streams \ late', pc' \in Joined(q)
        PROVE  pump'[q] = "ended"
    <3>1. q = s \/ (q = "stdout" /\ pc = "join err")
      <4>1. CASE s = "stdout"
        BY <4>1, <2>2 DEF Joined
      <4>2. CASE s = "stderr"
        BY <4>2 DEF Streams
      <4> QED
        BY <4>1, <4>2
    <3>2. CASE q = s
      BY <3>2, <2>2, <1>2
    <3>3. CASE q = "stdout" /\ pc = "join err"
      <4>1. q \in Streams \ late /\ pc \in Joined(q)
        BY <3>3, <2>2, <1>2 DEF Joined
      <4> QED
        BY <4>1, <1>1 DEF Control, OutputTaken
    <3> QED
      BY <3>1, <3>2, <3>3
  <2> QED
    BY <2>1, <2>2 DEF OutputTaken
<1>6. QED
  BY <1>3, <1>4, <1>5 DEF Control

LEMMA PieceOf ==
    ASSUME NEW l \in Labels, NEW e \in ExitCodes
    PROVE  <<l, e>> \in Pieces
BY DEF Pieces

LEMMA MarkerIsPiece ==
    ASSUME NEW k \in Int
    PROVE  Marker(k) \in Pieces
<1>1. "truncated" \in Labels /\ k \in ExitCodes
  BY DEF Labels, ExitCodes
<1>2. QED
  BY <1>1, PieceOf DEF Marker

(* What a buffer gives back is a sequence of pieces.                       *)
LEMMA TextIsPieces ==
    ASSUME limit \in Nat, NEW s \in Streams, NEW n \in Nat
    PROVE  Text(Kept(s, n)) \in Seq(Pieces)
<1> DEFINE h == Least(n, HeadLimit(limit))
           t == Least(n - h, TailLimit(limit))
           c == n - t + 1
           marker == IF n - h - t > 0 THEN <<Marker(n - h - t)>> ELSE <<>>
<1>1. HeadLimit(limit) \in Nat /\ TailLimit(limit) \in Nat
  BY Halves
<1>2. h \in Nat /\ h <= n
  BY <1>1 DEF Least
<1>3. t \in Nat /\ t <= n - h
  <2> HIDE DEF h
  <2> QED
    BY <1>1, <1>2 DEF Least
<1>4. Seq(Units) \subseteq Seq(Pieces)
  <2>1. Units \subseteq Pieces
    BY DEF Units, Pieces, Labels, ExitCodes, Streams
  <2> QED
    BY <2>1, SeqMonotonic
<1>5. Text(Kept(s, n)) = Bytes(s, 1, h) \o marker \o Bytes(s, c, n)
  <2> HIDE DEF h, t
  <2>1. Kept(s, n) = [head |-> Bytes(s, 1, h), tail |-> Bytes(s, c, n), dropped |-> n - h - t]
    BY DEF Kept, h, t
  <2> HIDE DEF c
  <2> QED
    BY <2>1 DEF Text
<1> HIDE DEF h, t
<1>6. Bytes(s, 1, h) \in Seq(Pieces)
  BY <1>2, <1>4, BytesAre
<1>7. Bytes(s, c, n) \in Seq(Pieces)
  <2>1. c \in Int /\ n \in Int /\ t = n - c + 1
    BY <1>3
  <2> HIDE DEF c
  <2> QED
    BY <2>1, <1>3, <1>4, BytesAre
<1>8. marker \in Seq(Pieces)
  <2>1. Marker(n - h - t) \in Pieces
    BY <1>2, <1>3, MarkerIsPiece
  <2> QED
    BY <2>1
<1> HIDE DEF marker, c
<1>9. QED
  BY <1>5, <1>6, <1>7, <1>8, ConcatProperties

LEMMA TakeTextStep ==
    ASSUME IInv, NEW s \in Streams, NEW from, NEW label, TakeText(s, from, label),
           \/ s = "stdout" /\ from = "take out" /\ label = "take err"
           \/ s = "stderr" /\ from = "take err" /\ label = "result"
           \/ s = "stdout" /\ from = "logs out" /\ label = "logs err"
           \/ s = "stderr" /\ from = "logs err" /\ label = "up"
    PROVE  IInv'
<1> USE DEF IInv, TakeText, At, kernel, pumps
<1>typed. PipesTyped /\ RestTyped
  BY TypeOKParts
<1>1. /\ use = IF from \in RunSteps THEN "run" ELSE "background"
      /\ Started /\ result = NoRun /\ log = <<>>
  BY DEF Control, UseDecides, NothingYet, ResultStands, Started, RunSteps, BackgroundSteps
<1>2. /\ DOMAIN text' = Streams /\ text'[s] = Text(sink[s])
      /\ \A q \in Streams \ {s} : text'[q] = text[q]
  BY <1>typed DEF RestTyped
<1>3. TypeOK' /\ BuffersKeepBothEnds'
  <2>1. pc' \in {"spawn", "ended"} \cup RunSteps \cup BackgroundSteps
    BY DEF RunSteps, BackgroundSteps
  <2> QED
    BY <2>1, <1>2, <1>typed, QuietTypes DEF RestTyped
<1>4. UseDecides' /\ NothingYet' /\ PumpsKnowTheEnd' /\ OwnExit' /\ ResultStands'
  BY <1>1 DEF Control, UseDecides, NothingYet, PumpsKnowTheEnd, OwnExit, ResultStands, Running,
              RunSteps, BackgroundSteps, AfterKill, Started, ExitCodeIsItsOwn, LogEndsWithOutcome
<1>5. \A q \in Streams : text'[q] \in Seq(Pieces)
  <2>1. Text(sink[s]) \in Seq(Pieces)
    <3> DEFINE n == Appended(s)
    <3>1. n \in Nat /\ limit \in Nat /\ sink[s] = Kept(s, n)
      BY <1>typed, AppendedIsNat, LimitIsNat DEF BuffersKeepBothEnds
    <3> HIDE DEF n
    <3> QED
      BY <3>1, TextIsPieces
  <2> QED
    BY <2>1, <1>2 DEF Control, OutputTaken
<1>6. ASSUME use = "run", NEW q \in Streams \ late
      PROVE  /\ pc' \in Joined(q) => pump[q] = "ended"
             /\ pc' \in Taken(q) => text'[q] = Text(sink[q])
  <2>1. from \in {"take out", "take err"}
    BY <1>1, <1>6 DEF RunSteps
  <2>2. pump[q] = "ended"
    BY <2>1, <1>1, <1>6 DEF Control, OutputTaken, Joined
  <2>3. CASE q = s
    BY <2>2, <2>3, <1>2
  <2>4. CASE q # s
    <3>1. text'[q] = text[q]
      BY <2>4, <1>2
    <3>2. pc' \in Taken(q) => pc \in Taken(q)
      <4>1. CASE s = "stdout"
        BY <4>1, <2>4, <2>1 DEF Taken
      <4>2. CASE s = "stderr"
        BY <4>2, <2>4, <2>1 DEF Taken, Streams
      <4> QED
        BY <4>1, <4>2
    <3> QED
      BY <2>2, <3>1, <3>2, <1>1, <1>6 DEF Control, OutputTaken
  <2> QED
    BY <2>3, <2>4
<1>7. OutputTaken'
  BY <1>5, <1>6 DEF OutputTaken
<1>8. QED
  BY <1>3, <1>4, <1>7 DEF Control

LEMMA MakeResultStep ==
    ASSUME IInv, MakeResult
    PROVE  IInv'
<1> USE DEF IInv, MakeResult, At, kernel, pumps
<1>typed. PipesTyped /\ RestTyped
  BY TypeOKParts
<1>1. /\ use = "run" /\ Started /\ log = <<>>
      /\ process["main"] # "running"
      /\ ~timedOut => returncode \in {0, 1}
  BY DEF Control, UseDecides, NothingYet, ResultStands, Started, RunSteps, OwnExit, AfterKill,
         Group, Running, Processes
<1>2. ExitCode \in ExitCodes /\ timedOut \in BOOLEAN
  BY <1>typed DEF RestTyped, ExitCode, ExitCodes, Killed, Terminated
<1>3. result' \in CommandRuns
  BY <1>2, CommandRunType
<1>4. TypeOK' /\ BuffersKeepBothEnds'
  <2>1. pc' \in {"spawn", "ended"} \cup RunSteps \cup BackgroundSteps
    BY DEF RunSteps
  <2> QED
    BY <2>1, <1>3, <1>typed, QuietTypes DEF RestTyped
<1>5. UseDecides' /\ NothingYet' /\ PumpsKnowTheEnd' /\ OwnExit' /\ OutputTaken'
  BY <1>1 DEF Control, UseDecides, NothingYet, PumpsKnowTheEnd, OwnExit, OutputTaken, Running,
              RunSteps, BackgroundSteps, AfterKill, Started, Joined, Taken
<1>6. ExitCodeIsItsOwn'
  <2>1. CASE timedOut
    <3>1. result'.timedOut = TRUE /\ result'.exit = NoExit /\ result'.status = "TIMEOUT"
      BY <2>1, <1>2 DEF CommandRun, ClassifyExit, ExitCode
    <3> QED
      BY <3>1 DEF ExitCodeIsItsOwn
  <2>2. CASE ~timedOut
    <3>1. result'.timedOut = FALSE /\ result'.exit = returncode
      BY <2>2, <1>2 DEF CommandRun, ExitCode
    <3> QED
      BY <2>2, <3>1, <1>1 DEF ExitCodeIsItsOwn
  <2> QED
    BY <2>1, <2>2
<1>7. ResultStands'
  BY <1>1, <1>6 DEF ResultStands, LogEndsWithOutcome, Started
<1>8. QED
  BY <1>4, <1>5, <1>7 DEF Control

(* What truncate_text leaves of a log ends as the log does.                *)
LEMMA TruncationKeepsTheEnd ==
    ASSUME NEW n \in Nat, n > 0, NEW t \in Seq(Pieces), Len(t) > 0
    PROVE  /\ TruncateText(n, t) \in Seq(Pieces)
           /\ Len(TruncateText(n, t)) \in 1 .. n + 1
           /\ TruncateText(n, t)[Len(TruncateText(n, t))] = t[Len(t)]
<1> DEFINE H == HeadLimit(n)
           T == TailLimit(n)
           x == Front(t, H)
           m == <<Marker(Len(t) - H - T)>>
           z == After(t, Len(t) - T)
<1>1. CASE Len(t) <= n
  BY <1>1 DEF TruncateText
<1>2. CASE Len(t) > n
  <2>1. H \in Nat /\ T \in Nat /\ T > 0 /\ H + T = n
    BY Halves
  <2>2. TruncateText(n, t) = x \o m \o z
    <3>1. ~(Len(t) <= n) /\ T # 0
      BY <1>2, <2>1
    <3> QED
      BY <3>1, Zenon DEF TruncateText
  <2> HIDE DEF H, T
  <2>3. x \in Seq(Pieces) /\ Len(x) = H
    <3>1. x = SubSeq(t, 1, H)
      BY <1>2, <2>1 DEF Front, Least
    <3>2. \A i \in 1 .. H : t[i] \in Pieces
      BY <1>2, <2>1, ElementOfSeq
    <3>3. SubSeq(t, 1, H) \in Seq(Pieces)
          /\ Len(SubSeq(t, 1, H)) = IF 1 <= H THEN H - 1 + 1 ELSE 0
      BY <3>2, <2>1, SubSeqProperties
    <3> QED
      BY <3>1, <3>3, <2>1
  <2>4. m \in Seq(Pieces) /\ Len(m) = 1
    <3>1. Marker(Len(t) - H - T) \in Pieces
      BY <2>1, MarkerIsPiece
    <3> QED
      BY <3>1
  <2>5. z \in Seq(Pieces) /\ Len(z) = T /\ z[T] = t[Len(t)]
    <3> DEFINE a == Len(t) - T + 1
    <3>1. a \in Int /\ Len(t) \in Int /\ a >= 1 /\ a <= Len(t) /\ Len(t) - a + 1 = T
          /\ a + T - 1 = Len(t)
      BY <1>2, <2>1
    <3>2. z = SubSeq(t, a, Len(t))
      BY DEF After
    <3> HIDE DEF a
    <3>3. \A i \in a .. Len(t) : t[i] \in Pieces
      BY <3>1, ElementOfSeq
    <3>4. /\ SubSeq(t, a, Len(t)) \in Seq(Pieces)
          /\ Len(SubSeq(t, a, Len(t))) = IF a <= Len(t) THEN Len(t) - a + 1 ELSE 0
          /\ \A i \in 1 .. Len(t) - a + 1 : SubSeq(t, a, Len(t))[i] = t[a + i - 1]
      BY <3>1, <3>3, SubSeqProperties
    <3>5. T \in 1 .. Len(t) - a + 1
      BY <3>1, <2>1
    <3>6. SubSeq(t, a, Len(t))[T] = t[Len(t)]
      BY <3>1, <3>4, <3>5
    <3> HIDE DEF z
    <3> QED
      BY <3>1, <3>2, <3>4, <3>6
  <2> HIDE DEF x, m, z
  <2>6. x \o m \in Seq(Pieces) /\ Len(x \o m) = H + 1
    <3>1. x \in Seq(Pieces) /\ m \in Seq(Pieces)
      BY <2>3, <2>4
    <3>2. x \o m \in Seq(Pieces) /\ Len(x \o m) = Len(x) + Len(m)
      BY <3>1, ConcatProperties
    <3> QED
      BY <3>2, <2>3, <2>4
  <2>7. /\ (x \o m) \o z \in Seq(Pieces) /\ Len((x \o m) \o z) = H + 1 + T
        /\ ((x \o m) \o z)[H + 1 + T] = z[T]
    <3> DEFINE y == x \o m
    <3>1. y \in Seq(Pieces) /\ Len(y) = H + 1
      BY <2>6
    <3> HIDE DEF y
    <3>2. /\ y \o z \in Seq(Pieces) /\ Len(y \o z) = Len(y) + Len(z)
          /\ \A i \in 1 .. Len(y) + Len(z) :
                (y \o z)[i] = IF i <= Len(y) THEN y[i] ELSE z[i - Len(y)]
      BY <3>1, <2>5, ConcatProperties
    <3>3. H + 1 + T \in 1 .. Len(y) + Len(z) /\ H + 1 + T - Len(y) = T
      BY <3>1, <2>1, <2>5
    <3>4. (y \o z)[H + 1 + T] = z[T]
      BY <3>1, <3>2, <3>3, <2>1
    <3> QED
      BY <3>1, <3>2, <3>4, <2>5 DEF y
  <2> QED
    BY <2>1, <2>2, <2>5, <2>7
<1>3. QED
  BY <1>1, <1>2

LEMMA CollectStep ==
    ASSUME IInv, Collect
    PROVE  IInv'
<1> USE DEF IInv, Collect, At, kernel, pumps
<1>typed. PipesTyped /\ RestTyped
  BY TypeOKParts
<1>1. use = "run" /\ Started
  BY DEF Control, UseDecides, NothingYet, Started, RunSteps
<1>2. TypeOK' /\ BuffersKeepBothEnds'
  <2>1. pc' \in {"spawn", "ended"} \cup RunSteps \cup BackgroundSteps
    OBVIOUS
  <2> QED
    BY <2>1, <1>typed, QuietTypes DEF RestTyped
<1>3. UseDecides' /\ NothingYet' /\ PumpsKnowTheEnd' /\ OwnExit' /\ OutputTaken'
  BY <1>1 DEF Control, UseDecides, NothingYet, PumpsKnowTheEnd, OwnExit, OutputTaken, Running,
              RunSteps, BackgroundSteps, AfterKill, Started, Joined, Taken
<1>4. LogEndsWithOutcome'
  <2> SUFFICES ASSUME limit > 0
               PROVE  log'[Len(log')] = Outcome(result) /\ Len(log') <= limit + 1
    BY DEF LogEndsWithOutcome, Outcome
  <2> DEFINE out == text["stdout"]
             err == text["stderr"]
             end == Outcome(result)
             start == <<"command", 0>>
  <2>1. out \in Seq(Pieces) /\ err \in Seq(Pieces)
    BY DEF Control, OutputTaken, Streams
  <2>2. start \in Pieces /\ end \in Pieces
    <3>1. result.exit \in ExitCodes
      BY <1>typed DEF RestTyped, CommandRuns, NoRun, ExitCodes
    <3>2. end \in {<<"timed out", NoExit>>, <<"exit code", result.exit>>}
      BY DEF Outcome
    <3>3. /\ "command" \in Labels /\ "timed out" \in Labels /\ "exit code" \in Labels
          /\ 0 \in ExitCodes /\ NoExit \in ExitCodes
      BY DEF Labels, ExitCodes
    <3> HIDE DEF end
    <3> QED
      BY <3>1, <3>2, <3>3, PieceOf
  <2>3. log' = TruncateText(limit, <<start>> \o out \o err \o <<end>>)
    BY DEF RenderRun
  <2> HIDE DEF out, err, end, start
  <2> DEFINE front == <<start>> \o out \o err
             all == front \o <<end>>
  <2>4. front \in Seq(Pieces)
    BY <2>1, <2>2, ConcatProperties
  <2> HIDE DEF front
  <2>5. /\ all \in Seq(Pieces) /\ Len(all) = Len(front) + 1
        /\ all[Len(front) + 1] = end
    BY <2>2, <2>4, ConcatProperties
  <2>6. Len(all) > 0 /\ all[Len(all)] = end
    BY <2>4, <2>5
  <2>7. log' = TruncateText(limit, all) /\ limit \in Nat
    BY <2>3, <1>typed, LimitIsNat DEF front
  <2> HIDE DEF all, IInv, Collect
  <2>8. /\ Len(TruncateText(limit, all)) \in 1 .. limit + 1
        /\ TruncateText(limit, all)[Len(TruncateText(limit, all))] = all[Len(all)]
    BY <2>5, <2>6, <2>7, TruncationKeepsTheEnd
  <2> QED
    BY <2>6, <2>7, <2>8 DEF end
<1>5. ResultStands'
  BY <1>1, <1>4 DEF Control, ResultStands, ExitCodeIsItsOwn
<1>6. QED
  BY <1>2, <1>3, <1>5 DEF Control

-----------------------------------------------------------------------------
(* The background process: what is said of a result does not concern it.   *)
LEMMA BackgroundSays ==
    ASSUME IInv, use = "background", use' = use, result' = NoRun, log' = <<>>,
           UNCHANGED text
    PROVE  OwnExit' /\ ResultStands' /\ OutputTaken'
BY DEF IInv, Control, OwnExit, ResultStands, OutputTaken, ExitCodeIsItsOwn, LogEndsWithOutcome

LEMMA BackgroundStep ==
    ASSUME IInv, Logs \/ Stop \/ Stopping
    PROVE  IInv'
<1> USE DEF IInv, Logs, Stop, Stopping, At, Goto, kernel, pumps
<1>typed. PipesTyped /\ RestTyped
  BY TypeOKParts
<1>1. use = "background" /\ Started /\ result = NoRun /\ log = <<>>
  BY DEF Control, UseDecides, NothingYet, ResultStands, Started, BackgroundSteps
<1>2. pc' \in {"ended"} \cup BackgroundSteps
  BY DEF BackgroundSteps
<1>3. TypeOK' /\ BuffersKeepBothEnds'
  BY <1>2, <1>typed, QuietTypes DEF RestTyped
<1>4. UseDecides' /\ NothingYet' /\ PumpsKnowTheEnd'
  BY <1>1, <1>2 DEF Control, UseDecides, NothingYet, PumpsKnowTheEnd, Running, RunSteps,
                    BackgroundSteps, Started
<1>5. OwnExit' /\ ResultStands' /\ OutputTaken'
  BY <1>1, BackgroundSays
<1>6. QED
  BY <1>3, <1>4, <1>5 DEF Control

LEMMA TerminateStep ==
    ASSUME IInv, Terminate
    PROVE  IInv'
<1> USE DEF IInv, Terminate, End, At, pumps
<1>typed. PipesTyped /\ RestTyped
  BY TypeOKParts
<1>1. use = "background" /\ Started /\ result = NoRun /\ log = <<>>
  BY DEF Control, UseDecides, NothingYet, ResultStands, Started, BackgroundSteps
<1>2. PICK dying \in SUBSET GroupMembers :
          /\ End(dying)
          /\ returncode' = IF "main" \in dying THEN Terminated ELSE returncode
  OBVIOUS
<1>3. /\ Running' \subseteq Running /\ Started'
      /\ process' \in [Processes -> {"none", "running", "exited"}]
      /\ returncode' \in {NoExit, 0, 1, Killed, Terminated}
  BY <1>typed, <1>1, <1>2 DEF RestTyped, Processes, Running, Started
<1>held. holders' \in [Streams -> SUBSET Running']
         /\ \A s \in Streams : holders[s] = {} => holders'[s] = {}
  BY <1>typed, <1>2, LetGo DEF RestTyped, GroupMembers, Running
<1>4. TypeOK' /\ BuffersKeepBothEnds'
  <2>1. PipesTyped'
    BY <1>typed, PipesUntouched
  <2>2. RestTyped'
    BY <1>typed, <1>3, <1>held DEF RestTyped, BackgroundSteps
  <2>3. BuffersKeepBothEnds'
    BY BuffersUntouched
  <2> QED
    BY <2>1, <2>2, <2>3, TypeOKParts
<1>5. UseDecides' /\ NothingYet' /\ PumpsKnowTheEnd'
  BY <1>1, <1>3, <1>held DEF Control, UseDecides, NothingYet, PumpsKnowTheEnd, RunSteps, BackgroundSteps
<1>6. OwnExit' /\ ResultStands' /\ OutputTaken'
  BY <1>1, BackgroundSays
<1>7. QED
  BY <1>4, <1>5, <1>6 DEF Control

LEMMA StutterStep ==
    ASSUME IInv, UNCHANGED vars
    PROVE  IInv'
<1> USE DEF IInv, vars, kernel, pumps, caller
<1>typed. PipesTyped /\ RestTyped
  BY TypeOKParts
<1>1. TypeOK' /\ BuffersKeepBothEnds'
  BY <1>typed, QuietTypes DEF RestTyped
<1>2. UseDecides' /\ NothingYet' /\ PumpsKnowTheEnd' /\ OwnExit' /\ ResultStands' /\ OutputTaken'
  BY DEF Control, UseDecides, NothingYet, PumpsKnowTheEnd, OwnExit, ResultStands, OutputTaken,
         Running, Started, ExitCodeIsItsOwn, LogEndsWithOutcome, Outcome, Joined, Taken
<1>3. QED
  BY <1>1, <1>2 DEF Control

LEMMA NextPreserves == IInv /\ [Next]_vars => IInv'
<1> SUFFICES ASSUME IInv, [Next]_vars PROVE IInv'
  OBVIOUS
<1>1. CASE Spawn
  BY <1>1, SpawnStep
<1>2. CASE RunProcess
  <2>1. CASE Wait
    BY <2>1, WaitStep
  <2>2. CASE KillGroup("kill", "reap")
    BY <2>2, KillGroupStep
  <2>3. CASE Reap("reap", "join out")
    BY <2>3, ReapStep
  <2>4. CASE Join("stdout", "join out", "join err")
    BY <2>4, JoinStep DEF Streams
  <2>5. CASE Join("stderr", "join err", "take out")
    BY <2>5, JoinStep DEF Streams
  <2>6. CASE TakeText("stdout", "take out", "take err")
    BY <2>6, TakeTextStep DEF Streams
  <2>7. CASE TakeText("stderr", "take err", "result")
    BY <2>7, TakeTextStep DEF Streams
  <2>8. CASE MakeResult
    BY <2>8, MakeResultStep
  <2>9. CASE Collect
    BY <2>9, CollectStep
  <2> QED
    BY <1>2, <2>1, <2>2, <2>3, <2>4, <2>5, <2>6, <2>7, <2>8, <2>9 DEF RunProcess
<1>3. CASE Background
  <2>1. CASE Logs \/ Stop \/ Stopping
    BY <2>1, BackgroundStep
  <2>2. CASE TakeText("stdout", "logs out", "logs err")
    BY <2>2, TakeTextStep DEF Streams
  <2>3. CASE TakeText("stderr", "logs err", "up")
    BY <2>3, TakeTextStep DEF Streams
  <2>4. CASE Terminate
    BY <2>4, TerminateStep
  <2>5. CASE KillGroup("kill app", "reap app")
    BY <2>5, KillGroupStep
  <2>6. CASE Reap("reap app", "ended")
    BY <2>6, ReapStep
  <2>7. CASE KillGroup("kill rest", "ended")
    BY <2>7, KillGroupStep
  <2> QED
    BY <1>3, <2>1, <2>2, <2>3, <2>4, <2>5, <2>6, <2>7 DEF Background
<1>4. CASE Pump
  BY <1>4, ReadChunkStep, AppendChunkStep, EndOfFileStep DEF Pump
<1>5. CASE World
  <2>1. ASSUME NEW p \in Processes, NEW s \in Streams, WriteByte(p, s)
        PROVE  IInv'
    BY <2>1, WriteByteStep
  <2>2. ASSUME NEW p \in Processes, NEW q \in {"child", "daemon"}, Fork(p, q)
        PROVE  IInv'
    BY <2>2, ForkStep
  <2>3. ASSUME NEW p \in Processes, Exit(p)
        PROVE  IInv'
    BY <2>3, ExitStep
  <2>4. ASSUME NEW p \in Processes, NEW s \in Streams, CloseOutput(p, s)
        PROVE  IInv'
    BY <2>4, CloseOutputStep
  <2> QED
    BY <1>5, <2>1, <2>2, <2>3, <2>4 DEF World
<1>6. CASE UNCHANGED vars
  BY <1>6, StutterStep
<1>7. QED
  BY <1>1, <1>2, <1>3, <1>4, <1>5, <1>6 DEF Next

LEMMA InvariantHolds == Spec => []IInv
<1>1. Init => IInv
  BY InitHolds
<1>2. IInv /\ [Next]_vars => IInv'
  BY NextPreserves
<1>3. QED
  BY <1>1, <1>2, PTL DEF Spec

(* Every variable stays in its range, and a pump never appends a byte that *)
(* nobody wrote, for every max_bytes and every size of the pipes.          *)
THEOREM TypeCorrect == Spec => []TypeOK
<1>1. IInv => TypeOK
  BY DEF IInv
<1>2. QED
  BY <1>1, InvariantHolds, PTL

(* However the output is cut into chunks, a bounded buffer of any limit    *)
(* holds its first quarter and its last three and counts what it dropped   *)
(* between them; and of a stream whose pump was not given up on, the       *)
(* result of run_process holds all that was ever written, and no process   *)
(* that may still run can write to it any more.                            *)
THEOREM OutputAlwaysTrue == Spec => []OutputIsTrue
<1>1. ASSUME IInv PROVE OutputIsTrue
  <2> USE <1>1 DEF IInv
  <2>1. ASSUME use = "run", pc \in {"result", "collect", "ended"}, Started,
               NEW s \in Streams \ late
        PROVE  holders[s] = {} /\ text[s] = Text(Kept(s, written[s]))
    <3>1. pump[s] = "ended" /\ text[s] = Text(sink[s])
      BY <2>1 DEF Control, OutputTaken, Joined, Taken
    <3>2. holders[s] = {} /\ inPipe[s] = 0 /\ chunk[s] = 0
      BY <3>1 DEF Control, PumpsKnowTheEnd
    <3>3. Appended(s) = written[s]
      <4>1. PipesTyped
        BY TypeOKParts
      <4>2. written[s] \in Nat /\ Appended(s) = written[s] - inPipe[s] - chunk[s]
        BY <4>1, AppendedIsNat
      <4> QED
        BY <3>2, <4>2
    <3>4. sink[s] = Kept(s, written[s])
      BY <3>3 DEF BuffersKeepBothEnds
    <3> QED
      BY <3>1, <3>2, <3>4
  <2>2. OutputIsComplete
    BY <2>1 DEF OutputIsComplete, Started
  <2> QED
    BY <2>2 DEF OutputIsTrue
<1>2. QED
  BY <1>1, InvariantHolds, PTL

(* When run_process has killed the group nothing of it runs; a result that *)
(* is not a timeout bears the exit code the command exited with by itself; *)
(* and the log of the command, within its limit, ends with its outcome.    *)
THEOREM OutcomeAlwaysTrue == Spec => []OutcomeIsTrue
<1>1. ASSUME IInv PROVE OutcomeIsTrue
  <2> USE <1>1 DEF IInv
  <2>1. GroupIsGone
    <3> SUFFICES ASSUME use = "run", pc \in AfterKill
                 PROVE  Group \cap Running = {}
      BY DEF GroupIsGone, AfterKill, RunSteps
    <3>1. CASE Started
      BY <3>1 DEF Control, OwnExit
    <3>2. CASE ~Started
      BY <3>2 DEF Control, NothingYet, Running
    <3> QED
      BY <3>1, <3>2
  <2>2. ExitCodeIsItsOwn /\ LogEndsWithOutcome
    BY DEF Control, ResultStands
  <2> QED
    BY <2>1, <2>2 DEF OutcomeIsTrue
<1>2. QED
  BY <1>1, InvariantHolds, PTL
=============================================================================
