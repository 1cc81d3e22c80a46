----------------------------- MODULE QueueFacts -----------------------------
(* What the operators on sequences do to queues, and to two queues that are  *)
(* read as one.                                                              *)
EXTENDS Integers, Sequences, SequenceTheorems, TLAPS

\* A queue has a length, and elements up to it.
LEMMA Queue ==
    ASSUME NEW S, NEW q \in Seq(S)
    PROVE  /\ Len(q) \in Nat /\ (Len(q) = 0 <=> q = <<>>)
           /\ \A i \in 1..Len(q) : q[i] \in S
OBVIOUS

\* An element is put at the end.
LEMMA Pushed ==
    ASSUME NEW S, NEW q \in Seq(S), NEW e \in S
    PROVE  /\ Append(q, e) \in Seq(S) /\ Append(q, e) # <<>>
           /\ Len(Append(q, e)) = Len(q) + 1 /\ Append(q, e)[Len(q) + 1] = e
           /\ \A i \in 1..Len(q) : Append(q, e)[i] = q[i]
BY AppendProperties

\* An element is taken from the front.
LEMMA Popped ==
    ASSUME NEW S, NEW q \in Seq(S), q # <<>>
    PROVE  /\ Head(q) \in S /\ Head(q) = q[1] /\ Tail(q) \in Seq(S)
           /\ Len(q) \in Nat /\ Len(q) # 0 /\ Len(Tail(q)) = Len(q) - 1
           /\ \A i \in 1..(Len(q) - 1) : Tail(q)[i] = q[i + 1]
<1>1. Head(q) = q[1] /\ Len(q) \in Nat /\ Len(q) # 0
  OBVIOUS
<1> QED BY <1>1, HeadTailProperties

\* The first k elements.
LEMMA Prefix ==
    ASSUME NEW S, NEW q \in Seq(S), NEW k \in 0..Len(q)
    PROVE  /\ SubSeq(q, 1, k) \in Seq(S) /\ Len(SubSeq(q, 1, k)) = k
           /\ \A i \in 1..k : SubSeq(q, 1, k)[i] = q[i]
<1>1. Len(q) \in Nat /\ \A i \in 1..k : q[i] \in S
  OBVIOUS
<1>2. k \in Int /\ (1 <= k \/ k = 0)
  BY <1>1
<1> QED BY <1>1, <1>2, SubSeqProperties

\* What is behind the first k elements.
LEMMA Suffix ==
    ASSUME NEW S, NEW q \in Seq(S), NEW k \in 0..Len(q)
    PROVE  /\ SubSeq(q, k + 1, Len(q)) \in Seq(S)
           /\ Len(SubSeq(q, k + 1, Len(q))) = Len(q) - k
           /\ \A i \in 1..(Len(q) - k) : SubSeq(q, k + 1, Len(q))[i] = q[k + i]
<1>1. Len(q) \in Nat /\ \A i \in 1..Len(q) : q[i] \in S
  OBVIOUS
<1>2. /\ k + 1 \in Int /\ Len(q) \in Int /\ (k + 1 <= Len(q) \/ k = Len(q))
      /\ Len(q) - (k + 1) + 1 = Len(q) - k
      /\ \A i \in 1..(Len(q) - k) : (k + 1) + i - 1 = k + i
      /\ \A i \in (k + 1)..Len(q) : i \in 1..Len(q)
  BY <1>1
<1>3. k + 1 \in Int /\ Len(q) \in Int /\ \A i \in (k + 1)..Len(q) : q[i] \in S
  BY <1>1, <1>2
<1>4. /\ SubSeq(q, k + 1, Len(q)) \in Seq(S)
      /\ Len(SubSeq(q, k + 1, Len(q))) = IF k + 1 <= Len(q) THEN Len(q) - (k + 1) + 1 ELSE 0
      /\ \A i \in 1..(Len(q) - (k + 1) + 1) : SubSeq(q, k + 1, Len(q))[i] = q[(k + 1) + i - 1]
  <2> DEFINE m == k + 1
  <2> DEFINE n == Len(q)
  <2>1. m \in Int /\ n \in Int /\ \A i \in m..n : q[i] \in S
    BY <1>3
  <2> HIDE DEF m, n
  <2>2. /\ SubSeq(q, m, n) \in Seq(S)
        /\ Len(SubSeq(q, m, n)) = IF m <= n THEN n - m + 1 ELSE 0
        /\ \A i \in 1..(n - m + 1) : SubSeq(q, m, n)[i] = q[m + i - 1]
    BY <2>1, SubSeqProperties
  <2> QED BY <2>2 DEF m, n
<1>5. Len(SubSeq(q, k + 1, Len(q))) = Len(q) - k
  <2>1. CASE k + 1 <= Len(q)
    BY <1>2, <1>4, <2>1
  <2>2. CASE ~(k + 1 <= Len(q))
    <3>1. k = Len(q) /\ Len(q) \in Nat
      BY <1>1, <1>2, <2>2
    <3>2. Len(SubSeq(q, k + 1, Len(q))) = 0
      BY <1>4, <2>2
    <3> QED BY <3>1, <3>2
  <2> QED BY <2>1, <2>2
<1>6. ASSUME NEW i \in 1..(Len(q) - k)
      PROVE  SubSeq(q, k + 1, Len(q))[i] = q[k + i]
  <2>1. (k + 1) + i - 1 = k + i /\ i \in 1..(Len(q) - (k + 1) + 1)
    BY <1>2
  <2> QED BY <1>4, <2>1
<1> QED BY <1>4, <1>5, <1>6

\* Two queues that are read as one.
LEMMA Joined ==
    ASSUME NEW S, NEW a \in Seq(S), NEW b \in Seq(S)
    PROVE  /\ a \o b \in Seq(S) /\ Len(a \o b) = Len(a) + Len(b)
           /\ \A i \in 1..Len(a) : (a \o b)[i] = a[i]
           /\ \A i \in 1..Len(b) : (a \o b)[Len(a) + i] = b[i]
           /\ (a = <<>> => a \o b = b) /\ (a \o b = <<>> <=> a = <<>> /\ b = <<>>)
<1>1. /\ a \o b \in Seq(S) /\ Len(a \o b) = Len(a) + Len(b)
      /\ \A i \in 1..(Len(a) + Len(b)) : (a \o b)[i] = IF i <= Len(a) THEN a[i] ELSE b[i - Len(a)]
  BY ConcatProperties
<1>2. Len(a) \in Nat /\ Len(b) \in Nat
  OBVIOUS
<1>3. \A i \in 1..Len(a) : (a \o b)[i] = a[i]
  BY <1>1, <1>2
<1>4. \A i \in 1..Len(b) : (a \o b)[Len(a) + i] = b[i]
  <2> TAKE i \in 1..Len(b)
  <2>1. Len(a) + i \in 1..(Len(a) + Len(b)) /\ ~(Len(a) + i <= Len(a)) /\ Len(a) + i - Len(a) = i
    BY <1>2
  <2> QED BY <1>1, <2>1
<1>5. (a = <<>> => a \o b = b) /\ (a \o b = <<>> <=> a = <<>> /\ b = <<>>)
  BY ConcatEmptySeq, ConcatEqualIffEmpty
<1> QED BY <1>1, <1>3, <1>4, <1>5

\* To put at the end of the second is to put at the end of both.
LEMMA JoinedPushed ==
    ASSUME NEW S, NEW a \in Seq(S), NEW b \in Seq(S), NEW e \in S
    PROVE  a \o Append(b, e) = Append(a \o b, e)
<1>1. Append(b, e) = b \o <<e>> /\ Append(a \o b, e) = (a \o b) \o <<e>>
  BY AppendIsConcat, ConcatProperties
<1>2. <<e>> \in Seq(S)
  OBVIOUS
<1> QED BY <1>1, <1>2, ConcatAssociative

\* To take from the first, if it has any, is to take from both.
LEMMA JoinedPopped ==
    ASSUME NEW S, NEW a \in Seq(S), NEW b \in Seq(S), a # <<>>
    PROVE  Head(a \o b) = Head(a) /\ Tail(a \o b) = Tail(a) \o b
<1>1. /\ a \o b \in Seq(S) /\ a \o b # <<>> /\ Len(a \o b) = Len(a) + Len(b)
      /\ \A i \in 1..Len(a) : (a \o b)[i] = a[i]
      /\ \A i \in 1..Len(b) : (a \o b)[Len(a) + i] = b[i]
  BY Joined
<1>2. /\ Head(a) = a[1] /\ Tail(a) \in Seq(S) /\ Len(a) \in Nat /\ Len(a) # 0
      /\ Len(Tail(a)) = Len(a) - 1 /\ \A i \in 1..(Len(a) - 1) : Tail(a)[i] = a[i + 1]
  BY Popped
<1>3. /\ Head(a \o b) = (a \o b)[1] /\ Tail(a \o b) \in Seq(S)
      /\ Len(Tail(a \o b)) = Len(a \o b) - 1
      /\ \A i \in 1..(Len(a \o b) - 1) : Tail(a \o b)[i] = (a \o b)[i + 1]
  BY <1>1, Popped
<1>4. /\ Tail(a) \o b \in Seq(S) /\ Len(Tail(a) \o b) = Len(Tail(a)) + Len(b)
      /\ \A i \in 1..Len(Tail(a)) : (Tail(a) \o b)[i] = Tail(a)[i]
      /\ \A i \in 1..Len(b) : (Tail(a) \o b)[Len(Tail(a)) + i] = b[i]
  BY <1>2, Joined
<1>5. Len(b) \in Nat
  OBVIOUS
<1>6. Len(Tail(a \o b)) = Len(Tail(a) \o b)
  BY <1>1, <1>2, <1>3, <1>4, <1>5
<1>7. ASSUME NEW i \in 1..Len(Tail(a \o b)) PROVE Tail(a \o b)[i] = (Tail(a) \o b)[i]
  <2>1. i \in 1..(Len(a \o b) - 1) /\ Tail(a \o b)[i] = (a \o b)[i + 1]
    BY <1>3
  <2>2. CASE i < Len(a)
    <3>1. i \in 1..(Len(a) - 1) /\ i + 1 \in 1..Len(a)
      BY <1>2, <2>1, <2>2
    <3> QED BY <1>1, <1>2, <1>4, <2>1, <3>1
  <2>3. CASE ~(i < Len(a))
    <3>1. /\ i + 1 - Len(a) \in 1..Len(b) /\ Len(a) + (i + 1 - Len(a)) = i + 1
          /\ Len(Tail(a)) + (i + 1 - Len(a)) = i
      BY <1>1, <1>2, <1>5, <2>1, <2>3
    <3>2. (a \o b)[Len(a) + (i + 1 - Len(a))] = b[i + 1 - Len(a)]
      BY <1>1, <3>1
    <3>3. (Tail(a) \o b)[Len(Tail(a)) + (i + 1 - Len(a))] = b[i + 1 - Len(a)]
      BY <1>4, <3>1
    <3> QED BY <2>1, <3>1, <3>2, <3>3
  <2> QED BY <2>2, <2>3
<1>8. Tail(a \o b) = Tail(a) \o b
  BY <1>3, <1>4, <1>6, <1>7, SeqEqual
<1>9. Head(a \o b) = Head(a)
  BY <1>1, <1>2, <1>3
<1> QED BY <1>8, <1>9

\* A queue cut in two behind its first element is its tail.
LEMMA Cut ==
    ASSUME NEW S, NEW q \in Seq(S), q # <<>>, NEW k \in 1..Len(q)
    PROVE  SubSeq(q, 2, k) \o SubSeq(q, k + 1, Len(q)) = Tail(q)
<1>1. Len(q) \in Nat /\ Len(q) # 0
  OBVIOUS
<1>2. 2 \in 1..(Len(q) + 1) /\ k \in (2 - 1)..Len(q) /\ Len(q) \in k..Len(q)
  BY <1>1
<1> QED BY <1>2, ConcatAdjacentSubSeq, TailIsSubSeq

\* Either part is a queue of the same elements.
LEMMA CutTyped ==
    ASSUME NEW S, NEW q \in Seq(S), q # <<>>, NEW k \in 1..Len(q)
    PROVE  SubSeq(q, 2, k) \in Seq(S) /\ SubSeq(q, k + 1, Len(q)) \in Seq(S)
<1>1. Len(q) \in Nat /\ \A i \in 1..Len(q) : q[i] \in S
  OBVIOUS
<1>2. /\ 2 \in Int /\ k \in Int /\ k \in 0..Len(q) /\ \A i \in 2..k : i \in 1..Len(q)
  BY <1>1
<1>3. \A i \in 2..k : q[i] \in S
  BY <1>1, <1>2
<1> QED BY <1>2, <1>3, SubSeqProperties, Suffix

\* Three queues that are read as one.
LEMMA JoinedThree ==
    ASSUME NEW S, NEW a \in Seq(S), NEW b \in Seq(S), NEW c \in Seq(S)
    PROVE  (a \o b) \o c = a \o (b \o c)
BY ConcatAssociative

\* What is taken from the front of the second is put at the end of the first.
LEMMA Moved ==
    ASSUME NEW S, NEW b \in Seq(S), NEW w \in Seq(S), NEW k \in 1..Len(w)
    PROVE  (b \o SubSeq(w, 1, k)) \o SubSeq(w, k + 1, Len(w)) = b \o w
<1>1. Len(w) \in Nat /\ k \in 0..Len(w)
  <2>1. Len(w) \in Nat
    BY Queue
  <2> QED BY <2>1
<1>2. SubSeq(w, 1, k) \in Seq(S) /\ SubSeq(w, k + 1, Len(w)) \in Seq(S)
  BY <1>1, Prefix, Suffix
<1>3. 1 \in 1..(Len(w) + 1) /\ k \in (1 - 1)..Len(w) /\ Len(w) \in k..Len(w)
  BY <1>1
<1>4. SubSeq(w, 1, k) \o SubSeq(w, k + 1, Len(w)) = SubSeq(w, 1, Len(w))
  BY <1>3, ConcatAdjacentSubSeq
<1>5. SubSeq(w, 1, Len(w)) = w
  BY SubSeqFull
<1>6. PICK u \in Seq(S) : u = SubSeq(w, 1, k)
  BY <1>2
<1>7. PICK v \in Seq(S) : v = SubSeq(w, k + 1, Len(w))
  BY <1>2
<1>8. (b \o u) \o v = b \o (u \o v)
  BY JoinedThree
<1>9. u \o v = w
  BY <1>4, <1>5, <1>6, <1>7
<1> QED BY <1>6, <1>7, <1>8, <1>9

-----------------------------------------------------------------------------
(* What is on a queue, and what is there once.                               *)

On(q, m) == \E i \in 1..Len(q) : q[i] = m
Once(q, m) == \E i \in 1..Len(q) : /\ q[i] = m
                                   /\ \A j \in 1..Len(q) : q[j] = m => j = i

\* What is put at the end.
LEMMA OnPushed ==
    ASSUME NEW S, NEW q \in Seq(S), NEW m \in S, NEW k \in S
    PROVE  /\ On(Append(q, k), m) <=> On(q, m) \/ k = m
           /\ k # m /\ Once(q, m) => Once(Append(q, k), m)
           /\ k = m /\ ~On(q, m) => Once(Append(q, k), m)
<1> DEFINE n == Len(q)
<1> DEFINE r == Append(q, k)
<1>1. n \in Nat /\ Len(r) = n + 1 /\ r[n + 1] = k /\ \A i \in 1..n : r[i] = q[i]
  BY Pushed, Queue
<1>2. On(q, m) <=> \E j \in 1..n : q[j] = m
  BY DEF On
<1> HIDE DEF n, r
<1>3. \A i \in 1..(n + 1) : i \in 1..n \/ i = n + 1
  BY <1>1
<1>4. \A i \in 1..n : i \in 1..(n + 1) /\ i # n + 1
  BY <1>1
<1>5. n + 1 \in 1..(n + 1)
  BY <1>1
<1>6. On(r, m) <=> On(q, m) \/ k = m
  BY <1>1, <1>2, <1>3, <1>4, <1>5 DEF On
<1>7. k # m /\ Once(q, m) => Once(r, m)
  BY <1>1, <1>3, <1>4 DEF Once, n
<1>8. k = m /\ ~On(q, m) => Once(r, m)
  BY <1>1, <1>2, <1>3, <1>5 DEF Once
<1> QED BY <1>6, <1>7, <1>8 DEF r

\* What is taken from the front.
LEMMA OnPopped ==
    ASSUME NEW S, NEW q \in Seq(S), q # <<>>, NEW m \in S
    PROVE  /\ On(q, m) <=> Head(q) = m \/ On(Tail(q), m)
           /\ Once(q, m) /\ Head(q) # m => Once(Tail(q), m)
           /\ Once(q, m) /\ Head(q) = m => ~On(Tail(q), m)
<1> DEFINE n == Len(q)
<1> DEFINE r == Tail(q)
<1> DEFINE h == Head(q)
<1>1. n \in Nat /\ n # 0 /\ Len(r) = n - 1 /\ h = q[1] /\ \A i \in 1..(n - 1) : r[i] = q[i + 1]
  BY Popped
<1>2. On(q, m) <=> \E j \in 1..n : q[j] = m
  BY DEF On
<1>3. Once(q, m) <=> \E i \in 1..n : q[i] = m /\ \A j \in 1..n : q[j] = m => j = i
  BY DEF Once
<1> HIDE DEF n, r, h
<1>4. /\ 1 \in 1..n /\ \A i \in 1..(n - 1) : i + 1 \in 1..n /\ i + 1 # 1
      /\ \A i \in 1..n : i = 1 \/ (i - 1 \in 1..(n - 1) /\ (i - 1) + 1 = i)
      /\ \A i, j \in 1..(n - 1) : i + 1 = j + 1 => i = j
  BY <1>1
<1>5. On(q, m) <=> h = m \/ On(r, m)
  <2>1. h = m \/ On(r, m) => On(q, m)
    BY <1>1, <1>2, <1>4 DEF On
  <2>2. ASSUME NEW i \in 1..n, q[i] = m PROVE h = m \/ On(r, m)
    <3>1. i = 1 \/ (i - 1 \in 1..(n - 1) /\ r[i - 1] = q[i])
      BY <1>1, <1>4
    <3> QED BY <1>1, <2>2, <3>1 DEF On
  <2> QED BY <1>2, <2>1, <2>2
<1>6. ASSUME Once(q, m), h # m PROVE Once(r, m)
  <2>1. PICK i \in 1..n : q[i] = m /\ \A j \in 1..n : q[j] = m => j = i
    BY <1>3, <1>6
  <2>2. i - 1 \in 1..(n - 1) /\ (i - 1) + 1 = i
    BY <1>1, <1>4, <1>6, <2>1
  <2>3. r[i - 1] = m
    BY <1>1, <2>1, <2>2
  <2>4. \A j \in 1..(n - 1) : r[j] = m => j = i - 1
    BY <1>1, <1>4, <2>1, <2>2
  <2> QED BY <1>1, <2>2, <2>3, <2>4 DEF Once
<1>7. ASSUME Once(q, m), h = m PROVE ~On(r, m)
  <2>1. \A j \in 1..n : q[j] = m => j = 1
    BY <1>1, <1>3, <1>4, <1>7
  <2> QED BY <1>1, <1>4, <2>1 DEF On
<1> QED BY <1>5, <1>6, <1>7 DEF r, h

\* What is there once is there.
LEMMA OnceOn == \A q, m : Once(q, m) => On(q, m)
BY DEF Once, On
=============================================================================
