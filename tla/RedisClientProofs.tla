-------------------------- MODULE RedisClientProofs --------------------------
(* Proofs about RedisClient: any channels and callers, any bounds, and a     *)
(* connection that may break or not.                                         *)
EXTENDS RedisClient, QueueFacts

-----------------------------------------------------------------------------
(* What the replies on their way say.                                        *)

\* Once the replies in q are handled, a table that holds ch or not will.
WillHold(q, holds, ch) ==
    \/ holds /\ \A i \in 1..Len(q) : ~Confirms(q[i], ch)
    \/ \E i \in 1..Len(q) : /\ Confirms(q[i], ch) /\ q[i].kind = "subscribe"
                            /\ \A j \in (i + 1)..Len(q) : ~Confirms(q[j], ch)

\* The messages in q are those behind the first n, in order and without gaps.
Consecutive(q, n) ==
    \A i \in 1..Len(q), m \in 1..MaxMessages : Carries(q[i], m) =>
        /\ m > n
        /\ \A j \in 1..(i - 1), l \in 1..MaxMessages : Carries(q[j], l) => l < m
        /\ \A l \in (n + 1)..(m - 1) : \E j \in 1..(i - 1) : Carries(q[j], l)

\* A reply added at the end has the last word, if it is about the channel.
LEMMA WillHoldPushed ==
    ASSUME NEW q \in Seq(Replies), NEW r \in Replies, NEW holds \in BOOLEAN, NEW ch
    PROVE  WillHold(Append(q, r), holds, ch) <=>
               IF Confirms(r, ch) THEN r.kind = "subscribe" ELSE WillHold(q, holds, ch)
<1> DEFINE p == Append(q, r)
<1>1. /\ Len(q) \in Nat /\ Len(p) = Len(q) + 1 /\ p[Len(q) + 1] = r
      /\ \A i \in 1..Len(q) : p[i] = q[i]
  BY Pushed, Queue
<1> HIDE DEF p
<1>2. \A i \in 1..(Len(q) + 1) : i = Len(q) + 1 \/ i \in 1..Len(q)
  BY <1>1
<1>3. CASE Confirms(r, ch)
  <2>1. ASSUME NEW i \in 1..Len(q) PROVE Len(q) + 1 \in (i + 1)..(Len(q) + 1)
    BY <1>1
  <2>2. ASSUME NEW i \in 1..Len(p), \A j \in (i + 1)..Len(p) : ~Confirms(p[j], ch)
        PROVE  p[i] = r
    BY <1>1, <1>2, <1>3, <2>1, <2>2
  <2>3. Len(q) + 1 \in 1..Len(p) /\ \A j \in (Len(q) + 1 + 1)..Len(p) : FALSE
    BY <1>1
  <2>4. ~ \A i \in 1..Len(p) : ~Confirms(p[i], ch)
    BY <1>1, <1>3, <2>3
  <2>5. WillHold(p, holds, ch) <=> r.kind = "subscribe"
    BY <1>1, <1>3, <2>2, <2>3, <2>4 DEF WillHold
  <2> QED BY <1>3, <2>5 DEF p
<1>4. CASE ~Confirms(r, ch)
  <2>1. \A i \in 1..Len(p) : Confirms(p[i], ch) <=> i \in 1..Len(q) /\ Confirms(q[i], ch)
    BY <1>1, <1>2, <1>4
  <2>2. \A i \in 1..Len(q) : i \in 1..Len(p) /\ p[i] = q[i]
    BY <1>1
  <2>3. (\A i \in 1..Len(p) : ~Confirms(p[i], ch)) <=> (\A i \in 1..Len(q) : ~Confirms(q[i], ch))
    BY <2>1, <2>2
  <2>4. ASSUME NEW i \in 1..Len(q)
        PROVE  (\A j \in (i + 1)..Len(p) : ~Confirms(p[j], ch))
                   <=> (\A j \in (i + 1)..Len(q) : ~Confirms(q[j], ch))
    <3>1. \A j \in (i + 1)..Len(q) : j \in (i + 1)..Len(p) /\ j \in 1..Len(q)
      BY <1>1
    <3>2. \A j \in (i + 1)..Len(p) : j \in 1..Len(p) /\ (j \in 1..Len(q) => j \in (i + 1)..Len(q))
      BY <1>1
    <3> QED BY <2>1, <2>2, <3>1, <3>2
  <2>5. WillHold(p, holds, ch) <=> WillHold(q, holds, ch)
    BY <2>1, <2>2, <2>3, <2>4 DEF WillHold
  <2> QED BY <1>4, <2>5 DEF p
<1> QED BY <1>3, <1>4

\* The first reply does to the table what handleRedisReply does with it.
LEMMA WillHoldPopped ==
    ASSUME NEW q \in Seq(Replies), q # <<>>, NEW holds \in BOOLEAN, NEW ch,
           NEW next \in BOOLEAN,
           next <=> IF Confirms(Head(q), ch) THEN Head(q).kind = "subscribe" ELSE holds
    PROVE  WillHold(q, holds, ch) <=> WillHold(Tail(q), next, ch)
<1> DEFINE p == Tail(q)
<1>1. /\ Len(q) \in Nat /\ Len(q) # 0 /\ Len(p) = Len(q) - 1 /\ Head(q) = q[1]
      /\ \A i \in 1..(Len(q) - 1) : p[i] = q[i + 1]
  BY Popped
<1> HIDE DEF p
<1>2. \A i \in 1..Len(p) : i + 1 \in 1..Len(q) /\ p[i] = q[i + 1]
  BY <1>1
<1>3. \A i \in 1..Len(q) : i # 1 => i - 1 \in 1..Len(p) /\ q[i] = p[i - 1] /\ (i - 1) + 1 = i
  BY <1>1
<1>4. (\A i \in 1..Len(q) : i # 1 => ~Confirms(q[i], ch)) <=> (\A i \in 1..Len(p) : ~Confirms(p[i], ch))
  <2>1. \A i \in 1..Len(p) : i + 1 # 1
    BY <1>1
  <2> QED BY <1>2, <1>3, <2>1
<1>5. ASSUME NEW i \in 1..Len(p)
      PROVE  (\A j \in (i + 1)..Len(p) : ~Confirms(p[j], ch))
                 <=> (\A j \in (i + 1 + 1)..Len(q) : ~Confirms(q[j], ch))
  <2>1. \A j \in (i + 1)..Len(p) : j + 1 \in (i + 1 + 1)..Len(q) /\ p[j] = q[j + 1]
    BY <1>1
  <2>2. \A j \in (i + 1 + 1)..Len(q) : j - 1 \in (i + 1)..Len(p) /\ q[j] = p[j - 1]
    BY <1>1, <1>3
  <2> QED BY <2>1, <2>2
<1>6. (\E i \in 1..Len(q) : /\ i # 1 /\ Confirms(q[i], ch) /\ q[i].kind = "subscribe"
                            /\ \A j \in (i + 1)..Len(q) : ~Confirms(q[j], ch))
      <=> (\E i \in 1..Len(p) : /\ Confirms(p[i], ch) /\ p[i].kind = "subscribe"
                                /\ \A j \in (i + 1)..Len(p) : ~Confirms(p[j], ch))
  <2>1. ASSUME NEW i \in 1..Len(q), i # 1, Confirms(q[i], ch), q[i].kind = "subscribe",
               \A j \in (i + 1)..Len(q) : ~Confirms(q[j], ch)
        PROVE  \E k \in 1..Len(p) : /\ Confirms(p[k], ch) /\ p[k].kind = "subscribe"
                                    /\ \A j \in (k + 1)..Len(p) : ~Confirms(p[j], ch)
    <3>1. PICK k \in 1..Len(p) : k = i - 1 /\ q[i] = p[k] /\ k + 1 = i
      BY <1>3, <2>1
    <3>2. \A j \in (k + 1)..Len(p) : ~Confirms(p[j], ch)
      BY <1>5, <2>1, <3>1
    <3> QED BY <2>1, <3>1, <3>2
  <2>2. ASSUME NEW k \in 1..Len(p), Confirms(p[k], ch), p[k].kind = "subscribe",
               \A j \in (k + 1)..Len(p) : ~Confirms(p[j], ch)
        PROVE  \E i \in 1..Len(q) : /\ i # 1 /\ Confirms(q[i], ch) /\ q[i].kind = "subscribe"
                                    /\ \A j \in (i + 1)..Len(q) : ~Confirms(q[j], ch)
    <3>1. PICK i \in 1..Len(q) : i = k + 1 /\ q[i] = p[k] /\ i # 1
      BY <1>1, <1>2
    <3>2. \A j \in (i + 1)..Len(q) : ~Confirms(q[j], ch)
      BY <1>5, <2>2, <3>1
    <3> QED BY <2>2, <3>1, <3>2
  <2> QED BY <2>1, <2>2
<1>7. 1 \in 1..Len(q) /\ \A j \in (1 + 1)..Len(q) : j \in 1..Len(q) /\ j # 1
  BY <1>1
<1>8. \A j \in 1..Len(q) : j # 1 => j \in (1 + 1)..Len(q)
  BY <1>1
<1>9. WillHold(q, holds, ch) <=>
        \/ next /\ \A i \in 1..Len(q) : i # 1 => ~Confirms(q[i], ch)
        \/ \E i \in 1..Len(q) : /\ i # 1 /\ Confirms(q[i], ch) /\ q[i].kind = "subscribe"
                                /\ \A j \in (i + 1)..Len(q) : ~Confirms(q[j], ch)
  <2> DEFINE quiet == \A i \in 1..Len(q) : i # 1 => ~Confirms(q[i], ch)
  <2> DEFINE Says(i) == /\ Confirms(q[i], ch) /\ q[i].kind = "subscribe"
                        /\ \A j \in (i + 1)..Len(q) : ~Confirms(q[j], ch)
  <2>1. (\A i \in 1..Len(q) : ~Confirms(q[i], ch)) <=> ~Confirms(q[1], ch) /\ quiet
    BY <1>7
  <2>2. Says(1) <=> Confirms(q[1], ch) /\ q[1].kind = "subscribe" /\ quiet
    BY <1>7, <1>8
  <2>3. WillHold(q, holds, ch) <=> \/ holds /\ \A i \in 1..Len(q) : ~Confirms(q[i], ch)
                                   \/ \E i \in 1..Len(q) : Says(i)
    BY DEF WillHold
  <2> HIDE DEF Says, quiet
  <2>4. (\E i \in 1..Len(q) : Says(i)) <=> Says(1) \/ \E i \in 1..Len(q) : i # 1 /\ Says(i)
    BY <1>7
  <2>5. WillHold(q, holds, ch) <=> \/ next /\ quiet
                                   \/ \E i \in 1..Len(q) : i # 1 /\ Says(i)
    BY <1>1, <2>1, <2>2, <2>3, <2>4
  <2> QED BY <2>5 DEF Says, quiet
<1>10. WillHold(q, holds, ch) <=> WillHold(p, next, ch)
  BY <1>4, <1>6, <1>9 DEF WillHold
<1> QED BY <1>1, <1>10 DEF p

\* The next message may be added at the end.
LEMMA ConsecutivePushed ==
    ASSUME NEW q \in Seq(Replies), NEW r \in Replies, NEW n \in Nat, Consecutive(q, n),
           \A m \in 1..MaxMessages : Carries(r, m) =>
               /\ m > n
               /\ \A i \in 1..Len(q), l \in 1..MaxMessages : Carries(q[i], l) => l < m
               /\ \A l \in (n + 1)..(m - 1) : \E i \in 1..Len(q) : Carries(q[i], l)
    PROVE  Consecutive(Append(q, r), n)
<1> DEFINE p == Append(q, r)
<1>1. /\ Len(q) \in Nat /\ Len(p) = Len(q) + 1 /\ p[Len(q) + 1] = r
      /\ \A i \in 1..Len(q) : p[i] = q[i]
  BY Pushed, Queue
<1> HIDE DEF p
<1> SUFFICES ASSUME NEW i \in 1..Len(p), NEW m \in 1..MaxMessages, Carries(p[i], m)
             PROVE  /\ m > n
                    /\ \A j \in 1..(i - 1), l \in 1..MaxMessages : Carries(p[j], l) => l < m
                    /\ \A l \in (n + 1)..(m - 1) : \E j \in 1..(i - 1) : Carries(p[j], l)
  BY DEF Consecutive, p
<1>2. \A j \in 1..(i - 1) : j \in 1..Len(q) /\ p[j] = q[j]
  BY <1>1
<1>3. CASE i = Len(q) + 1
  <2>1. i - 1 = Len(q) /\ p[i] = r
    BY <1>1, <1>3
  <2> QED BY <1>2, <2>1
<1>4. CASE i # Len(q) + 1
  <2>1. i \in 1..Len(q) /\ p[i] = q[i]
    BY <1>1, <1>4
  <2> QED BY <1>2, <2>1 DEF Consecutive
<1> QED BY <1>3, <1>4

\* The first message is the next one; without it the others are still in order.
LEMMA ConsecutivePopped ==
    ASSUME NEW q \in Seq(Replies), q # <<>>, NEW n \in Nat, Consecutive(q, n),
           MaxMessages \in Nat
    PROVE  /\ \A m \in 1..MaxMessages : Carries(Head(q), m) => m = n + 1
           /\ (\A m \in 1..MaxMessages : ~Carries(Head(q), m)) => Consecutive(Tail(q), n)
           /\ Carries(Head(q), n + 1) /\ n + 1 <= MaxMessages => Consecutive(Tail(q), n + 1)
<1> DEFINE p == Tail(q)
<1>1. /\ Len(q) \in Nat /\ Len(q) # 0 /\ Len(p) = Len(q) - 1 /\ Head(q) = q[1]
      /\ \A i \in 1..(Len(q) - 1) : p[i] = q[i + 1]
  BY Popped
<1> HIDE DEF p
<1>2. 1 \in 1..Len(q)
  BY <1>1
<1>3. ASSUME NEW m \in 1..MaxMessages, Carries(q[1], m) PROVE m = n + 1
  <2>1. m > n /\ \A l \in (n + 1)..(m - 1) : \E j \in 1..(1 - 1) : Carries(q[j], l)
    BY <1>2, <1>3 DEF Consecutive
  <2>2. ~ (n + 1 \in (n + 1)..(m - 1))
    BY <2>1
  <2> QED BY <2>1, <2>2
<1>4. ASSUME NEW k \in Nat, k >= n, k = n \/ k = n + 1,
             \A m \in 1..MaxMessages : Carries(q[1], m) <=> m = k /\ k = n + 1
      PROVE  Consecutive(p, k)
  <2> SUFFICES ASSUME NEW i \in 1..Len(p), NEW m \in 1..MaxMessages, Carries(p[i], m)
               PROVE  /\ m > k
                      /\ \A j \in 1..(i - 1), l \in 1..MaxMessages : Carries(p[j], l) => l < m
                      /\ \A l \in (k + 1)..(m - 1) : \E j \in 1..(i - 1) : Carries(p[j], l)
    BY DEF Consecutive
  <2>1. i + 1 \in 1..Len(q) /\ p[i] = q[i + 1] /\ (i + 1) - 1 = i
    BY <1>1
  <2>2. /\ m > n
        /\ \A j \in 1..i, l \in 1..MaxMessages : Carries(q[j], l) => l < m
        /\ \A l \in (n + 1)..(m - 1) : \E j \in 1..i : Carries(q[j], l)
    BY <2>1 DEF Consecutive
  <2>3. m > k
    <3>1. CASE k = n
      BY <2>2, <3>1
    <3>2. CASE k = n + 1
      <4>1. n + 1 \in 1..MaxMessages
        BY <2>2
      <4>2. Carries(q[1], n + 1) /\ 1 \in 1..i
        BY <1>1, <1>4, <3>2, <4>1
      <4> QED BY <2>2, <3>2, <4>1, <4>2
    <3> QED BY <1>4, <3>1, <3>2
  <2>4. \A j \in 1..(i - 1) : j + 1 \in 1..i /\ p[j] = q[j + 1]
    BY <1>1
  <2>5. ASSUME NEW l \in (k + 1)..(m - 1) PROVE \E j \in 1..(i - 1) : Carries(p[j], l)
    <3>1. l \in (n + 1)..(m - 1) /\ l \in 1..MaxMessages /\ l # k
      BY <1>4
    <3>2. PICK j \in 1..i : Carries(q[j], l)
      BY <2>2, <3>1
    <3>3. j # 1
      BY <1>4, <3>1, <3>2
    <3>4. j - 1 \in 1..(i - 1) /\ p[j - 1] = q[j]
      BY <1>1, <3>3
    <3> QED BY <3>2, <3>4
  <2> QED BY <2>2, <2>3, <2>4, <2>5
<1>5. (\A m \in 1..MaxMessages : ~Carries(q[1], m)) => Consecutive(p, n)
  BY <1>4
<1>6. Carries(q[1], n + 1) /\ n + 1 <= MaxMessages => Consecutive(p, n + 1)
  <2>1. ASSUME NEW m \in 1..MaxMessages PROVE Carries(q[1], m) => m = n + 1
    BY <1>3
  <2> QED BY <1>4, <2>1
<1> QED BY <1>1, <1>3, <1>5, <1>6 DEF p

\* What is lost from the end leaves no gap.
LEMMA ConsecutivePrefix ==
    ASSUME NEW q \in Seq(Replies), NEW n \in Nat, Consecutive(q, n), NEW p \in Seq(Replies),
           Len(p) <= Len(q), \A i \in 1..Len(p) : p[i] = q[i]
    PROVE  Consecutive(p, n)
<1> SUFFICES ASSUME NEW i \in 1..Len(p), NEW m \in 1..MaxMessages, Carries(p[i], m)
             PROVE  /\ m > n
                    /\ \A j \in 1..(i - 1), l \in 1..MaxMessages : Carries(p[j], l) => l < m
                    /\ \A l \in (n + 1)..(m - 1) : \E j \in 1..(i - 1) : Carries(p[j], l)
  BY DEF Consecutive
<1>1. Len(p) \in Nat /\ Len(q) \in Nat
  BY Queue
<1>2. i \in 1..Len(q) /\ p[i] = q[i] /\ \A j \in 1..(i - 1) : j \in 1..Len(p) /\ p[j] = q[j]
  BY <1>1
<1> QED BY <1>2 DEF Consecutive

-----------------------------------------------------------------------------
(* What the commands on their way do.                                        *)

Concerns(c, ch) == c.type # "Stop" /\ c.channel = ch

\* Once the commands in q are carried out, ch is not subscribed, given whether
\* it was so before.
WillDrop(q, gone, ch) ==
    \/ gone /\ \A i \in 1..Len(q) : ~Concerns(q[i], ch)
    \/ \E i \in 1..Len(q) : /\ Concerns(q[i], ch) /\ q[i].type = "Unsubscribe"
                            /\ \A j \in (i + 1)..Len(q) : ~Concerns(q[j], ch)

\* A command is about a channel, or stops the listener.
LEMMA CommandFacts ==
    ASSUME NEW c \in Commands
    PROVE  /\ c.type \in {"Subscribe", "Unsubscribe", "Stop"}
           /\ c.type # "Stop" => c.channel \in Channels
BY DEF Commands, StopCommand

\* A reply confirms a command about a channel, or carries a message.
LEMMA ReplyFacts ==
    ASSUME NEW r \in Replies
    PROVE  /\ r.kind \in {"subscribe", "unsubscribe", "message"}
           /\ r.kind = "message" => r.id \in 1..MaxMessages
           /\ r.kind # "message" => r.channel \in Channels
BY DEF Replies

\* A command added at the end has the last word, if it is about the channel.
LEMMA WillDropPushed ==
    ASSUME NEW q \in Seq(Commands), NEW c \in Commands, NEW gone \in BOOLEAN, NEW ch,
           IF Concerns(c, ch) THEN c.type = "Unsubscribe" ELSE WillDrop(q, gone, ch)
    PROVE  WillDrop(Append(q, c), gone, ch)
<1> DEFINE p == Append(q, c)
<1>1. /\ Len(q) \in Nat /\ Len(p) = Len(q) + 1 /\ p[Len(q) + 1] = c
      /\ \A i \in 1..Len(q) : p[i] = q[i]
  BY Pushed, Queue
<1> HIDE DEF p
<1>2. \A i \in 1..(Len(q) + 1) : i = Len(q) + 1 \/ i \in 1..Len(q)
  BY <1>1
<1>3. CASE Concerns(c, ch)
  <2>1. Len(q) + 1 \in 1..Len(p) /\ \A j \in (Len(q) + 1 + 1)..Len(p) : FALSE
    BY <1>1
  <2>2. WillDrop(p, gone, ch)
    BY <1>1, <1>3, <2>1 DEF WillDrop
  <2> QED BY <2>2 DEF p
<1>4. CASE ~Concerns(c, ch)
  <2>1. \A i \in 1..Len(p) : i \notin 1..Len(q) => ~Concerns(p[i], ch)
    BY <1>1, <1>2, <1>4
  <2>2. CASE gone /\ \A i \in 1..Len(q) : ~Concerns(q[i], ch)
    <3>1. \A i \in 1..Len(p) : ~Concerns(p[i], ch)
      BY <1>1, <2>1, <2>2
    <3> QED BY <2>2, <3>1 DEF WillDrop, p
  <2>3. ASSUME NEW i \in 1..Len(q), Concerns(q[i], ch), q[i].type = "Unsubscribe",
               \A j \in (i + 1)..Len(q) : ~Concerns(q[j], ch)
        PROVE  WillDrop(Append(q, c), gone, ch)
    <3>1. i \in 1..Len(p) /\ p[i] = q[i]
      BY <1>1
    <3>2. \A j \in (i + 1)..Len(p) : j \in 1..Len(p) /\ (j \in 1..Len(q) => j \in (i + 1)..Len(q))
      BY <1>1
    <3>3. \A j \in (i + 1)..Len(p) : ~Concerns(p[j], ch)
      BY <1>1, <2>1, <2>3, <3>2
    <3> QED BY <2>3, <3>1, <3>3 DEF WillDrop, p
  <2> QED BY <1>4, <2>2, <2>3 DEF WillDrop
<1> QED BY <1>3, <1>4

\* The first command does what it does.
LEMMA WillDropPopped ==
    ASSUME NEW q \in Seq(Commands), q # <<>>, NEW gone \in BOOLEAN, NEW ch,
           WillDrop(q, gone, ch),
           NEW next \in BOOLEAN,
           (IF Concerns(Head(q), ch) THEN Head(q).type = "Unsubscribe" ELSE gone) => next
    PROVE  WillDrop(Tail(q), next, ch)
<1> DEFINE p == Tail(q)
<1>1. /\ Len(q) \in Nat /\ Len(q) # 0 /\ Len(p) = Len(q) - 1 /\ Head(q) = q[1]
      /\ \A i \in 1..(Len(q) - 1) : p[i] = q[i + 1]
  BY Popped
<1> HIDE DEF p
<1>2. \A i \in 1..Len(p) : i + 1 \in 1..Len(q) /\ p[i] = q[i + 1]
  BY <1>1
<1>3. 1 \in 1..Len(q)
  BY <1>1
<1>4. CASE gone /\ \A i \in 1..Len(q) : ~Concerns(q[i], ch)
  <2>1. next /\ \A i \in 1..Len(p) : ~Concerns(p[i], ch)
    BY <1>1, <1>2, <1>3, <1>4
  <2> QED BY <2>1 DEF WillDrop, p
<1>5. ASSUME NEW i \in 1..Len(q), Concerns(q[i], ch), q[i].type = "Unsubscribe",
             \A j \in (i + 1)..Len(q) : ~Concerns(q[j], ch)
      PROVE  WillDrop(Tail(q), next, ch)
  <2>1. CASE i = 1
    <3>1. next
      BY <1>1, <1>5, <2>1
    <3>2. \A j \in 1..Len(p) : j + 1 \in (i + 1)..Len(q)
      BY <1>1, <2>1
    <3> QED BY <1>2, <1>5, <3>1, <3>2 DEF WillDrop, p
  <2>2. CASE i # 1
    <3>1. PICK k \in 1..Len(p) : k + 1 = i /\ p[k] = q[i]
      <4>1. i - 1 \in 1..Len(p) /\ (i - 1) + 1 = i
        BY <1>1, <2>2
      <4> QED BY <1>2, <4>1
    <3>2. \A j \in (k + 1)..Len(p) : j \in 1..Len(p) /\ j + 1 \in (i + 1)..Len(q)
      BY <1>1, <3>1
    <3>3. \A j \in (k + 1)..Len(p) : ~Concerns(p[j], ch)
      BY <1>2, <1>5, <3>2
    <3> QED BY <1>5, <3>1, <3>3 DEF WillDrop, p
  <2> QED BY <2>1, <2>2
<1> QED BY <1>4, <1>5 DEF WillDrop

\* Without commands nothing changes; what held before may be weakened.
LEMMA WillDropWeakened ==
    ASSUME NEW q, NEW gone \in BOOLEAN, NEW next \in BOOLEAN, gone => next, NEW ch
    PROVE  /\ WillDrop(q, gone, ch) => WillDrop(q, next, ch)
           /\ WillDrop(<<>>, gone, ch) <=> gone
<1>1. WillDrop(q, gone, ch) => WillDrop(q, next, ch)
  BY DEF WillDrop
<1>2. Len(<<>>) = 0 /\ 1..0 = {}
  OBVIOUS
<1>3. WillDrop(<<>>, gone, ch) <=> gone
  BY <1>2 DEF WillDrop
<1> QED BY <1>1, <1>3

-----------------------------------------------------------------------------
(* The inductive invariant.                                                  *)

\* Who is about to queue a command has one that is about a channel.
Asked == \A k \in Callers : caller[k] = "queue" => command[k].type # "Stop"

\* The listener holds commands only while it handles them.
Swapped == pending # <<>> => listener = "handle"

\* The table, with what is on its way, is what Redis has.
Trails ==
    link => \A ch \in Channels :
        ch \in serverSubs <=> WillHold(Unhandled, ch \in subscribedChannels, ch)

\* A channel that is not wanted will not be subscribed once the commands on
\* their way are carried out: by Redis, by the listener, and by callers.
Dropped(ch) ==
    WillDrop(commandQueue, WillDrop(pending, WillDrop(toServer, ch \notin serverSubs, ch), ch), ch)
Unwanted == link /\ running => \A ch \in Channels : ch \notin wanted => Dropped(ch)

\* The messages that were handled, and those on their way, in their order.
Ordered == /\ \A i \in 1..Len(dispatched) : dispatched[i] = i
           /\ Consecutive(Unhandled, Len(dispatched))

\* What Redis has routed is handled or on its way, while the connection stands.
Routed ==
    /\ Len(dispatched) <= routed
    /\ \A i \in 1..Len(Unhandled), n \in 1..MaxMessages : Carries(Unhandled[i], n) => n <= routed
    /\ link => \A n \in (Len(dispatched) + 1)..routed :
                  \E i \in 1..Len(Unhandled) : Carries(Unhandled[i], n)

IInv == TypeOK /\ NoLostCommand /\ Asked /\ Swapped /\ Trails /\ Unwanted /\ Ordered /\ Routed

-----------------------------------------------------------------------------
(* Type correctness.                                                         *)

\* At first nothing is queued, sent, subscribed to or handled.
LEMMA TypeInit == Init => TypeOK
<1>1. /\ <<>> \in Seq(Commands) /\ <<>> \in Seq(Replies) /\ <<>> \in Seq(1..MaxMessages)
      /\ StopCommand \in Commands
  BY EmptySeq DEF Commands
<1>2. 0 \in 0..MaxRequests /\ 0 \in 0..MaxMessages /\ 0 \in Nat
  BY BoundsAssumption
<1> QED BY <1>1, <1>2 DEF Init, TypeOK

\* Every step keeps the types.
LEMMA TypeStep ==
    ASSUME TypeOK, [Next]_vars
    PROVE  TypeOK'
<1>1. /\ ReadSize \in Nat /\ MaxRequests \in Nat /\ MaxMessages \in Nat
      /\ StopCommand \in Commands /\ <<>> \in Seq(Commands) /\ <<>> \in Seq(Replies)
  BY SizesAssumption, BoundsAssumption, EmptySeq DEF Commands
<1>2. CASE UNCHANGED vars
  BY <1>2 DEF vars, clientVars, listenVars, serverVars, TypeOK
<1>3. ASSUME NEW k \in Callers, NEW ch \in Channels,
             Request(k, "Subscribe", ch) \/ Request(k, "Unsubscribe", ch)
      PROVE  TypeOK'
  <2>1. PICK type \in {"Subscribe", "Unsubscribe"} : Request(k, type, ch)
    BY <1>3
  <2>2. [type |-> type, channel |-> ch] \in Commands
    BY DEF Commands
  <2>3. /\ caller' \in [Callers -> {"idle", "queue", "wake", "stop", "join"}]
        /\ command' \in [Callers -> Commands]
    BY <2>1, <2>2 DEF TypeOK, Request
  <2>4. requests' \in 0..MaxRequests
    BY <1>1, <2>1 DEF TypeOK, Request
  <2> QED BY <2>1, <2>3, <2>4 DEF TypeOK, Request, listenVars, serverVars
<1>4. ASSUME NEW k \in Callers, EnqueueCommand(k) PROVE TypeOK'
  <2>1. /\ caller' \in [Callers -> {"idle", "queue", "wake", "stop", "join"}]
        /\ command' \in [Callers -> Commands]
    BY <1>1, <1>4 DEF TypeOK, EnqueueCommand
  <2>2. command[k] \in Commands /\ commandQueue \in Seq(Commands) /\ wanted \subseteq Channels
    BY DEF TypeOK
  <2>3. commandQueue' \in Seq(Commands)
    BY <1>4, <2>2, Pushed DEF EnqueueCommand
  <2>4. command[k].type = "Subscribe" => command[k].channel \in Channels
    BY <2>2, CommandFacts
  <2>5. wanted' \subseteq Channels
    BY <1>4, <2>2, <2>4 DEF EnqueueCommand
  <2> QED BY <1>4, <2>1, <2>3, <2>5 DEF TypeOK, EnqueueCommand, listenVars, serverVars
<1>5. ASSUME NEW k \in Callers, WakeupListener(k) PROVE TypeOK'
  BY <1>5 DEF TypeOK, WakeupListener, listenVars, serverVars
<1>6. ASSUME NEW k \in Callers, Stop(k) PROVE TypeOK'
  <2>1. caller' \in [Callers -> {"idle", "queue", "wake", "stop", "join"}]
    BY <1>6 DEF TypeOK, Stop
  <2>2. commandQueue \in Seq(Commands)
    BY DEF TypeOK
  <2>3. commandQueue' \in Seq(Commands)
    BY <1>1, <1>6, <2>2, Pushed DEF Stop
  <2>4. requests' \in 0..MaxRequests
    BY <1>1, <1>6 DEF Stop
  <2> QED BY <1>6, <2>1, <2>3, <2>4 DEF TypeOK, Stop, listenVars, serverVars
<1>7. ASSUME NEW k \in Callers, JoinAndReset(k) PROVE TypeOK'
  <2>1. caller' \in [Callers -> {"idle", "queue", "wake", "stop", "join"}]
    BY <1>7 DEF TypeOK, JoinAndReset
  <2> QED BY <1>1, <1>7, <2>1 DEF TypeOK, JoinAndReset
<1>8. CASE Poll
  BY <1>8 DEF TypeOK, Poll, Readable, clientVars, serverVars
<1>9. CASE ReadPipe
  <2>1. pipe' \in Nat
    BY <1>1, <1>9 DEF TypeOK, ReadPipe
  <2> QED BY <1>9, <2>1 DEF TypeOK, ReadPipe, serverVars
<1>10. CASE HandlePendingCommands
  BY <1>10 DEF TypeOK, HandlePendingCommands, serverVars
<1>11. CASE HandleCommand
  <2>1. pending \in Seq(Commands) /\ pending # <<>> /\ toServer \in Seq(Commands)
    BY <1>11 DEF TypeOK, HandleCommand
  <2>2. Head(pending) \in Commands /\ pending' \in Seq(Commands)
    BY <1>11, <2>1, Popped DEF HandleCommand
  <2>3. Append(toServer, Head(pending)) \in Seq(Commands)
    BY <2>1, <2>2, Pushed
  <2>4. toServer' \in Seq(Commands) /\ running' \in BOOLEAN
    BY <1>11, <2>1, <2>3 DEF HandleCommand, Execute, SendToServer, TypeOK
  <2> QED BY <1>11, <2>2, <2>4 DEF TypeOK, HandleCommand, clientVars
<1>12. CASE CommandsHandled
  BY <1>12 DEF TypeOK, CommandsHandled, clientVars, serverVars
<1>13. CASE GetReply
  <2>1. reader \in Seq(Replies) /\ socket \in Seq(Replies) /\ dispatched \in Seq(1..MaxMessages)
    BY DEF TypeOK
  <2>2. PICK r \in Replies : HandleRedisReply(r) /\ reader' \in Seq(Replies) /\ socket' \in Seq(Replies)
    <3>1. CASE reader # <<>>
      BY <1>13, <2>1, <3>1, Popped DEF GetReply
    <3>2. CASE reader = <<>>
      <4>1. PICK k \in 1..Len(socket) :
              /\ reader' = SubSeq(socket, 2, k) /\ socket' = SubSeq(socket, k + 1, Len(socket))
        BY <1>13, <3>2 DEF GetReply
      <4>2. socket # <<>> /\ HandleRedisReply(Head(socket)) /\ Head(socket) \in Replies
        BY <1>13, <2>1, <3>2, Popped DEF GetReply
      <4>3. reader' \in Seq(Replies) /\ socket' \in Seq(Replies)
        BY <2>1, <4>1, <4>2, CutTyped
      <4> QED BY <4>2, <4>3
    <3> QED BY <3>1, <3>2
  <2>3. subscribedChannels' \subseteq Channels /\ dispatched' \in Seq(1..MaxMessages)
    <3>1. r.kind = "message" => Append(dispatched, r.id) \in Seq(1..MaxMessages)
      BY <2>1, ReplyFacts, Pushed
    <3>2. r.kind = "subscribe" => r.channel \in Channels
      BY ReplyFacts
    <3>3. subscribedChannels \subseteq Channels
      BY DEF TypeOK
    <3> QED BY <2>1, <2>2, <3>1, <3>2, <3>3 DEF HandleRedisReply
  <2> QED BY <1>13, <2>2, <2>3 DEF TypeOK, GetReply, clientVars, serverVars
<1>14. CASE GetReplyFails
  BY <1>14 DEF TypeOK, GetReplyFails, clientVars, serverVars
<1>15. CASE ServerStep
  <2>1. toServer \in Seq(Commands) /\ toServer # <<>> /\ socket \in Seq(Replies)
    BY <1>15 DEF TypeOK, ServerStep
  <2>2. Head(toServer) \in Commands /\ toServer' \in Seq(Commands)
    BY <1>15, <2>1, Popped DEF ServerStep
  <2>3. Head(toServer).type \in {"Subscribe", "Unsubscribe"} /\ Head(toServer).channel \in Channels
    BY <1>15, <2>2, CommandFacts DEF ServerStep
  <2>4. /\ [kind |-> "subscribe", channel |-> Head(toServer).channel] \in Replies
        /\ [kind |-> "unsubscribe", channel |-> Head(toServer).channel] \in Replies
    BY <2>3 DEF Replies
  <2>5. /\ Append(socket, [kind |-> "subscribe", channel |-> Head(toServer).channel]) \in Seq(Replies)
        /\ Append(socket, [kind |-> "unsubscribe", channel |-> Head(toServer).channel]) \in Seq(Replies)
    BY <2>1, <2>4, Pushed
  <2>6. serverSubs \subseteq Channels
    BY DEF TypeOK
  <2>7. socket' \in Seq(Replies) /\ serverSubs' \subseteq Channels
    BY <1>15, <2>3, <2>5, <2>6 DEF ServerStep
  <2> QED BY <1>15, <2>2, <2>7 DEF TypeOK, ServerStep, clientVars, listenVars
<1>16. CASE Publish
  <2>1. routed + 1 \in 1..MaxMessages
    BY <1>1, <1>16 DEF TypeOK, Publish
  <2>2. [kind |-> "message", id |-> routed + 1] \in Replies
    BY <2>1 DEF Replies
  <2>3. socket \in Seq(Replies)
    BY DEF TypeOK
  <2>4. socket' \in Seq(Replies) /\ routed' \in 0..MaxMessages
    BY <1>1, <1>16, <2>1, <2>2, <2>3, Pushed DEF Publish
  <2> QED BY <1>16, <2>4 DEF TypeOK, Publish, clientVars, listenVars
<1>17. CASE LoseLink
  <2>1. socket \in Seq(Replies)
    BY DEF TypeOK
  <2>2. socket' \in Seq(Replies)
    BY <1>17, <2>1, Prefix DEF LoseLink
  <2> QED BY <1>1, <1>17, <2>2 DEF TypeOK, LoseLink, clientVars, listenVars
<1> QED BY <1>2, <1>3, <1>4, <1>5, <1>6, <1>7, <1>8, <1>9, <1>10, <1>11, <1>12, <1>13, <1>14,
           <1>15, <1>16, <1>17 DEF Next, Listener

-----------------------------------------------------------------------------
(* The wakeup, and where commands are.                                       *)

\* Whoever queues a command has still to write a byte; the listener reads the
\* pipe before it takes the queue.
LEMMA LostStep ==
    ASSUME TypeOK, NoLostCommand, [Next]_vars
    PROVE  NoLostCommand'
<1>1. pipe \in Nat /\ ReadSize \in Nat
  BY SizesAssumption DEF TypeOK
<1>2. CASE UNCHANGED vars \/ LoseLink \/ Publish \/ ServerStep
  BY <1>2 DEF vars, clientVars, listenVars, LoseLink, Publish, ServerStep, NoLostCommand
<1>3. ASSUME NEW k \in Callers, NEW ch \in Channels,
             Request(k, "Subscribe", ch) \/ Request(k, "Unsubscribe", ch)
      PROVE  NoLostCommand'
  <2>1. /\ UNCHANGED <<commandQueue, pipe, running, listener>>
        /\ caller' = [caller EXCEPT ![k] = "queue"] /\ caller[k] = "idle"
    BY <1>3 DEF Request, listenVars
  <2>2. \A j \in Callers : caller[j] \in {"wake", "stop"} => caller'[j] = caller[j]
    BY <2>1 DEF TypeOK
  <2> QED BY <2>1, <2>2 DEF NoLostCommand
<1>4. ASSUME NEW k \in Callers, EnqueueCommand(k) PROVE NoLostCommand'
  <2>1. caller'[k] = "wake"
    BY <1>4 DEF EnqueueCommand, TypeOK
  <2> QED BY <2>1 DEF NoLostCommand
<1>5. ASSUME NEW k \in Callers, WakeupListener(k) PROVE NoLostCommand'
  <2>1. pipe' > 0
    BY <1>1, <1>5 DEF WakeupListener
  <2> QED BY <2>1 DEF NoLostCommand
<1>6. ASSUME NEW k \in Callers, Stop(k) PROVE NoLostCommand'
  <2>1. CASE running
    <3>1. caller'[k] = "stop"
      BY <1>6, <2>1 DEF Stop, TypeOK
    <3> QED BY <3>1 DEF NoLostCommand
  <2>2. CASE ~running
    BY <1>6, <2>2 DEF Stop, NoLostCommand, listenVars
  <2> QED BY <2>1, <2>2
<1>7. ASSUME NEW k \in Callers, JoinAndReset(k) PROVE NoLostCommand'
  BY <1>7 DEF JoinAndReset, NoLostCommand
<1>8. CASE Poll
  BY <1>1, <1>8 DEF Poll, NoLostCommand, clientVars
<1>9. CASE ReadPipe \/ HandlePendingCommands
  BY <1>9 DEF ReadPipe, HandlePendingCommands, NoLostCommand
<1>10. CASE HandleCommand
  BY <1>10 DEF HandleCommand, Execute, NoLostCommand, clientVars
<1>11. CASE CommandsHandled
  BY <1>11 DEF CommandsHandled, NoLostCommand, clientVars
<1>12. CASE GetReply
  BY <1>12 DEF GetReply, NoLostCommand, clientVars
<1>13. CASE GetReplyFails
  BY <1>13 DEF GetReplyFails, NoLostCommand
<1> QED BY <1>2, <1>3, <1>4, <1>5, <1>6, <1>7, <1>8, <1>9, <1>10, <1>11, <1>12, <1>13
        DEF Next, Listener

\* Callers queue what they were asked to; only HandlePendingCommands fills the
\* batch, and the listener leaves it empty.
LEMMA PlaceStep ==
    ASSUME TypeOK, Asked, Swapped, [Next]_vars
    PROVE  Asked' /\ Swapped'
<1>1. CASE UNCHANGED vars \/ LoseLink \/ Publish \/ ServerStep
  BY <1>1 DEF vars, clientVars, listenVars, LoseLink, Publish, ServerStep, Asked, Swapped
<1>2. ASSUME NEW k \in Callers, NEW ch \in Channels,
             Request(k, "Subscribe", ch) \/ Request(k, "Unsubscribe", ch)
      PROVE  Asked' /\ Swapped'
  <2>1. PICK type \in {"Subscribe", "Unsubscribe"} : Request(k, type, ch)
    BY <1>2
  <2>2. /\ command'[k].type = type
        /\ \A j \in Callers : j # k => command'[j] = command[j] /\ caller'[j] = caller[j]
    BY <2>1 DEF Request, TypeOK
  <2> QED BY <2>1, <2>2 DEF Request, listenVars, Asked, Swapped
<1>3. ASSUME NEW k \in Callers, EnqueueCommand(k) PROVE Asked' /\ Swapped'
  <2>1. /\ caller'[k] = "wake"
        /\ \A j \in Callers : j # k => command'[j] = command[j] /\ caller'[j] = caller[j]
    BY <1>3 DEF EnqueueCommand, TypeOK
  <2> QED BY <1>3, <2>1 DEF EnqueueCommand, listenVars, Asked, Swapped
<1>4. ASSUME NEW k \in Callers, WakeupListener(k) \/ Stop(k) \/ JoinAndReset(k)
      PROVE  Asked' /\ Swapped'
  <2>1. /\ caller'[k] # "queue" /\ command' = command
        /\ \A j \in Callers : j # k => caller'[j] = caller[j]
    BY <1>4 DEF WakeupListener, Stop, JoinAndReset, TypeOK
  <2>2. Asked'
    BY <2>1 DEF Asked
  <2>3. pending' = pending /\ (listener = "handle" => listener' = "handle")
    BY <1>4 DEF WakeupListener, Stop, JoinAndReset, listenVars
  <2> QED BY <2>2, <2>3 DEF Swapped
<1>5. CASE Listener
  BY <1>5 DEF Listener, Poll, ReadPipe, HandlePendingCommands, HandleCommand, CommandsHandled,
     GetReply, GetReplyFails, clientVars, Asked, Swapped
<1> QED BY <1>1, <1>2, <1>3, <1>4, <1>5 DEF Next

-----------------------------------------------------------------------------
(* What steps do to the replies on their way.                                *)

\* redisGetReply hands out the first of them.
LEMMA FirstReply ==
    ASSUME TypeOK, GetReply
    PROVE  /\ Unhandled \in Seq(Replies) /\ Unhandled # <<>> /\ Unhandled' = Tail(Unhandled)
           /\ HandleRedisReply(Head(Unhandled))
<1>1. reader \in Seq(Replies) /\ socket \in Seq(Replies)
  BY DEF TypeOK
<1>2. CASE reader # <<>>
  <2>1. Tail(reader) \o socket = Tail(reader \o socket) /\ Head(reader) = Head(reader \o socket)
    BY <1>1, <1>2, JoinedPopped
  <2>2. reader \o socket \in Seq(Replies) /\ reader \o socket # <<>>
    BY <1>1, <1>2, Joined
  <2> QED BY <1>2, <2>1, <2>2 DEF GetReply, Unhandled
<1>3. CASE reader = <<>>
  <2>1. reader \o socket = socket
    BY <1>1, <1>3, Joined
  <2>2. PICK k \in 1..Len(socket) :
          /\ reader' = SubSeq(socket, 2, k) /\ socket' = SubSeq(socket, k + 1, Len(socket))
    BY <1>3 DEF GetReply
  <2>3. socket # <<>> /\ HandleRedisReply(Head(socket))
    BY <1>3 DEF GetReply
  <2>4. reader' \o socket' = Tail(socket)
    BY <1>1, <2>2, <2>3, Cut
  <2> QED BY <1>1, <2>1, <2>3, <2>4 DEF Unhandled
<1> QED BY <1>2, <1>3

\* Redis adds at the end.
LEMMA LastReply ==
    ASSUME TypeOK, NEW r \in Replies, reader' = reader, socket' = Append(socket, r)
    PROVE  Unhandled \in Seq(Replies) /\ Unhandled' = Append(Unhandled, r)
<1>1. reader \in Seq(Replies) /\ socket \in Seq(Replies)
  BY DEF TypeOK
<1> QED BY <1>1, Joined, JoinedPushed DEF Unhandled

\* What the broken connection takes along is at the end.
LEMMA LostReplies ==
    ASSUME TypeOK, LoseLink
    PROVE  /\ Unhandled \in Seq(Replies) /\ Unhandled' \in Seq(Replies)
           /\ Len(Unhandled') <= Len(Unhandled)
           /\ \A i \in 1..Len(Unhandled') : Unhandled'[i] = Unhandled[i]
<1>1. reader \in Seq(Replies) /\ socket \in Seq(Replies) /\ reader' = reader
  BY DEF TypeOK, LoseLink, listenVars
<1>2. PICK k \in 0..Len(socket) : socket' = SubSeq(socket, 1, k)
  BY DEF LoseLink
<1>3. /\ socket' \in Seq(Replies) /\ Len(socket') = k /\ \A i \in 1..k : socket'[i] = socket[i]
  BY <1>1, <1>2, Prefix
<1>4. /\ Unhandled \in Seq(Replies) /\ Len(Unhandled) = Len(reader) + Len(socket)
      /\ \A i \in 1..Len(reader) : Unhandled[i] = reader[i]
      /\ \A i \in 1..Len(socket) : Unhandled[Len(reader) + i] = socket[i]
  BY <1>1, Joined DEF Unhandled
<1>5. /\ Unhandled' \in Seq(Replies) /\ Len(Unhandled') = Len(reader) + Len(socket')
      /\ \A i \in 1..Len(reader) : Unhandled'[i] = reader[i]
      /\ \A i \in 1..Len(socket') : Unhandled'[Len(reader) + i] = socket'[i]
  <2> DEFINE rest == socket'
  <2>1. Unhandled' = reader \o rest /\ rest \in Seq(Replies)
    BY <1>1, <1>3 DEF Unhandled
  <2> HIDE DEF rest
  <2>2. /\ reader \o rest \in Seq(Replies) /\ Len(reader \o rest) = Len(reader) + Len(rest)
        /\ \A i \in 1..Len(reader) : (reader \o rest)[i] = reader[i]
        /\ \A i \in 1..Len(rest) : (reader \o rest)[Len(reader) + i] = rest[i]
    BY <1>1, <2>1, Joined
  <2> QED BY <2>1, <2>2 DEF rest
<1>6. Len(reader) \in Nat /\ Len(socket) \in Nat /\ k \in Nat /\ k <= Len(socket)
  <2>1. reader \in Seq(Replies) /\ socket \in Seq(Replies)
    BY DEF TypeOK
  <2>2. Len(reader) \in Nat /\ Len(socket) \in Nat
    BY <2>1, Queue
  <2> QED BY <2>2
<1>7. ASSUME NEW i \in 1..Len(Unhandled') PROVE Unhandled'[i] = Unhandled[i]
  <2>1. CASE i <= Len(reader)
    <3>1. i \in 1..Len(reader)
      BY <1>3, <1>5, <1>6, <2>1
    <3> QED BY <1>4, <1>5, <3>1
  <2>2. CASE ~(i <= Len(reader))
    <3>1. PICK j \in 1..k : i = Len(reader) + j
      <4>1. i - Len(reader) \in 1..k /\ i = Len(reader) + (i - Len(reader))
        BY <1>3, <1>5, <1>6, <2>2
      <4> QED BY <4>1
    <3>2. j \in 1..Len(socket)
      BY <1>6
    <3> QED BY <1>3, <1>4, <1>5, <3>1, <3>2
  <2> QED BY <2>1, <2>2
<1>8. Len(Unhandled') <= Len(Unhandled)
  BY <1>3, <1>4, <1>5, <1>6
<1> QED BY <1>4, <1>5, <1>7, <1>8

\* Every other step leaves them alone, but for stop, which frees everything.
LEMMA OtherReplies ==
    ASSUME TypeOK, [Next]_vars, ~GetReply, ~LoseLink, ~ServerStep, ~Publish
    PROVE  \/ /\ UNCHANGED <<Unhandled, subscribedChannels, serverSubs, dispatched, routed, link>>
           \/ /\ Unhandled' = <<>> /\ link' = FALSE
              /\ UNCHANGED <<dispatched, routed>>
<1>1. CASE \E k \in Callers : JoinAndReset(k)
  <2>1. <<>> \o <<>> = <<>>
    BY ConcatEmptySeq, EmptySeq
  <2> QED BY <1>1, <2>1 DEF JoinAndReset, Unhandled
<1>2. CASE ~ \E k \in Callers : JoinAndReset(k)
  <2>1. UNCHANGED <<reader, socket, subscribedChannels, serverSubs, dispatched, routed, link>>
    BY <1>2 DEF Next, vars, Listener, Request, EnqueueCommand, WakeupListener, Stop, Poll,
       ReadPipe, HandlePendingCommands, HandleCommand, CommandsHandled, GetReplyFails,
       clientVars, listenVars, serverVars
  <2> QED BY <2>1 DEF Unhandled
<1> QED BY <1>1, <1>2

-----------------------------------------------------------------------------
(* The table.                                                                *)

\* A confirmation is put at the end when Redis has changed; the handler does to
\* the table what the first one says.
LEMMA TrailsStep ==
    ASSUME TypeOK, Trails, [Next]_vars
    PROVE  Trails'
<1>1. CASE ServerStep
  <2>1. PICK c \in Commands :
          /\ c.type \in {"Subscribe", "Unsubscribe"} /\ c.channel \in Channels
          /\ c.type = "Subscribe" => /\ serverSubs' = serverSubs \cup {c.channel}
                                     /\ socket' = Append(socket, [kind |-> "subscribe", channel |-> c.channel])
          /\ c.type = "Unsubscribe" => /\ serverSubs' = serverSubs \ {c.channel}
                                       /\ socket' = Append(socket, [kind |-> "unsubscribe", channel |-> c.channel])
    <3>1. toServer \in Seq(Commands) /\ toServer # <<>>
      BY <1>1 DEF TypeOK, ServerStep
    <3>2. Head(toServer) \in Commands
      BY <3>1, Popped
    <3>3. Head(toServer).type \in {"Subscribe", "Unsubscribe"} /\ Head(toServer).channel \in Channels
      BY <1>1, <3>2, CommandFacts DEF ServerStep
    <3> QED BY <1>1, <3>2, <3>3 DEF ServerStep
  <2>2. PICK r \in Replies :
          /\ r.kind = (IF c.type = "Subscribe" THEN "subscribe" ELSE "unsubscribe")
          /\ r.channel = c.channel /\ socket' = Append(socket, r)
    <3>1. CASE c.type = "Subscribe"
      <4>1. [kind |-> "subscribe", channel |-> c.channel] \in Replies
        BY <2>1 DEF Replies
      <4> QED BY <2>1, <3>1, <4>1
    <3>2. CASE c.type = "Unsubscribe"
      <4>1. [kind |-> "unsubscribe", channel |-> c.channel] \in Replies
        BY <2>1 DEF Replies
      <4> QED BY <2>1, <3>2, <4>1
    <3> QED BY <2>1, <3>1, <3>2
  <2>3. link /\ reader' = reader /\ subscribedChannels' = subscribedChannels
    BY <1>1 DEF ServerStep, listenVars
  <2>4. Unhandled \in Seq(Replies) /\ Unhandled' = Append(Unhandled, r)
    BY <2>2, <2>3, LastReply
  <2>5. ASSUME NEW ch \in Channels
        PROVE  ch \in serverSubs' <=> WillHold(Unhandled', ch \in subscribedChannels', ch)
    <3> DEFINE holds == ch \in subscribedChannels
    <3>1. holds \in BOOLEAN
      OBVIOUS
    <3>2. ch \in serverSubs <=> WillHold(Unhandled, holds, ch)
      BY <2>3 DEF Trails
    <3>3. holds' = holds
      BY <2>3
    <3> HIDE DEF holds
    <3>4. WillHold(Append(Unhandled, r), holds, ch)
            <=> IF Confirms(r, ch) THEN r.kind = "subscribe" ELSE WillHold(Unhandled, holds, ch)
      BY <2>4, <3>1, WillHoldPushed
    <3>5. Confirms(r, ch) <=> ch = c.channel
      BY <2>1, <2>2 DEF Confirms
    <3>6. ch \in serverSubs' <=> WillHold(Append(Unhandled, r), holds, ch)
      BY <2>1, <2>2, <3>2, <3>4, <3>5
    <3> QED BY <2>3, <2>4, <3>6 DEF holds
  <2> QED BY <2>5 DEF Trails
<1>2. CASE Publish
  <2>1. PICK r \in Replies : r.kind = "message" /\ socket' = Append(socket, r)
    <3>1. routed + 1 \in 1..MaxMessages
      BY <1>2, BoundsAssumption DEF TypeOK, Publish
    <3>2. [kind |-> "message", id |-> routed + 1] \in Replies
      BY <3>1 DEF Replies
    <3> QED BY <1>2, <3>2 DEF Publish
  <2>2. /\ link /\ reader' = reader /\ subscribedChannels' = subscribedChannels
        /\ serverSubs' = serverSubs
    BY <1>2 DEF Publish, listenVars
  <2>3. Unhandled \in Seq(Replies) /\ Unhandled' = Append(Unhandled, r)
    BY <2>1, <2>2, LastReply
  <2>4. ASSUME NEW ch \in Channels
        PROVE  ch \in serverSubs' <=> WillHold(Unhandled', ch \in subscribedChannels', ch)
    <3> DEFINE holds == ch \in subscribedChannels
    <3>1. holds \in BOOLEAN
      OBVIOUS
    <3>2. ch \in serverSubs <=> WillHold(Unhandled, holds, ch)
      BY <2>2 DEF Trails
    <3> HIDE DEF holds
    <3>3. ~Confirms(r, ch)
      BY <2>1 DEF Confirms
    <3>4. WillHold(Append(Unhandled, r), holds, ch) <=> WillHold(Unhandled, holds, ch)
      BY <2>3, <3>1, <3>3, WillHoldPushed
    <3> QED BY <2>2, <2>3, <3>2, <3>4 DEF holds
  <2> QED BY <2>4 DEF Trails
<1>3. CASE GetReply
  <2>1. /\ Unhandled \in Seq(Replies) /\ Unhandled # <<>> /\ Unhandled' = Tail(Unhandled)
        /\ HandleRedisReply(Head(Unhandled))
    BY <1>3, FirstReply
  <2>2. serverSubs' = serverSubs /\ link' = link
    BY <1>3 DEF GetReply, serverVars
  <2>3. ASSUME NEW ch \in Channels, link
        PROVE  ch \in serverSubs' <=> WillHold(Unhandled', ch \in subscribedChannels', ch)
    <3> DEFINE holds == ch \in subscribedChannels
    <3> DEFINE next == ch \in subscribedChannels'
    <3>1. holds \in BOOLEAN /\ next \in BOOLEAN
      OBVIOUS
    <3>2. ch \in serverSubs <=> WillHold(Unhandled, holds, ch)
      BY <2>3 DEF Trails
    <3>3. next <=> IF Confirms(Head(Unhandled), ch) THEN Head(Unhandled).kind = "subscribe" ELSE holds
      BY <2>1 DEF HandleRedisReply, Confirms
    <3> HIDE DEF holds, next
    <3>4. WillHold(Unhandled, holds, ch) <=> WillHold(Tail(Unhandled), next, ch)
      BY <2>1, <3>1, <3>3, WillHoldPopped
    <3>5. ch \in serverSubs <=> WillHold(Unhandled', next, ch)
      BY <2>1, <3>2, <3>4
    <3> QED BY <2>2, <3>5 DEF next
  <2> QED BY <2>2, <2>3 DEF Trails
<1>4. CASE LoseLink
  BY <1>4 DEF LoseLink, Trails
<1>5. CASE ~GetReply /\ ~LoseLink /\ ~ServerStep /\ ~Publish
  <2>1. CASE link' = FALSE
    BY <2>1 DEF Trails
  <2>2. CASE UNCHANGED <<Unhandled, subscribedChannels, serverSubs, link>>
    BY <2>2 DEF Trails
  <2> QED BY <1>5, <2>1, <2>2, OtherReplies
<1> QED BY <1>1, <1>2, <1>3, <1>4, <1>5

-----------------------------------------------------------------------------
(* The commands.                                                             *)

\* The last command a caller queues says what is wanted; each one is passed on
\* in its order, or is not needed since Redis has what it asks for.
LEMMA UnwantedStep ==
    ASSUME TypeOK, Asked, Swapped, Unwanted, [Next]_vars
    PROVE  Unwanted'
<1>1. CASE ~(link' /\ running')
  BY <1>1 DEF Unwanted
<1> SUFFICES ASSUME link', running', NEW ch \in Channels, ch \notin wanted' PROVE Dropped(ch)'
  BY <1>1 DEF Unwanted
<1>2. /\ commandQueue \in Seq(Commands) /\ pending \in Seq(Commands) /\ toServer \in Seq(Commands)
      /\ link \in BOOLEAN /\ running \in BOOLEAN
  BY DEF TypeOK
<1> DEFINE off == ch \notin serverSubs
<1> DEFINE sent == WillDrop(toServer, off, ch)
<1> DEFINE taken == WillDrop(pending, sent, ch)
<1>3. off \in BOOLEAN /\ sent \in BOOLEAN /\ taken \in BOOLEAN
  BY DEF WillDrop
<1>4. Dropped(ch) <=> WillDrop(commandQueue, taken, ch)
  BY DEF Dropped
<1>5. Dropped(ch)' <=> WillDrop(commandQueue', WillDrop(pending', WillDrop(toServer', ch \notin serverSubs', ch), ch), ch)
  BY DEF Dropped
<1>6. link /\ running /\ ch \notin wanted => WillDrop(commandQueue, taken, ch)
  BY <1>4 DEF Unwanted
<1>7. CASE UNCHANGED <<commandQueue, pending, toServer, serverSubs, wanted>> /\ link /\ running
  BY <1>4, <1>5, <1>6, <1>7
<1>8. ASSUME NEW k \in Callers, EnqueueCommand(k) PROVE Dropped(ch)'
  <2>1. /\ UNCHANGED <<pending, toServer, serverSubs, link, running>>
        /\ commandQueue' = Append(commandQueue, command[k]) /\ command[k] \in Commands
        /\ command[k].type # "Stop"
        /\ wanted' = IF command[k].type = "Subscribe" THEN wanted \cup {command[k].channel}
                     ELSE wanted \ {command[k].channel}
    BY <1>8 DEF EnqueueCommand, listenVars, serverVars, TypeOK, Asked
  <2>2. Dropped(ch)' <=> WillDrop(Append(commandQueue, command[k]), taken, ch)
    BY <1>5, <2>1
  <2> HIDE DEF taken
  <2>3. CASE Concerns(command[k], ch)
    <3>1. command[k].type = "Unsubscribe"
      BY <2>1, <2>3, CommandFacts DEF Concerns
    <3> QED BY <1>2, <1>3, <2>1, <2>2, <2>3, <3>1, WillDropPushed
  <2>4. CASE ~Concerns(command[k], ch)
    <3>1. ch \notin wanted
      BY <2>1, <2>4 DEF Concerns
    <3>2. WillDrop(commandQueue, taken, ch)
      BY <1>6, <2>1, <3>1
    <3> QED BY <1>2, <1>3, <2>1, <2>2, <2>4, <3>2, WillDropPushed
  <2> QED BY <2>3, <2>4
<1>9. ASSUME NEW k \in Callers, Stop(k) PROVE Dropped(ch)'
  <2>1. UNCHANGED <<pending, toServer, serverSubs, link, running, wanted>>
    BY <1>9 DEF Stop, listenVars, serverVars
  <2>2. commandQueue' = Append(commandQueue, StopCommand)
    BY <1>9, <2>1 DEF Stop
  <2>3. WillDrop(commandQueue, taken, ch)
    BY <1>6, <2>1
  <2>4. Dropped(ch)' <=> WillDrop(Append(commandQueue, StopCommand), taken, ch)
    BY <1>5, <2>1, <2>2
  <2> HIDE DEF taken
  <2>5. StopCommand \in Commands /\ ~Concerns(StopCommand, ch)
    BY DEF Commands, StopCommand, Concerns
  <2>6. WillDrop(Append(commandQueue, StopCommand), taken, ch)
    BY <1>2, <1>3, <2>3, <2>5, WillDropPushed
  <2> QED BY <2>4, <2>6
<1>10. CASE HandlePendingCommands
  <2>1. /\ UNCHANGED <<toServer, serverSubs, link, running, wanted>>
        /\ pending = <<>> /\ pending' = commandQueue /\ commandQueue' = <<>>
    BY <1>10 DEF HandlePendingCommands, serverVars, Swapped
  <2>2. WillDrop(commandQueue, taken, ch)
    BY <1>6, <2>1
  <2>3. taken <=> sent
    BY <1>3, <2>1, WillDropWeakened
  <2>4. Dropped(ch)' <=> WillDrop(<<>>, WillDrop(commandQueue, sent, ch), ch)
    BY <1>5, <2>1
  <2> HIDE DEF taken, sent
  <2>5. WillDrop(commandQueue, sent, ch)
    BY <1>3, <2>2, <2>3, WillDropWeakened
  <2> DEFINE all == WillDrop(commandQueue, sent, ch)
  <2>6. all \in BOOLEAN /\ all
    BY <2>5 DEF WillDrop
  <2>7. Dropped(ch)' <=> WillDrop(<<>>, all, ch)
    BY <2>4
  <2> HIDE DEF all
  <2> QED BY <2>6, <2>7, WillDropWeakened
<1>11. CASE HandleCommand
  <2>1. /\ pending # <<>> /\ pending' = Tail(pending) /\ Execute(Head(pending))
        /\ UNCHANGED <<commandQueue, serverSubs, link, wanted>>
    BY <1>11 DEF HandleCommand, clientVars
  <2>2. Head(pending) \in Commands
    BY <1>2, <2>1, Popped
  <2>3. Head(pending).type # "Stop" /\ running' = running
    BY <2>1 DEF Execute
  <2>4. WillDrop(commandQueue, taken, ch)
    BY <1>6, <2>1, <2>3
  <2> DEFINE sentNext == WillDrop(toServer', off, ch)
  <2> DEFINE takenNext == WillDrop(Tail(pending), sentNext, ch)
  <2>5. sentNext \in BOOLEAN /\ takenNext \in BOOLEAN
    BY DEF WillDrop
  <2>6. Dropped(ch)' <=> WillDrop(commandQueue, takenNext, ch)
    BY <1>5, <2>1
  <2>7. (IF Concerns(Head(pending), ch) THEN Head(pending).type = "Unsubscribe" ELSE sent) => sentNext
    <3>1. CASE Concerns(Head(pending), ch) /\ Head(pending).type # "Unsubscribe"
      BY <3>1
    <3>2. CASE Concerns(Head(pending), ch) /\ Head(pending).type = "Unsubscribe"
      <4>1. toServer' = Append(toServer, Head(pending))
        BY <2>1, <3>2 DEF Execute, SendToServer
      <4>2. WillDrop(Append(toServer, Head(pending)), off, ch)
        BY <1>2, <1>3, <2>2, <3>2, WillDropPushed
      <4> QED BY <4>1, <4>2
    <3>3. CASE ~Concerns(Head(pending), ch) /\ sent
      <4>1. toServer' = toServer \/ toServer' = Append(toServer, Head(pending))
        BY <2>1 DEF Execute, SendToServer
      <4>2. WillDrop(Append(toServer, Head(pending)), off, ch)
        BY <1>2, <1>3, <2>2, <3>3, WillDropPushed
      <4> QED BY <3>3, <4>1, <4>2
    <3> QED BY <3>1, <3>2, <3>3
  <2>8. taken => takenNext
    <3> HIDE DEF sent, sentNext
    <3> QED BY <1>2, <1>3, <2>1, <2>5, <2>7, WillDropPopped
  <2> HIDE DEF taken, takenNext
  <2>9. WillDrop(commandQueue, takenNext, ch)
    BY <1>3, <2>4, <2>5, <2>8, WillDropWeakened
  <2> QED BY <2>6, <2>9
<1>12. CASE ServerStep
  <2>1. /\ toServer # <<>> /\ toServer' = Tail(toServer) /\ link' = link
        /\ UNCHANGED <<commandQueue, pending, wanted, running>>
    BY <1>12 DEF ServerStep, clientVars, listenVars
  <2>2. WillDrop(commandQueue, taken, ch)
    BY <1>6, <2>1
  <2> DEFINE offNext == ch \notin serverSubs'
  <2> DEFINE sentNext == WillDrop(Tail(toServer), offNext, ch)
  <2> DEFINE takenNext == WillDrop(pending, sentNext, ch)
  <2>3. offNext \in BOOLEAN /\ sentNext \in BOOLEAN /\ takenNext \in BOOLEAN
    BY DEF WillDrop
  <2>4. Dropped(ch)' <=> WillDrop(commandQueue, takenNext, ch)
    BY <1>5, <2>1
  <2>5. (IF Concerns(Head(toServer), ch) THEN Head(toServer).type = "Unsubscribe" ELSE off) => offNext
    BY <1>12 DEF ServerStep, Concerns
  <2>6. sent => sentNext
    <3> HIDE DEF off, offNext
    <3> QED BY <1>2, <1>3, <2>1, <2>3, <2>5, WillDropPopped
  <2> HIDE DEF sent, sentNext
  <2>7. taken => takenNext
    BY <1>3, <2>3, <2>6, WillDropWeakened
  <2> HIDE DEF taken, takenNext
  <2>8. WillDrop(commandQueue, takenNext, ch)
    BY <1>3, <2>2, <2>3, <2>7, WillDropWeakened
  <2> QED BY <2>4, <2>8
<1>13. CASE UNCHANGED vars \/ Publish \/ Poll \/ ReadPipe \/ CommandsHandled \/ GetReply
            \/ GetReplyFails \/ LoseLink
            \/ \E k \in Callers : \/ \E c \in Channels : \/ Request(k, "Subscribe", c)
                                                         \/ Request(k, "Unsubscribe", c)
                                  \/ WakeupListener(k) \/ JoinAndReset(k)
  <2>1. UNCHANGED <<commandQueue, pending, toServer, serverSubs, wanted, link, running>>
    BY <1>13 DEF vars, Publish, Poll, ReadPipe, CommandsHandled, GetReply, GetReplyFails, LoseLink,
       Request, WakeupListener, JoinAndReset, clientVars, listenVars, serverVars
  <2> QED BY <1>7, <2>1
<1> QED BY <1>8, <1>9, <1>10, <1>11, <1>12, <1>13 DEF Next, Listener

-----------------------------------------------------------------------------
(* The messages.                                                             *)

\* Redis numbers them as it routes them, and each is handled in its turn.
LEMMA OrderedStep ==
    ASSUME TypeOK, Ordered, Routed, [Next]_vars
    PROVE  Ordered' /\ Routed'
<1>1. /\ dispatched \in Seq(1..MaxMessages) /\ Len(dispatched) \in Nat
      /\ routed \in Nat /\ MaxMessages \in Nat /\ routed <= MaxMessages
      /\ link \in BOOLEAN
  <2>1. dispatched \in Seq(1..MaxMessages) /\ routed \in 0..MaxMessages /\ link \in BOOLEAN
    BY DEF TypeOK
  <2> QED BY <2>1, BoundsAssumption, Queue
<1>2. Consecutive(Unhandled, Len(dispatched))
  BY DEF Ordered
<1>3. ASSUME NEW r \in Replies, reader' = reader, socket' = Append(socket, r), link' = link,
             dispatched' = dispatched, routed' = routed \/ (link /\ routed' = routed + 1),
             \A m \in 1..MaxMessages : Carries(r, m) => m = routed + 1 /\ link,
             routed' = routed + 1 => Carries(r, routed + 1),
             routed' = routed => \A m \in 1..MaxMessages : ~Carries(r, m)
      PROVE  Ordered' /\ Routed'
  <2>1. Unhandled \in Seq(Replies) /\ Unhandled' = Append(Unhandled, r)
    BY <1>3, LastReply
  <2>2. /\ Len(Unhandled) \in Nat /\ Len(Unhandled') = Len(Unhandled) + 1
        /\ Unhandled'[Len(Unhandled) + 1] = r
        /\ \A i \in 1..Len(Unhandled) : Unhandled'[i] = Unhandled[i]
    BY <2>1, Pushed, Queue
  <2>3. ASSUME NEW m \in 1..MaxMessages, Carries(r, m)
        PROVE  /\ m > Len(dispatched)
               /\ \A i \in 1..Len(Unhandled), l \in 1..MaxMessages : Carries(Unhandled[i], l) => l < m
               /\ \A l \in (Len(dispatched) + 1)..(m - 1) : \E i \in 1..Len(Unhandled) : Carries(Unhandled[i], l)
    <3>1. m = routed + 1 /\ link
      BY <1>3, <2>3
    <3>2. m - 1 = routed
      BY <1>1, <3>1
    <3> QED BY <1>1, <3>1, <3>2 DEF Routed
  <2>4. Consecutive(Append(Unhandled, r), Len(dispatched))
    BY <1>1, <1>2, <2>1, <2>3, ConsecutivePushed
  <2>5. Ordered'
    BY <1>3, <2>1, <2>4 DEF Ordered
  <2>6. \A i \in 1..Len(Unhandled') : i = Len(Unhandled) + 1 \/ i \in 1..Len(Unhandled)
    BY <2>2
  <2>7. Len(dispatched') <= routed'
    BY <1>1, <1>3 DEF Routed
  <2>8. ASSUME NEW i \in 1..Len(Unhandled'), NEW n \in 1..MaxMessages, Carries(Unhandled'[i], n)
        PROVE  n <= routed'
    <3>1. CASE i = Len(Unhandled) + 1
      BY <1>1, <1>3, <2>2, <2>8, <3>1
    <3>2. CASE i \in 1..Len(Unhandled)
      <4>1. n <= routed
        BY <2>2, <2>8, <3>2 DEF Routed
      <4> QED BY <1>1, <1>3, <4>1
    <3> QED BY <2>6, <3>1, <3>2
  <2>9. ASSUME link', NEW n \in (Len(dispatched') + 1)..routed'
        PROVE  \E i \in 1..Len(Unhandled') : Carries(Unhandled'[i], n)
    <3>1. CASE n \in (Len(dispatched) + 1)..routed
      <4>1. PICK i \in 1..Len(Unhandled) : Carries(Unhandled[i], n)
        BY <1>3, <2>9, <3>1 DEF Routed
      <4>2. i \in 1..Len(Unhandled') /\ Unhandled'[i] = Unhandled[i]
        BY <2>2
      <4> QED BY <4>1, <4>2
    <3>2. CASE n \notin (Len(dispatched) + 1)..routed
      <4>1. routed' = routed + 1 /\ n = routed + 1
        BY <1>1, <1>3, <2>9, <3>2
      <4>2. Len(Unhandled) + 1 \in 1..Len(Unhandled')
        BY <2>2
      <4> QED BY <1>3, <2>2, <4>1, <4>2
    <3> QED BY <3>1, <3>2
  <2>10. Routed'
    BY <2>7, <2>8, <2>9 DEF Routed
  <2> QED BY <2>5, <2>10
<1>4. CASE ServerStep
  <2>1. PICK r \in Replies : r.kind # "message" /\ socket' = Append(socket, r)
    <3>1. toServer \in Seq(Commands) /\ toServer # <<>>
      BY <1>4 DEF TypeOK, ServerStep
    <3>2. Head(toServer) \in Commands
      BY <3>1, Popped
    <3>3. Head(toServer).type \in {"Subscribe", "Unsubscribe"} /\ Head(toServer).channel \in Channels
      BY <1>4, <3>2, CommandFacts DEF ServerStep
    <3>4. /\ [kind |-> "subscribe", channel |-> Head(toServer).channel] \in Replies
          /\ [kind |-> "unsubscribe", channel |-> Head(toServer).channel] \in Replies
      BY <3>3 DEF Replies
    <3> QED BY <1>4, <3>4 DEF ServerStep
  <2>2. reader' = reader /\ link' = link /\ dispatched' = dispatched /\ routed' = routed
    BY <1>4 DEF ServerStep, listenVars
  <2>3. \A m \in 1..MaxMessages : ~Carries(r, m)
    BY <2>1 DEF Carries
  <2>4. ~(routed' = routed + 1)
    BY <1>1, <2>2
  <2> QED BY <1>3, <2>1, <2>2, <2>3, <2>4
<1>5. CASE Publish
  <2>1. PICK r \in Replies :
          r.kind = "message" /\ r.id = routed + 1 /\ socket' = Append(socket, r)
    <3>1. routed + 1 \in 1..MaxMessages
      BY <1>1, <1>5 DEF Publish
    <3>2. [kind |-> "message", id |-> routed + 1] \in Replies
      BY <3>1 DEF Replies
    <3> QED BY <1>5, <3>2 DEF Publish
  <2>2. /\ reader' = reader /\ link' = link /\ dispatched' = dispatched
        /\ link /\ routed' = routed + 1
    BY <1>5 DEF Publish, listenVars
  <2>3. \A m \in 1..MaxMessages : Carries(r, m) => m = routed + 1 /\ link
    BY <2>1, <2>2 DEF Carries
  <2>4. Carries(r, routed + 1)
    BY <2>1 DEF Carries
  <2>5. ~(routed' = routed)
    BY <1>1, <2>2
  <2> QED BY <1>3, <2>1, <2>2, <2>3, <2>4, <2>5
<1>6. CASE GetReply
  <2>1. /\ Unhandled \in Seq(Replies) /\ Unhandled # <<>> /\ Unhandled' = Tail(Unhandled)
        /\ HandleRedisReply(Head(Unhandled))
    BY <1>6, FirstReply
  <2>2. routed' = routed /\ link' = link
    BY <1>6 DEF GetReply, serverVars
  <2>3. /\ Len(Unhandled) \in Nat /\ Len(Unhandled) # 0 /\ Len(Unhandled') = Len(Unhandled) - 1
        /\ Head(Unhandled) = Unhandled[1] /\ Head(Unhandled) \in Replies
        /\ \A i \in 1..(Len(Unhandled) - 1) : Unhandled'[i] = Unhandled[i + 1]
    BY <2>1, Popped
  <2>4. /\ \A m \in 1..MaxMessages : Carries(Head(Unhandled), m) => m = Len(dispatched) + 1
        /\ (\A m \in 1..MaxMessages : ~Carries(Head(Unhandled), m)) => Consecutive(Tail(Unhandled), Len(dispatched))
        /\ Carries(Head(Unhandled), Len(dispatched) + 1) /\ Len(dispatched) + 1 <= MaxMessages
              => Consecutive(Tail(Unhandled), Len(dispatched) + 1)
    BY <1>1, <1>2, <2>1, ConsecutivePopped
  <2>5. \A i \in 1..Len(Unhandled') : i + 1 \in 1..Len(Unhandled) /\ Unhandled'[i] = Unhandled[i + 1]
    BY <2>3
  <2>6. 1 \in 1..Len(Unhandled)
    BY <2>3
  <2>7. \A i \in 1..Len(Unhandled), n \in 1..MaxMessages : Carries(Unhandled[i], n) => n <= routed
    BY DEF Routed
  <2>8. \A i \in 1..Len(Unhandled'), n \in 1..MaxMessages : Carries(Unhandled'[i], n) => n <= routed'
    BY <2>2, <2>5, <2>7
  <2>9. ASSUME link', NEW n \in (Len(dispatched) + 1)..routed, ~Carries(Head(Unhandled), n)
        PROVE  \E i \in 1..Len(Unhandled') : Carries(Unhandled'[i], n)
    <3>1. PICK i \in 1..Len(Unhandled) : Carries(Unhandled[i], n)
      BY <2>2, <2>9 DEF Routed
    <3>2. i # 1
      BY <2>3, <2>9, <3>1
    <3>3. i - 1 \in 1..Len(Unhandled') /\ Unhandled'[i - 1] = Unhandled[i]
      BY <2>3, <3>2
    <3> QED BY <3>1, <3>3
  <2>10. CASE Head(Unhandled).kind = "message"
    <3>1. Head(Unhandled).id \in 1..MaxMessages /\ Carries(Head(Unhandled), Head(Unhandled).id)
      BY <2>3, <2>10, ReplyFacts DEF Carries
    <3>2. Head(Unhandled).id = Len(dispatched) + 1
      BY <2>4, <3>1
    <3>3. dispatched' = Append(dispatched, Len(dispatched) + 1)
      BY <2>1, <2>10, <3>2 DEF HandleRedisReply
    <3>4. /\ Len(dispatched') = Len(dispatched) + 1
          /\ dispatched'[Len(dispatched) + 1] = Len(dispatched) + 1
          /\ \A i \in 1..Len(dispatched) : dispatched'[i] = dispatched[i]
      BY <1>1, <3>1, <3>2, <3>3, Pushed
    <3>5. Consecutive(Unhandled', Len(dispatched'))
      <4>1. Consecutive(Tail(Unhandled), Len(dispatched) + 1)
        BY <1>1, <2>4, <3>1, <3>2
      <4> QED BY <2>1, <3>4, <4>1
    <3>6. \A i \in 1..Len(dispatched') : dispatched'[i] = i
      <4>1. \A i \in 1..Len(dispatched') : i = Len(dispatched) + 1 \/ i \in 1..Len(dispatched)
        BY <1>1, <3>4
      <4>2. \A i \in 1..Len(dispatched) : dispatched[i] = i
        BY DEF Ordered
      <4> QED BY <3>4, <4>1, <4>2
    <3>7. Len(dispatched') <= routed'
      BY <2>2, <2>3, <2>6, <2>7, <3>1, <3>2, <3>4
    <3>8. ASSUME link', NEW n \in (Len(dispatched') + 1)..routed'
          PROVE  \E i \in 1..Len(Unhandled') : Carries(Unhandled'[i], n)
      <4>1. n \in (Len(dispatched) + 1)..routed /\ n # Len(dispatched) + 1
        BY <1>1, <2>2, <3>4
      <4>2. ~Carries(Head(Unhandled), n)
        BY <3>2, <4>1 DEF Carries
      <4> QED BY <2>9, <3>8, <4>1, <4>2
    <3> QED BY <2>8, <3>5, <3>6, <3>7, <3>8 DEF Ordered, Routed
  <2>11. CASE Head(Unhandled).kind # "message"
    <3>1. dispatched' = dispatched
      BY <2>1, <2>11 DEF HandleRedisReply
    <3>2. \A m : ~Carries(Head(Unhandled), m)
      BY <2>11 DEF Carries
    <3>3. Ordered'
      BY <2>1, <2>4, <3>1, <3>2 DEF Ordered
    <3>4. Routed'
      BY <2>2, <2>8, <2>9, <3>1, <3>2 DEF Routed
    <3> QED BY <3>3, <3>4
  <2> QED BY <2>10, <2>11
<1>7. CASE LoseLink
  <2>1. /\ Unhandled \in Seq(Replies) /\ Unhandled' \in Seq(Replies)
        /\ Len(Unhandled') <= Len(Unhandled)
        /\ \A i \in 1..Len(Unhandled') : Unhandled'[i] = Unhandled[i]
    BY <1>7, LostReplies
  <2>2. dispatched' = dispatched /\ routed' = routed /\ ~link'
    BY <1>7 DEF LoseLink, listenVars
  <2> DEFINE left == Unhandled'
  <2>3. Consecutive(left, Len(dispatched))
    <3>1. /\ left \in Seq(Replies) /\ Len(left) <= Len(Unhandled)
          /\ \A i \in 1..Len(left) : left[i] = Unhandled[i]
      BY <2>1
    <3> HIDE DEF left
    <3> QED BY <1>1, <1>2, <2>1, <3>1, ConsecutivePrefix
  <2>4. \A i \in 1..Len(left) : i \in 1..Len(Unhandled)
    <3>1. Len(Unhandled) \in Nat /\ Len(left) \in Nat /\ Len(left) <= Len(Unhandled)
      BY <2>1, Queue
    <3> QED BY <3>1
  <2>5. Ordered'
    BY <2>2, <2>3 DEF Ordered
  <2> QED BY <2>1, <2>2, <2>4, <2>5 DEF Routed
<1>8. CASE ~GetReply /\ ~LoseLink /\ ~ServerStep /\ ~Publish
  <2>1. CASE Unhandled' = <<>> /\ link' = FALSE /\ UNCHANGED <<dispatched, routed>>
    <3>1. Len(Unhandled') = 0 /\ 1..0 = {}
      BY <2>1
    <3> QED BY <2>1, <3>1 DEF Ordered, Routed, Consecutive
  <2>2. CASE UNCHANGED <<Unhandled, dispatched, routed, link>>
    BY <2>2 DEF Ordered, Routed
  <2> QED BY <1>8, <2>1, <2>2, OtherReplies
<1> QED BY <1>4, <1>5, <1>6, <1>7, <1>8

-----------------------------------------------------------------------------
(* The theorems.                                                             *)

\* At first nothing is queued, on its way, subscribed to or handled.
LEMMA InitKeeps == Init => IInv
<1> SUFFICES ASSUME Init PROVE IInv
  OBVIOUS
<1>1. TypeOK
  BY TypeInit
<1>2. NoLostCommand /\ Swapped
  BY DEF Init, NoLostCommand, Swapped
<1>3. Asked
  BY DEF Init, Asked
<1>4. Unhandled = <<>> /\ Len(<<>>) = 0 /\ 1..0 = {}
  <2>1. <<>> \o <<>> = <<>>
    BY ConcatEmptySeq, EmptySeq
  <2> QED BY <2>1 DEF Init, Unhandled
<1>5. Trails
  BY <1>4 DEF Init, Trails, WillHold
<1>6. Unwanted
  BY <1>4 DEF Init, Unwanted, Dropped, WillDrop
<1>7. Ordered
  BY <1>4 DEF Init, Ordered, Consecutive
<1>8. Routed
  BY <1>4 DEF Init, Routed
<1> QED BY <1>1, <1>2, <1>3, <1>5, <1>6, <1>7, <1>8 DEF IInv

\* Every step keeps the invariant.
LEMMA NextKeeps == IInv /\ [Next]_vars => IInv'
BY TypeStep, LostStep, PlaceStep, TrailsStep, UnwantedStep, OrderedStep DEF IInv

\* The inductive invariant holds in every behaviour of the client.
THEOREM Invariant == Spec => []IInv
<1>1. Init => IInv
  BY InitKeeps
<1>2. IInv /\ [Next]_vars => IInv'
  BY NextKeeps
<1> QED BY <1>1, <1>2, PTL DEF Spec

\* The client's state has its types (the members of Redis).
THEOREM TypeCorrect == Spec => []TypeOK
<1>1. IInv => TypeOK
  BY DEF IInv
<1> QED BY <1>1, Invariant, PTL

\* A command that is queued has its wakeup: enqueueCommand writes the byte
\* after it has queued, and listenerLoop reads the pipe before it takes the
\* queue.
THEOREM WakeupCorrect == Spec => []NoLostCommand
<1>1. IInv => NoLostCommand
  BY DEF IInv
<1> QED BY <1>1, Invariant, PTL

\* The channel table trails Redis by what handleRedisReply has not seen.
THEOREM TableCorrect == Spec => []TableTrailsServer
<1>1. IInv => TableTrailsServer
  BY DEF IInv, Trails, WillHold, TableTrailsServer
<1> QED BY <1>1, Invariant, PTL

\* Once all commands are carried out, Redis holds no channel whose last command
\* was Unsubscribe: sendUnsubscribeCommand asks the table nothing.
THEOREM GhostFree == Spec => []NoGhostSubscription
<1>1. IInv => NoGhostSubscription
  <2> SUFFICES ASSUME IInv, Settled, NEW ch \in serverSubs, ch \notin wanted PROVE FALSE
    BY DEF NoGhostSubscription
  <2>1. ch \in Channels
    BY DEF IInv, TypeOK
  <2>2. Dropped(ch)
    BY <2>1 DEF IInv, Unwanted, Settled
  <2>3. Len(<<>>) = 0 /\ 1..0 = {}
    OBVIOUS
  <2> QED BY <2>2, <2>3 DEF Dropped, WillDrop, Settled
<1> QED BY <1>1, Invariant, PTL

\* Messages reach _messageHandler as Redis routed them.
THEOREM OrderCorrect == Spec => []InOrder
<1>1. IInv => InOrder
  BY DEF IInv, Ordered, Consecutive, InOrder
<1> QED BY <1>1, Invariant, PTL
=============================================================================
