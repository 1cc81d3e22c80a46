------------------------ MODULE ConnectionPoolProofs ------------------------
(* Proofs about ConnectionPool: any finite number of clients, any sizes.     *)
EXTENDS ConnectionPool, FiniteSetTheorems, TLAPS

-----------------------------------------------------------------------------
(* What the queue and the stacks of borrowed connections do.                 *)

\* No connection is in q twice.
Distinct(q) == \A i, j \in 1..Len(q) : q[i] = q[j] => i = j

\* Only the empty sequence has no length.
LEMMA Emptiness ==
    ASSUME NEW q \in Seq(Conns)
    PROVE  Len(q) \in Nat /\ (Len(q) = 0 <=> q = <<>>) /\ DOMAIN q = 1..Len(q)
OBVIOUS

\* What a sequence of one connection holds.
LEMMA Single ==
    ASSUME NEW q \in Seq(Conns), q # <<>>, Len(q) <= 1
    PROVE  Range(q) = {q[1]}
<1>1. Len(q) \in Nat /\ Len(q) # 0 /\ DOMAIN q = 1..Len(q)
  OBVIOUS
<1>2. Len(q) = 1
  BY <1>1
<1>3. DOMAIN q = {1}
  BY <1>1, <1>2
<1> QED BY <1>3 DEF Range

\* Appending a connection that is not there adds just that one.
LEMMA Pushed ==
    ASSUME NEW q \in Seq(Conns), Distinct(q), NEW k \in Conns, k \notin Range(q)
    PROVE  /\ Append(q, k) \in Seq(Conns) /\ Append(q, k) # <<>>
           /\ Len(q) \in Nat /\ Len(Append(q, k)) = Len(q) + 1
           /\ Distinct(Append(q, k))
           /\ Range(Append(q, k)) = Range(q) \cup {k}
<1>1. /\ Append(q, k) \in Seq(Conns) /\ Len(q) \in Nat
      /\ Len(Append(q, k)) = Len(q) + 1 /\ Append(q, k)[Len(q) + 1] = k
      /\ \A i \in 1..Len(q) : Append(q, k)[i] = q[i]
      /\ DOMAIN q = 1..Len(q) /\ DOMAIN Append(q, k) = 1..(Len(q) + 1)
  OBVIOUS
<1>2. \A i \in 1..Len(q) : q[i] \in Range(q)
  BY <1>1 DEF Range
<1>3. \A i \in 1..(Len(q) + 1) : i = Len(q) + 1 \/ i \in 1..Len(q)
  BY <1>1
<1>4. Distinct(Append(q, k))
  BY <1>1, <1>2, <1>3 DEF Distinct
<1>5. Range(Append(q, k)) = Range(q) \cup {k}
  BY <1>1, <1>3 DEF Range
<1>6. Append(q, k) # <<>>
  BY <1>1
<1> QED BY <1>1, <1>4, <1>5, <1>6

\* Taking the first connection takes just that one.
LEMMA Popped ==
    ASSUME NEW q \in Seq(Conns), Distinct(q), q # <<>>
    PROVE  /\ Head(q) \in Conns /\ Head(q) \in Range(q)
           /\ Tail(q) \in Seq(Conns)
           /\ Len(q) \in Nat \ {0} /\ Len(Tail(q)) = Len(q) - 1
           /\ Distinct(Tail(q))
           /\ Range(Tail(q)) = Range(q) \ {Head(q)}
<1>1. /\ Head(q) = q[1] /\ q[1] \in Conns /\ Tail(q) \in Seq(Conns)
      /\ Len(q) \in Nat \ {0} /\ Len(Tail(q)) = Len(q) - 1
      /\ \A i \in 1..(Len(q) - 1) : Tail(q)[i] = q[i + 1]
      /\ DOMAIN q = 1..Len(q) /\ DOMAIN Tail(q) = 1..(Len(q) - 1)
  OBVIOUS
<1>2. \A i \in 1..(Len(q) - 1) : i + 1 \in 1..Len(q)
  BY <1>1
<1>3. Distinct(Tail(q))
  BY <1>1, <1>2 DEF Distinct
<1>4. \A i \in 1..Len(q) : q[i] # q[1] => i - 1 \in 1..(Len(q) - 1) /\ q[i] = Tail(q)[i - 1]
  BY <1>1
<1>5. \A i \in 1..(Len(q) - 1) : Tail(q)[i] # q[1]
  BY <1>1, <1>2 DEF Distinct
<1>6. Range(Tail(q)) = Range(q) \ {q[1]}
  <2>1. ASSUME NEW k \in Range(Tail(q)) PROVE k \in Range(q) \ {q[1]}
    <3>1. PICK i \in 1..(Len(q) - 1) : k = Tail(q)[i]
      BY <1>1, <2>1 DEF Range
    <3> QED BY <1>1, <1>2, <1>5, <3>1 DEF Range
  <2>2. ASSUME NEW k \in Range(q) \ {q[1]} PROVE k \in Range(Tail(q))
    <3>1. PICK i \in 1..Len(q) : k = q[i]
      BY <1>1, <2>2 DEF Range
    <3>2. i - 1 \in 1..(Len(q) - 1) /\ k = Tail(q)[i - 1]
      BY <1>4, <2>2, <3>1
    <3> QED BY <1>1, <3>2 DEF Range
  <2> QED BY <2>1, <2>2
<1>7. Head(q) \in Range(q)
  BY <1>1 DEF Range
<1> QED BY <1>1, <1>3, <1>6, <1>7

\* The first m connections of a sequence.
LEMMA Prefix ==
    ASSUME NEW q \in Seq(Conns), NEW m \in 0..Len(q)
    PROVE  /\ SubSeq(q, 1, m) \in Seq(Conns)
           /\ Len(SubSeq(q, 1, m)) = m /\ DOMAIN SubSeq(q, 1, m) = 1..m
           /\ \A i \in 1..m : SubSeq(q, 1, m)[i] = q[i]
<1>1. SubSeq(q, 1, m) \in Seq(Conns) /\ Len(SubSeq(q, 1, m)) = m
  OBVIOUS
<1>2. \A i \in 1..m : SubSeq(q, 1, m)[i] = q[i]
  OBVIOUS
<1> QED BY <1>1, <1>2

\* Giving back the last connection gives back just that one.
LEMMA Dropped ==
    ASSUME NEW q \in Seq(Conns), Distinct(q), q # <<>>
    PROVE  /\ Last(q) \in Conns /\ Last(q) \in Range(q)
           /\ Front(q) \in Seq(Conns)
           /\ Len(q) \in Nat \ {0} /\ Len(Front(q)) = Len(q) - 1
           /\ Distinct(Front(q))
           /\ Range(Front(q)) = Range(q) \ {Last(q)}
<1>0. Len(q) \in Nat \ {0} /\ \A i \in 1..Len(q) : q[i] \in Conns
  OBVIOUS
<1>1. Last(q) = q[Len(q)] /\ q[Len(q)] \in Conns /\ DOMAIN q = 1..Len(q)
  BY <1>0 DEF Last
<1>2. /\ Front(q) \in Seq(Conns) /\ Len(Front(q)) = Len(q) - 1
      /\ \A i \in 1..(Len(q) - 1) : Front(q)[i] = q[i]
      /\ DOMAIN Front(q) = 1..(Len(q) - 1)
  <2>1. Len(q) - 1 \in 0..Len(q)
    BY <1>0
  <2> QED BY <2>1, Prefix DEF Front
<1>3. \A i \in 1..Len(q) : i = Len(q) \/ i \in 1..(Len(q) - 1)
  BY <1>0
<1>4. /\ Len(q) \in 1..Len(q)
      /\ \A i \in 1..(Len(q) - 1) : i \in 1..Len(q) /\ i # Len(q)
  BY <1>0
<1>5. Distinct(Front(q))
  BY <1>1, <1>2, <1>4 DEF Distinct
<1>6. \A i \in 1..(Len(q) - 1) : q[i] # q[Len(q)]
  BY <1>1, <1>4 DEF Distinct
<1>7. Range(Front(q)) = Range(q) \ {q[Len(q)]}
  BY <1>1, <1>2, <1>3, <1>4, <1>6 DEF Range
<1>8. Last(q) \in Range(q)
  BY <1>1, <1>4 DEF Range
<1> QED BY <1>0, <1>1, <1>2, <1>5, <1>7, <1>8

-----------------------------------------------------------------------------
(* The inductive invariant.                                                  *)

\* OnePlace, in terms of the sets of connections.
Apart ==
    /\ Distinct(connectionQueue)
    /\ \A c \in Clients : Distinct(held[c])
    /\ \A c, d \in Clients : c # d => Range(held[c]) \cap Range(held[d]) = {}
    /\ Lent \cap Idle = {} /\ fresh \notin Idle \cup Lent
    /\ alive = (Idle \cup Lent \cup {fresh}) \ {NoConn}

\* How many connections a client may hold where it stands; only a client that
\* holds one already still waits once the destructor has begun.
Stacks ==
    \A c \in Clients :
        /\ client[c] = "out" <=> held[c] = <<>> /\ client[c] # "waiting"
        /\ client[c] = "waiting" => Len(held[c]) <= 1
        /\ client[c] = "waiting" /\ destructor # "none" => held[c] # <<>>

\* The producer has a connection in its hands just where it is about to add it.
InHand == fresh # NoConn <=> producer = "add"

\* The destructor's progress: it goes past the producer only when this has
\* exited, and ends with nothing left.
Closing ==
    /\ isRunning <=> destructor = "none"
    /\ destructor \in {"waiting", "done"} => producer = "exited"
    /\ destructor = "done" => connectionQueue = <<>> /\ Lent = {}

IInv == /\ TypeOK /\ Apart /\ Stacks /\ InHand /\ Closing
        /\ IsFiniteSet(Lent) /\ Counted /\ ProducerAwake

\* The invariant's Apart is the property OnePlace.
LEMMA ApartIsOnePlace ==
    ASSUME TypeOK, Apart
    PROVE  OnePlace
<1>1. Distinct(connectionQueue) /\ \A c \in Clients : Distinct(held[c])
  BY DEF Apart
<1>2. \A c, d \in Borrowers : \A i \in DOMAIN held[c], j \in DOMAIN held[d] :
         held[c][i] = held[d][j] => c = d /\ i = j
  <2> SUFFICES ASSUME NEW c \in Clients, NEW d \in Clients,
                      NEW i \in DOMAIN held[c], NEW j \in DOMAIN held[d],
                      held[c][i] = held[d][j]
               PROVE  c = d /\ i = j
    BY DEF Borrowers
  <2>1. held[c][i] \in Range(held[c]) /\ held[d][j] \in Range(held[d])
    BY DEF Range
  <2>2. c = d
    BY <2>1 DEF Apart
  <2>3. DOMAIN held[c] = 1..Len(held[c])
    BY DEF TypeOK
  <2> QED BY <1>1, <2>2, <2>3 DEF Distinct
<1>3. Lent \cap (Idle \cup {fresh}) = {} /\ fresh \notin Idle
  BY DEF Apart
<1>4. alive = (Idle \cup Lent \cup {fresh}) \ {NoConn}
  BY DEF Apart
<1> QED BY <1>1, <1>2, <1>3, <1>4 DEF OnePlace, Distinct

\* A connection lent is lent to a client.
LEMMA LentTo ==
    ASSUME NEW k
    PROVE  k \in Lent <=> \E c \in Clients : k \in Range(held[c])
BY DEF Lent

\* What is idle or lent is a connection.
LEMMA ConnsOnly ==
    ASSUME TypeOK
    PROVE  Idle \subseteq Conns /\ Lent \subseteq Conns
<1>1. Idle \subseteq Conns
  BY DEF TypeOK, Idle, Range
<1>2. \A c \in Clients : Range(held[c]) \subseteq Conns
  BY DEF TypeOK, Range
<1> QED BY <1>1, <1>2 DEF Lent

\* The initial state satisfies the invariant.
LEMMA InvInit == Init => IInv
<1> SUFFICES ASSUME Init PROVE IInv
  OBVIOUS
<1> USE SizesAssumption
<1>1. connectionQueue \in [1..InitSize -> Conns] /\ Distinct(connectionQueue)
      /\ connectionQueue \in Seq(Conns) /\ Len(connectionQueue) = InitSize
  <2>1. connectionQueue \in [1..InitSize -> Conns]
        /\ \A i, j \in 1..InitSize : connectionQueue[i] = connectionQueue[j] => i = j
    BY DEF Init
  <2>2. connectionQueue \in Seq(Conns) /\ Len(connectionQueue) = InitSize
    BY <2>1
  <2> QED BY <2>1, <2>2 DEF Distinct
<1>2. \A c \in Clients : held[c] = <<>> /\ client[c] = "out"
  BY DEF Init
<1>3. <<>> \in Seq(Conns) /\ Len(<<>>) = 0 /\ Range(<<>>) = {} /\ Distinct(<<>>)
  BY DEF Range, Distinct
<1>4. Lent = {}
  BY <1>2, <1>3 DEF Lent
<1>5. Idle \subseteq Conns
  BY <1>1 DEF Idle, Range
<1>6. TypeOK
  <2>1. held \in [Clients -> Seq(Conns)] /\ \A c \in Clients : Len(held[c]) <= 2
    BY <1>2, <1>3 DEF Init
  <2>2. alive \subseteq Conns
    BY <1>5 DEF Init, Idle
  <2> QED BY <1>1, <2>1, <2>2 DEF Init, TypeOK
<1>7. Apart
  BY <1>1, <1>2, <1>3, <1>4, <1>5, ConnsAssumption DEF Init, Apart, Idle
<1>8. Stacks /\ InHand /\ Closing
  BY <1>2, <1>3 DEF Init, Stacks, InHand, Closing
<1>9. IsFiniteSet(Lent) /\ Cardinality(Lent) = 0
  BY <1>4, FS_EmptySet
<1>10. Counted /\ ProducerAwake
  BY <1>1, <1>4, <1>5, <1>9, ConnsAssumption DEF Init, Counted, ProducerAwake, Idle
<1> QED BY <1>6, <1>7, <1>8, <1>9, <1>10 DEF IInv

-----------------------------------------------------------------------------
(* The steps.                                                                *)

\* Nothing that Lent and Idle are made of changes.
LEMMA SameOwners ==
    ASSUME UNCHANGED <<held, connectionQueue>>
    PROVE  Lent' = Lent /\ Idle' = Idle
BY DEF Lent, Idle

\* A client that begins to wait, or gives up, moves no connection.
LEMMA InvWait ==
    ASSUME IInv, NEW c \in Clients, Call(c) \/ CallAgain(c) \/ TimeOut(c)
    PROVE  IInv'
<1>1. UNCHANGED <<connectionQueue, connectionCnt, isRunning, held, producer, fresh,
                  alive, destructor>>
  BY DEF Call, CallAgain, TimeOut
<1>2. Lent' = Lent /\ Idle' = Idle
  BY <1>1, SameOwners
<1>3. \A d \in Clients : d # c => client'[d] = client[d]
  BY DEF IInv, TypeOK, Call, CallAgain, TimeOut
<1>4. /\ client' \in [Clients -> {"out", "waiting", "using"}]
      /\ client'[c] = "out" <=> held[c] = <<>> /\ client'[c] # "waiting"
      /\ client'[c] = "waiting" => Len(held[c]) <= 1
      /\ client'[c] = "waiting" /\ destructor # "none" => held[c] # <<>>
  <2>1. Len(<<>>) = 0
    OBVIOUS
  <2>2. CASE Call(c)
    BY <2>1, <2>2 DEF IInv, TypeOK, Stacks, Call
  <2>3. CASE CallAgain(c)
    BY <2>1, <2>3 DEF IInv, TypeOK, Stacks, CallAgain
  <2>4. CASE TimeOut(c)
    BY <2>4 DEF IInv, TypeOK, Stacks, TimeOut
  <2> QED BY <2>2, <2>3, <2>4
<1>5. TypeOK'
  BY <1>1, <1>4 DEF IInv, TypeOK
<1>6. Stacks'
  BY <1>1, <1>3, <1>4 DEF IInv, Stacks
<1>7. Apart' /\ InHand' /\ Closing' /\ IsFiniteSet(Lent)' /\ Counted' /\ ProducerAwake'
  BY <1>1, <1>2 DEF IInv, Apart, InHand, Closing, Counted, ProducerAwake, Enough
<1> QED BY <1>5, <1>6, <1>7 DEF IInv

\* A borrowed connection leaves the queue for the client, and the producer is
\* woken when too few are left.
LEMMA InvBorrow ==
    ASSUME IInv, NEW c \in Clients, Borrow(c)
    PROVE  IInv'
<1> DEFINE k == Head(connectionQueue)
<1>1. /\ client[c] = "waiting" /\ producer # "gosleep"
      /\ isRunning /\ connectionQueue # <<>>
      /\ held' = [held EXCEPT ![c] = Append(held[c], k)]
      /\ connectionQueue' = Tail(connectionQueue)
      /\ client' = [client EXCEPT ![c] = "using"]
      /\ UNCHANGED <<connectionCnt, isRunning, fresh, alive, destructor>>
      /\ WakeProducer(Len(connectionQueue) - 1)
  BY DEF Borrow, MutexFree
<1>2. connectionQueue \in Seq(Conns) /\ Distinct(connectionQueue)
  BY DEF IInv, TypeOK, Apart
<1>3. /\ k \in Conns /\ k \in Idle
      /\ connectionQueue' \in Seq(Conns)
      /\ Len(connectionQueue) \in Nat \ {0} /\ Len(connectionQueue') = Len(connectionQueue) - 1
      /\ Distinct(connectionQueue') /\ Idle' = Idle \ {k}
  BY <1>1, <1>2, Popped DEF Idle
<1>4. k \notin Lent /\ \A d \in Clients : k \notin Range(held[d])
  BY <1>3 DEF IInv, Apart, Lent
<1>5. held[c] \in Seq(Conns) /\ Distinct(held[c]) /\ Len(held[c]) <= 1
  BY <1>1 DEF IInv, TypeOK, Apart, Stacks
<1>6. /\ held'[c] = Append(held[c], k)
      /\ held'[c] \in Seq(Conns) /\ held'[c] # <<>>
      /\ Len(held[c]) \in Nat /\ Len(held'[c]) = Len(held[c]) + 1
      /\ Distinct(held'[c]) /\ Range(held'[c]) = Range(held[c]) \cup {k}
  <2>1. held'[c] = Append(held[c], k)
    BY <1>1 DEF IInv, TypeOK
  <2> HIDE DEF k
  <2> QED BY <1>3, <1>4, <1>5, <2>1, Pushed
<1>7. \A d \in Clients : d # c => held'[d] = held[d] /\ client'[d] = client[d]
  BY <1>1 DEF IInv, TypeOK
<1> HIDE DEF k
<1>8. Lent' = Lent \cup {k}
  <2>1. ASSUME NEW x PROVE x \in Lent' <=> x \in Lent \/ x = k
    BY <1>6, <1>7 DEF Lent
  <2> QED BY <2>1
<1>9. held' \in [Clients -> Seq(Conns)] /\ \A d \in Clients : Len(held'[d]) <= 2
  <2>1. held' \in [Clients -> Seq(Conns)]
    BY <1>1, <1>6 DEF IInv, TypeOK
  <2>2. \A d \in Clients : Len(held[d]) <= 2
    BY DEF IInv, TypeOK
  <2>3. Len(held'[c]) <= 2
    BY <1>5, <1>6
  <2> QED BY <1>7, <2>1, <2>2, <2>3
<1>10. producer' = IF producer = "asleep" /\ Len(connectionQueue) - 1 < InitSize
                   THEN "test" ELSE producer
  BY <1>1 DEF WakeProducer
<1>11. client' \in [Clients -> {"out", "waiting", "using"}] /\ client'[c] = "using"
  BY <1>1 DEF IInv, TypeOK
<1>12. TypeOK'
  <2>1. producer' \in {"top", "test", "gosleep", "asleep", "create", "add", "exited"}
    BY <1>10 DEF IInv, TypeOK
  <2> QED BY <1>1, <1>3, <1>9, <1>11, <2>1 DEF IInv, TypeOK
<1>13. Apart'
  <2>1. \A d \in Clients : Distinct(held'[d])
    BY <1>6, <1>7 DEF IInv, Apart
  <2>2. \A d, e \in Clients : d # e => Range(held'[d]) \cap Range(held'[e]) = {}
    BY <1>4, <1>6, <1>7 DEF IInv, Apart
  <2>3. /\ Lent' \cap Idle' = {} /\ fresh' \notin Idle' \cup Lent'
        /\ alive' = (Idle' \cup Lent' \cup {fresh'}) \ {NoConn}
    BY <1>1, <1>3, <1>8 DEF IInv, Apart
  <2> QED BY <1>3, <2>1, <2>2, <2>3 DEF Apart
<1>14. Stacks'
  BY <1>1, <1>6, <1>7, <1>11 DEF IInv, Stacks
<1>15. InHand' /\ Closing'
  BY <1>1, <1>10 DEF IInv, InHand, Closing
<1>16. /\ IsFiniteSet(Lent) /\ IsFiniteSet(Lent') /\ Cardinality(Lent) \in Nat
       /\ Cardinality(Lent') = Cardinality(Lent) + 1
  BY <1>4, <1>8, FS_AddElement, FS_CardinalityType DEF IInv
<1>17. Counted'
  <2>1. alive' \ {fresh'} = Idle' \cup Lent'
    BY <1>1, <1>3, <1>8 DEF IInv, Counted
  <2>2. connectionCnt' = Len(connectionQueue') + Cardinality(Lent')
    BY <1>1, <1>3, <1>16 DEF IInv, Counted
  <2> QED BY <2>1, <2>2 DEF Counted
<1>18. ProducerAwake'
  <2>1. producer' \in {"gosleep", "asleep"} => Len(connectionQueue') >= InitSize
    BY <1>1, <1>3, <1>10, SizesAssumption
  <2> QED BY <2>1 DEF ProducerAwake, Enough
<1> QED BY <1>12, <1>13, <1>14, <1>15, <1>16, <1>17, <1>18 DEF IInv

\* A connection given back returns to the queue, or is closed with the pool.
LEMMA InvReturn ==
    ASSUME IInv, NEW c \in Clients, Return(c)
    PROVE  IInv'
<1> DEFINE k == Last(held[c])
<1>1. /\ client[c] = "using" /\ producer # "gosleep"
      /\ held' = [held EXCEPT ![c] = Front(held[c])]
      /\ client' = [client EXCEPT ![c] = IF Len(held[c]) = 1 THEN "out" ELSE "using"]
      /\ UNCHANGED <<connectionCnt, isRunning, producer, fresh, destructor>>
  BY DEF Return, MutexFree
<1>2. \/ isRunning /\ connectionQueue' = Append(connectionQueue, k) /\ alive' = alive
      \/ ~isRunning /\ connectionQueue' = connectionQueue /\ alive' = alive \ {k}
  BY DEF Return
<1>3. held[c] \in Seq(Conns) /\ Distinct(held[c]) /\ held[c] # <<>> /\ Len(held[c]) <= 2
  BY <1>1 DEF IInv, TypeOK, Apart, Stacks
<1>4. /\ k \in Conns /\ k \in Range(held[c])
      /\ held'[c] = Front(held[c]) /\ held'[c] \in Seq(Conns)
      /\ Len(held[c]) \in Nat \ {0} /\ Len(held'[c]) = Len(held[c]) - 1
      /\ Distinct(held'[c]) /\ Range(held'[c]) = Range(held[c]) \ {k}
  <2>1. held'[c] = Front(held[c])
    BY <1>1 DEF IInv, TypeOK
  <2> QED BY <1>3, <2>1, Dropped
<1> HIDE DEF k
<1>5. /\ k \in Lent /\ k \notin Idle /\ k # fresh /\ k # NoConn
      /\ \A d \in Clients : d # c => k \notin Range(held[d])
  <2>1. k \in Lent
    BY <1>4 DEF Lent
  <2>2. \A d \in Clients : d # c => k \notin Range(held[d])
    BY <1>4 DEF IInv, Apart
  <2> QED BY <1>4, <2>1, <2>2, ConnsAssumption DEF IInv, Apart
<1>6. \A d \in Clients : d # c => held'[d] = held[d] /\ client'[d] = client[d]
  BY <1>1 DEF IInv, TypeOK
<1>7. Lent' = Lent \ {k}
  <2>1. ASSUME NEW x PROVE x \in Lent' <=> x \in Lent /\ x # k
    BY <1>4, <1>5, <1>6 DEF Lent
  <2> QED BY <2>1
<1>8. /\ connectionQueue' \in Seq(Conns) /\ Distinct(connectionQueue')
      /\ Idle' = IF isRunning THEN Idle \cup {k} ELSE Idle
      /\ Len(connectionQueue) \in Nat
      /\ Len(connectionQueue') = IF isRunning THEN Len(connectionQueue) + 1
                                 ELSE Len(connectionQueue)
  <2>1. connectionQueue \in Seq(Conns) /\ Distinct(connectionQueue)
        /\ Len(connectionQueue) \in Nat
    BY DEF IInv, TypeOK, Apart
  <2>2. CASE isRunning
    BY <1>2, <1>4, <1>5, <2>1, <2>2, Pushed DEF Idle
  <2>3. CASE ~isRunning
    BY <1>2, <2>1, <2>3 DEF Idle
  <2> QED BY <2>2, <2>3
<1>9. /\ client' \in [Clients -> {"out", "waiting", "using"}]
      /\ client'[c] = IF Len(held[c]) = 1 THEN "out" ELSE "using"
  BY <1>1 DEF IInv, TypeOK
<1>10. TypeOK'
  <2>1. held' \in [Clients -> Seq(Conns)]
    BY <1>1, <1>4 DEF IInv, TypeOK
  <2>2. \A d \in Clients : Len(held[d]) <= 2
    BY DEF IInv, TypeOK
  <2>3. Len(held'[c]) <= 2
    BY <1>3, <1>4
  <2>4. \A d \in Clients : Len(held'[d]) <= 2
    BY <1>6, <2>2, <2>3
  <2>5. alive' \subseteq Conns
    BY <1>2 DEF IInv, TypeOK
  <2> QED BY <1>1, <1>8, <1>9, <2>1, <2>4, <2>5 DEF IInv, TypeOK
<1>11. Apart'
  <2>1. \A d \in Clients : Distinct(held'[d])
    BY <1>4, <1>6 DEF IInv, Apart
  <2>2. \A d, e \in Clients : d # e => Range(held'[d]) \cap Range(held'[e]) = {}
    BY <1>4, <1>6 DEF IInv, Apart
  <2>3. Lent' \cap Idle' = {} /\ fresh' \notin Idle' \cup Lent'
    BY <1>1, <1>5, <1>7, <1>8 DEF IInv, Apart
  <2>4. alive' = (Idle' \cup Lent' \cup {fresh'}) \ {NoConn}
    BY <1>1, <1>2, <1>5, <1>7, <1>8 DEF IInv, Apart
  <2> QED BY <1>8, <2>1, <2>2, <2>3, <2>4 DEF Apart
<1>12. Stacks'
  <2>1. client'[c] = "out" <=> held'[c] = <<>>
    <3>1. Len(held'[c]) = 0 <=> held'[c] = <<>>
      BY <1>4, Emptiness
    <3>2. Len(held[c]) \in Nat \ {0} /\ Len(held'[c]) = Len(held[c]) - 1
      BY <1>4
    <3>3. Len(held[c]) = 1 <=> Len(held'[c]) = 0
      BY <3>2
    <3> QED BY <1>9, <3>1, <3>3
  <2> QED BY <1>1, <1>6, <1>9, <2>1 DEF IInv, Stacks
<1>13. InHand'
  BY <1>1 DEF IInv, InHand
<1>14. Closing'
  <2>1. CASE isRunning
    BY <1>1, <2>1 DEF IInv, Closing
  <2>2. CASE ~isRunning
    BY <1>1, <1>2, <1>7, <2>2 DEF IInv, Closing
  <2> QED BY <2>1, <2>2
<1>15. /\ IsFiniteSet(Lent) /\ IsFiniteSet(Lent') /\ Cardinality(Lent) \in Nat
       /\ Cardinality(Lent') = Cardinality(Lent) - 1
  BY <1>5, <1>7, FS_RemoveElement, FS_CardinalityType DEF IInv
<1>16. Counted'
  <2> SUFFICES ASSUME isRunning PROVE Counted'
    BY <1>1 DEF Counted
  <2>1. alive' \ {fresh'} = Idle' \cup Lent'
    BY <1>1, <1>2, <1>5, <1>7, <1>8 DEF IInv, Counted
  <2>2. connectionCnt' = Len(connectionQueue') + Cardinality(Lent')
    BY <1>1, <1>8, <1>15 DEF IInv, Counted
  <2> QED BY <2>1, <2>2 DEF Counted
<1>17. ProducerAwake'
  <2>1. isRunning /\ producer = "asleep" => Len(connectionQueue') >= InitSize
                                            \/ connectionCnt' >= MaxSize
    BY <1>1, <1>8, SizesAssumption DEF IInv, ProducerAwake, Enough
  <2> QED BY <1>1, <2>1 DEF ProducerAwake, Enough
<1> QED BY <1>10, <1>11, <1>12, <1>13, <1>14, <1>15, <1>16, <1>17 DEF IInv

\* The producer's tests, sleep and wakeups: it sleeps only on enough.
LEMMA InvProducer ==
    ASSUME IInv, LoopTop \/ Test \/ Sleep \/ SpuriousWakeup \/ CreateFails
    PROVE  IInv'
<1>1. UNCHANGED <<connectionQueue, connectionCnt, isRunning, client, held, fresh,
                  alive, destructor>>
  BY DEF LoopTop, Test, Sleep, SpuriousWakeup, CreateFails, clientVars
<1>2. Lent' = Lent /\ Idle' = Idle /\ (Enough' <=> Enough)
  BY <1>1, SameOwners DEF Enough
<1>3. /\ producer' \in {"top", "test", "gosleep", "asleep", "create", "exited"}
      /\ producer # "add" /\ producer # "exited"
      /\ producer' = "gosleep" => Enough
      /\ producer' = "asleep" => producer = "gosleep"
  BY DEF LoopTop, Test, Sleep, SpuriousWakeup, CreateFails
<1>4. TypeOK' /\ Stacks' /\ Apart' /\ InHand' /\ Closing'
  BY <1>1, <1>2, <1>3 DEF IInv, TypeOK, Stacks, Apart, InHand, Closing
<1>5. IsFiniteSet(Lent)' /\ Counted'
  BY <1>1, <1>2 DEF IInv, Counted
<1>6. ProducerAwake'
  BY <1>1, <1>2, <1>3 DEF IInv, ProducerAwake
<1> QED BY <1>4, <1>5, <1>6 DEF IInv

\* A connection opened is in the producer's hands, and nowhere else.
LEMMA InvCreate ==
    ASSUME IInv, Create
    PROVE  IInv'
<1>1. PICK k \in Conns \ alive : fresh' = k /\ alive' = alive \cup {k}
  BY DEF Create
<1>2. /\ UNCHANGED <<connectionQueue, connectionCnt, isRunning, client, held, destructor>>
      /\ producer = "create" /\ producer' = "add"
  BY DEF Create, clientVars
<1>3. Lent' = Lent /\ Idle' = Idle
  BY <1>2, SameOwners
<1>4. fresh = NoConn /\ k # NoConn /\ k \notin Idle \cup Lent
  BY <1>1, <1>2, ConnsAssumption DEF IInv, InHand, Apart
<1>5. TypeOK' /\ Stacks' /\ InHand' /\ Closing' /\ ProducerAwake'
  BY <1>1, <1>2, <1>3, <1>4 DEF IInv, TypeOK, Stacks, InHand, Closing, ProducerAwake
<1>6. Apart'
  BY <1>1, <1>2, <1>3, <1>4 DEF IInv, Apart
<1>7. IsFiniteSet(Lent)' /\ Counted'
  <2>1. alive' \ {fresh'} = Idle' \cup Lent' <=> alive \ {fresh} = Idle \cup Lent
    BY <1>1, <1>3, <1>4, ConnsAssumption DEF IInv, TypeOK
  <2> QED BY <1>2, <1>3, <2>1 DEF IInv, Counted
<1> QED BY <1>5, <1>6, <1>7 DEF IInv

\* It is added and counted, or closed again when it is not needed any more.
LEMMA InvAdd ==
    ASSUME IInv, Add
    PROVE  IInv'
<1>1. /\ producer = "add" /\ producer' \in {"top", "exited"}
      /\ fresh' = NoConn /\ UNCHANGED <<isRunning, client, held, destructor>>
      /\ \/ /\ alive' = alive \ {fresh}
            /\ UNCHANGED <<connectionQueue, connectionCnt>>
         \/ /\ isRunning /\ ~Enough
            /\ connectionQueue' = Append(connectionQueue, fresh)
            /\ connectionCnt' = connectionCnt + 1 /\ alive' = alive
  BY DEF Add, clientVars
<1>2. fresh \in Conns /\ fresh # NoConn /\ fresh \notin Idle \cup Lent
  BY <1>1 DEF IInv, InHand, TypeOK, Apart
<1>3. Lent' = Lent
  BY <1>1 DEF Lent
<1>4. Idle \subseteq Conns /\ Lent \subseteq Conns
  BY ConnsOnly DEF IInv
<1>5. Stacks' /\ InHand' /\ ProducerAwake' /\ IsFiniteSet(Lent)'
  BY <1>1, <1>3 DEF IInv, Stacks, InHand, ProducerAwake
<1>6. CASE alive' = alive \ {fresh} /\ UNCHANGED <<connectionQueue, connectionCnt>>
  <2>1. Idle' = Idle
    BY <1>6 DEF Idle
  <2>2. TypeOK' /\ Closing'
    BY <1>1, <1>3, <1>6 DEF IInv, TypeOK, Closing
  <2>3. Apart'
    BY <1>1, <1>2, <1>3, <1>4, <1>6, <2>1, ConnsAssumption DEF IInv, Apart
  <2>4. Counted'
    BY <1>1, <1>2, <1>3, <1>4, <1>6, <2>1, ConnsAssumption DEF IInv, Counted, Apart
  <2> QED BY <1>5, <2>2, <2>3, <2>4 DEF IInv
<1>7. CASE /\ isRunning /\ ~Enough
           /\ connectionQueue' = Append(connectionQueue, fresh)
           /\ connectionCnt' = connectionCnt + 1 /\ alive' = alive
  <2>1. connectionQueue \in Seq(Conns) /\ Distinct(connectionQueue) /\ connectionCnt < MaxSize
        /\ connectionCnt \in 0..MaxSize
    BY <1>7, SizesAssumption DEF IInv, TypeOK, Apart, Enough
  <2>2. /\ connectionQueue' \in Seq(Conns) /\ Distinct(connectionQueue')
        /\ Len(connectionQueue) \in Nat /\ Len(connectionQueue') = Len(connectionQueue) + 1
        /\ Idle' = Idle \cup {fresh}
    BY <1>2, <1>7, <2>1, Pushed DEF Idle
  <2>3. connectionCnt' \in 0..MaxSize
    BY <1>7, <2>1, SizesAssumption
  <2>4. TypeOK' /\ Closing'
    BY <1>1, <1>3, <1>7, <2>2, <2>3 DEF IInv, TypeOK, Closing
  <2>5. Apart'
    BY <1>1, <1>2, <1>3, <1>4, <1>7, <2>2, ConnsAssumption DEF IInv, Apart
  <2>6. Cardinality(Lent) \in Nat
    BY FS_CardinalityType DEF IInv
  <2>7. Counted'
    <3>1. alive' \ {fresh'} = Idle' \cup Lent'
      BY <1>1, <1>2, <1>3, <1>4, <1>7, <2>2, ConnsAssumption DEF IInv, Apart
    <3>2. connectionCnt' = Len(connectionQueue') + Cardinality(Lent')
      BY <1>3, <1>7, <2>1, <2>2, <2>6 DEF IInv, Counted
    <3> QED BY <3>1, <3>2 DEF Counted
  <2> QED BY <1>5, <2>4, <2>5, <2>7 DEF IInv
<1> QED BY <1>1, <1>6, <1>7

\* The destructor's steps: the last of them closes what is left in the queue.
LEMMA InvDestructor ==
    ASSUME IInv, StopRunning \/ NotifyAll \/ JoinProducer \/ Destroy
    PROVE  IInv'
<1>1. /\ UNCHANGED <<connectionCnt, client, held, fresh>>
      /\ destructor' # "none" /\ isRunning' = FALSE
  BY DEF IInv, Closing, StopRunning, NotifyAll, JoinProducer, Destroy, clientVars
<1>2. Lent' = Lent
  BY <1>1 DEF Lent
<1>3. Stacks'
  BY <1>1 DEF IInv, Stacks, StopRunning, NotifyAll, JoinProducer, Destroy
<1>4. Counted' /\ ProducerAwake' /\ IsFiniteSet(Lent)'
  BY <1>1, <1>2 DEF IInv, Counted, ProducerAwake
<1>5. CASE StopRunning \/ NotifyAll \/ JoinProducer
  <2>1. /\ UNCHANGED <<connectionQueue, alive>>
        /\ producer' \in {producer, "test"} /\ (producer' = "add" <=> producer = "add")
        /\ destructor' \in {"stopped", "joining", "waiting"}
        /\ destructor' = "waiting" => producer' = "exited"
    BY <1>5 DEF StopRunning, NotifyAll, JoinProducer
  <2>2. Idle' = Idle
    BY <2>1 DEF Idle
  <2>3. TypeOK' /\ Apart'
    BY <1>1, <1>2, <2>1, <2>2 DEF IInv, TypeOK, Apart
  <2>4. InHand' /\ Closing'
    BY <1>1, <2>1 DEF IInv, InHand, Closing
  <2> QED BY <1>3, <1>4, <2>3, <2>4 DEF IInv
<1>6. CASE Destroy
  <2>1. /\ destructor = "waiting" /\ destructor' = "done" /\ Borrowers = {}
        /\ alive' = alive \ Idle /\ connectionQueue' = <<>> /\ producer' = producer
    BY <1>6 DEF Destroy, Idle
  <2>2. \A c \in Clients : held[c] = <<>>
    BY <2>1 DEF Borrowers
  <2>3. Lent = {}
    BY <2>2 DEF Lent, Range
  <2>4. <<>> \in Seq(Conns) /\ Range(<<>>) = {} /\ Distinct(<<>>)
    BY DEF Range, Distinct
  <2>5. Idle' = {}
    BY <2>1, <2>4 DEF Idle
  <2>6. fresh = NoConn
    BY <2>1 DEF IInv, InHand, Closing
  <2>7. TypeOK' /\ InHand' /\ Closing'
    BY <1>1, <1>2, <2>1, <2>3, <2>4 DEF IInv, TypeOK, InHand, Closing
  <2>8. Apart'
    BY <1>1, <1>2, <2>1, <2>3, <2>4, <2>5, <2>6 DEF IInv, Apart
  <2> QED BY <1>3, <1>4, <2>7, <2>8 DEF IInv
<1> QED BY <1>5, <1>6

\* The invariant holds in every reachable state.
THEOREM Invariant == Spec => []IInv
<1>1. ASSUME IInv, [Next]_vars PROVE IInv'
  <2>1. CASE UNCHANGED vars
    <3>1. Lent' = Lent /\ Idle' = Idle
      BY <2>1, SameOwners DEF vars
    <3> QED BY <1>1, <2>1, <3>1 DEF vars, IInv, TypeOK, Apart, Stacks, InHand, Closing,
                                    Counted, ProducerAwake, Enough
  <2>2. CASE Next
    BY <1>1, <2>2, InvWait, InvBorrow, InvReturn, InvProducer, InvCreate, InvAdd,
       InvDestructor DEF Next, Producer, Destructor
  <2> QED BY <1>1, <2>1, <2>2
<1> QED BY InvInit, <1>1, PTL DEF Spec

-----------------------------------------------------------------------------
(* What follows from it.                                                     *)

\* Types are kept: the counter never exceeds maxSize, although the producer
\* opens connections without the mutex.
THEOREM TypeCorrect == Spec => []TypeOK
BY Invariant, PTL DEF IInv

\* A connection is idle once, with one client, or in the producer's hands, and
\* every open connection is in such a place: no exclusive connection is ever
\* shared, none leaks.
THEOREM LendingCorrect == Spec => []OnePlace
<1>1. IInv => OnePlace
  BY ApartIsOnePlace DEF IInv
<1> QED BY Invariant, <1>1, PTL

\* The counter is the number of connections the pool keeps or has lent.
THEOREM CountCorrect == Spec => []Counted
BY Invariant, PTL DEF IInv

\* Every borrow that leaves the pool short wakes the producer.
THEOREM ProducerCorrect == Spec => []ProducerAwake
BY Invariant, PTL DEF IInv

\* When the destructor returns, every connection has been closed.
THEOREM CloseCorrect == Spec => []AllClosed
<1>1. ASSUME IInv, destructor = "done" PROVE alive = {}
  <2>1. connectionQueue = <<>> /\ Lent = {} /\ fresh = NoConn
    BY <1>1 DEF IInv, Closing, InHand
  <2>2. Idle = {}
    BY <2>1 DEF Idle, Range
  <2> QED BY <1>1, <2>1, <2>2 DEF IInv, Apart
<1>2. IInv => AllClosed
  BY <1>1 DEF AllClosed
<1> QED BY Invariant, <1>2, PTL

\* Clients that all wait for a second connection hold one each: fewer than the
\* pool may have, when it may have more connections than there are clients.
LEMMA NotAllLent ==
    ASSUME IInv, isRunning, MaxSize > Cardinality(Clients)
    PROVE  ~Gridlock
<1> SUFFICES ASSUME Gridlock PROVE FALSE
  OBVIOUS
<1> DEFINE taken == [c \in Borrowers |-> held[c][1]]
<1>1. \A c \in Borrowers : held[c] \in Seq(Conns) /\ held[c] # <<>> /\ Len(held[c]) <= 1
  BY DEF Gridlock, Borrowers, IInv, TypeOK, Stacks
<1>2. \A c \in Borrowers : Range(held[c]) = {held[c][1]}
  BY <1>1, Single
<1>3. Lent = {held[c][1] : c \in Borrowers}
  <2>1. \A c \in Clients \ Borrowers : Range(held[c]) = {}
    BY DEF Borrowers, Range
  <2>2. \A c \in Borrowers : Range(held[c]) = {held[c][1]}
    BY <1>2
  <2>3. \A k : \A c \in Clients \ Borrowers : k \notin Range(held[c])
    BY <2>1
  <2>4. \A k : \A c \in Borrowers : k \in Range(held[c]) <=> k = held[c][1]
    BY <2>2
  <2>5. ASSUME NEW k PROVE k \in Lent <=> \E c \in Borrowers : k = held[c][1]
    BY <2>3, <2>4, LentTo DEF Borrowers
  <2> QED BY <2>5
<1>4. taken \in Surjection(Borrowers, Lent)
  BY <1>3 DEF Surjection
<1>5. IsFiniteSet(Borrowers) /\ Cardinality(Borrowers) <= Cardinality(Clients)
  BY FS_Subset, ClientsAssumption DEF Borrowers
<1>6. Cardinality(Lent) <= Cardinality(Borrowers)
  BY <1>4, <1>5, FS_Surjection
<1>7. /\ Cardinality(Lent) \in Nat /\ Cardinality(Borrowers) \in Nat
      /\ Cardinality(Clients) \in Nat
  BY <1>5, FS_CardinalityType, ClientsAssumption DEF IInv
<1>8. Len(connectionQueue) = 0
  BY DEF Gridlock
<1>9. connectionCnt = Cardinality(Lent) /\ connectionCnt >= MaxSize
  BY <1>7, <1>8 DEF IInv, Counted, Gridlock
<1> QED BY <1>5, <1>6, <1>7, <1>9, SizesAssumption

\* With more connections than threads, queryGroup's second session cannot bring
\* the threads to wait for each other.
THEOREM GridlockFree == Spec => []NoGridlock
<1>1. IInv => NoGridlock
  BY NotAllLent DEF NoGridlock
<1> QED BY Invariant, <1>1, PTL
=============================================================================
