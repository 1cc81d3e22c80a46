--------------------------- MODULE ConnectionPool ---------------------------
(***************************************************************************)
(* The pool of MySQL connections: clients borrow and return them, one      *)
(* producer thread opens new ones when few are idle, and a destructor      *)
(* stops the producer and waits for the borrowers.                         *)
(*                                                                         *)
(* An action is one critical section of _queueMutex or one step outside    *)
(* it.  The producer's wait is split in two, the test and the sleep, both  *)
(* under the mutex: the destructor takes no mutex when it stores to        *)
(* _isRunning and notifies, so it may do so in between.                    *)
(*                                                                         *)
(* A client borrows through a DbSession, for as long as that lives; while  *)
(* queryGroup reads a user's groups it opens a second one for each.        *)
(*                                                                         *)
(* Definitions whose names begin with Mut are faulty variants, against     *)
(* which the properties are tried; no behaviour of the module uses them.   *)
(***************************************************************************)
EXTENDS Integers, FiniteSets, SequencesExt

CONSTANTS
    Clients,   \* the threads that use the pool
    Conns,     \* connection objects: more than MaxSize of them
    NoConn,
    InitSize,  \* poolConfig.initSize
    MaxSize    \* poolConfig.maxSize

ASSUME SizesAssumption == /\ InitSize \in Nat \ {0}
                          /\ MaxSize \in Nat
                          /\ InitSize <= MaxSize
ASSUME ConnsAssumption == NoConn \notin Conns
ASSUME ClientsAssumption == IsFiniteSet(Clients)

VARIABLES
    connectionQueue, \* _connectionQueue: the idle connections
    connectionCnt,   \* _connectionCnt
    isRunning,       \* _isRunning
    client,          \* "out", "waiting" in getConnection, or "using"
    held,            \* the connections a client has borrowed, the last one last
    producer,        \* where the producer thread stands
    fresh,           \* the connection it has opened and not yet added
    alive,           \* the connections that are open
    destructor       \* how far the destructor has come

vars == <<connectionQueue, connectionCnt, isRunning, client, held,
          producer, fresh, alive, destructor>>
clientVars == <<client, held>>

TypeOK ==
    /\ connectionQueue \in Seq(Conns)
    /\ connectionCnt \in 0..MaxSize
    /\ isRunning \in BOOLEAN
    /\ client \in [Clients -> {"out", "waiting", "using"}]
    /\ held \in [Clients -> Seq(Conns)] /\ \A c \in Clients : Len(held[c]) <= 2
    /\ producer \in {"top", "test", "gosleep", "asleep", "create", "add", "exited"}
    /\ fresh \in Conns \cup {NoConn}
    /\ alive \subseteq Conns
    /\ destructor \in {"none", "stopped", "joining", "waiting", "done"}

\* The constructor has opened the initial connections and started the producer.
Init ==
    /\ connectionQueue \in {q \in [1..InitSize -> Conns] :
                               \A i, j \in 1..InitSize : q[i] = q[j] => i = j}
    /\ connectionCnt = InitSize
    /\ isRunning = TRUE
    /\ client = [c \in Clients |-> "out"]
    /\ held = [c \in Clients |-> <<>>]
    /\ producer = "top"
    /\ fresh = NoConn
    /\ alive = Range(connectionQueue)
    /\ destructor = "none"

\* Between its test and its sleep the producer keeps the mutex.
MutexFree == producer # "gosleep"

MutEnoughIdle == Len(connectionQueue) >= InitSize

Enough == Len(connectionQueue) >= InitSize \/ connectionCnt >= MaxSize

Borrowers == {c \in Clients : held[c] # <<>>}
Lent == UNION {Range(held[c]) : c \in Clients}

-----------------------------------------------------------------------------
(* getConnection and the deleter of what it returns.  The wait is timed,   *)
(* so a client may look again at any time, notified or not.                *)

\* The pool is static: nobody calls it once its destructor runs.
Call(c) ==
    /\ client[c] = "out"
    /\ destructor = "none"
    /\ client' = [client EXCEPT ![c] = "waiting"]
    /\ UNCHANGED <<connectionQueue, connectionCnt, isRunning, held, producer, fresh,
                   alive, destructor>>

\* queryGroup asks for the members of a group with the list of groups in hand.
CallAgain(c) ==
    /\ client[c] = "using"
    /\ Len(held[c]) = 1
    /\ client' = [client EXCEPT ![c] = "waiting"]
    /\ UNCHANGED <<connectionQueue, connectionCnt, isRunning, held, producer, fresh,
                   alive, destructor>>

WakeProducer(n) ==
    producer' = IF producer = "asleep" /\ n < InitSize THEN "test" ELSE producer

MutBorrowSilently(c) ==
    /\ client[c] = "waiting" /\ MutexFree
    /\ isRunning /\ connectionQueue # <<>>
    /\ held' = [held EXCEPT ![c] = Append(@, Head(connectionQueue))]
    /\ connectionQueue' = Tail(connectionQueue)
    /\ client' = [client EXCEPT ![c] = "using"]
    /\ UNCHANGED <<connectionCnt, isRunning, producer, fresh, alive, destructor>>

MutBorrowKeeps(c) ==
    /\ client[c] = "waiting" /\ MutexFree
    /\ connectionQueue # <<>>
    /\ held' = [held EXCEPT ![c] = Append(@, Head(connectionQueue))]
    /\ client' = [client EXCEPT ![c] = "using"]
    /\ UNCHANGED <<connectionQueue, connectionCnt, isRunning, producer, fresh,
                   alive, destructor>>

Borrow(c) ==
    /\ client[c] = "waiting" /\ MutexFree
    /\ isRunning /\ connectionQueue # <<>>
    /\ held' = [held EXCEPT ![c] = Append(@, Head(connectionQueue))]
    /\ connectionQueue' = Tail(connectionQueue)
    /\ client' = [client EXCEPT ![c] = "using"]
    /\ WakeProducer(Len(connectionQueue) - 1)
    /\ UNCHANGED <<connectionCnt, isRunning, fresh, alive, destructor>>

\* connectionTimeout has passed with nothing idle, or the pool has stopped: the
\* client gets nullptr and goes on without the session.
TimeOut(c) ==
    /\ client[c] = "waiting" /\ MutexFree
    /\ connectionQueue = <<>> \/ ~isRunning
    /\ client' = [client EXCEPT ![c] = IF held[c] = <<>> THEN "out" ELSE "using"]
    /\ UNCHANGED <<connectionQueue, connectionCnt, isRunning, held, producer, fresh,
                   alive, destructor>>

MutReturnDeletes(c) ==
    /\ client[c] = "using" /\ MutexFree
    /\ alive' = alive \ {Last(held[c])}
    /\ held' = [held EXCEPT ![c] = Front(@)]
    /\ client' = [client EXCEPT ![c] = IF Len(held[c]) = 1 THEN "out" ELSE "using"]
    /\ UNCHANGED <<connectionQueue, connectionCnt, isRunning, producer, fresh, destructor>>

\* The shared_ptr's deleter: back to the queue, or closed with the pool.
Return(c) ==
    /\ client[c] = "using" /\ MutexFree
    /\ IF isRunning
       THEN /\ connectionQueue' = Append(connectionQueue, Last(held[c]))
            /\ UNCHANGED alive
       ELSE /\ alive' = alive \ {Last(held[c])}
            /\ UNCHANGED connectionQueue
    /\ held' = [held EXCEPT ![c] = Front(@)]
    /\ client' = [client EXCEPT ![c] = IF Len(held[c]) = 1 THEN "out" ELSE "using"]
    /\ UNCHANGED <<connectionCnt, isRunning, producer, fresh, destructor>>

-----------------------------------------------------------------------------
(* produceConnectionTask                                                   *)

LoopTop ==
    /\ producer = "top"
    /\ producer' = IF isRunning THEN "test" ELSE "exited"
    /\ UNCHANGED <<connectionQueue, connectionCnt, isRunning, clientVars, fresh,
                   alive, destructor>>

Test ==
    /\ producer = "test"
    /\ producer' = IF ~isRunning THEN "exited" ELSE IF Enough THEN "gosleep" ELSE "create"
    /\ UNCHANGED <<connectionQueue, connectionCnt, isRunning, clientVars, fresh,
                   alive, destructor>>

Sleep ==
    /\ producer = "gosleep"
    /\ producer' = "asleep"
    /\ UNCHANGED <<connectionQueue, connectionCnt, isRunning, clientVars, fresh,
                   alive, destructor>>

SpuriousWakeup ==
    /\ producer = "asleep"
    /\ producer' = "test"
    /\ UNCHANGED <<connectionQueue, connectionCnt, isRunning, clientVars, fresh,
                   alive, destructor>>

\* createConnection, outside the mutex.
Create ==
    /\ producer = "create"
    /\ \E k \in Conns \ alive :
          /\ fresh' = k
          /\ alive' = alive \cup {k}
    /\ producer' = "add"
    /\ UNCHANGED <<connectionQueue, connectionCnt, isRunning, clientVars, destructor>>

CreateFails ==
    /\ producer = "create"
    /\ producer' = "top"
    /\ UNCHANGED <<connectionQueue, connectionCnt, isRunning, clientVars, fresh,
                   alive, destructor>>

\* Back under the mutex the situation may have changed: look again.
MutAddUncounted ==
    /\ producer = "add"
    /\ fresh' = NoConn
    /\ producer' = IF isRunning THEN "top" ELSE "exited"
    /\ IF ~isRunning \/ Enough
       THEN /\ alive' = alive \ {fresh}
            /\ UNCHANGED connectionQueue
       ELSE /\ connectionQueue' = Append(connectionQueue, fresh)
            /\ UNCHANGED alive
    /\ UNCHANGED <<connectionCnt, isRunning, clientVars, destructor>>

Add ==
    /\ producer = "add"
    /\ fresh' = NoConn
    /\ producer' = IF isRunning THEN "top" ELSE "exited"
    /\ IF ~isRunning \/ Enough
       THEN /\ alive' = alive \ {fresh}
            /\ UNCHANGED <<connectionQueue, connectionCnt>>
       ELSE /\ connectionQueue' = Append(connectionQueue, fresh)
            /\ connectionCnt' = connectionCnt + 1
            /\ UNCHANGED alive
    /\ UNCHANGED <<isRunning, clientVars, destructor>>

-----------------------------------------------------------------------------
(* ~ConnectionPool.  It runs at process exit, when nobody comes any more;  *)
(* some may still hold connections.                                        *)

StopRunning ==
    /\ destructor = "none"
    /\ \A c \in Clients : client[c] = "waiting" => held[c] # <<>>
    /\ isRunning' = FALSE
    /\ destructor' = "stopped"
    /\ UNCHANGED <<connectionQueue, connectionCnt, clientVars, producer, fresh, alive>>

MutNotifyNobody ==
    /\ destructor = "stopped"
    /\ destructor' = "joining"
    /\ UNCHANGED <<connectionQueue, connectionCnt, isRunning, clientVars, producer,
                   fresh, alive>>

NotifyAll ==
    /\ destructor = "stopped"
    /\ producer' = IF producer = "asleep" THEN "test" ELSE producer
    /\ destructor' = "joining"
    /\ UNCHANGED <<connectionQueue, connectionCnt, isRunning, clientVars, fresh, alive>>

JoinProducer ==
    /\ destructor = "joining"
    /\ producer = "exited"
    /\ destructor' = "waiting"
    /\ UNCHANGED <<connectionQueue, connectionCnt, isRunning, clientVars, producer,
                   fresh, alive>>

MutDestroyAtOnce ==
    /\ destructor = "waiting"
    /\ alive' = alive \ Range(connectionQueue)
    /\ connectionQueue' = <<>>
    /\ destructor' = "done"
    /\ UNCHANGED <<connectionCnt, isRunning, clientVars, producer, fresh>>

Destroy ==
    /\ destructor = "waiting"
    /\ Borrowers = {}
    /\ alive' = alive \ Range(connectionQueue)
    /\ connectionQueue' = <<>>
    /\ destructor' = "done"
    /\ UNCHANGED <<connectionCnt, isRunning, clientVars, producer, fresh>>

-----------------------------------------------------------------------------
Producer == LoopTop \/ Test \/ Sleep \/ Create \/ CreateFails \/ Add

Destructor == NotifyAll \/ JoinProducer \/ Destroy

Next == \/ \E c \in Clients : \/ Call(c) \/ CallAgain(c)
                              \/ Borrow(c) \/ TimeOut(c) \/ Return(c)
        \/ Producer \/ SpuriousWakeup
        \/ StopRunning \/ Destructor

Spec == Init /\ [][Next]_vars

\* Threads run and get a mutex that is freed again and again, waits end when
\* their time is up, and borrowers give back.
FairSpec == /\ Spec
            /\ WF_vars(Producer)
            /\ WF_vars(Destructor)
            /\ \A c \in Clients : SF_vars(Return(c)) /\ SF_vars(Borrow(c) \/ TimeOut(c))

-----------------------------------------------------------------------------
(* Properties.                                                             *)

\* A connection is in one place only: idle once, with one client, or in the
\* producer's hands; and every open connection is in such a place (no leak).
Idle == Range(connectionQueue)
OnePlace ==
    /\ \A i, j \in 1..Len(connectionQueue) :
           connectionQueue[i] = connectionQueue[j] => i = j
    /\ Lent \cap (Idle \cup {fresh}) = {}
    /\ \A c, d \in Borrowers : \A i \in DOMAIN held[c], j \in DOMAIN held[d] :
           held[c][i] = held[d][j] => c = d /\ i = j
    /\ fresh \notin Idle
    /\ alive = (Idle \cup Lent \cup {fresh}) \ {NoConn}

\* The counter that bounds the pool counts the connections the pool has given
\* out or keeps: they never exceed maxSize, although the producer opens them
\* without the mutex.
Counted ==
    isRunning => /\ alive \ {fresh} = Idle \cup Lent
                 /\ connectionCnt = Len(connectionQueue) + Cardinality(Lent)

\* The producer never sleeps while the pool is short of idle connections and
\* may grow: every borrow that makes it so wakes it.
ProducerAwake == isRunning /\ producer \in {"gosleep", "asleep"} => Enough

\* Every connection is lent to a client that waits for one more, and no further
\* connection may be opened.
Gridlock == /\ connectionQueue = <<>> /\ connectionCnt >= MaxSize
            /\ \A c \in Borrowers : client[c] = "waiting"

\* With more connections than threads, queryGroup's second session cannot bring
\* the threads to wait for each other until they time out.
NoGridlock == isRunning /\ MaxSize > Cardinality(Clients) => ~Gridlock

\* When the destructor returns, every connection ever opened is closed.
AllClosed == destructor = "done" => alive = {}

\* The destructor takes no mutex, so its notification may fall between the
\* producer's test and its sleep: nobody wakes the thread it then joins.
NotificationMissed == producer = "gosleep" /\ destructor = "joining"

\* That is the only way to hang: otherwise a destructor that was entered
\* returns, whatever the producer was doing and whoever still held a connection.
DestructorReturns ==
    destructor = "stopped" ~> destructor = "done" \/ NotificationMissed
=============================================================================
