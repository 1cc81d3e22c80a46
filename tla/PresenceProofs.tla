--------------------------- MODULE PresenceProofs ---------------------------
(* Proofs about Presence, for any cluster, any accounts and any faults, and  *)
(* about the orderly among its behaviours.                                   *)
EXTENDS OrderlySessions, QueueFacts

-----------------------------------------------------------------------------
(* Type correctness.                                                         *)

USE NodesOfAssumption, ThreadsAssumption, QueueAssumption

\* The initial state is well typed.
LEMMA TypeInit == Init => TypeOK
BY DEF Init, TypeOK, Jobs, NoJob, PCs

\* Taking the head of a queue of tasks leaves a queue of tasks.
LEMMA QueueHead ==
    ASSUME NEW q \in Seq(Jobs), q # <<>>
    PROVE  /\ Head(q) \in Jobs
           /\ Tail(q) \in Seq(Jobs)
           /\ Len(Tail(q)) <= Len(q)
           /\ Head(q) = q[1]
           /\ 1 \in 1..Len(q)
           /\ \A i \in 1..Len(Tail(q)) : i + 1 \in 1..Len(q) /\ Tail(q)[i] = q[i + 1]
OBVIOUS

\* Appending a task to a queue of tasks gives a queue of tasks.
LEMMA QueueAppend ==
    ASSUME NEW q \in Seq(Jobs), NEW j \in Jobs
    PROVE  /\ Append(q, j) \in Seq(Jobs)
           /\ Len(q) \in Nat
           /\ Len(Append(q, j)) = Len(q) + 1
           /\ \A i \in 1..Len(Append(q, j)) :
                  Append(q, j)[i] = j \/ (i \in 1..Len(q) /\ Append(q, j)[i] = q[i])
OBVIOUS

\* A node's queues, as TypeOK has them.
QueueType(q) ==
    /\ q \in [Nodes -> Seq(Jobs)]
    /\ \A n \in Nodes : Len(q[n]) <= MaxQueue
    /\ \A n \in Nodes : \A i \in 1..Len(q[n]) :
           q[n][i].op # "close" => q[n][i].user \in Users

\* Queueing a task that the pool does not refuse keeps the type of the queues.
LEMMA TypeEnqueue ==
    ASSUME TypeOK, NEW n \in Nodes, ~Refuses(n),
           NEW j \in Jobs, j.op # "close" => j.user \in Users
    PROVE  QueueType([queue EXCEPT ![n] = Append(@, j)])
<1> DEFINE q == [queue EXCEPT ![n] = Append(@, j)]
<1>1. queue[n] \in Seq(Jobs) /\ Len(queue[n]) \in Nat /\ Len(queue[n]) < MaxQueue
  BY DEF TypeOK, Refuses
<1>2. /\ q[n] = Append(queue[n], j)
      /\ \A m \in Nodes : m # n => q[m] = queue[m]
  BY DEF TypeOK
<1>3. /\ Append(queue[n], j) \in Seq(Jobs)
      /\ Len(Append(queue[n], j)) = Len(queue[n]) + 1
      /\ \A i \in 1..Len(Append(queue[n], j)) :
            \/ Append(queue[n], j)[i] = j
            \/ i \in 1..Len(queue[n]) /\ Append(queue[n], j)[i] = queue[n][i]
  BY <1>1, QueueAppend
<1>4. q \in [Nodes -> Seq(Jobs)]
  BY <1>3 DEF TypeOK
<1>5. \A m \in Nodes : Len(q[m]) <= MaxQueue
  BY <1>1, <1>2, <1>3 DEF TypeOK
<1>6. \A i \in 1..Len(q[n]) : q[n][i].op # "close" => q[n][i].user \in Users
  BY <1>2, <1>3 DEF TypeOK
<1>7. \A m \in Nodes : \A i \in 1..Len(q[m]) :
         q[m][i].op # "close" => q[m][i].user \in Users
  BY <1>2, <1>6 DEF TypeOK
<1> QED BY <1>4, <1>5, <1>7 DEF QueueType

\* Sending a request keeps the types.
LEMMA TypeSend ==
    ASSUME TypeOK, NEW c \in Conns, NEW op \in {"login", "logout"}, NEW u \in Users,
           NEW next \in {"menu", "waiting"}, Send(c, op, u, next),
           who' \in [Conns -> Users \cup {NoUser}]
    PROVE  TypeOK'
<1> DEFINE n == ConnNode[c]
           j == [op |-> op, conn |-> c, user |-> u]
<1>1. n \in Nodes /\ j \in Jobs /\ j.user \in Users
  BY DEF Jobs
<1>2. CASE Refuses(n)
  BY <1>2 DEF TypeOK, Send
<1>3. CASE ~Refuses(n)
  <2>1. QueueType([queue EXCEPT ![n] = Append(@, j)])
    BY <1>1, <1>3, TypeEnqueue
  <2>2. QueueType(queue')
    BY <1>3, <2>1 DEF Send
  <2> QED BY <1>3, <2>2 DEF TypeOK, Send, QueueType
<1> QED BY <1>2, <1>3

\* What the clients and the I/O threads do keeps the types.
LEMMA TypeClient ==
    ASSUME TypeOK, NEW c \in Conns, Client(c)
    PROVE  TypeOK'
<1>1. CASE Connect(c)
  BY <1>1 DEF TypeOK, Connect
<1>2. ASSUME NEW u \in Users, SendLogin(c, u) PROVE TypeOK'
  <2>1. who' \in [Conns -> Users \cup {NoUser}] /\ Send(c, "login", u, "waiting")
    BY <1>2 DEF TypeOK, SendLogin
  <2> QED BY <2>1, TypeSend
<1>3. CASE SendLogout(c)
  <2>1. /\ who' \in [Conns -> Users \cup {NoUser}]
        /\ who[c] \in Users /\ Send(c, "logout", who[c], "menu")
    BY <1>3 DEF TypeOK, SendLogout
  <2> QED BY <2>1, TypeSend
<1>4. CASE CloseConn(c)
  <2> DEFINE n == ConnNode[c]
             j == [op |-> "close", conn |-> c, user |-> NoUser]
  <2>1. j \in Jobs /\ n \in Nodes /\ j.op = "close"
    BY DEF Jobs
  <2>2. CASE Refuses(n)
    <3>1. PICK t \in IoThreads : /\ pc' = [pc EXCEPT ![t] = "scan"]
                                 /\ job' = [job EXCEPT ![t] = j]
      BY <1>4, <2>2 DEF CloseConn
    <3>2. pc' \in [Threads -> PCs] /\ job' \in [Threads -> Jobs \cup {NoJob}]
      BY <2>1, <3>1 DEF TypeOK, PCs
    <3>3. \A s \in Threads :
             /\ pc'[s] # "idle" => job'[s] \in Jobs
             /\ pc'[s] \notin {"idle", "scan"} => job'[s].user \in Users
      BY <2>1, <3>1 DEF TypeOK
    <3>4. QueueType(queue')
      BY <1>4, <2>2 DEF TypeOK, CloseConn, QueueType
    <3> QED BY <1>4, <3>2, <3>3, <3>4 DEF TypeOK, CloseConn, QueueType
  <2>3. CASE ~Refuses(n)
    <3>1. QueueType([queue EXCEPT ![n] = Append(@, j)])
      BY <2>1, <2>3, TypeEnqueue
    <3>2. QueueType(queue') /\ UNCHANGED <<pc, job>>
      BY <1>4, <2>3, <3>1 DEF CloseConn
    <3> QED BY <1>4, <3>2 DEF TypeOK, CloseConn, QueueType
  <2> QED BY <2>2, <2>3
<1> QED BY <1>1, <1>2, <1>3, <1>4 DEF Client

\* A thread that takes a task, or makes a step of its handler, keeps the types.
LEMMA TypeThread ==
    ASSUME TypeOK, NEW t \in Threads, Dequeue(t) \/ Handler(t)
    PROVE  TypeOK'
<1>1. CASE Dequeue(t)
  <2> DEFINE n == ThreadNode[t]
             j == Head(queue[n])
  <2>1. n \in Nodes /\ queue[n] \in Seq(Jobs) /\ queue[n] # <<>>
    BY <1>1 DEF TypeOK, Dequeue
  <2>2. j \in Jobs /\ (j.op # "close" => j.user \in Users)
    BY <2>1, QueueHead DEF TypeOK
  <2>3. /\ Entry[j.op] \in PCs
        /\ Entry[j.op] \notin {"idle", "scan"} => j.user \in Users
    BY <2>2 DEF Entry, PCs, Jobs
  <2>4. /\ Tail(queue[n]) \in Seq(Jobs)
        /\ Len(Tail(queue[n])) <= MaxQueue
        /\ \A i \in 1..Len(Tail(queue[n])) :
              Tail(queue[n])[i].op # "close" => Tail(queue[n])[i].user \in Users
    BY <2>1, QueueHead DEF TypeOK
  <2> QED BY <1>1, <2>1, <2>2, <2>3, <2>4 DEF TypeOK, Dequeue
<1>2. CASE LoginRefused(t)
  BY <1>2 DEF TypeOK, LoginRefused, Answer, Finish, PCs
<1>3. CASE LoginGranted(t)
  BY <1>3 DEF TypeOK, LoginGranted, Goto, PCs, clientVars
<1>4. CASE SetOnline(t)
  BY <1>4 DEF TypeOK, SetOnline, UpdateState, Goto, PCs, clientVars
<1>5. CASE InsertConn(t)
  BY <1>5 DEF TypeOK, InsertConn, Goto, PCs, clientVars, Jobs
<1>6. CASE Subscribe(t)
  BY <1>6 DEF TypeOK, Subscribe, Goto, PCs, clientVars
<1>7. CASE Reply(t)
  BY <1>7 DEF TypeOK, Reply, Answer, Finish, PCs
<1>8. CASE EraseConn(t)
  BY <1>8 DEF TypeOK, EraseConn, Goto, PCs, clientVars
<1>9. CASE ScanConn(t)
  <2>1. ASSUME NEW u \in Users,
               userConnMap' = [userConnMap EXCEPT ![ThreadNode[t]][u] = NoConn],
               job' = [job EXCEPT ![t].user = u],
               pc' = [pc EXCEPT ![t] = "unsubscribe"]
        PROVE  TypeOK'
    <3>1. job' \in [Threads -> Jobs \cup {NoJob}] /\ job'[t] \in Jobs /\ job'[t].user = u
      <4> DEFINE j == [job[t] EXCEPT !.user = u]
      <4>1. job[t] \in Jobs
        BY <1>9 DEF ScanConn, TypeOK
      <4>2. j \in Jobs /\ j.user = u
        BY <4>1 DEF Jobs
      <4>3. job' = [job EXCEPT ![t] = j]
        BY <2>1
      <4> QED BY <4>2, <4>3 DEF TypeOK
    <3>2. \A s \in Threads : s # t => job'[s] = job[s] /\ pc'[s] = pc[s]
      BY <2>1 DEF TypeOK
    <3>3. pc' \in [Threads -> PCs]
      BY <2>1 DEF TypeOK, PCs
    <3>4. userConnMap' \in [Nodes -> [Users -> Conns \cup {NoConn}]]
      BY <2>1 DEF TypeOK
    <3> QED BY <1>9, <3>1, <3>2, <3>3, <3>4 DEF TypeOK, ScanConn, clientVars
  <2>2. ASSUME Finish(t), UNCHANGED userConnMap
        PROVE  TypeOK'
    BY <1>9, <2>2 DEF TypeOK, ScanConn, Finish, PCs, clientVars
  <2> QED BY <1>9, <2>1, <2>2 DEF ScanConn
<1>10. CASE Unsubscribe(t)
  BY <1>10 DEF TypeOK, Unsubscribe, Goto, PCs, clientVars
<1>11. CASE SetOffline(t)
  BY <1>11 DEF TypeOK, SetOffline, UpdateState, Finish, PCs, clientVars
<1> QED BY <1>1, <1>2, <1>3, <1>4, <1>5, <1>6, <1>7, <1>8, <1>9, <1>10, <1>11
        DEF Handler, Login, Leave

\* The end of a process keeps the types.
LEMMA TypeGone ==
    ASSUME TypeOK, NEW n \in Nodes, Gone(n)
    PROVE  TypeOK'
<1>1. <<>> \in Seq(Jobs) /\ Len(<<>>) = 0
  OBVIOUS
<1>2. HeldBy(n) \subseteq Users
  BY DEF HeldBy
<1> QED BY <1>1, <1>2 DEF TypeOK, Gone, PCs

\* The life of a node keeps the types.
LEMMA TypeLife ==
    ASSUME TypeOK, NEW n \in Nodes, Life(n)
    PROVE  TypeOK'
<1>1. CASE Reset(n)
  BY <1>1 DEF TypeOK, Reset, clientVars
<1>2. CASE Drain(n)
  BY <1>2 DEF TypeOK, Drain, clientVars
<1>3. CASE Exit(n) \/ Crash(n)
  BY <1>3, TypeGone DEF Exit, Crash
<1>4. CASE Restart(n)
  BY <1>4 DEF TypeOK, Restart, clientVars
<1> QED BY <1>1, <1>2, <1>3, <1>4 DEF Life

\* Every step keeps the types.
LEMMA TypeStep == TypeOK /\ [Next]_vars => TypeOK'
<1> SUFFICES ASSUME TypeOK, [Next]_vars PROVE TypeOK'
  OBVIOUS
<1>1. CASE UNCHANGED vars
  BY <1>1 DEF TypeOK, vars
<1>2. CASE Next
  BY <1>2, TypeClient, TypeThread, TypeLife DEF Next
<1> QED BY <1>1, <1>2

\* Presence is well typed in every reachable state: in particular a pool never
\* holds more than MaxQueue tasks, and every handler that touches a row or a
\* route knows its user.
THEOREM TypeCorrect == Spec => []TypeOK
BY TypeInit, TypeStep, PTL DEF Spec

-----------------------------------------------------------------------------
(* Every row that says online is backed.  PresenceBacked is inductive once   *)
(* the types are known: each step that drops a backer leaves another.        *)

\* Clients and I/O threads disturb no backer: they start no handler on a
\* thread that was running one.
LEMMA BackedClient ==
    ASSUME TypeOK, PresenceBacked, NEW c \in Conns, Client(c)
    PROVE  PresenceBacked'
<1>1. /\ UNCHANGED <<state, userConnMap, stale>>
      /\ \A t \in Threads : pc[t] # "idle" => pc'[t] = pc[t] /\ job'[t] = job[t]
  BY DEF Client, Connect, SendLogin, SendLogout, Send, CloseConn, TypeOK
<1> QED BY <1>1 DEF PresenceBacked, Holding

\* A thread t that moves without touching rows or routes, and does not leave
\* the labels of Holding, disturbs no backer.
LEMMA BackedMove ==
    ASSUME TypeOK, PresenceBacked, NEW t \in Threads,
           UNCHANGED <<state, userConnMap, stale>>,
           \A s \in Threads : s # t => pc'[s] = pc[s] /\ job'[s] = job[s],
           pc[t] \in Holding => pc'[t] \in Holding /\ job'[t].user = job[t].user
    PROVE  PresenceBacked'
<1>1. \A s \in Threads : pc[s] \in Holding =>
          pc'[s] \in Holding /\ job'[s].user = job[s].user
  OBVIOUS
<1> QED BY <1>1 DEF PresenceBacked

\* The handlers keep every row backed.
LEMMA BackedThread ==
    ASSUME TypeOK, PresenceBacked, NEW t \in Threads, Dequeue(t) \/ Handler(t)
    PROVE  PresenceBacked'
<1>1. CASE Dequeue(t)
  BY <1>1, BackedMove DEF Dequeue, TypeOK, Holding
<1>2. CASE LoginRefused(t)
  BY <1>2, BackedMove DEF LoginRefused, Finish, TypeOK, Holding
<1>3. CASE LoginGranted(t)
  BY <1>3, BackedMove DEF LoginGranted, Goto, TypeOK, Holding
<1>4. CASE SetOnline(t)
  <2>1. /\ pc'[t] = "insert" /\ job' = job
        /\ \A s \in Threads : s # t => pc'[s] = pc[s]
    BY <1>4 DEF SetOnline, Goto, TypeOK
  <2>2. pc[t] = "online" /\ job[t].user \in Users /\ userConnMap' = userConnMap
    BY <1>4 DEF SetOnline, TypeOK
  <2>3. \A u \in Users : u # job[t].user =>
            state'[u] = state[u] /\ (u \in stale => u \in stale')
    BY <1>4 DEF SetOnline, UpdateState, TypeOK
  <2> QED BY <2>1, <2>2, <2>3 DEF PresenceBacked, Holding
<1>5. CASE InsertConn(t)
  <2> DEFINE n == ThreadNode[t]
             u == job[t].user
  <2>1. n \in Nodes /\ u \in Users /\ job[t] \in Jobs
    BY <1>5 DEF InsertConn, TypeOK
  <2>2. /\ UNCHANGED <<state, stale, job>>
        /\ \A s \in Threads : s # t => pc'[s] = pc[s]
    BY <1>5 DEF InsertConn, Goto, TypeOK
  <2>3. \A m \in Nodes, v \in Users :
            userConnMap[m][v] # NoConn => userConnMap'[m][v] # NoConn
    BY <1>5, <2>1 DEF InsertConn, TypeOK
  <2>4. (\E m \in Nodes : userConnMap'[m][u] # NoConn) \/ job[t].conn = NoConn
    BY <1>5, <2>1 DEF InsertConn, TypeOK
  <2>5. job[t].conn # NoConn
    BY <2>1, NoneAssumption DEF Jobs
  <2> QED BY <2>1, <2>2, <2>3, <2>4, <2>5 DEF PresenceBacked
<1>6. CASE Subscribe(t)
  BY <1>6, BackedMove DEF Subscribe, Goto, TypeOK, Holding
<1>7. CASE Reply(t)
  BY <1>7, BackedMove DEF Reply, Finish, TypeOK, Holding
<1>8. CASE EraseConn(t)
  <2> DEFINE n == ThreadNode[t]
             u == job[t].user
  <2>1. /\ pc'[t] = "unsubscribe" /\ UNCHANGED <<state, stale, job>>
        /\ \A s \in Threads : s # t => pc'[s] = pc[s]
        /\ pc[t] = "erase"
    BY <1>8 DEF EraseConn, Goto, TypeOK
  <2>2. \A m \in Nodes, v \in Users : v # u => userConnMap'[m][v] = userConnMap[m][v]
    BY <1>8 DEF EraseConn, TypeOK
  <2> QED BY <2>1, <2>2 DEF PresenceBacked, Holding
<1>9. CASE ScanConn(t)
  <2>1. CASE UNCHANGED userConnMap /\ Finish(t)
    BY <1>9, <2>1, BackedMove DEF ScanConn, Finish, TypeOK, Holding
  <2>2. ASSUME NEW u \in Users,
               userConnMap' = [userConnMap EXCEPT ![ThreadNode[t]][u] = NoConn],
               job' = [job EXCEPT ![t].user = u],
               pc' = [pc EXCEPT ![t] = "unsubscribe"]
        PROVE  PresenceBacked'
    <3>1. /\ pc'[t] = "unsubscribe" /\ job'[t].user = u
          /\ \A s \in Threads : s # t => pc'[s] = pc[s] /\ job'[s] = job[s]
      <4>1. job[t] \in Jobs
        BY <1>9 DEF ScanConn, TypeOK
      <4>2. [job[t] EXCEPT !.user = u].user = u
        BY <4>1 DEF Jobs
      <4> QED BY <2>2, <4>2 DEF TypeOK
    <3>2. \A m \in Nodes, v \in Users :
              v # u => userConnMap'[m][v] = userConnMap[m][v]
      BY <2>2 DEF TypeOK
    <3>3. pc[t] = "scan" /\ UNCHANGED <<state, stale>>
      BY <1>9 DEF ScanConn
    <3> QED BY <3>1, <3>2, <3>3 DEF PresenceBacked, Holding
  <2> QED BY <1>9, <2>1, <2>2 DEF ScanConn
<1>10. CASE Unsubscribe(t)
  BY <1>10, BackedMove DEF Unsubscribe, Goto, TypeOK, Holding
<1>11. CASE SetOffline(t)
  <2>1. \A s \in Threads : s # t => pc'[s] = pc[s] /\ job'[s] = job[s]
    BY <1>11 DEF SetOffline, Finish, TypeOK
  <2>2. /\ job[t].user \in Users /\ UNCHANGED userConnMap
        /\ state'[job[t].user] = "offline" \/ job[t].user \in stale'
        /\ \A u \in Users : u # job[t].user =>
               state'[u] = state[u] /\ (u \in stale => u \in stale')
    BY <1>11 DEF SetOffline, UpdateState, TypeOK
  <2> QED BY <2>1, <2>2 DEF PresenceBacked
<1> QED BY <1>1, <1>2, <1>3, <1>4, <1>5, <1>6, <1>7, <1>8, <1>9, <1>10, <1>11
        DEF Handler, Login, Leave

\* Whatever ends a node, its users are accounted for.
LEMMA BackedLife ==
    ASSUME TypeOK, PresenceBacked, NEW n \in Nodes, Life(n)
    PROVE  PresenceBacked'
<1>1. CASE Reset(n)
  BY <1>1 DEF PresenceBacked, Reset, TypeOK
<1>2. CASE Drain(n) \/ Restart(n)
  BY <1>2 DEF PresenceBacked, Drain, Restart
<1>3. CASE Gone(n)
  <2> SUFFICES ASSUME NEW u \in Users, state'[u] = "online"
               PROVE  \/ \E m \in Nodes : userConnMap'[m][u] # NoConn
                      \/ \E t \in Threads : pc'[t] \in Holding /\ job'[t].user = u
                      \/ u \in stale'
    BY DEF PresenceBacked
  <2>1. state[u] = "online" /\ stale' = stale \cup HeldBy(n)
    BY <1>3 DEF Gone
  <2>2. CASE \E m \in Nodes : userConnMap[m][u] # NoConn
    BY <1>3, <2>1, <2>2 DEF Gone, HeldBy, TypeOK
  <2>3. CASE \E t \in Threads : pc[t] \in Holding /\ job[t].user = u
    BY <1>3, <2>1, <2>3 DEF Gone, HeldBy, TypeOK
  <2> QED BY <2>1, <2>2, <2>3 DEF PresenceBacked
<1> QED BY <1>1, <1>2, <1>3 DEF Life, Exit, Crash

\* A row that says online is backed in every reachable state, whatever the
\* interleaving of handlers and whichever writes, nodes or clients fail: the
\* server never forgets a row it has set.
THEOREM PresenceCorrect == Spec => []PresenceBacked
<1>1. TypeOK /\ Init => PresenceBacked
  BY DEF Init, PresenceBacked
<1>2. ASSUME TypeOK, PresenceBacked, [Next]_vars PROVE PresenceBacked'
  <2>1. CASE UNCHANGED vars
    BY <1>2, <2>1 DEF PresenceBacked, vars
  <2>2. CASE Next
    BY <1>2, <2>2, BackedClient, BackedThread, BackedLife DEF Next
  <2> QED BY <1>2, <2>1, <2>2
<1> QED BY TypeInit, TypeCorrect, <1>1, <1>2, PTL DEF Spec

-----------------------------------------------------------------------------
(* Routes.                                                                   *)

\* In every step of every behaviour the entry of a user in _userConnMap stays
\* or goes: a second login that got past the state check does not redirect
\* the first one's messages.
THEOREM RouteCorrect == Spec => RouteNotStolen
<1> DEFINE Keep == \A n \in Nodes, u \in Users :
                      userConnMap[n][u] # NoConn =>
                          userConnMap'[n][u] \in {userConnMap[n][u], NoConn}
<1>1. ASSUME TypeOK, NEW t \in Threads, Dequeue(t) \/ Handler(t)
      PROVE  Keep
  <2>1. CASE InsertConn(t)
    BY <1>1, <2>1 DEF InsertConn, TypeOK
  <2>2. ASSUME NEW u, userConnMap' = [userConnMap EXCEPT ![ThreadNode[t]][u] = NoConn]
        PROVE  Keep
    BY <1>1, <2>2 DEF TypeOK
  <2>3. CASE UNCHANGED userConnMap
    BY <2>3
  <2>4. CASE EraseConn(t) \/ ScanConn(t)
    BY <2>2, <2>3, <2>4 DEF EraseConn, ScanConn
  <2> QED BY <1>1, <2>1, <2>3, <2>4
          DEF Dequeue, Handler, Login, Leave, LoginRefused, LoginGranted,
              SetOnline, Subscribe, Reply, Unsubscribe, SetOffline
<1>2. ASSUME TypeOK, NEW n \in Nodes, Life(n)
      PROVE  Keep
  <2>1. CASE Gone(n)
    BY <2>1, <1>2 DEF Gone, TypeOK
  <2>2. CASE UNCHANGED userConnMap
    BY <2>2
  <2> QED BY <1>2, <2>1, <2>2 DEF Life, Reset, Drain, Exit, Crash, Restart
<1>3. ASSUME NEW c \in Conns, Client(c)
      PROVE  UNCHANGED userConnMap
  BY <1>3 DEF Client, Connect, SendLogin, SendLogout, Send, CloseConn
<1>4. TypeOK /\ [Next]_vars => [Keep]_vars
  BY <1>1, <1>2, <1>3 DEF Next
<1> QED BY <1>4, TypeCorrect, PTL DEF Spec, RouteNotStolen

-----------------------------------------------------------------------------
(* Orderly behaviours: the inductive invariant.                              *)

\* A user's tasks, their node, and what there is of the session on it.
Ops == {"login", "logout", "close"}
TaskOf(op, u) == [op |-> op, conn |-> own[u], user |-> IF op = "close" THEN NoUser ELSE u]
Home(u) == ConnNode[own[u]]
Queued(op, u) == On(queue[Home(u)], TaskOf(op, u))
QueuedOnce(op, u) == Once(queue[Home(u)], TaskOf(op, u))
Runs(t, op, u) == pc[t] # "idle" /\ job[t].op = op /\ job[t].conn = own[u]
Pending(op, u) == Queued(op, u) \/ \E t \in Threads : Runs(t, op, u)
Sole(op, u) ==
    \/ QueuedOnce(op, u) /\ \A t \in Threads : ~Runs(t, op, u)
    \/ ~Queued(op, u) /\ \A s, t \in Threads : Runs(s, op, u) /\ Runs(t, op, u) => s = t
Routed(u) == userConnMap[Home(u)][u] # NoConn
Listed(u) == u \in channels[Home(u)]

Steady == own \in Ways /\ (\A n \in Nodes : node[n] = "up") /\ stale = {}

\* Tasks, handlers, routes and clients keep to their user's connection.
Fits(e, n) ==
    /\ ConnNode[e.conn] = n
    /\ \A u \in Users : e.conn = own[u] => e = TaskOf(e.op, u)
    /\ e.op # "close" => own[e.user] = e.conn

TasksSorted == \A n \in Nodes : \A i \in 1..Len(queue[n]) : Fits(queue[n][i], n)

LoginPCs == {"query", "online", "insert", "subscribe", "reply"}

Handles(t) ==
    /\ pc[t] = "idle" => job[t] = NoJob
    /\ pc[t] # "idle" => /\ ThreadNode[t] = ConnNode[job[t].conn]
                         /\ job[t].op = "login" <=> pc[t] \in LoginPCs
    /\ pc[t] = "erase" => job[t].op = "logout"
    /\ pc[t] = "scan" => job[t].op = "close"
    /\ pc[t] \notin {"idle", "scan"} => own[job[t].user] = job[t].conn

HandlersSorted == \A t \in Threads : Handles(t)

RoutesSorted ==
    \A n \in Nodes, u \in Users :
        /\ userConnMap[n][u] # NoConn => n = Home(u) /\ userConnMap[n][u] = own[u]
        /\ u \in channels[n] => n = Home(u)

ClientsSorted ==
    \A c \in Conns : /\ who[c] # NoUser => own[who[c]] = c
                     /\ at[c] \in {"waiting", "chat"} => who[c] # NoUser

\* A login runs alone: the leaver before it has finished, and none comes as
\* long as the client waits.  What there is of a session is complete while the
\* client chats; otherwise somebody is about to remove it.
Session(u) ==
    /\ Sole("login", u) /\ Sole("logout", u)
    /\ Pending("login", u) <=> at[own[u]] = "waiting"
    /\ Pending("close", u) => at[own[u]] = "closed"
    /\ Pending("logout", u) /\ at[own[u]] # "closed" =>
          state[u] = "online" /\ at[own[u]] # "chat"
    /\ at[own[u]] = "chat" => state[u] = "online" /\ Routed(u) /\ Listed(u)
    /\ \A t \in Threads : Runs(t, "login", u) /\ pc[t] # "query" =>
          /\ ~Pending("logout", u)
          /\ state[u] = "online" <=> pc[t] # "online"
          /\ Routed(u) <=> pc[t] \in {"subscribe", "reply"}
          /\ Listed(u) <=> pc[t] = "reply"
    /\ Routed(u) =>
          \/ at[own[u]] \in {"chat", "busy"} \/ Queued("logout", u) \/ Queued("close", u)
          \/ \E t \in Threads : /\ job[t].conn = own[u]
                                /\ pc[t] \in {"subscribe", "reply", "erase", "scan"}
    /\ Listed(u) =>
          Routed(u) \/ \E t \in Threads : job[t].conn = own[u] /\ pc[t] = "unsubscribe"

Sorted == TasksSorted /\ HandlersSorted /\ RoutesSorted /\ ClientsSorted

Agree == TypeOK /\ Steady /\ Sorted /\ \A u \in Users : Session(u)

-----------------------------------------------------------------------------
(* Connections and tasks of users.                                           *)

\* Every user has a connection, and no other user has it.
LEMMA OwnFacts ==
    ASSUME Steady, NEW u \in Users
    PROVE  /\ own[u] \in Conns /\ own[u] # NoConn /\ Home(u) \in Nodes
           /\ \A v \in Users : own[v] = own[u] => v = u
BY NoneAssumption DEF Steady, Ways, Home

\* A user's tasks are tasks, and not the same.
LEMMA TaskFacts ==
    ASSUME Steady, NEW u \in Users, NEW op \in Ops
    PROVE  /\ TaskOf(op, u) \in Jobs
           /\ TaskOf(op, u).op = op /\ TaskOf(op, u).conn = own[u]
           /\ \A p \in Ops : TaskOf(p, u) = TaskOf(op, u) => p = op
BY OwnFacts DEF TaskOf, Jobs, Ops

\* What a step leaves of a queue for a user.
QueueKept(op, u) == /\ Queued(op, u)' <=> Queued(op, u)
                    /\ QueuedOnce(op, u) => QueuedOnce(op, u)'

\* What is put on or taken from a queue is some task, and the others stay.
LEMMA QueueStep ==
    ASSUME TypeOK, Steady, own' = own, NEW u \in Users, NEW op \in Ops, NEW e \in Jobs
    PROVE  /\ queue'[Home(u)] = queue[Home(u)] => QueueKept(op, u)
           /\ queue'[Home(u)] = Append(queue[Home(u)], e) /\ e # TaskOf(op, u) =>
                 QueueKept(op, u)
           /\ queue'[Home(u)] = Append(queue[Home(u)], e) /\ e = TaskOf(op, u) =>
                 Queued(op, u)' /\ (~Queued(op, u) => QueuedOnce(op, u)')
           /\ /\ queue[Home(u)] # <<>> /\ queue'[Home(u)] = Tail(queue[Home(u)])
              /\ Head(queue[Home(u)]) # TaskOf(op, u)
              => QueueKept(op, u)
           /\ /\ queue[Home(u)] # <<>> /\ queue'[Home(u)] = Tail(queue[Home(u)])
              /\ Head(queue[Home(u)]) = TaskOf(op, u)
              => Queued(op, u) /\ (QueuedOnce(op, u) => ~Queued(op, u)')
<1> DEFINE q == queue[Home(u)]
<1> DEFINE r == queue'[Home(u)]
<1> DEFINE m == TaskOf(op, u)
<1>1. q \in Seq(Jobs) /\ m \in Jobs
  BY OwnFacts, TaskFacts DEF TypeOK
<1>2. /\ Queued(op, u) <=> On(q, m)
      /\ QueuedOnce(op, u) <=> Once(q, m)
      /\ Queued(op, u)' <=> On(r, m)
      /\ QueuedOnce(op, u)' <=> Once(r, m)
  BY DEF Queued, QueuedOnce, Home, TaskOf
<1> HIDE DEF q, r, m
<1>3. /\ On(Append(q, e), m) <=> On(q, m) \/ e = m
      /\ e # m /\ Once(q, m) => Once(Append(q, e), m)
      /\ e = m /\ ~On(q, m) => Once(Append(q, e), m)
  BY <1>1, OnPushed
<1>4. q # <<>> => /\ On(q, m) <=> Head(q) = m \/ On(Tail(q), m)
                  /\ Once(q, m) /\ Head(q) # m => Once(Tail(q), m)
                  /\ Once(q, m) /\ Head(q) = m => ~On(Tail(q), m)
  BY <1>1, OnPopped
<1>5. /\ r = q => QueueKept(op, u)
      /\ r = Append(q, e) /\ e # m => QueueKept(op, u)
      /\ r = Append(q, e) /\ e = m => Queued(op, u)' /\ (~Queued(op, u) => QueuedOnce(op, u)')
  BY <1>2, <1>3 DEF QueueKept
<1>6. /\ q # <<>> /\ r = Tail(q) /\ Head(q) # m => QueueKept(op, u)
      /\ q # <<>> /\ r = Tail(q) /\ Head(q) = m =>
            Queued(op, u) /\ (QueuedOnce(op, u) => ~Queued(op, u)')
  BY <1>2, <1>4 DEF QueueKept
<1> QED BY <1>5, <1>6 DEF q, r, m

\* A task that is there once is there.
LEMMA QueuedOnceIs ==
    ASSUME NEW u \in Users, NEW op \in Ops, QueuedOnce(op, u)
    PROVE  Queued(op, u)
BY OnceOn DEF QueuedOnce, Queued

\* A step that does nothing on a user's connection does nothing to the user.
LEMMA SessionFrame ==
    ASSUME own' = own, NEW u \in Users, Session(u),
           at'[own[u]] = at[own[u]], state'[u] = state[u],
           userConnMap'[Home(u)][u] = userConnMap[Home(u)][u],
           u \in channels'[Home(u)] <=> u \in channels[Home(u)],
           \A op \in Ops : QueueKept(op, u),
           \A t \in Threads : job[t].conn = own[u] \/ job'[t].conn = own[u] =>
                                  pc'[t] = pc[t] /\ job'[t] = job[t]
    PROVE  Session(u)'
<1>1. \A t \in Threads : /\ job[t].conn = own[u] <=> job'[t].conn = own[u]
                         /\ job[t].conn = own[u] => pc'[t] = pc[t] /\ job'[t] = job[t]
  OBVIOUS
<1>2. \A op \in Ops, t \in Threads : Runs(t, op, u)' <=> Runs(t, op, u)
  BY <1>1 DEF Runs
<1>3. /\ Routed(u)' <=> Routed(u)
      /\ Listed(u)' <=> Listed(u)
  BY DEF Routed, Listed, Home
<1>4. \A op \in Ops : /\ Queued(op, u)' <=> Queued(op, u)
                      /\ QueuedOnce(op, u) => QueuedOnce(op, u)'
  BY DEF QueueKept
<1>5. /\ "login" \in Ops /\ "logout" \in Ops /\ "close" \in Ops
  BY DEF Ops
<1>6. \A op \in Ops : /\ Sole(op, u) => Sole(op, u)'
                      /\ Pending(op, u)' <=> Pending(op, u)
  BY <1>2, <1>4 DEF Sole, Pending
<1>7. \A t \in Threads : Runs(t, "login", u)' /\ pc'[t] # "query" =>
          Runs(t, "login", u) /\ pc'[t] = pc[t]
  BY <1>1, <1>2, <1>5 DEF Runs
<1> QED BY <1>1, <1>3, <1>4, <1>5, <1>6, <1>7 DEF Session

-----------------------------------------------------------------------------
(* Orderly behaviours: everything keeps to its connection.                   *)

\* In an orderly behaviour no node stops or dies.
LEMMA NoLife ==
    ASSUME TypeOK, Steady, Orderly, NEW n \in Nodes, Life(n)
    PROVE  FALSE
<1>1. node[n] = "up" /\ node'[n] = "up"
  BY DEF Steady, Orderly
<1>2. node'[n] # "up" \/ node[n] # "up"
  BY DEF Life, Reset, Drain, Exit, Crash, Gone, Restart, TypeOK
<1> QED BY <1>1, <1>2

\* A task that fits in is put on a queue.
LEMMA TasksPushed ==
    ASSUME TypeOK, Steady, own' = own, TasksSorted, NEW n \in Nodes, NEW e \in Jobs, Fits(e, n),
           queue' = [queue EXCEPT ![n] = Append(@, e)]
    PROVE  TasksSorted'
<1>1. \A k \in Nodes : queue[k] \in Seq(Jobs)
  BY DEF TypeOK
<1>2. queue'[n] = Append(queue[n], e) /\ \A k \in Nodes : k # n => queue'[k] = queue[k]
  BY DEF TypeOK
<1>3. \A x, k : Fits(x, k)' <=> Fits(x, k)
  BY DEF Fits, TaskOf
<1>4. ASSUME NEW i \in 1..Len(queue'[n]) PROVE Fits(queue'[n][i], n)
  <2>1. queue'[n][i] = e \/ (i \in 1..Len(queue[n]) /\ queue'[n][i] = queue[n][i])
    BY <1>1, <1>2, QueueAppend
  <2> QED BY <2>1 DEF TasksSorted
<1> QED BY <1>2, <1>3, <1>4 DEF TasksSorted

\* A task is taken from a queue.
LEMMA TasksPopped ==
    ASSUME TypeOK, Steady, own' = own, TasksSorted, NEW n \in Nodes, queue[n] # <<>>,
           queue' = [queue EXCEPT ![n] = Tail(@)]
    PROVE  TasksSorted' /\ Head(queue[n]) \in Jobs /\ Fits(Head(queue[n]), n)
<1>1. queue[n] \in Seq(Jobs)
  BY DEF TypeOK
<1>2. queue'[n] = Tail(queue[n]) /\ \A k \in Nodes : k # n => queue'[k] = queue[k]
  BY DEF TypeOK
<1>3. \A x, k : Fits(x, k)' <=> Fits(x, k)
  BY DEF Fits, TaskOf
<1>4. /\ Head(queue[n]) \in Jobs /\ Head(queue[n]) = queue[n][1] /\ 1 \in 1..Len(queue[n])
      /\ \A i \in 1..Len(Tail(queue[n])) :
            i + 1 \in 1..Len(queue[n]) /\ Tail(queue[n])[i] = queue[n][i + 1]
  BY <1>1, QueueHead
<1>5. \A i \in 1..Len(queue'[n]) : Fits(queue'[n][i], n)
  BY <1>2, <1>4 DEF TasksSorted
<1>6. TasksSorted'
  BY <1>2, <1>3, <1>5 DEF TasksSorted
<1> QED BY <1>4, <1>6 DEF TasksSorted

\* A user's route and subscription come only where the user is at home.
LEMMA RoutesStep ==
    ASSUME own' = own, RoutesSorted,
           \A n \in Nodes, u \in Users :
               \/ userConnMap'[n][u] \in {userConnMap[n][u], NoConn}
               \/ n = Home(u) /\ userConnMap'[n][u] = own[u],
           \A n \in Nodes, u \in Users : u \in channels'[n] => u \in channels[n] \/ n = Home(u)
    PROVE  RoutesSorted'
<1>1. \A u \in Users : Home(u)' = Home(u)
  BY DEF Home
<1> QED BY <1>1 DEF RoutesSorted

\* Clients keep to their connections.
LEMMA SortedClient ==
    ASSUME TypeOK, Steady, Sorted, Orderly, own' = own, NEW c \in Conns, Client(c)
    PROVE  Sorted'
<1>1. /\ \A v \in Users : own[v] \in Conns
      /\ \A v, w \in Users : own[v] = own[w] => v = w
  BY OwnFacts
<1>2. \A d \in Conns : who'[d] # NoUser => own'[who'[d]] = d
  BY DEF Orderly
<1>3. ClientsSorted'
  <2>1. at'[c] \in {"waiting", "chat"} => who'[c] \in Users
    BY DEF Client, Connect, SendLogin, SendLogout, Send, CloseConn, TypeOK
  <2>2. \A d \in Conns : d # c => at'[d] = at[d] /\ who'[d] = who[d]
    BY DEF Client, Connect, SendLogin, SendLogout, Send, CloseConn, TypeOK
  <2>3. \A d \in Conns : at'[d] \in {"waiting", "chat"} => who'[d] # NoUser
    BY <2>1, <2>2, NoneAssumption DEF Sorted, ClientsSorted
  <2> QED BY <1>2, <2>3 DEF ClientsSorted
<1>4. RoutesSorted'
  <2>1. UNCHANGED <<userConnMap, channels>>
    BY DEF Client, Connect, SendLogin, SendLogout, Send, CloseConn
  <2> QED BY <2>1, RoutesStep DEF Sorted
<1>5. TasksSorted'
  <2>1. CASE queue' = queue
    BY <2>1 DEF Sorted, TasksSorted, Fits, TaskOf
  <2>2. ASSUME NEW op \in Ops, NEW u \in Users \cup {NoUser},
               IF op = "close" THEN u = NoUser ELSE u \in Users /\ own[u] = c,
               queue' = [queue EXCEPT ![ConnNode[c]] =
                             Append(@, [op |-> op, conn |-> c, user |-> u])]
        PROVE  TasksSorted'
    <3> DEFINE e == [op |-> op, conn |-> c, user |-> u]
    <3>1. e \in Jobs /\ ConnNode[c] \in Nodes
      BY DEF Jobs, Ops
    <3>2. Fits(e, ConnNode[c])
      BY <1>1, <2>2 DEF Fits, TaskOf
    <3> QED BY <2>2, <3>1, <3>2, TasksPushed DEF Sorted
  <2>3. CASE Connect(c)
    BY <2>1, <2>3 DEF Connect
  <2>4. ASSUME NEW u \in Users, SendLogin(c, u) PROVE TasksSorted'
    <3>1. who'[c] = u
      BY <2>4 DEF SendLogin, TypeOK
    <3>2. own[u] = c
      BY <3>1, NoneAssumption DEF Orderly
    <3> QED BY <2>1, <2>2, <2>4, <3>2 DEF SendLogin, Send, Ops
  <2>5. CASE SendLogout(c)
    <3>1. who[c] \in Users /\ own[who[c]] = c
      BY <2>5, NoneAssumption DEF SendLogout, Sorted, ClientsSorted
    <3> QED BY <2>1, <2>2, <2>5, <3>1 DEF SendLogout, Send, Ops
  <2>6. CASE CloseConn(c)
    BY <2>1, <2>2, <2>6 DEF CloseConn, Ops
  <2> QED BY <2>3, <2>4, <2>5, <2>6 DEF Client
<1>6. HandlersSorted'
  <2>1. CASE UNCHANGED <<pc, job>>
    BY <2>1 DEF Sorted, HandlersSorted, Handles
  <2>2. CASE ~UNCHANGED <<pc, job>>
    <3>1. CloseConn(c)
      BY <2>2 DEF Client, Connect, SendLogin, SendLogout, Send
    <3>2. PICK t \in IoThreads :
              /\ ThreadNode[t] = ConnNode[c] /\ pc[t] = "idle"
              /\ pc' = [pc EXCEPT ![t] = "scan"]
              /\ job' = [job EXCEPT ![t] = [op |-> "close", conn |-> c, user |-> NoUser]]
      BY <2>2, <3>1 DEF CloseConn
    <3>3. /\ pc'[t] = "scan" /\ job'[t] = [op |-> "close", conn |-> c, user |-> NoUser]
          /\ \A s \in Threads : s # t => pc'[s] = pc[s] /\ job'[s] = job[s]
      BY <3>2 DEF TypeOK
    <3>4. Handles(t)'
      BY <3>2, <3>3 DEF Handles, LoginPCs
    <3>5. \A s \in Threads : s # t => Handles(s)'
      BY <3>3 DEF Sorted, HandlersSorted, Handles
    <3> QED BY <3>4, <3>5 DEF HandlersSorted
  <2> QED BY <2>1, <2>2
<1> QED BY <1>3, <1>4, <1>5, <1>6 DEF Sorted

\* Handlers keep to the connection of their task, and to its user.
LEMMA SortedThread ==
    ASSUME TypeOK, Steady, Sorted, Orderly, own' = own,
           NEW t \in Threads, Dequeue(t) \/ Handler(t)
    PROVE  Sorted'
<1> DEFINE n == ThreadNode[t]
<1>1. /\ \A v \in Users : own[v] \in Conns /\ own[v] # NoConn
      /\ \A v, w \in Users : own[v] = own[w] => v = w
      /\ n \in Nodes
  BY OwnFacts
<1>2. ClientsSorted'
  <2>1. who' = who /\ \A c \in Conns : at'[c] \in {"waiting", "chat"} => at[c] \in {"waiting", "chat"}
    BY DEF Dequeue, Handler, Login, Leave, LoginRefused, LoginGranted, SetOnline, InsertConn,
       Subscribe, Reply, EraseConn, ScanConn, Unsubscribe, SetOffline, Answer, clientVars, TypeOK
  <2> QED BY <2>1 DEF Sorted, ClientsSorted
<1>3. Handles(t)
  BY DEF Sorted, HandlersSorted
<1>4. TasksSorted'
  <2>1. CASE Dequeue(t)
    BY <2>1, <1>1, TasksPopped DEF Dequeue, Sorted
  <2>2. CASE queue' = queue
    BY <2>2 DEF Sorted, TasksSorted, Fits, TaskOf
  <2> QED BY <2>1, <2>2 DEF Handler, Login, Leave, LoginRefused, LoginGranted, SetOnline, InsertConn,
       Subscribe, Reply, EraseConn, ScanConn, Unsubscribe, SetOffline
<1>5. RoutesSorted'
  <2>1. CASE UNCHANGED <<userConnMap, channels>>
    BY <2>1, RoutesStep DEF Sorted
  <2> DEFINE u == job[t].user
  <2>2. ASSUME pc[t] \in {"insert", "subscribe", "erase", "unsubscribe"}
        PROVE  u \in Users /\ n = Home(u) /\ job[t].conn = own[u]
    BY <1>3, <2>2 DEF Handles, TypeOK, Home
  <2>3. CASE InsertConn(t) \/ EraseConn(t)
    <3>1. u \in Users /\ n = Home(u) /\ job[t].conn = own[u] /\ channels' = channels
      BY <2>2, <2>3 DEF InsertConn, EraseConn
    <3>2. \/ userConnMap' = userConnMap
          \/ \E x \in {own[u], NoConn} : userConnMap' = [userConnMap EXCEPT ![n][u] = x]
      BY <2>3, <3>1 DEF InsertConn, EraseConn
    <3>3. ASSUME NEW k \in Nodes, NEW v \in Users
          PROVE  \/ userConnMap'[k][v] \in {userConnMap[k][v], NoConn}
                 \/ k = Home(v) /\ userConnMap'[k][v] = own[v]
      <4>1. ASSUME NEW x \in {own[u], NoConn}, userConnMap' = [userConnMap EXCEPT ![n][u] = x]
            PROVE  userConnMap'[k][v] = IF k = n /\ v = u THEN x ELSE userConnMap[k][v]
        BY <1>1, <3>1, <4>1 DEF TypeOK
      <4> QED BY <3>1, <3>2, <4>1
    <3> QED BY <3>1, <3>3, RoutesStep DEF Sorted
  <2>4. CASE Subscribe(t) \/ Unsubscribe(t)
    <3>1. u \in Users /\ n = Home(u) /\ userConnMap' = userConnMap
      BY <2>2, <2>4 DEF Subscribe, Unsubscribe
    <3>2. \A k \in Nodes : \A v \in channels'[k] : v \in channels[k] \/ (k = n /\ v = u)
      BY <1>1, <2>4 DEF Subscribe, Unsubscribe, TypeOK
    <3> QED BY <3>1, <3>2, RoutesStep DEF Sorted
  <2>5. CASE ScanConn(t)
    <3>1. channels' = channels
      BY <2>5 DEF ScanConn
    <3>2. \/ userConnMap' = userConnMap
          \/ \E v \in Users : userConnMap' = [userConnMap EXCEPT ![n][v] = NoConn]
      BY <2>5 DEF ScanConn
    <3>3. ASSUME NEW k \in Nodes, NEW w \in Users
          PROVE  userConnMap'[k][w] \in {userConnMap[k][w], NoConn}
      <4>1. ASSUME NEW v \in Users, userConnMap' = [userConnMap EXCEPT ![n][v] = NoConn]
            PROVE  userConnMap'[k][w] = IF k = n /\ w = v THEN NoConn ELSE userConnMap[k][w]
        BY <1>1, <4>1 DEF TypeOK
      <4> QED BY <3>2, <4>1
    <3> QED BY <3>1, <3>3, RoutesStep DEF Sorted
  <2> QED BY <2>1, <2>3, <2>4, <2>5 DEF Dequeue, Handler, Login, Leave, LoginRefused, LoginGranted,
       SetOnline, Reply, SetOffline
<1>6. HandlersSorted'
  <2>1. \A s \in Threads : s # t => pc'[s] = pc[s] /\ job'[s] = job[s]
    BY DEF Dequeue, Handler, Login, Leave, LoginRefused, LoginGranted, SetOnline, InsertConn,
       Subscribe, Reply, EraseConn, ScanConn, Unsubscribe, SetOffline, Goto, Finish, TypeOK
  <2>2. Handles(t)'
    <3>1. CASE Dequeue(t)
      <4> DEFINE h == Head(queue[n])
      <4>1. h \in Jobs /\ Fits(h, n)
        BY <1>1, <3>1, TasksPopped DEF Dequeue, Sorted
      <4>2. job'[t] = h /\ pc'[t] = Entry[h.op]
        BY <3>1 DEF Dequeue, TypeOK
      <4> HIDE DEF h
      <4>3. h.op \in {"login", "logout", "close"}
        BY <4>1 DEF Jobs
      <4> QED BY <4>1, <4>2, <4>3 DEF Handles, Fits, Entry, LoginPCs
    <3>2. CASE LoginRefused(t) \/ Reply(t) \/ SetOffline(t)
      BY <3>2 DEF LoginRefused, Reply, SetOffline, Finish, Handles, TypeOK
    <3>3. CASE \/ LoginGranted(t) \/ SetOnline(t) \/ InsertConn(t) \/ Subscribe(t)
               \/ EraseConn(t) \/ Unsubscribe(t)
      BY <1>3, <3>3 DEF LoginGranted, SetOnline, InsertConn, Subscribe, EraseConn, Unsubscribe,
         Goto, Handles, LoginPCs, TypeOK
    <3>4. CASE ScanConn(t)
      <4>1. CASE pc'[t] = "idle"
        BY <3>4, <4>1 DEF ScanConn, Finish, Handles, TypeOK
      <4>2. CASE pc'[t] # "idle"
        <5>1. PICK v \in Users : /\ userConnMap[n][v] = job[t].conn
                                 /\ job' = [job EXCEPT ![t].user = v]
                                 /\ pc' = [pc EXCEPT ![t] = "unsubscribe"]
          BY <3>4, <4>2 DEF ScanConn, Finish, TypeOK
        <5>2. job[t] \in Jobs /\ pc[t] = "scan"
          BY <3>4 DEF ScanConn, TypeOK
        <5>3. /\ pc'[t] = "unsubscribe" /\ job'[t].user = v
              /\ job'[t].op = job[t].op /\ job'[t].conn = job[t].conn
          BY <5>1, <5>2 DEF TypeOK, Jobs
        <5>4. own[v] = job[t].conn
          BY <1>1, <5>1, <5>2, NoneAssumption DEF Sorted, RoutesSorted, Jobs
        <5> QED BY <1>3, <5>2, <5>3, <5>4 DEF Handles, LoginPCs
      <4> QED BY <4>1, <4>2
    <3> QED BY <3>1, <3>2, <3>3, <3>4 DEF Handler, Login, Leave
  <2>3. \A s \in Threads : s # t => Handles(s)'
    BY <2>1 DEF Sorted, HandlersSorted, Handles
  <2> QED BY <2>2, <2>3 DEF HandlersSorted
<1> QED BY <1>2, <1>4, <1>5, <1>6 DEF Sorted

-----------------------------------------------------------------------------
(* Orderly behaviours: the sessions.                                         *)

\* A client touches its own connection, and one task of it at most.
LEMMA ClientFrame ==
    ASSUME Agree, own' = own, NEW c \in Conns, Client(c), NEW u \in Users, own[u] # c
    PROVE  Session(u)'
<1>1. TypeOK /\ Steady /\ Sorted /\ Session(u)
  BY DEF Agree
<1>2. own[u] \in Conns /\ own[u] # NoConn /\ Home(u) \in Nodes
  BY <1>1, OwnFacts
<1>3. at'[own[u]] = at[own[u]] /\ UNCHANGED <<state, userConnMap, channels>>
  BY <1>1, <1>2 DEF Client, Connect, SendLogin, SendLogout, Send, CloseConn, TypeOK
<1>4. \A t \in Threads : job[t].conn = own[u] \/ job'[t].conn = own[u] =>
          pc'[t] = pc[t] /\ job'[t] = job[t]
  <2>1. CASE UNCHANGED <<pc, job>>
    BY <2>1
  <2>2. ASSUME NEW s \in IoThreads, pc[s] = "idle",
               pc' = [pc EXCEPT ![s] = "scan"],
               job' = [job EXCEPT ![s] = [op |-> "close", conn |-> c, user |-> NoUser]]
        PROVE  \A t \in Threads : job[t].conn = own[u] \/ job'[t].conn = own[u] =>
                   pc'[t] = pc[t] /\ job'[t] = job[t]
    <3>1. job[s] = NoJob /\ s \in Threads
      BY <1>1, <2>2 DEF Sorted, HandlersSorted, Handles
    <3>2. job[s].conn # own[u] /\ job'[s].conn # own[u]
      BY <1>1, <1>2, <2>2, <3>1 DEF NoJob, TypeOK
    <3> QED BY <1>1, <2>2, <3>2 DEF TypeOK
  <2> QED BY <2>1, <2>2 DEF Client, Connect, SendLogin, SendLogout, Send, CloseConn
<1>5. ASSUME NEW op \in Ops PROVE QueueKept(op, u)
  <2>1. \/ queue'[Home(u)] = queue[Home(u)]
        \/ \E e \in Jobs : e.conn = c /\ queue'[Home(u)] = Append(queue[Home(u)], e)
    <3>1. \/ queue' = queue
          \/ \E p \in Ops, v \in Users \cup {NoUser} :
                queue' = [queue EXCEPT ![ConnNode[c]] =
                              Append(@, [op |-> p, conn |-> c, user |-> v])]
      BY DEF Client, Connect, SendLogin, SendLogout, Send, CloseConn, Ops
    <3>2. ASSUME NEW p \in Ops, NEW v \in Users \cup {NoUser},
                 queue' = [queue EXCEPT ![ConnNode[c]] =
                               Append(@, [op |-> p, conn |-> c, user |-> v])]
          PROVE  \/ queue'[Home(u)] = queue[Home(u)]
                 \/ \E e \in Jobs : e.conn = c /\ queue'[Home(u)] = Append(queue[Home(u)], e)
      <4> DEFINE e == [op |-> p, conn |-> c, user |-> v]
      <4>1. e \in Jobs /\ e.conn = c
        BY DEF Jobs, Ops
      <4>2. queue'[Home(u)] = queue[Home(u)] \/ queue'[Home(u)] = Append(queue[Home(u)], e)
        BY <1>1, <1>2, <3>2 DEF TypeOK
      <4> QED BY <4>1, <4>2
    <3> QED BY <3>1, <3>2
  <2>2. \A e \in Jobs : e.conn = c => e # TaskOf(op, u)
    BY DEF TaskOf
  <2>3. ASSUME NEW e \in Jobs, e.conn = c, queue'[Home(u)] = Append(queue[Home(u)], e)
        PROVE  QueueKept(op, u)
    BY <1>1, <2>2, <2>3, QueueStep
  <2>4. CASE queue'[Home(u)] = queue[Home(u)]
    <3>1. TaskOf(op, u) \in Jobs
      BY <1>1, TaskFacts
    <3> QED BY <1>1, <2>4, <3>1, QueueStep
  <2> QED BY <2>1, <2>3, <2>4
<1> QED BY <1>1, <1>2, <1>3, <1>4, <1>5, SessionFrame

\* What a client does on its own connection.
LEMMA ClientSession ==
    ASSUME Agree, Orderly, own' = own, NEW u \in Users, Client(own[u])
    PROVE  Session(u)'
<1> DEFINE c == own[u]
<1>1. TypeOK /\ Steady /\ Sorted /\ Session(u)
  BY DEF Agree
<1>2. /\ c \in Conns /\ c # NoConn /\ Home(u) \in Nodes /\ Home(u) = ConnNode[c]
      /\ \A v \in Users : own[v] = c => v = u
  BY <1>1, OwnFacts DEF Home
<1>3. \A op \in Ops : /\ queue' = queue => QueueKept(op, u)
                      /\ TaskOf(op, u) \in Jobs
  BY <1>1, TaskFacts, QueueStep
<1>4. ASSUME NEW p \in Ops, queue' = [queue EXCEPT ![ConnNode[c]] = Append(@, TaskOf(p, u))]
      PROVE  /\ \A op \in Ops : op # p => QueueKept(op, u)
             /\ Queued(p, u)' /\ (~Queued(p, u) => QueuedOnce(p, u)')
  <2>1. queue'[Home(u)] = Append(queue[Home(u)], TaskOf(p, u))
    BY <1>1, <1>2, <1>4 DEF TypeOK
  <2>2. TaskOf(p, u) \in Jobs /\ \A op \in Ops : TaskOf(op, u) = TaskOf(p, u) => op = p
    BY <1>1, TaskFacts
  <2> QED BY <1>1, <2>1, <2>2, QueueStep
<1>5. "login" \in Ops /\ "logout" \in Ops /\ "close" \in Ops
  BY DEF Ops
<1>6. /\ Routed(u)' <=> Routed(u)
      /\ Listed(u)' <=> Listed(u)
      /\ state' = state
  BY DEF Routed, Listed, Home, Client, Connect, SendLogin, SendLogout, Send, CloseConn
<1>7. \A op \in Ops, t \in Threads : UNCHANGED <<pc, job>> => (Runs(t, op, u)' <=> Runs(t, op, u))
  BY DEF Runs
<1>8. CASE Connect(c)
  <2>1. at'[c] = "menu" /\ UNCHANGED <<queue, pc, job>> /\ ~Referenced(c)
    BY <1>1, <1>2, <1>8 DEF Connect, TypeOK
  <2>2. \A op \in Ops : ~Queued(op, u) /\ \A t \in Threads : ~Runs(t, op, u)
    BY <1>2, <2>1 DEF Referenced, Queued, On, TaskOf, Runs
  <2>3. ~Routed(u) /\ \A t \in Threads : job[t].conn # c
    BY <1>1, <1>2, <2>1 DEF Referenced, Routed, Sorted, RoutesSorted
  <2>4. ~Listed(u)
    BY <1>1, <2>3 DEF Session
  <2>5. \A op \in Ops : ~Queued(op, u)' /\ \A t \in Threads : ~Runs(t, op, u)'
    BY <1>3, <1>7, <2>1, <2>2 DEF QueueKept
  <2> QED BY <1>5, <1>6, <2>1, <2>3, <2>4, <2>5 DEF Session, Sole, Pending
<1>9. CASE \E v \in Users : SendLogin(c, v)
  <2>1. PICK v \in Users : SendLogin(c, v)
    BY <1>9
  <2>2. v = u
    <3>1. who'[c] = v
      BY <1>1, <1>2, <2>1 DEF SendLogin, TypeOK
    <3> QED BY <1>2, <3>1, NoneAssumption DEF Orderly
  <2>3. UNCHANGED <<pc, job>> /\ at[c] = "menu"
    BY <2>1 DEF SendLogin, Send
  <2>4. ~Pending("login", u)
    BY <1>1, <2>3 DEF Session
  <2>5. CASE at'[c] = "busy" /\ queue' = queue
    BY <1>1, <1>3, <1>5, <1>6, <1>7, <2>3, <2>4, <2>5 DEF Session, Sole, Pending, QueueKept
  <2>6. CASE at'[c] = "waiting" /\ queue' = [queue EXCEPT ![ConnNode[c]] = Append(@, TaskOf("login", u))]
    <3>1. /\ QueueKept("logout", u) /\ QueueKept("close", u)
          /\ Queued("login", u)' /\ QueuedOnce("login", u)'
      BY <1>4, <1>5, <2>4, <2>6 DEF Pending
    <3> QED BY <1>1, <1>5, <1>6, <1>7, <2>3, <2>4, <2>6, <3>1 DEF Session, Sole, Pending, QueueKept
  <2> QED BY <1>1, <1>2, <2>1, <2>2, <2>5, <2>6 DEF SendLogin, Send, TaskOf, TypeOK
<1>10. CASE SendLogout(c)
  <2>1. who[c] = u
    BY <1>1, <1>2, <1>10, NoneAssumption DEF SendLogout, Sorted, ClientsSorted
  <2>2. UNCHANGED <<pc, job>> /\ at[c] = "chat"
    BY <1>10 DEF SendLogout, Send
  <2>3. /\ ~Pending("logout", u) /\ ~Pending("login", u) /\ ~Pending("close", u)
        /\ state[u] = "online" /\ Routed(u) /\ Listed(u)
    BY <1>1, <2>2 DEF Session
  <2>4. CASE at'[c] = "busy" /\ queue' = queue
    BY <1>1, <1>3, <1>5, <1>6, <1>7, <2>2, <2>3, <2>4 DEF Session, Sole, Pending, QueueKept
  <2>5. CASE at'[c] = "menu" /\ queue' = [queue EXCEPT ![ConnNode[c]] = Append(@, TaskOf("logout", u))]
    <3>1. /\ QueueKept("login", u) /\ QueueKept("close", u)
          /\ Queued("logout", u)' /\ QueuedOnce("logout", u)'
      BY <1>4, <1>5, <2>3, <2>5 DEF Pending
    <3> QED BY <1>1, <1>5, <1>6, <1>7, <2>2, <2>3, <2>5, <3>1 DEF Session, Sole, Pending, QueueKept
  <2> QED BY <1>1, <1>2, <1>10, <2>1, <2>4, <2>5 DEF SendLogout, Send, TaskOf, TypeOK
<1>11. CASE CloseConn(c)
  <2>1. at'[c] = "closed" /\ at[c] # "closed" /\ at[c] # "waiting"
    BY <1>1, <1>2, <1>11 DEF CloseConn, Orderly, TypeOK
  <2>2. ~Pending("login", u) /\ ~Pending("close", u)
    BY <1>1, <2>1 DEF Session
  <2>3. CASE queue' = [queue EXCEPT ![ConnNode[c]] = Append(@, TaskOf("close", u))] /\ UNCHANGED <<pc, job>>
    <3>1. QueueKept("login", u) /\ QueueKept("logout", u) /\ Queued("close", u)'
      BY <1>4, <1>5, <2>3
    <3> QED BY <1>1, <1>5, <1>6, <1>7, <2>1, <2>2, <2>3, <3>1 DEF Session, Sole, Pending, QueueKept
  <2>4. ASSUME NEW t \in IoThreads, pc[t] = "idle", queue' = queue,
               pc' = [pc EXCEPT ![t] = "scan"], job' = [job EXCEPT ![t] = TaskOf("close", u)]
        PROVE  Session(u)'
    <3>1. t \in Threads /\ job[t] = NoJob
      BY <1>1, <2>4 DEF Sorted, HandlersSorted, Handles
    <3>2. /\ pc'[t] = "scan" /\ job'[t].conn = c /\ job'[t].op = "close" /\ job[t].conn # c
          /\ \A s \in Threads : s # t => pc'[s] = pc[s] /\ job'[s] = job[s]
      BY <1>1, <1>2, <2>4, <3>1 DEF TypeOK, TaskOf, NoJob
    <3>3. \A s \in Threads : /\ Runs(s, "login", u)' <=> Runs(s, "login", u)
                             /\ Runs(s, "logout", u)' <=> Runs(s, "logout", u)
      BY <3>2 DEF Runs
    <3>4. QueueKept("login", u) /\ QueueKept("logout", u)
      BY <1>3, <1>5, <2>4
    <3>5. Listed(u)' =>
              Routed(u)' \/ \E s \in Threads : job'[s].conn = c /\ pc'[s] = "unsubscribe"
      BY <1>1, <1>6, <3>2 DEF Session
    <3> QED BY <1>1, <1>6, <2>1, <2>2, <3>1, <3>2, <3>3, <3>4, <3>5
            DEF Session, Sole, Pending, QueueKept
  <2> QED BY <1>2, <1>11, <2>3, <2>4 DEF CloseConn, TaskOf
<1> QED BY <1>8, <1>9, <1>10, <1>11 DEF Client

\* A worker touches the connection of the task it takes.
LEMMA DequeueFrame ==
    ASSUME Agree, own' = own, NEW t \in Threads, Dequeue(t),
           NEW u \in Users, Head(queue[ThreadNode[t]]).conn # own[u]
    PROVE  Session(u)'
<1> DEFINE n == ThreadNode[t]
<1> DEFINE h == Head(queue[n])
<1>1. TypeOK /\ Steady /\ Sorted /\ Session(u)
  BY DEF Agree
<1>2. own[u] \in Conns /\ own[u] # NoConn /\ Home(u) \in Nodes /\ n \in Nodes
  BY <1>1, OwnFacts
<1>3. UNCHANGED <<at, state, userConnMap, channels>>
  BY DEF Dequeue
<1>4. /\ job[t] = NoJob /\ job'[t] = h
      /\ \A s \in Threads : s # t => pc'[s] = pc[s] /\ job'[s] = job[s]
  BY <1>1 DEF Dequeue, Sorted, HandlersSorted, Handles, TypeOK
<1>5. \A s \in Threads : job[s].conn = own[u] \/ job'[s].conn = own[u] =>
          pc'[s] = pc[s] /\ job'[s] = job[s]
  BY <1>2, <1>4 DEF NoJob
<1>6. ASSUME NEW op \in Ops PROVE QueueKept(op, u)
  <2>1. TaskOf(op, u) \in Jobs /\ h # TaskOf(op, u)
    BY <1>1, TaskFacts DEF TaskOf
  <2>2. CASE Home(u) # n
    BY <1>1, <1>2, <2>1, <2>2, QueueStep DEF Dequeue, TypeOK
  <2>3. CASE Home(u) = n
    <3>1. queue[Home(u)] # <<>> /\ queue'[Home(u)] = Tail(queue[Home(u)])
      BY <1>1, <1>2, <2>3 DEF Dequeue, TypeOK
    <3> QED BY <1>1, <2>1, <2>3, <3>1, QueueStep
  <2> QED BY <2>2, <2>3
<1> QED BY <1>1, <1>2, <1>3, <1>5, <1>6, SessionFrame

\* A handler touches the connection and the user of its task.
LEMMA HandlerFrame ==
    ASSUME Agree, own' = own, NEW t \in Threads, Handler(t),
           NEW u \in Users, job[t].conn # own[u]
    PROVE  Session(u)'
<1> DEFINE n == ThreadNode[t]
<1> DEFINE v == job[t].user
<1>1. TypeOK /\ Steady /\ Sorted /\ Session(u) /\ Handles(t)
  BY DEF Agree, Sorted, HandlersSorted
<1>2. own[u] \in Conns /\ own[u] # NoConn /\ Home(u) \in Nodes /\ n \in Nodes
  BY <1>1, OwnFacts
<1>3. pc[t] # "idle" /\ job[t] \in Jobs /\ (pc[t] # "scan" => v \in Users /\ v # u)
  BY <1>1 DEF Handler, Login, Leave, LoginRefused, LoginGranted, SetOnline, InsertConn, Subscribe,
     Reply, EraseConn, ScanConn, Unsubscribe, SetOffline, Handles, TypeOK
<1>4. at'[own[u]] = at[own[u]] /\ queue' = queue
  BY <1>1, <1>2 DEF Handler, Login, Leave, LoginRefused, LoginGranted, SetOnline, InsertConn,
     Subscribe, Reply, EraseConn, ScanConn, Unsubscribe, SetOffline, Answer, clientVars, TypeOK
<1>5. state'[u] = state[u]
  <2>1. CASE SetOnline(t) \/ SetOffline(t)
    BY <1>1, <1>3, <2>1 DEF SetOnline, SetOffline, UpdateState, TypeOK
  <2>2. CASE state' = state
    BY <2>2
  <2> QED BY <2>1, <2>2 DEF Handler, Login, Leave, LoginRefused, LoginGranted, InsertConn,
       Subscribe, Reply, EraseConn, ScanConn, Unsubscribe
<1>6. userConnMap'[Home(u)][u] = userConnMap[Home(u)][u]
  <2>1. ASSUME NEW w \in Users, w # u, NEW x, userConnMap' = [userConnMap EXCEPT ![n][w] = x]
        PROVE  userConnMap'[Home(u)][u] = userConnMap[Home(u)][u]
    BY <1>1, <1>2, <2>1 DEF TypeOK
  <2>2. CASE userConnMap' = userConnMap
    BY <2>2
  <2>3. CASE InsertConn(t) \/ EraseConn(t)
    <3>1. v \in Users /\ v # u
      BY <1>3, <2>3 DEF InsertConn, EraseConn
    <3> QED BY <2>1, <2>2, <2>3, <3>1 DEF InsertConn, EraseConn
  <2>4. CASE ScanConn(t)
    <3>1. userConnMap[n][u] # job[t].conn
      BY <1>1, <1>2, <1>3, NoneAssumption DEF Sorted, RoutesSorted, Jobs
    <3> QED BY <2>1, <2>2, <2>4, <3>1 DEF ScanConn
  <2> QED BY <2>2, <2>3, <2>4 DEF Handler, Login, Leave, LoginRefused, LoginGranted, SetOnline,
       Subscribe, Reply, Unsubscribe, SetOffline
<1>7. u \in channels'[Home(u)] <=> u \in channels[Home(u)]
  <2>1. CASE Subscribe(t) \/ Unsubscribe(t)
    <3>1. v # u
      BY <1>3, <2>1 DEF Subscribe, Unsubscribe
    <3>2. channels'[Home(u)] \in {channels[Home(u)], channels[Home(u)] \cup {v},
                                  channels[Home(u)] \ {v}}
      BY <1>1, <1>2, <2>1 DEF Subscribe, Unsubscribe, TypeOK
    <3> QED BY <3>1, <3>2
  <2>2. CASE channels' = channels
    BY <2>2
  <2> QED BY <2>1, <2>2 DEF Handler, Login, Leave, LoginRefused, LoginGranted, SetOnline,
       InsertConn, Reply, EraseConn, ScanConn, SetOffline
<1>8. ASSUME NEW s \in Threads, job[s].conn = own[u] \/ job'[s].conn = own[u]
      PROVE  pc'[s] = pc[s] /\ job'[s] = job[s]
  <2>1. \A r \in Threads : r # t => pc'[r] = pc[r] /\ job'[r] = job[r]
    BY <1>1 DEF Handler, Login, Leave, LoginRefused, LoginGranted, SetOnline, InsertConn,
       Subscribe, Reply, EraseConn, ScanConn, Unsubscribe, SetOffline, Goto, Finish, TypeOK
  <2>2. job'[t] \in {job[t], NoJob} \/ \E w \in Users : job'[t] = [job[t] EXCEPT !.user = w]
    BY <1>1 DEF Handler, Login, Leave, LoginRefused, LoginGranted, SetOnline, InsertConn,
       Subscribe, Reply, EraseConn, ScanConn, Unsubscribe, SetOffline, Goto, Finish, TypeOK
  <2>3. job'[t].conn # own[u]
    <3>1. ASSUME NEW w \in Users, job'[t] = [job[t] EXCEPT !.user = w]
          PROVE  job'[t].conn # own[u]
      BY <1>3, <3>1 DEF Jobs
    <3>2. NoJob.conn # own[u]
      BY <1>2 DEF NoJob
    <3>3. job'[t] = job[t] \/ job'[t] = NoJob => job'[t].conn # own[u]
      BY <3>2
    <3> QED BY <2>2, <3>1, <3>3
  <2> QED BY <1>8, <2>1, <2>3
<1>9. ASSUME NEW op \in Ops PROVE QueueKept(op, u)
  BY <1>1, <1>4, TaskFacts, QueueStep
<1> QED BY <1>1, <1>4, <1>5, <1>6, <1>7, <1>8, <1>9, SessionFrame

\* A worker takes a task of a user: the task is where it was not before.
LEMMA DequeueSession ==
    ASSUME Agree, own' = own, NEW t \in Threads, Dequeue(t),
           NEW u \in Users, Head(queue[ThreadNode[t]]).conn = own[u]
    PROVE  Session(u)'
<1> DEFINE n == ThreadNode[t]
<1> DEFINE h == Head(queue[n])
<1> DEFINE c == own[u]
<1>1. TypeOK /\ Steady /\ Sorted /\ Session(u)
  BY DEF Agree
<1>2. c \in Conns /\ c # NoConn /\ n \in Nodes
  BY <1>1, OwnFacts
<1>3. h \in Jobs /\ Fits(h, n)
  BY <1>1, <1>2, TasksPopped DEF Dequeue, Sorted
<1>4. PICK o \in Ops : n = Home(u) /\ h = TaskOf(o, u) /\ h.op = o
  BY <1>3 DEF Fits, Home, Jobs, Ops
<1>5. /\ UNCHANGED <<at, state, userConnMap, channels>>
      /\ pc[t] = "idle" /\ job[t] = NoJob /\ pc'[t] = Entry[o] /\ job'[t] = h
      /\ \A s \in Threads : s # t => pc'[s] = pc[s] /\ job'[s] = job[s]
      /\ queue[n] # <<>> /\ queue'[n] = Tail(queue[n])
  BY <1>1, <1>2, <1>4 DEF Dequeue, Sorted, HandlersSorted, Handles, TypeOK
<1>6. /\ pc'[t] # "idle" /\ job'[t].op = o /\ job'[t].conn = c /\ job[t].conn # c
      /\ o = "login" => pc'[t] = "query"
      /\ o = "logout" => pc'[t] = "erase"
      /\ o = "close" => pc'[t] = "scan"
  BY <1>2, <1>4, <1>5 DEF Entry, Ops, NoJob
<1>7. /\ \A op \in Ops : op # o => QueueKept(op, u)
      /\ Queued(o, u) /\ (QueuedOnce(o, u) => ~Queued(o, u)')
  <2>1. \A op \in Ops : TaskOf(op, u) \in Jobs /\ (TaskOf(op, u) = TaskOf(o, u) => op = o)
    BY <1>1, <1>4, TaskFacts
  <2>2. /\ queue[Home(u)] # <<>> /\ queue'[Home(u)] = Tail(queue[Home(u)])
        /\ Head(queue[Home(u)]) = TaskOf(o, u)
    BY <1>4, <1>5
  <2>3. ASSUME NEW op \in Ops, op # o PROVE QueueKept(op, u)
    BY <1>1, <2>1, <2>2, <2>3, QueueStep
  <2>4. Queued(o, u) /\ (QueuedOnce(o, u) => ~Queued(o, u)')
    BY <1>1, <2>1, <2>2, QueueStep
  <2> QED BY <2>3, <2>4
<1>8. \A op \in Ops, s \in Threads : Runs(s, op, u)' <=> Runs(s, op, u) \/ (s = t /\ op = o)
  BY <1>5, <1>6 DEF Runs
<1>9. /\ Routed(u)' <=> Routed(u)
      /\ Listed(u)' <=> Listed(u)
  BY <1>5 DEF Routed, Listed, Home
<1>10. o \in Ops /\ "login" \in Ops /\ "logout" \in Ops /\ "close" \in Ops
  BY <1>4 DEF Ops
<1>11. ASSUME NEW op \in Ops PROVE Sole(op, u) => Sole(op, u)'
  <2>1. CASE op # o
    BY <1>7, <1>8, <2>1 DEF Sole, QueueKept
  <2>2. CASE op = o
    BY <1>7, <1>8, <2>2 DEF Sole
  <2> QED BY <2>1, <2>2
<1>12. ASSUME NEW op \in Ops PROVE Pending(op, u)' <=> Pending(op, u)
  BY <1>7, <1>8 DEF Pending, QueueKept
<1>13. ASSUME NEW s \in Threads, Runs(s, "login", u)', pc'[s] # "query"
       PROVE  Runs(s, "login", u) /\ pc'[s] = pc[s]
  <2>1. Runs(s, "login", u) \/ (s = t /\ "login" = o)
    BY <1>8, <1>10, <1>13
  <2>2. s # t
    <3>1. Runs(t, "login", u)' => o = "login"
      BY <1>6 DEF Runs
    <3> QED BY <1>6, <1>13, <3>1
  <2> QED BY <1>5, <2>1, <2>2
<1>14. Routed(u)' =>
           \/ at'[c] \in {"chat", "busy"} \/ Queued("logout", u)' \/ Queued("close", u)'
           \/ \E s \in Threads : /\ job'[s].conn = c
                                 /\ pc'[s] \in {"subscribe", "reply", "erase", "scan"}
  <2>1. Queued("logout", u) => Queued("logout", u)' \/ pc'[t] = "erase"
    BY <1>6, <1>7, <1>10 DEF QueueKept
  <2>2. Queued("close", u) => Queued("close", u)' \/ pc'[t] = "scan"
    BY <1>6, <1>7, <1>10 DEF QueueKept
  <2> QED BY <1>1, <1>5, <1>6, <1>9, <2>1, <2>2 DEF Session
<1>15. Listed(u)' => Routed(u)' \/ \E s \in Threads : job'[s].conn = c /\ pc'[s] = "unsubscribe"
  BY <1>1, <1>5, <1>6, <1>9 DEF Session
<1> HIDE DEF c
<1> QED BY <1>1, <1>5, <1>9, <1>10, <1>11, <1>12, <1>13, <1>14, <1>15 DEF Session, c

\* A handler goes on, or its task is done.
LEMMA HandlerMove ==
    ASSUME Agree, own' = own, NEW t \in Threads, Handler(t),
           NEW u \in Users, job[t].conn = own[u]
    PROVE  /\ job[t].op \in Ops /\ ThreadNode[t] = Home(u)
           /\ pc[t] # "scan" => job[t].user = u
           /\ \A s \in Threads : s # t => pc'[s] = pc[s] /\ job'[s] = job[s]
           /\ pc'[t] # "idle" => job'[t].conn = own[u] /\ job'[t].op = job[t].op
           /\ \A op \in Ops : /\ Queued(op, u)' <=> Queued(op, u)
                              /\ Sole(op, u) => Sole(op, u)'
           /\ Pending(job[t].op, u)
           /\ \A op \in Ops : Pending(op, u)' => Pending(op, u)
           /\ \A op \in Ops : pc'[t] # "idle" \/ op # job[t].op =>
                                  (Pending(op, u) => Pending(op, u)')
           /\ \A op \in Ops : pc'[t] = "idle" /\ op = job[t].op /\ Sole(op, u) =>
                                  ~Pending(op, u)'
           /\ \A s \in Threads, op \in Ops :
                  /\ Runs(s, op, u)' => Runs(s, op, u) /\ (s = t => pc'[t] # "idle")
                  /\ Runs(t, op, u) <=> op = job[t].op
                  /\ Sole(op, u) /\ Runs(s, op, u) /\ Runs(t, op, u) => s = t
<1>1. TypeOK /\ Steady /\ Handles(t)
  BY DEF Agree, Sorted, HandlersSorted
<1>2. own[u] \in Conns /\ own[u] # NoConn /\ \A v \in Users : own[v] = own[u] => v = u
  BY <1>1, OwnFacts
<1>3. pc[t] # "idle" /\ job[t] \in Jobs /\ (pc[t] # "scan" => job[t].user \in Users)
  BY <1>1 DEF Handler, Login, Leave, LoginRefused, LoginGranted, SetOnline, InsertConn, Subscribe,
     Reply, EraseConn, ScanConn, Unsubscribe, SetOffline, TypeOK
<1>4. /\ job[t].op \in Ops /\ ThreadNode[t] = Home(u)
      /\ pc[t] # "scan" => job[t].user = u
  BY <1>1, <1>2, <1>3 DEF Handles, Jobs, Ops, Home
<1>5. /\ queue' = queue
      /\ \A s \in Threads : s # t => pc'[s] = pc[s] /\ job'[s] = job[s]
  BY <1>1 DEF Handler, Login, Leave, LoginRefused, LoginGranted, SetOnline, InsertConn,
     Subscribe, Reply, EraseConn, ScanConn, Unsubscribe, SetOffline, Goto, Finish, TypeOK
<1>6. pc'[t] # "idle" => job'[t].conn = own[u] /\ job'[t].op = job[t].op
  <2>1. \/ pc'[t] = "idle" \/ job'[t] = job[t]
        \/ \E w \in Users : job'[t] = [job[t] EXCEPT !.user = w]
    BY <1>1 DEF Handler, Login, Leave, LoginRefused, LoginGranted, SetOnline, InsertConn,
       Subscribe, Reply, EraseConn, ScanConn, Unsubscribe, SetOffline, Goto, Finish, TypeOK
  <2>2. ASSUME NEW w \in Users, job'[t] = [job[t] EXCEPT !.user = w]
        PROVE  job'[t].conn = job[t].conn /\ job'[t].op = job[t].op
    BY <1>3, <2>2 DEF Jobs
  <2>3. CASE \E w \in Users : job'[t] = [job[t] EXCEPT !.user = w]
    <3>1. PICK w \in Users : job'[t] = [job[t] EXCEPT !.user = w]
      BY <2>3
    <3> QED BY <2>2, <3>1
  <2>4. CASE job'[t] = job[t]
    BY <2>4
  <2> QED BY <2>1, <2>3, <2>4
<1>7. \A op \in Ops : QueueKept(op, u)
  BY <1>1, <1>5, TaskFacts, QueueStep
<1>8. \A s \in Threads, op \in Ops :
          /\ s # t => (Runs(s, op, u)' <=> Runs(s, op, u))
          /\ Runs(t, op, u) <=> op = job[t].op
          /\ Runs(t, op, u)' <=> op = job[t].op /\ pc'[t] # "idle"
  BY <1>3, <1>5, <1>6 DEF Runs
<1>9. \A s \in Threads, op \in Ops :
          /\ Runs(s, op, u)' => Runs(s, op, u) /\ (s = t => pc'[t] # "idle")
          /\ Sole(op, u) /\ Runs(s, op, u) /\ Runs(t, op, u) => s = t
  BY <1>8 DEF Sole
<1>10. \A op \in Ops : /\ Queued(op, u)' <=> Queued(op, u)
                       /\ Sole(op, u) => Sole(op, u)'
  BY <1>7, <1>9 DEF Sole, QueueKept
<1>11. \A op \in Ops : /\ Pending(op, u)' => Pending(op, u)
                       /\ pc'[t] # "idle" \/ op # job[t].op => (Pending(op, u) => Pending(op, u)')
  BY <1>8, <1>9, <1>10 DEF Pending
<1>12. ASSUME NEW op \in Ops, pc'[t] = "idle", op = job[t].op, Sole(op, u)
       PROVE  ~Pending(op, u)'
  <2>1. Runs(t, op, u) /\ ~Runs(t, op, u)'
    BY <1>8, <1>12
  <2>2. ~Queued(op, u) /\ \A s \in Threads : Runs(s, op, u) => s = t
    BY <1>12, <2>1 DEF Sole
  <2> QED BY <1>9, <1>10, <1>12, <2>1, <2>2 DEF Pending
<1>13. Pending(job[t].op, u)
  BY <1>4, <1>8 DEF Pending
<1> QED BY <1>4, <1>5, <1>6, <1>8, <1>9, <1>10, <1>11, <1>12, <1>13

\* A step of a user's login, which no other handler of the user disturbs.
LEMMA LoginSession ==
    ASSUME Agree, Orderly, own' = own, NEW t \in Threads, Login(t),
           NEW u \in Users, job[t].conn = own[u]
    PROVE  Session(u)'
<1> DEFINE n == ThreadNode[t]
<1> DEFINE c == own[u]
<1>1. TypeOK /\ Steady /\ Sorted /\ Session(u) /\ HandlersSorted /\ Handler(t)
  BY DEF Agree, Sorted, Handler
<1>2. c \in Conns /\ c # NoConn /\ Home(u) \in Nodes
  BY <1>1, OwnFacts
<1>3. "login" \in Ops /\ "logout" \in Ops /\ "close" \in Ops
  BY DEF Ops
<1>4. /\ pc[t] \in LoginPCs /\ job[t].op = "login" /\ job[t].user = u /\ n = Home(u)
  <2>1. pc[t] \in LoginPCs
    BY DEF Login, LoginRefused, LoginGranted, SetOnline, InsertConn, Subscribe, Reply, LoginPCs
  <2> QED BY <1>1, <2>1, HandlerMove DEF HandlersSorted, Handles, LoginPCs
<1>5. /\ \A s \in Threads : s # t => pc'[s] = pc[s] /\ job'[s] = job[s]
      /\ pc'[t] # "idle" => job'[t].conn = c
      /\ Sole("login", u)' /\ Sole("logout", u)'
      /\ Queued("logout", u)' <=> Queued("logout", u)
      /\ Queued("close", u)' <=> Queued("close", u)
      /\ Pending("logout", u)' <=> Pending("logout", u)
      /\ Pending("close", u)' <=> Pending("close", u)
      /\ pc'[t] # "idle" => Pending("login", u)'
      /\ pc'[t] = "idle" => ~Pending("login", u)'
      /\ \A s \in Threads : Runs(s, "login", u) => s = t
      /\ \A s \in Threads : Runs(s, "login", u)' => s = t /\ pc'[t] # "idle"
      /\ Runs(t, "login", u)
  <2>1. Sole("login", u) /\ Sole("logout", u)
    BY <1>1 DEF Session
  <2>2. /\ \A s \in Threads : s # t => pc'[s] = pc[s] /\ job'[s] = job[s]
        /\ pc'[t] # "idle" => job'[t].conn = c
        /\ Pending("login", u)
    BY <1>1, <1>4, HandlerMove
  <2>3. \A op \in Ops : /\ Queued(op, u)' <=> Queued(op, u)
                        /\ Sole(op, u) => Sole(op, u)'
    BY <1>1, HandlerMove
  <2>4. \A op \in Ops : /\ Pending(op, u)' => Pending(op, u)
                        /\ pc'[t] # "idle" \/ op # "login" => (Pending(op, u) => Pending(op, u)')
                        /\ pc'[t] = "idle" /\ op = "login" /\ Sole(op, u) => ~Pending(op, u)'
    BY <1>1, <1>4, HandlerMove
  <2>5. \A s \in Threads :
            /\ Runs(s, "login", u)' => Runs(s, "login", u) /\ (s = t => pc'[t] # "idle")
            /\ Runs(t, "login", u)
            /\ Sole("login", u) /\ Runs(s, "login", u) /\ Runs(t, "login", u) => s = t
    BY <1>1, <1>3, <1>4, HandlerMove
  <2> QED BY <1>3, <2>1, <2>2, <2>3, <2>4, <2>5
<1>6. at[c] = "waiting" /\ ~Pending("close", u)
  BY <1>1, <1>3, <1>4, HandlerMove DEF Session
<1>7. CASE LoginRefused(t)
  <2>1. /\ at'[c] = "menu" /\ pc[t] = "query" /\ pc'[t] = "idle"
        /\ UNCHANGED <<state, userConnMap, channels>>
    BY <1>1, <1>2, <1>6, <1>7 DEF LoginRefused, Answer, Finish, TypeOK
  <2>2. (Routed(u)' <=> Routed(u)) /\ (Listed(u)' <=> Listed(u))
    BY <2>1 DEF Routed, Listed, Home
  <2> HIDE DEF c
  <2> QED BY <1>1, <1>5, <1>6, <2>1, <2>2 DEF Session, c
<1>8. CASE LoginGranted(t)
  <2>1. /\ at' = at /\ pc[t] = "query" /\ pc'[t] = "online" /\ state[u] = "offline"
        /\ UNCHANGED <<state, userConnMap, channels>>
    BY <1>1, <1>4, <1>8 DEF LoginGranted, Goto, clientVars, TypeOK
  <2>2. (Routed(u)' <=> Routed(u)) /\ (Listed(u)' <=> Listed(u))
    BY <2>1 DEF Routed, Listed, Home
  <2>3. ~Pending("logout", u)
    BY <1>1, <1>6, <2>1 DEF Session
  <2>4. ASSUME NEW s \in Threads, job[s].conn = c
        PROVE  pc[s] \in {"idle", "query"}
    <3>1. Handles(s) /\ (pc[s] # "idle" => job[s].op \in Ops)
      BY <1>1 DEF HandlersSorted, TypeOK, Jobs, Ops
    <3>2. pc[s] # "idle" => job[s].op = "login"
      BY <1>6, <2>3, <2>4, <3>1 DEF Runs, Pending, Ops
    <3>3. pc[s] # "idle" => s = t
      BY <1>5, <2>4, <3>2 DEF Runs
    <3> QED BY <2>1, <3>3
  <2>5. ~Routed(u) /\ ~Listed(u)
    BY <1>1, <1>6, <2>3, <2>4 DEF Session, Pending
  <2> HIDE DEF c
  <2> QED BY <1>1, <1>5, <1>6, <2>1, <2>2, <2>3, <2>5 DEF Session, c
<1>9. CASE pc[t] # "query"
  <2>1. /\ ~Pending("logout", u)
        /\ state[u] = "online" <=> pc[t] # "online"
        /\ Routed(u) <=> pc[t] \in {"subscribe", "reply"}
        /\ Listed(u) <=> pc[t] = "reply"
    BY <1>1, <1>5, <1>9 DEF Session
  <2>2. CASE SetOnline(t)
    <3>1. /\ at' = at /\ pc[t] = "online" /\ pc'[t] = "insert" /\ state'[u] = "online"
          /\ UNCHANGED <<userConnMap, channels>>
      BY <1>1, <1>4, <2>2 DEF SetOnline, UpdateState, Goto, clientVars, TypeOK, Orderly
    <3>2. ~Routed(u)' /\ ~Listed(u)'
      BY <2>1, <3>1 DEF Routed, Listed, Home
    <3> HIDE DEF c
    <3> QED BY <1>1, <1>5, <1>6, <2>1, <3>1, <3>2 DEF Session, c
  <2>3. CASE InsertConn(t)
    <3>1. /\ at' = at /\ pc[t] = "insert" /\ pc'[t] = "subscribe" /\ state' = state
          /\ channels' = channels /\ userConnMap'[Home(u)][u] = c
      <4>1. userConnMap[n][u] = NoConn
        BY <1>4, <2>1, <2>3 DEF InsertConn, Routed
      <4> QED BY <1>1, <1>2, <1>4, <2>3, <4>1 DEF InsertConn, Goto, clientVars, TypeOK
    <3>2. Routed(u)' /\ ~Listed(u)'
      BY <1>2, <2>1, <3>1 DEF Routed, Listed, Home
    <3> HIDE DEF c
    <3> QED BY <1>1, <1>5, <1>6, <2>1, <3>1, <3>2 DEF Session, c
  <2>4. CASE Subscribe(t)
    <3>1. /\ at' = at /\ pc[t] = "subscribe" /\ pc'[t] = "reply"
          /\ UNCHANGED <<state, userConnMap>> /\ u \in channels'[Home(u)]
      BY <1>1, <1>2, <1>4, <2>4 DEF Subscribe, Goto, clientVars, TypeOK
    <3>2. Routed(u)' /\ Listed(u)'
      BY <2>1, <3>1 DEF Routed, Listed, Home
    <3> HIDE DEF c
    <3> QED BY <1>1, <1>5, <1>6, <2>1, <3>1, <3>2 DEF Session, c
  <2>5. CASE Reply(t)
    <3>1. /\ at'[c] = "chat" /\ pc[t] = "reply" /\ pc'[t] = "idle"
          /\ UNCHANGED <<state, userConnMap, channels>>
      BY <1>1, <1>2, <1>6, <2>5 DEF Reply, Answer, Finish, TypeOK
    <3>2. Routed(u)' /\ Listed(u)'
      BY <2>1, <3>1 DEF Routed, Listed, Home
    <3> HIDE DEF c
    <3> QED BY <1>1, <1>5, <1>6, <2>1, <3>1, <3>2 DEF Session, c
  <2> QED BY <1>7, <1>8, <2>2, <2>3, <2>4, <2>5 DEF Login
<1> QED BY <1>7, <1>8, <1>9 DEF Login, SetOnline, InsertConn, Subscribe, Reply

\* A step of the cleanup after a logout or a disconnect.
LEMMA LeaveSession ==
    ASSUME Agree, Orderly, own' = own, NEW t \in Threads, Leave(t),
           NEW u \in Users, job[t].conn = own[u]
    PROVE  Session(u)'
<1> DEFINE n == ThreadNode[t]
<1> DEFINE c == own[u]
<1>1. TypeOK /\ Steady /\ Sorted /\ Session(u) /\ HandlersSorted /\ Handler(t)
  BY DEF Agree, Sorted, Handler
<1>2. c \in Conns /\ c # NoConn /\ Home(u) \in Nodes
  BY <1>1, OwnFacts
<1>3. "login" \in Ops /\ "logout" \in Ops /\ "close" \in Ops
  BY DEF Ops
<1>4. /\ pc[t] \in {"erase", "scan", "unsubscribe", "offline"}
      /\ job[t].op \in {"logout", "close"} /\ n = Home(u)
      /\ pc[t] # "scan" => job[t].user = u
      /\ pc[t] = "erase" => job[t].op = "logout"
      /\ pc[t] = "scan" => job[t].op = "close"
  <2>1. pc[t] \in {"erase", "scan", "unsubscribe", "offline"}
    BY DEF Leave, EraseConn, ScanConn, Unsubscribe, SetOffline
  <2>2. job[t].op \in Ops /\ n = Home(u) /\ (pc[t] # "scan" => job[t].user = u)
    BY <1>1, HandlerMove
  <2> QED BY <1>1, <2>1, <2>2 DEF HandlersSorted, Handles, LoginPCs, Ops
<1>5. /\ at' = at
      /\ \A s \in Threads : s # t => pc'[s] = pc[s] /\ job'[s] = job[s]
      /\ pc'[t] # "idle" => job'[t].conn = c
  <2>1. at' = at
    BY DEF Leave, EraseConn, ScanConn, Unsubscribe, SetOffline, clientVars
  <2> QED BY <1>1, <2>1, HandlerMove
<1>6. Sole("login", u)' /\ Sole("logout", u)'
  <2>1. Sole("login", u) /\ Sole("logout", u)
    BY <1>1 DEF Session
  <2> QED BY <1>1, <1>3, <2>1, HandlerMove
<1>7. /\ Queued("logout", u)' <=> Queued("logout", u)
      /\ Queued("close", u)' <=> Queued("close", u)
      /\ Pending("login", u)' <=> Pending("login", u)
      /\ Pending("logout", u)' => Pending("logout", u)
      /\ Pending("close", u)' => Pending("close", u)
      /\ pc'[t] = "idle" /\ job[t].op = "logout" => ~Pending("logout", u)'
  <2>1. Sole("logout", u)
    BY <1>1 DEF Session
  <2>2. \A op \in Ops : /\ Queued(op, u)' <=> Queued(op, u)
                        /\ Pending(op, u)' => Pending(op, u)
                        /\ op # job[t].op => (Pending(op, u) => Pending(op, u)')
                        /\ pc'[t] = "idle" /\ op = job[t].op /\ Sole(op, u) => ~Pending(op, u)'
    BY <1>1, HandlerMove
  <2> QED BY <1>3, <1>4, <2>1, <2>2
<1>8. \A s \in Threads : Runs(s, "login", u)' => Runs(s, "login", u) /\ pc'[s] = pc[s]
  <2>1. \A s \in Threads : Runs(s, "login", u)' => Runs(s, "login", u)
    BY <1>1, <1>3, HandlerMove
  <2>2. ~Runs(t, "login", u)
    BY <1>4 DEF Runs
  <2> QED BY <1>5, <2>1, <2>2
<1>9. at[c] # "chat" /\ \A s \in Threads : Runs(s, "login", u) => pc[s] = "query"
  <2>1. Pending(job[t].op, u)
    BY <1>1, HandlerMove
  <2>2. CASE job[t].op = "logout"
    BY <1>1, <2>1, <2>2 DEF Session
  <2>3. CASE job[t].op = "close"
    <3>1. at[c] = "closed"
      BY <1>1, <2>1, <2>3 DEF Session
    <3>2. \A s \in Threads : ~Runs(s, "login", u)
      BY <1>1, <3>1 DEF Session, Pending
    <3> QED BY <3>1, <3>2
  <2> QED BY <1>4, <2>2, <2>3
<1>10. job[t].op = "close" => at[c] = "closed"
  <2>1. Pending(job[t].op, u)
    BY <1>1, HandlerMove
  <2> QED BY <1>1, <2>1 DEF Session
<1>11. CASE EraseConn(t) \/ (ScanConn(t) /\ pc'[t] # "idle")
  <2>1. /\ pc[t] \in {"erase", "scan"} /\ pc'[t] = "unsubscribe"
        /\ UNCHANGED <<state, channels>> /\ userConnMap'[Home(u)][u] = NoConn
    <3>1. CASE EraseConn(t)
      BY <1>1, <1>2, <1>4, <3>1 DEF EraseConn, Goto, TypeOK
    <3>2. CASE ScanConn(t) /\ pc'[t] # "idle"
      <4>1. PICK v \in Users : /\ userConnMap[n][v] = c
                               /\ userConnMap' = [userConnMap EXCEPT ![n][v] = NoConn]
                               /\ pc' = [pc EXCEPT ![t] = "unsubscribe"]
        BY <1>1, <3>2 DEF ScanConn, Finish, TypeOK
      <4>2. v = u
        BY <1>1, <1>2, <1>4, <4>1, OwnFacts DEF Sorted, RoutesSorted
      <4> QED BY <1>1, <1>2, <1>4, <3>2, <4>1, <4>2 DEF ScanConn, TypeOK
    <3> QED BY <1>11, <3>1, <3>2
  <2>2. ~Routed(u)' /\ (Listed(u)' <=> Listed(u))
    BY <2>1 DEF Routed, Listed, Home
  <2> HIDE DEF c
  <2> QED BY <1>1, <1>5, <1>6, <1>7, <1>8, <1>9, <2>1, <2>2 DEF Session, c
<1>12. CASE ScanConn(t) /\ pc'[t] = "idle"
  <2>1. /\ pc[t] = "scan" /\ UNCHANGED <<state, channels, userConnMap>>
        /\ {v \in Users : userConnMap[n][v] = c} = {}
    BY <1>1, <1>12 DEF ScanConn, TypeOK
  <2>2. ~Routed(u)
    BY <1>1, <1>2, <1>4, <2>1 DEF Routed, Sorted, RoutesSorted
  <2>3. ~Routed(u)' /\ (Listed(u)' <=> Listed(u))
    BY <2>1, <2>2 DEF Routed, Listed, Home
  <2> HIDE DEF c
  <2> QED BY <1>1, <1>5, <1>6, <1>7, <1>8, <1>9, <2>1, <2>2, <2>3 DEF Session, c
<1>13. CASE Unsubscribe(t)
  <2>1. /\ pc[t] = "unsubscribe" /\ pc'[t] = "offline"
        /\ UNCHANGED <<state, userConnMap>> /\ u \notin channels'[Home(u)]
    BY <1>1, <1>2, <1>4, <1>13 DEF Unsubscribe, Goto, TypeOK
  <2>2. (Routed(u)' <=> Routed(u)) /\ ~Listed(u)'
    BY <2>1 DEF Routed, Listed, Home
  <2> HIDE DEF c
  <2> QED BY <1>1, <1>5, <1>6, <1>7, <1>8, <1>9, <2>1, <2>2 DEF Session, c
<1>14. CASE SetOffline(t)
  <2>1. /\ pc[t] = "offline" /\ pc'[t] = "idle" /\ UNCHANGED <<channels, userConnMap>>
    BY <1>1, <1>14 DEF SetOffline, Finish, TypeOK
  <2>2. (Routed(u)' <=> Routed(u)) /\ (Listed(u)' <=> Listed(u))
    BY <2>1 DEF Routed, Listed, Home
  <2>3. Pending("logout", u)' => at[c] = "closed"
    BY <1>4, <1>7, <1>10, <2>1
  <2> HIDE DEF c
  <2> QED BY <1>1, <1>5, <1>6, <1>7, <1>8, <1>9, <2>1, <2>2, <2>3 DEF Session, c
<1> QED BY <1>11, <1>12, <1>13, <1>14 DEF Leave

\* The clients of an orderly behaviour begin with nothing.
LEMMA AgreeInit ==
    ASSUME Init, own \in Ways
    PROVE  Agree
<1>1. TypeOK
  BY TypeInit
<1>2. Steady
  BY DEF Init, Steady
<1>3. Sorted
  BY NoneAssumption DEF Init, Sorted, TasksSorted, HandlersSorted, Handles, RoutesSorted, ClientsSorted
<1>4. ASSUME NEW u \in Users PROVE Session(u)
  <2>1. Home(u) \in Nodes /\ own[u] \in Conns
    BY <1>2, OwnFacts
  <2>2. queue[Home(u)] = <<>> /\ at[own[u]] = "closed"
    BY <2>1 DEF Init
  <2>3. /\ \A op \in Ops : ~Queued(op, u)
        /\ \A t \in Threads, op \in Ops : ~Runs(t, op, u)
    BY <2>2 DEF Init, Queued, On, Runs
  <2>4. "login" \in Ops /\ "logout" \in Ops /\ "close" \in Ops
    BY DEF Ops
  <2>5. ~Routed(u) /\ ~Listed(u)
    BY <2>1 DEF Init, Routed, Listed
  <2> QED BY <2>2, <2>3, <2>4, <2>5 DEF Session, Sole, Pending
<1> QED BY <1>1, <1>2, <1>3, <1>4 DEF Agree

\* Every step of an orderly behaviour keeps the invariant.
LEMMA AgreeStep ==
    ASSUME Agree, TypeOK', [OrderlyNext]_<<vars, own>>
    PROVE  Agree'
<1>1. TypeOK /\ Steady /\ Sorted /\ HandlersSorted
  BY DEF Agree, Sorted
<1>2. CASE UNCHANGED <<vars, own>>
  <2>1. Steady'
    BY <1>1, <1>2 DEF Steady, vars
  <2>2. Sorted'
    BY <1>1, <1>2 DEF vars, Sorted, TasksSorted, Fits, TaskOf, HandlersSorted, Handles,
       RoutesSorted, Home, ClientsSorted
  <2>3. ASSUME NEW u \in Users PROVE Session(u)'
    <3>1. Session(u) /\ UNCHANGED <<own, at, queue, pc, job, state, userConnMap, channels>>
      BY <1>2 DEF Agree, vars
    <3> QED BY <3>1 DEF Session, Sole, Pending, Queued, QueuedOnce, Runs, Routed, Listed, Home, TaskOf
  <2> QED BY <2>1, <2>2, <2>3 DEF Agree
<1>3. CASE OrderlyNext
  <2>1. Next /\ Orderly /\ own' = own
    BY <1>1, <1>3 DEF OrderlyNext, Steady
  <2>2. Steady'
    BY <1>1, <2>1 DEF Steady, Orderly
  <2>3. ASSUME NEW c \in Conns, Client(c) PROVE Agree'
    <3>1. Sorted'
      BY <1>1, <2>1, <2>3, SortedClient
    <3>2. ASSUME NEW u \in Users PROVE Session(u)'
      <4>1. CASE own[u] = c
        BY <2>1, <2>3, <4>1, ClientSession
      <4>2. CASE own[u] # c
        BY <2>1, <2>3, <4>2, ClientFrame
      <4> QED BY <4>1, <4>2
    <3> QED BY <2>2, <3>1, <3>2 DEF Agree
  <2>4. ASSUME NEW t \in Threads, Dequeue(t) \/ Handler(t) PROVE Agree'
    <3>1. Sorted'
      BY <1>1, <2>1, <2>4, SortedThread
    <3>2. ASSUME NEW u \in Users, Dequeue(t) PROVE Session(u)'
      <4>1. CASE Head(queue[ThreadNode[t]]).conn = own[u]
        BY <2>1, <3>2, <4>1, DequeueSession
      <4>2. CASE Head(queue[ThreadNode[t]]).conn # own[u]
        BY <2>1, <3>2, <4>2, DequeueFrame
      <4> QED BY <4>1, <4>2
    <3>3. ASSUME NEW u \in Users, Handler(t) PROVE Session(u)'
      <4>1. CASE job[t].conn = own[u]
        BY <2>1, <3>3, <4>1, LoginSession, LeaveSession DEF Handler
      <4>2. CASE job[t].conn # own[u]
        BY <2>1, <3>3, <4>2, HandlerFrame
      <4> QED BY <4>1, <4>2
    <3> QED BY <2>2, <2>4, <3>1, <3>2, <3>3 DEF Agree
  <2>5. ASSUME NEW n \in Nodes, Life(n) PROVE Agree'
    BY <1>1, <2>1, <2>5, NoLife
  <2> QED BY <2>1, <2>3, <2>4, <2>5 DEF Next
<1> QED BY <1>2, <1>3

\* When no handler runs and no task waits, the records agree.
LEMMA AgreeQuiet ==
    ASSUME Agree, PresenceBacked
    PROVE  SessionAgreement
<1>1. TypeOK /\ Steady /\ Sorted
  BY DEF Agree
<1> SUFFICES ASSUME Quiet, \A c \in Conns : at[c] # "busy", NEW u \in Users
             PROVE  /\ state[u] = "online" <=> {n \in Nodes : userConnMap[n][u] # NoConn} # {}
                    /\ {n \in Nodes : userConnMap[n][u] # NoConn} = {n \in Nodes : u \in channels[n]}
                    /\ \A n \in Nodes, c \in Conns :
                           userConnMap[n][u] = c <=> /\ ConnNode[c] = n
                                                     /\ at[c] = "chat"
                                                     /\ who[c] = u
  BY DEF SessionAgreement
<1>2. /\ own[u] \in Conns /\ own[u] # NoConn /\ Home(u) \in Nodes
      /\ \A v \in Users : own[v] = own[u] => v = u
  BY <1>1, OwnFacts
<1>3. \A t \in Threads : pc[t] = "idle"
  BY <1>2 DEF Quiet
<1>4. ~Queued("logout", u) /\ ~Queued("close", u)
  BY <1>2 DEF Quiet, Queued, On
<1>5. /\ Routed(u) <=> at[own[u]] = "chat"
      /\ Listed(u) <=> at[own[u]] = "chat"
      /\ at[own[u]] = "chat" => state[u] = "online"
  <2>1. Session(u)
    BY DEF Agree
  <2> QED BY <1>2, <1>3, <1>4, <2>1 DEF Session
<1>6. \A n \in Nodes : /\ userConnMap[n][u] # NoConn <=> n = Home(u) /\ Routed(u)
                       /\ userConnMap[n][u] # NoConn => userConnMap[n][u] = own[u]
                       /\ u \in channels[n] <=> n = Home(u) /\ Listed(u)
  BY <1>1 DEF Routed, Listed, Sorted, RoutesSorted
<1>7. state[u] = "online" => Routed(u)
  BY <1>1, <1>3, <1>6 DEF PresenceBacked, Steady, Holding
<1>8. \A c \in Conns : at[c] = "chat" /\ who[c] = u <=> c = own[u] /\ at[c] = "chat"
  BY <1>1, <1>2, NoneAssumption DEF Sorted, ClientsSorted, TypeOK
<1>9. ASSUME NEW n \in Nodes, NEW c \in Conns
      PROVE  userConnMap[n][u] = c <=> ConnNode[c] = n /\ at[c] = "chat" /\ who[c] = u
  BY <1>2, <1>5, <1>6, <1>8, NoneAssumption DEF Home
<1> QED BY <1>2, <1>5, <1>6, <1>7, <1>9

\* With one connection per user, one user per connection, patient clients and
\* nodes and writes that do not fail, the three records of a session and the
\* client agree in every quiet state of every such behaviour: no order in which
\* the pool runs login, logout and disconnect leaves a row, a route or a
\* subscription behind, or takes one from a user who is there.
THEOREM AgreementCorrect == OrderlySpec => []OrderlyAgreement
<1> DEFINE I == own \in Ways => Agree
<1>1. OrderlyInit => I
  BY AgreeInit DEF OrderlyInit
<1>2. I /\ TypeOK' /\ [OrderlyNext]_<<vars, own>> => I'
  <2> SUFFICES ASSUME I, TypeOK', [OrderlyNext]_<<vars, own>>, own' \in Ways PROVE Agree'
    OBVIOUS
  <2>1. own' = own
    BY DEF OrderlyNext
  <2>2. Agree
    BY <2>1
  <2> QED BY <2>2, AgreeStep
<1>3. OrderlySpec => Spec
  <2>1. OrderlyInit => Init
    BY DEF OrderlyInit
  <2>2. [OrderlyNext]_<<vars, own>> => [Next]_vars
    BY DEF OrderlyNext
  <2> QED BY <2>1, <2>2, PTL DEF OrderlySpec, Spec
<1>4. I /\ PresenceBacked => OrderlyAgreement
  BY AgreeQuiet DEF OrderlyAgreement
<1> QED BY <1>1, <1>2, <1>3, <1>4, TypeCorrect, PresenceCorrect, PTL DEF OrderlySpec

=============================================================================
