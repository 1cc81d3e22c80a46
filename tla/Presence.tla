------------------------------ MODULE Presence ------------------------------
(***************************************************************************)
(* Login, logout and disconnect on a cluster of ChatServer nodes.          *)
(*                                                                         *)
(* A session is recorded in three places that no lock or transaction keeps *)
(* together: the user's row in MySQL (User.state, shared by all nodes),    *)
(* the node's _userConnMap, and the node's Redis subscriptions.  A handler *)
(* changes them one after the other, on whichever thread of the node's     *)
(* pool took the task, so the handlers of one connection may overlap and   *)
(* overtake each other.  One action is one access to one of the three.     *)
(*                                                                         *)
(* Definitions whose names begin with Mut are faulty variants, against     *)
(* which the properties are tried; no behaviour of the module uses them.   *)
(***************************************************************************)
EXTENDS Naturals, Sequences

CONSTANTS
    Nodes,     \* the ChatServer processes
    Users,     \* the accounts
    Conns,     \* the TCP connections
    Threads,   \* the threads that run handlers, of all nodes
    IoThreads, \* those of Threads that are Muduo I/O threads, not pool workers
    ConnNode, ThreadNode, \* the node of a connection, of a thread
    Accounts,  \* Accounts[c]: the users who log in over connection c
    MaxQueue,  \* the bound on the pool's task queue
    Faults,    \* what may go wrong: a subset of FaultKinds
    NoUser, NoConn

FaultKinds == { "abandon", \* a client disconnects before its login is answered
                "db",      \* an UPDATE of User.state fails
                "stop",    \* SIGINT: a node leaves its loop, resets, drains, exits
                "crash" }  \* a node dies

ASSUME NodesOfAssumption == /\ ConnNode \in [Conns -> Nodes]
                            /\ ThreadNode \in [Threads -> Nodes]
ASSUME ThreadsAssumption == IoThreads \subseteq Threads
ASSUME AccountsAssumption == Accounts \in [Conns -> SUBSET Users]
ASSUME QueueAssumption == MaxQueue \in Nat \ {0}
ASSUME FaultsAssumption == Faults \subseteq FaultKinds
ASSUME NoneAssumption == NoUser \notin Users /\ NoConn \notin Conns

VARIABLES
    at,          \* what the client of a connection is doing
    who,         \* the user it is logging in as, or is logged in as
    queue,       \* a node's pool queue
    pc, job,     \* where a thread stands in the handler of which task
    state,       \* User.state in MySQL
    userConnMap, \* a node's _userConnMap
    channels,    \* users whose last Redis command on the node was SUBSCRIBE
    node,        \* the life of a node's process
    stale        \* history: users whose row no session's end will repair

vars == <<at, who, queue, pc, job, state, userConnMap, channels, node, stale>>
clientVars == <<at, who>>

Jobs == [op : {"login", "logout", "close"},
         conn : Conns, user : Users \cup {NoUser}]
NoJob == [op |-> "close", conn |-> NoConn, user |-> NoUser]

Entry == [login |-> "query", logout |-> "erase", close |-> "scan"]

PCs == {"idle", "query", "online", "insert", "subscribe", "reply",
        "erase", "scan", "unsubscribe", "offline"}

TypeOK ==
    /\ at \in [Conns -> {"closed", "menu", "waiting", "chat", "busy"}]
    /\ who \in [Conns -> Users \cup {NoUser}]
    /\ queue \in [Nodes -> Seq(Jobs)]
    /\ \A n \in Nodes : Len(queue[n]) <= MaxQueue
    /\ pc \in [Threads -> PCs]
    /\ job \in [Threads -> Jobs \cup {NoJob}]
    /\ \A t \in Threads : pc[t] # "idle" => job[t] \in Jobs
    /\ \A t \in Threads : pc[t] \notin {"idle", "scan"} => job[t].user \in Users
    /\ \A n \in Nodes : \A i \in 1..Len(queue[n]) :
           queue[n][i].op # "close" => queue[n][i].user \in Users
    /\ state \in [Users -> {"online", "offline"}]
    /\ userConnMap \in [Nodes -> [Users -> Conns \cup {NoConn}]]
    /\ channels \in [Nodes -> SUBSET Users]
    /\ node \in [Nodes -> {"up", "reset", "draining", "down"}]
    /\ stale \subseteq Users

Init ==
    /\ at = [c \in Conns |-> "closed"]
    /\ who = [c \in Conns |-> NoUser]
    /\ queue = [n \in Nodes |-> <<>>]
    /\ pc = [t \in Threads |-> "idle"]
    /\ job = [t \in Threads |-> NoJob]
    /\ state = [u \in Users |-> "offline"]
    /\ userConnMap = [n \in Nodes |-> [u \in Users |-> NoConn]]
    /\ channels = [n \in Nodes |-> {}]
    /\ node = [n \in Nodes |-> "up"]
    /\ stale = {}

-----------------------------------------------------------------------------
(* Connections and clients, as the node's I/O threads see them.            *)

MutRefusesNoLimit(n) == node[n] = "draining"

\* ThreadPool::enqueue throws: the queue is full, or the pool is stopped.
Refuses(n) == Len(queue[n]) >= MaxQueue \/ node[n] = "draining"

\* Some task, handler or route still holds the connection object.
Referenced(c) ==
    \/ \E n \in Nodes : \E i \in 1..Len(queue[n]) : queue[n][i].conn = c
    \/ \E t \in Threads : job[t].conn = c
    \/ \E n \in Nodes, u \in Users : userConnMap[n][u] = c

\* A new TCP connection: only the base loop accepts, so only while it runs.
Connect(c) ==
    /\ at[c] = "closed"
    /\ node[ConnNode[c]] = "up"
    /\ ~Referenced(c)
    /\ at' = [at EXCEPT ![c] = "menu"]
    /\ who' = [who EXCEPT ![c] = NoUser]
    /\ UNCHANGED <<queue, pc, job, state, userConnMap, channels, node, stale>>

\* onMessage hands a request to the pool; if the pool refuses, the client
\* gets "server busy", a reply its reader cannot take: it can only go away.
Send(c, op, u, next) ==
    LET n == ConnNode[c]
    IN  /\ IF Refuses(n)
           THEN /\ at' = [at EXCEPT ![c] = "busy"]
                /\ UNCHANGED queue
           ELSE /\ at' = [at EXCEPT ![c] = next]
                /\ queue' = [queue EXCEPT ![n] =
                                 Append(@, [op |-> op, conn |-> c, user |-> u])]
        /\ UNCHANGED <<pc, job, state, userConnMap, channels, node, stale>>

SendLogin(c, u) ==
    /\ at[c] = "menu"
    /\ u \in Accounts[c]
    /\ who' = [who EXCEPT ![c] = u]
    /\ Send(c, "login", u, "waiting")

\* The client returns to its menu without waiting for an answer.
SendLogout(c) ==
    /\ at[c] = "chat"
    /\ who[c] \in Users
    /\ Send(c, "logout", who[c], "menu")
    /\ UNCHANGED who

\* onConnection of a connection that went down: the cleanup is queued or,
\* when the pool refuses it, run at once by the I/O thread.
CloseConn(c) ==
    LET n == ConnNode[c]
        close == [op |-> "close", conn |-> c, user |-> NoUser]
    IN  /\ at[c] # "closed"
        /\ at[c] = "waiting" => "abandon" \in Faults \/ node[n] = "draining"
        /\ \/ /\ ~Refuses(n)
              /\ queue' = [queue EXCEPT ![n] = Append(@, close)]
              /\ UNCHANGED <<pc, job>>
           \/ /\ Refuses(n)
              /\ \E t \in IoThreads :
                    /\ ThreadNode[t] = n
                    /\ pc[t] = "idle"
                    /\ pc' = [pc EXCEPT ![t] = "scan"]
                    /\ job' = [job EXCEPT ![t] = close]
              /\ UNCHANGED queue
        /\ at' = [at EXCEPT ![c] = "closed"]
        /\ who' = [who EXCEPT ![c] = NoUser]
        /\ UNCHANGED <<state, userConnMap, channels, node, stale>>

-----------------------------------------------------------------------------
(* The handlers.                                                           *)

Goto(t, label) ==
    /\ pc' = [pc EXCEPT ![t] = label]
    /\ UNCHANGED job

Finish(t) ==
    /\ pc' = [pc EXCEPT ![t] = "idle"]
    /\ job' = [job EXCEPT ![t] = NoJob]

\* A pool worker takes the oldest task of its node.
Dequeue(t) ==
    LET n == ThreadNode[t]
    IN  /\ t \notin IoThreads
        /\ pc[t] = "idle"
        /\ queue[n] # <<>>
        /\ job' = [job EXCEPT ![t] = Head(queue[n])]
        /\ pc' = [pc EXCEPT ![t] = Entry[Head(queue[n]).op]]
        /\ queue' = [queue EXCEPT ![n] = Tail(@)]
        /\ UNCHANGED <<at, who, state, userConnMap, channels, node, stale>>

\* A reply reaches the client unless it has gone meanwhile.
Answer(t, next) ==
    LET c == job[t].conn
    IN  at' = IF at[c] = "waiting" THEN [at EXCEPT ![c] = next] ELSE at

MutRefusedSilently(t) ==
    /\ pc[t] = "query"
    /\ Finish(t)
    /\ UNCHANGED <<clientVars, queue, state, userConnMap, channels, node, stale>>

\* login: no such user, wrong password, or the row already says online.  The
\* first two depend on what was typed (and on a failing query): always possible.
LoginRefused(t) ==
    /\ pc[t] = "query"
    /\ Answer(t, "menu")
    /\ Finish(t)
    /\ UNCHANGED <<who, queue, state, userConnMap, channels, node, stale>>

MutGrantedAlways(t) ==
    /\ pc[t] = "query"
    /\ Goto(t, "online")
    /\ UNCHANGED <<clientVars, queue, state, userConnMap, channels, node, stale>>

LoginGranted(t) ==
    /\ pc[t] = "query"
    /\ state[job[t].user] = "offline"
    /\ Goto(t, "online")
    /\ UNCHANGED <<clientVars, queue, state, userConnMap, channels, node, stale>>

\* UserModel::updateState; its result is ignored by every caller here.
UpdateState(u, value) ==
    \/ /\ state' = [state EXCEPT ![u] = value]
       /\ stale' = stale \ {u}
    \/ /\ "db" \in Faults
       /\ stale' = stale \cup {u}
       /\ UNCHANGED state

SetOnline(t) ==
    /\ pc[t] = "online"
    /\ UpdateState(job[t].user, "online")
    /\ Goto(t, "insert")
    /\ UNCHANGED <<clientVars, queue, userConnMap, channels, node>>

MutInsertOverwrites(t) ==
    /\ pc[t] = "insert"
    /\ userConnMap' = [userConnMap EXCEPT ![ThreadNode[t]][job[t].user] = job[t].conn]
    /\ Goto(t, "subscribe")
    /\ UNCHANGED <<clientVars, queue, state, channels, node, stale>>

\* unordered_map::insert leaves an entry that is already there.
InsertConn(t) ==
    LET n == ThreadNode[t]
        u == job[t].user
    IN  /\ pc[t] = "insert"
        /\ userConnMap' = IF userConnMap[n][u] = NoConn
                          THEN [userConnMap EXCEPT ![n][u] = job[t].conn]
                          ELSE userConnMap
        /\ Goto(t, "subscribe")
        /\ UNCHANGED <<clientVars, queue, state, channels, node, stale>>

Subscribe(t) ==
    /\ pc[t] = "subscribe"
    /\ channels' = [channels EXCEPT ![ThreadNode[t]] = @ \cup {job[t].user}]
    /\ Goto(t, "reply")
    /\ UNCHANGED <<clientVars, queue, state, userConnMap, node, stale>>

Reply(t) ==
    /\ pc[t] = "reply"
    /\ Answer(t, "chat")
    /\ Finish(t)
    /\ UNCHANGED <<who, queue, state, userConnMap, channels, node, stale>>

\* loginout: drops the route whoever holds it, then goes on in any case.
EraseConn(t) ==
    /\ pc[t] = "erase"
    /\ userConnMap' = [userConnMap EXCEPT ![ThreadNode[t]][job[t].user] = NoConn]
    /\ Goto(t, "unsubscribe")
    /\ UNCHANGED <<clientVars, queue, state, channels, node, stale>>

\* clientCloseException: drops the first route, in hash order, that leads to
\* the connection; with none it is done.
ScanConn(t) ==
    LET n == ThreadNode[t]
        c == job[t].conn
        mine == {u \in Users : userConnMap[n][u] = c}
    IN  /\ pc[t] = "scan"
        /\ \/ \E u \in mine :
                 /\ userConnMap' = [userConnMap EXCEPT ![n][u] = NoConn]
                 /\ job' = [job EXCEPT ![t].user = u]
                 /\ pc' = [pc EXCEPT ![t] = "unsubscribe"]
           \/ /\ mine = {}
              /\ Finish(t)
              /\ UNCHANGED userConnMap
        /\ UNCHANGED <<clientVars, queue, state, channels, node, stale>>

MutUnsubscribeOnly(t) ==
    /\ pc[t] = "unsubscribe"
    /\ channels' = [channels EXCEPT ![ThreadNode[t]] = @ \ {job[t].user}]
    /\ Finish(t)
    /\ UNCHANGED <<clientVars, queue, state, userConnMap, node, stale>>

\* markUserOffline: first Redis, then the row.
Unsubscribe(t) ==
    /\ pc[t] = "unsubscribe"
    /\ channels' = [channels EXCEPT ![ThreadNode[t]] = @ \ {job[t].user}]
    /\ Goto(t, "offline")
    /\ UNCHANGED <<clientVars, queue, state, userConnMap, node, stale>>

SetOffline(t) ==
    /\ pc[t] = "offline"
    /\ UpdateState(job[t].user, "offline")
    /\ Finish(t)
    /\ UNCHANGED <<clientVars, queue, userConnMap, channels, node>>

-----------------------------------------------------------------------------
(* The life of a node's process.                                           *)

\* main after SIGINT: the base loop has returned and ChatService::reset has
\* marked every online user of the whole cluster offline.
Reset(n) ==
    /\ "stop" \in Faults
    /\ node[n] = "up"
    /\ \/ /\ state' = [u \in Users |-> "offline"]
          /\ stale' = {}
       \/ /\ "db" \in Faults
          /\ UNCHANGED <<state, stale>>
    /\ node' = [node EXCEPT ![n] = "reset"]
    /\ UNCHANGED <<clientVars, queue, pc, job, userConnMap, channels>>

\* ~ChatServer destroys the pool first: it refuses new tasks, runs the old.
Drain(n) ==
    /\ node[n] = "reset"
    /\ node' = [node EXCEPT ![n] = "draining"]
    /\ UNCHANGED <<clientVars, queue, pc, job, state, userConnMap, channels, stale>>

\* Users whose row was left to the node to clear.
Holding == {"insert", "unsubscribe", "offline"}
HeldBy(n) ==
    {u \in Users : \/ userConnMap[n][u] # NoConn
                   \/ \E t \in Threads : /\ ThreadNode[t] = n
                                         /\ pc[t] \in Holding
                                         /\ job[t].user = u}

\* The process is gone, and with it everything it kept in memory.
Gone(n) ==
    /\ stale' = stale \cup HeldBy(n)
    /\ node' = [node EXCEPT ![n] = "down"]
    /\ at' = [c \in Conns |-> IF ConnNode[c] = n THEN "closed" ELSE at[c]]
    /\ who' = [c \in Conns |-> IF ConnNode[c] = n THEN NoUser ELSE who[c]]
    /\ queue' = [queue EXCEPT ![n] = <<>>]
    /\ pc' = [t \in Threads |-> IF ThreadNode[t] = n THEN "idle" ELSE pc[t]]
    /\ job' = [t \in Threads |-> IF ThreadNode[t] = n THEN NoJob ELSE job[t]]
    /\ userConnMap' = [userConnMap EXCEPT ![n] = [u \in Users |-> NoConn]]
    /\ channels' = [channels EXCEPT ![n] = {}]
    /\ UNCHANGED state

\* The pool has joined its workers and the I/O loops have stopped.
Exit(n) ==
    /\ node[n] = "draining"
    /\ queue[n] = <<>>
    /\ \A t \in Threads : ThreadNode[t] = n => pc[t] = "idle"
    /\ Gone(n)

Crash(n) ==
    /\ "crash" \in Faults
    /\ node[n] # "down"
    /\ Gone(n)

\* Nothing is reset at start-up.
Restart(n) ==
    /\ node[n] = "down"
    /\ node' = [node EXCEPT ![n] = "up"]
    /\ UNCHANGED <<clientVars, queue, pc, job, state, userConnMap, channels, stale>>

-----------------------------------------------------------------------------
Login(t) == \/ LoginRefused(t) \/ LoginGranted(t) \/ SetOnline(t)
            \/ InsertConn(t) \/ Subscribe(t) \/ Reply(t)

Leave(t) == EraseConn(t) \/ ScanConn(t) \/ Unsubscribe(t) \/ SetOffline(t)

Handler(t) == Login(t) \/ Leave(t)

Client(c) == \/ Connect(c)
             \/ \E u \in Users : SendLogin(c, u)
             \/ SendLogout(c)
             \/ CloseConn(c)

Life(n) == Reset(n) \/ Drain(n) \/ Exit(n) \/ Crash(n) \/ Restart(n)

Next == \/ \E c \in Conns : Client(c)
        \/ \E t \in Threads : Dequeue(t) \/ Handler(t)
        \/ \E n \in Nodes : Life(n)

Spec == Init /\ [][Next]_vars

\* The operating system schedules every thread of a live node; clients,
\* signals and faults owe nothing.
Fairness == \A t \in Threads : WF_vars(Dequeue(t)) /\ WF_vars(Handler(t))

FairSpec == Spec /\ Fairness

-----------------------------------------------------------------------------
(* Properties.                                                             *)

\* A row that says online always has somebody left who will clear it: a node
\* that routes the user, a handler between the row and the map, or it is
\* accounted for as stale (a node died on it, a write failed).  No order of
\* overlapping logins, logouts and disconnects loses track of the row.
PresenceBacked ==
    \A u \in Users : state[u] = "online" =>
        \/ \E n \in Nodes : userConnMap[n][u] # NoConn
        \/ \E t \in Threads : pc[t] \in Holding /\ job[t].user = u
        \/ u \in stale

\* A second login of a user never takes the route from the connection that
\* has it: _userConnMap.insert keeps the entry until a logout or a disconnect
\* removes it.
RouteNotStolen ==
    [][\A n \in Nodes, u \in Users :
          userConnMap[n][u] # NoConn =>
              userConnMap'[n][u] \in {userConnMap[n][u], NoConn}]_vars

Quiet == \A n \in Nodes : /\ node[n] = "up"
                          /\ queue[n] = <<>>
                          /\ \A t \in Threads : pc[t] = "idle"

\* With one connection per user, one user per connection, and clients that
\* wait for the answer to a login, the three records agree with each other
\* and with the clients whenever no handler is running, whatever the order
\* in which the pool ran login, logout and disconnect.
SessionAgreement ==
    Quiet /\ (\A c \in Conns : at[c] # "busy") => \A u \in Users :
        LET routes == {n \in Nodes : userConnMap[n][u] # NoConn}
        IN  /\ state[u] = "online" <=> routes # {}
            /\ routes = {n \in Nodes : u \in channels[n]}
            /\ \A n \in Nodes, c \in Conns :
                   userConnMap[n][u] = c <=> /\ ConnNode[c] = n
                                             /\ at[c] = "chat"
                                             /\ who[c] = u

\* Every login sent is answered, refused, or ends with the connection.
LoginAnswered == \A c \in Conns : at[c] = "waiting" ~> at[c] # "waiting"

\* "A user who is logged in is not allowed to log in again" (the comment over
\* the check in ChatService::login): two clients never chat as one user.
SingleSession ==
    \A c, d \in Conns :
        at[c] = "chat" /\ at[d] = "chat" /\ who[c] = who[d] => c = d

\* A disconnect that finds no route is taken to be of a client that never
\* logged in (the comment in clientCloseException).  Then, once every client
\* is gone and the node has gone quiet, nobody is left online.
ClosedMeansOffline ==
    Quiet /\ stale = {} /\ (\A c \in Conns : at[c] = "closed") =>
        \A u \in Users : state[u] = "offline"
=============================================================================
