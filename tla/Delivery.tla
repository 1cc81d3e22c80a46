------------------------------ MODULE Delivery ------------------------------
(***************************************************************************)
(* The way of a message to its receiver, while the receiver's sessions     *)
(* come and go as in Presence.                                             *)
(*                                                                         *)
(* deliverMessage looks for a route on its own node, then for the          *)
(* receiver's row, and sends, publishes or stores accordingly; a node that *)
(* Redis hands a published message to looks again and sends or stores it.  *)
(* A login reads the stored messages, deletes whatever is stored by then   *)
(* and answers with what it read.                                          *)
(*                                                                         *)
(* Definitions whose names begin with Mut are faulty variants, against     *)
(* which the properties are tried; no behaviour of the module uses them.   *)
(***************************************************************************)
EXTENDS Presence

CONSTANTS
    Msgs, \* the messages
    To    \* To[m]: the receiver of a message

ASSUME ReceiverAssumption == Msgs # {} /\ To \in [Msgs -> Users]
ASSUME NodesAssumption == Nodes # {}

VARIABLES
    place,   \* where the handler that delivers a message stands
    origin,  \* the node it runs on
    via,     \* the connection it has found
    subs,    \* a node's subscriptions in Redis, which trail channels
    wire,    \* the messages Redis has routed to a node
    relay,   \* what the node's listener does with the message it took
    inbox,   \* OfflineMessage: the stored copies of a message
    stage,   \* how far a login is with the stored messages
    mail,    \* what it has read: the copies of each message
    shown,   \* history: how often a message was put before its receiver
    calm     \* history: whether the receiver has rested since before it was sent

routeVars == <<place, origin, via>>
relayVars == <<subs, wire, relay>>
mailVars == <<stage, mail>>
presenceVars == vars
deliveryVars == <<routeVars, relayVars, inbox, mailVars, shown>>
allVars == <<presenceVars, deliveryVars, calm>>

Many == 2 \* shown counts no further
NoRelay == [at |-> "idle", msg |-> CHOOSE m \in Msgs : TRUE, conn |-> NoConn]
NoMail == [m \in Msgs |-> 0]

DeliveryTypeOK ==
    /\ TypeOK
    /\ place \in [Msgs -> {"unsent", "lookup", "send", "query", "publish", "store",
                           "misread", "gone", "failed"}]
    /\ origin \in [Msgs -> Nodes]
    /\ via \in [Msgs -> Conns \cup {NoConn}]
    /\ subs \in [Nodes -> SUBSET Users]
    /\ wire \in [Nodes -> Seq(Msgs)]
    /\ relay \in [Nodes -> [at : {"idle", "send", "store"}, msg : Msgs,
                            conn : Conns \cup {NoConn}]]
    /\ inbox \in [Msgs -> Nat]
    /\ stage \in [Threads -> {"none", "read", "done"}]
    /\ mail \in [Threads -> [Msgs -> Nat]]
    /\ shown \in [Msgs -> 0..Many]
    /\ calm \in [Msgs -> BOOLEAN]

-----------------------------------------------------------------------------
(* deliverMessage, on a worker of the node the message was sent to.        *)

\* oneChat, of users who are friends; a groupChat is one message per member.
SendMessage(m, n) ==
    /\ place[m] = "unsent"
    /\ node[n] # "down"
    /\ place' = [place EXCEPT ![m] = "lookup"]
    /\ origin' = [origin EXCEPT ![m] = n]
    /\ UNCHANGED <<presenceVars, via, relayVars, inbox, mailVars, shown>>

\* findLocalConnection
Lookup(m) ==
    LET c == userConnMap[origin[m]][To[m]]
    IN  /\ place[m] = "lookup"
        /\ via' = [via EXCEPT ![m] = c]
        /\ place' = [place EXCEPT ![m] = IF c # NoConn THEN "send" ELSE "query"]
        /\ UNCHANGED <<presenceVars, origin, relayVars, inbox, mailVars, shown>>

\* The connection may have gone meanwhile, or its client changed users.
Reaches(c, u) == at[c] # "closed" /\ who[c] = u

More(k) == IF k < Many THEN k + 1 ELSE Many

Show(m, c) ==
    shown' = IF Reaches(c, To[m]) THEN [shown EXCEPT ![m] = More(@)] ELSE shown

SendLocally(m) ==
    /\ place[m] = "send"
    /\ Show(m, via[m])
    /\ via' = [via EXCEPT ![m] = NoConn]
    /\ place' = [place EXCEPT ![m] = "gone"]
    /\ UNCHANGED <<presenceVars, origin, relayVars, inbox, mailVars>>

\* UserModel::query; when it fails it returns a user who is offline.
QueryState(m) ==
    /\ place[m] = "query"
    /\ \/ place' = [place EXCEPT ![m] =
                        IF state[To[m]] = "online" THEN "publish" ELSE "store"]
       \/ /\ "db" \in Faults
          /\ place' = [place EXCEPT ![m] = "misread"]
    /\ UNCHANGED <<presenceVars, origin, via, relayVars, inbox, mailVars, shown>>

MutPublishFallsThrough(m) ==
    /\ place[m] = "publish"
    /\ wire' = [n \in Nodes |-> IF To[m] \in subs[n] THEN Append(wire[n], m) ELSE wire[n]]
    /\ place' = [place EXCEPT ![m] = "store"]
    /\ UNCHANGED <<presenceVars, origin, via, subs, relay, inbox, mailVars, shown>>

MutPublishUntilReceived(m) ==
    /\ place[m] = "publish"
    /\ \E n \in Nodes : To[m] \in subs[n]
    /\ wire' = [n \in Nodes |-> IF To[m] \in subs[n] THEN Append(wire[n], m) ELSE wire[n]]
    /\ place' = [place EXCEPT ![m] = "gone"]
    /\ UNCHANGED <<presenceVars, origin, via, subs, relay, inbox, mailVars, shown>>

\* Redis routes to every node subscribed right now; their number is ignored.
PublishMessage(m) ==
    /\ place[m] = "publish"
    /\ wire' = [n \in Nodes |-> IF To[m] \in subs[n] THEN Append(wire[n], m) ELSE wire[n]]
    /\ place' = [place EXCEPT ![m] = "gone"]
    /\ UNCHANGED <<presenceVars, origin, via, subs, relay, inbox, mailVars, shown>>

\* The offline message service's three statements on its table.
Inserted(m) == [inbox EXCEPT ![m] = @ + 1]
StoredFor(u) == [m \in Msgs |-> IF To[m] = u THEN inbox[m] ELSE 0]
RemovedFor(u) == [m \in Msgs |-> IF To[m] = u THEN 0 ELSE inbox[m]]

\* The RPC's failure is logged and nothing more.
StoreMessage(m) ==
    /\ place[m] \in {"store", "misread"}
    /\ \/ /\ inbox' = Inserted(m)
          /\ place' = [place EXCEPT ![m] = IF @ = "store" THEN "gone" ELSE "failed"]
       \/ /\ "db" \in Faults
          /\ place' = [place EXCEPT ![m] = "failed"]
          /\ UNCHANGED inbox
    /\ UNCHANGED <<presenceVars, origin, via, relayVars, mailVars, shown>>

-----------------------------------------------------------------------------
(* The Redis listener of a node and handleRedisSubscribeMessage.           *)

\* A queued SUBSCRIBE or UNSUBSCRIBE reaches Redis some time later.
TakeEffect(n, u) ==
    /\ u \in channels[n] <=> u \notin subs[n]
    /\ subs' = [subs EXCEPT ![n] = IF u \in @ THEN @ \ {u} ELSE @ \cup {u}]
    /\ UNCHANGED <<presenceVars, routeVars, wire, relay, inbox, mailVars, shown>>

TakeRelay(n) ==
    /\ relay[n].at = "idle"
    /\ wire[n] # <<>>
    /\ LET c == userConnMap[n][To[Head(wire[n])]]
       IN  relay' = [relay EXCEPT ![n] = [at |-> IF c # NoConn THEN "send" ELSE "store",
                                          msg |-> Head(wire[n]), conn |-> c]]
    /\ wire' = [wire EXCEPT ![n] = Tail(@)]
    /\ UNCHANGED <<presenceVars, routeVars, subs, inbox, mailVars, shown>>

SendRelay(n) ==
    /\ relay[n].at = "send"
    /\ Show(relay[n].msg, relay[n].conn)
    /\ relay' = [relay EXCEPT ![n] = NoRelay]
    /\ UNCHANGED <<presenceVars, routeVars, subs, wire, inbox, mailVars>>

StoreRelay(n) ==
    /\ relay[n].at = "store"
    /\ \/ inbox' = Inserted(relay[n].msg)
       \/ "db" \in Faults /\ UNCHANGED inbox
    /\ relay' = [relay EXCEPT ![n] = NoRelay]
    /\ UNCHANGED <<presenceVars, routeVars, subs, wire, mailVars, shown>>

-----------------------------------------------------------------------------
(* What login does between its SUBSCRIBE and its reply.                    *)

FetchMail(t) ==
    /\ pc[t] = "reply" /\ stage[t] = "none"
    /\ \/ mail' = [mail EXCEPT ![t] = StoredFor(job[t].user)]
       \/ "db" \in Faults /\ UNCHANGED mail
    /\ stage' = [stage EXCEPT ![t] = IF mail'[t] = NoMail THEN "done" ELSE "read"]
    /\ UNCHANGED <<presenceVars, routeVars, relayVars, inbox, shown>>

\* Everything stored by now goes, read or not; a failure is ignored.
PurgeMail(t) ==
    /\ stage[t] = "read"
    /\ \/ inbox' = RemovedFor(job[t].user)
       \/ "db" \in Faults /\ UNCHANGED inbox
    /\ stage' = [stage EXCEPT ![t] = "done"]
    /\ UNCHANGED <<presenceVars, routeVars, relayVars, mail, shown>>

ReplyWithMail(t) ==
    LET c == job[t].conn
    IN  /\ stage[t] = "done"
        /\ Reply(t)
        /\ shown' = [m \in Msgs |->
                        IF mail[t][m] = 0 \/ ~Reaches(c, To[m]) THEN shown[m]
                        ELSE IF mail[t][m] = 1 THEN More(shown[m]) ELSE Many]
        /\ stage' = [stage EXCEPT ![t] = "none"]
        /\ mail' = [mail EXCEPT ![t] = NoMail]
        /\ UNCHANGED <<routeVars, relayVars, inbox>>

-----------------------------------------------------------------------------
(* The end of a process.                                                   *)

Delivering(m) == place[m] \notin {"unsent", "gone", "failed"}

\* What the process had in memory is lost with it; so is what Redis had for it.
LoseNode(n) ==
    /\ place' = [m \in Msgs |-> IF Delivering(m) /\ origin[m] = n THEN "failed"
                                ELSE place[m]]
    /\ via' = [m \in Msgs |-> IF origin[m] = n THEN NoConn ELSE via[m]]
    /\ subs' = [subs EXCEPT ![n] = {}]
    /\ wire' = [wire EXCEPT ![n] = <<>>]
    /\ relay' = [relay EXCEPT ![n] = NoRelay]
    /\ stage' = [t \in Threads |-> IF ThreadNode[t] = n THEN "none" ELSE stage[t]]
    /\ mail' = [t \in Threads |-> IF ThreadNode[t] = n THEN NoMail ELSE mail[t]]
    /\ UNCHANGED <<origin, inbox, shown>>

\* The pool has run its handlers to the end, and the listener its callback.
ExitNode(n) ==
    /\ Exit(n)
    /\ \A m \in Msgs : Delivering(m) => origin[m] # n
    /\ relay[n].at = "idle"
    /\ LoseNode(n)

CrashNode(n) == Crash(n) /\ LoseNode(n)

\* A sender that has found a connection keeps the object alive, too.
Found(c) == \/ \E m \in Msgs : via[m] = c
            \/ \E n \in Nodes : relay[n].conn = c

\* Every other step of Presence leaves the messages alone.
Elsewhere ==
    /\ \/ \E c \in Conns : Client(c) /\ (at[c] = "closed" => ~Found(c))
       \/ \E t \in Threads : Dequeue(t) \/ (Handler(t) /\ pc[t] # "reply")
       \/ \E n \in Nodes : Reset(n) \/ Drain(n) \/ Restart(n)
    /\ UNCHANGED deliveryVars

-----------------------------------------------------------------------------
(* A receiver at rest: nothing of it is queued or running, and row, route, *)
(* subscription and client agree (SessionAgreement says when they do).     *)

Busy(u) ==
    \/ \E t \in Threads : pc[t] # "idle" /\ (job[t].user = u \/ who[job[t].conn] = u)
    \/ \E n \in Nodes : \E i \in 1..Len(queue[n]) :
          queue[n][i].user = u \/ queue[n][i].op = "close"

Rests(u) ==
    LET routes == {n \in Nodes : userConnMap[n][u] # NoConn}
    IN  /\ ~Busy(u)
        /\ \A n, k \in routes : n = k
        /\ state[u] = "online" <=> routes # {}
        /\ routes = {n \in Nodes : u \in subs[n]}
        /\ routes = {n \in Nodes : u \in channels[n]}
        /\ \A n \in routes : LET c == userConnMap[n][u]
                             IN  at[c] = "chat" /\ who[c] = u

DeliveryInit ==
    /\ Init
    /\ place = [m \in Msgs |-> "unsent"]
    /\ origin = [m \in Msgs |-> CHOOSE n \in Nodes : TRUE]
    /\ via = [m \in Msgs |-> NoConn]
    /\ subs = [n \in Nodes |-> {}]
    /\ wire = [n \in Nodes |-> <<>>]
    /\ relay = [n \in Nodes |-> NoRelay]
    /\ inbox = NoMail
    /\ stage = [t \in Threads |-> "none"]
    /\ mail = [t \in Threads |-> NoMail]
    /\ shown = [m \in Msgs |-> 0]
    /\ calm = [m \in Msgs |-> TRUE]

Deliver(m) == \/ Lookup(m) \/ SendLocally(m) \/ QueryState(m)
              \/ PublishMessage(m) \/ StoreMessage(m)

Relay(n) == TakeRelay(n) \/ SendRelay(n) \/ StoreRelay(n)

Mail(t) == FetchMail(t) \/ PurgeMail(t) \/ ReplyWithMail(t)

Step == \/ \E m \in Msgs : Deliver(m) \/ \E n \in Nodes : SendMessage(m, n)
        \/ \E n \in Nodes : Relay(n) \/ \E u \in Users : TakeEffect(n, u)
        \/ \E t \in Threads : Mail(t)
        \/ \E n \in Nodes : ExitNode(n) \/ CrashNode(n)
        \/ Elsewhere

DeliveryNext ==
    /\ Step
    /\ calm' = [m \in Msgs |-> (calm[m] \/ place[m] = "unsent") /\ Rests(To[m])']

DeliverySpec == DeliveryInit /\ [][DeliveryNext]_allVars

\* A live node schedules its threads, and Redis serves its connections.
DeliveryFairness ==
    /\ \A m \in Msgs : WF_allVars(Deliver(m) /\ DeliveryNext)
    /\ \A n \in Nodes : WF_allVars(Relay(n) /\ DeliveryNext)
    /\ \A t \in Threads : /\ WF_allVars(Dequeue(t) /\ DeliveryNext)
                          /\ WF_allVars((Handler(t) \/ Mail(t)) /\ DeliveryNext)

DeliveryFairSpec == DeliverySpec /\ DeliveryFairness

-----------------------------------------------------------------------------
(* Properties.                                                             *)

Underway(m) == \/ Delivering(m)
               \/ \E n \in Nodes : \/ relay[n].at # "idle" /\ relay[n].msg = m
                                   \/ \E i \in 1..Len(wire[n]) : wire[n][i] = m

\* A message to a receiver that rests while the message is under way comes to
\* it exactly once: it is shown when the receiver is online, on whichever node,
\* and stored when it is offline, unless a call failed on the way.  No message
\* is both shown and stored, and none is shown twice.
ExactlyOnce ==
    \A m \in Msgs : place[m] = "gone" /\ ~Underway(m) /\ calm[m] =>
        IF state[To[m]] = "online" THEN shown[m] = 1 /\ inbox[m] = 0
        ELSE shown[m] = 0 /\ inbox[m] = 1

\* Every message that was accepted comes to rest: nothing waits for another
\* message or for the receiver to come or go.
MessagesSettle == \A m \in Msgs : place[m] = "lookup" ~> ~Underway(m)
=============================================================================
