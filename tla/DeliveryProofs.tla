--------------------------- MODULE DeliveryProofs ---------------------------
(* Proofs about Delivery, for any cluster, any users, any messages and any   *)
(* faults.                                                                   *)
EXTENDS Delivery, PresenceProofs, QueueFacts

-----------------------------------------------------------------------------
(* The inductive invariant.                                                  *)

\* Only a login about to reply has mail, and only its user's.
MailOwned ==
    \A t \in Threads :
        /\ stage[t] # "none" => pc[t] = "reply"
        /\ \A m \in Msgs : mail[t][m] # 0 => pc[t] = "reply" /\ job[t].user = To[m]

Holds(r, m) == r.at # "idle" /\ r.msg = m

\* A message is not on node n, or is there once, on its way to the receiver.
Clear(m, n) == ~Holds(relay[n], m) /\ ~On(wire[n], m)
Single(m, n) ==
    \/ /\ Holds(relay[n], m) /\ ~On(wire[n], m)
       /\ relay[n].at = "send" /\ relay[n].conn = userConnMap[n][To[m]]
    \/ ~Holds(relay[n], m) /\ Once(wire[n], m)

Nowhere(m) == \A n \in Nodes : Clear(m, n)
Fresh(m) == shown[m] = 0 /\ inbox[m] = 0

\* The message has come, was stored, or is on its way on the receiver's node.
Arrived(m) == Nowhere(m) /\ state[To[m]] = "online" /\ shown[m] = 1 /\ inbox[m] = 0
Stored(m) == Nowhere(m) /\ state[To[m]] = "offline" /\ shown[m] = 0 /\ inbox[m] = 1
Coming(m) ==
    Fresh(m) /\ \E n \in Nodes : /\ userConnMap[n][To[m]] # NoConn /\ Single(m, n)
                                 /\ \A k \in Nodes : k # n => Clear(m, k)

\* A message that was not sent is nowhere; the handler of one whose receiver
\* rests has found out what is still true.
MsgInv(m) ==
    /\ place[m] = "unsent" => Fresh(m) /\ Nowhere(m) /\ \A t \in Threads : mail[t][m] = 0
    /\ calm[m] /\ place[m] # "unsent" =>
          /\ Rests(To[m])
          /\ Delivering(m) => Fresh(m) /\ Nowhere(m)
          /\ place[m] = "send" => via[m] # NoConn /\ via[m] = userConnMap[origin[m]][To[m]]
          /\ place[m] = "publish" => state[To[m]] = "online"
          /\ place[m] = "store" => state[To[m]] = "offline"
          /\ place[m] = "gone" => Arrived(m) \/ Stored(m) \/ Coming(m)

IInv == DeliveryTypeOK /\ MailOwned /\ \A m \in Msgs : MsgInv(m)

-----------------------------------------------------------------------------
(* Delivery and Presence.                                                    *)

\* Every step of Delivery is one of Presence, or leaves Presence alone.
LEMMA PresenceSteps == [DeliveryNext]_allVars => [Next]_vars
<1> SUFFICES ASSUME DeliveryNext PROVE [Next]_vars
  BY DEF allVars, presenceVars
<1>1. CASE \E m \in Msgs : Deliver(m) \/ \E n \in Nodes : SendMessage(m, n)
  BY <1>1 DEF Deliver, Lookup, SendLocally, QueryState, PublishMessage, StoreMessage, SendMessage,
     presenceVars
<1>2. CASE \E n \in Nodes : Relay(n) \/ \E u \in Users : TakeEffect(n, u)
  BY <1>2 DEF Relay, TakeRelay, SendRelay, StoreRelay, TakeEffect, presenceVars
<1>3. ASSUME NEW t \in Threads, Mail(t) PROVE [Next]_vars
  <2>1. CASE ReplyWithMail(t)
    BY <2>1 DEF ReplyWithMail, Next, Handler, Login
  <2>2. CASE FetchMail(t) \/ PurgeMail(t)
    BY <2>2 DEF FetchMail, PurgeMail, presenceVars
  <2> QED BY <1>3, <2>1, <2>2 DEF Mail
<1>4. CASE \E n \in Nodes : ExitNode(n) \/ CrashNode(n)
  BY <1>4 DEF ExitNode, CrashNode, Next, Life
<1>5. CASE Elsewhere
  BY <1>5 DEF Elsewhere, Next, Life
<1> QED BY <1>1, <1>2, <1>3, <1>4, <1>5 DEF DeliveryNext, Step

\* Delivery is Presence, and more: whatever Presence promises holds in it.
THEOREM Composition == DeliverySpec => Spec
<1>1. DeliveryInit => Init
  BY DEF DeliveryInit
<1> QED BY <1>1, PresenceSteps, PTL DEF DeliverySpec, Spec

\* The route and the row of a user who rests before and after a step are not
\* touched by it: whoever could do so would be at work for the user.
LEMMA Frame ==
    ASSUME TypeOK, [Next]_vars, NEW u \in Users, Rests(u), Rests(u)'
    PROVE  /\ state'[u] = state[u]
           /\ \A n \in Nodes : userConnMap'[n][u] = userConnMap[n][u]
<1> DEFINE Kept == /\ state'[u] = state[u]
                   /\ \A n \in Nodes : userConnMap'[n][u] = userConnMap[n][u]
<1>1. \A t \in Threads : pc[t] # "idle" => job[t].user # u /\ who[job[t].conn] # u
  BY DEF Rests, Busy
<1>2. state[u] = "online" <=> \E n \in Nodes : userConnMap[n][u] # NoConn
  BY DEF Rests
<1>3. \A n \in Nodes : userConnMap[n][u] # NoConn => who[userConnMap[n][u]] = u
  BY DEF Rests
<1>4. state'[u] = "online" <=> \E n \in Nodes : userConnMap'[n][u] # NoConn
  BY DEF Rests
<1>5. CASE UNCHANGED <<state, userConnMap>>
  BY <1>5
<1>6. ASSUME NEW t \in Threads, Dequeue(t) \/ Handler(t) PROVE Kept
  <2>1. CASE \/ Dequeue(t) \/ LoginRefused(t) \/ LoginGranted(t) \/ Subscribe(t) \/ Reply(t)
             \/ Unsubscribe(t)
    BY <1>5, <2>1 DEF Dequeue, LoginRefused, LoginGranted, Subscribe, Reply, Unsubscribe
  <2>2. CASE SetOnline(t) \/ SetOffline(t)
    <3>1. job[t].user # u /\ UNCHANGED userConnMap
      BY <1>1, <2>2 DEF SetOnline, SetOffline
    <3>2. state' = state \/ \E x : state' = [state EXCEPT ![job[t].user] = x]
      BY <2>2 DEF SetOnline, SetOffline, UpdateState
    <3> QED BY <3>1, <3>2 DEF TypeOK
  <2>3. CASE InsertConn(t) \/ EraseConn(t)
    <3>1. job[t].user # u /\ UNCHANGED state
      BY <1>1, <2>3 DEF InsertConn, EraseConn
    <3>2. \/ userConnMap' = userConnMap
          \/ \E x : userConnMap' = [userConnMap EXCEPT ![ThreadNode[t]][job[t].user] = x]
      BY <2>3 DEF InsertConn, EraseConn
    <3>3. ASSUME NEW x, userConnMap' = [userConnMap EXCEPT ![ThreadNode[t]][job[t].user] = x]
          PROVE  \A n \in Nodes : userConnMap'[n][u] = userConnMap[n][u]
      BY <3>1, <3>3, NodesOfAssumption DEF TypeOK
    <3> QED BY <3>1, <3>2, <3>3
  <2>4. CASE ScanConn(t)
    <3>1. /\ UNCHANGED state /\ job[t] \in Jobs /\ ThreadNode[t] \in Nodes
          /\ who[job[t].conn] # u
      BY <1>1, <2>4, NodesOfAssumption DEF ScanConn, TypeOK
    <3>2. job[t].conn # NoConn
      BY <3>1, NoneAssumption DEF Jobs
    <3>3. userConnMap[ThreadNode[t]][u] # job[t].conn
      BY <1>3, <3>1, <3>2
    <3>4. \/ userConnMap' = userConnMap
          \/ \E v \in Users : /\ userConnMap[ThreadNode[t]][v] = job[t].conn
                              /\ userConnMap' = [userConnMap EXCEPT ![ThreadNode[t]][v] = NoConn]
      BY <2>4 DEF ScanConn
    <3>5. ASSUME NEW v \in Users, userConnMap[ThreadNode[t]][v] = job[t].conn,
                 userConnMap' = [userConnMap EXCEPT ![ThreadNode[t]][v] = NoConn]
          PROVE  \A n \in Nodes : userConnMap'[n][u] = userConnMap[n][u]
      <4>1. v # u
        BY <3>3, <3>5
      <4> QED BY <3>1, <3>5, <4>1 DEF TypeOK
    <3> QED BY <3>1, <3>4, <3>5
  <2> QED BY <1>6, <2>1, <2>2, <2>3, <2>4 DEF Handler, Login, Leave
<1>7. ASSUME NEW n \in Nodes, Life(n) PROVE Kept
  <2>1. CASE Drain(n) \/ Restart(n)
    BY <1>5, <2>1 DEF Drain, Restart
  <2>2. CASE Reset(n)
    BY <1>2, <1>4, <2>2 DEF Reset, TypeOK
  <2>3. CASE Gone(n)
    <3>1. /\ UNCHANGED state
          /\ userConnMap' = [userConnMap EXCEPT ![n] = [v \in Users |-> NoConn]]
      BY <2>3 DEF Gone
    <3>2. /\ userConnMap'[n][u] = NoConn
          /\ \A k \in Nodes : k # n => userConnMap'[k][u] = userConnMap[k][u]
      BY <3>1 DEF TypeOK
    <3>3. userConnMap[n][u] = NoConn
      <4> SUFFICES ASSUME userConnMap[n][u] # NoConn PROVE FALSE
        OBVIOUS
      <4>1. state'[u] = "online"
        BY <1>2, <3>1
      <4>2. PICK k \in Nodes : userConnMap'[k][u] # NoConn
        BY <1>4, <4>1
      <4>3. k # n /\ userConnMap[k][u] # NoConn
        BY <3>2, <4>2
      <4> QED BY <4>3 DEF Rests
    <3> QED BY <3>1, <3>2, <3>3
  <2> QED BY <1>7, <2>1, <2>2, <2>3 DEF Life, Exit, Crash
<1>8. ASSUME NEW c \in Conns, Client(c) PROVE Kept
  BY <1>5, <1>8 DEF Client, Connect, SendLogin, SendLogout, Send, CloseConn
<1> QED BY <1>5, <1>6, <1>7, <1>8 DEF Next, vars

-----------------------------------------------------------------------------
(* The stored messages and the logins that read them.                        *)

\* A login that is about to reply does nothing of Presence but reply.
LEMMA StaysAtReply ==
    ASSUME TypeOK, Elsewhere, NEW t \in Threads, pc[t] = "reply"
    PROVE  pc'[t] = "reply" /\ job'[t] = job[t]
<1>1. ASSUME NEW c \in Conns, Client(c) PROVE pc'[t] = "reply" /\ job'[t] = job[t]
  BY <1>1 DEF Client, Connect, SendLogin, SendLogout, Send, CloseConn, TypeOK
<1>2. ASSUME NEW s \in Threads, Dequeue(s) \/ (Handler(s) /\ pc[s] # "reply")
      PROVE  pc'[t] = "reply" /\ job'[t] = job[t]
  <2>1. s # t
    BY <1>2 DEF Dequeue
  <2>2. \A r \in Threads : r # s => pc'[r] = pc[r] /\ job'[r] = job[r]
    BY <1>2 DEF Dequeue, Handler, Login, LoginRefused, LoginGranted, SetOnline, InsertConn,
       Subscribe, Reply, Leave, EraseConn, ScanConn, Unsubscribe, SetOffline, Goto, Finish, TypeOK
  <2> QED BY <2>1, <2>2
<1>3. ASSUME NEW n \in Nodes, Reset(n) \/ Drain(n) \/ Restart(n)
      PROVE  pc'[t] = "reply" /\ job'[t] = job[t]
  BY <1>3 DEF Reset, Drain, Restart
<1> QED BY <1>1, <1>2, <1>3 DEF Elsewhere

\* Nobody else has a user's mail.
LEMMA MailStep ==
    ASSUME DeliveryTypeOK, MailOwned, [DeliveryNext]_allVars
    PROVE  MailOwned'
<1>1. CASE UNCHANGED <<stage, mail, pc, job>>
  BY <1>1 DEF MailOwned
<1>2. CASE Elsewhere
  <2>1. UNCHANGED <<stage, mail>>
    BY <1>2 DEF Elsewhere, deliveryVars, mailVars
  <2>2. \A t \in Threads : pc[t] = "reply" => pc'[t] = "reply" /\ job'[t] = job[t]
    BY <1>2, StaysAtReply DEF DeliveryTypeOK
  <2> QED BY <2>1, <2>2 DEF MailOwned
<1>3. ASSUME NEW t \in Threads, FetchMail(t) PROVE MailOwned'
  <2>1. /\ UNCHANGED <<pc, job>> /\ pc[t] = "reply"
        /\ \A s \in Threads : s # t => stage'[s] = stage[s] /\ mail'[s] = mail[s]
    BY <1>3 DEF FetchMail, presenceVars, vars, DeliveryTypeOK
  <2>2. mail'[t] = mail[t] \/ mail'[t] = StoredFor(job[t].user)
    BY <1>3 DEF FetchMail, DeliveryTypeOK
  <2>3. \A m \in Msgs : mail'[t][m] # 0 => job[t].user = To[m]
    BY <2>2 DEF MailOwned, StoredFor
  <2> QED BY <2>1, <2>3 DEF MailOwned
<1>4. ASSUME NEW t \in Threads, PurgeMail(t) PROVE MailOwned'
  <2>1. /\ UNCHANGED <<pc, job, mail>> /\ stage[t] = "read"
        /\ \A s \in Threads : s # t => stage'[s] = stage[s]
    BY <1>4 DEF PurgeMail, presenceVars, vars, DeliveryTypeOK
  <2> QED BY <2>1 DEF MailOwned
<1>5. ASSUME NEW t \in Threads, ReplyWithMail(t) PROVE MailOwned'
  <2>1. /\ stage'[t] = "none" /\ mail'[t] = NoMail
        /\ \A s \in Threads : s # t => stage'[s] = stage[s] /\ mail'[s] = mail[s]
    BY <1>5 DEF ReplyWithMail, DeliveryTypeOK
  <2>2. \A s \in Threads : s # t => pc'[s] = pc[s] /\ job'[s] = job[s]
    BY <1>5 DEF ReplyWithMail, Reply, Finish, DeliveryTypeOK, TypeOK
  <2> QED BY <2>1, <2>2 DEF MailOwned, NoMail
<1>6. ASSUME NEW n \in Nodes, ExitNode(n) \/ CrashNode(n) PROVE MailOwned'
  <2>1. \A t \in Threads : IF ThreadNode[t] = n THEN stage'[t] = "none" /\ mail'[t] = NoMail
                           ELSE stage'[t] = stage[t] /\ mail'[t] = mail[t]
    BY <1>6 DEF ExitNode, CrashNode, LoseNode
  <2>2. \A t \in Threads : ThreadNode[t] # n => pc'[t] = pc[t] /\ job'[t] = job[t]
    BY <1>6 DEF ExitNode, CrashNode, Exit, Crash, Gone
  <2> QED BY <2>1, <2>2 DEF MailOwned, NoMail
<1>7. CASE \/ \E m \in Msgs : Deliver(m) \/ \E n \in Nodes : SendMessage(m, n)
           \/ \E n \in Nodes : Relay(n) \/ \E u \in Users : TakeEffect(n, u)
  BY <1>1, <1>7 DEF Deliver, Lookup, SendLocally, QueryState, PublishMessage, StoreMessage,
     SendMessage, Relay, TakeRelay, SendRelay, StoreRelay, TakeEffect, presenceVars, vars, mailVars
<1>8. CASE UNCHANGED allVars
  BY <1>1, <1>8 DEF allVars, presenceVars, vars, deliveryVars, mailVars
<1> QED BY <1>2, <1>3, <1>4, <1>5, <1>6, <1>7, <1>8 DEF DeliveryNext, Step, Mail

-----------------------------------------------------------------------------
(* Types.                                                                    *)

RoutesTyped ==
    /\ place \in [Msgs -> {"unsent", "lookup", "send", "query", "publish", "store",
                           "misread", "gone", "failed"}]
    /\ origin \in [Msgs -> Nodes]
    /\ via \in [Msgs -> Conns \cup {NoConn}]

RelaysTyped ==
    /\ subs \in [Nodes -> SUBSET Users]
    /\ wire \in [Nodes -> Seq(Msgs)]
    /\ relay \in [Nodes -> [at : {"idle", "send", "store"}, msg : Msgs,
                            conn : Conns \cup {NoConn}]]

StoresTyped ==
    /\ inbox \in [Msgs -> Nat]
    /\ stage \in [Threads -> {"none", "read", "done"}]
    /\ mail \in [Threads -> [Msgs -> Nat]]
    /\ shown \in [Msgs -> 0..Many]

\* The parts of the type invariant.
LEMMA Parts ==
    DeliveryTypeOK <=> /\ TypeOK /\ RoutesTyped /\ RelaysTyped /\ StoresTyped
                       /\ calm \in [Msgs -> BOOLEAN]
BY DEF DeliveryTypeOK, RoutesTyped, RelaysTyped, StoresTyped

\* No relay and no mail are among the relays and the mail.
LEMMA NonesTyped ==
    /\ NoRelay \in [at : {"idle", "send", "store"}, msg : Msgs, conn : Conns \cup {NoConn}]
    /\ NoMail \in [Msgs -> Nat]
<1>1. (CHOOSE m \in Msgs : TRUE) \in Msgs
  BY ReceiverAssumption
<1> QED BY <1>1 DEF NoRelay, NoMail

\* At first nothing was sent.
LEMMA DeliveryTypeInit == DeliveryInit => DeliveryTypeOK
<1> SUFFICES ASSUME DeliveryInit PROVE DeliveryTypeOK
  OBVIOUS
<1>1. TypeOK
  BY TypeInit DEF DeliveryInit
<1>2. RoutesTyped
  <2>1. (CHOOSE n \in Nodes : TRUE) \in Nodes
    BY NodesAssumption
  <2> QED BY <2>1 DEF DeliveryInit, RoutesTyped
<1>3. RelaysTyped
  <2>1. <<>> \in Seq(Msgs)
    BY EmptySeq
  <2> QED BY <2>1, NonesTyped DEF DeliveryInit, RelaysTyped
<1>4. StoresTyped
  <2>1. 0 \in Nat /\ 0 \in 0..Many
    BY DEF Many
  <2> QED BY <2>1, NonesTyped DEF DeliveryInit, StoresTyped
<1> QED BY <1>1, <1>2, <1>3, <1>4, Parts DEF DeliveryInit

\* A message was shown once more.
LEMMA MoreTyped == \A k \in 0..Many : More(k) \in 0..Many
BY DEF More, Many

\* The deliveries and the relays keep the types.
LEMMA RouteTypes ==
    ASSUME DeliveryTypeOK,
           \/ \E m \in Msgs : Deliver(m) \/ \E n \in Nodes : SendMessage(m, n)
           \/ \E n \in Nodes : Relay(n) \/ \E u \in Users : TakeEffect(n, u)
    PROVE  RoutesTyped' /\ RelaysTyped' /\ StoresTyped'
<1>1. TypeOK /\ RoutesTyped /\ RelaysTyped /\ StoresTyped
  BY Parts
<1>2. \A n \in Nodes, u \in Users : userConnMap[n][u] \in Conns \cup {NoConn}
  BY <1>1 DEF TypeOK
<1>3. \A m \in Msgs : /\ To[m] \in Users /\ origin[m] \in Nodes
                      /\ userConnMap[origin[m]][To[m]] \in Conns \cup {NoConn}
  BY <1>1, <1>2, ReceiverAssumption DEF RoutesTyped
<1>4. \A m \in Msgs : Inserted(m) \in [Msgs -> Nat]
  BY <1>1 DEF Inserted, StoresTyped
<1>5. \A m \in Msgs, c \in Conns \cup {NoConn} : Show(m, c) => shown' \in [Msgs -> 0..Many]
  BY <1>1, MoreTyped DEF Show, StoresTyped
<1>6. ASSUME NEW m \in Msgs, NEW n \in Nodes, SendMessage(m, n)
      PROVE  RoutesTyped' /\ RelaysTyped' /\ StoresTyped'
  BY <1>1, <1>6 DEF SendMessage, RoutesTyped, RelaysTyped, StoresTyped, relayVars, mailVars
<1>7. ASSUME NEW m \in Msgs, Lookup(m) PROVE RoutesTyped' /\ RelaysTyped' /\ StoresTyped'
  <2>1. RelaysTyped' /\ StoresTyped'
    BY <1>1, <1>7 DEF Lookup, RelaysTyped, StoresTyped, relayVars, mailVars
  <2>2. RoutesTyped'
    BY <1>1, <1>3, <1>7 DEF Lookup, RoutesTyped
  <2> QED BY <2>1, <2>2
<1>8. ASSUME NEW m \in Msgs, SendLocally(m) PROVE RoutesTyped' /\ RelaysTyped' /\ StoresTyped'
  <2>1. shown' \in [Msgs -> 0..Many]
    BY <1>1, <1>5, <1>8 DEF SendLocally, RoutesTyped
  <2> QED BY <1>1, <1>8, <2>1 DEF SendLocally, RoutesTyped, RelaysTyped, StoresTyped, relayVars, mailVars
<1>9. ASSUME NEW m \in Msgs, QueryState(m) PROVE RoutesTyped' /\ RelaysTyped' /\ StoresTyped'
  BY <1>1, <1>9 DEF QueryState, RoutesTyped, RelaysTyped, StoresTyped, relayVars, mailVars
<1>10. ASSUME NEW m \in Msgs, PublishMessage(m) PROVE RoutesTyped' /\ RelaysTyped' /\ StoresTyped'
  <2>1. \A n \in Nodes : wire[n] \in Seq(Msgs) /\ Append(wire[n], m) \in Seq(Msgs)
    BY <1>1, Pushed DEF RelaysTyped
  <2>2. wire' \in [Nodes -> Seq(Msgs)]
    BY <1>10, <2>1 DEF PublishMessage
  <2> QED BY <1>1, <1>10, <2>2
          DEF PublishMessage, RoutesTyped, RelaysTyped, StoresTyped, relayVars, mailVars
<1>11. ASSUME NEW m \in Msgs, StoreMessage(m) PROVE RoutesTyped' /\ RelaysTyped' /\ StoresTyped'
  <2>1. inbox' \in [Msgs -> Nat]
    BY <1>1, <1>4, <1>11 DEF StoreMessage, StoresTyped
  <2> QED BY <1>1, <1>11, <2>1
          DEF StoreMessage, RoutesTyped, RelaysTyped, StoresTyped, relayVars, mailVars
<1>12. ASSUME NEW n \in Nodes, NEW u \in Users, TakeEffect(n, u)
       PROVE  RoutesTyped' /\ RelaysTyped' /\ StoresTyped'
  BY <1>1, <1>12 DEF TakeEffect, RoutesTyped, RelaysTyped, StoresTyped, routeVars, mailVars
<1>13. ASSUME NEW n \in Nodes, TakeRelay(n) PROVE RoutesTyped' /\ RelaysTyped' /\ StoresTyped'
  <2> DEFINE m == Head(wire[n])
  <2> DEFINE c == userConnMap[n][To[m]]
  <2>1. m \in Msgs /\ Tail(wire[n]) \in Seq(Msgs)
    <3>1. wire[n] \in Seq(Msgs) /\ wire[n] # <<>>
      BY <1>1, <1>13 DEF TakeRelay, RelaysTyped
    <3> QED BY <3>1, Popped
  <2>2. c \in Conns \cup {NoConn}
    BY <1>2, <2>1, ReceiverAssumption
  <2>3. /\ relay' = [relay EXCEPT ![n] = [at |-> IF c # NoConn THEN "send" ELSE "store",
                                          msg |-> m, conn |-> c]]
        /\ wire' = [wire EXCEPT ![n] = Tail(@)]
        /\ UNCHANGED <<routeVars, subs, inbox, mailVars, shown>>
    BY <1>13 DEF TakeRelay
  <2> HIDE DEF m, c
  <2> QED BY <1>1, <2>1, <2>2, <2>3 DEF RoutesTyped, RelaysTyped, StoresTyped, routeVars, mailVars
<1>14. ASSUME NEW n \in Nodes, SendRelay(n) PROVE RoutesTyped' /\ RelaysTyped' /\ StoresTyped'
  <2>1. relay[n].msg \in Msgs /\ relay[n].conn \in Conns \cup {NoConn}
    BY <1>1 DEF RelaysTyped
  <2>2. shown' \in [Msgs -> 0..Many]
    BY <1>5, <1>14, <2>1 DEF SendRelay
  <2> QED BY <1>1, <1>14, <2>2, NonesTyped
          DEF SendRelay, RoutesTyped, RelaysTyped, StoresTyped, routeVars, mailVars
<1>15. ASSUME NEW n \in Nodes, StoreRelay(n) PROVE RoutesTyped' /\ RelaysTyped' /\ StoresTyped'
  <2>1. relay[n].msg \in Msgs
    BY <1>1 DEF RelaysTyped
  <2>2. inbox' \in [Msgs -> Nat]
    BY <1>1, <1>4, <1>15, <2>1 DEF StoreRelay, StoresTyped
  <2> QED BY <1>1, <1>15, <2>2, NonesTyped
          DEF StoreRelay, RoutesTyped, RelaysTyped, StoresTyped, routeVars, mailVars
<1> QED BY <1>6, <1>7, <1>8, <1>9, <1>10, <1>11, <1>12, <1>13, <1>14, <1>15 DEF Deliver, Relay

\* So do the logins and the ends of nodes.
LEMMA MailTypes ==
    ASSUME DeliveryTypeOK,
           \/ \E t \in Threads : Mail(t)
           \/ \E n \in Nodes : ExitNode(n) \/ CrashNode(n)
    PROVE  RoutesTyped' /\ RelaysTyped' /\ StoresTyped'
<1>1. RoutesTyped /\ RelaysTyped /\ StoresTyped
  BY Parts
<1>2. ASSUME NEW t \in Threads, FetchMail(t) PROVE RoutesTyped' /\ RelaysTyped' /\ StoresTyped'
  <2>1. StoredFor(job[t].user) \in [Msgs -> Nat]
    BY <1>1 DEF StoredFor, StoresTyped
  <2>2. mail' \in [Threads -> [Msgs -> Nat]]
    BY <1>1, <1>2, <2>1 DEF FetchMail, StoresTyped
  <2>3. stage' \in [Threads -> {"none", "read", "done"}]
    BY <1>1, <1>2 DEF FetchMail, StoresTyped
  <2> QED BY <1>1, <1>2, <2>2, <2>3
          DEF FetchMail, RoutesTyped, RelaysTyped, StoresTyped, routeVars, relayVars
<1>3. ASSUME NEW t \in Threads, PurgeMail(t) PROVE RoutesTyped' /\ RelaysTyped' /\ StoresTyped'
  <2>1. RemovedFor(job[t].user) \in [Msgs -> Nat]
    BY <1>1 DEF RemovedFor, StoresTyped
  <2> QED BY <1>1, <1>3, <2>1
          DEF PurgeMail, RoutesTyped, RelaysTyped, StoresTyped, routeVars, relayVars
<1>4. ASSUME NEW t \in Threads, ReplyWithMail(t) PROVE RoutesTyped' /\ RelaysTyped' /\ StoresTyped'
  <2>1. \A m \in Msgs : /\ shown[m] \in 0..Many /\ More(shown[m]) \in 0..Many
                        /\ Many \in 0..Many
    BY <1>1, MoreTyped DEF StoresTyped, Many
  <2>2. shown' \in [Msgs -> 0..Many]
    BY <1>4, <2>1 DEF ReplyWithMail
  <2> QED BY <1>1, <1>4, <2>2, NonesTyped
          DEF ReplyWithMail, RoutesTyped, RelaysTyped, StoresTyped, routeVars, relayVars
<1>5. ASSUME NEW n \in Nodes, LoseNode(n) PROVE RoutesTyped' /\ RelaysTyped' /\ StoresTyped'
  <2>1. <<>> \in Seq(Msgs)
    BY EmptySeq
  <2> QED BY <1>1, <1>5, <2>1, NonesTyped DEF LoseNode, RoutesTyped, RelaysTyped, StoresTyped
<1> QED BY <1>2, <1>3, <1>4, <1>5 DEF Mail, ExitNode, CrashNode

\* Every step keeps the types.
LEMMA DeliveryTypeStep == DeliveryTypeOK /\ [DeliveryNext]_allVars => DeliveryTypeOK'
<1> SUFFICES ASSUME DeliveryTypeOK, [DeliveryNext]_allVars PROVE DeliveryTypeOK'
  OBVIOUS
<1>1. TypeOK'
  BY PresenceSteps, TypeStep DEF DeliveryTypeOK
<1>2. RoutesTyped' /\ RelaysTyped' /\ StoresTyped'
  <2>1. CASE UNCHANGED deliveryVars
    BY <2>1, Parts DEF RoutesTyped, RelaysTyped, StoresTyped, deliveryVars, routeVars, relayVars, mailVars
  <2> QED BY <2>1, RouteTypes, MailTypes DEF DeliveryNext, Step, Elsewhere, allVars
<1>3. calm' \in [Msgs -> BOOLEAN]
  <2>1. CASE UNCHANGED allVars
    BY <2>1 DEF allVars, DeliveryTypeOK
  <2>2. CASE DeliveryNext
    BY <2>2 DEF DeliveryNext
  <2> QED BY <2>1, <2>2
<1> QED BY <1>1, <1>2, <1>3 DEF DeliveryTypeOK, RoutesTyped, RelaysTyped, StoresTyped

-----------------------------------------------------------------------------
(* A message whose receiver rests.                                           *)

\* What is true of a user who rests.
LEMMA RestFacts ==
    ASSUME NEW u \in Users, Rests(u)
    PROVE  /\ \A t \in Threads : pc[t] # "idle" => job[t].user # u
           /\ state[u] = "online" <=> \E n \in Nodes : userConnMap[n][u] # NoConn
           /\ \A n \in Nodes : userConnMap[n][u] # NoConn => Reaches(userConnMap[n][u], u)
           /\ \A n, k \in Nodes : userConnMap[n][u] # NoConn /\ userConnMap[k][u] # NoConn => n = k
           /\ \A n \in Nodes : userConnMap[n][u] # NoConn <=> u \in subs[n]
<1>1. \A t \in Threads : pc[t] # "idle" => job[t].user # u
  BY DEF Rests, Busy
<1>2. /\ state[u] = "online" <=> \E n \in Nodes : userConnMap[n][u] # NoConn
      /\ \A n, k \in Nodes : userConnMap[n][u] # NoConn /\ userConnMap[k][u] # NoConn => n = k
  BY DEF Rests
<1>3. \A n \in Nodes : userConnMap[n][u] # NoConn => Reaches(userConnMap[n][u], u)
  BY DEF Rests, Reaches
<1>4. {n \in Nodes : userConnMap[n][u] # NoConn} = {n \in Nodes : u \in subs[n]}
  BY DEF Rests
<1>5. ASSUME NEW n \in Nodes PROVE userConnMap[n][u] # NoConn <=> u \in subs[n]
  BY <1>4
<1> QED BY <1>1, <1>2, <1>3, <1>5

\* A calm message was calm before, and its receiver is where it was.
LEMMA CalmFrame ==
    ASSUME DeliveryTypeOK, DeliveryNext, NEW m \in Msgs, MsgInv(m), calm'[m], place[m] # "unsent"
    PROVE  /\ calm[m] /\ Rests(To[m]) /\ Rests(To[m])' /\ To[m] \in Users
           /\ state'[To[m]] = state[To[m]]
           /\ \A n \in Nodes : userConnMap'[n][To[m]] = userConnMap[n][To[m]]
<1>1. (calm[m] \/ place[m] = "unsent") /\ Rests(To[m])'
  BY DEF DeliveryNext
<1>2. To[m] \in Users /\ Rests(To[m])
  BY <1>1, ReceiverAssumption DEF MsgInv
<1>3. [Next]_vars /\ TypeOK
  BY PresenceSteps DEF DeliveryTypeOK
<1> QED BY <1>1, <1>2, <1>3, Frame

\* What is said of a message depends on its own state, and its receiver's.
LEMMA MsgKept ==
    ASSUME DeliveryTypeOK, DeliveryNext, NEW m \in Msgs, MsgInv(m),
           place'[m] = place[m], origin'[m] = origin[m],
           place[m] = "send" => via'[m] = via[m],
           shown'[m] = shown[m], calm'[m] => inbox'[m] = inbox[m],
           place[m] = "unsent" => inbox'[m] = inbox[m] /\ \A t \in Threads : mail'[t][m] = 0,
           \A n \in Nodes : Clear(m, n) => Clear(m, n)',
           \A n \in Nodes : /\ userConnMap[n][To[m]] # NoConn
                            /\ userConnMap'[n][To[m]] = userConnMap[n][To[m]]
                            /\ Single(m, n)
                            => Single(m, n)'
    PROVE  MsgInv(m)'
<1>1. ASSUME place[m] = "unsent" PROVE MsgInv(m)'
  <2>1. Fresh(m)' /\ Nowhere(m)' /\ \A t \in Threads : mail'[t][m] = 0
    BY <1>1 DEF MsgInv, Fresh, Nowhere
  <2> QED BY <1>1, <2>1 DEF MsgInv
<1>2. ASSUME place[m] # "unsent", ~calm'[m] PROVE MsgInv(m)'
  BY <1>2 DEF MsgInv
<1>3. ASSUME place[m] # "unsent", calm'[m] PROVE MsgInv(m)'
  <2>1. /\ calm[m] /\ Rests(To[m]) /\ Rests(To[m])' /\ To[m] \in Users
        /\ state'[To[m]] = state[To[m]]
        /\ \A n \in Nodes : userConnMap'[n][To[m]] = userConnMap[n][To[m]]
    BY <1>3, CalmFrame
  <2>2. inbox'[m] = inbox[m] /\ origin[m] \in Nodes
    BY <1>3 DEF DeliveryTypeOK
  <2>3. /\ Nowhere(m) => Nowhere(m)'
        /\ Fresh(m) => Fresh(m)'
    BY <2>2 DEF Nowhere, Fresh
  <2>4. /\ Arrived(m) => Arrived(m)'
        /\ Stored(m) => Stored(m)'
    BY <2>1, <2>2, <2>3 DEF Arrived, Stored
  <2>5. Coming(m) => Coming(m)'
    <3> SUFFICES ASSUME Coming(m) PROVE Coming(m)'
      OBVIOUS
    <3>1. PICK n \in Nodes : /\ userConnMap[n][To[m]] # NoConn /\ Single(m, n)
                             /\ \A k \in Nodes : k # n => Clear(m, k)
      BY DEF Coming
    <3>2. /\ userConnMap'[n][To[m]] # NoConn /\ Single(m, n)'
          /\ \A k \in Nodes : k # n => Clear(m, k)'
      BY <2>1, <3>1
    <3>3. Fresh(m)'
      BY <2>3 DEF Coming
    <3> QED BY <3>2, <3>3 DEF Coming
  <2>6. Delivering(m)' <=> Delivering(m)
    BY DEF Delivering
  <2>7. /\ Delivering(m)' => Fresh(m)' /\ Nowhere(m)'
        /\ place'[m] = "gone" => Arrived(m)' \/ Stored(m)' \/ Coming(m)'
    BY <1>3, <2>1, <2>3, <2>4, <2>5, <2>6 DEF MsgInv
  <2>8. /\ place'[m] = "send" => via'[m] # NoConn /\ via'[m] = userConnMap'[origin'[m]][To[m]]
        /\ place'[m] = "publish" => state'[To[m]] = "online"
        /\ place'[m] = "store" => state'[To[m]] = "offline"
    BY <1>3, <2>1, <2>2 DEF MsgInv
  <2> QED BY <1>3, <2>1, <2>7, <2>8 DEF MsgInv
<1> QED BY <1>1, <1>2, <1>3

\* Another message put on a node's connection changes nothing for this one.
LEMMA PushedBehind ==
    ASSUME DeliveryTypeOK, NEW m \in Msgs, NEW k \in Msgs, k # m, NEW n \in Nodes,
           relay'[n] = relay[n], wire'[n] \in {wire[n], Append(wire[n], k)}
    PROVE  /\ Clear(m, n) => Clear(m, n)'
           /\ userConnMap'[n][To[m]] = userConnMap[n][To[m]] /\ Single(m, n) => Single(m, n)'
<1>1. wire[n] \in Seq(Msgs)
  BY DEF DeliveryTypeOK
<1>2. /\ ~On(wire[n], m) => ~On(Append(wire[n], k), m)
      /\ Once(wire[n], m) => Once(Append(wire[n], k), m)
  BY <1>1, OnPushed
<1>3. /\ On(wire[n], m)' <=> On(wire'[n], m)
      /\ Once(wire[n], m)' <=> Once(wire'[n], m)
      /\ Holds(relay[n], m)' <=> Holds(relay[n], m)
  BY DEF On, Once, Holds
<1>4. CASE wire'[n] = wire[n]
  BY <1>3, <1>4 DEF Clear, Single
<1>5. CASE wire'[n] = Append(wire[n], k)
  BY <1>2, <1>3, <1>5 DEF Clear, Single
<1> QED BY <1>4, <1>5

\* The handler of one message does nothing to another.
LEMMA OtherStep ==
    ASSUME DeliveryTypeOK, DeliveryNext, NEW m \in Msgs, MsgInv(m),
           NEW k \in Msgs, k # m, Deliver(k) \/ \E n \in Nodes : SendMessage(k, n)
    PROVE  MsgInv(m)'
<1>1. RoutesTyped /\ RelaysTyped /\ StoresTyped
  BY Parts
<1>2. place'[m] = place[m] /\ via'[m] = via[m] /\ origin'[m] = origin[m]
  BY <1>1 DEF Deliver, Lookup, SendLocally, QueryState, PublishMessage, StoreMessage, SendMessage,
     RoutesTyped
<1>3. shown'[m] = shown[m] /\ inbox'[m] = inbox[m] /\ mail' = mail
  BY <1>1 DEF Deliver, Lookup, SendLocally, QueryState, PublishMessage, StoreMessage, SendMessage,
     Show, Inserted, StoresTyped, mailVars
<1>4. /\ relay' = relay
      /\ \A n \in Nodes : wire'[n] \in {wire[n], Append(wire[n], k)}
  BY DEF Deliver, Lookup, SendLocally, QueryState, PublishMessage, StoreMessage, SendMessage,
     relayVars
<1>5. ASSUME NEW n \in Nodes
      PROVE  /\ Clear(m, n) => Clear(m, n)'
             /\ userConnMap'[n][To[m]] = userConnMap[n][To[m]] /\ Single(m, n) => Single(m, n)'
  BY <1>4, PushedBehind
<1>6. place[m] = "unsent" => \A t \in Threads : mail'[t][m] = 0
  BY <1>3 DEF MsgInv
<1> QED BY <1>2, <1>3, <1>5, <1>6, MsgKept

\* A message is where it was when relays and connections are what they were.
LEMMA SamePlaces ==
    ASSUME NEW m \in Msgs, UNCHANGED <<wire, relay>>, Nowhere(m)
    PROVE  Nowhere(m)'
BY DEF Nowhere, Clear, Holds, On

\* A message that is sent has not come yet.
LEMMA SendStep ==
    ASSUME DeliveryTypeOK, DeliveryNext, NEW m \in Msgs, MsgInv(m),
           NEW n \in Nodes, SendMessage(m, n)
    PROVE  MsgInv(m)'
<1>1. place[m] = "unsent" /\ place'[m] = "lookup"
  BY DEF SendMessage, DeliveryTypeOK
<1>2. Fresh(m)' /\ Nowhere(m)'
  BY <1>1, SamePlaces DEF SendMessage, MsgInv, Fresh, relayVars
<1>3. calm'[m] => Rests(To[m])'
  BY DEF DeliveryNext
<1> QED BY <1>1, <1>2, <1>3 DEF MsgInv

\* A message that is delivered to a receiver who rests comes, or is stored, or
\* is on its way to the one node that has the receiver.
LEMMA DeliverStep ==
    ASSUME DeliveryTypeOK, DeliveryNext, NEW m \in Msgs, MsgInv(m), Deliver(m)
    PROVE  MsgInv(m)'
<1>1. RoutesTyped /\ RelaysTyped /\ StoresTyped
  BY Parts
<1>2. place[m] # "unsent" /\ place'[m] # "unsent" /\ Delivering(m)
  BY <1>1 DEF Deliver, Lookup, SendLocally, QueryState, PublishMessage, StoreMessage, Delivering,
     RoutesTyped
<1> SUFFICES ASSUME calm'[m] PROVE MsgInv(m)'
  BY <1>2 DEF MsgInv
<1> DEFINE u == To[m]
<1>3. /\ calm[m] /\ Rests(u) /\ Rests(u)' /\ u \in Users
      /\ state'[u] = state[u]
      /\ \A n \in Nodes : userConnMap'[n][u] = userConnMap[n][u]
  BY <1>2, CalmFrame
<1>4. /\ Fresh(m) /\ Nowhere(m)
      /\ place[m] = "send" => via[m] # NoConn /\ via[m] = userConnMap[origin[m]][u]
      /\ place[m] = "publish" => state[u] = "online"
      /\ place[m] = "store" => state[u] = "offline"
  BY <1>2, <1>3 DEF MsgInv
<1>5. /\ origin[m] \in Nodes
      /\ state[u] = "online" <=> \E n \in Nodes : userConnMap[n][u] # NoConn
      /\ \A n \in Nodes : userConnMap[n][u] # NoConn => Reaches(userConnMap[n][u], u)
      /\ \A n, k \in Nodes : userConnMap[n][u] # NoConn /\ userConnMap[k][u] # NoConn => n = k
      /\ \A n \in Nodes : userConnMap[n][u] # NoConn <=> u \in subs[n]
      /\ state[u] \in {"online", "offline"}
  BY <1>1, <1>3, RestFacts DEF RoutesTyped, DeliveryTypeOK, TypeOK
<1>6. CASE Lookup(m)
  <2>1. /\ via'[m] = userConnMap[origin[m]][u] /\ origin'[m] = origin[m]
        /\ place'[m] = IF via'[m] # NoConn THEN "send" ELSE "query"
    BY <1>1, <1>6 DEF Lookup, RoutesTyped
  <2>2. Fresh(m)' /\ Nowhere(m)'
    BY <1>4, <1>6, SamePlaces DEF Lookup, Fresh, relayVars
  <2>3. via'[m] = userConnMap'[origin'[m]][u]
    BY <1>3, <1>5, <2>1
  <2> QED BY <1>3, <2>1, <2>2, <2>3 DEF MsgInv
<1>7. CASE SendLocally(m)
  <2>1. place[m] = "send" /\ place'[m] = "gone" /\ inbox' = inbox
    BY <1>1, <1>7 DEF SendLocally, RoutesTyped
  <2>2. Reaches(via[m], u) /\ state[u] = "online"
    BY <1>4, <1>5, <2>1
  <2>3. shown'[m] = 1
    BY <1>1, <1>4, <1>7, <2>2 DEF SendLocally, Show, More, Many, Fresh, StoresTyped
  <2>4. Nowhere(m)'
    BY <1>4, <1>7, SamePlaces DEF SendLocally, relayVars
  <2>5. Arrived(m)'
    BY <1>3, <1>4, <2>1, <2>2, <2>3, <2>4 DEF Arrived, Fresh
  <2> QED BY <1>3, <2>1, <2>5 DEF MsgInv, Delivering
<1>8. CASE QueryState(m)
  <2>1. /\ place'[m] \in {"publish", "store", "misread"}
        /\ place'[m] = "publish" => state[u] = "online"
        /\ place'[m] = "store" => state[u] # "online"
    BY <1>1, <1>8 DEF QueryState, RoutesTyped
  <2>2. Fresh(m)' /\ Nowhere(m)'
    BY <1>4, <1>8, SamePlaces DEF QueryState, Fresh, relayVars
  <2> QED BY <1>3, <1>5, <2>1, <2>2 DEF MsgInv
<1>9. CASE PublishMessage(m)
  <2>1. /\ place[m] = "publish" /\ place'[m] = "gone"
        /\ relay' = relay /\ inbox' = inbox /\ shown' = shown
        /\ \A n \in Nodes : wire'[n] = IF u \in subs[n] THEN Append(wire[n], m) ELSE wire[n]
    BY <1>1, <1>9 DEF PublishMessage, RoutesTyped, mailVars
  <2>2. PICK n \in Nodes : userConnMap[n][u] # NoConn
    BY <1>4, <1>5, <2>1
  <2>3. u \in subs[n] /\ \A k \in Nodes : k # n => u \notin subs[k]
    BY <1>5, <2>2
  <2>4. \A k \in Nodes : k # n => Clear(m, k)'
    BY <1>4, <2>1, <2>3 DEF Nowhere, Clear, Holds, On
  <2>5. Single(m, n)'
    <3>1. wire[n] \in Seq(Msgs) /\ ~On(wire[n], m) /\ ~Holds(relay[n], m)
      BY <1>1, <1>4 DEF RelaysTyped, Nowhere, Clear
    <3>2. Once(Append(wire[n], m), m)
      BY <3>1, OnPushed
    <3>3. wire'[n] = Append(wire[n], m)
      BY <2>1, <2>3
    <3>4. Once(wire[n], m)' /\ ~Holds(relay[n], m)'
      BY <2>1, <3>1, <3>2, <3>3 DEF Once, Holds
    <3> QED BY <3>4 DEF Single
  <2>6. Coming(m)'
    BY <1>3, <1>4, <2>1, <2>2, <2>4, <2>5 DEF Coming, Fresh
  <2> QED BY <1>3, <2>1, <2>6 DEF MsgInv, Delivering
<1>10. CASE StoreMessage(m)
  <2>1. /\ place'[m] \in {"gone", "failed"} /\ shown' = shown
        /\ place'[m] = "gone" => place[m] = "store" /\ inbox' = Inserted(m)
    BY <1>1, <1>10 DEF StoreMessage, RoutesTyped, mailVars
  <2>2. Nowhere(m)'
    BY <1>4, <1>10, SamePlaces DEF StoreMessage, relayVars
  <2>3. ASSUME place'[m] = "gone" PROVE Stored(m)'
    <3>1. inbox'[m] = 1
      BY <1>1, <1>4, <2>1, <2>3 DEF Inserted, Fresh, StoresTyped
    <3> QED BY <1>3, <1>4, <2>1, <2>2, <2>3, <3>1 DEF Stored, Fresh
  <2> QED BY <1>3, <2>1, <2>3 DEF MsgInv, Delivering
<1> QED BY <1>6, <1>7, <1>8, <1>9, <1>10 DEF Deliver

\* A message that is on a node, and whose receiver rests, is on its way there.
LEMMA Located ==
    ASSUME NEW m \in Msgs, MsgInv(m), NEW n \in Nodes, ~Clear(m, n)
    PROVE  /\ place[m] # "unsent"
           /\ calm[m] /\ place[m] # "failed" =>
                 /\ place[m] = "gone" /\ Fresh(m)
                 /\ userConnMap[n][To[m]] # NoConn /\ Single(m, n)
                 /\ \A k \in Nodes : k # n => Clear(m, k)
<1>1. ~Nowhere(m)
  BY DEF Nowhere
<1>2. ~Arrived(m) /\ ~Stored(m)
  BY <1>1 DEF Arrived, Stored
<1>3. place[m] # "unsent"
  BY <1>1 DEF MsgInv
<1>4. ASSUME calm[m], place[m] # "failed" PROVE place[m] = "gone" /\ Coming(m)
  BY <1>1, <1>2, <1>3, <1>4 DEF MsgInv, Delivering
<1> QED BY <1>3, <1>4 DEF Coming

\* Redis hands a message to the listener, which looks for the receiver.
LEMMA TakeRelayStep ==
    ASSUME DeliveryTypeOK, DeliveryNext, NEW m \in Msgs, MsgInv(m),
           NEW n \in Nodes, TakeRelay(n)
    PROVE  MsgInv(m)'
<1> DEFINE h == Head(wire[n])
<1> DEFINE c == userConnMap[n][To[h]]
<1>1. RoutesTyped /\ RelaysTyped /\ StoresTyped
  BY Parts
<1>2. wire[n] \in Seq(Msgs) /\ wire[n] # <<>> /\ relay[n].at = "idle"
  BY <1>1 DEF TakeRelay, RelaysTyped
<1>3. /\ ~On(wire[n], m) => h # m /\ ~On(Tail(wire[n]), m)
      /\ Once(wire[n], m) /\ h # m => Once(Tail(wire[n]), m)
      /\ Once(wire[n], m) /\ h = m => ~On(Tail(wire[n]), m)
  BY <1>2, OnPopped
<1>4. /\ relay' = [relay EXCEPT ![n] = [at |-> IF c # NoConn THEN "send" ELSE "store",
                                        msg |-> h, conn |-> c]]
      /\ wire' = [wire EXCEPT ![n] = Tail(@)]
      /\ UNCHANGED <<presenceVars, routeVars, subs, inbox, mailVars, shown>>
  BY DEF TakeRelay
<1> HIDE DEF h, c
<1>5. /\ relay'[n].at = (IF c # NoConn THEN "send" ELSE "store")
      /\ relay'[n].msg = h /\ relay'[n].conn = c /\ wire'[n] = Tail(wire[n])
      /\ \A k \in Nodes : k # n => relay'[k] = relay[k] /\ wire'[k] = wire[k]
  BY <1>1, <1>4 DEF RelaysTyped
<1>6. ~Holds(relay[n], m)
  BY <1>2 DEF Holds
<1>7. /\ Holds(relay[n], m)' <=> h = m
      /\ ~On(wire[n], m)' <=> ~On(Tail(wire[n]), m)
      /\ Once(wire[n], m)' <=> Once(Tail(wire[n]), m)
  BY <1>5 DEF Holds, On, Once
<1>8. \A k \in Nodes : k # n => /\ Clear(m, k) => Clear(m, k)'
                                /\ /\ userConnMap'[k][To[m]] = userConnMap[k][To[m]]
                                   /\ Single(m, k)
                                   => Single(m, k)'
  BY <1>5 DEF Clear, Single, Holds, On, Once
<1>9. /\ place' = place /\ via' = via /\ origin' = origin /\ shown' = shown /\ inbox' = inbox
      /\ mail' = mail /\ userConnMap' = userConnMap
  BY <1>4 DEF routeVars, mailVars, presenceVars, vars
<1>10. CASE h # m
  <2>1. /\ Clear(m, n) => Clear(m, n)'
        /\ Single(m, n) => Single(m, n)'
    BY <1>3, <1>6, <1>7, <1>10 DEF Clear, Single
  <2>2. \A k \in Nodes : /\ Clear(m, k) => Clear(m, k)'
                         /\ /\ userConnMap'[k][To[m]] = userConnMap[k][To[m]]
                            /\ Single(m, k)
                            => Single(m, k)'
    BY <1>8, <2>1
  <2>3. place[m] = "unsent" => \A t \in Threads : mail'[t][m] = 0
    BY <1>9 DEF MsgInv
  <2> QED BY <1>9, <2>2, <2>3, MsgKept
<1>11. CASE h = m
  <2>1. ~Clear(m, n)
    BY <1>3, <1>11 DEF Clear
  <2>2. place[m] # "unsent" /\ place'[m] # "unsent"
    BY <1>9, <2>1, Located
  <2> SUFFICES ASSUME calm'[m], place[m] # "failed" PROVE MsgInv(m)'
    <3>1. calm'[m] => Rests(To[m])'
      BY DEF DeliveryNext
    <3> QED BY <1>9, <2>2, <3>1 DEF MsgInv, Delivering
  <2>3. /\ calm[m] /\ Rests(To[m])'
    BY <2>2, CalmFrame
  <2>4. /\ place'[m] = "gone" /\ Fresh(m)
        /\ userConnMap[n][To[m]] # NoConn /\ Single(m, n)
        /\ \A k \in Nodes : k # n => Clear(m, k)
    BY <1>9, <2>1, <2>3, Located
  <2>5. Single(m, n)'
    <3>1. relay'[n].at = "send" /\ relay'[n].conn = userConnMap'[n][To[m]]
      BY <1>5, <1>9, <1>11, <2>4 DEF c
    <3>2. Once(wire[n], m)
      BY <1>6, <2>4 DEF Single
    <3> QED BY <1>3, <1>7, <1>11, <3>1, <3>2 DEF Single
  <2>6. Coming(m)'
    <3>1. \A k \in Nodes : k # n => Clear(m, k)'
      BY <1>8, <2>4
    <3>2. Fresh(m)' /\ userConnMap'[n][To[m]] # NoConn
      BY <1>9, <2>4 DEF Fresh
    <3> QED BY <2>5, <3>1, <3>2 DEF Coming
  <2> QED BY <2>3, <2>4, <2>6 DEF MsgInv, Delivering
<1> QED BY <1>10, <1>11

\* The listener sends a message to the connection it found, or stores it.
LEMMA RelayStep ==
    ASSUME DeliveryTypeOK, DeliveryNext, NEW m \in Msgs, MsgInv(m),
           NEW n \in Nodes, SendRelay(n) \/ StoreRelay(n)
    PROVE  MsgInv(m)'
<1> DEFINE k == relay[n].msg
<1>1. RoutesTyped /\ RelaysTyped /\ StoresTyped
  BY Parts
<1>2. /\ place' = place /\ via' = via /\ origin' = origin /\ mail' = mail /\ wire' = wire
      /\ userConnMap' = userConnMap /\ state' = state
      /\ relay' = [relay EXCEPT ![n] = NoRelay] /\ relay[n].at # "idle" /\ k \in Msgs
  BY <1>1 DEF SendRelay, StoreRelay, routeVars, mailVars, presenceVars, vars, RelaysTyped
<1>3. /\ relay'[n].at = "idle"
      /\ \A i \in Nodes : i # n => relay'[i] = relay[i]
  BY <1>1, <1>2 DEF RelaysTyped, NoRelay
<1>4. \A i \in Nodes : /\ Clear(m, i) => Clear(m, i)'
                       /\ ~Holds(relay[i], m) /\ Single(m, i) => Single(m, i)'
                       /\ Holds(relay[i], m) /\ i # n /\ Single(m, i) => Single(m, i)'
  BY <1>2, <1>3 DEF Clear, Single, Holds, On, Once
<1>5. CASE k # m
  <2>1. ~Holds(relay[n], m)
    BY <1>5 DEF Holds
  <2>2. shown'[m] = shown[m] /\ inbox'[m] = inbox[m]
    BY <1>1, <1>2, <1>5 DEF SendRelay, StoreRelay, Show, Inserted, StoresTyped
  <2>3. place[m] = "unsent" => \A t \in Threads : mail'[t][m] = 0
    BY <1>2 DEF MsgInv
  <2>4. \A i \in Nodes : /\ Clear(m, i) => Clear(m, i)'
                         /\ /\ userConnMap'[i][To[m]] = userConnMap[i][To[m]]
                            /\ Single(m, i)
                            => Single(m, i)'
    BY <1>4, <2>1
  <2> QED BY <1>2, <2>2, <2>3, <2>4, MsgKept
<1>6. CASE k = m
  <2>1. Holds(relay[n], m) /\ ~Clear(m, n)
    BY <1>2, <1>6 DEF Clear, Holds
  <2>2. place[m] # "unsent" /\ place'[m] # "unsent"
    BY <1>2, <2>1, Located
  <2> SUFFICES ASSUME calm'[m], place[m] # "failed" PROVE MsgInv(m)'
    <3>1. calm'[m] => Rests(To[m])'
      BY DEF DeliveryNext
    <3> QED BY <1>2, <2>2, <3>1 DEF MsgInv, Delivering
  <2>3. /\ calm[m] /\ Rests(To[m]) /\ Rests(To[m])' /\ To[m] \in Users
    BY <2>2, CalmFrame
  <2>4. /\ place[m] = "gone" /\ Fresh(m)
        /\ userConnMap[n][To[m]] # NoConn /\ Single(m, n)
        /\ \A i \in Nodes : i # n => Clear(m, i)
    BY <2>1, <2>3, Located
  <2>5. /\ relay[n].at = "send" /\ relay[n].conn = userConnMap[n][To[m]]
        /\ ~On(wire[n], m)
    BY <2>1, <2>4 DEF Single
  <2>6. Reaches(relay[n].conn, To[m]) /\ state[To[m]] = "online"
    BY <2>3, <2>4, <2>5, RestFacts
  <2>7. shown'[m] = 1 /\ inbox' = inbox
    BY <1>1, <1>6, <2>4, <2>5, <2>6 DEF SendRelay, StoreRelay, Show, More, Many, Fresh, StoresTyped
  <2>8. Nowhere(m)'
    <3>1. Clear(m, n)'
      BY <1>2, <1>3, <2>5 DEF Clear, Holds, On
    <3> QED BY <1>4, <2>4, <3>1 DEF Nowhere
  <2>9. Arrived(m)'
    BY <1>2, <2>4, <2>6, <2>7, <2>8 DEF Arrived, Fresh
  <2> QED BY <1>2, <2>3, <2>4, <2>9 DEF MsgInv, Delivering
<1> QED BY <1>5, <1>6

\* A step that touches neither relays nor connections.
LEMMA SameQueues ==
    ASSUME NEW m \in Msgs, UNCHANGED <<wire, relay>>, NEW n \in Nodes
    PROVE  /\ Clear(m, n) => Clear(m, n)'
           /\ userConnMap'[n][To[m]] = userConnMap[n][To[m]] /\ Single(m, n) => Single(m, n)'
BY DEF Clear, Single, Holds, On, Once

\* Presence goes on, or Redis catches up.
LEMMA IdleStep ==
    ASSUME DeliveryTypeOK, DeliveryNext, NEW m \in Msgs, MsgInv(m),
           Elsewhere \/ \E n \in Nodes, u \in Users : TakeEffect(n, u)
    PROVE  MsgInv(m)'
<1>1. /\ place' = place /\ via' = via /\ origin' = origin /\ shown' = shown /\ inbox' = inbox
      /\ mail' = mail /\ wire' = wire /\ relay' = relay
  BY DEF Elsewhere, TakeEffect, deliveryVars, routeVars, relayVars, mailVars
<1>2. place[m] = "unsent" => \A t \in Threads : mail'[t][m] = 0
  BY <1>1 DEF MsgInv
<1> QED BY <1>1, <1>2, SameQueues, MsgKept

\* Logins read, delete and show mail of users who do not rest.
LEMMA MailInvStep ==
    ASSUME DeliveryTypeOK, MailOwned, DeliveryNext, NEW m \in Msgs, MsgInv(m),
           NEW t \in Threads, Mail(t)
    PROVE  MsgInv(m)'
<1>1. RoutesTyped /\ RelaysTyped /\ StoresTyped
  BY Parts
<1>2. /\ place' = place /\ via' = via /\ origin' = origin /\ wire' = wire /\ relay' = relay
  BY DEF Mail, FetchMail, PurgeMail, ReplyWithMail, routeVars, relayVars
<1>3. pc[t] = "reply"
  BY DEF Mail, FetchMail, PurgeMail, ReplyWithMail, MailOwned
<1>4. CASE place[m] # "unsent" /\ ~calm'[m]
  BY <1>2, <1>4 DEF MsgInv
<1>5. CASE place[m] # "unsent" /\ calm'[m]
  <2>1. Rests(To[m]) /\ To[m] \in Users
    BY <1>5, CalmFrame
  <2>2. job[t].user # To[m]
    BY <1>3, <2>1, RestFacts
  <2>3. mail[t][m] = 0
    BY <2>2 DEF MailOwned
  <2>4. shown'[m] = shown[m] /\ inbox'[m] = inbox[m]
    BY <1>1, <2>2, <2>3 DEF Mail, FetchMail, PurgeMail, ReplyWithMail, RemovedFor, StoresTyped
  <2> QED BY <1>2, <1>5, <2>4, SameQueues, MsgKept
<1>6. CASE place[m] = "unsent"
  <2>1. inbox[m] = 0 /\ shown[m] = 0 /\ \A s \in Threads : mail[s][m] = 0
    BY <1>6 DEF MsgInv, Fresh
  <2>2. shown'[m] = shown[m] /\ inbox'[m] = inbox[m]
    BY <1>1, <2>1 DEF Mail, FetchMail, PurgeMail, ReplyWithMail, RemovedFor, StoresTyped
  <2>3. \A s \in Threads : mail'[s][m] = 0
    BY <1>1, <2>1 DEF Mail, FetchMail, PurgeMail, ReplyWithMail, StoredFor, NoMail, StoresTyped
  <2> QED BY <1>2, <1>6, <2>2, <2>3, SameQueues, MsgKept
<1> QED BY <1>4, <1>5, <1>6

\* A node that ends takes what it had with it; a receiver it had does not rest.
LEMMA LoseStep ==
    ASSUME DeliveryTypeOK, DeliveryNext, NEW m \in Msgs, MsgInv(m),
           NEW n \in Nodes, ExitNode(n) \/ CrashNode(n)
    PROVE  MsgInv(m)'
<1>1. RoutesTyped /\ RelaysTyped /\ StoresTyped /\ TypeOK
  BY Parts
<1>2. LoseNode(n) /\ Gone(n)
  BY DEF ExitNode, CrashNode, Exit, Crash
<1>3. CASE Delivering(m) /\ origin[m] = n
  <2>1. place'[m] = "failed"
    BY <1>2, <1>3 DEF LoseNode
  <2>2. calm'[m] => Rests(To[m])'
    BY DEF DeliveryNext
  <2> QED BY <2>1, <2>2 DEF MsgInv, Delivering
<1>4. CASE ~(Delivering(m) /\ origin[m] = n)
  <2>1. /\ place'[m] = place[m] /\ origin'[m] = origin[m] /\ shown'[m] = shown[m]
        /\ inbox'[m] = inbox[m]
        /\ place[m] = "send" => via'[m] = via[m]
    BY <1>2, <1>4 DEF LoseNode, Delivering
  <2>2. place[m] = "unsent" => \A t \in Threads : mail'[t][m] = 0
    BY <1>2 DEF LoseNode, NoMail, MsgInv
  <2>3. /\ wire'[n] = <<>> /\ relay'[n].at = "idle"
        /\ \A k \in Nodes : k # n => wire'[k] = wire[k] /\ relay'[k] = relay[k]
    BY <1>1, <1>2 DEF LoseNode, NoRelay, RelaysTyped
  <2>4. userConnMap'[n][To[m]] = NoConn
    BY <1>1, <1>2, ReceiverAssumption DEF Gone, TypeOK
  <2>5. Clear(m, n)'
    BY <2>3 DEF Clear, Holds, On
  <2>6. ASSUME NEW k \in Nodes, k # n
        PROVE  /\ Clear(m, k) => Clear(m, k)'
               /\ userConnMap'[k][To[m]] = userConnMap[k][To[m]] /\ Single(m, k) => Single(m, k)'
    BY <2>3, <2>6 DEF Clear, Single, Holds, On, Once
  <2>7. \A k \in Nodes : /\ Clear(m, k) => Clear(m, k)'
                         /\ /\ userConnMap[k][To[m]] # NoConn
                            /\ userConnMap'[k][To[m]] = userConnMap[k][To[m]]
                            /\ Single(m, k)
                            => Single(m, k)'
    BY <2>4, <2>5, <2>6
  <2> QED BY <2>1, <2>2, <2>7, MsgKept
<1> QED BY <1>3, <1>4

-----------------------------------------------------------------------------
(* The theorems.                                                             *)

\* At first no message was sent.
LEMMA IInvInit == DeliveryInit => IInv
<1> SUFFICES ASSUME DeliveryInit PROVE IInv
  OBVIOUS
<1>1. DeliveryTypeOK
  BY DeliveryTypeInit
<1>2. MailOwned
  BY DEF DeliveryInit, MailOwned, NoMail
<1>3. ASSUME NEW m \in Msgs PROVE MsgInv(m)
  <2>1. \A n \in Nodes : Clear(m, n)
    <3>1. \A n \in Nodes : wire[n] = <<>> /\ relay[n].at = "idle"
      BY DEF DeliveryInit, NoRelay
    <3>2. ~On(<<>>, m)
      BY DEF On
    <3> QED BY <3>1, <3>2 DEF Clear, Holds
  <2>2. Fresh(m) /\ \A t \in Threads : mail[t][m] = 0
    BY DEF DeliveryInit, Fresh, NoMail
  <2>3. place[m] = "unsent"
    BY DEF DeliveryInit
  <2> QED BY <2>1, <2>2, <2>3 DEF MsgInv, Nowhere
<1> QED BY <1>1, <1>2, <1>3 DEF IInv

\* Every step keeps the inductive invariant.
LEMMA IInvStep == IInv /\ [DeliveryNext]_allVars => IInv'
<1> SUFFICES ASSUME IInv, [DeliveryNext]_allVars PROVE IInv'
  OBVIOUS
<1>1. DeliveryTypeOK /\ MailOwned /\ \A m \in Msgs : MsgInv(m)
  BY DEF IInv
<1>2. DeliveryTypeOK' /\ MailOwned'
  BY <1>1, DeliveryTypeStep, MailStep
<1>3. CASE UNCHANGED allVars
  <2>1. ASSUME NEW m \in Msgs PROVE MsgInv(m)'
    BY <1>1, <1>3 DEF MsgInv, Fresh, Nowhere, Clear, Holds, On, Rests, Busy, Delivering, Arrived,
       Stored, Coming, Single, Once, allVars, presenceVars, vars, deliveryVars, routeVars,
       relayVars, mailVars
  <2> QED BY <1>2, <2>1 DEF IInv
<1>4. CASE DeliveryNext
  <2>1. ASSUME NEW m \in Msgs PROVE MsgInv(m)'
    <3>1. CASE \E k \in Msgs : Deliver(k) \/ \E n \in Nodes : SendMessage(k, n)
      BY <1>1, <1>4, <3>1, OtherStep, SendStep, DeliverStep
    <3>2. CASE \E n \in Nodes : Relay(n)
      BY <1>1, <1>4, <3>2, TakeRelayStep, RelayStep DEF Relay
    <3>3. CASE Elsewhere \/ \E n \in Nodes, u \in Users : TakeEffect(n, u)
      BY <1>1, <1>4, <3>3, IdleStep
    <3>4. CASE \E t \in Threads : Mail(t)
      BY <1>1, <1>4, <3>4, MailInvStep
    <3>5. CASE \E n \in Nodes : ExitNode(n) \/ CrashNode(n)
      BY <1>1, <1>4, <3>5, LoseStep
    <3> QED BY <1>4, <3>1, <3>2, <3>3, <3>4, <3>5 DEF DeliveryNext, Step
  <2> QED BY <1>2, <2>1 DEF IInv
<1> QED BY <1>3, <1>4

\* The inductive invariant always holds.
THEOREM DeliveryInvariant == DeliverySpec => []IInv
BY IInvInit, IInvStep, PTL DEF DeliverySpec

\* Every variable of Delivery keeps its type, those of Presence among them.
THEOREM DeliveryTypeCorrect == DeliverySpec => []DeliveryTypeOK
<1>1. IInv => DeliveryTypeOK
  BY DEF IInv
<1> QED BY <1>1, DeliveryInvariant, PTL

\* A message whose receiver rested while it was under way has been shown once,
\* or stored once, and not both.
LEMMA IInvExactlyOnce == IInv => ExactlyOnce
<1> SUFFICES ASSUME IInv, NEW m \in Msgs, place[m] = "gone", ~Underway(m), calm[m]
             PROVE  IF state[To[m]] = "online" THEN shown[m] = 1 /\ inbox[m] = 0
                    ELSE shown[m] = 0 /\ inbox[m] = 1
  BY DEF ExactlyOnce
<1>1. Arrived(m) \/ Stored(m) \/ Coming(m)
  BY DEF IInv, MsgInv
<1>2. \A n \in Nodes : Clear(m, n)
  BY DEF Underway, Clear, Holds, On
<1>3. ~Coming(m)
  BY <1>2, OnceOn DEF Coming, Single, Clear
<1> QED BY <1>1, <1>3 DEF Arrived, Stored

\* Every message comes to a receiver at rest exactly once.
THEOREM OnceCorrect == DeliverySpec => []ExactlyOnce
BY DeliveryInvariant, IInvExactlyOnce, PTL

\* What Presence promises of any interleaving of sessions it promises while
\* messages are under way: the row is backed, and no route is stolen.
THEOREM SessionsCorrect ==
    DeliverySpec => []PresenceBacked /\ RouteNotStolen
BY Composition, PresenceCorrect, RouteCorrect, PTL
=============================================================================
