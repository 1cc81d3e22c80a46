---------------------------- MODULE RedisClient -----------------------------
(***************************************************************************)
(* One node's Redis client: handlers queue SUBSCRIBE and UNSUBSCRIBE       *)
(* commands and poke the listener thread through a pipe; the listener      *)
(* alone owns the subscription connection, sends the commands, and takes   *)
(* confirmations and messages from it, one reply per readable poll.        *)
(*                                                                         *)
(* hiredis reads whatever the socket holds and parses one reply at a time, *)
(* so replies sit in two places: the socket and the reader's buffer.  Only *)
(* the socket makes poll return.                                           *)
(*                                                                         *)
(* Definitions whose names begin with Mut are faulty variants, against     *)
(* which the properties are tried; no behaviour of the module uses them.   *)
(***************************************************************************)
EXTENDS Integers, Sequences

CONSTANTS
    Channels,    \* the users' channels
    Callers,     \* pool and I/O threads that subscribe and unsubscribe
    ReadSize,    \* the bytes one read of the wakeup pipe takes (64)
    MaxRequests, \* bound on the commands queued
    MaxMessages, \* bound on the messages Redis routes to this node
    MayLose      \* whether the connection to Redis may break

ASSUME SizesAssumption == ReadSize \in Nat \ {0}
ASSUME BoundsAssumption == MaxRequests \in Nat /\ MaxMessages \in Nat
ASSUME LoseAssumption == MayLose \in BOOLEAN

VARIABLES
    commandQueue, \* _commandQueue, under _commandMutex
    pipe,         \* bytes in the wakeup pipe
    caller,       \* where a call of subscribe, unsubscribe or stop stands
    command,      \* the command it is to queue
    running,      \* _running
    listener,     \* where the listener thread stands
    pending,      \* the batch it swapped out of the queue
    dataReady,    \* revents of the subscription socket at the last poll
    subscribedChannels, \* _subscribedChannels: what has been confirmed
    reader,       \* replies parsed from the socket but not handed out
    socket,       \* replies on their way from Redis
    toServer,     \* commands on their way to Redis
    serverSubs,   \* Redis: the channels this connection is subscribed to
    link,         \* whether the connection stands
    requests,     \* how many commands were queued
    wanted,       \* history: channels whose last queued command is Subscribe
    routed,       \* how many messages Redis has routed here
    dispatched    \* history: the messages handed to _messageHandler

clientVars == <<commandQueue, pipe, caller, command, requests, wanted>>
listenVars == <<running, listener, pending, dataReady, subscribedChannels, dispatched>>
serverVars == <<toServer, serverSubs, link, routed>>
vars == <<clientVars, listenVars, reader, socket, serverVars>>

StopCommand == [type |-> "Stop", channel |-> 0]

Commands == [type : {"Subscribe", "Unsubscribe"}, channel : Channels] \cup {StopCommand}

Replies == [kind : {"subscribe", "unsubscribe"}, channel : Channels]
               \cup [kind : {"message"}, id : 1..MaxMessages]

TypeOK ==
    /\ commandQueue \in Seq(Commands) /\ pending \in Seq(Commands)
    /\ toServer \in Seq(Commands)
    /\ pipe \in Nat
    /\ caller \in [Callers -> {"idle", "queue", "wake", "stop", "join"}]
    /\ command \in [Callers -> Commands]
    /\ running \in BOOLEAN /\ dataReady \in BOOLEAN /\ link \in BOOLEAN
    /\ listener \in {"poll", "read", "swap", "handle", "reply", "exited", "joined"}
    /\ subscribedChannels \subseteq Channels
    /\ serverSubs \subseteq Channels
    /\ wanted \subseteq Channels
    /\ reader \in Seq(Replies) /\ socket \in Seq(Replies)
    /\ requests \in 0..MaxRequests /\ routed \in 0..MaxMessages
    /\ dispatched \in Seq(1..MaxMessages)

\* start has succeeded (a node that cannot start Redis exits).
Init ==
    /\ commandQueue = <<>> /\ pending = <<>> /\ toServer = <<>>
    /\ pipe = 0
    /\ caller = [k \in Callers |-> "idle"]
    /\ command = [k \in Callers |-> StopCommand]
    /\ running = TRUE /\ dataReady = FALSE /\ link = TRUE
    /\ listener = "poll"
    /\ subscribedChannels = {} /\ serverSubs = {} /\ wanted = {}
    /\ reader = <<>> /\ socket = <<>>
    /\ requests = 0 /\ routed = 0
    /\ dispatched = <<>>

-----------------------------------------------------------------------------
(* subscribe, unsubscribe and stop.                                        *)

\* A call that finds the listener gone fails, and its caller ignores that.
Request(k, type, ch) ==
    /\ caller[k] = "idle"
    /\ requests < MaxRequests
    /\ running
    /\ requests' = requests + 1
    /\ caller' = [caller EXCEPT ![k] = "queue"]
    /\ command' = [command EXCEPT ![k] = [type |-> type, channel |-> ch]]
    /\ UNCHANGED <<commandQueue, pipe, wanted, listenVars, reader, socket, serverVars>>

EnqueueCommand(k) ==
    LET ch == command[k].channel
    IN  /\ caller[k] = "queue"
        /\ commandQueue' = Append(commandQueue, command[k])
        /\ wanted' = IF command[k].type = "Subscribe" THEN wanted \cup {ch}
                     ELSE wanted \ {ch}
        /\ caller' = [caller EXCEPT ![k] = "wake"]
        /\ command' = [command EXCEPT ![k] = StopCommand]
        /\ UNCHANGED <<pipe, requests, listenVars, reader, socket, serverVars>>

WakeupListener(k) ==
    /\ caller[k] \in {"wake", "stop"}
    /\ pipe' = pipe + 1
    /\ caller' = [caller EXCEPT ![k] = IF @ = "stop" THEN "join" ELSE "idle"]
    /\ UNCHANGED <<commandQueue, command, requests, wanted, listenVars, reader, socket,
                   serverVars>>

\* ~Redis runs at process exit, when the threads that call are gone.
Stop(k) ==
    /\ \A j \in Callers : caller[j] = "idle"
    /\ listener # "joined"
    /\ requests' = MaxRequests
    /\ \/ /\ running
          /\ commandQueue' = Append(commandQueue, StopCommand)
          /\ caller' = [caller EXCEPT ![k] = "stop"]
       \/ /\ ~running
          /\ caller' = [caller EXCEPT ![k] = "join"]
          /\ UNCHANGED commandQueue
    /\ UNCHANGED <<pipe, command, wanted, listenVars, reader, socket, serverVars>>

\* stop joins the listener and frees everything.
JoinAndReset(k) ==
    /\ caller[k] = "join"
    /\ listener = "exited"
    /\ caller' = [caller EXCEPT ![k] = "idle"]
    /\ listener' = "joined"
    /\ commandQueue' = <<>> /\ pipe' = 0 /\ subscribedChannels' = {}
    /\ running' = FALSE /\ link' = FALSE
    /\ reader' = <<>> /\ socket' = <<>> /\ toServer' = <<>> /\ serverSubs' = {}
    /\ UNCHANGED <<command, wanted, requests, pending, dataReady, dispatched, routed>>

-----------------------------------------------------------------------------
(* listenerLoop                                                            *)

Readable == socket # <<>> \/ ~link

Poll ==
    /\ listener = "poll"
    /\ pipe > 0 \/ Readable
    /\ dataReady' = Readable
    /\ listener' = IF pipe > 0 THEN "read" ELSE "reply"
    /\ UNCHANGED <<clientVars, running, pending, subscribedChannels, dispatched,
                   reader, socket, serverVars>>

\* The pipe is emptied before the queue is taken, never after.
MutReadsFixed ==
    /\ listener = "read"
    /\ pipe' = pipe - ReadSize
    /\ listener' = "swap"
    /\ UNCHANGED <<commandQueue, caller, command, requests, wanted, running, pending,
                   dataReady, subscribedChannels, dispatched, reader, socket, serverVars>>

ReadPipe ==
    /\ listener = "read"
    /\ pipe' = IF pipe > ReadSize THEN pipe - ReadSize ELSE 0
    /\ listener' = "swap"
    /\ UNCHANGED <<commandQueue, caller, command, requests, wanted, running, pending,
                   dataReady, subscribedChannels, dispatched, reader, socket, serverVars>>

MutTakeOneCommand ==
    /\ listener = "swap"
    /\ pending' = SubSeq(commandQueue, 1, 1)
    /\ commandQueue' = SubSeq(commandQueue, 2, Len(commandQueue))
    /\ listener' = "handle"
    /\ UNCHANGED <<pipe, caller, command, requests, wanted, running, dataReady,
                   subscribedChannels, dispatched, reader, socket, serverVars>>

HandlePendingCommands ==
    /\ listener = "swap"
    /\ pending' = commandQueue
    /\ commandQueue' = <<>>
    /\ listener' = "handle"
    /\ UNCHANGED <<pipe, caller, command, requests, wanted, running, dataReady,
                   subscribedChannels, dispatched, reader, socket, serverVars>>

\* A broken connection takes nothing; the caller of the command never learns.
SendToServer(cmd) == toServer' = IF link THEN Append(toServer, cmd) ELSE toServer

\* sendSubscribeCommand skips a channel that the table already holds.
MutUnsubscribeOnlyConfirmed(cmd) ==
    \/ /\ cmd.type = "Subscribe"
       /\ IF cmd.channel \in subscribedChannels THEN UNCHANGED toServer
          ELSE SendToServer(cmd)
       /\ UNCHANGED running
    \/ /\ cmd.type = "Unsubscribe"
       /\ IF cmd.channel \notin subscribedChannels THEN UNCHANGED toServer
          ELSE SendToServer(cmd)
       /\ UNCHANGED running
    \/ /\ cmd.type = "Stop"
       /\ running' = FALSE
       /\ UNCHANGED toServer

Execute(cmd) ==
    \/ /\ cmd.type = "Subscribe"
       /\ IF cmd.channel \in subscribedChannels THEN UNCHANGED toServer
          ELSE SendToServer(cmd)
       /\ UNCHANGED running
    \/ /\ cmd.type = "Unsubscribe"
       /\ SendToServer(cmd)
       /\ UNCHANGED running
    \/ /\ cmd.type = "Stop"
       /\ running' = FALSE
       /\ UNCHANGED toServer

HandleCommand ==
    /\ listener = "handle"
    /\ pending # <<>>
    /\ Execute(Head(pending))
    /\ pending' = Tail(pending)
    /\ UNCHANGED <<clientVars, listener, dataReady, subscribedChannels, dispatched,
                   reader, socket, serverSubs, link, routed>>

MutStopIgnored ==
    /\ listener = "handle"
    /\ pending = <<>>
    /\ listener' = IF dataReady THEN "reply" ELSE "poll"
    /\ UNCHANGED <<clientVars, running, pending, dataReady, subscribedChannels,
                   dispatched, reader, socket, serverVars>>

CommandsHandled ==
    /\ listener = "handle"
    /\ pending = <<>>
    /\ listener' = IF ~running THEN "exited" ELSE IF dataReady THEN "reply" ELSE "poll"
    /\ UNCHANGED <<clientVars, running, pending, dataReady, subscribedChannels,
                   dispatched, reader, socket, serverVars>>

\* handleRedisReply
MutForgetsUnsubscribed(r) ==
    \/ /\ r.kind = "subscribe"
       /\ subscribedChannels' = subscribedChannels \cup {r.channel}
       /\ UNCHANGED dispatched
    \/ /\ r.kind = "unsubscribe"
       /\ UNCHANGED <<subscribedChannels, dispatched>>
    \/ /\ r.kind = "message"
       /\ dispatched' = Append(dispatched, r.id)
       /\ UNCHANGED subscribedChannels

HandleRedisReply(r) ==
    \/ /\ r.kind = "subscribe"
       /\ subscribedChannels' = subscribedChannels \cup {r.channel}
       /\ UNCHANGED dispatched
    \/ /\ r.kind = "unsubscribe"
       /\ subscribedChannels' = subscribedChannels \ {r.channel}
       /\ UNCHANGED dispatched
    \/ /\ r.kind = "message"
       /\ dispatched' = Append(dispatched, r.id)
       /\ UNCHANGED subscribedChannels

\* redisGetReply hands out a parsed reply if it has one; only then, with its
\* buffer empty, does it read the socket, as much as one read returns.
MutReadsFirst ==
    /\ listener = "reply"
    /\ listener' = "poll"
    /\ \/ /\ socket # <<>>
          /\ \E k \in 1..Len(socket) :
                /\ reader' = reader \o SubSeq(socket, 2, k)
                /\ socket' = SubSeq(socket, k + 1, Len(socket))
          /\ HandleRedisReply(Head(socket))
          /\ UNCHANGED running
       \/ /\ socket = <<>> /\ reader # <<>>
          /\ reader' = Tail(reader)
          /\ HandleRedisReply(Head(reader))
          /\ UNCHANGED <<socket, running>>
    /\ UNCHANGED <<clientVars, pending, dataReady, serverVars>>

GetReply ==
    /\ listener = "reply"
    /\ listener' = "poll"
    /\ \/ /\ reader # <<>>
          /\ reader' = Tail(reader)
          /\ HandleRedisReply(Head(reader))
          /\ UNCHANGED socket
       \/ /\ reader = <<>> /\ socket # <<>>
          /\ \E k \in 1..Len(socket) :
                /\ reader' = SubSeq(socket, 2, k)
                /\ socket' = SubSeq(socket, k + 1, Len(socket))
          /\ HandleRedisReply(Head(socket))
    /\ UNCHANGED <<clientVars, running, pending, dataReady, serverVars>>

\* The connection is gone: the listener ends, and nobody starts it again.
GetReplyFails ==
    /\ listener = "reply"
    /\ reader = <<>> /\ socket = <<>>
    /\ running' = FALSE
    /\ listener' = "exited"
    /\ UNCHANGED <<clientVars, pending, dataReady, subscribedChannels, dispatched,
                   reader, socket, serverVars>>

-----------------------------------------------------------------------------
(* Redis and the network.                                                  *)

\* Redis executes a command and confirms it.
ServerStep ==
    /\ link
    /\ toServer # <<>>
    /\ LET ch == Head(toServer).channel
       IN  \/ /\ Head(toServer).type = "Subscribe"
              /\ serverSubs' = serverSubs \cup {ch}
              /\ socket' = Append(socket, [kind |-> "subscribe", channel |-> ch])
           \/ /\ Head(toServer).type = "Unsubscribe"
              /\ serverSubs' = serverSubs \ {ch}
              /\ socket' = Append(socket, [kind |-> "unsubscribe", channel |-> ch])
    /\ toServer' = Tail(toServer)
    /\ UNCHANGED <<clientVars, listenVars, reader, link, routed>>

\* Somebody publishes to a channel this node is subscribed to.
Publish ==
    /\ link
    /\ serverSubs # {}
    /\ routed < MaxMessages
    /\ routed' = routed + 1
    /\ socket' = Append(socket, [kind |-> "message", id |-> routed + 1])
    /\ UNCHANGED <<clientVars, listenVars, reader, toServer, serverSubs, link>>

\* The connection breaks; what was under way arrives up to some point.
LoseLink ==
    /\ MayLose
    /\ link
    /\ link' = FALSE
    /\ \E k \in 0..Len(socket) : socket' = SubSeq(socket, 1, k)
    /\ toServer' = <<>> /\ serverSubs' = {}
    /\ UNCHANGED <<clientVars, listenVars, reader, routed>>

-----------------------------------------------------------------------------
Listener == \/ Poll \/ ReadPipe \/ HandlePendingCommands \/ HandleCommand
            \/ CommandsHandled \/ GetReply \/ GetReplyFails

Next ==
    \/ \E k \in Callers :
          \/ \E ch \in Channels : \/ Request(k, "Subscribe", ch)
                                  \/ Request(k, "Unsubscribe", ch)
          \/ EnqueueCommand(k) \/ WakeupListener(k)
          \/ Stop(k) \/ JoinAndReset(k)
    \/ Listener
    \/ ServerStep \/ Publish \/ LoseLink

Spec == Init /\ [][Next]_vars

\* Threads run and Redis answers; nobody owes a request, a message or a loss.
FairSpec == /\ Spec
            /\ WF_vars(Listener)
            /\ WF_vars(ServerStep)
            /\ \A k \in Callers :
                  WF_vars(EnqueueCommand(k) \/ WakeupListener(k) \/ JoinAndReset(k))

-----------------------------------------------------------------------------
(* Properties.                                                             *)

\* A queued command never waits for somebody else's wakeup: while commands
\* are queued a byte is in the pipe or about to be, or the listener is on its
\* way to the queue.
NoLostCommand ==
    running /\ commandQueue # <<>> =>
        \/ pipe > 0
        \/ \E k \in Callers : caller[k] \in {"wake", "stop"}
        \/ listener \in {"read", "swap"}

\* The replies on their way to the handler, in their order.
Unhandled == reader \o socket
Confirms(r, ch) == r.kind # "message" /\ r.channel = ch
Carries(r, n) == r.kind = "message" /\ r.id = n

\* The channel table trails Redis by exactly the confirmations that have not
\* been handled: the last of them about a channel says what Redis has, and
\* without any the table does.
TableTrailsServer ==
    link => \A ch \in Channels :
        ch \in serverSubs <=>
            \/ /\ ch \in subscribedChannels
               /\ \A i \in 1..Len(Unhandled) : ~Confirms(Unhandled[i], ch)
            \/ \E i \in 1..Len(Unhandled) :
                  /\ Confirms(Unhandled[i], ch) /\ Unhandled[i].kind = "subscribe"
                  /\ \A j \in (i + 1)..Len(Unhandled) : ~Confirms(Unhandled[j], ch)

\* No command is on its way any more.
Settled == /\ link /\ running
           /\ commandQueue = <<>> /\ pending = <<>> /\ toServer = <<>>

\* A channel whose last command was Unsubscribe is unsubscribed once that
\* command has arrived, whatever commands of other threads it overtook.
NoGhostSubscription == Settled => serverSubs \subseteq wanted

\* Messages reach the handler in the order in which Redis routed them, none
\* twice and none skipped.
InOrder ==
    /\ \A i \in 1..Len(dispatched) : dispatched[i] = i
    /\ \A i \in 1..Len(Unhandled), n \in 1..MaxMessages : Carries(Unhandled[i], n) =>
          /\ n > Len(dispatched)
          /\ \A j \in 1..(i - 1), m \in 1..MaxMessages : Carries(Unhandled[j], m) => m < n
          /\ \A m \in (Len(dispatched) + 1)..(n - 1) :
                \E j \in 1..(i - 1) : Carries(Unhandled[j], m)

\* Every command is eventually taken by the listener, or the listener is gone.
CommandsTaken == commandQueue # <<>> ~> commandQueue = <<>> \/ ~running

\* A stop that was called completes.
StopCompletes ==
    (\E k \in Callers : caller[k] \in {"stop", "join"}) ~> listener = "joined"

\* "A channel that is already in the table need not be subscribed again" (the
\* comment over the check in sendSubscribeCommand).  Then a channel whose last
\* command was Subscribe is subscribed once all is settled.
SubscribedAsWanted ==
    Settled /\ reader = <<>> /\ socket = <<>> => wanted \subseteq serverSubs

\* "Messages across nodes are delivered through Redis pub/sub" (README): a
\* message Redis has routed here reaches the handler unless the client stops.
MessagesDelivered ==
    \A i \in 1..MaxMessages : routed >= i ~> Len(dispatched) >= i \/ ~running
=============================================================================
