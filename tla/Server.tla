------------------------------- MODULE Server -------------------------------
(***************************************************************************)
(* One chat server process: the I/O threads that cut the byte stream of    *)
(* each connection into frames and queue them (chatserver.cpp), the pool's *)
(* workers, main, which waits for SIGINT and then takes the process down   *)
(* (main.cpp), and the logger all of them write to.                        *)
(*                                                                         *)
(* What the handlers do is the matter of Presence, Delivery and Requests,  *)
(* how threads sleep and wake that of ThreadPool.  Each connection has an  *)
(* I/O thread to itself.  The process is followed until the pool is gone.  *)
(*                                                                         *)
(* A frame is its number on its connection.  On the wire frame n is the    *)
(* piece 2n-1, any bytes but the newline, and the piece 2n, which ends     *)
(* with it; an empty frame is the piece 2n alone.                          *)
(*                                                                         *)
(* Definitions whose names begin with Mut are faulty variants, against     *)
(* which the properties are tried; no behaviour of the module uses them.   *)
(***************************************************************************)
EXTENDS Logger

CONSTANTS
    Conns,    \* the connections, and their I/O threads
    Workers,  \* the pool's threads
    Main,     \* the thread of main
    MaxQueue, \* the pool's max_queue_size
    MaxFrames \* bound: how many frames a client sends

ASSUME ThreadsAssumption == Writers = Conns \cup Workers \cup {Main}
ASSUME BoundsAssumption == MaxQueue \in Nat /\ MaxFrames \in Nat

VARIABLES
    sent,   \* the kinds of the frames the client has sent
    wire,   \* the pieces on their way
    buf,    \* _recvBufMap: the pieces received and not yet cut off
    link,   \* "up", "down" when the client is gone, "closed" when the server knows
    io,     \* where the I/O thread stands
    fate,   \* history: what became of each frame that was cut off
    tasks,  \* the pool's queue
    worker, \* the task a worker runs
    begun,  \* history: the tasks of a connection in the order they began
    main    \* where main stands

connVars == <<sent, wire, buf, link, io, fate>>
poolVars == <<tasks, worker, begun>>
vars == <<connVars, poolVars, main, logVars>>

Kinds == {"request", "empty", "garbled", "nameless"} \* nameless: without a msgid
Cleanup == 0 \* the number of the task that cleans up after a connection
NoTask == [conn |-> Main, frame |-> Cleanup]
Tasks == [conn : Conns, frame : 0..MaxFrames]

ServerTypeOK ==
    /\ LoggerTypeOK
    /\ sent \in [Conns -> Seq(Kinds)]
    /\ \A c \in Conns : Len(sent[c]) <= MaxFrames
    /\ wire \in [Conns -> Seq(1..(2 * MaxFrames))]
    /\ buf \in [Conns -> Seq(1..(2 * MaxFrames))]
    /\ link \in [Conns -> {"up", "down", "closed"}]
    /\ io \in [Conns -> {"idle", "cut", "cleanup"}]
    /\ fate \in [Conns -> Seq({"skipped", "queued", "refused"})]
    /\ tasks \in Seq(Tasks) /\ Len(tasks) <= MaxQueue
    /\ worker \in [Workers -> Tasks \cup {NoTask}]
    /\ begun \in [Conns -> Seq(0..MaxFrames)]
    /\ main \in {"start", "serving", "stopping", "stopped", "joining", "draining", "exited"}

ServerInit ==
    /\ LoggerInit
    /\ sent = [c \in Conns |-> <<>>] /\ wire = [c \in Conns |-> <<>>]
    /\ buf = [c \in Conns |-> <<>>] /\ fate = [c \in Conns |-> <<>>]
    /\ link = [c \in Conns |-> "up"] /\ io = [c \in Conns |-> "idle"]
    /\ tasks = <<>> /\ worker = [w \in Workers |-> NoTask]
    /\ begun = [c \in Conns |-> <<>>]
    /\ main = "start"

-----------------------------------------------------------------------------
(* The client.                                                             *)

Pieces(n, kind) == IF kind = "empty" THEN <<2 * n>> ELSE <<2 * n - 1, 2 * n>>
FrameOf(p) == (p + 1) \div 2
EndsFrame(p) == p % 2 = 0
HasFrame(s) == \E i \in 1..Len(s) : EndsFrame(s[i])

SendFrame(c, kind) ==
    /\ link[c] = "up" /\ Len(sent[c]) < MaxFrames /\ main # "exited"
    /\ sent' = [sent EXCEPT ![c] = Append(@, kind)]
    /\ wire' = [wire EXCEPT ![c] = @ \o Pieces(Len(sent[c]) + 1, kind)]
    /\ UNCHANGED <<buf, link, io, fate, poolVars, main, logVars>>

HangUp(c) ==
    /\ link[c] = "up" /\ main # "exited"
    /\ link' = [link EXCEPT ![c] = "down"]
    /\ UNCHANGED <<sent, wire, buf, io, fate, poolVars, main, logVars>>

-----------------------------------------------------------------------------
(* The I/O threads.                                                        *)

\* The pool's queue is full, or the pool is shutting down.
Refuses == Len(tasks) >= MaxQueue \/ main = "draining"

\* A thread that is inside Log does nothing else; connections are taken up once
\* main runs its loop.
IoReady(c, at) == io[c] = at /\ log[c] = "out" /\ main \notin {"start", "exited"}

MutReceiveReplaces(c) ==
    /\ IoReady(c, "idle") /\ link[c] # "closed"
    /\ \E k \in 1..Len(wire[c]) :
          /\ buf' = [buf EXCEPT ![c] = SubSeq(wire[c], 1, k)]
          /\ wire' = [wire EXCEPT ![c] = SubSeq(@, k + 1, Len(@))]
    /\ io' = [io EXCEPT ![c] = IF HasFrame(buf'[c]) THEN "cut" ELSE "idle"]
    /\ UNCHANGED <<sent, link, fate, poolVars, main, logVars>>

\* onMessage is called with whatever has come: half a frame or several.
Receive(c) ==
    /\ IoReady(c, "idle") /\ link[c] # "closed"
    /\ \E k \in 1..Len(wire[c]) :
          /\ buf' = [buf EXCEPT ![c] = @ \o SubSeq(wire[c], 1, k)]
          /\ wire' = [wire EXCEPT ![c] = SubSeq(@, k + 1, Len(@))]
    /\ io' = [io EXCEPT ![c] = IF HasFrame(buf'[c]) THEN "cut" ELSE "idle"]
    /\ UNCHANGED <<sent, link, fate, poolVars, main, logVars>>

\* The frame at the front of the buffer, and what is left behind it.
FirstEnd(s) == CHOOSE i \in 1..Len(s) : /\ EndsFrame(s[i])
                                        /\ \A j \in 1..(i - 1) : ~EndsFrame(s[j])
Front(c) == FrameOf(buf[c][FirstEnd(buf[c])])
Rest(c) == SubSeq(buf[c], FirstEnd(buf[c]) + 1, Len(buf[c]))

\* One round of the loop, which ends in f and goes on while there are frames.
Round(c, f) ==
    /\ IoReady(c, "cut")
    /\ buf' = [buf EXCEPT ![c] = Rest(c)]
    /\ fate' = [fate EXCEPT ![c] = Append(@, f)]
    /\ UNCHANGED <<sent, wire, link, worker, begun, main>>

GoOn(c) == io' = [io EXCEPT ![c] = IF HasFrame(Rest(c)) THEN "cut" ELSE "idle"]

LoggerAtRest == UNCHANGED <<lines, dropped, shutdown, holder, consumer, hand, reported, file, pushed>>

CutEmpty(c) ==
    /\ Round(c, "skipped") /\ GoOn(c)
    /\ sent[c][Front(c)] = "empty"
    /\ UNCHANGED <<tasks, logVars>>

\* The exception is caught inside the loop.
CutGarbled(c) ==
    /\ Round(c, "skipped") /\ GoOn(c)
    /\ sent[c][Front(c)] = "garbled"
    /\ Call(c) /\ LoggerAtRest
    /\ UNCHANGED tasks

\* The return leaves the loop, whatever is left in the buffer.
CutNameless(c) ==
    /\ Round(c, "skipped")
    /\ io' = [io EXCEPT ![c] = "idle"]
    /\ sent[c][Front(c)] = "nameless"
    /\ Call(c) /\ LoggerAtRest
    /\ UNCHANGED tasks

MutQueueOnce(c) ==
    /\ Round(c, "queued")
    /\ io' = [io EXCEPT ![c] = "idle"]
    /\ sent[c][Front(c)] = "request" /\ ~Refuses
    /\ tasks' = Append(tasks, [conn |-> c, frame |-> Front(c)])
    /\ UNCHANGED logVars

QueueRequest(c) ==
    /\ Round(c, "queued") /\ GoOn(c)
    /\ sent[c][Front(c)] = "request" /\ ~Refuses
    /\ tasks' = Append(tasks, [conn |-> c, frame |-> Front(c)])
    /\ UNCHANGED logVars

\* The client is told that the server is busy.
RefuseRequest(c) ==
    /\ Round(c, "refused") /\ GoOn(c)
    /\ sent[c][Front(c)] = "request" /\ Refuses
    /\ Call(c) /\ LoggerAtRest
    /\ UNCHANGED tasks

Forget(c) ==
    /\ buf' = [buf EXCEPT ![c] = <<>>]
    /\ wire' = [wire EXCEPT ![c] = <<>>]
    /\ link' = [link EXCEPT ![c] = "closed"]
    /\ UNCHANGED <<sent, fate, worker, main>>

\* onConnection of a connection that went down; bytes may still be under way.
QueueCleanup(c) ==
    /\ IoReady(c, "idle") /\ link[c] = "down" /\ ~Refuses
    /\ tasks' = Append(tasks, [conn |-> c, frame |-> Cleanup])
    /\ Forget(c)
    /\ UNCHANGED <<io, begun, logVars>>

RefuseCleanup(c) ==
    /\ IoReady(c, "idle") /\ link[c] = "down" /\ Refuses
    /\ io' = [io EXCEPT ![c] = "cleanup"]
    /\ Call(c) /\ LoggerAtRest
    /\ UNCHANGED <<sent, wire, buf, link, fate, poolVars, main>>

\* The I/O thread cleans up itself, without waiting for what it has queued.
CleanupInline(c) ==
    /\ IoReady(c, "cleanup")
    /\ io' = [io EXCEPT ![c] = "idle"]
    /\ begun' = [begun EXCEPT ![c] = Append(@, Cleanup)]
    /\ Forget(c)
    /\ UNCHANGED <<tasks, logVars>>

-----------------------------------------------------------------------------
(* The workers.                                                            *)

MutTakeNewest(w) ==
    /\ worker[w] = NoTask /\ log[w] = "out" /\ tasks # <<>>
    /\ LET task == tasks[Len(tasks)]
       IN  /\ worker' = [worker EXCEPT ![w] = task]
           /\ begun' = [begun EXCEPT ![task.conn] = Append(@, task.frame)]
    /\ tasks' = SubSeq(tasks, 1, Len(tasks) - 1)
    /\ UNCHANGED <<connVars, main, logVars>>

Take(w) ==
    /\ worker[w] = NoTask /\ log[w] = "out" /\ tasks # <<>>
    /\ LET task == Head(tasks)
       IN  /\ worker' = [worker EXCEPT ![w] = task]
           /\ begun' = [begun EXCEPT ![task.conn] = Append(@, task.frame)]
    /\ tasks' = Tail(tasks)
    /\ UNCHANGED <<connVars, main, logVars>>

\* The handler ends, or throws or does not exist, which is logged.
Finish(w) ==
    /\ worker[w] # NoTask
    /\ worker' = [worker EXCEPT ![w] = NoTask]
    /\ UNCHANGED log \/ Call(w)
    /\ LoggerAtRest
    /\ UNCHANGED <<connVars, tasks, begun, main>>

-----------------------------------------------------------------------------
(* main.                                                                   *)

MainLogs(from, to) ==
    /\ main = from /\ log[Main] = "out"
    /\ main' = to
    /\ Call(Main) /\ LoggerAtRest
    /\ UNCHANGED <<connVars, poolVars>>

Started == MainLogs("start", "serving")
Interrupt == MainLogs("serving", "stopping") \* SIGINT
Stopped == MainLogs("stopping", "stopped")   \* the rows have been reset

ShutDownLogger ==
    /\ main = "stopped" /\ log[Main] = "out"
    /\ main' = "joining"
    /\ BeginShutdown(Main)
    /\ UNCHANGED <<connVars, poolVars>>

\* ~ChatServer follows, and in it first of all ~ThreadPool.
LoggerShutDown ==
    /\ main = "joining"
    /\ main' = "draining"
    /\ EndShutdown(Main)
    /\ UNCHANGED <<connVars, poolVars>>

\* The workers have run the queue to its end and are joined.
PoolGone ==
    /\ main = "draining"
    /\ tasks = <<>> /\ \A w \in Workers : worker[w] = NoTask /\ log[w] = "out"
    /\ main' = "exited"
    /\ UNCHANGED <<connVars, poolVars, logVars>>

-----------------------------------------------------------------------------
Logging(w) == (CheckShutdown(w) \/ Push(w)) /\ UNCHANGED <<connVars, poolVars, main>>
Consuming == Consumer /\ UNCHANGED <<connVars, poolVars, main>>

OnMessage(c) == \/ Receive(c) \/ CutEmpty(c) \/ CutGarbled(c) \/ CutNameless(c)
                \/ QueueRequest(c) \/ RefuseRequest(c)

OnConnection(c) == QueueCleanup(c) \/ RefuseCleanup(c) \/ CleanupInline(c)

Work(w) == Take(w) \/ Finish(w)

Stop == Started \/ Stopped \/ ShutDownLogger \/ LoggerShutDown \/ PoolGone

Client(c) == HangUp(c) \/ \E kind \in Kinds : SendFrame(c, kind)

ServerNext == \/ \E c \in Conns : Client(c) \/ OnMessage(c) \/ OnConnection(c)
              \/ \E w \in Workers : Work(w)
              \/ \E w \in Writers : Logging(w)
              \/ Consuming \/ Stop \/ Interrupt

ServerSpec == ServerInit /\ [][ServerNext]_vars

\* The operating system schedules every thread and delivers what was sent;
\* clients owe nothing, and nobody has to interrupt the server.
ServerFairness ==
    /\ \A c \in Conns : WF_vars(OnMessage(c)) /\ WF_vars(OnConnection(c))
    /\ \A w \in Workers : WF_vars(Work(w))
    /\ \A w \in Writers : WF_vars(Logging(w))
    /\ WF_vars(Consuming) /\ WF_vars(Stop)

ServerFairSpec == ServerSpec /\ ServerFairness

-----------------------------------------------------------------------------
(* Properties.                                                             *)

\* However the stream of a connection is broken into reads, frames are cut off
\* in the order they were sent, each once and whole: what is in the buffer and
\* on the wire is exactly what was sent and has not been cut off.
StreamKept ==
    \A c \in Conns : link[c] # "closed" =>
        LET left == buf[c] \o wire[c]
        IN  /\ \A i, j \in 1..Len(left) : i < j => left[i] < left[j]
            /\ {left[i] : i \in 1..Len(left)} =
                  {p \in (2 * Len(fate[c]) + 1)..(2 * Len(sent[c])) :
                      EndsFrame(p) \/ sent[c][FrameOf(p)] # "empty"}

\* The tasks that began or wait in the pool's queue, as connection c sees them:
\* those of other connections are no more to it than a cleanup.
Accepted(c) ==
    begun[c] \o [i \in 1..Len(tasks) |-> IF tasks[i].conn = c THEN tasks[i].frame ELSE Cleanup]

\* Every request is either handed to the pool or answered "server busy", never
\* both and never neither, and those handed over begin in the order they were
\* sent, each once, also while the process is being taken down.
BegunInOrder ==
    \A c \in Conns :
        LET accepted == Accepted(c)
            requests == {i \in 1..Len(accepted) : accepted[i] # Cleanup}
        IN  /\ \A i, j \in requests : i < j => accepted[i] < accepted[j]
            /\ {accepted[i] : i \in requests} = {n \in 1..Len(fate[c]) : fate[c][n] = "queued"}
            /\ \A n \in 1..Len(fate[c]) :
                  fate[c][n] = "skipped" <=> sent[c][n] # "request"

\* A frame has arrived whole and has not been cut off.
Waits(c) == HasFrame(buf[c])

\* onMessage has returned because of a frame without msgid, and no bytes have
\* come since.
Abandoned(c) == /\ io[c] = "idle" /\ Waits(c)
                /\ fate[c] # <<>> /\ sent[c][Len(fate[c])] = "nameless"

\* Only the frames behind one without msgid are ever left in the buffer.
FramesCutOff ==
    \A c \in Conns : Waits(c) ~> ~Waits(c) \/ Abandoned(c) \/ main = "exited"

\* "Empty frames, missing msgid and JSON parse errors are caught and recorded
\* and do not affect later frames" (README.md:30).
LaterFramesUnaffected == \A c \in Conns : Waits(c) ~> ~Waits(c) \/ main = "exited"

\* After SIGINT the process ends: main joins the consumer with the mutex in its
\* hands that every logging thread needs, and then the workers.
StopEnds == main = "stopping" ~> main = "exited"
=============================================================================
