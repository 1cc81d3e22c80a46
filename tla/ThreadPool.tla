----------------------------- MODULE ThreadPool -----------------------------
(***************************************************************************)
(* The bounded thread pool: a queue under one mutex, one condition         *)
(* variable, workers that wait on it, and a shutdown that drains.          *)
(*                                                                         *)
(* An action is one critical section of queue_mutex, or one step outside   *)
(* it.  notify_one comes after the producer has released the mutex, so     *)
(* anything may happen between the two.  Tasks are numbered in the order   *)
(* in which enqueue accepted them.                                         *)
(*                                                                         *)
(* Definitions whose names begin with Mut are faulty variants, against     *)
(* which the properties are tried; no behaviour of the module uses them.   *)
(***************************************************************************)
EXTENDS Integers, Sequences, FiniteSets

CONSTANTS
    Producers, \* the threads that call enqueue
    Workers,   \* the pool's threads
    Closers,   \* the threads that call shutdown
    MaxQueue,  \* config_.max_queue_size
    MaxTasks   \* bound on the number of tasks accepted

ASSUME QueueAssumption == MaxQueue \in Nat \ {0}
ASSUME WorkersAssumption == Workers # {}
ASSUME TasksAssumption == MaxTasks \in Nat

VARIABLES
    accepted, \* how many tasks enqueue has accepted
    tasks, stop,
    worker,   \* where a worker stands
    task,     \* the task it runs, 0 when it runs none
    producer, \* "ready", or "notify": task queued, notify_one not yet called
    closer,   \* where a call of shutdown stands
    done      \* the tasks that have run

vars == <<accepted, tasks, stop, worker, task, producer, closer, done>>

TypeOK ==
    /\ accepted \in 0..MaxTasks
    /\ tasks \in Seq(1..MaxTasks)
    /\ Len(tasks) <= MaxQueue
    /\ stop \in BOOLEAN
    /\ worker \in [Workers -> {"test", "asleep", "run", "exited"}]
    /\ task \in [Workers -> 0..MaxTasks]
    /\ producer \in [Producers -> {"ready", "notify"}]
    /\ closer \in [Closers -> {"ready", "notify", "join", "returned", "late"}]
    /\ done \subseteq 1..MaxTasks

Init ==
    /\ accepted = 0
    /\ tasks = <<>>
    /\ stop = FALSE
    /\ worker = [w \in Workers |-> "test"]
    /\ task = [w \in Workers |-> 0]
    /\ producer = [p \in Producers |-> "ready"]
    /\ closer = [c \in Closers |-> "ready"]
    /\ done = {}

-----------------------------------------------------------------------------
(* enqueue                                                                 *)

\* A stopped pool and a full queue throw and change nothing.
MutEnqueueNoLimit(p) ==
    /\ producer[p] = "ready"
    /\ accepted < MaxTasks
    /\ ~stop
    /\ accepted' = accepted + 1
    /\ tasks' = Append(tasks, accepted + 1)
    /\ producer' = [producer EXCEPT ![p] = "notify"]
    /\ UNCHANGED <<stop, worker, task, closer, done>>

Enqueue(p) ==
    /\ producer[p] = "ready"
    /\ accepted < MaxTasks
    /\ ~stop
    /\ Len(tasks) < MaxQueue
    /\ accepted' = accepted + 1
    /\ tasks' = Append(tasks, accepted + 1)
    /\ producer' = [producer EXCEPT ![p] = "notify"]
    /\ UNCHANGED <<stop, worker, task, closer, done>>

Asleep == {w \in Workers : worker[w] = "asleep"}

MutNotifyNobody(p) ==
    /\ producer[p] = "notify"
    /\ producer' = [producer EXCEPT ![p] = "ready"]
    /\ UNCHANGED <<accepted, tasks, stop, worker, task, closer, done>>

NotifyOne(p) ==
    /\ producer[p] = "notify"
    /\ producer' = [producer EXCEPT ![p] = "ready"]
    /\ \/ \E w \in Asleep : worker' = [worker EXCEPT ![w] = "test"]
       \/ Asleep = {} /\ UNCHANGED worker
    /\ UNCHANGED <<accepted, tasks, stop, task, closer, done>>

-----------------------------------------------------------------------------
(* A worker's loop.  "test" is where it takes the mutex and evaluates the  *)
(* predicate of its wait.                                                  *)

Sleep(w) ==
    /\ worker[w] = "test"
    /\ ~stop
    /\ tasks = <<>>
    /\ worker' = [worker EXCEPT ![w] = "asleep"]
    /\ UNCHANGED <<accepted, tasks, stop, task, producer, closer, done>>

\* The condition variable may wake a worker for no reason.
SpuriousWakeup(w) ==
    /\ worker[w] = "asleep"
    /\ worker' = [worker EXCEPT ![w] = "test"]
    /\ UNCHANGED <<accepted, tasks, stop, task, producer, closer, done>>

MutTakeLast(w) ==
    /\ worker[w] = "test"
    /\ tasks # <<>>
    /\ task' = [task EXCEPT ![w] = tasks[Len(tasks)]]
    /\ tasks' = SubSeq(tasks, 1, Len(tasks) - 1)
    /\ worker' = [worker EXCEPT ![w] = "run"]
    /\ UNCHANGED <<accepted, stop, producer, closer, done>>

Take(w) ==
    /\ worker[w] = "test"
    /\ tasks # <<>>
    /\ task' = [task EXCEPT ![w] = Head(tasks)]
    /\ tasks' = Tail(tasks)
    /\ worker' = [worker EXCEPT ![w] = "run"]
    /\ UNCHANGED <<accepted, stop, producer, closer, done>>

\* The task has returned, or its exception is in its future.
Finish(w) ==
    /\ worker[w] = "run"
    /\ done' = done \cup {task[w]}
    /\ task' = [task EXCEPT ![w] = 0]
    /\ worker' = [worker EXCEPT ![w] = "test"]
    /\ UNCHANGED <<accepted, tasks, stop, producer, closer>>

MutExitUndrained(w) ==
    /\ worker[w] = "test"
    /\ stop
    /\ worker' = [worker EXCEPT ![w] = "exited"]
    /\ UNCHANGED <<accepted, tasks, stop, task, producer, closer, done>>

Exit(w) ==
    /\ worker[w] = "test"
    /\ stop
    /\ tasks = <<>>
    /\ worker' = [worker EXCEPT ![w] = "exited"]
    /\ UNCHANGED <<accepted, tasks, stop, task, producer, closer, done>>

-----------------------------------------------------------------------------
(* shutdown, called by threads that are not workers (a worker's call       *)
(* throws).  Only the first call notifies and joins.                       *)

Shutdown(c) ==
    /\ closer[c] = "ready"
    /\ closer' = [closer EXCEPT ![c] = IF stop THEN "late" ELSE "notify"]
    /\ stop' = TRUE
    /\ UNCHANGED <<accepted, tasks, worker, task, producer, done>>

MutNotifyAllWakesOne(c) ==
    /\ closer[c] = "notify"
    /\ closer' = [closer EXCEPT ![c] = "join"]
    /\ \/ \E w \in Asleep : worker' = [worker EXCEPT ![w] = "test"]
       \/ Asleep = {} /\ UNCHANGED worker
    /\ UNCHANGED <<accepted, tasks, stop, task, producer, done>>

NotifyAll(c) ==
    /\ closer[c] = "notify"
    /\ closer' = [closer EXCEPT ![c] = "join"]
    /\ worker' = [w \in Workers |-> IF w \in Asleep THEN "test" ELSE worker[w]]
    /\ UNCHANGED <<accepted, tasks, stop, task, producer, done>>

Join(c) ==
    /\ closer[c] = "join"
    /\ \A w \in Workers : worker[w] = "exited"
    /\ closer' = [closer EXCEPT ![c] = "returned"]
    /\ UNCHANGED <<accepted, tasks, stop, worker, task, producer, done>>

-----------------------------------------------------------------------------
Worker(w) == Sleep(w) \/ Take(w) \/ Finish(w) \/ Exit(w)

Next == \/ \E p \in Producers : Enqueue(p) \/ NotifyOne(p)
        \/ \E w \in Workers : Worker(w) \/ SpuriousWakeup(w)
        \/ \E c \in Closers : Shutdown(c) \/ NotifyAll(c) \/ Join(c)

Spec == Init /\ [][Next]_vars

\* Threads get to run and tasks return; nobody has to enqueue or shut down,
\* and no worker may count on a spurious wakeup.
FairSpec ==
    /\ Spec
    /\ \A p \in Producers : WF_vars(NotifyOne(p))
    /\ \A w \in Workers : WF_vars(Worker(w))
    /\ \A c \in Closers : WF_vars(NotifyAll(c) \/ Join(c))

-----------------------------------------------------------------------------
(* Properties.                                                             *)

\* While tasks are queued a worker is on its way to the queue or a producer
\* still owes a notify_one: calling it outside the mutex loses no wakeup.
NoLostWakeup ==
    tasks # <<>> => \/ \E p \in Producers : producer[p] = "notify"
                    \/ \E w \in Workers : worker[w] \in {"test", "run"}

\* Once the pool is stopped and its notify_all is out, no worker sleeps (it
\* would never be woken again, and shutdown would join it for ever).
StopSeen ==
    stop /\ (\A c \in Closers : closer[c] # "notify") => Asleep = {}

\* The shutdown that does the joining returns only when every accepted task
\* has run and every worker is gone.
DrainedOnReturn ==
    (\E c \in Closers : closer[c] = "returned") =>
        /\ done = 1..accepted
        /\ \A w \in Workers : worker[w] = "exited"

\* The refinement to Executor.
Abstract == INSTANCE Executor WITH
    started <- accepted - Len(tasks),
    phase <- IF \E c \in Closers : closer[c] = "returned" THEN "closed"
             ELSE IF stop THEN "closing" ELSE "open"

\* The pool takes only the steps Executor allows: tasks start in the order in
\* which enqueue accepted them, each runs exactly once, none is accepted after
\* shutdown, and shutdown does not return before the last one.
ExecutorSteps == Abstract!SafeSpec

\* And it implements Executor with its fairness: whatever was accepted is run,
\* and a shutdown that was called returns.
ImplementsExecutor == Abstract!Spec
=============================================================================
