-------------------------- MODULE ThreadPoolProofs --------------------------
(* Proofs about ThreadPool: any number of producers and closers, any         *)
(* non-empty pool, any bound on the queue.                                   *)
EXTENDS ThreadPool, TLAPS

USE QueueAssumption, WorkersAssumption, TasksAssumption

-----------------------------------------------------------------------------
(* The inductive invariant.                                                  *)

\* How many tasks have left the queue.
Started == accepted - Len(tasks)

\* The queue holds the youngest tasks, in order.
Ordered == /\ Started \in 0..accepted
           /\ \A i \in 1..Len(tasks) : tasks[i] = Started + i

\* A started task is running or done, never both, and on one worker only.
Conserved ==
    /\ done \subseteq 1..Started
    /\ \A w \in Workers : worker[w] = "run" => task[w] \in (1..Started) \ done
    /\ \A v, w \in Workers :
           worker[v] = "run" /\ worker[w] = "run" /\ task[v] = task[w] => v = w
    /\ \A k \in 1..Started :
           k \in done \/ \E w \in Workers : worker[w] = "run" /\ task[w] = k

\* Workers exit only from a stopped, empty pool; a closer past its first step
\* has stopped the pool; one that returned has joined everybody.
Leaving ==
    /\ \A w \in Workers : worker[w] = "exited" => stop /\ tasks = <<>>
    /\ \A c \in Closers : closer[c] # "ready" => stop
    /\ \A c \in Closers :
           closer[c] = "returned" => \A w \in Workers : worker[w] = "exited"

IInv == TypeOK /\ Ordered /\ Conserved /\ Leaving /\ NoLostWakeup /\ StopSeen

\* What enqueue does to the queue.
LEMMA Appended ==
    ASSUME NEW q \in Seq(1..MaxTasks), NEW k \in 1..MaxTasks
    PROVE  /\ Append(q, k) \in Seq(1..MaxTasks)
           /\ Len(q) \in Nat
           /\ Len(Append(q, k)) = Len(q) + 1
           /\ \A i \in 1..Len(Append(q, k)) :
                  Append(q, k)[i] = IF i = Len(q) + 1 THEN k ELSE q[i]
<1>1. Append(q, k) \in Seq(1..MaxTasks) /\ Len(q) \in Nat
  OBVIOUS
<1>2. Len(Append(q, k)) = Len(q) + 1
  OBVIOUS
<1>3. \A i \in 1..Len(q) : Append(q, k)[i] = q[i]
  OBVIOUS
<1>4. Append(q, k)[Len(q) + 1] = k
  OBVIOUS
<1> QED BY <1>1, <1>2, <1>3, <1>4

\* What a worker does to the queue.
LEMMA Removed ==
    ASSUME NEW q \in Seq(1..MaxTasks), q # <<>>
    PROVE  /\ Tail(q) \in Seq(1..MaxTasks)
           /\ Head(q) = q[1] /\ q[1] \in 1..MaxTasks
           /\ Len(q) \in Nat \ {0}
           /\ Len(Tail(q)) = Len(q) - 1
           /\ \A i \in 1..Len(Tail(q)) : Tail(q)[i] = q[i + 1]
OBVIOUS

\* The initial state satisfies the invariant.
LEMMA InvInit == Init => IInv
<1> SUFFICES ASSUME Init PROVE IInv
  OBVIOUS
<1>0. <<>> \in Seq(1..MaxTasks) /\ Len(<<>>) = 0
  OBVIOUS
<1>1. TypeOK
  <2>1. accepted \in 0..MaxTasks /\ tasks \in Seq(1..MaxTasks) /\ Len(tasks) <= MaxQueue
    BY <1>0 DEF Init
  <2>2. worker \in [Workers -> {"test", "asleep", "run", "exited"}]
    BY DEF Init
  <2>3. task \in [Workers -> 0..MaxTasks]
    BY DEF Init
  <2>4. /\ producer \in [Producers -> {"ready", "notify"}]
        /\ closer \in [Closers -> {"ready", "notify", "join", "returned", "late"}]
    BY DEF Init
  <2> QED BY <2>1, <2>2, <2>3, <2>4 DEF Init, TypeOK
<1>2. Ordered /\ Conserved
  <2>1. Len(tasks) = 0 /\ accepted = 0 /\ Started = 0
    <3>1. Len(tasks) = 0
      BY <1>0, Zenon DEF Init
    <3>2. accepted = 0
      BY DEF Init
    <3> QED BY <3>1, <3>2 DEF Started
  <2>2. Ordered
    BY <2>1 DEF Ordered
  <2>3. Conserved
    BY <2>1 DEF Init, Conserved
  <2> QED BY <2>2, <2>3
<1>3. Leaving /\ NoLostWakeup /\ StopSeen
  BY DEF Init, Leaving, NoLostWakeup, StopSeen, Asleep
<1> QED BY <1>1, <1>2, <1>3 DEF IInv

\* enqueue keeps the invariant: it leaves its producer owing a notify_one.
LEMMA InvEnqueue ==
    ASSUME IInv, NEW p \in Producers, Enqueue(p)
    PROVE  IInv'
<1> USE DEF IInv
<1>1. /\ tasks \in Seq(1..MaxTasks) /\ accepted + 1 \in 1..MaxTasks
      /\ accepted \in Nat /\ tasks' = Append(tasks, accepted + 1)
      /\ accepted' = accepted + 1 /\ ~stop /\ Len(tasks) < MaxQueue
      /\ producer' = [producer EXCEPT ![p] = "notify"]
      /\ UNCHANGED <<stop, worker, task, closer, done>>
  BY DEF Enqueue, TypeOK
<1>2. /\ tasks' \in Seq(1..MaxTasks) /\ Len(tasks) \in Nat
      /\ Len(tasks') = Len(tasks) + 1
      /\ \A i \in 1..Len(tasks') :
            tasks'[i] = IF i = Len(tasks) + 1 THEN accepted + 1 ELSE tasks[i]
  BY <1>1, Appended
<1>3. TypeOK'
  BY <1>1, <1>2 DEF TypeOK
<1>4. Started' = Started
  BY <1>1, <1>2 DEF Started
<1>5. Ordered'
  BY <1>1, <1>2, <1>4 DEF Ordered, Started
<1>6. Conserved'
  BY <1>1, <1>4 DEF Conserved
<1>7. Leaving' /\ StopSeen'
  BY <1>1 DEF Leaving, StopSeen, Asleep
<1>8. NoLostWakeup'
  BY <1>1 DEF NoLostWakeup, TypeOK
<1> QED BY <1>3, <1>5, <1>6, <1>7, <1>8

\* notify_one keeps the invariant: it wakes a worker, or all are awake.
LEMMA InvNotifyOne ==
    ASSUME IInv, NEW p \in Producers, NotifyOne(p)
    PROVE  IInv'
<1> USE DEF IInv
<1>1. /\ producer' = [producer EXCEPT ![p] = "ready"]
      /\ UNCHANGED <<accepted, tasks, stop, task, closer, done>>
  BY DEF NotifyOne
<1>2. Started' = Started
  BY <1>1 DEF Started
<1>3. CASE Asleep = {} /\ UNCHANGED worker
  <2>1. TypeOK' /\ Ordered' /\ Conserved' /\ Leaving' /\ StopSeen'
    BY <1>1, <1>2, <1>3 DEF TypeOK, Ordered, Conserved, Leaving, StopSeen, Asleep
  <2>2. NoLostWakeup'
    BY <1>1, <1>3 DEF NoLostWakeup, Asleep, TypeOK, Leaving
  <2> QED BY <2>1, <2>2
<1>4. ASSUME NEW w \in Asleep, worker' = [worker EXCEPT ![w] = "test"]
      PROVE  IInv'
  <2>1. w \in Workers /\ worker[w] = "asleep" /\ worker'[w] = "test"
    BY <1>4 DEF Asleep, TypeOK
  <2>2. \A v \in Workers : v # w => worker'[v] = worker[v]
    BY <1>4 DEF TypeOK
  <2>3. TypeOK' /\ Ordered' /\ NoLostWakeup'
    BY <1>1, <1>2, <1>4, <2>1 DEF TypeOK, Ordered, NoLostWakeup
  <2>4. Conserved'
    BY <1>1, <1>2, <2>1, <2>2 DEF Conserved
  <2>5. Leaving' /\ StopSeen'
    BY <1>1, <2>1, <2>2 DEF Leaving, StopSeen, Asleep
  <2> QED BY <2>3, <2>4, <2>5
<1> QED BY <1>3, <1>4 DEF NotifyOne

\* Falling asleep, waking and exiting keep the invariant.
LEMMA InvWait ==
    ASSUME IInv, NEW w \in Workers, Sleep(w) \/ SpuriousWakeup(w) \/ Exit(w)
    PROVE  IInv'
<1> USE DEF IInv
<1>1. /\ UNCHANGED <<accepted, tasks, stop, task, producer, closer, done>>
      /\ Started' = Started
  BY DEF Sleep, SpuriousWakeup, Exit, Started
<1>2. /\ worker[w] \in {"test", "asleep"} /\ worker'[w] \in {"asleep", "test", "exited"}
      /\ \A v \in Workers : v # w => worker'[v] = worker[v]
      /\ worker' \in [Workers -> {"test", "asleep", "run", "exited"}]
      /\ worker'[w] = "asleep" => tasks = <<>> /\ ~stop
      /\ worker'[w] = "exited" => tasks = <<>> /\ stop
  BY DEF Sleep, SpuriousWakeup, Exit, TypeOK
<1>3. TypeOK' /\ Ordered'
  BY <1>1, <1>2 DEF TypeOK, Ordered
<1>4. Conserved'
  BY <1>1, <1>2 DEF Conserved
<1>5. Leaving'
  BY <1>1, <1>2 DEF Leaving
<1>6. NoLostWakeup'
  BY <1>1, <1>2 DEF NoLostWakeup
<1>7. StopSeen'
  BY <1>1, <1>2 DEF StopSeen, Asleep
<1> QED BY <1>3, <1>4, <1>5, <1>6, <1>7

\* Taking a task keeps the invariant: it is the oldest, and nobody has run it.
LEMMA InvTake ==
    ASSUME IInv, NEW w \in Workers, Take(w)
    PROVE  IInv' /\ Started' = Started + 1
<1> USE DEF IInv
<1>1. /\ worker[w] = "test" /\ tasks # <<>>
      /\ task' = [task EXCEPT ![w] = Head(tasks)] /\ tasks' = Tail(tasks)
      /\ worker' = [worker EXCEPT ![w] = "run"]
      /\ UNCHANGED <<accepted, stop, producer, closer, done>>
      /\ tasks \in Seq(1..MaxTasks) /\ accepted \in Nat
  BY DEF Take, TypeOK
<1>2. /\ tasks' \in Seq(1..MaxTasks) /\ Len(tasks) \in Nat \ {0}
      /\ Len(tasks') = Len(tasks) - 1
      /\ Head(tasks) = tasks[1] /\ tasks[1] \in 1..MaxTasks
      /\ \A i \in 1..Len(tasks') : tasks'[i] = tasks[i + 1]
  BY <1>1, Removed
<1>3. Started' = Started + 1 /\ Started \in Nat /\ tasks[1] = Started + 1
  BY <1>1, <1>2 DEF Started, Ordered
<1>4. /\ worker'[w] = "run" /\ task'[w] = Started + 1
      /\ \A v \in Workers : v # w => worker'[v] = worker[v] /\ task'[v] = task[v]
  BY <1>1, <1>2, <1>3 DEF TypeOK
<1>5. TypeOK'
  BY <1>1, <1>2 DEF TypeOK
<1>6. Ordered'
  BY <1>1, <1>2, <1>3 DEF Ordered, Started
<1>7. Conserved'
  <2>1. done' \subseteq 1..Started' /\ done \subseteq 1..Started
    BY <1>1, <1>3 DEF Conserved
  <2>2. \A v \in Workers : worker'[v] = "run" => task'[v] \in (1..Started') \ done'
    BY <1>1, <1>3, <1>4, <2>1 DEF Conserved
  <2>3. \A u, v \in Workers :
            worker'[u] = "run" /\ worker'[v] = "run" /\ task'[u] = task'[v] => u = v
    BY <1>3, <1>4 DEF Conserved
  <2>4. \A k \in 1..Started' :
            k \in done' \/ \E v \in Workers : worker'[v] = "run" /\ task'[v] = k
    <3> SUFFICES ASSUME NEW k \in 1..Started'
                 PROVE  k \in done' \/ \E v \in Workers : worker'[v] = "run" /\ task'[v] = k
      OBVIOUS
    <3>1. CASE k = Started + 1
      BY <1>4, <3>1
    <3>2. CASE k \in 1..Started
      BY <1>1, <1>4, <3>2 DEF Conserved
    <3> QED BY <1>3, <3>1, <3>2
  <2> QED BY <2>1, <2>2, <2>3, <2>4 DEF Conserved
<1>8. Leaving'
  BY <1>1, <1>4 DEF Leaving
<1>9. NoLostWakeup' /\ StopSeen'
  BY <1>1, <1>4 DEF NoLostWakeup, StopSeen, Asleep
<1> QED BY <1>3, <1>5, <1>6, <1>7, <1>8, <1>9

\* Finishing a task keeps the invariant, and the task was not done before.
LEMMA InvFinish ==
    ASSUME IInv, NEW w \in Workers, Finish(w)
    PROVE  IInv' /\ task[w] \in (1..Started) \ done /\ Started' = Started
<1> USE DEF IInv
<1>1. /\ worker[w] = "run" /\ done' = done \cup {task[w]}
      /\ task' = [task EXCEPT ![w] = 0] /\ worker' = [worker EXCEPT ![w] = "test"]
      /\ UNCHANGED <<accepted, tasks, stop, producer, closer>>
      /\ Started' = Started
  BY DEF Finish, Started
<1>2. task[w] \in (1..Started) \ done
  BY <1>1 DEF Conserved
<1>3. /\ worker'[w] = "test"
      /\ \A v \in Workers : v # w => worker'[v] = worker[v] /\ task'[v] = task[v]
  BY <1>1 DEF TypeOK
<1>4. Started \in 0..accepted /\ accepted \in 0..MaxTasks
  BY DEF Ordered, TypeOK
<1>5. TypeOK' /\ Ordered'
  <2>1. task[w] \in 1..MaxTasks
    BY <1>2, <1>4
  <2>2. /\ done' \subseteq 1..MaxTasks
        /\ worker' \in [Workers -> {"test", "asleep", "run", "exited"}]
    BY <1>1, <2>1 DEF TypeOK
  <2>3. task' \in [Workers -> 0..MaxTasks]
    <3>1. task \in [Workers -> 0..MaxTasks] /\ 0 \in 0..MaxTasks
      BY DEF TypeOK
    <3> QED BY <1>1, <3>1
  <2> QED BY <1>1, <2>2, <2>3 DEF TypeOK, Ordered
<1>6. Conserved'
  <2>1. done' \subseteq 1..Started'
    BY <1>1, <1>2 DEF Conserved
  <2>2. \A v \in Workers : worker'[v] = "run" => task'[v] \in (1..Started') \ done'
    BY <1>1, <1>3 DEF Conserved
  <2>3. \A u, v \in Workers :
            worker'[u] = "run" /\ worker'[v] = "run" /\ task'[u] = task'[v] => u = v
    BY <1>1, <1>3 DEF Conserved
  <2>4. \A k \in 1..Started' :
            k \in done' \/ \E v \in Workers : worker'[v] = "run" /\ task'[v] = k
    BY <1>1, <1>3 DEF Conserved
  <2> QED BY <2>1, <2>2, <2>3, <2>4 DEF Conserved
<1>7. Leaving' /\ NoLostWakeup' /\ StopSeen'
  BY <1>1, <1>3 DEF Leaving, NoLostWakeup, StopSeen, Asleep
<1> QED BY <1>1, <1>2, <1>5, <1>6, <1>7

\* shutdown keeps the invariant.
LEMMA InvShutdown ==
    ASSUME IInv, NEW c \in Closers, Shutdown(c) \/ NotifyAll(c) \/ Join(c)
    PROVE  IInv'
<1> USE DEF IInv
<1>1. /\ UNCHANGED <<accepted, tasks, task, producer, done>>
      /\ Started' = Started
  BY DEF Shutdown, NotifyAll, Join, Started
<1>2. CASE Shutdown(c)
  <2>1. /\ UNCHANGED worker /\ stop' = TRUE
        /\ closer'[c] \in {"notify", "late"}
        /\ stop => closer'[c] = "late"
        /\ closer[c] = "ready"
        /\ ~stop => closer'[c] = "notify"
        /\ \A d \in Closers : d # c => closer'[d] = closer[d]
        /\ closer' \in [Closers -> {"ready", "notify", "join", "returned", "late"}]
    BY <1>2 DEF Shutdown, TypeOK
  <2>2. TypeOK' /\ Ordered' /\ Conserved' /\ NoLostWakeup'
    BY <1>1, <2>1 DEF TypeOK, Ordered, Conserved, NoLostWakeup
  <2>3. Leaving'
    BY <1>1, <2>1 DEF Leaving
  <2>4. StopSeen'
    BY <1>1, <2>1 DEF StopSeen, Asleep
  <2> QED BY <2>2, <2>3, <2>4
<1>3. CASE NotifyAll(c)
  <2>1. /\ UNCHANGED stop /\ closer[c] = "notify"
        /\ closer' = [closer EXCEPT ![c] = "join"]
        /\ \A w \in Workers :
              worker'[w] = IF worker[w] = "asleep" THEN "test" ELSE worker[w]
        /\ worker' \in [Workers -> {"test", "asleep", "run", "exited"}]
    BY <1>3 DEF NotifyAll, Asleep, TypeOK
  <2>2. TypeOK' /\ Ordered'
    BY <1>1, <2>1 DEF TypeOK, Ordered
  <2>3. Conserved'
    BY <1>1, <2>1 DEF Conserved
  <2>4. NoLostWakeup'
    BY <1>1, <2>1 DEF NoLostWakeup
  <2>5. Leaving' /\ StopSeen'
    BY <1>1, <2>1 DEF Leaving, StopSeen, Asleep, TypeOK
  <2> QED BY <2>2, <2>3, <2>4, <2>5
<1>4. CASE Join(c)
  <2>1. /\ UNCHANGED <<stop, worker>> /\ closer[c] = "join"
        /\ closer' = [closer EXCEPT ![c] = "returned"]
        /\ \A w \in Workers : worker[w] = "exited"
    BY <1>4 DEF Join
  <2>2. TypeOK' /\ Ordered' /\ Conserved' /\ NoLostWakeup'
    BY <1>1, <2>1 DEF TypeOK, Ordered, Conserved, NoLostWakeup
  <2>3. Leaving' /\ StopSeen'
    BY <1>1, <2>1 DEF Leaving, StopSeen, Asleep, TypeOK
  <2> QED BY <2>2, <2>3
<1> QED BY <1>2, <1>3, <1>4

\* The invariant holds in every reachable state.
THEOREM Invariant == Spec => []IInv
<1>1. ASSUME IInv, [Next]_vars PROVE IInv'
  <2>1. CASE UNCHANGED vars
    BY <1>1, <2>1 DEF IInv, vars, TypeOK, Ordered, Conserved, Leaving, NoLostWakeup,
                      StopSeen, Started, Asleep
  <2>2. CASE Next
    BY <1>1, <2>2, InvEnqueue, InvNotifyOne, InvWait, InvTake, InvFinish, InvShutdown
       DEF Next, Worker
  <2> QED BY <1>1, <2>1, <2>2
<1> QED BY InvInit, <1>1, PTL DEF Spec

-----------------------------------------------------------------------------
(* What follows from it.                                                     *)

\* Types are kept: the queue never exceeds its bound.
THEOREM TypeCorrect == Spec => []TypeOK
BY Invariant, PTL DEF IInv

\* No interleaving of the notify_one that enqueue calls outside the mutex with
\* the workers' waits leaves a task in the queue and everybody asleep.
THEOREM WakeupCorrect == Spec => []NoLostWakeup
BY Invariant, PTL DEF IInv

\* Nobody sleeps through a shutdown.
THEOREM StopCorrect == Spec => []StopSeen
BY Invariant, PTL DEF IInv

\* When shutdown has returned, every task ever accepted has run.
THEOREM DrainCorrect == Spec => []DrainedOnReturn
<1>1. ASSUME IInv, NEW c \in Closers, closer[c] = "returned"
      PROVE  done = 1..accepted /\ \A w \in Workers : worker[w] = "exited"
  <2>1. \A w \in Workers : worker[w] = "exited"
    BY <1>1 DEF IInv, Leaving
  <2>2. tasks = <<>>
    BY <1>1, <2>1 DEF IInv, Leaving
  <2>3. Started = accepted
    BY <1>1, <2>2 DEF IInv, TypeOK, Started
  <2> QED BY <1>1, <2>1, <2>3 DEF IInv, Conserved
<1>2. IInv => DrainedOnReturn
  BY <1>1 DEF DrainedOnReturn
<1> QED BY Invariant, <1>2, PTL

-----------------------------------------------------------------------------
(* Refinement: every step of the pool is a step of Executor or stutters.     *)

Phase == IF \E c \in Closers : closer[c] = "returned" THEN "closed"
         ELSE IF stop THEN "closing" ELSE "open"

\* Tasks start in the order of acceptance, run once, and shutdown returns last.
THEOREM Refinement == Spec => ExecutorSteps
<1> DEFINE absVars == <<accepted, Started, done, Phase>>
<1>1. Init => Abstract!Init
  <2> SUFFICES ASSUME Init PROVE Abstract!Init
    OBVIOUS
  <2>1. Len(tasks) = 0
    <3>1. Len(<<>>) = 0
      OBVIOUS
    <3> QED BY <3>1, Zenon DEF Init
  <2>2. accepted = 0 /\ done = {} /\ stop = FALSE
        /\ \A c \in Closers : closer[c] # "returned"
    BY DEF Init
  <2> QED BY <2>1, <2>2 DEF Abstract!Init
<1>2. ASSUME IInv, IInv', [Next]_vars
      PROVE  Abstract!Next \/ UNCHANGED absVars
  <2> USE DEF Abstract!Next
  <2>1. CASE UNCHANGED vars
    BY <2>1 DEF vars, Started, Phase
  <2>2. ASSUME NEW p \in Producers, Enqueue(p)
        PROVE  Abstract!Next
    <3>1. /\ ~stop /\ UNCHANGED <<stop, closer, done>> /\ accepted' = accepted + 1
          /\ tasks' = Append(tasks, accepted + 1)
      BY <2>2 DEF Enqueue
    <3>2. accepted' - Len(tasks') = accepted - Len(tasks)
      BY <1>2, <3>1 DEF IInv, TypeOK
    <3>3. \A c \in Closers : closer[c] = "ready"
      BY <1>2, <3>1 DEF IInv, Leaving
    <3>4. Abstract!Accept
      BY <3>1, <3>2, <3>3 DEF Abstract!Accept
    <3> QED BY <3>4
  <2>3. ASSUME NEW p \in Producers, NotifyOne(p)
        PROVE  UNCHANGED absVars
    BY <2>3 DEF NotifyOne, Started, Phase
  <2>4. ASSUME NEW w \in Workers, Sleep(w) \/ SpuriousWakeup(w) \/ Exit(w)
        PROVE  UNCHANGED absVars
    BY <2>4 DEF Sleep, SpuriousWakeup, Exit, Started, Phase
  <2>5. ASSUME NEW w \in Workers, Take(w)
        PROVE  Abstract!Next
    <3>1. Started' = Started + 1 /\ Started' \in 0..accepted'
      BY <1>2, <2>5, InvTake DEF IInv, Ordered
    <3>2. UNCHANGED <<accepted, done, stop, closer>> /\ accepted \in Nat
      BY <1>2, <2>5 DEF Take, IInv, TypeOK
    <3>3. Started < accepted /\ Started \in Nat
      BY <1>2, <3>1, <3>2 DEF IInv, Ordered
    <3>4. Abstract!Start
      BY <3>1, <3>2, <3>3 DEF Abstract!Start, Started
    <3> QED BY <3>4
  <2>6. ASSUME NEW w \in Workers, Finish(w)
        PROVE  Abstract!Next
    <3>1. task[w] \in (1..Started) \ done /\ Started' = Started
      BY <1>2, <2>6, InvFinish
    <3>2. done' = done \cup {task[w]} /\ UNCHANGED <<accepted, stop, closer>>
      BY <2>6 DEF Finish
    <3>3. Abstract!End
      BY <3>1, <3>2 DEF Abstract!End, Abstract!Running, Started
    <3> QED BY <3>3
  <2>7. ASSUME NEW c \in Closers, Shutdown(c)
        PROVE  Abstract!Next \/ UNCHANGED absVars
    <3>1. /\ UNCHANGED <<accepted, tasks, done>> /\ stop' = TRUE
          /\ closer[c] = "ready" /\ closer'[c] \in {"late", "notify"}
          /\ \A d \in Closers : d # c => closer'[d] = closer[d]
      BY <1>2, <2>7 DEF Shutdown, IInv, TypeOK
    <3>2. CASE stop
      BY <3>1, <3>2 DEF Started, Phase
    <3>3. CASE ~stop
      <4>1. \A d \in Closers : closer[d] = "ready"
        BY <1>2, <3>3 DEF IInv, Leaving
      <4>2. Abstract!Close
        BY <3>1, <3>3, <4>1 DEF Abstract!Close
      <4> QED BY <4>2
    <3> QED BY <3>2, <3>3
  <2>8. ASSUME NEW c \in Closers, NotifyAll(c)
        PROVE  UNCHANGED absVars
    <3>1. /\ UNCHANGED <<accepted, tasks, done, stop>>
          /\ closer[c] = "notify" /\ closer'[c] = "join"
          /\ \A d \in Closers : d # c => closer'[d] = closer[d]
      BY <1>2, <2>8 DEF NotifyAll, IInv, TypeOK
    <3> QED BY <3>1 DEF Started, Phase
  <2>9. ASSUME NEW c \in Closers, Join(c)
        PROVE  Abstract!Next \/ UNCHANGED absVars
    <3>1. /\ UNCHANGED <<accepted, tasks, done, stop>>
          /\ closer[c] = "join" /\ closer'[c] = "returned" /\ stop
          /\ \A d \in Closers : d # c => closer'[d] = closer[d]
      BY <1>2, <2>9 DEF Join, IInv, TypeOK, Leaving
    <3>2. done = 1..accepted
      <4>1. \A w \in Workers : worker[w] = "exited"
        BY <2>9 DEF Join
      <4>2. tasks = <<>>
        BY <1>2, <4>1 DEF IInv, Leaving
      <4>3. Started = accepted
        BY <1>2, <4>2 DEF IInv, TypeOK, Started
      <4> QED BY <1>2, <4>1, <4>3 DEF IInv, Conserved
    <3>3. CASE \E d \in Closers : closer[d] = "returned"
      BY <3>1, <3>3 DEF Started, Phase
    <3>4. CASE ~\E d \in Closers : closer[d] = "returned"
      <4>1. Abstract!Closed
        BY <3>1, <3>2, <3>4 DEF Abstract!Closed
      <4> QED BY <4>1
    <3> QED BY <3>3, <3>4
  <2> QED BY <1>2, <2>1, <2>2, <2>3, <2>4, <2>5, <2>6, <2>7, <2>8, <2>9
          DEF Next, Worker
<1>3. IInv /\ IInv' /\ [Next]_vars => [Abstract!Next]_(Abstract!vars)
  BY <1>2 DEF Abstract!vars, Started, Phase
<1> QED BY <1>1, <1>3, Invariant, PTL DEF Spec, ExecutorSteps, Abstract!SafeSpec
=============================================================================
