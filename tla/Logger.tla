------------------------------- MODULE Logger -------------------------------
(***************************************************************************)
(* The asynchronous logger (logger.cpp) and its queue (lockqueue.h).       *)
(*                                                                         *)
(* Log looks at _shutdown under the lifecycle mutex and then pushes its    *)
(* line; a full queue drops its oldest line and counts it.  A consumer     *)
(* thread pops a line, writes how many were dropped since it last said so, *)
(* and writes the line.  Shutdown stops the queue and joins the consumer,  *)
(* holding the lifecycle mutex all the while.                              *)
(*                                                                         *)
(* A line is its number in the order of the pushes.  Init, which names the *)
(* file before anybody logs, and the rotation of files are left out; so is *)
(* a file that cannot be opened.  Next is that of a module that logs.      *)
(*                                                                         *)
(* Definitions whose names begin with Mut are faulty variants, against     *)
(* which the properties are tried; no behaviour of the module uses them.   *)
(***************************************************************************)
EXTENDS Naturals, Sequences

CONSTANTS
    Writers,  \* the threads that log
    Capacity, \* CHATSERVER_LOG_QUEUE_CAP, 0: unbounded
    Nobody    \* not a thread

ASSUME CapacityAssumption == Capacity \in Nat
ASSUME NobodyAssumption == Nobody \notin Writers

VARIABLES
    log,      \* where a thread stands in Log
    lines,    \* _queue
    dropped,  \* _dropped
    shutdown, \* _shutdown, and _stop, which is set while the mutex is held
    holder,   \* who holds the lifecycle mutex over a step
    consumer, \* where the consumer stands
    hand,     \* the line it has popped
    reported, \* reportedDropped
    file,     \* history: the lines written, each with what was reported before it
    pushed    \* history: how many lines were pushed

logVars == <<log, lines, dropped, shutdown, holder, consumer, hand, reported, file, pushed>>

LoggerTypeOK ==
    /\ log \in [Writers -> {"out", "check", "push"}]
    /\ lines \in Seq(Nat) /\ (Capacity # 0 => Len(lines) <= Capacity)
    /\ dropped \in Nat /\ reported \in Nat /\ pushed \in Nat /\ hand \in Nat
    /\ shutdown \in BOOLEAN
    /\ holder \in Writers \cup {Nobody}
    /\ consumer \in {"pop", "write", "done"}
    /\ file \in Seq([line : Nat, noted : Nat])

LoggerInit ==
    /\ log = [w \in Writers |-> "out"]
    /\ lines = <<>> /\ dropped = 0 /\ shutdown = FALSE /\ holder = Nobody
    /\ consumer = "pop" /\ hand = 0 /\ reported = 0
    /\ file = <<>> /\ pushed = 0

-----------------------------------------------------------------------------
(* Log.                                                                    *)

\* A thread that logs goes on when log is "out" again.
Call(w) == log' = [log EXCEPT ![w] = "check"]

\* IsShutdown waits for the lifecycle mutex.
CheckShutdown(w) ==
    /\ log[w] = "check" /\ holder = Nobody
    /\ log' = [log EXCEPT ![w] = IF shutdown THEN "out" ELSE "push"]
    /\ UNCHANGED <<lines, dropped, shutdown, holder, consumer, hand, reported, file, pushed>>

Full == Capacity # 0 /\ Len(lines) >= Capacity

MutPushUnbounded(w) ==
    /\ log[w] = "push"
    /\ log' = [log EXCEPT ![w] = "out"]
    /\ lines' = Append(lines, pushed + 1) /\ pushed' = pushed + 1
    /\ UNCHANGED <<dropped, shutdown, holder, consumer, hand, reported, file>>

MutPushStopped(w) ==
    /\ log[w] = "push"
    /\ log' = [log EXCEPT ![w] = "out"]
    /\ lines' = Append(IF Full THEN Tail(lines) ELSE lines, pushed + 1)
    /\ dropped' = IF Full THEN dropped + 1 ELSE dropped
    /\ pushed' = pushed + 1
    /\ UNCHANGED <<shutdown, holder, consumer, hand, reported, file>>

\* A line that comes after Stop is not taken, and not counted.
Push(w) ==
    /\ log[w] = "push"
    /\ log' = [log EXCEPT ![w] = "out"]
    /\ IF shutdown THEN UNCHANGED <<lines, dropped, pushed>>
       ELSE /\ lines' = Append(IF Full THEN Tail(lines) ELSE lines, pushed + 1)
            /\ dropped' = IF Full THEN dropped + 1 ELSE dropped
            /\ pushed' = pushed + 1
    /\ UNCHANGED <<shutdown, holder, consumer, hand, reported, file>>

-----------------------------------------------------------------------------
(* The consumer.                                                           *)

MutPopNeverStops ==
    /\ consumer = "pop" /\ lines # <<>>
    /\ hand' = Head(lines) /\ lines' = Tail(lines) /\ consumer' = "write"
    /\ UNCHANGED <<log, dropped, shutdown, holder, reported, file, pushed>>

\* Once stopped, Pop fails when nothing is left.
Pop ==
    /\ consumer = "pop"
    /\ \/ /\ lines # <<>>
          /\ hand' = Head(lines) /\ lines' = Tail(lines) /\ consumer' = "write"
       \/ /\ lines = <<>> /\ shutdown
          /\ consumer' = "done"
          /\ UNCHANGED <<hand, lines>>
    /\ UNCHANGED <<log, dropped, shutdown, holder, reported, file, pushed>>

MutNoteAfterLine ==
    /\ consumer = "write"
    /\ file' = Append(file, [line |-> hand, noted |-> reported])
    /\ reported' = dropped
    /\ consumer' = "pop" /\ hand' = 0
    /\ UNCHANGED <<log, lines, dropped, shutdown, holder, pushed>>

\* The note, if any, and the line.
Write ==
    /\ consumer = "write"
    /\ reported' = dropped
    /\ file' = Append(file, [line |-> hand, noted |-> dropped])
    /\ consumer' = "pop" /\ hand' = 0
    /\ UNCHANGED <<log, lines, dropped, shutdown, holder, pushed>>

Consumer == Pop \/ Write

-----------------------------------------------------------------------------
(* Shutdown, by thread w.                                                  *)

BeginShutdown(w) ==
    /\ holder = Nobody /\ ~shutdown
    /\ holder' = w /\ shutdown' = TRUE
    /\ UNCHANGED <<log, lines, dropped, consumer, hand, reported, file, pushed>>

\* The consumer is joined, and the mutex released.
EndShutdown(w) ==
    /\ holder = w /\ consumer = "done"
    /\ holder' = Nobody
    /\ UNCHANGED <<log, lines, dropped, shutdown, consumer, hand, reported, file, pushed>>

-----------------------------------------------------------------------------
(* Properties.                                                             *)

\* Lines are written in the order in which they were pushed, and whenever some
\* are missing before a line, because the queue was full, the note that says
\* how many stands before that line too; no note counts a line that was not
\* dropped.
GapsReported ==
    \A i \in 1..Len(file) :
        /\ \A j \in 1..(i - 1) : file[j].line < file[i].line
        /\ file[i].line - i <= file[i].noted
        /\ file[i].noted <= dropped

\* "Drain the log queue and close the consumer thread" (logger.h:25): when
\* Shutdown returns, every line that was pushed, by whichever thread and
\* however late, is in the file or in the count of a note that is.
LogComplete ==
    shutdown /\ holder = Nobody => lines = <<>> /\ Len(file) + reported = pushed
=============================================================================
