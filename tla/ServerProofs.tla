---------------------------- MODULE ServerProofs ----------------------------
(* Proofs about Server and the Logger it writes to: any connections, workers *)
(* and capacities, and any number of frames.                                 *)
EXTENDS Server, QueueFacts

-----------------------------------------------------------------------------
(* The logger's inductive invariant.                                         *)

InHand == IF consumer = "write" THEN 1 ELSE 0

\* Every line that was pushed is written, dropped, queued or in the consumer's
\* hand, and the queue holds the last of them.
Accounted == /\ pushed = Len(file) + dropped + Len(lines) + InHand
             /\ \A i \in 1..Len(lines) : lines[i] + Len(lines) = pushed + i

\* A line stands no further behind its place in the file than lines were
\* dropped; the one in hand is behind all that are written.
Behind == /\ \A i \in 1..Len(file) : file[i].line <= Len(file) + dropped
          /\ consumer = "write" => /\ hand <= Len(file) + 1 + dropped
                                   /\ \A i \in 1..Len(file) : file[i].line < hand

\* Lines that were dropped and not yet reported will be: a line comes after them.
Reported == dropped # reported => lines # <<>> \/ consumer = "write"

\* The consumer ends when nothing is left, and is joined before the mutex that
\* Shutdown holds is free again.
Drained == /\ consumer = "done" => shutdown /\ lines = <<>>
           /\ shutdown /\ holder = Nobody => consumer = "done"

LogInv == LoggerTypeOK /\ GapsReported /\ Accounted /\ Behind /\ Reported /\ Drained

-----------------------------------------------------------------------------
(* The logger.                                                               *)

\* What a step of the server does to the logger.
LogStep ==
    \/ UNCHANGED logVars
    \/ \E w \in Writers : (Call(w) /\ LoggerAtRest) \/ CheckShutdown(w) \/ Push(w)
    \/ Consumer \/ BeginShutdown(Main) \/ EndShutdown(Main)

\* The server's threads are writers, and use the logger as it is meant to be.
LEMMA LogSteps == [ServerNext]_vars => LogStep
<1> SUFFICES ASSUME [ServerNext]_vars PROVE LogStep
  OBVIOUS
<1>1. Conns \subseteq Writers /\ Workers \subseteq Writers /\ Main \in Writers
  BY ThreadsAssumption
<1>2. ASSUME NEW c \in Conns, Client(c) \/ OnMessage(c) \/ OnConnection(c) PROVE LogStep
  <2>1. CASE Client(c) \/ Receive(c) \/ CutEmpty(c) \/ QueueRequest(c)
             \/ QueueCleanup(c) \/ CleanupInline(c)
    BY <2>1 DEF Client, HangUp, SendFrame, Receive, CutEmpty, QueueRequest, QueueCleanup,
       CleanupInline, LogStep
  <2>2. CASE CutGarbled(c) \/ CutNameless(c) \/ RefuseRequest(c) \/ RefuseCleanup(c)
    BY <1>1, <2>2 DEF CutGarbled, CutNameless, RefuseRequest, RefuseCleanup, LogStep
  <2> QED BY <1>2, <2>1, <2>2 DEF OnMessage, OnConnection
<1>3. ASSUME NEW w \in Workers, Work(w) PROVE LogStep
  <2>1. CASE Take(w)
    BY <2>1 DEF Take, LogStep
  <2>2. CASE Finish(w)
    BY <1>1, <2>2 DEF Finish, LoggerAtRest, LogStep, logVars
  <2> QED BY <1>3, <2>1, <2>2 DEF Work
<1>4. ASSUME NEW w \in Writers, Logging(w) PROVE LogStep
  BY <1>4 DEF Logging, LogStep
<1>5. CASE Consuming
  BY <1>5 DEF Consuming, LogStep
<1>6. CASE Stop \/ Interrupt
  BY <1>1, <1>6 DEF Stop, Interrupt, Started, Stopped, MainLogs, ShutDownLogger, LoggerShutDown,
     PoolGone, LogStep
<1>7. CASE UNCHANGED vars
  BY <1>7 DEF vars, LogStep
<1> QED BY <1>2, <1>3, <1>4, <1>5, <1>6, <1>7 DEF ServerNext

\* What is written is numbers.
LEMMA Entries ==
    ASSUME NEW f \in Seq([line : Nat, noted : Nat])
    PROVE  Len(f) \in Nat /\ \A i \in 1..Len(f) : f[i].line \in Nat /\ f[i].noted \in Nat
<1>1. Len(f) \in Nat /\ \A i \in 1..Len(f) : f[i] \in [line : Nat, noted : Nat]
  BY Queue
<1> QED BY <1>1

\* At first nothing is logged.
LEMMA LogInit == LoggerInit => LogInv
<1> SUFFICES ASSUME LoggerInit PROVE LogInv
  OBVIOUS
<1>1. <<>> \in Seq(Nat) /\ <<>> \in Seq([line : Nat, noted : Nat]) /\ Len(<<>>) = 0 /\ 1..0 = {}
  BY EmptySeq
<1>2. LoggerTypeOK
  <2>1. log \in [Writers -> {"out", "check", "push"}]
    BY DEF LoggerInit
  <2>2. Capacity # 0 => Len(lines) <= Capacity
    BY <1>1, CapacityAssumption DEF LoggerInit
  <2>3. 0 \in Nat
    OBVIOUS
  <2> QED BY <1>1, <2>1, <2>2, <2>3 DEF LoggerInit, LoggerTypeOK
<1>3. GapsReported /\ Accounted /\ Behind
  BY <1>1 DEF LoggerInit, GapsReported, Accounted, Behind, InHand
<1>4. Reported /\ Drained
  BY DEF LoggerInit, Reported, Drained
<1> QED BY <1>2, <1>3, <1>4 DEF LogInv

\* A line is pushed, behind the oldest one's drop if the queue is full.
LEMMA PushKeeps ==
    ASSUME LogInv, NEW w \in Writers, Push(w)
    PROVE  LogInv'
<1>1. /\ lines \in Seq(Nat) /\ dropped \in Nat /\ pushed \in Nat /\ reported \in Nat
      /\ hand \in Nat /\ file \in Seq([line : Nat, noted : Nat])
      /\ Capacity \in Nat /\ (Capacity # 0 => Len(lines) <= Capacity)
      /\ Len(file) \in Nat
  BY CapacityAssumption, Queue DEF LogInv, LoggerTypeOK
<1>2. /\ UNCHANGED <<shutdown, holder, consumer, hand, reported, file>>
      /\ log' = [log EXCEPT ![w] = "out"]
  BY DEF Push
<1>3. CASE shutdown
  <2>1. UNCHANGED <<lines, dropped, pushed>>
    BY <1>3 DEF Push
  <2>2. LoggerTypeOK'
    BY <1>2, <2>1 DEF LogInv, LoggerTypeOK
  <2>3. GapsReported' /\ Accounted' /\ Behind' /\ Reported' /\ Drained'
    BY <1>2, <2>1 DEF LogInv, GapsReported, Accounted, Behind, Reported, Drained, InHand
  <2> QED BY <2>2, <2>3 DEF LogInv
<1>4. CASE ~shutdown
  <2> DEFINE kept == IF Full THEN Tail(lines) ELSE lines
  <2> DEFINE lost == IF Full THEN 1 ELSE 0
  <2>1. lines' = Append(kept, pushed + 1) /\ dropped' = dropped + lost /\ pushed' = pushed + 1
    BY <1>1, <1>4 DEF Push
  <2>2. Full => lines # <<>>
    BY <1>1, Queue DEF Full
  <2>3. /\ kept \in Seq(Nat) /\ lost \in {0, 1} /\ Len(kept) \in Nat
        /\ Len(kept) + lost = Len(lines) /\ Len(lines) \in Nat
        /\ \A i \in 1..Len(kept) : kept[i] = lines[i + lost]
        /\ Capacity # 0 => Len(kept) + 1 <= Capacity
    <3>1. CASE Full
      <4>1. /\ Tail(lines) \in Seq(Nat) /\ Len(lines) \in Nat /\ Len(lines) # 0
            /\ Len(Tail(lines)) = Len(lines) - 1
            /\ \A i \in 1..(Len(lines) - 1) : Tail(lines)[i] = lines[i + 1]
        BY <1>1, <2>2, <3>1, Popped
      <4> QED BY <1>1, <3>1, <4>1
    <3>2. CASE ~Full
      <4>1. Len(lines) \in Nat
        BY <1>1, Queue
      <4>2. \A i \in 1..Len(lines) : i + 0 = i
        OBVIOUS
      <4> QED BY <1>1, <3>2, <4>1, <4>2 DEF Full
    <3> QED BY <3>1, <3>2
  <2> HIDE DEF kept, lost
  <2>4. /\ lines' \in Seq(Nat) /\ lines' # <<>> /\ Len(lines') = Len(kept) + 1
        /\ lines'[Len(kept) + 1] = pushed + 1
        /\ \A i \in 1..Len(kept) : lines'[i] = kept[i]
    <3>1. pushed + 1 \in Nat
      BY <1>1
    <3> QED BY <2>1, <2>3, <3>1, Pushed
  <2>4a. /\ dropped \in Nat /\ pushed \in Nat /\ Len(file) \in Nat /\ Len(lines) \in Nat
         /\ Len(kept) \in Nat /\ lost \in Nat /\ Len(kept) + lost = Len(lines)
         /\ Len(lines') = Len(kept) + 1
    <3>1. lost \in Nat
      BY <2>3
    <3> QED BY <1>1, <2>3, <2>4, <3>1
  <2>5. LoggerTypeOK'
    <3>1. dropped' \in Nat /\ pushed' \in Nat /\ (Capacity # 0 => Len(lines') <= Capacity)
      BY <1>1, <2>1, <2>3, <2>4
    <3> QED BY <1>2, <2>4, <3>1 DEF LogInv, LoggerTypeOK
  <2>6. GapsReported'
    <3>1. \A i \in 1..Len(file) : file[i].noted \in Nat
      BY <1>1, Entries
    <3>2. dropped <= dropped'
      BY <1>1, <2>1, <2>3
    <3>3. \A i \in 1..Len(file) : file[i].noted <= dropped'
      BY <1>1, <2>1, <2>3, <3>1, <3>2 DEF LogInv, GapsReported
    <3> QED BY <1>2, <3>3 DEF LogInv, GapsReported
  <2>7. Accounted'
    <3>1. InHand' = InHand /\ InHand \in Nat
      BY <1>2 DEF InHand
    <3>2. pushed' = Len(file') + dropped' + Len(lines') + InHand'
      <4>1. pushed = Len(file) + dropped + Len(lines) + InHand
        BY DEF LogInv, Accounted
      <4>2. Len(file') = Len(file)
        BY <1>2
      <4>3. dropped' = dropped + lost /\ pushed' = pushed + 1
        BY <2>1
      <4> QED BY <2>4a, <3>1, <4>1, <4>2, <4>3
    <3>3. ASSUME NEW i \in 1..Len(lines') PROVE lines'[i] + Len(lines') = pushed' + i
      <4>1. CASE i = Len(kept) + 1
        BY <1>1, <2>1, <2>3, <2>4, <4>1
      <4>2. CASE i # Len(kept) + 1
        <5>1. i \in 1..Len(kept) /\ i + lost \in 1..Len(lines)
          BY <2>3, <2>4, <4>2
        <5>2. lines[i + lost] + Len(lines) = pushed + (i + lost)
          BY <5>1 DEF LogInv, Accounted
        <5>3. lines'[i] = lines[i + lost]
          BY <2>3, <2>4, <5>1
        <5>4. lines[i + lost] \in Nat
          BY <1>1, <5>1, Queue
        <5>5. i \in Nat /\ pushed' = pushed + 1
          BY <2>4a, <2>1, <5>1
        <5> QED BY <2>4a, <5>2, <5>3, <5>4, <5>5
      <4> QED BY <4>1, <4>2
    <3> QED BY <3>2, <3>3 DEF Accounted
  <2>8. Behind'
    <3>1. \A i \in 1..Len(file) : file[i].line \in Nat
      BY <1>1, Entries
    <3>2. \A i \in 1..Len(file) : file[i].line <= Len(file) + dropped'
      BY <1>1, <2>1, <2>3, <3>1 DEF LogInv, Behind
    <3>3. consumer = "write" => hand <= Len(file) + 1 + dropped'
      BY <1>1, <2>1, <2>3 DEF LogInv, Behind
    <3> QED BY <1>2, <3>2, <3>3 DEF LogInv, Behind
  <2>9. Reported' /\ Drained'
    BY <1>2, <1>4, <2>4 DEF LogInv, Reported, Drained
  <2> QED BY <2>5, <2>6, <2>7, <2>8, <2>9 DEF LogInv
<1> QED BY <1>3, <1>4

\* The consumer pops a line, or ends.
LEMMA PopKeeps ==
    ASSUME LogInv, Pop
    PROVE  LogInv'
<1>1. /\ lines \in Seq(Nat) /\ dropped \in Nat /\ pushed \in Nat /\ reported \in Nat
      /\ hand \in Nat /\ file \in Seq([line : Nat, noted : Nat])
      /\ Capacity \in Nat /\ (Capacity # 0 => Len(lines) <= Capacity)
      /\ Len(file) \in Nat
  BY CapacityAssumption, Queue DEF LogInv, LoggerTypeOK
<1>2. UNCHANGED <<log, dropped, shutdown, holder, reported, file, pushed>> /\ consumer = "pop"
  BY DEF Pop
<1>3. CASE lines = <<>>
  <2>1. UNCHANGED <<hand, lines>> /\ consumer' = "done" /\ shutdown
    BY <1>3 DEF Pop
  <2>2. LoggerTypeOK'
    BY <1>2, <2>1 DEF LogInv, LoggerTypeOK
  <2>3. GapsReported' /\ Accounted' /\ Behind' /\ Reported' /\ Drained'
    BY <1>2, <1>3, <2>1 DEF LogInv, GapsReported, Accounted, Behind, Reported, Drained, InHand
  <2> QED BY <2>2, <2>3 DEF LogInv
<1>4. CASE lines # <<>>
  <2>1. hand' = Head(lines) /\ lines' = Tail(lines) /\ consumer' = "write"
    BY <1>4 DEF Pop
  <2>2. /\ Head(lines) \in Nat /\ Head(lines) = lines[1] /\ Tail(lines) \in Seq(Nat)
        /\ Len(lines) \in Nat /\ Len(lines) # 0 /\ Len(Tail(lines)) = Len(lines) - 1
        /\ \A i \in 1..(Len(lines) - 1) : Tail(lines)[i] = lines[i + 1]
    BY <1>1, <1>4, Popped
  <2>3. LoggerTypeOK'
    BY <1>1, <1>2, <2>1, <2>2 DEF LogInv, LoggerTypeOK
  <2>4. Accounted'
    <3>1. InHand = 0 /\ InHand' = 1
      BY <1>2, <2>1 DEF InHand
    <3>2. pushed' = Len(file') + dropped' + Len(lines') + InHand'
      BY <1>1, <1>2, <2>1, <2>2, <3>1 DEF LogInv, Accounted
    <3>3. ASSUME NEW i \in 1..Len(lines') PROVE lines'[i] + Len(lines') = pushed' + i
      <4>1. i + 1 \in 1..Len(lines) /\ lines'[i] = lines[i + 1]
        BY <2>1, <2>2
      <4>2. lines[i + 1] + Len(lines) = pushed + (i + 1)
        BY <4>1 DEF LogInv, Accounted
      <4>3. lines[i + 1] \in Nat
        BY <1>1, <4>1, Queue
      <4>4. /\ Len(lines') = Len(lines) - 1 /\ i \in Nat /\ Len(lines) \in Nat
            /\ pushed' = pushed /\ pushed \in Nat
        BY <1>1, <1>2, <2>1, <2>2
      <4> QED BY <4>1, <4>2, <4>3, <4>4
    <3> QED BY <3>2, <3>3 DEF Accounted
  <2>5. Head(lines) = Len(file) + 1 + dropped
    <3>1. InHand = 0
      BY <1>2 DEF InHand
    <3>2. 1 \in 1..Len(lines)
      BY <2>2
    <3>3. lines[1] + Len(lines) = pushed + 1 /\ pushed = Len(file) + dropped + Len(lines) + 0
      BY <3>1, <3>2 DEF LogInv, Accounted
    <3> QED BY <1>1, <2>2, <3>3
  <2>6. Behind'
    <3>1. \A i \in 1..Len(file) : file[i].line \in Nat
      BY <1>1, Entries
    <3>2. \A i \in 1..Len(file) : file[i].line < Head(lines)
      BY <1>1, <2>5, <3>1 DEF LogInv, Behind
    <3> QED BY <1>1, <1>2, <2>1, <2>5, <3>2 DEF LogInv, Behind
  <2>7. GapsReported' /\ Reported' /\ Drained'
    BY <1>2, <1>4, <2>1 DEF LogInv, GapsReported, Reported, Drained
  <2> QED BY <2>3, <2>4, <2>6, <2>7 DEF LogInv
<1> QED BY <1>3, <1>4

\* The consumer writes the note and the line.
LEMMA WriteKeeps ==
    ASSUME LogInv, Write
    PROVE  LogInv'
<1>1. /\ lines \in Seq(Nat) /\ dropped \in Nat /\ pushed \in Nat
      /\ hand \in Nat /\ file \in Seq([line : Nat, noted : Nat]) /\ Len(file) \in Nat
      /\ Len(lines) \in Nat
  BY Queue DEF LogInv, LoggerTypeOK
<1> DEFINE entry == [line |-> hand, noted |-> dropped]
<1>2. /\ UNCHANGED <<log, lines, dropped, shutdown, holder, pushed>>
      /\ consumer = "write" /\ consumer' = "pop" /\ hand' = 0 /\ reported' = dropped
      /\ file' = Append(file, entry)
  BY DEF Write
<1>3. entry \in [line : Nat, noted : Nat] /\ entry.line = hand /\ entry.noted = dropped
  BY <1>1
<1> HIDE DEF entry
<1>4. /\ file' \in Seq([line : Nat, noted : Nat]) /\ Len(file') = Len(file) + 1
      /\ file'[Len(file) + 1] = entry /\ \A i \in 1..Len(file) : file'[i] = file[i]
  BY <1>1, <1>2, <1>3, Pushed
<1>5. \A i \in 1..Len(file') : i = Len(file) + 1 \/ i \in 1..Len(file)
  BY <1>1, <1>4
<1>6. \A i \in 1..Len(file) : file[i].line \in Nat /\ file[i].noted \in Nat
  BY <1>1, Entries
<1>7. LoggerTypeOK'
  BY <1>1, <1>2, <1>4 DEF LogInv, LoggerTypeOK
<1>8. hand <= Len(file) + 1 + dropped /\ \A i \in 1..Len(file) : file[i].line < hand
  BY <1>2 DEF LogInv, Behind
<1>9. GapsReported'
  <2> SUFFICES ASSUME NEW i \in 1..Len(file')
               PROVE  /\ \A j \in 1..(i - 1) : file'[j].line < file'[i].line
                      /\ file'[i].line - i <= file'[i].noted
                      /\ file'[i].noted <= dropped
    BY <1>2 DEF GapsReported
  <2>1. CASE i = Len(file) + 1
    <3>0. Len(file) \in Nat
      BY <1>1
    <3>1. \A j \in 1..(i - 1) : j \in 1..Len(file) /\ file'[j] = file[j]
      BY <1>4, <2>1, <3>0
    <3>2. file'[i].line = hand /\ file'[i].noted = dropped
      BY <1>3, <1>4, <2>1
    <3>3. hand - i <= dropped /\ dropped <= dropped
      BY <1>1, <1>8, <2>1
    <3> QED BY <1>8, <3>1, <3>2, <3>3
  <2>2. CASE i \in 1..Len(file)
    <3>0. Len(file) \in Nat
      BY <1>1
    <3>1. \A j \in 1..(i - 1) : j \in 1..Len(file)
      BY <2>2, <3>0
    <3> QED BY <1>4, <2>2, <3>1 DEF LogInv, GapsReported
  <2> QED BY <1>5, <2>1, <2>2
<1>10. Accounted'
  <2>1. InHand = 1 /\ InHand' = 0
    BY <1>2 DEF InHand
  <2>2. pushed' = Len(file') + dropped' + Len(lines') + InHand'
    BY <1>1, <1>2, <1>4, <2>1 DEF LogInv, Accounted
  <2> QED BY <1>2, <2>2 DEF LogInv, Accounted
<1>11. Behind'
  <2>1. \A i \in 1..Len(file) : file[i].line <= Len(file') + dropped
    <3>1. \A i \in 1..Len(file) : file[i].line <= Len(file) + dropped
      BY DEF LogInv, Behind
    <3>2. Len(file) \in Nat /\ dropped \in Nat /\ Len(file') = Len(file) + 1
      BY <1>1, <1>4
    <3> QED BY <1>6, <3>1, <3>2
  <2>2. \A i \in 1..Len(file') : file'[i].line <= Len(file') + dropped
    BY <1>1, <1>3, <1>4, <1>5, <1>8, <2>1
  <2> QED BY <1>2, <2>2 DEF Behind
<1>12. Reported' /\ Drained'
  BY <1>2 DEF LogInv, Reported, Drained
<1> QED BY <1>7, <1>9, <1>10, <1>11, <1>12 DEF LogInv

\* Every step of the server keeps the logger's invariant.
LEMMA LogKeeps ==
    ASSUME LogInv, LogStep
    PROVE  LogInv'
<1>1. CASE UNCHANGED logVars
  <2>1. UNCHANGED <<log, lines, dropped, shutdown, holder, consumer, hand, reported, file, pushed>>
    BY <1>1 DEF logVars
  <2>2. LoggerTypeOK'
    BY <2>1 DEF LogInv, LoggerTypeOK
  <2>3. GapsReported' /\ Accounted' /\ Behind' /\ Reported' /\ Drained'
    BY <2>1 DEF LogInv, GapsReported, Accounted, Behind, Reported, Drained, InHand
  <2> QED BY <2>2, <2>3 DEF LogInv
<1>2. ASSUME NEW w \in Writers, (Call(w) /\ LoggerAtRest) \/ CheckShutdown(w)
      PROVE  LogInv'
  <2>1. UNCHANGED <<lines, dropped, shutdown, holder, consumer, hand, reported, file, pushed>>
    BY <1>2 DEF LoggerAtRest, CheckShutdown
  <2>2. log' \in [Writers -> {"out", "check", "push"}]
    BY <1>2 DEF LogInv, LoggerTypeOK, Call, CheckShutdown
  <2>3. LoggerTypeOK'
    BY <2>1, <2>2 DEF LogInv, LoggerTypeOK
  <2>4. GapsReported' /\ Accounted' /\ Behind' /\ Reported' /\ Drained'
    BY <2>1 DEF LogInv, GapsReported, Accounted, Behind, Reported, Drained, InHand
  <2> QED BY <2>3, <2>4 DEF LogInv
<1>3. ASSUME BeginShutdown(Main) \/ EndShutdown(Main) PROVE LogInv'
  <2>1. UNCHANGED <<log, lines, dropped, consumer, hand, reported, file, pushed>>
    BY <1>3 DEF BeginShutdown, EndShutdown
  <2>2. Main \in Writers /\ Main # Nobody
    BY ThreadsAssumption, NobodyAssumption
  <2>3. LoggerTypeOK'
    BY <1>3, <2>1, <2>2 DEF LogInv, LoggerTypeOK, BeginShutdown, EndShutdown
  <2>4. GapsReported' /\ Accounted' /\ Behind' /\ Reported'
    BY <2>1 DEF LogInv, GapsReported, Accounted, Behind, Reported, InHand
  <2>5. Drained'
    BY <1>3, <2>1, <2>2 DEF LogInv, Drained, BeginShutdown, EndShutdown
  <2> QED BY <2>3, <2>4, <2>5 DEF LogInv
<1> QED BY <1>1, <1>2, <1>3, PushKeeps, PopKeeps, WriteKeeps DEF LogStep, Consumer

-----------------------------------------------------------------------------
(* The streams, and the server's inductive invariant.                        *)

\* The pieces left, of a stream of frames s of which f were cut off.
Stream(left, f, s) ==
    /\ \A i, j \in 1..Len(left) : i < j => left[i] < left[j]
    /\ {left[i] : i \in 1..Len(left)} =
          {p \in (2 * f + 1)..(2 * Len(s)) : EndsFrame(p) \/ s[FrameOf(p)] # "empty"}

\* The I/O thread cuts while there is a frame; behind the end of a connection
\* nothing is cut.
ConnInv(c) ==
    /\ Len(fate[c]) <= Len(sent[c])
    /\ link[c] = "closed" => io[c] = "idle"
    /\ io[c] = "cut" => HasFrame(buf[c])
    /\ link[c] # "closed" => Stream(buf[c] \o wire[c], Len(fate[c]), sent[c])
    /\ \A n \in 1..Len(fate[c]) : fate[c][n] = "skipped" <=> sent[c][n] # "request"

Fates == {"skipped", "queued", "refused"}

\* A task that runs a request of connection c.
Of(t, c) == t.conn = c /\ t.frame # Cleanup

\* Of the frames that ended as f says, those queued have begun, as b says, or
\* wait in ts, and in their order.
InTurn(b, ts, f, c) ==
    /\ \A i, j \in 1..Len(b) : i < j /\ b[i] # Cleanup /\ b[j] # Cleanup => b[i] < b[j]
    /\ \A i, j \in 1..Len(ts) : i < j /\ Of(ts[i], c) /\ Of(ts[j], c) => ts[i].frame < ts[j].frame
    /\ \A i \in 1..Len(b), j \in 1..Len(ts) : b[i] # Cleanup /\ Of(ts[j], c) => b[i] < ts[j].frame
    /\ \A n \in Nat : n # Cleanup =>
          ((\E i \in 1..Len(b) : b[i] = n) \/ (\E i \in 1..Len(ts) : Of(ts[i], c) /\ ts[i].frame = n)
              <=> n \in 1..Len(f) /\ f[n] = "queued")

Begun == \A c \in Conns : InTurn(begun[c], tasks, fate[c], c)

IInv == ServerTypeOK /\ LogInv /\ (\A c \in Conns : ConnInv(c)) /\ Begun

-----------------------------------------------------------------------------
(* Streams.                                                                  *)

\* A frame has one piece that ends it, the even one, and perhaps one before.
LEMMA PieceFacts ==
    ASSUME NEW n \in Nat
    PROVE  /\ EndsFrame(2 * n + 2) /\ FrameOf(2 * n + 2) = n + 1
           /\ ~EndsFrame(2 * n + 1) /\ FrameOf(2 * n + 1) = n + 1
           /\ \A p \in Nat : p > 0 /\ p <= 2 * n => FrameOf(p) \in 1..n
           /\ \A p \in Nat : p > 2 * n /\ EndsFrame(p) => p >= 2 * n + 2
<1>1. /\ EndsFrame(2 * n + 2) /\ FrameOf(2 * n + 2) = n + 1
      /\ ~EndsFrame(2 * n + 1) /\ FrameOf(2 * n + 1) = n + 1
  BY DEF EndsFrame, FrameOf
<1>2. ASSUME NEW p \in Nat, p > 0, p <= 2 * n PROVE FrameOf(p) \in 1..n
  BY <1>2 DEF FrameOf
<1>3. ASSUME NEW p \in Nat, p > 2 * n, EndsFrame(p) PROVE p >= 2 * n + 2
  BY <1>3 DEF EndsFrame
<1> QED BY <1>1, <1>2, <1>3

\* The first frame that ends in the buffer is the next one of the stream.
LEMMA FirstFrame ==
    ASSUME NEW b \in Seq(Nat), NEW w \in Seq(Nat), NEW f \in Nat, NEW s \in Seq(Kinds),
           Stream(b \o w, f, s), HasFrame(b)
    PROVE  /\ FirstEnd(b) \in 1..Len(b) /\ b[FirstEnd(b)] = 2 * f + 2
           /\ f + 1 <= Len(s)
<1> DEFINE left == b \o w
<1>1. /\ left \in Seq(Nat) /\ Len(left) = Len(b) + Len(w)
      /\ \A i \in 1..Len(b) : left[i] = b[i]
  BY Joined
<1>2. Len(b) \in Nat /\ Len(w) \in Nat /\ Len(s) \in Nat /\ \A i \in 1..Len(left) : left[i] \in Nat
  BY <1>1, Queue
<1>3. /\ \A i, j \in 1..Len(left) : i < j => left[i] < left[j]
      /\ {left[i] : i \in 1..Len(left)} =
            {p \in (2 * f + 1)..(2 * Len(s)) : EndsFrame(p) \/ s[FrameOf(p)] # "empty"}
  BY DEF Stream
<1> HIDE DEF left
<1>4. PICK k \in 1..Len(b) : EndsFrame(b[k])
  BY DEF HasFrame
<1>5. k \in 1..Len(left) /\ left[k] = b[k]
  BY <1>1, <1>2
<1>6. left[k] \in (2 * f + 1)..(2 * Len(s)) /\ left[k] \in Nat
  BY <1>2, <1>3, <1>5
<1>7. left[k] >= 2 * f + 2
  <2>1. left[k] > 2 * f
    BY <1>6
  <2> QED BY <1>4, <1>5, <1>6, <2>1, PieceFacts
<1>8. f + 1 <= Len(s) /\ 2 * f + 2 \in (2 * f + 1)..(2 * Len(s))
  BY <1>2, <1>6, <1>7
<1>9. PICK i \in 1..Len(left) : left[i] = 2 * f + 2
  BY <1>3, <1>8, PieceFacts
<1>10. i \in 1..Len(b)
  <2>1. CASE k < i
    <3>1. left[k] < left[i]
      BY <1>3, <1>5, <2>1
    <3> QED BY <1>6, <1>7, <1>9, <3>1
  <2>2. CASE ~(k < i)
    BY <1>1, <1>2, <2>2
  <2> QED BY <2>1, <2>2
<1>11. EndsFrame(b[i]) /\ b[i] = 2 * f + 2
  <2>1. b[i] = 2 * f + 2
    BY <1>1, <1>9, <1>10
  <2>2. EndsFrame(2 * f + 2)
    BY PieceFacts
  <2> QED BY <2>1, <2>2
<1>12. ASSUME NEW j \in 1..(i - 1) PROVE ~EndsFrame(b[j])
  <2>1. j \in 1..Len(b) /\ j \in 1..Len(left) /\ j < i /\ left[j] = b[j]
    <3>1. j \in 1..Len(b) /\ j < i
      BY <1>2, <1>10
    <3>2. j \in 1..(Len(b) + Len(w))
      BY <1>2, <3>1
    <3> QED BY <1>1, <3>1, <3>2
  <2>2. left[j] < 2 * f + 2
    BY <1>3, <1>9, <2>1
  <2>3. left[j] \in Nat /\ left[j] > 2 * f
    <3>1. left[j] \in (2 * f + 1)..(2 * Len(s)) /\ left[j] \in Nat
      BY <1>2, <1>3, <2>1
    <3> QED BY <3>1
  <2>4. ~(left[j] >= 2 * f + 2)
    BY <2>2, <2>3
  <2> QED BY <2>1, <2>3, <2>4, PieceFacts
<1> DEFINE First(e) == EndsFrame(b[e]) /\ \A j \in 1..(e - 1) : ~EndsFrame(b[j])
<1>13. First(i)
  BY <1>11, <1>12
<1>14. FirstEnd(b) = CHOOSE e \in 1..Len(b) : First(e)
  BY DEF FirstEnd
<1> HIDE DEF First
<1>15. FirstEnd(b) \in 1..Len(b) /\ First(FirstEnd(b))
  BY <1>10, <1>13, <1>14
<1>16. ASSUME NEW e \in 1..Len(b), First(e) PROVE e = i
  <2>1. CASE e < i
    <3>1. e \in 1..(i - 1)
      BY <1>2, <1>10, <2>1
    <3> QED BY <1>12, <1>16, <3>1 DEF First
  <2>2. CASE i < e
    <3>1. i \in 1..(e - 1)
      BY <1>2, <1>10, <2>2
    <3> QED BY <1>11, <1>16, <3>1 DEF First
  <2> QED BY <1>2, <1>10, <2>1, <2>2
<1> QED BY <1>8, <1>10, <1>11, <1>15, <1>16

\* What is left behind it is the stream of the frames that are left.
LEMMA StreamCut ==
    ASSUME NEW b \in Seq(Nat), NEW w \in Seq(Nat), NEW f \in Nat, NEW s \in Seq(Kinds),
           Stream(b \o w, f, s), HasFrame(b)
    PROVE  Stream(SubSeq(b, FirstEnd(b) + 1, Len(b)) \o w, f + 1, s)
<1> DEFINE left == b \o w
<1> DEFINE e == FirstEnd(b)
<1> DEFINE rest == SubSeq(b, e + 1, Len(b))
<1> DEFINE next == rest \o w
<1>1. e \in 1..Len(b) /\ b[e] = 2 * f + 2 /\ f + 1 <= Len(s)
  BY FirstFrame
<1>2. Len(b) \in Nat /\ Len(w) \in Nat /\ Len(s) \in Nat
  BY Queue
<1> HIDE DEF e
<1>3. /\ rest \in Seq(Nat) /\ Len(rest) = Len(b) - e
      /\ \A i \in 1..(Len(b) - e) : rest[i] = b[e + i]
  <2>1. e \in 0..Len(b)
    BY <1>1
  <2> QED BY <2>1, Suffix
<1> HIDE DEF rest
<1>4. /\ left \in Seq(Nat) /\ Len(left) = Len(b) + Len(w)
      /\ \A i \in 1..Len(b) : left[i] = b[i]
  BY Joined
<1>5. /\ next \in Seq(Nat) /\ Len(next) = Len(rest) + Len(w)
      /\ \A i \in 1..Len(rest) : next[i] = rest[i]
      /\ \A j \in 1..Len(w) : next[Len(rest) + j] = w[j]
  <2>1. rest \in Seq(Nat)
    BY <1>3
  <2> QED BY <2>1, Joined
<1>6. /\ \A i, j \in 1..Len(left) : i < j => left[i] < left[j]
      /\ {left[i] : i \in 1..Len(left)} =
            {p \in (2 * f + 1)..(2 * Len(s)) : EndsFrame(p) \/ s[FrameOf(p)] # "empty"}
  BY DEF Stream
<1>7. \A j \in 1..Len(w) : left[Len(b) + j] = w[j]
  BY Joined
<1> HIDE DEF left, next
<1>8. Len(next) = Len(left) - e /\ Len(next) \in Nat /\ Len(left) \in Nat /\ e \in 1..Len(left)
  BY <1>1, <1>2, <1>3, <1>4, <1>5
<1>9. ASSUME NEW k \in 1..Len(next) PROVE e + k \in 1..Len(left) /\ next[k] = left[e + k]
  <2>1. e + k \in 1..Len(left)
    BY <1>8
  <2>2. CASE k <= Len(rest)
    <3>1. k \in 1..Len(rest) /\ k \in 1..(Len(b) - e) /\ e + k \in 1..Len(b)
      BY <1>1, <1>2, <1>3, <2>2
    <3> QED BY <1>3, <1>4, <1>5, <2>1, <3>1
  <2>3. CASE ~(k <= Len(rest))
    <3>1. Len(rest) \in Nat /\ Len(rest) = Len(b) - e /\ Len(next) = Len(rest) + Len(w) /\ e \in Nat
      BY <1>1, <1>2, <1>3, <1>5
    <3>2. PICK j \in 1..Len(w) : k = Len(rest) + j /\ e + k = Len(b) + j
      <4>1. k - Len(rest) \in 1..Len(w) /\ e + k = Len(b) + (k - Len(rest)) /\ k = Len(rest) + (k - Len(rest))
        BY <1>2, <2>3, <3>1
      <4> QED BY <4>1
    <3> QED BY <1>5, <1>7, <2>1, <3>2
  <2> QED BY <2>2, <2>3
<1>10. left[e] = 2 * f + 2
  BY <1>1, <1>4
<1>11. ASSUME NEW i \in 1..Len(next), NEW j \in 1..Len(next), i < j PROVE next[i] < next[j]
  <2>1. e + i < e + j
    BY <1>8, <1>11
  <2> QED BY <1>6, <1>9, <2>1
<1>12. \A i \in 1..Len(left) : left[i] \in Nat
  BY <1>4, Queue
<1>13. ASSUME NEW k \in 1..Len(next)
       PROVE  next[k] \in {p \in (2 * (f + 1) + 1)..(2 * Len(s)) : EndsFrame(p) \/ s[FrameOf(p)] # "empty"}
  <2>1. left[e + k] \in {p \in (2 * f + 1)..(2 * Len(s)) : EndsFrame(p) \/ s[FrameOf(p)] # "empty"}
    BY <1>6, <1>9
  <2>2. left[e] < left[e + k]
    <3>1. e < e + k
      BY <1>8
    <3> QED BY <1>6, <1>8, <1>9, <3>1
  <2>3. left[e + k] \in (2 * (f + 1) + 1)..(2 * Len(s))
    <3>1. left[e + k] \in Nat /\ left[e + k] \in (2 * f + 1)..(2 * Len(s))
      BY <1>9, <1>12, <2>1
    <3> QED BY <1>2, <1>10, <2>2, <3>1
  <2> QED BY <1>9, <2>1, <2>3
<1>14. ASSUME NEW p \in (2 * (f + 1) + 1)..(2 * Len(s)), EndsFrame(p) \/ s[FrameOf(p)] # "empty"
       PROVE  \E k \in 1..Len(next) : next[k] = p
  <2>1. p \in (2 * f + 1)..(2 * Len(s)) /\ p > 2 * f + 2
    BY <1>2
  <2>2. PICK i \in 1..Len(left) : left[i] = p
    BY <1>6, <1>14, <2>1
  <2>3. e < i
    <3>1. CASE i < e
      <4>1. left[i] < left[e]
        BY <1>6, <1>8, <3>1
      <4> QED BY <1>10, <2>1, <2>2, <4>1
    <3>2. CASE i = e
      BY <1>10, <2>1, <2>2, <3>2
    <3> QED BY <1>8, <3>1, <3>2
  <2>4. i - e \in 1..Len(next) /\ e + (i - e) = i
    BY <1>8, <2>3
  <2> QED BY <1>9, <2>2, <2>4
<1>15. {next[k] : k \in 1..Len(next)} =
          {p \in (2 * (f + 1) + 1)..(2 * Len(s)) : EndsFrame(p) \/ s[FrameOf(p)] # "empty"}
  BY <1>13, <1>14
<1> QED BY <1>11, <1>15 DEF Stream, next, rest, e

\* A frame that is sent is put behind those that are left.
LEMMA StreamSent ==
    ASSUME NEW left \in Seq(Nat), NEW f \in Nat, NEW s \in Seq(Kinds), f <= Len(s),
           Stream(left, f, s), NEW kind \in Kinds
    PROVE  Stream(left \o Pieces(Len(s) + 1, kind), f, Append(s, kind))
<1> DEFINE n == Len(s)
<1> DEFINE more == Pieces(n + 1, kind)
<1> DEFINE next == left \o more
<1> DEFINE now == Append(s, kind)
<1>1. /\ n \in Nat /\ Len(left) \in Nat /\ Len(now) = n + 1 /\ now[n + 1] = kind
      /\ \A i \in 1..n : now[i] = s[i]
  BY Pushed, Queue
<1>2. 2 * (n + 1) = 2 * n + 2 /\ 2 * (n + 1) - 1 = 2 * n + 1
  BY <1>1
<1>3. more = IF kind = "empty" THEN <<2 * n + 2>> ELSE <<2 * n + 1, 2 * n + 2>>
  BY <1>2 DEF Pieces
<1>4. /\ \A i, j \in 1..Len(left) : i < j => left[i] < left[j]
      /\ {left[i] : i \in 1..Len(left)} =
            {p \in (2 * f + 1)..(2 * n) : EndsFrame(p) \/ s[FrameOf(p)] # "empty"}
  BY DEF Stream
<1>5. \A i \in 1..Len(left) : left[i] \in Nat
  BY Queue
<1> HIDE DEF more, now, n
<1>6. /\ more \in Seq(Nat) /\ (Len(more) = 1 \/ Len(more) = 2) /\ (Len(more) = 1 <=> kind = "empty")
      /\ kind = "empty" => more[1] = 2 * n + 2
      /\ kind # "empty" => more[1] = 2 * n + 1 /\ more[2] = 2 * n + 2
  <2>1. 2 * n + 1 \in Nat /\ 2 * n + 2 \in Nat
    BY <1>1
  <2>2. CASE kind = "empty"
    <3>1. more = <<2 * n + 2>>
      BY <1>3, <2>2
    <3> QED BY <2>1, <2>2, <3>1
  <2>3. CASE kind # "empty"
    <3>1. more = <<2 * n + 1, 2 * n + 2>>
      BY <1>3, <2>3
    <3> QED BY <2>1, <2>3, <3>1
  <2> QED BY <2>2, <2>3
<1>7. Len(more) \in Nat /\ Len(more) >= 1 /\ Len(more) <= 2
  <2> DEFINE m == Len(more)
  <2>1. m = 1 \/ m = 2
    BY <1>6
  <2> HIDE DEF m
  <2>2. m \in Nat /\ m >= 1 /\ m <= 2
    BY <2>1
  <2> QED BY <2>2 DEF m
<1>8. /\ next \in Seq(Nat) /\ Len(next) = Len(left) + Len(more)
      /\ \A i \in 1..Len(left) : next[i] = left[i]
      /\ \A i \in 1..Len(more) : next[Len(left) + i] = more[i]
  <2>1. more \in Seq(Nat)
    BY <1>6
  <2> QED BY <2>1, Joined
<1> HIDE DEF next
<1>9. \A i \in 1..Len(left) : i \in 1..Len(next) /\ left[i] <= 2 * n /\ left[i] \in Nat
  <2>1. \A i \in 1..Len(left) : left[i] \in (2 * f + 1)..(2 * n)
    BY <1>4
  <2>2. \A i \in 1..Len(left) : i \in 1..Len(next)
    BY <1>1, <1>7, <1>8
  <2> QED BY <1>1, <1>5, <2>1, <2>2
<1>10. \A i \in 1..Len(more) : /\ Len(left) + i \in 1..Len(next)
                               /\ more[i] \in {2 * n + 1, 2 * n + 2}
                               /\ more[i] = 2 * n + 1 => kind # "empty"
  <2>1. \A i \in 1..Len(more) : Len(left) + i \in 1..Len(next)
    <3>1. Len(left) \in Nat /\ Len(next) = Len(left) + Len(more)
      BY <1>1, <1>8
    <3> QED BY <1>7, <3>1
  <2>2. ASSUME NEW i \in 1..Len(more) PROVE i = 1 \/ (i = 2 /\ Len(more) # 1)
    <3> DEFINE m == Len(more)
    <3>1. m \in Nat /\ m >= 1 /\ m <= 2 /\ i \in 1..m
      BY <1>7
    <3> HIDE DEF m
    <3>2. i = 1 \/ (i = 2 /\ m # 1)
      BY <3>1
    <3> QED BY <3>2 DEF m
  <2>3. 2 * n + 1 # 2 * n + 2
    BY <1>1
  <2> QED BY <1>6, <2>1, <2>2, <2>3
<1>11. ASSUME NEW i \in 1..Len(next), i \notin 1..Len(left)
       PROVE  \E k \in 1..Len(more) : i = Len(left) + k
  <2>1. i - Len(left) \in 1..Len(more) /\ i = Len(left) + (i - Len(left))
    BY <1>1, <1>7, <1>8, <1>11
  <2> QED BY <2>1
<1>12. ASSUME NEW i \in 1..Len(next), NEW j \in 1..Len(next), i < j PROVE next[i] < next[j]
  <2>1. CASE j \in 1..Len(left)
    <3>1. i \in 1..Len(left)
      BY <1>1, <1>12, <2>1
    <3> QED BY <1>4, <1>8, <1>12, <2>1, <3>1
  <2>2. CASE j \notin 1..Len(left) /\ i \in 1..Len(left)
    <3>1. PICK k \in 1..Len(more) : j = Len(left) + k
      BY <1>11, <2>2
    <3>2. next[j] \in {2 * n + 1, 2 * n + 2} /\ next[i] <= 2 * n /\ next[i] \in Nat
      BY <1>8, <1>9, <1>10, <2>2, <3>1
    <3> QED BY <1>1, <3>2
  <2>3. CASE i \notin 1..Len(left) /\ j \notin 1..Len(left)
    <3>1. PICK k \in 1..Len(more) : i = Len(left) + k
      BY <1>11, <2>3
    <3>2. PICK l \in 1..Len(more) : j = Len(left) + l
      BY <1>11, <2>3
    <3>3. k = 1 /\ l = 2 /\ Len(more) = 2
      <4> DEFINE m == Len(more)
      <4> DEFINE at == Len(left)
      <4>1. at \in Nat /\ at + k < at + l /\ k \in 1..m /\ l \in 1..m /\ m \in Nat /\ m <= 2
        BY <1>1, <1>7, <1>12, <3>1, <3>2
      <4> HIDE DEF m, at
      <4>2. k = 1 /\ l = 2 /\ m = 2
        BY <4>1
      <4> QED BY <4>2 DEF m
    <3>4. next[i] = more[1] /\ next[j] = more[2]
      BY <1>8, <3>1, <3>2, <3>3
    <3>5. more[1] = 2 * n + 1 /\ more[2] = 2 * n + 2
      BY <1>6, <3>3
    <3> QED BY <1>1, <3>4, <3>5
  <2> QED BY <2>1, <2>2, <2>3
<1>13. ASSUME NEW p \in Nat, p > 0, p <= 2 * n
       PROVE  now[FrameOf(p)] = s[FrameOf(p)]
  <2>1. FrameOf(p) \in 1..n
    BY <1>1, <1>13, PieceFacts
  <2> QED BY <1>1, <2>1
<1>14. /\ EndsFrame(2 * n + 2) /\ now[FrameOf(2 * n + 1)] = kind
       /\ ~EndsFrame(2 * n + 1)
  <2>1. FrameOf(2 * n + 1) = n + 1 /\ EndsFrame(2 * n + 2) /\ ~EndsFrame(2 * n + 1)
    BY <1>1, PieceFacts
  <2> QED BY <1>1, <2>1
<1>15. ASSUME NEW i \in 1..Len(next)
       PROVE  /\ next[i] \in (2 * f + 1)..(2 * Len(now))
              /\ EndsFrame(next[i]) \/ now[FrameOf(next[i])] # "empty"
  <2>1. CASE i \in 1..Len(left)
    <3>1. /\ left[i] \in (2 * f + 1)..(2 * n)
          /\ EndsFrame(left[i]) \/ s[FrameOf(left[i])] # "empty"
      BY <1>4, <2>1
    <3>2. left[i] \in (2 * f + 1)..(2 * Len(now)) /\ left[i] \in Nat /\ left[i] > 0 /\ left[i] <= 2 * n
      BY <1>1, <3>1
    <3>3. next[i] = left[i]
      BY <1>8, <2>1
    <3>4. now[FrameOf(left[i])] = s[FrameOf(left[i])]
      BY <1>13, <3>2
    <3> QED BY <3>1, <3>2, <3>3, <3>4
  <2>2. CASE i \notin 1..Len(left)
    <3>1. PICK k \in 1..Len(more) : i = Len(left) + k
      BY <1>11, <2>2
    <3>2. next[i] = more[k] /\ more[k] \in {2 * n + 1, 2 * n + 2} /\ (more[k] = 2 * n + 1 => kind # "empty")
      BY <1>8, <1>10, <3>1
    <3>3. more[k] \in (2 * f + 1)..(2 * Len(now))
      <4>1. f <= n
        BY DEF n
      <4>2. 2 * n + 1 \in (2 * f + 1)..(2 * Len(now)) /\ 2 * n + 2 \in (2 * f + 1)..(2 * Len(now))
        BY <1>1, <4>1
      <4> QED BY <3>2, <4>2
    <3> QED BY <1>14, <3>2, <3>3
  <2> QED BY <2>1, <2>2
<1>16. ASSUME NEW p \in (2 * f + 1)..(2 * Len(now)), EndsFrame(p) \/ now[FrameOf(p)] # "empty"
       PROVE  \E i \in 1..Len(next) : next[i] = p
  <2>1. p \in Nat /\ p > 0 /\ (p <= 2 * n \/ p = 2 * n + 1 \/ p = 2 * n + 2)
    BY <1>1
  <2>2. CASE p <= 2 * n
    <3>1. p \in (2 * f + 1)..(2 * n)
      BY <1>1, <2>1, <2>2
    <3>2. now[FrameOf(p)] = s[FrameOf(p)]
      BY <1>13, <2>1, <2>2
    <3>3. PICK i \in 1..Len(left) : left[i] = p
      BY <1>4, <1>16, <3>1, <3>2
    <3> QED BY <1>8, <1>9, <3>3
  <2>3. CASE p = 2 * n + 1
    <3>1. kind # "empty"
      BY <1>14, <1>16, <2>3
    <3>2. 1 \in 1..Len(more) /\ more[1] = p
      BY <1>6, <1>7, <2>3, <3>1
    <3> QED BY <1>8, <1>10, <3>2
  <2>4. CASE p = 2 * n + 2
    <3>1. Len(more) \in 1..Len(more) /\ more[Len(more)] = p
      <4>1. Len(more) \in 1..Len(more)
        BY <1>7
      <4> QED BY <1>6, <2>4, <4>1
    <3> QED BY <1>8, <1>10, <3>1
  <2> QED BY <2>1, <2>2, <2>3, <2>4
<1>17. {next[i] : i \in 1..Len(next)} =
          {p \in (2 * f + 1)..(2 * Len(now)) : EndsFrame(p) \/ now[FrameOf(p)] # "empty"}
  BY <1>15, <1>16
<1> QED BY <1>12, <1>17 DEF Stream, next, now, more, n

-----------------------------------------------------------------------------
(* Tasks in their turn.                                                      *)

\* The first task begins.
LEMMA TurnTaken ==
    ASSUME NEW b \in Seq(Nat), NEW ts \in Seq(Tasks), ts # <<>>, NEW f, NEW c,
           InTurn(b, ts, f, c)
    PROVE  /\ Head(ts).conn # c => InTurn(b, Tail(ts), f, c)
           /\ Head(ts).conn = c => InTurn(Append(b, Head(ts).frame), Tail(ts), f, c)
<1> DEFINE rest == Tail(ts)
<1> DEFINE t == Head(ts)
<1> DEFINE now == Append(b, t.frame)
<1>1. /\ t \in Tasks /\ t = ts[1] /\ Len(ts) \in Nat /\ Len(ts) # 0 /\ Len(rest) = Len(ts) - 1
      /\ \A i \in 1..(Len(ts) - 1) : rest[i] = ts[i + 1]
  BY Popped
<1>2. t.frame \in Nat
  BY <1>1, BoundsAssumption DEF Tasks
<1> HIDE DEF t
<1>3. /\ Len(b) \in Nat /\ Len(now) = Len(b) + 1 /\ now[Len(b) + 1] = t.frame
      /\ \A i \in 1..Len(b) : now[i] = b[i]
  BY <1>2, Pushed, Queue
<1> HIDE DEF rest, now
<1>4. 1 \in 1..Len(ts) /\ \A i \in 1..Len(rest) : i + 1 \in 1..Len(ts) /\ rest[i] = ts[i + 1] /\ 1 < i + 1
  BY <1>1
<1>5. \A i \in 1..Len(ts) : i # 1 => i - 1 \in 1..Len(rest) /\ rest[i - 1] = ts[i]
  BY <1>1
<1>6. \A i \in 1..Len(now) : i = Len(b) + 1 \/ i \in 1..Len(b)
  BY <1>3
<1>7. \A i \in 1..Len(b) : i \in 1..Len(now) /\ Len(b) + 1 \in 1..Len(now)
  BY <1>3
<1>8. Len(b) + 1 \in 1..Len(now)
  BY <1>3
<1>9. /\ \A i, j \in 1..Len(b) : i < j /\ b[i] # Cleanup /\ b[j] # Cleanup => b[i] < b[j]
      /\ \A i, j \in 1..Len(ts) : i < j /\ Of(ts[i], c) /\ Of(ts[j], c) => ts[i].frame < ts[j].frame
      /\ \A i \in 1..Len(b), j \in 1..Len(ts) : b[i] # Cleanup /\ Of(ts[j], c) => b[i] < ts[j].frame
  BY DEF InTurn
<1>10. \A n \in Nat : n # Cleanup =>
          ((\E i \in 1..Len(b) : b[i] = n) \/ (\E i \in 1..Len(ts) : Of(ts[i], c) /\ ts[i].frame = n)
              <=> n \in 1..Len(f) /\ f[n] = "queued")
  BY DEF InTurn
<1>11. \A i, j \in 1..Len(rest) : i < j /\ Of(rest[i], c) /\ Of(rest[j], c) => rest[i].frame < rest[j].frame
  <2> TAKE i, j \in 1..Len(rest)
  <2>1. i < j => i + 1 < j + 1
    BY <1>1
  <2> QED BY <1>4, <1>9, <2>1
<1>12. ASSUME t.conn # c PROVE InTurn(b, rest, f, c)
  <2>1. ~Of(ts[1], c)
    BY <1>1, <1>12 DEF Of
  <2>2. \A n : (\E i \in 1..Len(ts) : Of(ts[i], c) /\ ts[i].frame = n)
                 <=> (\E i \in 1..Len(rest) : Of(rest[i], c) /\ rest[i].frame = n)
    <3> TAKE n
    <3>1. ASSUME NEW i \in 1..Len(ts), Of(ts[i], c), ts[i].frame = n
          PROVE  \E j \in 1..Len(rest) : Of(rest[j], c) /\ rest[j].frame = n
      BY <1>5, <2>1, <3>1
    <3>2. ASSUME NEW j \in 1..Len(rest), Of(rest[j], c), rest[j].frame = n
          PROVE  \E i \in 1..Len(ts) : Of(ts[i], c) /\ ts[i].frame = n
      BY <1>4, <3>2
    <3> QED BY <3>1, <3>2
  <2>3. \A i \in 1..Len(b), j \in 1..Len(rest) : b[i] # Cleanup /\ Of(rest[j], c) => b[i] < rest[j].frame
    BY <1>4, <1>9
  <2> QED BY <1>9, <1>10, <1>11, <2>2, <2>3 DEF InTurn
<1>13. ASSUME t.conn = c PROVE InTurn(now, rest, f, c)
  <2>1. Of(ts[1], c) <=> t.frame # Cleanup
    BY <1>1, <1>13 DEF Of
  <2>2. ASSUME NEW i \in 1..Len(now), NEW j \in 1..Len(now), i < j, now[i] # Cleanup, now[j] # Cleanup
        PROVE  now[i] < now[j]
    <3>1. i \in 1..Len(b)
      BY <1>3, <2>2
    <3>2. CASE j \in 1..Len(b)
      BY <1>3, <1>9, <2>2, <3>1, <3>2
    <3>3. CASE j = Len(b) + 1
      BY <1>1, <1>3, <1>4, <1>9, <2>1, <2>2, <3>1, <3>3
    <3> QED BY <1>6, <3>2, <3>3
  <2>3. ASSUME NEW i \in 1..Len(now), NEW j \in 1..Len(rest), now[i] # Cleanup, Of(rest[j], c)
        PROVE  now[i] < rest[j].frame
    <3>1. CASE i \in 1..Len(b)
      BY <1>3, <1>4, <1>9, <2>3, <3>1
    <3>2. CASE i = Len(b) + 1
      BY <1>1, <1>3, <1>4, <1>9, <2>1, <2>3, <3>2
    <3> QED BY <1>6, <3>1, <3>2
  <2>4. ASSUME NEW n \in Nat, n # Cleanup
        PROVE  (\E i \in 1..Len(now) : now[i] = n) \/ (\E i \in 1..Len(rest) : Of(rest[i], c) /\ rest[i].frame = n)
                 <=> (\E i \in 1..Len(b) : b[i] = n) \/ (\E i \in 1..Len(ts) : Of(ts[i], c) /\ ts[i].frame = n)
    <3>1. (\E i \in 1..Len(now) : now[i] = n) <=> (\E i \in 1..Len(b) : b[i] = n) \/ t.frame = n
      BY <1>3, <1>6, <1>7, <1>8
    <3>2. (\E i \in 1..Len(ts) : Of(ts[i], c) /\ ts[i].frame = n)
            <=> t.frame = n \/ (\E i \in 1..Len(rest) : Of(rest[i], c) /\ rest[i].frame = n)
      BY <1>1, <1>4, <1>5, <2>1, <2>4
    <3> QED BY <3>1, <3>2
  <2> QED BY <1>10, <1>11, <2>2, <2>3, <2>4 DEF InTurn
<1> QED BY <1>12, <1>13 DEF rest, now, t

\* A request is queued behind those that were, or a task of somebody else.
LEMMA TurnQueued ==
    ASSUME NEW b \in Seq(Nat), NEW ts \in Seq(Tasks), NEW f \in Seq(Fates), NEW c,
           InTurn(b, ts, f, c), NEW t \in Tasks
    PROVE  /\ ~Of(t, c) => InTurn(b, Append(ts, t), f, c)
           /\ Of(t, c) /\ t.frame = Len(f) + 1
                 => InTurn(b, Append(ts, t), Append(f, "queued"), c)
<1> DEFINE next == Append(ts, t)
<1> DEFINE now == Append(f, "queued")
<1>1. /\ Len(ts) \in Nat /\ Len(next) = Len(ts) + 1 /\ next[Len(ts) + 1] = t
      /\ \A i \in 1..Len(ts) : next[i] = ts[i]
  BY Pushed, Queue
<1>2. /\ Len(f) \in Nat /\ Len(now) = Len(f) + 1 /\ now[Len(f) + 1] = "queued"
      /\ \A i \in 1..Len(f) : now[i] = f[i]
  <2>1. "queued" \in Fates
    BY DEF Fates
  <2> QED BY <2>1, Pushed, Queue
<1>3. /\ \A i \in 1..Len(b) : b[i] \in Nat
      /\ \A i \in 1..Len(ts) : ts[i].frame \in Nat
  <2>1. \A i \in 1..Len(b) : b[i] \in Nat
    BY Queue
  <2>2. \A i \in 1..Len(ts) : ts[i] \in Tasks
    BY Queue
  <2> QED BY <2>1, <2>2, BoundsAssumption DEF Tasks
<1> HIDE DEF next, now
<1>4. \A i \in 1..Len(next) : i = Len(ts) + 1 \/ i \in 1..Len(ts)
  BY <1>1
<1>5. Len(ts) + 1 \in 1..Len(next) /\ \A i \in 1..Len(ts) : i \in 1..Len(next) /\ i < Len(ts) + 1
  BY <1>1
<1>6. /\ \A i, j \in 1..Len(b) : i < j /\ b[i] # Cleanup /\ b[j] # Cleanup => b[i] < b[j]
      /\ \A i, j \in 1..Len(ts) : i < j /\ Of(ts[i], c) /\ Of(ts[j], c) => ts[i].frame < ts[j].frame
      /\ \A i \in 1..Len(b), j \in 1..Len(ts) : b[i] # Cleanup /\ Of(ts[j], c) => b[i] < ts[j].frame
  BY DEF InTurn
<1>7. \A n \in Nat : n # Cleanup =>
          ((\E i \in 1..Len(b) : b[i] = n) \/ (\E i \in 1..Len(ts) : Of(ts[i], c) /\ ts[i].frame = n)
              <=> n \in 1..Len(f) /\ f[n] = "queued")
  BY DEF InTurn
<1>8. ASSUME ~Of(t, c) PROVE InTurn(b, next, f, c)
  <2>1. \A i \in 1..Len(next) : Of(next[i], c) => i \in 1..Len(ts) /\ Of(ts[i], c) /\ next[i] = ts[i]
    BY <1>1, <1>4, <1>8
  <2>2. \A n \in Nat : (\E i \in 1..Len(ts) : Of(ts[i], c) /\ ts[i].frame = n)
                          <=> (\E i \in 1..Len(next) : Of(next[i], c) /\ next[i].frame = n)
    BY <1>1, <1>5, <2>1
  <2>3. \A i, j \in 1..Len(next) : i < j /\ Of(next[i], c) /\ Of(next[j], c) => next[i].frame < next[j].frame
    BY <1>6, <2>1
  <2>4. \A i \in 1..Len(b), j \in 1..Len(next) : b[i] # Cleanup /\ Of(next[j], c) => b[i] < next[j].frame
    BY <1>6, <2>1
  <2> QED BY <1>6, <1>7, <2>2, <2>3, <2>4 DEF InTurn
<1>9. ASSUME Of(t, c), t.frame = Len(f) + 1 PROVE InTurn(b, next, now, c)
  <2>1. \A i \in 1..Len(b) : b[i] # Cleanup => b[i] < t.frame
    <3> SUFFICES ASSUME NEW i \in 1..Len(b), b[i] # Cleanup PROVE b[i] < t.frame
      OBVIOUS
    <3>1. b[i] \in 1..Len(f) /\ b[i] \in Nat
      BY <1>3, <1>7
    <3> QED BY <1>2, <1>9, <3>1
  <2>2. \A i \in 1..Len(ts) : Of(ts[i], c) => ts[i].frame < t.frame
    <3> SUFFICES ASSUME NEW i \in 1..Len(ts), Of(ts[i], c) PROVE ts[i].frame < t.frame
      OBVIOUS
    <3>1. ts[i].frame # Cleanup
      BY DEF Of
    <3>2. ts[i].frame \in 1..Len(f) /\ ts[i].frame \in Nat
      BY <1>3, <1>7, <3>1
    <3> QED BY <1>2, <1>9, <3>2
  <2>3. ASSUME NEW i \in 1..Len(next), NEW j \in 1..Len(next), i < j, Of(next[i], c), Of(next[j], c)
        PROVE  next[i].frame < next[j].frame
    <3>1. i \in 1..Len(ts)
      BY <1>1, <2>3
    <3>2. CASE j = Len(ts) + 1
      BY <1>1, <2>2, <2>3, <3>1, <3>2
    <3>3. CASE j \in 1..Len(ts)
      BY <1>1, <1>6, <2>3, <3>1, <3>3
    <3> QED BY <1>4, <3>2, <3>3
  <2>4. ASSUME NEW i \in 1..Len(b), NEW j \in 1..Len(next), b[i] # Cleanup, Of(next[j], c)
        PROVE  b[i] < next[j].frame
    <3>1. CASE j = Len(ts) + 1
      BY <1>1, <2>1, <2>4, <3>1
    <3>2. CASE j \in 1..Len(ts)
      BY <1>1, <1>6, <2>4, <3>2
    <3> QED BY <1>4, <3>1, <3>2
  <2>5. ASSUME NEW n \in Nat, n # Cleanup
        PROVE  (\E i \in 1..Len(b) : b[i] = n) \/ (\E i \in 1..Len(next) : Of(next[i], c) /\ next[i].frame = n)
                 <=> n \in 1..Len(now) /\ now[n] = "queued"
    <3>1. (\E i \in 1..Len(next) : Of(next[i], c) /\ next[i].frame = n)
            <=> n = Len(f) + 1 \/ (\E i \in 1..Len(ts) : Of(ts[i], c) /\ ts[i].frame = n)
      BY <1>1, <1>4, <1>5, <1>9
    <3>2. n \in 1..Len(now) /\ now[n] = "queued" <=> n = Len(f) + 1 \/ (n \in 1..Len(f) /\ f[n] = "queued")
      <4>1. n \in 1..Len(now) <=> n = Len(f) + 1 \/ n \in 1..Len(f)
        BY <1>2, <2>5
      <4> QED BY <1>2, <4>1
    <3> QED BY <1>7, <2>5, <3>1, <3>2
  <2> QED BY <1>6, <2>3, <2>4, <2>5 DEF InTurn
<1> QED BY <1>8, <1>9 DEF next, now

\* A frame that is not queued is not in anybody's turn, nor is a cleanup.
LEMMA TurnOther ==
    ASSUME NEW b \in Seq(Nat), NEW ts \in Seq(Tasks), NEW f \in Seq(Fates), NEW c,
           InTurn(b, ts, f, c), NEW x \in Fates, x # "queued"
    PROVE  InTurn(b, ts, Append(f, x), c) /\ InTurn(Append(b, Cleanup), ts, f, c)
<1> DEFINE now == Append(f, x)
<1> DEFINE next == Append(b, Cleanup)
<1>1. /\ Len(f) \in Nat /\ Len(now) = Len(f) + 1 /\ now[Len(f) + 1] = x
      /\ \A i \in 1..Len(f) : now[i] = f[i]
  BY Pushed, Queue
<1>2. /\ Len(b) \in Nat /\ Len(next) = Len(b) + 1 /\ next[Len(b) + 1] = Cleanup
      /\ \A i \in 1..Len(b) : next[i] = b[i]
  <2>1. Cleanup \in Nat
    BY DEF Cleanup
  <2> QED BY <2>1, Pushed, Queue
<1> HIDE DEF now, next
<1>3. \A n \in Nat : n \in 1..Len(now) /\ now[n] = "queued" <=> n \in 1..Len(f) /\ f[n] = "queued"
  <2> TAKE n \in Nat
  <2>1. n \in 1..Len(now) <=> n = Len(f) + 1 \/ n \in 1..Len(f)
    BY <1>1
  <2>2. n = Len(f) + 1 => n \notin 1..Len(f)
    BY <1>1
  <2> QED BY <1>1, <2>1, <2>2
<1>4. InTurn(b, ts, now, c)
  BY <1>3 DEF InTurn
<1>5. \A i \in 1..Len(next) : next[i] # Cleanup => i \in 1..Len(b) /\ next[i] = b[i]
  <2>1. \A i \in 1..Len(next) : i = Len(b) + 1 \/ i \in 1..Len(b)
    BY <1>2
  <2> QED BY <1>2, <2>1
<1>6. \A i \in 1..Len(b) : i \in 1..Len(next) /\ next[i] = b[i]
  BY <1>2
<1>7. \A n \in Nat : n # Cleanup => ((\E i \in 1..Len(b) : b[i] = n) <=> (\E i \in 1..Len(next) : next[i] = n))
  BY <1>5, <1>6
<1>8. InTurn(next, ts, f, c)
  <2>1. \A i, j \in 1..Len(next) : i < j /\ next[i] # Cleanup /\ next[j] # Cleanup => next[i] < next[j]
    BY <1>5 DEF InTurn
  <2>2. \A i \in 1..Len(next), j \in 1..Len(ts) : next[i] # Cleanup /\ Of(ts[j], c) => next[i] < ts[j].frame
    BY <1>5 DEF InTurn
  <2> QED BY <1>7, <2>1, <2>2 DEF InTurn
<1> QED BY <1>4, <1>8 DEF now, next

-----------------------------------------------------------------------------
(* What the state of a connection is made of.                                *)

\* The buffers hold pieces, the histories numbers.
LEMMA ConnTyped ==
    ASSUME ServerTypeOK, NEW c \in Conns
    PROVE  /\ buf[c] \in Seq(Nat) /\ wire[c] \in Seq(Nat)
           /\ buf[c] \in Seq(1..(2 * MaxFrames)) /\ wire[c] \in Seq(1..(2 * MaxFrames))
           /\ sent[c] \in Seq(Kinds) /\ fate[c] \in Seq(Fates) /\ begun[c] \in Seq(Nat)
           /\ Len(sent[c]) \in Nat /\ Len(fate[c]) \in Nat /\ Len(sent[c]) <= MaxFrames
           /\ tasks \in Seq(Tasks)
<1>1. /\ buf[c] \in Seq(1..(2 * MaxFrames)) /\ wire[c] \in Seq(1..(2 * MaxFrames))
      /\ sent[c] \in Seq(Kinds) /\ fate[c] \in Seq(Fates) /\ begun[c] \in Seq(0..MaxFrames)
      /\ Len(sent[c]) <= MaxFrames /\ tasks \in Seq(Tasks)
  BY DEF ServerTypeOK, Fates
<1>2. 1..(2 * MaxFrames) \subseteq Nat /\ 0..MaxFrames \subseteq Nat
  BY BoundsAssumption
<1>3. buf[c] \in Seq(Nat) /\ wire[c] \in Seq(Nat) /\ begun[c] \in Seq(Nat)
  BY <1>1, <1>2, SeqMonotonic
<1> QED BY <1>1, <1>3, Queue

\* A frame is sent as pieces.
LEMMA PiecesTyped ==
    ASSUME NEW n \in Nat, n < MaxFrames, NEW kind \in Kinds
    PROVE  Pieces(n + 1, kind) \in Seq(1..(2 * MaxFrames)) /\ Pieces(n + 1, kind) \in Seq(Nat)
<1>1. /\ 2 * (n + 1) \in 1..(2 * MaxFrames) /\ 2 * (n + 1) - 1 \in 1..(2 * MaxFrames)
      /\ 2 * (n + 1) \in Nat /\ 2 * (n + 1) - 1 \in Nat
  BY BoundsAssumption
<1> DEFINE p == 2 * (n + 1) - 1
<1> DEFINE q == 2 * (n + 1)
<1>2. p \in 1..(2 * MaxFrames) /\ q \in 1..(2 * MaxFrames) /\ p \in Nat /\ q \in Nat
  BY <1>1
<1>3. Pieces(n + 1, kind) = IF kind = "empty" THEN <<q>> ELSE <<p, q>>
  BY DEF Pieces
<1> HIDE DEF p, q
<1>4. /\ <<q>> \in Seq(1..(2 * MaxFrames)) /\ <<p, q>> \in Seq(1..(2 * MaxFrames))
      /\ <<q>> \in Seq(Nat) /\ <<p, q>> \in Seq(Nat)
  BY <1>2
<1> QED BY <1>3, <1>4

\* A connection that is cut has a frame: the next one.
LEMMA CutFacts ==
    ASSUME ServerTypeOK, NEW c \in Conns, ConnInv(c), io[c] = "cut"
    PROVE  /\ Front(c) = Len(fate[c]) + 1 /\ Len(fate[c]) + 1 <= Len(sent[c])
           /\ Stream(Rest(c) \o wire[c], Len(fate[c]) + 1, sent[c])
           /\ Rest(c) \in Seq(1..(2 * MaxFrames)) /\ link[c] # "closed"
<1>1. /\ buf[c] \in Seq(Nat) /\ wire[c] \in Seq(Nat) /\ buf[c] \in Seq(1..(2 * MaxFrames))
      /\ sent[c] \in Seq(Kinds) /\ Len(fate[c]) \in Nat
  BY ConnTyped
<1>2. HasFrame(buf[c]) /\ Stream(buf[c] \o wire[c], Len(fate[c]), sent[c]) /\ link[c] # "closed"
  BY DEF ConnInv
<1> DEFINE e == FirstEnd(buf[c])
<1>3. e \in 1..Len(buf[c]) /\ buf[c][e] = 2 * Len(fate[c]) + 2 /\ Len(fate[c]) + 1 <= Len(sent[c])
  BY <1>1, <1>2, FirstFrame
<1>4. Stream(SubSeq(buf[c], e + 1, Len(buf[c])) \o wire[c], Len(fate[c]) + 1, sent[c])
  BY <1>1, <1>2, StreamCut
<1>5. Front(c) = Len(fate[c]) + 1
  <2>1. FrameOf(2 * Len(fate[c]) + 2) = Len(fate[c]) + 1
    BY <1>1, PieceFacts
  <2> QED BY <1>3, <2>1 DEF Front
<1> HIDE DEF e
<1>6. SubSeq(buf[c], e + 1, Len(buf[c])) \in Seq(1..(2 * MaxFrames))
  <2>1. e \in 0..Len(buf[c])
    BY <1>3
  <2> QED BY <1>1, <2>1, Suffix
<1> QED BY <1>2, <1>3, <1>4, <1>5, <1>6 DEF Rest, e

-----------------------------------------------------------------------------
(* Steps of a connection.                                                    *)

\* What is said of a connection depends on its own state alone.
LEMMA Untouched ==
    ASSUME NEW d \in Conns, ConnInv(d),
           sent'[d] = sent[d], wire'[d] = wire[d], buf'[d] = buf[d],
           link'[d] = link[d], io'[d] = io[d], fate'[d] = fate[d]
    PROVE  ConnInv(d)'
BY DEF ConnInv

\* A round of onMessage's loop cuts off one frame.
LEMMA RoundKeeps ==
    ASSUME ServerTypeOK, NEW c \in Conns, ConnInv(c), NEW x \in Fates, Round(c, x),
           io'[c] = "cut" => HasFrame(Rest(c)),
           x = "skipped" <=> sent[c][Front(c)] # "request"
    PROVE  ConnInv(c)'
<1>1. io[c] = "cut" /\ UNCHANGED <<sent, wire, link>>
  BY DEF Round, IoReady
<1>2. /\ Front(c) = Len(fate[c]) + 1 /\ Len(fate[c]) + 1 <= Len(sent[c])
      /\ Stream(Rest(c) \o wire[c], Len(fate[c]) + 1, sent[c]) /\ link[c] # "closed"
  BY <1>1, CutFacts
<1>3. buf'[c] = Rest(c) /\ fate'[c] = Append(fate[c], x)
  BY DEF Round, ServerTypeOK
<1>4. /\ Len(fate[c]) \in Nat /\ Len(fate'[c]) = Len(fate[c]) + 1 /\ fate'[c][Len(fate[c]) + 1] = x
      /\ \A n \in 1..Len(fate[c]) : fate'[c][n] = fate[c][n]
  <2>1. fate[c] \in Seq(Fates) /\ Len(fate[c]) \in Nat
    BY ConnTyped
  <2> QED BY <1>3, <2>1, Pushed
<1>5. ASSUME NEW n \in 1..Len(fate'[c]) PROVE fate'[c][n] = "skipped" <=> sent[c][n] # "request"
  <2>1. CASE n = Len(fate[c]) + 1
    BY <1>2, <1>4, <2>1
  <2>2. CASE n # Len(fate[c]) + 1
    <3>1. n \in 1..Len(fate[c])
      BY <1>4, <2>2
    <3> QED BY <1>4, <3>1 DEF ConnInv
  <2> QED BY <2>1, <2>2
<1>6. Stream(buf'[c] \o wire'[c], Len(fate'[c]), sent'[c])
  BY <1>1, <1>2, <1>3, <1>4
<1>7. /\ Len(fate'[c]) <= Len(sent'[c]) /\ link'[c] # "closed"
      /\ io'[c] = "cut" => HasFrame(buf'[c])
  BY <1>1, <1>2, <1>3, <1>4
<1> QED BY <1>1, <1>5, <1>6, <1>7 DEF ConnInv

\* Every step keeps the streams.
LEMMA ConnStep ==
    ASSUME ServerTypeOK, \A c \in Conns : ConnInv(c), [ServerNext]_vars, NEW d \in Conns
    PROVE  ConnInv(d)'
<1>1. CASE UNCHANGED connVars
  BY <1>1, Untouched DEF connVars
<1>2. ASSUME NEW c \in Conns, c # d, Client(c) \/ OnMessage(c) \/ OnConnection(c)
      PROVE  ConnInv(d)'
  <2>1. CASE Client(c)
    <3>1. /\ sent'[d] = sent[d] /\ wire'[d] = wire[d] /\ buf'[d] = buf[d]
          /\ link'[d] = link[d] /\ io'[d] = io[d] /\ fate'[d] = fate[d]
      BY <1>2, <2>1 DEF Client, HangUp, SendFrame, ServerTypeOK
    <3> QED BY <3>1, Untouched
  <2>2. CASE Receive(c)
    <3>1. /\ sent'[d] = sent[d] /\ wire'[d] = wire[d] /\ buf'[d] = buf[d]
          /\ link'[d] = link[d] /\ io'[d] = io[d] /\ fate'[d] = fate[d]
      BY <1>2, <2>2 DEF Receive, ServerTypeOK
    <3> QED BY <3>1, Untouched
  <2>3. CASE CutEmpty(c) \/ CutGarbled(c) \/ CutNameless(c) \/ QueueRequest(c) \/ RefuseRequest(c)
    <3>1. /\ sent'[d] = sent[d] /\ wire'[d] = wire[d] /\ buf'[d] = buf[d]
          /\ link'[d] = link[d] /\ io'[d] = io[d] /\ fate'[d] = fate[d]
      BY <1>2, <2>3 DEF CutEmpty, CutGarbled, CutNameless, QueueRequest, RefuseRequest,
         Round, GoOn, ServerTypeOK
    <3> QED BY <3>1, Untouched
  <2>4. CASE OnConnection(c)
    <3>1. /\ sent'[d] = sent[d] /\ wire'[d] = wire[d] /\ buf'[d] = buf[d]
          /\ link'[d] = link[d] /\ io'[d] = io[d] /\ fate'[d] = fate[d]
      BY <1>2, <2>4 DEF OnConnection, QueueCleanup, RefuseCleanup, CleanupInline, Forget, ServerTypeOK
    <3> QED BY <3>1, Untouched
  <2> QED BY <1>2, <2>1, <2>2, <2>3, <2>4 DEF OnMessage
<1>3. ASSUME HangUp(d) PROVE ConnInv(d)'
  <2>1. /\ UNCHANGED <<sent, wire, buf, io, fate>>
        /\ link[d] = "up" /\ link'[d] = "down"
    BY <1>3 DEF HangUp, ServerTypeOK
  <2> QED BY <2>1 DEF ConnInv
<1>4. ASSUME NEW kind \in Kinds, SendFrame(d, kind) PROVE ConnInv(d)'
  <2>1. /\ UNCHANGED <<buf, link, io, fate>> /\ link[d] = "up"
        /\ sent'[d] = Append(sent[d], kind)
        /\ wire'[d] = wire[d] \o Pieces(Len(sent[d]) + 1, kind)
    BY <1>4 DEF SendFrame, ServerTypeOK
  <2>2. /\ sent[d] \in Seq(Kinds) /\ buf[d] \in Seq(Nat) /\ wire[d] \in Seq(Nat)
        /\ Len(fate[d]) \in Nat /\ Len(sent[d]) \in Nat
    BY ConnTyped
  <2>3. /\ Len(fate[d]) <= Len(sent[d]) /\ Stream(buf[d] \o wire[d], Len(fate[d]), sent[d])
    BY <2>1 DEF ConnInv
  <2>4. Pieces(Len(sent[d]) + 1, kind) \in Seq(Nat)
    <3>1. Len(sent[d]) < MaxFrames
      BY <1>4 DEF SendFrame
    <3> QED BY <2>2, <3>1, PiecesTyped
  <2>5. buf[d] \o wire[d] \in Seq(Nat)
    BY <2>2, Joined
  <2>6. Stream((buf[d] \o wire[d]) \o Pieces(Len(sent[d]) + 1, kind), Len(fate[d]), Append(sent[d], kind))
    BY <2>2, <2>3, <2>5, StreamSent
  <2>7. (buf[d] \o wire[d]) \o Pieces(Len(sent[d]) + 1, kind)
          = buf[d] \o (wire[d] \o Pieces(Len(sent[d]) + 1, kind))
    <3> DEFINE pieces == Pieces(Len(sent[d]) + 1, kind)
    <3> DEFINE b == buf[d]
    <3> DEFINE w == wire[d]
    <3>1. pieces \in Seq(Nat) /\ b \in Seq(Nat) /\ w \in Seq(Nat)
      BY <2>2, <2>4
    <3> HIDE DEF pieces, b, w
    <3>2. (b \o w) \o pieces = b \o (w \o pieces)
      BY <3>1, JoinedThree
    <3> QED BY <3>2 DEF pieces, b, w
  <2>8. Stream(buf'[d] \o wire'[d], Len(fate'[d]), sent'[d])
    BY <2>1, <2>6, <2>7
  <2>9. /\ Len(sent'[d]) = Len(sent[d]) + 1 /\ \A n \in 1..Len(sent[d]) : sent'[d][n] = sent[d][n]
    BY <2>1, <2>2, Pushed
  <2>10. \A n \in 1..Len(fate[d]) : n \in 1..Len(sent[d])
    BY <2>2, <2>3
  <2>11. Len(fate'[d]) <= Len(sent'[d])
    BY <2>1, <2>2, <2>3, <2>9
  <2>12. \A n \in 1..Len(fate'[d]) : fate'[d][n] = "skipped" <=> sent'[d][n] # "request"
    BY <2>1, <2>9, <2>10 DEF ConnInv
  <2> QED BY <2>1, <2>8, <2>11, <2>12 DEF ConnInv
<1>5. ASSUME Receive(d) PROVE ConnInv(d)'
  <2>1. PICK k \in 1..Len(wire[d]) :
          /\ buf' = [buf EXCEPT ![d] = @ \o SubSeq(wire[d], 1, k)]
          /\ wire' = [wire EXCEPT ![d] = SubSeq(@, k + 1, Len(@))]
    BY <1>5 DEF Receive
  <2>2. /\ buf'[d] = buf[d] \o SubSeq(wire[d], 1, k)
        /\ wire'[d] = SubSeq(wire[d], k + 1, Len(wire[d]))
    BY <2>1 DEF ServerTypeOK
  <2>3. /\ UNCHANGED <<sent, link, fate>> /\ link[d] # "closed"
        /\ io'[d] = "cut" => HasFrame(buf'[d])
    BY <1>5 DEF Receive, ServerTypeOK
  <2>4. buf[d] \in Seq(Nat) /\ wire[d] \in Seq(Nat)
    BY ConnTyped
  <2>5. buf'[d] \o wire'[d] = buf[d] \o wire[d]
    BY <2>2, <2>4, Moved
  <2> QED BY <2>3, <2>5 DEF ConnInv
<1>6. ASSUME CutEmpty(d) \/ CutGarbled(d) \/ CutNameless(d) \/ QueueRequest(d) \/ RefuseRequest(d)
      PROVE  ConnInv(d)'
  <2>1. io'[d] = "cut" => HasFrame(Rest(d))
    BY <1>6 DEF CutEmpty, CutGarbled, CutNameless, QueueRequest, RefuseRequest, GoOn, ServerTypeOK
  <2>2. PICK x \in Fates : Round(d, x) /\ (x = "skipped" <=> sent[d][Front(d)] # "request")
    BY <1>6 DEF CutEmpty, CutGarbled, CutNameless, QueueRequest, RefuseRequest, Fates
  <2> QED BY <2>1, <2>2, RoundKeeps
<1>7. ASSUME QueueCleanup(d) \/ CleanupInline(d) PROVE ConnInv(d)'
  <2>1. UNCHANGED <<sent, fate>> /\ link'[d] = "closed" /\ io'[d] = "idle"
    BY <1>7 DEF QueueCleanup, CleanupInline, Forget, IoReady, ServerTypeOK
  <2> QED BY <2>1 DEF ConnInv
<1>8. ASSUME RefuseCleanup(d) PROVE ConnInv(d)'
  <2>1. UNCHANGED <<sent, wire, buf, link, fate>> /\ link[d] = "down" /\ io'[d] = "cleanup"
    BY <1>8 DEF RefuseCleanup, ServerTypeOK
  <2> QED BY <2>1 DEF ConnInv
<1>9. CASE ~ \E c \in Conns : Client(c) \/ OnMessage(c) \/ OnConnection(c)
  <2>1. UNCHANGED connVars
    BY <1>9 DEF ServerNext, vars, Work, Take, Finish, Logging, Consuming, Stop, Interrupt,
       Started, Stopped, MainLogs, ShutDownLogger, LoggerShutDown, PoolGone
  <2> QED BY <1>1, <2>1
<1>10. CASE Client(d) \/ OnMessage(d) \/ OnConnection(d)
  BY <1>3, <1>4, <1>5, <1>6, <1>7, <1>8, <1>10 DEF Client, OnMessage, OnConnection
<1> QED BY <1>2, <1>9, <1>10

-----------------------------------------------------------------------------
(* Steps of the tasks.                                                       *)

\* Requests are queued in their order, and taken in it.
LEMMA TurnStep ==
    ASSUME ServerTypeOK, \A c \in Conns : ConnInv(c), Begun, [ServerNext]_vars, NEW d \in Conns
    PROVE  InTurn(begun'[d], tasks', fate'[d], d)
<1>1. /\ begun[d] \in Seq(Nat) /\ tasks \in Seq(Tasks) /\ fate[d] \in Seq(Fates)
      /\ InTurn(begun[d], tasks, fate[d], d)
  BY ConnTyped DEF Begun
<1>2. CASE UNCHANGED <<begun, tasks, fate>>
  BY <1>1, <1>2
<1>3. ASSUME NEW c \in Conns, CutEmpty(c) \/ CutGarbled(c) \/ CutNameless(c) \/ RefuseRequest(c)
      PROVE  InTurn(begun'[d], tasks', fate'[d], d)
  <2>1. PICK x \in Fates \ {"queued"} : Round(c, x)
    BY <1>3 DEF CutEmpty, CutGarbled, CutNameless, RefuseRequest, Fates
  <2>2. begun' = begun /\ tasks' = tasks
    BY <1>3, <2>1 DEF CutEmpty, CutGarbled, CutNameless, RefuseRequest, Round
  <2>3. fate'[d] = fate[d] \/ fate'[d] = Append(fate[d], x)
    BY <2>1 DEF Round, ServerTypeOK
  <2>4. InTurn(begun[d], tasks, Append(fate[d], x), d)
    BY <1>1, <2>1, TurnOther
  <2> QED BY <1>1, <2>2, <2>3, <2>4
<1>4. ASSUME NEW c \in Conns, QueueRequest(c) PROVE InTurn(begun'[d], tasks', fate'[d], d)
  <2> DEFINE t == [conn |-> c, frame |-> Front(c)]
  <2>1. /\ begun' = begun /\ tasks' = Append(tasks, t) /\ io[c] = "cut"
        /\ fate' = [fate EXCEPT ![c] = Append(@, "queued")]
    BY <1>4 DEF QueueRequest, Round, IoReady
  <2>2. Front(c) = Len(fate[c]) + 1 /\ Len(fate[c]) + 1 <= Len(sent[c])
    BY <2>1, CutFacts
  <2>3. Len(fate[c]) \in Nat /\ Len(sent[c]) <= MaxFrames /\ Len(sent[c]) \in Nat
    BY ConnTyped
  <2>4. t \in Tasks /\ t.frame = Len(fate[c]) + 1 /\ t.conn = c /\ t.frame # Cleanup
    BY <2>2, <2>3, BoundsAssumption DEF Tasks, Cleanup
  <2> HIDE DEF t
  <2>5. CASE c = d
    <3>1. Of(t, d)
      BY <2>4, <2>5 DEF Of
    <3>2. InTurn(begun[d], Append(tasks, t), Append(fate[d], "queued"), d)
      BY <1>1, <2>4, <2>5, <3>1, TurnQueued
    <3>3. fate'[d] = Append(fate[d], "queued")
      BY <2>1, <2>5 DEF ServerTypeOK
    <3> QED BY <2>1, <3>2, <3>3
  <2>6. CASE c # d
    <3>1. ~Of(t, d)
      BY <2>4, <2>6 DEF Of
    <3>2. InTurn(begun[d], Append(tasks, t), fate[d], d)
      BY <1>1, <2>4, <3>1, TurnQueued
    <3>3. fate'[d] = fate[d]
      BY <2>1, <2>6 DEF ServerTypeOK
    <3> QED BY <2>1, <3>2, <3>3
  <2> QED BY <2>5, <2>6
<1>5. ASSUME NEW c \in Conns, QueueCleanup(c) PROVE InTurn(begun'[d], tasks', fate'[d], d)
  <2> DEFINE t == [conn |-> c, frame |-> Cleanup]
  <2>1. begun' = begun /\ tasks' = Append(tasks, t) /\ fate' = fate
    BY <1>5 DEF QueueCleanup, Forget
  <2>2. t \in Tasks /\ ~Of(t, d)
    BY BoundsAssumption DEF Tasks, Of, Cleanup
  <2> HIDE DEF t
  <2>3. InTurn(begun[d], Append(tasks, t), fate[d], d)
    BY <1>1, <2>2, TurnQueued
  <2> QED BY <2>1, <2>3
<1>6. ASSUME NEW c \in Conns, CleanupInline(c) PROVE InTurn(begun'[d], tasks', fate'[d], d)
  <2>1. tasks' = tasks /\ fate' = fate /\ begun' = [begun EXCEPT ![c] = Append(@, Cleanup)]
    BY <1>6 DEF CleanupInline, Forget
  <2>2. begun'[d] = begun[d] \/ begun'[d] = Append(begun[d], Cleanup)
    BY <2>1 DEF ServerTypeOK
  <2>3. "skipped" \in Fates
    BY DEF Fates
  <2>4. InTurn(Append(begun[d], Cleanup), tasks, fate[d], d)
    BY <1>1, <2>3, TurnOther
  <2> QED BY <1>1, <2>1, <2>2, <2>4
<1>7. ASSUME NEW w \in Workers, Take(w) PROVE InTurn(begun'[d], tasks', fate'[d], d)
  <2>1. /\ tasks # <<>> /\ tasks' = Tail(tasks) /\ fate' = fate
        /\ begun' = [begun EXCEPT ![Head(tasks).conn] = Append(@, Head(tasks).frame)]
    BY <1>7 DEF Take, connVars
  <2>2. /\ Head(tasks).conn = d => begun'[d] = Append(begun[d], Head(tasks).frame)
        /\ Head(tasks).conn # d => begun'[d] = begun[d]
    BY <2>1 DEF ServerTypeOK
  <2>3. /\ Head(tasks).conn # d => InTurn(begun[d], Tail(tasks), fate[d], d)
        /\ Head(tasks).conn = d => InTurn(Append(begun[d], Head(tasks).frame), Tail(tasks), fate[d], d)
    BY <1>1, <2>1, TurnTaken
  <2> QED BY <2>1, <2>2, <2>3
<1>8. ASSUME \/ UNCHANGED vars
             \/ \E c \in Conns : Client(c) \/ Receive(c) \/ RefuseCleanup(c)
             \/ \E w \in Workers : Finish(w)
             \/ \E w \in Writers : Logging(w)
             \/ Consuming \/ Stop \/ Interrupt
      PROVE  InTurn(begun'[d], tasks', fate'[d], d)
  <2>1. UNCHANGED <<begun, tasks, fate>>
    BY <1>8 DEF vars, connVars, poolVars, Client, HangUp, SendFrame, Receive, RefuseCleanup, Finish,
       Logging, Consuming, Stop, Interrupt, Started, Stopped, MainLogs, ShutDownLogger,
       LoggerShutDown, PoolGone
  <2> QED BY <1>2, <2>1
<1> QED BY <1>3, <1>4, <1>5, <1>6, <1>7, <1>8 DEF ServerNext, OnMessage, OnConnection, Work

-----------------------------------------------------------------------------
(* Types.                                                                    *)

StreamsTyped ==
    /\ sent \in [Conns -> Seq(Kinds)]
    /\ \A c \in Conns : Len(sent[c]) <= MaxFrames
    /\ wire \in [Conns -> Seq(1..(2 * MaxFrames))]
    /\ buf \in [Conns -> Seq(1..(2 * MaxFrames))]
    /\ link \in [Conns -> {"up", "down", "closed"}]
    /\ io \in [Conns -> {"idle", "cut", "cleanup"}]
    /\ fate \in [Conns -> Seq(Fates)]

TasksTyped ==
    /\ tasks \in Seq(Tasks) /\ Len(tasks) <= MaxQueue
    /\ worker \in [Workers -> Tasks \cup {NoTask}]
    /\ begun \in [Conns -> Seq(0..MaxFrames)]

Places == {"start", "serving", "stopping", "stopped", "joining", "draining", "exited"}

\* The parts of the type invariant.
LEMMA Parts == ServerTypeOK <=> LoggerTypeOK /\ StreamsTyped /\ TasksTyped /\ main \in Places
BY DEF ServerTypeOK, StreamsTyped, TasksTyped, Places, Fates

\* The streams of a connection are typed after a step of its own.
LEMMA StreamsStep ==
    ASSUME ServerTypeOK, NEW c \in Conns, ConnInv(c), Client(c) \/ OnMessage(c) \/ OnConnection(c)
    PROVE  StreamsTyped'
<1>1. StreamsTyped
  BY Parts
<1>2. CASE HangUp(c) \/ RefuseCleanup(c)
  BY <1>1, <1>2 DEF HangUp, RefuseCleanup, StreamsTyped
<1>3. ASSUME NEW kind \in Kinds, SendFrame(c, kind) PROVE StreamsTyped'
  <2>1. /\ sent' = [sent EXCEPT ![c] = Append(@, kind)] /\ Len(sent[c]) < MaxFrames
        /\ wire' = [wire EXCEPT ![c] = @ \o Pieces(Len(sent[c]) + 1, kind)]
        /\ UNCHANGED <<buf, link, io, fate>>
    BY <1>3 DEF SendFrame
  <2>2. /\ sent[c] \in Seq(Kinds) /\ wire[c] \in Seq(1..(2 * MaxFrames)) /\ Len(sent[c]) \in Nat
    BY ConnTyped
  <2>3. Pieces(Len(sent[c]) + 1, kind) \in Seq(1..(2 * MaxFrames))
    BY <2>1, <2>2, PiecesTyped
  <2>4. wire[c] \o Pieces(Len(sent[c]) + 1, kind) \in Seq(1..(2 * MaxFrames))
    BY <2>2, <2>3, Joined
  <2>5. Append(sent[c], kind) \in Seq(Kinds) /\ Len(Append(sent[c], kind)) = Len(sent[c]) + 1
    BY <2>2, Pushed
  <2>6. Len(Append(sent[c], kind)) <= MaxFrames
    BY <2>1, <2>2, <2>5, BoundsAssumption
  <2> QED BY <1>1, <2>1, <2>4, <2>5, <2>6 DEF StreamsTyped
<1>4. CASE Receive(c)
  <2>1. PICK k \in 1..Len(wire[c]) :
          /\ buf' = [buf EXCEPT ![c] = @ \o SubSeq(wire[c], 1, k)]
          /\ wire' = [wire EXCEPT ![c] = SubSeq(@, k + 1, Len(@))]
    BY <1>4 DEF Receive
  <2>2. wire[c] \in Seq(1..(2 * MaxFrames)) /\ buf[c] \in Seq(1..(2 * MaxFrames))
    BY <1>1 DEF StreamsTyped
  <2>3. k \in 0..Len(wire[c])
    OBVIOUS
  <2>4. /\ SubSeq(wire[c], 1, k) \in Seq(1..(2 * MaxFrames))
        /\ SubSeq(wire[c], k + 1, Len(wire[c])) \in Seq(1..(2 * MaxFrames))
    BY <2>2, <2>3, Prefix, Suffix
  <2>5. buf[c] \o SubSeq(wire[c], 1, k) \in Seq(1..(2 * MaxFrames))
    BY <2>2, <2>4, Joined
  <2>6. io' \in [Conns -> {"idle", "cut", "cleanup"}] /\ UNCHANGED <<sent, link, fate>>
    BY <1>1, <1>4 DEF Receive, StreamsTyped
  <2> QED BY <1>1, <2>1, <2>4, <2>5, <2>6 DEF StreamsTyped
<1>5. CASE CutEmpty(c) \/ CutGarbled(c) \/ CutNameless(c) \/ QueueRequest(c) \/ RefuseRequest(c)
  <2>1. PICK x \in Fates : Round(c, x)
    BY <1>5 DEF CutEmpty, CutGarbled, CutNameless, QueueRequest, RefuseRequest, Fates
  <2>2. /\ buf' = [buf EXCEPT ![c] = Rest(c)] /\ fate' = [fate EXCEPT ![c] = Append(@, x)]
        /\ UNCHANGED <<sent, wire, link>> /\ io[c] = "cut"
    BY <2>1 DEF Round, IoReady
  <2>3. Rest(c) \in Seq(1..(2 * MaxFrames))
    BY <2>2, CutFacts
  <2>4. fate[c] \in Seq(Fates)
    BY <1>1 DEF StreamsTyped
  <2>5. Append(fate[c], x) \in Seq(Fates)
    BY <2>4, Pushed
  <2>6. io' \in [Conns -> {"idle", "cut", "cleanup"}]
    BY <1>1, <1>5 DEF CutEmpty, CutGarbled, CutNameless, QueueRequest, RefuseRequest, GoOn, StreamsTyped
  <2> QED BY <1>1, <2>2, <2>3, <2>5, <2>6 DEF StreamsTyped
<1>6. CASE QueueCleanup(c) \/ CleanupInline(c)
  <2>1. /\ buf' = [buf EXCEPT ![c] = <<>>] /\ wire' = [wire EXCEPT ![c] = <<>>]
        /\ link' = [link EXCEPT ![c] = "closed"] /\ UNCHANGED <<sent, fate>>
        /\ io' = io \/ io' = [io EXCEPT ![c] = "idle"]
    BY <1>6 DEF QueueCleanup, CleanupInline, Forget
  <2>2. <<>> \in Seq(1..(2 * MaxFrames))
    BY EmptySeq
  <2> QED BY <1>1, <2>1, <2>2 DEF StreamsTyped
<1> QED BY <1>2, <1>3, <1>4, <1>5, <1>6 DEF Client, OnMessage, OnConnection

\* The pool's tasks are typed after every step.
LEMMA TasksStep ==
    ASSUME ServerTypeOK, \A c \in Conns : ConnInv(c), [ServerNext]_vars
    PROVE  TasksTyped'
<1>1. TasksTyped /\ tasks \in Seq(Tasks) /\ Len(tasks) <= MaxQueue
  BY Parts DEF TasksTyped
<1>2. ASSUME UNCHANGED <<tasks, worker, begun>> PROVE TasksTyped'
  BY <1>1, <1>2 DEF TasksTyped
<1>3. ASSUME NEW t \in Tasks, tasks' = Append(tasks, t), ~Refuses, UNCHANGED <<worker, begun>>
      PROVE  TasksTyped'
  <2>1. /\ Append(tasks, t) \in Seq(Tasks) /\ Len(Append(tasks, t)) = Len(tasks) + 1
        /\ Len(tasks) \in Nat
    BY <1>1, Pushed, Queue
  <2>2. Len(Append(tasks, t)) <= MaxQueue
    BY <1>3, <2>1, BoundsAssumption DEF Refuses
  <2> QED BY <1>1, <1>3, <2>1, <2>2 DEF TasksTyped
<1>4. ASSUME NEW c \in Conns, QueueRequest(c) PROVE TasksTyped'
  <2> DEFINE t == [conn |-> c, frame |-> Front(c)]
  <2>1. /\ tasks' = Append(tasks, t) /\ ~Refuses /\ UNCHANGED <<worker, begun>> /\ io[c] = "cut"
    BY <1>4 DEF QueueRequest, Round, IoReady
  <2>2. Front(c) = Len(fate[c]) + 1 /\ Len(fate[c]) + 1 <= Len(sent[c])
    BY <2>1, CutFacts
  <2>3. Len(fate[c]) \in Nat /\ Len(sent[c]) <= MaxFrames /\ Len(sent[c]) \in Nat
    BY ConnTyped
  <2>4. t \in Tasks
    BY <2>2, <2>3, BoundsAssumption DEF Tasks
  <2> HIDE DEF t
  <2> QED BY <1>3, <2>1, <2>4
<1>5. ASSUME NEW c \in Conns, QueueCleanup(c) PROVE TasksTyped'
  <2> DEFINE t == [conn |-> c, frame |-> Cleanup]
  <2>1. tasks' = Append(tasks, t) /\ ~Refuses /\ UNCHANGED <<worker, begun>>
    BY <1>5 DEF QueueCleanup, Forget
  <2>2. t \in Tasks
    BY BoundsAssumption DEF Tasks, Cleanup
  <2> HIDE DEF t
  <2> QED BY <1>3, <2>1, <2>2
<1>6. ASSUME NEW c \in Conns, CleanupInline(c) PROVE TasksTyped'
  <2>1. begun' = [begun EXCEPT ![c] = Append(@, Cleanup)] /\ UNCHANGED <<tasks, worker>>
    BY <1>6 DEF CleanupInline, Forget
  <2>2. begun[c] \in Seq(0..MaxFrames) /\ Cleanup \in 0..MaxFrames
    BY <1>1, BoundsAssumption DEF TasksTyped, Cleanup
  <2>3. Append(begun[c], Cleanup) \in Seq(0..MaxFrames)
    BY <2>2, Pushed
  <2> QED BY <1>1, <2>1, <2>3 DEF TasksTyped
<1>7. ASSUME NEW w \in Workers, Take(w) PROVE TasksTyped'
  <2> DEFINE t == Head(tasks)
  <2>1. /\ tasks # <<>> /\ tasks' = Tail(tasks) /\ worker' = [worker EXCEPT ![w] = t]
        /\ begun' = [begun EXCEPT ![t.conn] = Append(@, t.frame)]
    BY <1>7 DEF Take
  <2>2. /\ t \in Tasks /\ Tail(tasks) \in Seq(Tasks) /\ Len(tasks) \in Nat
        /\ Len(Tail(tasks)) = Len(tasks) - 1
    BY <1>1, <2>1, Popped
  <2>3. t.conn \in Conns /\ t.frame \in 0..MaxFrames
    BY <2>2 DEF Tasks
  <2> HIDE DEF t
  <2>4. begun[t.conn] \in Seq(0..MaxFrames)
    BY <1>1, <2>3 DEF TasksTyped
  <2>5. Append(begun[t.conn], t.frame) \in Seq(0..MaxFrames)
    BY <2>3, <2>4, Pushed
  <2>6. Len(Tail(tasks)) <= MaxQueue
    BY <1>1, <2>2, BoundsAssumption
  <2>7. worker' \in [Workers -> Tasks \cup {NoTask}]
    BY <1>1, <2>1, <2>2 DEF TasksTyped
  <2>8. begun' \in [Conns -> Seq(0..MaxFrames)]
    BY <1>1, <2>1, <2>5 DEF TasksTyped
  <2> QED BY <2>1, <2>2, <2>6, <2>7, <2>8 DEF TasksTyped
<1>8. ASSUME NEW w \in Workers, Finish(w) PROVE TasksTyped'
  <2>1. worker' = [worker EXCEPT ![w] = NoTask] /\ UNCHANGED <<tasks, begun>>
    BY <1>8 DEF Finish
  <2>2. worker' \in [Workers -> Tasks \cup {NoTask}]
    BY <1>1, <2>1 DEF TasksTyped
  <2> QED BY <1>1, <2>1, <2>2 DEF TasksTyped
<1>9. ASSUME NEW c \in Conns,
             CutEmpty(c) \/ CutGarbled(c) \/ CutNameless(c) \/ RefuseRequest(c)
      PROVE  TasksTyped'
  BY <1>2, <1>9 DEF CutEmpty, CutGarbled, CutNameless, RefuseRequest, Round
<1>10. ASSUME \/ UNCHANGED vars
              \/ \E c \in Conns : Client(c) \/ Receive(c) \/ RefuseCleanup(c)
              \/ \E w \in Writers : Logging(w)
              \/ Consuming \/ Stop \/ Interrupt
       PROVE  TasksTyped'
  BY <1>2, <1>10 DEF vars, poolVars, Client, HangUp, SendFrame, Receive, RefuseCleanup,
     Logging, Consuming, Stop, Interrupt, Started, Stopped, MainLogs, ShutDownLogger,
     LoggerShutDown, PoolGone
<1> QED BY <1>4, <1>5, <1>6, <1>7, <1>8, <1>9, <1>10 DEF ServerNext, OnMessage, OnConnection, Work

\* Every step keeps the types; those of the logger are the logger's matter.
LEMMA TypeStep ==
    ASSUME ServerTypeOK, \A c \in Conns : ConnInv(c), [ServerNext]_vars, LoggerTypeOK'
    PROVE  ServerTypeOK'
<1>1. TasksTyped'
  BY TasksStep
<1>2. StreamsTyped'
  <2>1. CASE \E c \in Conns : Client(c) \/ OnMessage(c) \/ OnConnection(c)
    BY <2>1, StreamsStep
  <2>2. CASE ~ \E c \in Conns : Client(c) \/ OnMessage(c) \/ OnConnection(c)
    <3>1. UNCHANGED connVars
      BY <2>2 DEF ServerNext, vars, Work, Take, Finish, Logging, Consuming, Stop, Interrupt,
         Started, Stopped, MainLogs, ShutDownLogger, LoggerShutDown, PoolGone
    <3>2. StreamsTyped
      BY Parts
    <3> QED BY <3>1, <3>2 DEF connVars, StreamsTyped
  <2> QED BY <2>1, <2>2
<1>3. main' \in Places
  <2>1. main \in Places
    BY Parts
  <2>2. main' = main \/ main' \in {"serving", "stopping", "stopped", "joining", "draining", "exited"}
    BY DEF ServerNext, vars, Client, HangUp, SendFrame, OnMessage, Receive, CutEmpty, CutGarbled,
       CutNameless, QueueRequest, RefuseRequest, Round, OnConnection, QueueCleanup, RefuseCleanup,
       CleanupInline, Forget, Work, Take, Finish, Logging, Consuming, Stop, Interrupt,
       Started, Stopped, MainLogs, ShutDownLogger, LoggerShutDown, PoolGone
  <2> QED BY <2>1, <2>2 DEF Places
<1> QED BY <1>1, <1>2, <1>3 DEF ServerTypeOK, StreamsTyped, TasksTyped, Places, Fates

-----------------------------------------------------------------------------
(* The invariant.                                                            *)

\* It holds at first: nothing was sent, queued or logged.
LEMMA InitKeeps == ServerInit => IInv
<1> SUFFICES ASSUME ServerInit PROVE IInv
  OBVIOUS
<1>1. LogInv /\ LoggerTypeOK
  BY LogInit DEF ServerInit, LogInv
<1>2. /\ <<>> \in Seq(Kinds) /\ <<>> \in Seq(1..(2 * MaxFrames)) /\ <<>> \in Seq(Fates)
      /\ <<>> \in Seq(Tasks) /\ <<>> \in Seq(0..MaxFrames)
      /\ Len(<<>>) = 0 /\ 1..0 = {} /\ 0 <= MaxFrames /\ 0 <= MaxQueue
  BY EmptySeq, BoundsAssumption
<1>3. StreamsTyped
  <2>1. Len(<<>>) <= MaxFrames
    BY <1>2
  <2> QED BY <1>2, <2>1 DEF ServerInit, StreamsTyped
<1>4. TasksTyped
  <2>1. Len(<<>>) <= MaxQueue
    BY <1>2
  <2> QED BY <1>2, <2>1 DEF ServerInit, TasksTyped
<1>5. ServerTypeOK
  BY <1>1, <1>3, <1>4, Parts DEF ServerInit, Places
<1>6. ASSUME NEW c \in Conns PROVE ConnInv(c)
  <2>1. /\ buf[c] = <<>> /\ wire[c] = <<>> /\ fate[c] = <<>> /\ sent[c] = <<>>
        /\ link[c] = "up" /\ io[c] = "idle"
    BY DEF ServerInit
  <2>2. <<>> \o <<>> = <<>>
    BY <1>2, ConcatEmptySeq
  <2>3. (2 * 0 + 1)..(2 * 0) = {}
    OBVIOUS
  <2>4. Stream(<<>>, 0, <<>>)
    BY <1>2, <2>3 DEF Stream
  <2>5. Len(<<>>) <= Len(<<>>)
    BY <1>2
  <2> QED BY <1>2, <2>1, <2>2, <2>4, <2>5 DEF ConnInv
<1>7. Begun
  <2> SUFFICES ASSUME NEW c \in Conns PROVE InTurn(begun[c], tasks, fate[c], c)
    BY DEF Begun
  <2>1. begun[c] = <<>> /\ tasks = <<>> /\ fate[c] = <<>>
    BY DEF ServerInit
  <2> QED BY <1>2, <2>1 DEF InTurn
<1> QED BY <1>1, <1>5, <1>6, <1>7 DEF IInv

\* Every step keeps it.
LEMMA NextKeeps == IInv /\ [ServerNext]_vars => IInv'
<1> SUFFICES ASSUME IInv, [ServerNext]_vars PROVE IInv'
  OBVIOUS
<1>1. ServerTypeOK /\ LogInv /\ (\A c \in Conns : ConnInv(c)) /\ Begun
  BY DEF IInv
<1>2. LogInv' /\ LoggerTypeOK'
  BY <1>1, LogSteps, LogKeeps DEF LogInv
<1>3. ServerTypeOK'
  BY <1>1, <1>2, TypeStep
<1>4. \A c \in Conns : ConnInv(c)'
  BY <1>1, ConnStep
<1>5. Begun'
  BY <1>1, TurnStep DEF Begun
<1> QED BY <1>2, <1>3, <1>4, <1>5 DEF IInv

\* So it always holds.
THEOREM Invariant == ServerSpec => []IInv
BY InitKeeps, NextKeeps, PTL DEF ServerSpec

-----------------------------------------------------------------------------
(* What the runs check.                                                      *)

\* Every variable of the server and of its logger keeps to its type: the pool's
\* queue and the logger's never outgrow their bounds.
THEOREM TypeCorrect == ServerSpec => []ServerTypeOK
<1>1. IInv => ServerTypeOK
  BY DEF IInv
<1> QED BY <1>1, Invariant, PTL

\* Whatever number of threads log, and whatever the queue's capacity, lines are
\* written in their order, and no gap is without a note before it.
THEOREM GapsCorrect == ServerSpec => []GapsReported
<1>1. IInv => GapsReported
  BY DEF IInv, LogInv
<1> QED BY <1>1, Invariant, PTL

\* When Shutdown has returned, every line pushed is written, or counted in a
\* note that is.
THEOREM LogCompleteCorrect == ServerSpec => []LogComplete
<1>1. IInv => LogComplete
  <2> SUFFICES ASSUME IInv, shutdown, holder = Nobody
               PROVE  lines = <<>> /\ Len(file) + reported = pushed
    BY DEF LogComplete
  <2>1. consumer = "done" /\ lines = <<>>
    BY DEF IInv, LogInv, Drained
  <2>2. dropped = reported
    BY <2>1 DEF IInv, LogInv, Reported
  <2>3. pushed = Len(file) + dropped + Len(lines) + 0
    BY <2>1 DEF IInv, LogInv, Accounted, InHand
  <2>4. file \in Seq([line : Nat, noted : Nat]) /\ dropped \in Nat /\ pushed \in Nat
    BY DEF IInv, LogInv, LoggerTypeOK
  <2>5. Len(file) \in Nat /\ Len(<<>>) = 0
    BY <2>4, Queue, EmptySeq
  <2>6. pushed = Len(file) + dropped + 0 + 0
    BY <2>1, <2>3, <2>5
  <2> QED BY <2>1, <2>2, <2>4, <2>5, <2>6
<1> QED BY <1>1, Invariant, PTL

\* However the bytes are broken into reads, each frame is cut off once, whole
\* and in its turn.
THEOREM StreamCorrect == ServerSpec => []StreamKept
<1>1. IInv => StreamKept
  <2> SUFFICES ASSUME IInv, NEW c \in Conns, link[c] # "closed"
               PROVE  LET left == buf[c] \o wire[c]
                      IN  /\ \A i, j \in 1..Len(left) : i < j => left[i] < left[j]
                          /\ {left[i] : i \in 1..Len(left)} =
                                {p \in (2 * Len(fate[c]) + 1)..(2 * Len(sent[c])) :
                                    EndsFrame(p) \/ sent[c][FrameOf(p)] # "empty"}
    BY DEF StreamKept
  <2>1. Stream(buf[c] \o wire[c], Len(fate[c]), sent[c])
    BY DEF IInv, ConnInv
  <2> QED BY <2>1 DEF Stream
<1> QED BY <1>1, Invariant, PTL

\* What connection c sees of the queue.
Seen(c) == [i \in 1..Len(tasks) |-> IF tasks[i].conn = c THEN tasks[i].frame ELSE Cleanup]

\* Of what a connection sees, the tasks that began come first.
LEMMA AcceptedFacts ==
    ASSUME ServerTypeOK, NEW c \in Conns
    PROVE  /\ Len(Accepted(c)) = Len(begun[c]) + Len(tasks)
           /\ Len(begun[c]) \in Nat /\ Len(tasks) \in Nat
           /\ \A i \in 1..Len(Accepted(c)) : Accepted(c)[i] \in Nat
           /\ \A i \in 1..Len(begun[c]) : Accepted(c)[i] = begun[c][i]
           /\ \A i \in 1..Len(tasks) :
                 Accepted(c)[Len(begun[c]) + i] = IF Of(tasks[i], c) THEN tasks[i].frame ELSE Cleanup
<1>1. begun[c] \in Seq(Nat) /\ tasks \in Seq(Tasks)
  BY ConnTyped
<1>2. /\ Len(begun[c]) \in Nat /\ Len(tasks) \in Nat
      /\ \A i \in 1..Len(tasks) : tasks[i] \in Tasks
  BY <1>1, Queue
<1>3. \A i \in 1..Len(tasks) : tasks[i].frame \in Nat
  BY <1>2, BoundsAssumption DEF Tasks
<1>4. /\ Seen(c) \in Seq(Nat) /\ Len(Seen(c)) = Len(tasks)
      /\ \A i \in 1..Len(tasks) : Seen(c)[i] = IF Of(tasks[i], c) THEN tasks[i].frame ELSE Cleanup
  <2> DEFINE n == Len(tasks)
  <2> DEFINE At(i) == IF tasks[i].conn = c THEN tasks[i].frame ELSE Cleanup
  <2>1. n \in Nat /\ \A i \in 1..n : At(i) \in Nat
    BY <1>2, <1>3 DEF Cleanup
  <2>2. Seen(c) = [i \in 1..n |-> At(i)]
    BY DEF Seen
  <2>3. \A i \in 1..n : At(i) = IF Of(tasks[i], c) THEN tasks[i].frame ELSE Cleanup
    BY DEF Of
  <2> HIDE DEF n, At
  <2>4. [i \in 1..n |-> At(i)] \in Seq(Nat) /\ Len([i \in 1..n |-> At(i)]) = n
    BY <2>1
  <2> QED BY <2>2, <2>3, <2>4 DEF n
<1>5. Accepted(c) = begun[c] \o Seen(c)
  BY DEF Accepted, Seen
<1>6. PICK b \in Seq(Nat) : b = begun[c]
  BY <1>1
<1>7. PICK s \in Seq(Nat) : s = Seen(c)
  BY <1>4
<1>8. /\ b \o s \in Seq(Nat) /\ Len(b \o s) = Len(b) + Len(s)
      /\ \A i \in 1..Len(b) : (b \o s)[i] = b[i]
      /\ \A i \in 1..Len(s) : (b \o s)[Len(b) + i] = s[i]
  BY Joined
<1>9. \A i \in 1..Len(b \o s) : (b \o s)[i] \in Nat
  BY <1>8, Queue
<1> QED BY <1>2, <1>4, <1>5, <1>6, <1>7, <1>8, <1>9

\* Every request that was cut off and not answered "server busy" is handed to
\* the pool, once, and they begin in the order in which they were sent.
THEOREM TurnCorrect == ServerSpec => []BegunInOrder
<1>1. IInv => BegunInOrder
  <2> SUFFICES ASSUME IInv, NEW c \in Conns
               PROVE  LET accepted == Accepted(c)
                          requests == {i \in 1..Len(accepted) : accepted[i] # Cleanup}
                      IN  /\ \A i, j \in requests : i < j => accepted[i] < accepted[j]
                          /\ {accepted[i] : i \in requests} =
                                {n \in 1..Len(fate[c]) : fate[c][n] = "queued"}
                          /\ \A n \in 1..Len(fate[c]) :
                                fate[c][n] = "skipped" <=> sent[c][n] # "request"
    BY DEF BegunInOrder
  <2> DEFINE a == Accepted(c)
  <2> DEFINE requests == {i \in 1..Len(a) : a[i] # Cleanup}
  <2> DEFINE b == begun[c]
  <2> DEFINE m == Len(b)
  <2>1. ServerTypeOK /\ InTurn(b, tasks, fate[c], c) /\ ConnInv(c)
    BY DEF IInv, Begun
  <2>2. /\ Len(a) = m + Len(tasks) /\ m \in Nat /\ Len(tasks) \in Nat
        /\ \A i \in 1..Len(a) : a[i] \in Nat
        /\ \A i \in 1..m : a[i] = b[i]
        /\ \A i \in 1..Len(tasks) : a[m + i] = IF Of(tasks[i], c) THEN tasks[i].frame ELSE Cleanup
    BY <2>1, AcceptedFacts
  <2> HIDE DEF a, b
  <2>3. Len(fate[c]) \in Nat
    BY <2>1, ConnTyped
  <2> HIDE DEF m
  <2>4. ASSUME NEW i \in 1..Len(a), i > m
        PROVE  /\ i - m \in 1..Len(tasks) /\ m + (i - m) = i
               /\ a[i] # Cleanup => Of(tasks[i - m], c) /\ tasks[i - m].frame = a[i]
    <3>1. i - m \in 1..Len(tasks) /\ m + (i - m) = i
      BY <2>2, <2>4
    <3>2. a[m + (i - m)] = IF Of(tasks[i - m], c) THEN tasks[i - m].frame ELSE Cleanup
      BY <2>2, <3>1
    <3> QED BY <3>1, <3>2
  <2>5. ASSUME NEW i \in requests, NEW j \in requests, i < j PROVE a[i] < a[j]
    <3>1. i \in 1..Len(a) /\ j \in 1..Len(a) /\ a[i] # Cleanup /\ a[j] # Cleanup /\ i \in Nat /\ j \in Nat
      OBVIOUS
    <3>2. CASE j <= m
      <4>1. i \in 1..m /\ j \in 1..m
        BY <2>2, <2>5, <3>1, <3>2
      <4>2. b[i] # Cleanup /\ b[j] # Cleanup /\ a[i] = b[i] /\ a[j] = b[j]
        BY <2>2, <3>1, <4>1
      <4>3. b[i] < b[j]
        BY <2>1, <2>5, <4>1, <4>2 DEF InTurn, m
      <4> QED BY <4>2, <4>3
    <3>3. CASE i <= m /\ j > m
      <4>1. i \in 1..m
        BY <2>2, <3>1, <3>3
      <4>2. a[i] = b[i] /\ b[i] # Cleanup
        BY <2>2, <3>1, <4>1
      <4>3. j - m \in 1..Len(tasks) /\ Of(tasks[j - m], c) /\ tasks[j - m].frame = a[j]
        BY <2>4, <3>1, <3>3
      <4>4. b[i] < tasks[j - m].frame
        BY <2>1, <4>1, <4>2, <4>3 DEF InTurn, m
      <4> QED BY <4>2, <4>3, <4>4
    <3>4. CASE i > m
      <4>1. j > m /\ i - m < j - m
        BY <2>2, <2>5, <3>1, <3>4
      <4>2. /\ i - m \in 1..Len(tasks) /\ Of(tasks[i - m], c) /\ tasks[i - m].frame = a[i]
            /\ j - m \in 1..Len(tasks) /\ Of(tasks[j - m], c) /\ tasks[j - m].frame = a[j]
        BY <2>4, <3>1, <3>4, <4>1
      <4>3. tasks[i - m].frame < tasks[j - m].frame
        BY <2>1, <4>1, <4>2 DEF InTurn
      <4> QED BY <4>2, <4>3
    <3> QED BY <2>2, <3>1, <3>2, <3>3, <3>4
  <2>6. ASSUME NEW n \in Nat, n # Cleanup
        PROVE  (\E i \in requests : a[i] = n) <=> (n \in 1..Len(fate[c]) /\ fate[c][n] = "queued")
    <3>1. \/ \E i \in 1..m : b[i] = n
          \/ \E i \in 1..Len(tasks) : Of(tasks[i], c) /\ tasks[i].frame = n
          <=> n \in 1..Len(fate[c]) /\ fate[c][n] = "queued"
      BY <2>1, <2>6 DEF InTurn, m
    <3>2. ASSUME NEW i \in requests, a[i] = n
          PROVE  \/ \E k \in 1..m : b[k] = n
                 \/ \E k \in 1..Len(tasks) : Of(tasks[k], c) /\ tasks[k].frame = n
      <4>1. CASE i <= m
        <5>1. i \in 1..m
          BY <2>2, <4>1
        <5> QED BY <2>2, <3>2, <5>1
      <4>2. CASE i > m
        BY <2>4, <3>2, <4>2
      <4> QED BY <2>2, <4>1, <4>2
    <3>3. ASSUME NEW i \in 1..m, b[i] = n PROVE \E k \in requests : a[k] = n
      <4>1. i \in 1..Len(a) /\ a[i] = n
        BY <2>2, <3>3
      <4> QED BY <2>6, <4>1
    <3>4. ASSUME NEW i \in 1..Len(tasks), Of(tasks[i], c), tasks[i].frame = n
          PROVE  \E k \in requests : a[k] = n
      <4>1. m + i \in 1..Len(a)
        BY <2>2
      <4>2. a[m + i] = n
        BY <2>2, <3>4
      <4> QED BY <2>6, <4>1, <4>2
    <3> QED BY <3>1, <3>2, <3>3, <3>4
  <2>7. {a[i] : i \in requests} = {n \in 1..Len(fate[c]) : fate[c][n] = "queued"}
    <3>1. \A i \in requests : a[i] \in Nat /\ a[i] # Cleanup
      BY <2>2
    <3>2. \A n \in 1..Len(fate[c]) : n \in Nat /\ n # Cleanup
      BY <2>3 DEF Cleanup
    <3> HIDE DEF requests
    <3> QED BY <2>6, <3>1, <3>2
  <2>8. \A n \in 1..Len(fate[c]) : fate[c][n] = "skipped" <=> sent[c][n] # "request"
    BY <2>1 DEF ConnInv
  <2> QED BY <2>5, <2>7, <2>8 DEF a
<1> QED BY <1>1, Invariant, PTL
=============================================================================
