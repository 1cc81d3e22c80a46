--------------------------- MODULE RequestsProofs ---------------------------
(* Proofs about Requests: any users, groups, workers and faults.             *)
EXTENDS Requests, TLAPS

-----------------------------------------------------------------------------
(* The inductive invariant.                                                  *)

\* A handler that is past its check of the group knows that the group exists;
\* places that only one kind of request has are left to that kind.
InformedOf(t) ==
    LET k == job[t].key
    IN  /\ pc[t] \in {"owner", "name", "group", "creator"} => k \in GroupKeys
        /\ pc[t] = "row back" => k \in FriendKeys
        /\ pc[t] \in {"status", "insert", "reopen", "owner", "forward", "answer", "row",
                      "creator"}
           /\ k \in GroupKeys => k[2] \in groups
Informed == \A t \in Threads : InformedOf(t)

\* A request to join is to join a group that exists.
GroupsExist == \A k \in GroupKeys : status[k] # "none" => k[2] \in groups

\* Whoever is about to make a group's creator is the only one, and the group
\* has none.
Creating ==
    \A t \in Threads : pc[t] = "creator" =>
        /\ \A u \in Users : role[<<u, job[t].key[2]>>] # "creator"
        /\ \A s \in Threads :
              pc[s] = "creator" /\ job[s].key[2] = job[t].key[2] => s = t

\* Between its two rows an acceptance has written the first, or failed to.
Returning ==
    \A t \in Threads : pc[t] = "row back" => job[t].key \in friends \cup harmed

\* What a handler has read of a status is still so, unless it is stale.
CurrentOf(t) ==
    fresh[t] => /\ pc[t] = "reopen" => status[job[t].key] = "rejected"
                /\ pc[t] = "answer" => status[job[t].key] = "pending"
Current == \A t \in Threads : CurrentOf(t)

Safe == AcceptedMeansRelated /\ FriendshipMutual /\ PendingIsKnown /\ OwnedOnce

IInv == TypeOK /\ Informed /\ GroupsExist /\ Creating /\ Returning /\ Current /\ Safe

-----------------------------------------------------------------------------
(* Keys, and what the calls and Goto do.                                     *)

\* Friend requests and group requests are told apart by whom they ask.
LEMMA KeyFacts ==
    /\ NoJob.key \in Keys /\ NoJob.answer = "accepted"
    /\ \A k \in GroupKeys : /\ k \in Keys /\ k \notin FriendKeys
                            /\ k[1] \in Users /\ k[2] \in Groups /\ k = <<k[1], k[2]>>
    /\ \A k \in FriendKeys : /\ k \in Keys /\ k \notin GroupKeys
                             /\ Reverse(k) \in FriendKeys /\ Reverse(Reverse(k)) = k
    /\ \A k \in Keys : k \in GroupKeys \/ k \in FriendKeys
    /\ \A u \in Users, g \in Groups : /\ <<u, g>> \in GroupKeys
                                      /\ <<u, g>>[1] = u /\ <<u, g>>[2] = g
<1>1. \A k \in GroupKeys : k[1] \in Users /\ k[2] \in Groups /\ k = <<k[1], k[2]>>
  BY DEF GroupKeys
<1>2. \A k \in FriendKeys : k[1] \in Users /\ k[2] \in Users /\ k[1] # k[2] /\ k = <<k[1], k[2]>>
  BY DEF FriendKeys
<1>3. \A k \in FriendKeys : Reverse(k) \in FriendKeys /\ Reverse(Reverse(k)) = k
  BY <1>2 DEF Reverse, FriendKeys
<1>4. \A k \in GroupKeys : k \notin FriendKeys
  BY <1>1, <1>2, NamesDisjoint
<1>5. \A u \in Users, g \in Groups : /\ <<u, g>> \in GroupKeys
                                     /\ <<u, g>>[1] = u /\ <<u, g>>[2] = g
  BY DEF GroupKeys
<1>6. Keys # {}
  BY <1>5, NamesAssumption DEF Keys
<1>7. NoJob.key \in Keys /\ NoJob.answer = "accepted"
  BY <1>6 DEF NoJob
<1> QED BY <1>1, <1>3, <1>4, <1>5, <1>7 DEF Keys

\* A writing call that reports success has been done.
LEMMA OutcomeFacts ==
    ASSUME NEW o \in Outcomes
    PROVE  o.done \in BOOLEAN /\ o.ok \in BOOLEAN /\ (o.ok => o.done)
<1>1. \/ o = [done |-> TRUE, ok |-> TRUE] \/ o = [done |-> FALSE, ok |-> FALSE]
      \/ o = [done |-> TRUE, ok |-> FALSE]
  BY DEF Outcomes, OnFailure
<1>2. CASE o = [done |-> TRUE, ok |-> TRUE]
  BY <1>2
<1>3. CASE o = [done |-> FALSE, ok |-> FALSE]
  BY <1>3
<1>4. CASE o = [done |-> TRUE, ok |-> FALSE]
  BY <1>4
<1> QED BY <1>1, <1>2, <1>3, <1>4

PCs == {"idle", "related", "status", "insert", "reopen", "owner", "forward", "pending",
        "answer", "row", "row back", "name", "group", "creator"}
Jobs == [key : Keys, answer : {"accepted", "rejected"}]

\* A thread moves, and keeps its request until its handler returns.
LEMMA GotoFacts ==
    ASSUME TypeOK, NEW t \in Threads, NEW l \in PCs, Goto(t, l)
    PROVE  /\ pc' \in [Threads -> PCs] /\ job' \in [Threads -> Jobs]
           /\ pc'[t] = l /\ (l # "idle" => job'[t] = job[t])
           /\ \A s \in Threads : s # t => pc'[s] = pc[s] /\ job'[s] = job[s]
<1>1. pc \in [Threads -> PCs] /\ job \in [Threads -> Jobs]
  BY DEF TypeOK, PCs, Jobs
<1>2. pc' = [pc EXCEPT ![t] = l]
  BY DEF Goto
<1>3. job' = IF l = "idle" THEN [job EXCEPT ![t] = NoJob] ELSE job
  BY DEF Goto
<1>4. NoJob \in Jobs
  BY KeyFacts DEF NoJob, Jobs
<1> QED BY <1>1, <1>2, <1>3, <1>4

-----------------------------------------------------------------------------
(* What a step of one thread leaves alone, and what survives it.             *)

\* Thread t moves, nothing is deleted, and the failures are remembered.
Moves(t) ==
    /\ pc' \in [Threads -> PCs] /\ job' \in [Threads -> Jobs]
    /\ \A s \in Threads : s # t => pc'[s] = pc[s] /\ job'[s] = job[s]
    /\ pc[t] # "idle" /\ pc'[t] # "idle" => job'[t] = job[t]
    /\ friends \subseteq friends' /\ groups \subseteq groups' /\ harmed \subseteq harmed'
    /\ \A k \in GroupKeys : role[k] # "none" => role'[k] # "none"

\* A handler that stands at one of the places ls still does, if it was not t,
\* or t is handling another request or goes from one of them to another.
LEMMA SomeoneKept ==
    ASSUME NEW t \in Threads, Moves(t), NEW k, NEW ls, "idle" \notin ls,
           Someone(k, ls), pc[t] \in ls /\ job[t].key = k => pc'[t] \in ls
    PROVE  Someone(k, ls)'
<1>1. PICK s \in Threads : pc[s] \in ls /\ job[s].key = k
  BY DEF Someone
<1>2. CASE s = t
  <2>1. pc'[t] \in ls /\ job'[t] = job[t]
    BY <1>1, <1>2 DEF Moves
  <2> QED BY <1>1, <1>2, <2>1 DEF Someone
<1>3. CASE s # t
  BY <1>1, <1>3 DEF Moves, Someone
<1> QED BY <1>2, <1>3

\* What an accepted request promises is so, or was prevented by a failure.
Related(k) ==
    \/ k \in harmed
    \/ k \in FriendKeys /\ {k, Reverse(k)} \subseteq friends
    \/ k \in GroupKeys /\ InGroup(k)

\* AcceptedMeansRelated survives a step that accepts nothing without going on
\* to the rows, and leaves the rows only when they are there.
LEMMA AcceptedKept ==
    ASSUME AcceptedMeansRelated, NEW t \in Threads, Moves(t),
           \A k \in Keys : status'[k] = "accepted" =>
               \/ status[k] = "accepted" \/ Related(k)' \/ Someone(k, {"row", "row back"})',
           \A k \in Keys : pc[t] \in {"row", "row back"} /\ job[t].key = k =>
               pc'[t] \in {"row", "row back"} \/ Related(k)'
    PROVE  AcceptedMeansRelated'
<1> SUFFICES ASSUME NEW k \in Keys, status'[k] = "accepted", ~Related(k)'
             PROVE  Someone(k, {"row", "row back"})'
  BY DEF AcceptedMeansRelated, Related
<1>1. CASE status[k] # "accepted"
  BY <1>1
<1>2. CASE status[k] = "accepted"
  <2>1. ~Related(k)
    BY DEF Related, Moves, InGroup
  <2>2. Someone(k, {"row", "row back"})
    BY <1>2, <2>1 DEF AcceptedMeansRelated, Related
  <2> QED BY <2>2, SomeoneKept
<1> QED BY <1>1, <1>2

\* FriendshipMutual survives a step that adds no row without the other one
\* being there or under way, and leaves only when both are there.
LEMMA MutualKept ==
    ASSUME FriendshipMutual, NEW t \in Threads, Moves(t),
           \A k \in FriendKeys : k \in friends' =>
               \/ k \in friends \/ Reverse(k) \in friends'
               \/ k \in harmed' \/ Reverse(k) \in harmed' \/ Someone(k, {"row back"})',
           \/ pc[t] = "row back" => pc'[t] = "row back"
           \/ /\ job[t].key \in FriendKeys
              /\ \/ job[t].key \in harmed'
                 \/ {job[t].key, Reverse(job[t].key)} \subseteq friends'
    PROVE  FriendshipMutual'
<1> SUFFICES ASSUME NEW k \in FriendKeys, k \in friends, Reverse(k) \notin friends',
                    k \notin harmed', Reverse(k) \notin harmed'
             PROVE  Someone(k, {"row back"})' \/ Someone(Reverse(k), {"row back"})'
  BY DEF FriendshipMutual
<1>1. Someone(k, {"row back"}) \/ Someone(Reverse(k), {"row back"})
  BY DEF FriendshipMutual, Moves
<1>2. ASSUME job[t].key = k \/ job[t].key = Reverse(k), pc[t] = "row back"
      PROVE  pc'[t] = "row back"
  BY <1>2, KeyFacts
<1>3. Someone(k, {"row back"}) => Someone(k, {"row back"})'
  BY <1>2, SomeoneKept
<1>4. Someone(Reverse(k), {"row back"}) => Someone(Reverse(k), {"row back"})'
  BY <1>2, SomeoneKept
<1> QED BY <1>1, <1>3, <1>4

\* PendingIsKnown survives a step that opens no request without going on to
\* pass it on, and leaves only when it has, or was prevented.
LEMMA PendingKept ==
    ASSUME PendingIsKnown, NEW t \in Threads, Moves(t),
           \A k \in Keys : status'[k] = "pending" =>
               \/ status[k] = "pending" /\ (k \in told => k \in told')
               \/ k \in harmed' \/ Someone(k, {"owner", "forward"})',
           pc[t] \in {"owner", "forward"} => \/ pc'[t] \in {"owner", "forward"}
                                             \/ job[t].key \in told' \cup harmed'
    PROVE  PendingIsKnown'
<1> SUFFICES ASSUME NEW k \in Keys, status'[k] = "pending", k \notin told', k \notin harmed'
             PROVE  Someone(k, {"owner", "forward"})'
  BY DEF PendingIsKnown, IsPending
<1>1. CASE status[k] = "pending" /\ (k \in told => k \in told')
  <2>1. Someone(k, {"owner", "forward"})
    BY <1>1 DEF PendingIsKnown, IsPending, Moves
  <2> QED BY <2>1, SomeoneKept
<1> QED BY <1>1

\* OwnedOnce survives a step that changes neither groups nor their creators.
LEMMA OwnedKept ==
    ASSUME OwnedOnce, NEW t \in Threads, Moves(t), groups' = groups,
           \A k \in GroupKeys : role'[k] = "creator" <=> role[k] = "creator",
           pc[t] = "creator" => pc'[t] = "creator"
    PROVE  OwnedOnce'
<1>1. ASSUME NEW k PROVE Someone(k, {"creator"}) => Someone(k, {"creator"})'
  BY SomeoneKept
<1>2. harmed \subseteq harmed'
  BY DEF Moves
<1>3. \A g \in Groups : Owners(g)' = Owners(g)
  BY KeyFacts DEF Owners
<1> QED BY <1>1, <1>2, <1>3 DEF OwnedOnce, GroupExists

\* What other handlers know stays true: groups are never deleted.
LEMMA InformedKept ==
    ASSUME Informed, NEW t \in Threads, Moves(t), InformedOf(t)'
    PROVE  Informed'
<1> SUFFICES ASSUME NEW s \in Threads, s # t PROVE InformedOf(s)'
  BY DEF Informed
<1>1. InformedOf(s) /\ pc'[s] = pc[s] /\ job'[s] = job[s] /\ groups \subseteq groups'
  BY DEF Informed, Moves
<1> QED BY <1>1 DEF InformedOf

\* The creators to be are as before, if no creator was written.
LEMMA CreatingKept ==
    ASSUME Creating, NEW t \in Threads, Moves(t), pc'[t] # "creator",
           \A k \in GroupKeys : role'[k] = "creator" => role[k] = "creator",
           Informed
    PROVE  Creating'
<1>1. \A s \in Threads : pc'[s] = "creator" => pc[s] = "creator" /\ job'[s] = job[s]
  BY DEF Moves
<1>2. \A s \in Threads : pc[s] = "creator" => job[s].key[2] \in Groups
  BY KeyFacts DEF Informed, InformedOf
<1>3. \A s \in Threads, u \in Users :
          pc[s] = "creator" => role'[<<u, job[s].key[2]>>] # "creator"
  BY <1>2, KeyFacts DEF Creating
<1> QED BY <1>1, <1>3 DEF Creating

\* The first rows that were written are still there.
LEMMA ReturningKept ==
    ASSUME Returning, NEW t \in Threads, Moves(t),
           pc'[t] = "row back" => job'[t].key \in friends' \cup harmed'
    PROVE  Returning'
BY DEF Returning, Moves

\* What others know stays true unless the step wrote their request, and then
\* it is marked as stale.
LEMMA CurrentKept ==
    ASSUME Current, NEW t \in Threads, Moves(t), CurrentOf(t)',
           \A s \in Threads : s # t => \/ pc[s] = "idle"
                                       \/ ~fresh'[s]
                                       \/ /\ fresh'[s] = fresh[s]
                                          /\ status'[job[s].key] = status[job[s].key]
    PROVE  Current'
<1> SUFFICES ASSUME NEW s \in Threads, s # t PROVE CurrentOf(s)'
  BY DEF Current
<1>1. CurrentOf(s) /\ pc'[s] = pc[s] /\ job'[s] = job[s]
  BY DEF Current, Moves
<1> QED BY <1>1 DEF CurrentOf

\* A step of one thread is well-typed if what it writes is.
LEMMA TypeKept ==
    ASSUME TypeOK, NEW t \in Threads, Moves(t),
           status' \in [Keys -> {"none", "pending", "accepted", "rejected"}],
           friends' \subseteq FriendKeys, groups' \subseteq Groups,
           role' \in [GroupKeys -> {"none", "creator", "normal"}],
           \A k \in GroupKeys : role'[k] # "none" => k[2] \in groups',
           told' \subseteq Keys, harmed' \subseteq Keys \cup Groups,
           fresh' \in [Threads -> BOOLEAN]
    PROVE  TypeOK'
BY DEF TypeOK, Moves, PCs, Jobs

\* A step that touches no table, and passes nothing on, harms no invariant
\* unless it leaves a place at which something was still to be done.
LEMMA Quiet ==
    ASSUME IInv, NEW t \in Threads, Moves(t), UNCHANGED <<tables, told>>,
           harmed' \subseteq Keys \cup Groups,
           fresh' \in [Threads -> BOOLEAN], \A s \in Threads : s # t => fresh'[s] = fresh[s],
           pc[t] \notin {"row", "row back", "creator"}, pc'[t] \notin {"row back", "creator"},
           pc[t] \in {"owner", "forward"} => \/ pc'[t] \in {"owner", "forward"}
                                             \/ job[t].key \in harmed',
           InformedOf(t)', CurrentOf(t)'
    PROVE  IInv'
<1>1. /\ status' = status /\ friends' = friends /\ groups' = groups /\ role' = role
      /\ told' = told
  BY DEF tables
<1>2. TypeOK'
  BY <1>1, TypeKept DEF IInv, TypeOK
<1>3. Informed'
  BY InformedKept DEF IInv
<1>4. GroupsExist'
  BY <1>1 DEF IInv, GroupsExist
<1>5. Creating'
  BY <1>1, CreatingKept DEF IInv
<1>6. Returning'
  BY ReturningKept DEF IInv
<1>7. Current'
  BY <1>1, CurrentKept DEF IInv
<1>8. AcceptedMeansRelated'
  BY <1>1, AcceptedKept DEF IInv, Safe
<1>9. FriendshipMutual'
  BY <1>1, MutualKept DEF IInv, Safe
<1>10. PendingIsKnown'
  BY <1>1, PendingKept DEF IInv, Safe
<1>11. OwnedOnce'
  BY <1>1, OwnedKept DEF IInv, Safe
<1> QED BY <1>2, <1>3, <1>4, <1>5, <1>6, <1>7, <1>8, <1>9, <1>10, <1>11 DEF IInv, Safe

\* Who reads a status knows it; who writes it makes what others know stale.
LEMMA FreshFacts ==
    ASSUME TypeOK, NEW t \in Threads
    PROVE  /\ Reads(t) => /\ fresh' \in [Threads -> BOOLEAN]
                          /\ \A s \in Threads : s # t => fresh'[s] = fresh[s]
           /\ Writes(t) => /\ fresh' \in [Threads -> BOOLEAN]
                           /\ \A s \in Threads : s # t =>
                                 \/ pc[s] = "idle" \/ ~fresh'[s]
                                 \/ fresh'[s] = fresh[s] /\ job[s].key # job[t].key
<1>1. fresh \in [Threads -> BOOLEAN]
  BY DEF TypeOK
<1>2. Reads(t) => /\ fresh' \in [Threads -> BOOLEAN]
                  /\ \A s \in Threads : s # t => fresh'[s] = fresh[s]
  BY <1>1 DEF Reads
<1>3. ASSUME Writes(t) PROVE fresh' \in [Threads -> BOOLEAN]
  BY <1>3 DEF Writes
<1>4. ASSUME Writes(t), NEW s \in Threads, s # t, pc[s] # "idle", fresh'[s]
      PROVE  fresh[s] /\ job[s].key # job[t].key
  BY <1>4 DEF Writes
<1> QED BY <1>1, <1>2, <1>3, <1>4

\* An update of one status is just that.
LEMMA StatusFacts ==
    ASSUME TypeOK, NEW k \in Keys, NEW s \in {"none", "pending", "accepted", "rejected"},
           status' = WithStatus(k, s)
    PROVE  /\ status' \in [Keys -> {"none", "pending", "accepted", "rejected"}]
           /\ status'[k] = s
           /\ \A j \in Keys : j # k => status'[j] = status[j]
BY DEF TypeOK, WithStatus

\* Every thread has a request at hand, be it that of no handler.
LEMMA JobFacts ==
    ASSUME TypeOK, NEW t \in Threads
    PROVE  job[t].key \in Keys /\ job[t].answer \in {"accepted", "rejected"}
BY DEF TypeOK

-----------------------------------------------------------------------------
(* Each step keeps the invariant: those that touch no table.                 *)

\* A handler begins at its first check, which presupposes nothing.
LEMMA StartKeeps ==
    ASSUME IInv, NEW t \in Threads, NEW l \in {"related", "pending", "name"}, NEW k \in Keys,
           l = "name" => k \in GroupKeys, NEW a \in {"accepted", "rejected"}, Start(t, l, k, a)
    PROVE  IInv'
<1>1. TypeOK
  BY DEF IInv
<1>2. /\ pc \in [Threads -> PCs] /\ job \in [Threads -> Jobs]
      /\ pc' = [pc EXCEPT ![t] = l] /\ job' = [job EXCEPT ![t] = [key |-> k, answer |-> a]]
      /\ pc[t] = "idle" /\ UNCHANGED <<tables, told, harmed>> /\ Reads(t)
  BY <1>1 DEF TypeOK, PCs, Jobs, Start
<1>3. [key |-> k, answer |-> a] \in Jobs /\ l \in PCs
  BY DEF Jobs, PCs
<1>4. /\ pc' \in [Threads -> PCs] /\ job' \in [Threads -> Jobs]
      /\ pc'[t] = l /\ job'[t] = [key |-> k, answer |-> a]
      /\ \A s \in Threads : s # t => pc'[s] = pc[s] /\ job'[s] = job[s]
  BY <1>2, <1>3
<1>5. Moves(t)
  BY <1>2, <1>4 DEF Moves, tables
<1>6. pc'[t] = l /\ job'[t].key = k
  BY <1>4
<1>7. InformedOf(t)' /\ CurrentOf(t)'
  BY <1>6 DEF InformedOf, CurrentOf
<1>8. harmed' \subseteq Keys \cup Groups
  BY <1>1, <1>2 DEF TypeOK
<1> QED BY <1>1, <1>2, <1>4, <1>5, <1>7, <1>8, FreshFacts, Quiet

\* addFriend: the two users exist and are no friends.
LEMMA CheckFriendKeeps ==
    ASSUME IInv, NEW t \in Threads, CheckFriend(t)
    PROVE  IInv'
<1>1. TypeOK
  BY DEF IInv
<1>2. PICK l \in {"status", "idle"} : Goto(t, l)
  BY DEF CheckFriend
<1>3. pc[t] = "related" /\ job[t].key \in FriendKeys /\ UNCHANGED <<tables, told, harmed, fresh>>
  BY DEF CheckFriend
<1>4. Moves(t) /\ pc'[t] = l /\ (l # "idle" => job'[t] = job[t])
  BY <1>1, <1>2, <1>3, GotoFacts DEF Moves, tables, PCs
<1>5. InformedOf(t)' /\ CurrentOf(t)'
  BY <1>3, <1>4, KeyFacts DEF InformedOf, CurrentOf
<1>6. /\ harmed' \subseteq Keys \cup Groups /\ fresh' \in [Threads -> BOOLEAN]
      /\ \A s \in Threads : s # t => fresh'[s] = fresh[s]
  BY <1>1, <1>3 DEF TypeOK
<1> QED BY <1>3, <1>4, <1>5, <1>6, Quiet

\* addGroup: the group exists, so whoever goes on knows that it does.
LEMMA CheckMemberKeeps ==
    ASSUME IInv, NEW t \in Threads, CheckMember(t)
    PROVE  IInv'
<1>1. TypeOK
  BY DEF IInv
<1>2. PICK exists \in IsGroupExist(job[t].key[2]) :
        Goto(t, "idle") \/ (Goto(t, "status") /\ exists = "Ok")
  BY DEF CheckMember
<1>3. pc[t] = "related" /\ job[t].key \in GroupKeys /\ UNCHANGED <<tables, told, harmed, fresh>>
  BY DEF CheckMember
<1>4. exists = "Ok" => job[t].key[2] \in groups
  BY DEF IsGroupExist, Found, GroupExists, OnFailure
<1>5. PICK l \in {"status", "idle"} :
        Goto(t, l) /\ (l = "status" => job[t].key[2] \in groups)
  BY <1>2, <1>4
<1>6. Moves(t) /\ pc'[t] = l /\ (l # "idle" => job'[t] = job[t])
  BY <1>1, <1>3, <1>5, GotoFacts DEF Moves, tables, PCs
<1>7. InformedOf(t)' /\ CurrentOf(t)'
  BY <1>3, <1>5, <1>6, KeyFacts DEF InformedOf, CurrentOf, tables
<1>8. /\ harmed' \subseteq Keys \cup Groups /\ fresh' \in [Threads -> BOOLEAN]
      /\ \A s \in Threads : s # t => fresh'[s] = fresh[s]
  BY <1>1, <1>3 DEF TypeOK
<1> QED BY <1>3, <1>6, <1>7, <1>8, Quiet

\* addFriend and addGroup: the status that was read is known.
LEMMA CheckStatusKeeps ==
    ASSUME IInv, NEW t \in Threads, CheckStatus(t)
    PROVE  IInv'
<1>1. TypeOK
  BY DEF IInv
<1>2. pc[t] = "status" /\ Reads(t) /\ UNCHANGED <<tables, told, harmed>>
  BY DEF CheckStatus
<1>3. PICK l \in {"insert", "reopen", "idle"} :
        Goto(t, l) /\ (l = "reopen" => status[job[t].key] = "rejected")
  BY DEF CheckStatus, QueryRequestStatus, OnFailure, Resumption
<1>4. Moves(t) /\ pc'[t] = l /\ (l # "idle" => job'[t] = job[t])
  BY <1>1, <1>2, <1>3, GotoFacts DEF Moves, tables, PCs
<1>5. InformedOf(t)
  BY DEF IInv, Informed
<1>6. InformedOf(t)' /\ CurrentOf(t)'
  BY <1>2, <1>3, <1>4, <1>5 DEF InformedOf, CurrentOf, tables
<1>7. harmed' \subseteq Keys \cup Groups
  BY <1>1, <1>2 DEF TypeOK
<1> QED BY <1>1, <1>2, <1>4, <1>6, <1>7, FreshFacts, Quiet

\* addGroup: a request whose group has no owner is remembered as a failure.
LEMMA FindOwnerKeeps ==
    ASSUME IInv, NEW t \in Threads, FindOwner(t)
    PROVE  IInv'
<1>1. TypeOK /\ job[t].key \in Keys
  BY JobFacts DEF IInv
<1>2. pc[t] = "owner" /\ UNCHANGED <<tables, told, fresh>>
  BY DEF FindOwner
<1>3. PICK l \in {"forward", "idle"} :
        /\ Goto(t, l)
        /\ harmed' = IF l = "forward" THEN harmed ELSE harmed \cup {job[t].key}
  BY DEF FindOwner
<1>4. Moves(t) /\ pc'[t] = l /\ (l # "idle" => job'[t] = job[t])
  BY <1>1, <1>2, <1>3, GotoFacts DEF Moves, tables, PCs
<1>5. InformedOf(t)
  BY DEF IInv, Informed
<1>6. InformedOf(t)' /\ CurrentOf(t)'
  BY <1>2, <1>3, <1>4, <1>5 DEF InformedOf, CurrentOf, tables
<1>7. /\ harmed' \subseteq Keys \cup Groups /\ fresh' \in [Threads -> BOOLEAN]
      /\ \A s \in Threads : s # t => fresh'[s] = fresh[s]
  BY <1>1, <1>2, <1>3 DEF TypeOK
<1> QED BY <1>2, <1>3, <1>4, <1>6, <1>7, Quiet

\* addFriendHandle and addGroupHandle: a request that is pending exists, and so
\* does its group.
LEMMA CheckPendingKeeps ==
    ASSUME IInv, NEW t \in Threads, CheckPending(t)
    PROVE  IInv'
<1>1. TypeOK /\ GroupsExist /\ job[t].key \in Keys
  BY JobFacts DEF IInv
<1>2. pc[t] = "pending" /\ Reads(t) /\ UNCHANGED <<tables, told, harmed>>
  BY DEF CheckPending
<1>3. PICK l \in {"answer", "idle"} :
        Goto(t, l) /\ (l = "answer" => status[job[t].key] = "pending")
  BY DEF CheckPending, IsPendingRequest, IsPending, Found, OnFailure
<1>4. Moves(t) /\ pc'[t] = l /\ (l # "idle" => job'[t] = job[t])
  BY <1>1, <1>2, <1>3, GotoFacts DEF Moves, tables, PCs
<1>5. InformedOf(t)' /\ CurrentOf(t)'
  BY <1>1, <1>2, <1>3, <1>4 DEF InformedOf, CurrentOf, tables, GroupsExist
<1>6. harmed' \subseteq Keys \cup Groups
  BY <1>1, <1>2 DEF TypeOK
<1> QED BY <1>1, <1>2, <1>4, <1>5, <1>6, FreshFacts, Quiet

\* createGroup: nothing is written yet.
LEMMA CheckNameKeeps ==
    ASSUME IInv, NEW t \in Threads, CheckName(t)
    PROVE  IInv'
<1>1. TypeOK
  BY DEF IInv
<1>2. pc[t] = "name" /\ UNCHANGED <<tables, told, harmed, fresh>>
  BY DEF CheckName
<1>3. PICK l \in {"group", "idle"} : Goto(t, l)
  BY DEF CheckName
<1>4. Moves(t) /\ pc'[t] = l /\ (l # "idle" => job'[t] = job[t])
  BY <1>1, <1>2, <1>3, GotoFacts DEF Moves, tables, PCs
<1>5. InformedOf(t)
  BY DEF IInv, Informed
<1>6. InformedOf(t)' /\ CurrentOf(t)'
  BY <1>2, <1>4, <1>5 DEF InformedOf, CurrentOf
<1>7. /\ harmed' \subseteq Keys \cup Groups /\ fresh' \in [Threads -> BOOLEAN]
      /\ \A s \in Threads : s # t => fresh'[s] = fresh[s]
  BY <1>1, <1>2 DEF TypeOK
<1> QED BY <1>2, <1>4, <1>6, <1>7, Quiet

-----------------------------------------------------------------------------
(* Each step keeps the invariant: those that write.                          *)

\* Passing a request on makes it known, or is a failure to be remembered.
LEMMA ForwardKeeps ==
    ASSUME IInv, NEW t \in Threads, Forward(t)
    PROVE  IInv'
<1>1. TypeOK /\ job[t].key \in Keys
  BY JobFacts DEF IInv
<1>2. /\ pc[t] = "forward" /\ Goto(t, "idle")
      /\ status' = status /\ friends' = friends /\ groups' = groups /\ role' = role
      /\ fresh' = fresh
  BY DEF Forward, tables
<1>3. /\ told \subseteq told' /\ harmed \subseteq harmed' /\ job[t].key \in told' \cup harmed'
      /\ told' \subseteq told \cup {job[t].key} /\ harmed' \subseteq harmed \cup {job[t].key}
  BY DEF Forward
<1>4. Moves(t) /\ pc'[t] = "idle"
  BY <1>1, <1>2, <1>3, GotoFacts DEF Moves, PCs
<1>5. TypeOK'
  <2>1. /\ told \subseteq Keys /\ harmed \subseteq Keys \cup Groups
    BY <1>1 DEF TypeOK
  <2>2. told' \subseteq Keys /\ harmed' \subseteq Keys \cup Groups
    BY <1>1, <1>3, <2>1
  <2> QED BY <1>1, <1>2, <1>4, <2>2, TypeKept DEF TypeOK
<1>6. InformedOf(t)' /\ CurrentOf(t)'
  BY <1>4 DEF InformedOf, CurrentOf
<1>7. Informed' /\ GroupsExist'
  BY <1>2, <1>4, <1>6, InformedKept DEF IInv, GroupsExist
<1>8. Creating'
  BY <1>2, <1>4, CreatingKept DEF IInv
<1>9. Returning'
  BY <1>4, ReturningKept DEF IInv
<1>10. Current'
  BY <1>2, <1>4, <1>6, CurrentKept DEF IInv
<1>11. AcceptedMeansRelated' /\ FriendshipMutual'
  BY <1>2, <1>4, AcceptedKept, MutualKept DEF IInv, Safe
<1>12. PendingIsKnown'
  BY <1>2, <1>3, <1>4, PendingKept DEF IInv, Safe
<1>13. OwnedOnce'
  BY <1>2, <1>4, OwnedKept DEF IInv, Safe
<1> QED BY <1>5, <1>7, <1>8, <1>9, <1>10, <1>11, <1>12, <1>13 DEF IInv, Safe

\* A request that becomes pending is passed on next, unless the handler fails
\* to learn that it did.
LEMMA OpenKeeps ==
    ASSUME IInv, NEW t \in Threads, pc[t] \in {"insert", "reopen"},
           NEW o, o.done \in BOOLEAN, o.ok \in BOOLEAN, o.ok => o.done, Open(t, o)
    PROVE  IInv'
<1> DEFINE k == job[t].key
<1>1. TypeOK /\ k \in Keys
  BY JobFacts DEF IInv
<1>2. CASE ~o.done
  <2>1. /\ UNCHANGED <<tables, told, harmed, fresh>> /\ Goto(t, "idle")
    BY <1>2 DEF Open, tables
  <2>2. Moves(t) /\ pc'[t] = "idle"
    BY <1>1, <2>1, GotoFacts DEF Moves, tables, PCs
  <2>3. InformedOf(t)' /\ CurrentOf(t)'
    BY <2>2 DEF InformedOf, CurrentOf
  <2>4. /\ harmed' \subseteq Keys \cup Groups /\ fresh' \in [Threads -> BOOLEAN]
        /\ \A s \in Threads : s # t => fresh'[s] = fresh[s]
    BY <1>1, <2>1 DEF TypeOK
  <2> QED BY <2>1, <2>2, <2>3, <2>4, Quiet
<1>3. CASE o.done
  <2>1. /\ status' = WithStatus(k, "pending") /\ told' = told \ {k} /\ Writes(t)
        /\ friends' = friends /\ groups' = groups /\ role' = role
    BY <1>3 DEF Open
  <2>2. PICK l \in {"idle", "owner", "forward"} :
          /\ Goto(t, l)
          /\ l = "owner" => k \in GroupKeys
          /\ harmed' = IF l = "idle" THEN harmed \cup {k} ELSE harmed
    BY <1>3 DEF Open
  <2>3. Moves(t) /\ pc'[t] = l /\ (l # "idle" => job'[t] = job[t])
    BY <1>1, <2>1, <2>2, GotoFacts DEF Moves, PCs
  <2>4. /\ status' \in [Keys -> {"none", "pending", "accepted", "rejected"}]
        /\ status'[k] = "pending"
        /\ \A j \in Keys : j # k => status'[j] = status[j]
    BY <1>1, <2>1, StatusFacts
  <2>5. TypeOK'
    <3>1. told' \subseteq Keys /\ harmed' \subseteq Keys \cup Groups
      BY <1>1, <2>1, <2>2 DEF TypeOK
    <3>2. fresh' \in [Threads -> BOOLEAN]
      BY <1>1, <2>1, FreshFacts
    <3> QED BY <1>1, <2>1, <2>3, <2>4, <3>1, <3>2, TypeKept DEF TypeOK
  <2>6. InformedOf(t) /\ (k \in GroupKeys => k[2] \in groups)
    BY DEF IInv, Informed, InformedOf
  <2>7. InformedOf(t)' /\ CurrentOf(t)'
    BY <2>1, <2>2, <2>3, <2>6 DEF InformedOf, CurrentOf
  <2>8. Informed'
    BY <2>3, <2>7, InformedKept DEF IInv
  <2>9. GroupsExist'
    BY <2>1, <2>4, <2>6, KeyFacts DEF IInv, GroupsExist
  <2>10. Creating'
    BY <2>1, <2>3, CreatingKept DEF IInv
  <2>11. Returning'
    BY <2>3, ReturningKept DEF IInv
  <2>12. Current'
    <3>1. \A s \in Threads : s # t => \/ pc[s] = "idle" \/ ~fresh'[s]
                                      \/ fresh'[s] = fresh[s] /\ job[s].key # k
      BY <1>1, <2>1, FreshFacts
    <3>2. \A s \in Threads : job[s].key \in Keys
      BY <1>1, JobFacts
    <3>3. \A s \in Threads : s # t => \/ pc[s] = "idle" \/ ~fresh'[s]
                                      \/ /\ fresh'[s] = fresh[s]
                                         /\ status'[job[s].key] = status[job[s].key]
      BY <2>4, <3>1, <3>2
    <3> QED BY <2>3, <2>7, <3>3, CurrentKept DEF IInv
  <2>13. AcceptedMeansRelated' /\ FriendshipMutual'
    BY <2>1, <2>3, <2>4, AcceptedKept, MutualKept DEF IInv, Safe
  <2>14. PendingIsKnown'
    <3>1. ASSUME NEW j \in Keys, j = k
          PROVE  j \in harmed' \/ Someone(j, {"owner", "forward"})'
      BY <2>2, <2>3, <3>1 DEF Someone
    <3>2. \A j \in Keys : status'[j] = "pending" =>
              \/ status[j] = "pending" /\ (j \in told => j \in told')
              \/ j \in harmed' \/ Someone(j, {"owner", "forward"})'
      BY <2>1, <2>4, <3>1
    <3> QED BY <2>3, <3>2, PendingKept DEF IInv, Safe
  <2>15. OwnedOnce'
    BY <2>1, <2>3, OwnedKept DEF IInv, Safe
  <2> QED BY <2>5, <2>8, <2>9, <2>10, <2>11, <2>12, <2>13, <2>14, <2>15 DEF IInv, Safe
<1> QED BY <1>2, <1>3

\* The insertion of a request opens it, if no row is there.
LEMMA InsertRequestKeeps ==
    ASSUME IInv, NEW t \in Threads, InsertRequest(t)
    PROVE  IInv'
<1>1. PICK o \in Outcomes \cup {[done |-> FALSE, ok |-> FALSE]} : Open(t, o)
  BY DEF InsertRequest
<1>2. o.done \in BOOLEAN /\ o.ok \in BOOLEAN /\ (o.ok => o.done)
  <2>1. CASE o \in Outcomes
    BY <2>1, OutcomeFacts
  <2>2. CASE o = [done |-> FALSE, ok |-> FALSE]
    BY <2>2
  <2> QED BY <2>1, <2>2
<1> QED BY <1>1, <1>2, OpenKeeps DEF InsertRequest

\* The reopening of a request opens it.
LEMMA ReopenRequestKeeps ==
    ASSUME IInv, NEW t \in Threads, ReopenRequest(t)
    PROVE  IInv'
<1>1. PICK o \in Outcomes : Open(t, o)
  BY DEF ReopenRequest
<1>2. o.done \in BOOLEAN /\ o.ok \in BOOLEAN /\ (o.ok => o.done)
  BY OutcomeFacts
<1> QED BY <1>1, <1>2, OpenKeeps DEF ReopenRequest

\* An answer is written over whatever the status is; acceptances go on to the
\* rows, or fail.
LEMMA AnswerKeeps ==
    ASSUME IInv, NEW t \in Threads, pc[t] = "answer",
           NEW o, o.done \in BOOLEAN, NEW l \in {"idle", "row"}, Answer(t, o, l),
           harmed \subseteq harmed', harmed' \subseteq harmed \cup {job[t].key},
           job[t].answer = "accepted" /\ o.done => l = "row" \/ job[t].key \in harmed'
    PROVE  IInv'
<1> DEFINE k == job[t].key
<1>1. TypeOK /\ k \in Keys /\ job[t].answer \in {"accepted", "rejected"}
  BY JobFacts DEF IInv
<1>2. friends' = friends /\ groups' = groups /\ role' = role /\ told' = told /\ Goto(t, l)
  BY DEF Answer
<1>3. Moves(t) /\ pc'[t] = l /\ (l # "idle" => job'[t] = job[t])
  BY <1>1, <1>2, GotoFacts DEF Moves, PCs
<1>4. harmed' \subseteq Keys \cup Groups
  BY <1>1 DEF TypeOK
<1>5. InformedOf(t) /\ (k \in GroupKeys => k[2] \in groups)
  BY DEF IInv, Informed, InformedOf
<1>6. InformedOf(t)' /\ CurrentOf(t)'
  BY <1>2, <1>3, <1>5 DEF InformedOf, CurrentOf
<1>7. CASE ~o.done
  <2>1. UNCHANGED <<tables, told, fresh>>
    BY <1>2, <1>7 DEF Answer, tables
  <2>2. /\ fresh' \in [Threads -> BOOLEAN]
        /\ \A s \in Threads : s # t => fresh'[s] = fresh[s]
    BY <1>1, <2>1 DEF TypeOK
  <2> QED BY <1>3, <1>4, <1>6, <2>1, <2>2, Quiet
<1>8. CASE o.done
  <2>1. status' = WithStatus(k, job[t].answer) /\ Writes(t)
    BY <1>8 DEF Answer
  <2>2. /\ status' \in [Keys -> {"none", "pending", "accepted", "rejected"}]
        /\ status'[k] = job[t].answer
        /\ \A j \in Keys : j # k => status'[j] = status[j]
    BY <1>1, <2>1, StatusFacts
  <2>3. TypeOK'
    <3>1. fresh' \in [Threads -> BOOLEAN]
      BY <1>1, <2>1, FreshFacts
    <3> QED BY <1>1, <1>2, <1>3, <1>4, <2>2, <3>1, TypeKept DEF TypeOK
  <2>4. Informed'
    BY <1>3, <1>6, InformedKept DEF IInv
  <2>5. GroupsExist'
    BY <1>2, <1>5, <2>2, KeyFacts DEF IInv, GroupsExist
  <2>6. Creating'
    BY <1>2, <1>3, CreatingKept DEF IInv
  <2>7. Returning'
    BY <1>3, ReturningKept DEF IInv
  <2>8. Current'
    <3>1. \A s \in Threads : s # t => \/ pc[s] = "idle" \/ ~fresh'[s]
                                      \/ fresh'[s] = fresh[s] /\ job[s].key # k
      BY <1>1, <2>1, FreshFacts
    <3>2. \A s \in Threads : job[s].key \in Keys
      BY <1>1, JobFacts
    <3>3. \A s \in Threads : s # t => \/ pc[s] = "idle" \/ ~fresh'[s]
                                      \/ /\ fresh'[s] = fresh[s]
                                         /\ status'[job[s].key] = status[job[s].key]
      BY <2>2, <3>1, <3>2
    <3> QED BY <1>3, <1>6, <3>3, CurrentKept DEF IInv
  <2>9. AcceptedMeansRelated'
    <3>1. ASSUME NEW j \in Keys, j = k, job[t].answer = "accepted"
          PROVE  Related(j)' \/ Someone(j, {"row", "row back"})'
      BY <1>3, <1>8, <3>1 DEF Someone, Related
    <3>2. \A j \in Keys : status'[j] = "accepted" =>
              \/ status[j] = "accepted" \/ Related(j)' \/ Someone(j, {"row", "row back"})'
      BY <2>2, <3>1
    <3> QED BY <1>3, <3>2, AcceptedKept DEF IInv, Safe
  <2>10. FriendshipMutual'
    BY <1>2, <1>3, MutualKept DEF IInv, Safe
  <2>11. PendingIsKnown'
    <3>1. \A j \in Keys : status'[j] = "pending" => status[j] = "pending"
      BY <1>1, <2>2
    <3> QED BY <1>2, <1>3, <3>1, PendingKept DEF IInv, Safe
  <2>12. OwnedOnce'
    BY <1>2, <1>3, OwnedKept DEF IInv, Safe
  <2> QED BY <2>3, <2>4, <2>5, <2>6, <2>7, <2>8, <2>9, <2>10, <2>11, <2>12 DEF IInv, Safe
<1> QED BY <1>7, <1>8

\* addFriendHandle accepts, and goes on only if it learns that it did.
LEMMA AcceptFriendKeeps ==
    ASSUME IInv, NEW t \in Threads, AcceptFriend(t)
    PROVE  IInv'
<1>1. PICK o \in Outcomes :
        /\ Answer(t, o, IF o.ok THEN "row" ELSE "idle")
        /\ harmed' = IF o.done /\ ~o.ok THEN harmed \cup {job[t].key} ELSE harmed
  BY DEF AcceptFriend
<1>2. o.done \in BOOLEAN /\ o.ok \in BOOLEAN /\ pc[t] = "answer"
  BY OutcomeFacts DEF AcceptFriend
<1>3. CASE o.ok
  BY <1>1, <1>2, <1>3, AnswerKeeps
<1>4. CASE ~o.ok
  BY <1>1, <1>2, <1>4, AnswerKeeps
<1> QED BY <1>3, <1>4

\* addGroupHandle accepts, and goes on whatever it learns.
LEMMA AcceptMemberKeeps ==
    ASSUME IInv, NEW t \in Threads, AcceptMember(t)
    PROVE  IInv'
<1>1. PICK o \in Outcomes : Answer(t, o, "row")
  BY DEF AcceptMember
<1>2. o.done \in BOOLEAN /\ pc[t] = "answer" /\ harmed' = harmed
  BY OutcomeFacts DEF AcceptMember
<1> QED BY <1>1, <1>2, AnswerKeeps

\* A rejection promises nothing.
LEMMA RejectKeeps ==
    ASSUME IInv, NEW t \in Threads, Reject(t)
    PROVE  IInv'
<1>1. PICK o \in Outcomes : Answer(t, o, "idle")
  BY DEF Reject
<1>2. /\ o.done \in BOOLEAN /\ pc[t] = "answer" /\ harmed' = harmed
      /\ job[t].answer = "rejected"
  BY OutcomeFacts DEF Reject
<1> QED BY <1>1, <1>2, AnswerKeeps

\* The first row makes sure of the second, or the failure is remembered.
LEMMA BefriendKeeps ==
    ASSUME IInv, NEW t \in Threads, Befriend(t)
    PROVE  IInv'
<1> DEFINE k == job[t].key
<1>1. TypeOK /\ k \in Keys
  BY JobFacts DEF IInv
<1>2. /\ pc[t] \in {"row", "row back"} /\ k \in FriendKeys
      /\ status' = status /\ groups' = groups /\ role' = role /\ told' = told
      /\ fresh' = fresh
      /\ Goto(t, IF pc[t] = "row" THEN "row back" ELSE "idle")
  BY DEF Befriend
<1>3. PICK o \in Outcomes :
        /\ friends' = IF ~o.done THEN friends
                      ELSE WithFriend(IF pc[t] = "row" THEN k ELSE Reverse(k))
        /\ harmed' = IF o.done THEN harmed ELSE harmed \cup {k}
  BY DEF Befriend
<1>4. PICK l \in {"row back", "idle"} :
        /\ Goto(t, l)
        /\ l = "row back" <=> pc[t] = "row"
  BY <1>2
<1>5. Reverse(k) \in FriendKeys /\ Reverse(Reverse(k)) = k
  BY <1>2, KeyFacts
<1>6. /\ friends \subseteq friends' /\ harmed \subseteq harmed'
      /\ friends' \subseteq friends \cup {IF pc[t] = "row" THEN k ELSE Reverse(k)}
      /\ harmed' \subseteq harmed \cup {k}
      /\ (IF pc[t] = "row" THEN k ELSE Reverse(k)) \in friends' \/ k \in harmed'
  BY <1>3 DEF WithFriend
<1>7. Moves(t) /\ pc'[t] = l /\ (l # "idle" => job'[t] = job[t])
  BY <1>1, <1>2, <1>4, <1>6, GotoFacts DEF Moves, PCs
<1>8. TypeOK'
  <2>1. friends' \subseteq FriendKeys /\ harmed' \subseteq Keys \cup Groups
    BY <1>1, <1>2, <1>5, <1>6 DEF TypeOK
  <2> QED BY <1>1, <1>2, <1>7, <2>1, TypeKept DEF TypeOK
<1>9. InformedOf(t)' /\ CurrentOf(t)'
  BY <1>2, <1>7, KeyFacts DEF InformedOf, CurrentOf
<1>10. Informed' /\ GroupsExist'
  BY <1>2, <1>7, <1>9, InformedKept DEF IInv, GroupsExist
<1>11. Creating'
  BY <1>2, <1>7, CreatingKept DEF IInv
<1>12. Returning'
  <2>1. pc'[t] = "row back" => job'[t].key \in friends' \cup harmed'
    BY <1>4, <1>6, <1>7
  <2> QED BY <1>7, <2>1, ReturningKept DEF IInv
<1>13. Current'
  BY <1>2, <1>7, <1>9, CurrentKept DEF IInv
<1>14. pc[t] = "row back" => k \in harmed' \/ {k, Reverse(k)} \subseteq friends'
  BY <1>6 DEF IInv, Returning
<1>15. AcceptedMeansRelated'
  <2>1. ASSUME NEW j \in Keys, job[t].key = j, pc[t] = "row back" PROVE Related(j)'
    BY <1>2, <1>14, <2>1 DEF Related
  <2>2. \A j \in Keys : pc[t] \in {"row", "row back"} /\ job[t].key = j =>
            pc'[t] \in {"row", "row back"} \/ Related(j)'
    BY <1>2, <1>4, <1>7, <2>1
  <2> QED BY <1>2, <1>7, <2>2, AcceptedKept DEF IInv, Safe
<1>16. FriendshipMutual'
  <2>1. ASSUME NEW j \in FriendKeys, j \in friends', j \notin friends,
               Reverse(j) \notin friends', Reverse(j) \notin harmed'
        PROVE  Someone(j, {"row back"})'
    <3>1. CASE pc[t] = "row"
      <4>1. j = k
        BY <1>6, <2>1, <3>1
      <4> QED BY <1>4, <1>7, <3>1, <4>1 DEF Someone
    <3>2. CASE pc[t] = "row back"
      <4>1. Reverse(j) = k
        BY <1>5, <1>6, <2>1, <3>2
      <4> QED BY <1>14, <2>1, <3>2, <4>1
    <3> QED BY <1>2, <3>1, <3>2
  <2>2. \A j \in FriendKeys : j \in friends' =>
            \/ j \in friends \/ Reverse(j) \in friends'
            \/ j \in harmed' \/ Reverse(j) \in harmed' \/ Someone(j, {"row back"})'
    BY <2>1
  <2> QED BY <1>2, <1>7, <1>14, <2>2, MutualKept DEF IInv, Safe
<1>17. PendingIsKnown'
  BY <1>2, <1>7, PendingKept DEF IInv, Safe
<1>18. OwnedOnce'
  BY <1>2, <1>7, OwnedKept DEF IInv, Safe
<1> QED BY <1>8, <1>10, <1>11, <1>12, <1>13, <1>15, <1>16, <1>17, <1>18 DEF IInv, Safe

\* What INSERT into GroupUser does: a row that is there stays.
LEMMA RoleFacts ==
    ASSUME TypeOK, NEW k \in GroupKeys, NEW r \in {"creator", "normal"},
           role' = WithMember(k, r)
    PROVE  /\ role' \in [GroupKeys -> {"none", "creator", "normal"}]
           /\ role'[k] = IF role[k] = "none" THEN r ELSE role[k]
           /\ \A j \in GroupKeys : j # k => role'[j] = role[j]
BY DEF TypeOK, WithMember

\* The row makes a member, or the failure is remembered; no creator is made.
LEMMA AdmitKeeps ==
    ASSUME IInv, NEW t \in Threads, Admit(t)
    PROVE  IInv'
<1> DEFINE k == job[t].key
<1>1. TypeOK /\ k \in Keys
  BY JobFacts DEF IInv
<1>2. /\ pc[t] = "row" /\ k \in GroupKeys /\ Goto(t, "idle")
      /\ status' = status /\ friends' = friends /\ groups' = groups /\ told' = told
      /\ fresh' = fresh
  BY DEF Admit
<1>3. PICK o \in Outcomes : /\ role' = IF o.done THEN WithMember(k, "normal") ELSE role
                            /\ harmed' = IF o.done THEN harmed ELSE harmed \cup {k}
  BY DEF Admit
<1>4. /\ role' \in [GroupKeys -> {"none", "creator", "normal"}]
      /\ \A j \in GroupKeys : j # k => role'[j] = role[j]
      /\ role[k] # "none" => role'[k] = role[k]
      /\ role[k] = "none" => role'[k] # "creator"
      /\ role'[k] # "none" \/ k \in harmed'
      /\ harmed \subseteq harmed' /\ harmed' \subseteq harmed \cup {k}
  <2>1. CASE o.done
    BY <1>1, <1>2, <1>3, <2>1, RoleFacts
  <2>2. CASE ~o.done
    BY <1>1, <1>3, <2>2 DEF TypeOK
  <2> QED BY <2>1, <2>2
<1>5. Moves(t) /\ pc'[t] = "idle"
  BY <1>1, <1>2, <1>4, GotoFacts DEF Moves, PCs
<1>6. k[2] \in groups
  BY <1>2 DEF IInv, Informed, InformedOf
<1>7. TypeOK'
  <2>1. harmed' \subseteq Keys \cup Groups
    BY <1>1, <1>4 DEF TypeOK
  <2>2. \A j \in GroupKeys : role'[j] # "none" => j[2] \in groups'
    BY <1>1, <1>2, <1>4, <1>6 DEF TypeOK
  <2> QED BY <1>1, <1>2, <1>4, <1>5, <2>1, <2>2, TypeKept DEF TypeOK
<1>8. InformedOf(t)' /\ CurrentOf(t)'
  BY <1>5 DEF InformedOf, CurrentOf
<1>9. Informed' /\ GroupsExist'
  BY <1>2, <1>5, <1>8, InformedKept DEF IInv, GroupsExist
<1>10. \A j \in GroupKeys : role'[j] = "creator" <=> role[j] = "creator"
  BY <1>4
<1>11. Creating'
  BY <1>5, <1>10, CreatingKept DEF IInv
<1>12. Returning'
  BY <1>5, ReturningKept DEF IInv
<1>13. Current'
  BY <1>2, <1>5, <1>8, CurrentKept DEF IInv
<1>14. AcceptedMeansRelated'
  <2>1. \A j \in Keys : job[t].key = j => Related(j)'
    BY <1>2, <1>4 DEF Related, InGroup
  <2> QED BY <1>2, <1>5, <2>1, AcceptedKept DEF IInv, Safe
<1>15. FriendshipMutual'
  BY <1>2, <1>5, MutualKept DEF IInv, Safe
<1>16. PendingIsKnown'
  BY <1>2, <1>5, PendingKept DEF IInv, Safe
<1>17. OwnedOnce'
  BY <1>2, <1>5, <1>10, OwnedKept DEF IInv, Safe
<1> QED BY <1>7, <1>9, <1>11, <1>12, <1>13, <1>14, <1>15, <1>16, <1>17 DEF IInv, Safe

\* Only one handler creates a group that does not exist, and makes its creator
\* next.
LEMMA InsertGroupKeeps ==
    ASSUME IInv, NEW t \in Threads, InsertGroup(t)
    PROVE  IInv'
<1> DEFINE k == job[t].key
<1>1. TypeOK /\ k \in Keys
  BY JobFacts DEF IInv
<1>2. /\ pc[t] = "group" /\ status' = status /\ friends' = friends /\ role' = role
      /\ told' = told /\ fresh' = fresh
  BY DEF InsertGroup
<1>3. k \in GroupKeys /\ k[2] \in Groups /\ k = <<k[1], k[2]>> /\ k[1] \in Users
  BY <1>2, KeyFacts DEF IInv, Informed, InformedOf
<1>4. CASE groups' = groups /\ harmed' = harmed /\ Goto(t, "idle")
  <2>1. UNCHANGED <<tables, told>>
    BY <1>2, <1>4 DEF tables
  <2>2. Moves(t) /\ pc'[t] = "idle"
    BY <1>1, <1>2, <1>4, GotoFacts DEF Moves, PCs
  <2>3. InformedOf(t)' /\ CurrentOf(t)'
    BY <2>2 DEF InformedOf, CurrentOf
  <2>4. /\ harmed' \subseteq Keys \cup Groups /\ fresh' \in [Threads -> BOOLEAN]
        /\ \A s \in Threads : s # t => fresh'[s] = fresh[s]
    BY <1>1, <1>2, <1>4 DEF TypeOK
  <2> QED BY <1>2, <2>1, <2>2, <2>3, <2>4, Quiet
<1>5. ASSUME k[2] \notin groups, groups' = groups \cup {k[2]},
             NEW l \in {"creator", "idle"}, Goto(t, l),
             harmed' = IF l = "creator" THEN harmed ELSE harmed \cup {k[2]}
      PROVE  IInv'
  <2>1. Moves(t) /\ pc'[t] = l /\ (l # "idle" => job'[t] = job[t])
    BY <1>1, <1>2, <1>5, GotoFacts DEF Moves, PCs
  <2>2. TypeOK'
    <3>1. groups' \subseteq Groups /\ harmed' \subseteq Keys \cup Groups
      BY <1>1, <1>3, <1>5 DEF TypeOK
    <3> QED BY <1>1, <1>2, <1>5, <2>1, <3>1, TypeKept DEF TypeOK
  <2>3. InformedOf(t)' /\ CurrentOf(t)'
    BY <1>3, <1>5, <2>1, KeyFacts DEF InformedOf, CurrentOf
  <2>4. Informed'
    BY <2>1, <2>3, InformedKept DEF IInv
  <2>5. GroupsExist'
    BY <1>2, <1>5 DEF IInv, GroupsExist
  <2>6. \A u \in Users : role[<<u, k[2]>>] # "creator"
    <3>1. \A j \in GroupKeys : role[j] # "none" => j[2] \in groups
      BY <1>1 DEF TypeOK
    <3> QED BY <1>3, <1>5, <3>1, KeyFacts
  <2>7. \A s \in Threads : pc[s] = "creator" => job[s].key[2] \in groups
    BY DEF IInv, Informed, InformedOf
  <2>8. Creating'
    <3>1. \A s \in Threads : pc'[s] = "creator" =>
              \/ s = t /\ job'[s] = job[t]
              \/ s # t /\ pc[s] = "creator" /\ job'[s] = job[s]
      BY <2>1 DEF Moves
    <3>2. \A s \in Threads : pc'[s] = "creator" =>
              \A u \in Users : role'[<<u, job'[s].key[2]>>] # "creator"
      BY <1>2, <2>6, <3>1 DEF IInv, Creating
    <3>3. ASSUME NEW s \in Threads, NEW r \in Threads, pc'[s] = "creator",
                 pc'[r] = "creator", job'[r].key[2] = job'[s].key[2]
          PROVE  r = s
      <4>1. CASE s = t \/ r = t
        BY <1>5, <2>7, <3>1, <3>3, <4>1
      <4>2. CASE s # t /\ r # t
        BY <3>1, <3>3, <4>2 DEF IInv, Creating
      <4> QED BY <4>1, <4>2
    <3> QED BY <3>2, <3>3 DEF Creating
  <2>9. Returning'
    BY <2>1, ReturningKept DEF IInv
  <2>10. Current'
    BY <1>2, <2>1, <2>3, CurrentKept DEF IInv
  <2>11. AcceptedMeansRelated' /\ FriendshipMutual'
    BY <1>2, <2>1, AcceptedKept, MutualKept DEF IInv, Safe
  <2>12. PendingIsKnown'
    BY <1>2, <2>1, PendingKept DEF IInv, Safe
  <2>13. OwnedOnce'
    <3>1. \A g \in Groups : Owners(g)' = Owners(g)
      BY <1>2 DEF Owners
    <3>2. ASSUME NEW g \in Groups, g \in groups
          PROVE  Owners(g) # {} \/ g \in harmed' \/ \E u \in Users : Someone(<<u, g>>, {"creator"})'
      <4>1. ASSUME NEW j PROVE Someone(j, {"creator"}) => Someone(j, {"creator"})'
        BY <1>2, <2>1, SomeoneKept
      <4> QED BY <2>1, <3>2, <4>1 DEF IInv, Safe, OwnedOnce, GroupExists, Moves
    <3>3. ASSUME NEW g \in Groups, g = k[2]
          PROVE  g \in harmed' \/ \E u \in Users : Someone(<<u, g>>, {"creator"})'
      <4>1. CASE l = "creator"
        <5>1. ASSUME NEW u \in Users, <<u, g>> = job[t].key
              PROVE  Someone(<<u, g>>, {"creator"})'
          BY <2>1, <4>1, <5>1 DEF Someone
        <5> QED BY <1>3, <3>3, <5>1
      <4> QED BY <1>5, <3>3, <4>1
    <3>4. \A g \in Groups : g \in groups' => g \in groups \/ g = k[2]
      BY <1>5
    <3> QED BY <3>1, <3>2, <3>3, <3>4 DEF IInv, Safe, OwnedOnce, GroupExists
  <2> QED BY <2>2, <2>4, <2>5, <2>8, <2>9, <2>10, <2>11, <2>12, <2>13 DEF IInv, Safe
<1>6. CASE ~CanAddGroup(k[2])
  BY <1>4, <1>6 DEF InsertGroup
<1>7. CASE CanAddGroup(k[2])
  <2>1. PICK o \in Outcomes :
          /\ groups' = IF o.done THEN groups \cup {k[2]} ELSE groups
          /\ harmed' = IF o.done /\ ~o.ok THEN harmed \cup {k[2]} ELSE harmed
          /\ Goto(t, IF o.ok THEN "creator" ELSE "idle")
    BY <1>7 DEF InsertGroup
  <2>2. k[2] \notin groups /\ (o.ok => o.done)
    BY <1>7, OutcomeFacts DEF CanAddGroup
  <2>3. CASE ~o.done
    BY <1>4, <2>1, <2>2, <2>3
  <2>4. CASE o.done /\ o.ok
    BY <1>5, <2>1, <2>2, <2>4
  <2>5. CASE o.done /\ ~o.ok
    BY <1>5, <2>1, <2>2, <2>5
  <2> QED BY <2>3, <2>4, <2>5
<1> QED BY <1>6, <1>7

\* The group has no creator yet: it gets one, or the failure is remembered.
LEMMA InsertCreatorKeeps ==
    ASSUME IInv, NEW t \in Threads, InsertCreator(t)
    PROVE  IInv'
<1> DEFINE k == job[t].key
<1>1. TypeOK /\ k \in Keys
  BY JobFacts DEF IInv
<1>2. /\ pc[t] = "creator" /\ Goto(t, "idle")
      /\ status' = status /\ friends' = friends /\ groups' = groups
      /\ told' = told /\ fresh' = fresh
      /\ harmed' = IF role'[k] = "creator" THEN harmed ELSE harmed \cup {k[2]}
  BY DEF InsertCreator
<1>3. PICK o \in Outcomes : role' = IF o.done THEN WithMember(k, "creator") ELSE role
  BY DEF InsertCreator
<1>4. /\ k \in GroupKeys /\ k[2] \in Groups /\ k = <<k[1], k[2]>> /\ k[1] \in Users
      /\ k[2] \in groups
  BY <1>2, KeyFacts DEF IInv, Informed, InformedOf
<1>5. /\ role' \in [GroupKeys -> {"none", "creator", "normal"}]
      /\ \A j \in GroupKeys : j # k => role'[j] = role[j]
      /\ role[k] # "none" => role'[k] = role[k]
  <2>1. CASE o.done
    BY <1>1, <1>3, <1>4, <2>1, RoleFacts
  <2>2. CASE ~o.done
    BY <1>1, <1>3, <2>2 DEF TypeOK
  <2> QED BY <2>1, <2>2
<1>6. Moves(t) /\ pc'[t] = "idle"
  BY <1>1, <1>2, <1>5, GotoFacts DEF Moves, PCs
<1>7. TypeOK'
  <2>1. harmed' \subseteq Keys \cup Groups
    BY <1>1, <1>2, <1>4 DEF TypeOK
  <2>2. \A j \in GroupKeys : role'[j] # "none" => j[2] \in groups'
    BY <1>1, <1>2, <1>4, <1>5 DEF TypeOK
  <2> QED BY <1>1, <1>2, <1>5, <1>6, <2>1, <2>2, TypeKept DEF TypeOK
<1>8. InformedOf(t)' /\ CurrentOf(t)'
  BY <1>6 DEF InformedOf, CurrentOf
<1>9. Informed' /\ GroupsExist'
  BY <1>2, <1>6, <1>8, InformedKept DEF IInv, GroupsExist
<1>10. \A u \in Users : role[<<u, k[2]>>] # "creator"
  BY <1>2 DEF IInv, Creating
<1>11. \A s \in Threads : pc[s] = "creator" /\ s # t => job[s].key[2] # k[2]
  BY <1>2 DEF IInv, Creating
<1>12. \A s \in Threads : pc[s] = "creator" => job[s].key[2] \in Groups
  BY KeyFacts DEF IInv, Informed, InformedOf
<1>13. \A g \in Groups, u \in Users : g # k[2] => role'[<<u, g>>] = role[<<u, g>>]
  BY <1>5, KeyFacts
<1>14. Creating'
  <2>1. \A s \in Threads : pc'[s] = "creator" =>
            s # t /\ pc[s] = "creator" /\ job'[s] = job[s]
    BY <1>6 DEF Moves
  <2>2. \A s \in Threads : pc'[s] = "creator" =>
            \A u \in Users : role'[<<u, job'[s].key[2]>>] # "creator"
    BY <1>11, <1>12, <1>13, <2>1 DEF IInv, Creating
  <2> QED BY <2>1, <2>2 DEF IInv, Creating
<1>15. Returning'
  BY <1>6, ReturningKept DEF IInv
<1>16. Current'
  BY <1>2, <1>6, <1>8, CurrentKept DEF IInv
<1>17. AcceptedMeansRelated' /\ FriendshipMutual'
  BY <1>2, <1>6, AcceptedKept, MutualKept DEF IInv, Safe
<1>18. PendingIsKnown'
  BY <1>2, <1>6, PendingKept DEF IInv, Safe
<1>19. OwnedOnce'
  <2>1. ASSUME NEW g \in Groups, g # k[2]
        PROVE  /\ \A u, v \in Owners(g)' : u = v
               /\ g \in groups' => \/ Owners(g)' # {} \/ g \in harmed'
                                   \/ \E u \in Users : Someone(<<u, g>>, {"creator"})'
    <3>1. Owners(g)' = Owners(g)
      BY <1>13, <2>1 DEF Owners
    <3>2. ASSUME NEW u \in Users, Someone(<<u, g>>, {"creator"})
          PROVE  Someone(<<u, g>>, {"creator"})'
      <4>1. job[t].key # <<u, g>>
        BY <2>1
      <4> QED BY <1>6, <3>2, <4>1, SomeoneKept
    <3> QED BY <1>2, <1>6, <3>1, <3>2 DEF IInv, Safe, OwnedOnce, GroupExists, Moves
  <2>2. ASSUME NEW g \in Groups, g = k[2]
        PROVE  /\ \A u, v \in Owners(g)' : u = v
               /\ Owners(g)' # {} \/ g \in harmed'
    <3>1. \A u \in Users : role'[<<u, g>>] = "creator" => u = k[1]
      BY <1>5, <1>10, <2>2, KeyFacts
    <3>2. role'[<<k[1], g>>] = "creator" \/ g \in harmed'
      BY <1>2, <1>4, <2>2
    <3> QED BY <1>4, <3>1, <3>2 DEF Owners
  <2> QED BY <2>1, <2>2 DEF OwnedOnce, GroupExists
<1> QED BY <1>7, <1>9, <1>14, <1>15, <1>16, <1>17, <1>18, <1>19 DEF IInv, Safe

\* A node that dies takes handlers with it; what they had still to do is
\* remembered as a failure.
LEMMA CrashKeeps ==
    ASSUME IInv, NEW S \in SUBSET Threads, Crash(S)
    PROVE  IInv'
<1>1. TypeOK
  BY DEF IInv
<1>2. /\ status' = status /\ friends' = friends /\ groups' = groups /\ role' = role
      /\ told' = told /\ fresh' = fresh
  BY DEF Crash, tables
<1>3. /\ pc' \in [Threads -> PCs] /\ job' \in [Threads -> Jobs]
      /\ \A s \in Threads : s \in S => pc'[s] = "idle"
      /\ \A s \in Threads : s \notin S => pc'[s] = pc[s] /\ job'[s] = job[s]
  <2>1. pc \in [Threads -> PCs] /\ job \in [Threads -> Jobs] /\ NoJob \in Jobs
    BY <1>1, KeyFacts DEF TypeOK, PCs, Jobs, NoJob
  <2>2. /\ pc' = [t \in Threads |-> IF t \in S THEN "idle" ELSE pc[t]]
        /\ job' = [t \in Threads |-> IF t \in S THEN NoJob ELSE job[t]]
    BY DEF Crash
  <2> QED BY <2>1, <2>2 DEF PCs
<1>4. /\ harmed \subseteq harmed' /\ harmed' \subseteq Keys \cup Groups
      /\ \A s \in S : pc[s] \in {"owner", "forward", "row", "row back"} => job[s].key \in harmed'
      /\ \A s \in S : pc[s] = "creator" => job[s].key[2] \in harmed'
  <2>1. harmed' = harmed
          \cup {job[t].key : t \in {s \in S : pc[s] \in {"owner", "forward", "row", "row back"}}}
          \cup {job[t].key[2] : t \in {s \in S : pc[s] = "creator"}}
    BY DEF Crash
  <2>2. \A s \in S : job[s].key \in Keys
    BY <1>1, JobFacts
  <2>3. \A s \in S : pc[s] = "creator" => job[s].key[2] \in Groups
    BY KeyFacts DEF IInv, Informed, InformedOf
  <2>4. harmed \subseteq Keys \cup Groups
    BY <1>1 DEF TypeOK
  <2> QED BY <2>1, <2>2, <2>3, <2>4
<1>5. TypeOK'
  BY <1>1, <1>2, <1>3, <1>4 DEF TypeOK, PCs, Jobs
<1>6. Informed'
  <2>1. ASSUME NEW s \in Threads PROVE InformedOf(s)'
    <3>1. InformedOf(s)
      BY DEF IInv, Informed
    <3> QED BY <1>2, <1>3, <3>1 DEF InformedOf
  <2> QED BY <2>1 DEF Informed
<1>7. GroupsExist'
  BY <1>2 DEF IInv, GroupsExist
<1>8. Creating'
  BY <1>2, <1>3 DEF IInv, Creating
<1>9. Returning'
  BY <1>2, <1>3, <1>4 DEF IInv, Returning
<1>10. Current'
  <2>1. ASSUME NEW s \in Threads PROVE CurrentOf(s)'
    <3>1. CurrentOf(s)
      BY DEF IInv, Current
    <3> QED BY <1>2, <1>3, <3>1 DEF CurrentOf
  <2> QED BY <2>1 DEF Current
<1>11. ASSUME NEW j, NEW ls, ls \subseteq {"owner", "forward", "row", "row back"}, Someone(j, ls)
       PROVE  Someone(j, ls)' \/ j \in harmed'
  BY <1>3, <1>4, <1>11 DEF Someone
<1>12. ASSUME NEW j, Someone(j, {"creator"})
       PROVE  Someone(j, {"creator"})' \/ j[2] \in harmed'
  BY <1>3, <1>4, <1>12 DEF Someone
<1>13. AcceptedMeansRelated'
  <2>1. \A j \in Keys : Someone(j, {"row", "row back"}) =>
            Someone(j, {"row", "row back"})' \/ j \in harmed'
    BY <1>11
  <2> QED BY <1>2, <1>4, <2>1 DEF IInv, Safe, AcceptedMeansRelated, InGroup
<1>14. FriendshipMutual'
  <2>1. \A j \in FriendKeys : Someone(j, {"row back"}) =>
            Someone(j, {"row back"})' \/ j \in harmed'
    BY <1>11
  <2>2. \A j \in FriendKeys : Reverse(j) \in FriendKeys
    BY KeyFacts
  <2> QED BY <1>2, <1>4, <2>1, <2>2 DEF IInv, Safe, FriendshipMutual
<1>15. PendingIsKnown'
  <2>1. \A j \in Keys : Someone(j, {"owner", "forward"}) =>
            Someone(j, {"owner", "forward"})' \/ j \in harmed'
    BY <1>11
  <2> QED BY <1>2, <1>4, <2>1 DEF IInv, Safe, PendingIsKnown, IsPending
<1>16. OwnedOnce'
  <2>1. \A g \in Groups, u \in Users : Someone(<<u, g>>, {"creator"}) =>
            Someone(<<u, g>>, {"creator"})' \/ g \in harmed'
    BY <1>12, KeyFacts
  <2>2. \A g \in Groups : Owners(g)' = Owners(g)
    BY <1>2 DEF Owners
  <2> QED BY <1>2, <1>4, <2>1, <2>2 DEF IInv, Safe, OwnedOnce, GroupExists
<1> QED BY <1>5, <1>6, <1>7, <1>8, <1>9, <1>10, <1>13, <1>14, <1>15, <1>16 DEF IInv, Safe

-----------------------------------------------------------------------------
(* The theorems.                                                             *)

\* At first there is no request, group or friendship, and no handler runs.
LEMMA InitKeeps == Init => IInv
<1> SUFFICES ASSUME Init PROVE IInv
  OBVIOUS
<1>1. TypeOK
  <2>1. NoJob \in [key : Keys, answer : {"accepted", "rejected"}]
    BY KeyFacts DEF NoJob
  <2> QED BY <2>1 DEF Init, TypeOK
<1>2. /\ \A t \in Threads : pc[t] = "idle"
      /\ \A k \in Keys : status[k] = "none"
      /\ friends = {} /\ groups = {}
  BY DEF Init
<1>3. Informed /\ Creating /\ Returning /\ Current
  BY <1>2 DEF Informed, InformedOf, Creating, Returning, Current, CurrentOf
<1>4. GroupsExist
  BY <1>2, KeyFacts DEF GroupsExist
<1>5. AcceptedMeansRelated /\ FriendshipMutual /\ PendingIsKnown
  BY <1>2 DEF AcceptedMeansRelated, FriendshipMutual, PendingIsKnown, IsPending
<1>6. OwnedOnce
  <2>1. \A g \in Groups : Owners(g) = {}
    BY KeyFacts DEF Init, Owners
  <2> QED BY <1>2, <2>1 DEF OwnedOnce, GroupExists
<1> QED BY <1>1, <1>3, <1>4, <1>5, <1>6 DEF IInv, Safe

\* Every step of a handler, and every death of a node, keeps the invariant.
LEMMA NextKeeps == IInv /\ [Next]_vars => IInv'
<1> SUFFICES ASSUME IInv, [Next]_vars PROVE IInv'
  OBVIOUS
<1>1. CASE UNCHANGED vars
  <2>1. /\ status' = status /\ friends' = friends /\ groups' = groups /\ role' = role
        /\ pc' = pc /\ job' = job /\ told' = told /\ harmed' = harmed /\ fresh' = fresh
    BY <1>1 DEF vars, tables
  <2>2. TypeOK' /\ Informed' /\ GroupsExist' /\ Creating' /\ Returning' /\ Current'
    BY <2>1 DEF IInv, TypeOK, Informed, InformedOf, GroupsExist, Creating, Returning,
       Current, CurrentOf
  <2>3. AcceptedMeansRelated' /\ FriendshipMutual'
    BY <2>1 DEF IInv, Safe, AcceptedMeansRelated, FriendshipMutual, Someone, InGroup
  <2>4. PendingIsKnown' /\ OwnedOnce'
    <3>1. PendingIsKnown'
      BY <2>1 DEF IInv, Safe, PendingIsKnown, Someone, IsPending
    <3>2. \A g : Owners(g)' = Owners(g)
      BY <2>1 DEF Owners
    <3>3. OwnedOnce'
      BY <2>1, <3>2 DEF IInv, Safe, OwnedOnce, Someone, GroupExists
    <3> QED BY <3>1, <3>3
  <2> QED BY <2>2, <2>3, <2>4 DEF IInv, Safe
<1>2. ASSUME NEW t \in Threads, Handler(t) PROVE IInv'
  BY <1>2, CheckFriendKeeps, CheckMemberKeeps, CheckStatusKeeps, InsertRequestKeeps,
     ReopenRequestKeeps, FindOwnerKeeps, ForwardKeeps, CheckPendingKeeps, AcceptFriendKeeps,
     AcceptMemberKeeps, RejectKeeps, BefriendKeeps, AdmitKeeps, CheckNameKeeps,
     InsertGroupKeeps, InsertCreatorKeeps DEF Handler
<1>3. ASSUME NEW t \in Threads, NEW k \in Keys, Begin(t, k) PROVE IInv'
  <2>1. CASE AddFriend(t, k) \/ AddGroup(t, k)
    BY <2>1, StartKeeps DEF AddFriend, AddGroup
  <2>2. CASE CreateGroup(t, k)
    BY <2>2, StartKeeps DEF CreateGroup
  <2>3. ASSUME NEW a \in {"accepted", "rejected"}, AnswerFriend(t, k, a) \/ AnswerGroup(t, k, a)
        PROVE  IInv'
    BY <2>3, StartKeeps DEF AnswerFriend, AnswerGroup
  <2> QED BY <1>3, <2>1, <2>2, <2>3 DEF Begin
<1>4. ASSUME NEW S \in SUBSET Threads, Crash(S) PROVE IInv'
  BY <1>4, CrashKeeps
<1> QED BY <1>1, <1>2, <1>3, <1>4 DEF Next

\* The invariant holds of every behaviour of the handlers.
THEOREM Invariant == Spec => []IInv
<1> QED BY InitKeeps, NextKeeps, PTL DEF Spec

\* Type correctness of the tables, of the handlers' places and of the history;
\* a member is a member of a group that exists.
THEOREM TypeCorrect == Spec => []TypeOK
<1>1. IInv => TypeOK
  BY DEF IInv
<1> QED BY <1>1, Invariant, PTL

\* Whatever handlers, failures and deaths interleave, an accepted request makes
\* friends or a member unless a call on the way failed.
THEOREM AcceptanceCorrect == Spec => []AcceptedMeansRelated
<1>1. IInv => AcceptedMeansRelated
  BY DEF IInv, Safe
<1> QED BY <1>1, Invariant, PTL

\* No friendship stays one-sided unless a call failed.
THEOREM FriendshipCorrect == Spec => []FriendshipMutual
<1>1. IInv => FriendshipMutual
  BY DEF IInv, Safe
<1> QED BY <1>1, Invariant, PTL

\* Whoever is to answer a pending request gets to know of it unless a call
\* failed.
THEOREM PendingCorrect == Spec => []PendingIsKnown
<1>1. IInv => PendingIsKnown
  BY DEF IInv, Safe
<1> QED BY <1>1, Invariant, PTL

\* However many create a group at once, it has one creator.
THEOREM OwnershipCorrect == Spec => []OwnedOnce
<1>1. IInv => OwnedOnce
  BY DEF IInv, Safe
<1> QED BY <1>1, Invariant, PTL

\* A write that is made takes the status along its course, or is made on the
\* strength of a status that was overwritten since.
LEMMA CourseStep ==
    ASSUME IInv, [Next]_vars, NEW k \in Keys, status'[k] # status[k]
    PROVE  \/ <<status[k], status'[k]>> \in Course
           \/ \E t \in Threads : /\ pc[t] \in {"reopen", "answer"} /\ pc'[t] # pc[t]
                                 /\ job[t].key = k /\ ~fresh[t]
<1>1. TypeOK /\ \A t \in Threads : CurrentOf(t)
  BY DEF IInv, Current
<1>2. ASSUME NEW t \in Threads, InsertRequest(t)
      PROVE  <<status[k], status'[k]>> \in Course
  <2>1. PICK o \in Outcomes \cup {[done |-> FALSE, ok |-> FALSE]} :
          Open(t, o) /\ (o.done => CanAddRequest(job[t].key))
    BY <1>2 DEF InsertRequest
  <2>2. o.done /\ status' = WithStatus(job[t].key, "pending")
    BY <2>1 DEF Open
  <2>3. job[t].key = k /\ status'[k] = "pending"
    BY <1>1, <2>2, StatusFacts, JobFacts
  <2> QED BY <2>1, <2>2, <2>3 DEF CanAddRequest, Course
<1>3. ASSUME NEW t \in Threads, ReopenRequest(t)
      PROVE  \/ <<status[k], status'[k]>> \in Course
             \/ pc[t] \in {"reopen", "answer"} /\ pc'[t] # pc[t] /\ job[t].key = k /\ ~fresh[t]
  <2>1. PICK o \in Outcomes : Open(t, o)
    BY <1>3 DEF ReopenRequest
  <2>2. status' = WithStatus(job[t].key, "pending") /\ pc[t] = "reopen"
    BY <1>3, <2>1 DEF Open, ReopenRequest
  <2>3. job[t].key = k /\ status'[k] = "pending"
    BY <1>1, <2>2, StatusFacts, JobFacts
  <2>4. PICK l \in {"idle", "owner", "forward"} : Goto(t, l)
    BY <2>1 DEF Open
  <2>5. pc'[t] # pc[t]
    BY <1>1, <2>2, <2>4, GotoFacts DEF PCs
  <2>6. fresh[t] => status[k] = "rejected"
    BY <1>1, <2>2, <2>3 DEF CurrentOf
  <2> QED BY <2>2, <2>3, <2>5, <2>6 DEF Course
<1>4. ASSUME NEW t \in Threads, pc[t] = "answer", NEW o, NEW l \in {"idle", "row"},
             Answer(t, o, l)
      PROVE  \/ <<status[k], status'[k]>> \in Course
             \/ pc[t] \in {"reopen", "answer"} /\ pc'[t] # pc[t] /\ job[t].key = k /\ ~fresh[t]
  <2>1. status' = WithStatus(job[t].key, job[t].answer) /\ Goto(t, l)
    BY <1>4 DEF Answer
  <2>2. job[t].key = k /\ status'[k] \in {"accepted", "rejected"}
    BY <1>1, <2>1, StatusFacts, JobFacts
  <2>3. pc'[t] # pc[t]
    BY <1>1, <1>4, <2>1, GotoFacts DEF PCs
  <2>4. fresh[t] => status[k] = "pending"
    BY <1>1, <1>4, <2>2 DEF CurrentOf
  <2> QED BY <1>4, <2>2, <2>3, <2>4 DEF Course
<1>5. PICK t \in Threads : \/ InsertRequest(t) \/ ReopenRequest(t)
                           \/ AcceptFriend(t) \/ AcceptMember(t) \/ Reject(t)
  BY DEF vars, tables, Next, Handler, Begin, AddFriend, AddGroup, CreateGroup, AnswerFriend,
     AnswerGroup, Start, CheckFriend, CheckMember, CheckStatus, FindOwner, Forward,
     CheckPending, Befriend, Admit, CheckName, InsertGroup, InsertCreator, Crash
<1>6. CASE AcceptFriend(t) \/ AcceptMember(t) \/ Reject(t)
  <2>1. PICK o \in Outcomes, l \in {"idle", "row"} : Answer(t, o, l)
    BY <1>6 DEF AcceptFriend, AcceptMember, Reject
  <2> QED BY <1>4, <1>6, <2>1 DEF AcceptFriend, AcceptMember, Reject
<1> QED BY <1>2, <1>3, <1>5, <1>6

\* A request's status leaves its course only when a handler writes what it read
\* before another one wrote.
THEOREM CourseCorrect == Spec => StatusKeepsCourse
<1>1. IInv /\ [Next]_vars =>
        [\A k \in Keys : status'[k] # status[k] =>
            \/ <<status[k], status'[k]>> \in Course
            \/ \E t \in Threads : /\ pc[t] \in {"reopen", "answer"} /\ pc'[t] # pc[t]
                                  /\ job[t].key = k /\ ~fresh[t]]_vars
  BY CourseStep
<1> QED BY <1>1, Invariant, PTL DEF Spec, StatusKeepsCourse
=============================================================================
