------------------------------ MODULE Requests ------------------------------
(***************************************************************************)
(* Friend requests, groups and group requests: the handlers addFriend,     *)
(* addFriendHandle, createGroup, addGroup and addGroupHandle of            *)
(* chatservice.cpp over their five tables.                                 *)
(*                                                                         *)
(* The handlers run on the worker threads of all nodes.  Each statement on *)
(* a table is a call of its own, through the friend service or not, and    *)
(* commits by itself: between two calls of one handler any other handler   *)
(* may write, and a node may die.  A request is named by its key, <<asking *)
(* user, asked user>> or <<asking user, group>>.                           *)
(*                                                                         *)
(* Definitions whose names begin with Mut are faulty variants, against     *)
(* which the properties are tried; no behaviour of the module uses them.   *)
(***************************************************************************)
EXTENDS Naturals

CONSTANTS
    Users,   \* the registered users
    Groups,  \* the names under which groups are created; they stand for the ids
    Threads, \* the workers that run handlers
    Faults   \* "db": a call fails; "lost": it is done and reported failed;
             \* "crash": nodes die

ASSUME NamesAssumption == Users # {} /\ Groups # {}
ASSUME NamesDisjoint == Users \cap Groups = {}
ASSUME FaultsKnown == Faults \subseteq {"db", "lost", "crash"}

FriendKeys == {k \in Users \X Users : k[1] # k[2]} \* addFriend refuses oneself
GroupKeys == Users \X Groups
Keys == FriendKeys \cup GroupKeys
Reverse(k) == <<k[2], k[1]>>

VARIABLES
    status,  \* FriendRequest and GroupRequest: a request's status, "none": no row
    friends, \* Friend: its rows
    groups,  \* AllGroup: its rows
    role,    \* GroupUser: a user's role in a group, "none": no row
    pc,      \* where a thread stands in its handler
    job,     \* the request it handles, and the answer it brings
    told,    \* history: requests passed on, since they were last written pending
    harmed,  \* history: requests and groups left half-done by a failure
    fresh    \* history: nobody wrote the request since the thread read its status

tables == <<status, friends, groups, role>>
vars == <<tables, pc, job, told, harmed, fresh>>

NoJob == [key |-> CHOOSE k \in Keys : TRUE, answer |-> "accepted"]

TypeOK ==
    /\ status \in [Keys -> {"none", "pending", "accepted", "rejected"}]
    /\ friends \subseteq FriendKeys
    /\ groups \subseteq Groups
    /\ role \in [GroupKeys -> {"none", "creator", "normal"}]
    /\ \A k \in GroupKeys : role[k] # "none" => k[2] \in groups
    /\ pc \in [Threads -> {"idle", "related", "status", "insert", "reopen", "owner",
                           "forward", "pending", "answer", "row", "row back",
                           "name", "group", "creator"}]
    /\ job \in [Threads -> [key : Keys, answer : {"accepted", "rejected"}]]
    /\ told \subseteq Keys
    /\ harmed \subseteq Keys \cup Groups
    /\ fresh \in [Threads -> BOOLEAN]

Init ==
    /\ status = [k \in Keys |-> "none"]
    /\ friends = {} /\ groups = {}
    /\ role = [k \in GroupKeys |-> "none"]
    /\ pc = [t \in Threads |-> "idle"]
    /\ job = [t \in Threads |-> NoJob]
    /\ told = {} /\ harmed = {}
    /\ fresh = [t \in Threads |-> TRUE]

-----------------------------------------------------------------------------
(* The calls on the tables: what a query may answer, what an update does.  *)

Found(b) == IF b THEN "Ok" ELSE "NotFound"

\* The answer x instead of the right one, where calls may fail.
OnFailure(x) == {y \in {x} : "db" \in Faults}

IsUserExist(u) == {u \in Users} \cup OnFailure(FALSE)

AreFriends(k) == k \in friends
IsFriend(k) == {AreFriends(k)} \cup OnFailure(FALSE)

InGroup(k) == role[k] # "none"
IsUserInGroup(k) == {Found(InGroup(k))} \cup OnFailure("DbError")

GroupExists(g) == g \in groups
IsGroupExist(g) == {Found(GroupExists(g))} \cup OnFailure("DbError")

Owners(g) == {u \in Users : role[<<u, g>>] = "creator"}
QueryGroupOwnerId(g) == {Found(Owners(g) # {})} \cup OnFailure("DbError")

IsPending(k) == status[k] = "pending"
IsPendingRequest(k) == {Found(IsPending(k))} \cup OnFailure("DbError")

QueryRequestStatus(k) == {status[k]} \cup OnFailure("DbError")

\* INSERT: the primary key admits one row per request, friend and member, and
\* the unique name one group.
CanAddRequest(k) == status[k] = "none"
WithFriend(k) == friends \cup {k}
CanAddGroup(g) == g \notin groups
WithMember(k, r) == [role EXCEPT ![k] = IF @ = "none" THEN r ELSE @]

\* UPDATE ... WHERE requester and target: whatever the status was.
WithStatus(k, s) == [status EXCEPT ![k] = s]

\* What a writing call does, and whether its caller learns that it did.
Outcomes ==
    {[done |-> TRUE, ok |-> TRUE]}
    \cup OnFailure([done |-> FALSE, ok |-> FALSE])
    \cup {o \in {[done |-> TRUE, ok |-> FALSE]} : "lost" \in Faults}

\* Thread t goes on at l; at "idle" it has returned and forgotten its request.
Goto(t, l) ==
    /\ pc' = [pc EXCEPT ![t] = l]
    /\ job' = IF l = "idle" THEN [job EXCEPT ![t] = NoJob] ELSE job

\* What others have read of the request is stale once thread t has written it.
Reads(t) == fresh' = [fresh EXCEPT ![t] = TRUE]
Writes(t) == fresh' = [s \in Threads |-> s = t \/ pc[s] = "idle"
                                         \/ (fresh[s] /\ job[s].key # job[t].key)]

-----------------------------------------------------------------------------
(* What clients send; any of it at any time.                               *)

Start(t, l, k, a) ==
    /\ pc[t] = "idle"
    /\ pc' = [pc EXCEPT ![t] = l]
    /\ job' = [job EXCEPT ![t] = [key |-> k, answer |-> a]]
    /\ Reads(t)
    /\ UNCHANGED <<tables, told, harmed>>

AddFriend(t, k) == k \in FriendKeys /\ Start(t, "related", k, "accepted")
AddGroup(t, k) == k \in GroupKeys /\ Start(t, "related", k, "accepted")

\* The client that answers a friend request names itself as the user asked.
AnswerFriend(t, k, a) == k \in FriendKeys /\ Start(t, "pending", k, a)

\* Who answers a group request is not said, and not checked.
AnswerGroup(t, k, a) == k \in GroupKeys /\ Start(t, "pending", k, a)

CreateGroup(t, k) == k \in GroupKeys /\ Start(t, "name", k, "accepted")

-----------------------------------------------------------------------------
(* addFriend and addGroup.                                                 *)

\* A failed isFriend counts as "no", a failed isUserExist ends the handler.
CheckFriend(t) ==
    LET k == job[t].key
    IN  /\ pc[t] = "related" /\ k \in FriendKeys
        /\ \E exists \in IsUserExist(k[2]), known \in IsFriend(k) :
              Goto(t, IF exists /\ ~known THEN "status" ELSE "idle")
        /\ UNCHANGED <<tables, told, harmed, fresh>>

CheckMember(t) ==
    LET k == job[t].key
    IN  /\ pc[t] = "related" /\ k \in GroupKeys
        /\ \E member \in IsUserInGroup(k), exists \in IsGroupExist(k[2]) :
              Goto(t, IF member = "NotFound" /\ exists = "Ok" THEN "status" ELSE "idle")
        /\ UNCHANGED <<tables, told, harmed, fresh>>

MutResumesAccepted(s) == IF s = "none" THEN "insert"
                         ELSE IF s \in {"rejected", "accepted"} THEN "reopen" ELSE "idle"

\* A pending request is not repeated; an accepted one is taken for an error.
Resumption(s) == IF s = "none" THEN "insert"
                 ELSE IF s = "rejected" THEN "reopen" ELSE "idle"

CheckStatus(t) ==
    /\ pc[t] = "status"
    /\ \E s \in QueryRequestStatus(job[t].key) : Goto(t, Resumption(s))
    /\ Reads(t)
    /\ UNCHANGED <<tables, told, harmed>>

\* The request becomes pending; the handler goes on if it knows.
Open(t, o) ==
    LET k == job[t].key
    IN  /\ IF o.done THEN /\ status' = WithStatus(k, "pending")
                          /\ told' = told \ {k}
                          /\ Writes(t)
                     ELSE UNCHANGED <<status, told, fresh>>
        /\ harmed' = IF o.done /\ ~o.ok THEN harmed \cup {k} ELSE harmed
        /\ Goto(t, IF ~o.ok THEN "idle" ELSE IF k \in GroupKeys THEN "owner" ELSE "forward")
        /\ UNCHANGED <<friends, groups, role>>

InsertRequest(t) ==
    /\ pc[t] = "insert"
    /\ \E o \in IF CanAddRequest(job[t].key) THEN Outcomes
                ELSE {[done |-> FALSE, ok |-> FALSE]} : Open(t, o)

MutReopenOnly(t) ==
    /\ pc[t] = "reopen"
    /\ LET k == job[t].key
       IN  status' = WithStatus(k, "pending") /\ told' = told \ {k} /\ Writes(t)
    /\ Goto(t, "idle")
    /\ UNCHANGED <<friends, groups, role, harmed>>

ReopenRequest(t) ==
    /\ pc[t] = "reopen"
    /\ \E o \in Outcomes : Open(t, o)

\* Without an owner, or without learning of it, nobody is asked.
FindOwner(t) ==
    LET k == job[t].key
    IN  /\ pc[t] = "owner"
        /\ \E owner \in QueryGroupOwnerId(k[2]) :
              /\ Goto(t, IF owner = "Ok" THEN "forward" ELSE "idle")
              /\ harmed' = IF owner = "Ok" THEN harmed ELSE harmed \cup {k}
        /\ UNCHANGED <<tables, told, fresh>>

\* deliverMessage, whose last resort, to store the message, may fail.
Forward(t) ==
    LET k == job[t].key
    IN  /\ pc[t] = "forward"
        /\ \/ told' = told \cup {k} /\ UNCHANGED harmed
           \/ "db" \in Faults /\ harmed' = harmed \cup {k} /\ UNCHANGED told
        /\ Goto(t, "idle")
        /\ UNCHANGED <<tables, fresh>>

-----------------------------------------------------------------------------
(* addFriendHandle and addGroupHandle.                                     *)

MutAnswersAny(t) ==
    /\ pc[t] = "pending"
    /\ Goto(t, "answer")
    /\ Reads(t)
    /\ UNCHANGED <<tables, told, harmed>>

CheckPending(t) ==
    /\ pc[t] = "pending"
    /\ \E pending \in IsPendingRequest(job[t].key) :
          Goto(t, IF pending = "Ok" THEN "answer" ELSE "idle")
    /\ Reads(t)
    /\ UNCHANGED <<tables, told, harmed>>

\* The status takes the answer; the handler goes on at l.
Answer(t, o, l) ==
    LET k == job[t].key
    IN  /\ IF o.done THEN status' = WithStatus(k, job[t].answer) /\ Writes(t)
                     ELSE UNCHANGED <<status, fresh>>
        /\ Goto(t, l)
        /\ UNCHANGED <<friends, groups, role, told>>

\* Only the acceptance of a friend looks whether it was written.
AcceptFriend(t) ==
    /\ pc[t] = "answer" /\ job[t].key \in FriendKeys /\ job[t].answer = "accepted"
    /\ \E o \in Outcomes :
          /\ Answer(t, o, IF o.ok THEN "row" ELSE "idle")
          /\ harmed' = IF o.done /\ ~o.ok THEN harmed \cup {job[t].key} ELSE harmed

MutAcceptGroupOnly(t) ==
    /\ pc[t] = "answer" /\ job[t].key \in GroupKeys /\ job[t].answer = "accepted"
    /\ \E o \in Outcomes : Answer(t, o, "idle")
    /\ UNCHANGED harmed

AcceptMember(t) ==
    /\ pc[t] = "answer" /\ job[t].key \in GroupKeys /\ job[t].answer = "accepted"
    /\ \E o \in Outcomes : Answer(t, o, "row")
    /\ UNCHANGED harmed

Reject(t) ==
    /\ pc[t] = "answer" /\ job[t].answer = "rejected"
    /\ \E o \in Outcomes : Answer(t, o, "idle")
    /\ UNCHANGED harmed

MutBefriendOneWay(t) ==
    LET k == job[t].key
    IN  /\ pc[t] = "row" /\ k \in FriendKeys
        /\ \E o \in Outcomes :
              /\ friends' = IF o.done THEN WithFriend(k) ELSE friends
              /\ harmed' = IF o.done THEN harmed ELSE harmed \cup {k}
        /\ Goto(t, "idle")
        /\ UNCHANGED <<status, groups, role, told, fresh>>

\* insertFriend, once in each direction; neither result is looked at.
Befriend(t) ==
    LET k == job[t].key
    IN  /\ pc[t] \in {"row", "row back"} /\ k \in FriendKeys
        /\ \E o \in Outcomes :
              /\ friends' = IF ~o.done THEN friends
                            ELSE WithFriend(IF pc[t] = "row" THEN k ELSE Reverse(k))
              /\ harmed' = IF o.done THEN harmed ELSE harmed \cup {k}
        /\ Goto(t, IF pc[t] = "row" THEN "row back" ELSE "idle")
        /\ UNCHANGED <<status, groups, role, told, fresh>>

Admit(t) ==
    LET k == job[t].key
    IN  /\ pc[t] = "row" /\ k \in GroupKeys
        /\ \E o \in Outcomes :
              /\ role' = IF o.done THEN WithMember(k, "normal") ELSE role
              /\ harmed' = IF o.done THEN harmed ELSE harmed \cup {k}
        /\ Goto(t, "idle")
        /\ UNCHANGED <<status, friends, groups, told, fresh>>

-----------------------------------------------------------------------------
(* createGroup.                                                            *)

CheckName(t) ==
    /\ pc[t] = "name"
    /\ \E exists \in IsGroupExist(job[t].key[2]) :
          Goto(t, IF exists = "NotFound" THEN "group" ELSE "idle")
    /\ UNCHANGED <<tables, told, harmed, fresh>>

MutInsertGroupTwice(t) ==
    LET g == job[t].key[2]
    IN  /\ pc[t] = "group"
        /\ groups' = groups \cup {g}
        /\ Goto(t, "creator")
        /\ UNCHANGED <<status, friends, role, told, harmed, fresh>>

InsertGroup(t) ==
    LET g == job[t].key[2]
    IN  /\ pc[t] = "group"
        /\ \/ ~CanAddGroup(g) /\ Goto(t, "idle") /\ UNCHANGED <<groups, harmed>>
           \/ /\ CanAddGroup(g)
              /\ \E o \in Outcomes :
                    /\ groups' = IF o.done THEN groups \cup {g} ELSE groups
                    /\ harmed' = IF o.done /\ ~o.ok THEN harmed \cup {g} ELSE harmed
                    /\ Goto(t, IF o.ok THEN "creator" ELSE "idle")
        /\ UNCHANGED <<status, friends, role, told, fresh>>

\* The result is not looked at: the client is told of success.
InsertCreator(t) ==
    LET k == job[t].key
    IN  /\ pc[t] = "creator"
        /\ \E o \in Outcomes : role' = IF o.done THEN WithMember(k, "creator") ELSE role
        /\ harmed' = IF role'[k] = "creator" THEN harmed ELSE harmed \cup {k[2]}
        /\ Goto(t, "idle")
        /\ UNCHANGED <<status, friends, groups, told, fresh>>

-----------------------------------------------------------------------------
\* A node dies and takes the handlers it runs with it, S among all of them.
Crash(S) ==
    /\ "crash" \in Faults
    /\ \A t \in S : pc[t] # "idle"
    /\ harmed' = harmed
          \cup {job[t].key : t \in {s \in S : pc[s] \in {"owner", "forward", "row", "row back"}}}
          \cup {job[t].key[2] : t \in {s \in S : pc[s] = "creator"}}
    /\ pc' = [t \in Threads |-> IF t \in S THEN "idle" ELSE pc[t]]
    /\ job' = [t \in Threads |-> IF t \in S THEN NoJob ELSE job[t]]
    /\ UNCHANGED <<tables, told, fresh>>

Begin(t, k) == \/ AddFriend(t, k) \/ AddGroup(t, k) \/ CreateGroup(t, k)
               \/ \E a \in {"accepted", "rejected"} :
                     AnswerFriend(t, k, a) \/ AnswerGroup(t, k, a)

Handler(t) == \/ CheckFriend(t) \/ CheckMember(t) \/ CheckStatus(t)
              \/ InsertRequest(t) \/ ReopenRequest(t) \/ FindOwner(t) \/ Forward(t)
              \/ CheckPending(t) \/ AcceptFriend(t) \/ AcceptMember(t) \/ Reject(t)
              \/ Befriend(t) \/ Admit(t)
              \/ CheckName(t) \/ InsertGroup(t) \/ InsertCreator(t)

Next == \/ \E t \in Threads : Handler(t) \/ \E k \in Keys : Begin(t, k)
        \/ \E S \in SUBSET Threads \ {{}} : Crash(S)

Spec == Init /\ [][Next]_vars

-----------------------------------------------------------------------------
(* Properties.                                                             *)

\* Some handler of request k stands at one of the places ls.
Someone(k, ls) == \E t \in Threads : pc[t] \in ls /\ job[t].key = k

\* An accepted friend request makes two friends and an accepted group request
\* a member, though status and rows are written by separate calls: unless one
\* of these calls failed or its node died, a handler is still about to write.
AcceptedMeansRelated ==
    \A k \in Keys : status[k] = "accepted" /\ k \notin harmed =>
        \/ Someone(k, {"row", "row back"})
        \/ k \in FriendKeys /\ {k, Reverse(k)} \subseteq friends
        \/ k \in GroupKeys /\ InGroup(k)

\* addFriendHandle inserts a friendship in both directions (oneChat looks at
\* one of them): two crossed requests, both accepted, or two acceptances of one
\* request never leave it one-sided, unless a call failed or its node died.
FriendshipMutual ==
    \A k \in FriendKeys : k \in friends =>
        \/ Reverse(k) \in friends
        \/ Someone(k, {"row back"}) \/ Someone(Reverse(k), {"row back"})
        \/ k \in harmed \/ Reverse(k) \in harmed

\* A pending request cannot be repeated, so whoever is to answer it has to know
\* of it: it was passed on since it became pending, however often it was asked
\* and refused before, or a handler is about to, or that handler failed: by a
\* call, with its node, or for want of the group's creator.
PendingIsKnown ==
    \A k \in Keys : IsPending(k) =>
        k \in told \/ k \in harmed \/ Someone(k, {"owner", "forward"})

\* Two creations of one name leave one group with one creator; no group is
\* without its creator for longer than its creation takes, unless this failed:
\* a call or the node, or the creator was admitted as a member meanwhile.
OwnedOnce ==
    \A g \in Groups :
        /\ \A u, v \in Owners(g) : u = v
        /\ GroupExists(g) => \/ Owners(g) # {} \/ g \in harmed
                             \/ \E u \in Users : Someone(<<u, g>>, {"creator"})

\* "Look at the request's status; if it is not pending, it may be neither
\* accepted nor rejected" (the comment in addGroupHandle), and only a rejected
\* one is reopened: the status leaves this course only when a handler writes on
\* the strength of a status that another has overwritten since.
Course == {<<"none", "pending">>, <<"pending", "accepted">>,
           <<"pending", "rejected">>, <<"rejected", "pending">>}

StatusKeepsCourse ==
    [][\A k \in Keys : status'[k] # status[k] =>
          \/ <<status[k], status'[k]>> \in Course
          \/ \E t \in Threads : /\ pc[t] \in {"reopen", "answer"} /\ pc'[t] # pc[t]
                                /\ job[t].key = k /\ ~fresh[t]]_vars
=============================================================================
