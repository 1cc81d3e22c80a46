------------------------------ MODULE Executor ------------------------------
(***************************************************************************)
(* What a thread pool promises its users, with no locks and no threads:    *)
(* accepted tasks are started once each, in the order of acceptance, and   *)
(* the pool reports itself closed only when every one of them has run.     *)
(***************************************************************************)
EXTENDS Naturals

VARIABLES accepted, \* tasks 1..accepted were accepted
          started,  \* of those, 1..started were started
          done,     \* and these have finished
          phase     \* "open", "closing": no more tasks, "closed"

vars == <<accepted, started, done, phase>>

Init == /\ accepted = 0
        /\ started = 0
        /\ done = {}
        /\ phase = "open"

Running == {k \in 1..started : k \notin done}

Accept == /\ phase = "open"
          /\ accepted' = accepted + 1
          /\ UNCHANGED <<started, done, phase>>

Start == /\ started < accepted
         /\ started' = started + 1
         /\ UNCHANGED <<accepted, done, phase>>

End == /\ \E k \in Running : done' = done \cup {k}
       /\ UNCHANGED <<accepted, started, phase>>

Close == /\ phase = "open"
         /\ phase' = "closing"
         /\ UNCHANGED <<accepted, started, done>>

Closed == /\ phase = "closing"
          /\ done = 1..accepted
          /\ phase' = "closed"
          /\ UNCHANGED <<accepted, started, done>>

Next == Accept \/ Start \/ End \/ Close \/ Closed

SafeSpec == Init /\ [][Next]_vars

Spec == /\ SafeSpec
        /\ WF_vars(Start) /\ WF_vars(End) /\ WF_vars(Closed)
=============================================================================
