----------------------------- MODULE MCRequests -----------------------------
(* Two users and one group, two handlers at a time.  Friend requests and     *)
(* group requests have no table in common, so a behaviour is about the ones  *)
(* or the others.                                                            *)
EXTENDS Requests, TLC

CONSTANTS u1, u2, g1, w1, w2

VARIABLE subject \* the requests a behaviour is about

MCInit == Init /\ subject \in {FriendKeys, GroupKeys}

MCNext == /\ Next
          /\ \A t \in Threads : pc[t] = "idle" /\ pc'[t] # "idle" => job'[t].key \in subject
          /\ UNCHANGED subject

MCSpec == MCInit /\ [][MCNext]_<<vars, subject>>

Workers == Permutations({w1, w2})
=============================================================================
