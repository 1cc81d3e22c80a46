-------------------------- MODULE MCPresenceModes --------------------------
(* Orderly behaviours and all others, side by side: in an orderly one u1     *)
(* logs in over c1 and u2 over c2, in the others there is only u1, whom both *)
(* clients want.                                                             *)
EXTENDS MCPresence, OrderlySessions

MCInit == OrderlyInit /\ own \in {(u1 :> c1) @@ (u2 :> c2), NoWay}

MCNext == OrderlyNext /\ (own = NoWay => who'[c2] # u2)

MCSpec == MCInit /\ [][MCNext]_<<vars, own>>
=============================================================================
