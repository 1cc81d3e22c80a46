----------------------------- MODULE MCPresence -----------------------------
(* Small clusters for TLC.  w1 and w2 are pool workers and io1 an I/O thread *)
(* of n1, which has both connections; n2, where it is used, only lives, and  *)
(* so stops, resets and dies at any time n1 may have to live with.           *)
EXTENDS Presence, TLC

CONSTANTS n1, n2, u1, u2, c1, c2, w1, w2, io1

SoloConnNode == (c1 :> n1) @@ (c2 :> n1)
SoloThreadNode == (w1 :> n1) @@ (w2 :> n1) @@ (io1 :> n1)

\* The connections compete for one user, or the second may have one of its own.
OneAccount == (c1 :> {u1}) @@ (c2 :> {u1})
SecondAccount == (c1 :> {u1}) @@ (c2 :> {u1, u2})

Workers == Permutations({w1, w2})
=============================================================================
