----------------------------- MODULE MCDelivery -----------------------------
(* A receiver who comes and goes over one connection of n1, and n2, which    *)
(* only sends: a message starts on the receiver's node or on the other one.  *)
EXTENDS Delivery, TLC

CONSTANTS n1, n2, u1, c1, w1, m1, m2

OneConnNode == (c1 :> n1)
OneThreadNode == (w1 :> n1)
OneAccount == (c1 :> {u1})
ToOne == [m \in Msgs |-> u1]
=============================================================================
