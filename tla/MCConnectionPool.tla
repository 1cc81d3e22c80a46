-------------------------- MODULE MCConnectionPool --------------------------
(* Two threads that may hold two connections each, and a pool that grows     *)
(* from two connections to three.                                            *)
EXTENDS ConnectionPool, TLC

CONSTANTS a1, a2, k1, k2, k3, k4
=============================================================================
