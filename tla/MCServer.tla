------------------------------ MODULE MCServer ------------------------------
(* One connection, two workers, a queue that a request or two and a cleanup  *)
(* fill, and a log of one line, which two threads fill.                      *)
EXTENDS Server, TLC

CONSTANTS c1, w1, w2
=============================================================================
