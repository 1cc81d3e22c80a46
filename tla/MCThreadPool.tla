---------------------------- MODULE MCThreadPool ----------------------------
EXTENDS ThreadPool, TLC

CONSTANTS p1, p2, w1, w2, w3, k1, k2

Symmetric == Permutations({p1, p2}) \cup Permutations({w1, w2, w3})
                 \cup Permutations({k1, k2})
=============================================================================
