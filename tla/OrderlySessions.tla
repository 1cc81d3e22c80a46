-------------------------- MODULE OrderlySessions --------------------------
(* Presence once more, with clients and nodes that may be orderly for ever.  *)
(*                                                                           *)
(* A behaviour is orderly from beginning to end or it is not.  In an orderly *)
(* one no node stops or dies, no write fails (a row left behind is stale),   *)
(* no client goes while it waits for an answer, and every user has a         *)
(* connection of its own.                                                    *)
EXTENDS Presence

VARIABLE own \* in orderly behaviours: the one connection a user logs in over

Ways == {f \in [Users -> Conns] : \A u, v \in Users : f[u] = f[v] => u = v}
NoWay == <<>>

Orderly ==
    /\ node' = node
    /\ stale' = {}
    /\ \A c \in Conns : at[c] = "waiting" => at'[c] # "closed"
    /\ \A c \in Conns : who'[c] # NoUser => own[who'[c]] = c

OrderlyInit == Init /\ own \in Ways \cup {NoWay}

OrderlyNext == /\ Next
               /\ own \in Ways => Orderly
               /\ UNCHANGED own

OrderlySpec == OrderlyInit /\ [][OrderlyNext]_<<vars, own>>

\* What SessionAgreement says of orderly behaviours: with one user per
\* connection, one connection per user and clients that wait for the answer to
\* a login, row, route, subscription and client agree whenever the nodes are
\* quiet, in whatever order the pools ran login, logout and disconnect.
OrderlyAgreement == own \in Ways => SessionAgreement
=============================================================================
