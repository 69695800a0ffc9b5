-------------------------- MODULE MCRefreshToken --------------------------
(* Values for the constants of RefreshToken.                               *)
EXTENDS RefreshToken, TLC

CONSTANTS a, b, p1, p2, t1, t2, t3

MCClient == {a, b}
MCReq == {p1, p2}
MCToken == {t1, t2, t3}

\* Clients, requests and tokens are all interchangeable.
Symmetry == Permutations(MCClient) \cup Permutations(MCReq) \cup Permutations(MCToken)
=============================================================================
