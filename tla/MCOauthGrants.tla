---------------------------- MODULE MCOauthGrants ----------------------------
(* Small instances of OauthGrants for TLC. *)
EXTENDS OauthGrants, TLC

CONSTANTS k1, c1, c2, p1, p2

\* The consent k1 is by p1 for the client c1; a second one is by p2 for c2.
MCClientOf == [k \in Codes |-> IF k = k1 THEN c1 ELSE c2]
MCPersonOf == [k \in Codes |-> IF k = k1 THEN p1 ELSE p2]

\* Requests are interchangeable.
Swaps == Permutations(Requests)
=============================================================================
