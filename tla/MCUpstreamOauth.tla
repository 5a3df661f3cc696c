--------------------------- MODULE MCUpstreamOauth ---------------------------
(* Small instances of UpstreamOauth for TLC. *)
EXTENDS UpstreamOauth, TLC

CONSTANTS c1, c2, t1, t2, d1, d2, k1, f1, f2, e1

\* Destinations are interchangeable, and so are the requests of a kind.
Swaps == Permutations(Dests) \cup Permutations(Flows)
=============================================================================
