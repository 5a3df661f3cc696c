----------------------------- MODULE MCApprovals -----------------------------
(* An instance of Approvals: two calls of one token, which may make the same *)
(* call of one MCP or two different ones, and two people that decide.        *)
EXTENDS Approvals, TLC

CONSTANTS t1, m1, c1, c2, k1, k2, p1, p2

MCCalls == {c1, c2}
MCPeople == {p1, p2}
MCAsks == {k1, k2}
MCTokenOf == [c \in Calls |-> t1]
MCMcpOf == [k \in MCAsks |-> m1]

\* All calls are of t1 and both asks of m1, and anybody may decide: they may be
\* swapped.
Swaps == Permutations(Calls) \cup Permutations(MCAsks) \cup Permutations(People)

\* Bound: two decisions are under way only about one request, to approve it and to
\* refuse it, and beside at most one call.
FewAtOnce ==
  \A p, q \in People :
    p # q /\ deciding[p] # NoDecision /\ deciding[q] # NoDecision =>
      /\ deciding[p].id = deciding[q].id /\ deciding[p].verdict # deciding[q].verdict
      /\ \E c \in Calls : \A d \in Calls \ {c} : pc[d] = "idle"
=============================================================================
