------------------------------ MODULE MCParts ------------------------------
(***************************************************************************)
(* Small instances of the parts.                                           *)
(***************************************************************************)
EXTENDS Parts, TLC

CONSTANTS own, other, r1, r2

\* Requests may be swapped, and so may those that send a file: nothing orders them.
MCRequests == {r1, r2}
Swaps == Permutations(MCRequests)

\* The package of the MCP is changed once.
MCRows == << [package |-> 1, requested |-> 1], [package |-> 2, requested |-> 1] >>

\* One file of this instance and one of another.
MCFiles == {own, other}
MCKeyOf == [f \in MCFiles |-> f]

\* Two people, one of whom may come back.
MCAddressOf == (1 :> 1) @@ (2 :> 2) @@ (3 :> 2)

\* A part that does not move starts in one state.  Of the two accounts of an
\* address, and of the two tailnets, it makes no difference which comes first.
MCInit ==
  /\ Init
  /\ part # "tailnets" => states = {}
  /\ part # "updates" => settings = None
  /\ part # "sessions" => ~ protected
  /\ part # "teams" => account[2] = "open"
  /\ account[3] = "none"
  /\ part # "child" => ~ heir
  /\ part # "requests" => saved = None
  /\ node = "a"

MCSpec == MCInit /\ [][Next]_allVars
=============================================================================
