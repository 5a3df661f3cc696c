---------------------------- MODULE GrantPromise ----------------------------
(***************************************************************************)
(* What the OAuth server promises about a grant, without rows, clients,    *)
(* awaits or time.  A grant is a chain of token pairs: a code opens it,    *)
(* the refresh token of its latest pair adds the next one, and it can end  *)
(* at any moment.  A code or refresh token that was traded once is never   *)
(* traded again, so the chain has no forks.                                *)
(***************************************************************************)
CONSTANTS Grants, Pairs, Codes, Manages, None

VARIABLES traded,   \* the codes and refresh tokens that were traded
          chain     \* chain[g]: whether grant g is open, its latest pair,
                    \* whether it may manage MCPs, and whether it lasts

pvars == << traded, chain >>

PInit ==
  /\ traded = {}
  /\ chain = [g \in Grants |-> [at |-> "none", pair |-> None, manage |-> FALSE, lasts |-> FALSE]]

\* A code opens a grant with its first pair.  The permission to manage MCPs
\* comes from the consent behind the code.
OpenGrant(g, k, s) ==
  /\ chain[g].at = "none"
  /\ k \notin traded
  /\ traded' = traded \cup {k}
  /\ chain' = [chain EXCEPT ![g] = [at |-> "open", pair |-> s, manage |-> k \in Manages,
                                     lasts |-> TRUE]]

\* The latest refresh token is traded for a pair.
Renew(g, s) ==
  /\ chain[g].at = "open"
  /\ chain[g].pair \notin traded
  /\ s # chain[g].pair /\ s \notin traded
  /\ traded' = traded \cup {chain[g].pair}
  /\ chain' = [chain EXCEPT ![g].pair = s]

\* The permission to manage MCPs is taken away.
Narrow(g) ==
  /\ chain[g].at = "open"
  /\ chain' = [chain EXCEPT ![g].manage = FALSE]
  /\ UNCHANGED traded

\* Its time is over, and no refresh brings it back.
Expire(g) ==
  /\ chain[g].at = "open"
  /\ chain' = [chain EXCEPT ![g].lasts = FALSE]
  /\ UNCHANGED traded

\* Grants end, one or all those of a person at once.
End(G) ==
  /\ \A g \in G : chain[g].at = "open"
  /\ chain' = [g \in Grants |-> IF g \in G THEN [chain[g] EXCEPT !.at = "ended", !.lasts = FALSE]
                                ELSE chain[g]]
  /\ UNCHANGED traded

PNext ==
  \/ \E g \in Grants, k \in Codes, s \in Pairs : OpenGrant(g, k, s)
  \/ \E g \in Grants, s \in Pairs : Renew(g, s)
  \/ \E g \in Grants : Narrow(g) \/ Expire(g)
  \/ \E G \in SUBSET Grants : End(G)

PSpec == PInit /\ [][PNext]_pvars
=============================================================================
