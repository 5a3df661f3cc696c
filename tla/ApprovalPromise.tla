--------------------------- MODULE ApprovalPromise ---------------------------
(***************************************************************************)
(* What tool approvals promise, without rows, time, lines or awaits: a     *)
(* call of a tool that asks is let through only by turning an approved     *)
(* request for that very call into a used one, in the same step.           *)
(*                                                                         *)
(* A request id goes through                                               *)
(*    none -> pending -> approved -> used                                  *)
(*                    -> denied -> told                                    *)
(*                    -> lapsed                                            *)
(* and from anywhere to "gone" when its row is deleted.  A request that    *)
(* lapsed may still be approved or denied, by a person who began in time.  *)
(***************************************************************************)
EXTENDS Naturals, FiniteSets

CONSTANTS Ids,          \* request ids
          Tokens, Asks, \* an "ask" is one MCP, tool and arguments
          MaxPending,   \* requests of one token that may wait at once
          None

VARIABLES req,          \* req[i]: where request i is
          subject,      \* subject[i]: the token and the ask it is for
          released      \* the <<call, token, ask, id>> let through and not ended

pvars == << req, subject, released >>

Stages == {"none", "pending", "approved", "denied", "lapsed", "used", "told", "gone"}

\* Requests somebody can still act on.
Waiting(t) == {i \in Ids : req[i] = "pending" /\ subject[i].token = t}

PInit ==
  /\ req = [i \in Ids |-> "none"]
  /\ subject = [i \in Ids |-> None]
  /\ released = {}

\* Move the ids of S to stage s.
Move(S, s) == req' = [i \in Ids |-> IF i \in S THEN s ELSE req[i]]

\* One new request: never a second waiting one for the same call, and never
\* past the limit of the token.
Ask(i, t, k) ==
  /\ req[i] = "none"
  /\ \A j \in Waiting(t) : subject[j].ask # k
  /\ Cardinality(Waiting(t)) < MaxPending
  /\ Move({i}, "pending")
  /\ subject' = [subject EXCEPT ![i] = [token |-> t, ask |-> k]]
  /\ UNCHANGED released

\* A request whose description took so long that its time is already over.
AskTooLate(i, t, k) ==
  /\ req[i] = "none"
  /\ Move({i}, "lapsed")
  /\ subject' = [subject EXCEPT ![i] = [token |-> t, ask |-> k]]
  /\ UNCHANGED released

\* A person decides a request that waits, or that lapsed under their decision.
Decide(i, verdict) ==
  /\ req[i] \in {"pending", "lapsed"}
  /\ verdict \in {"approved", "denied"}
  /\ Move({i}, verdict)
  /\ UNCHANGED << subject, released >>

\* The approval lets one call through, the call it is for, and is used up.
Release(r) ==
  /\ r \notin released
  /\ req[r[4]] = "approved"
  /\ subject[r[4]] = [token |-> r[2], ask |-> r[3]]
  /\ Move({r[4]}, "used")
  /\ released' = released \cup {r}
  /\ UNCHANGED subject

\* The agent is told of the refusal, which closes the request.
Tell(i) ==
  /\ req[i] = "denied"
  /\ Move({i}, "told")
  /\ UNCHANGED << subject, released >>

\* Nobody decided in time.
Lapse(S) ==
  /\ \A i \in S : req[i] = "pending"
  /\ Move(S, "lapsed")
  /\ UNCHANGED << subject, released >>

\* Rows are deleted, with what they were for.
Discard(S) ==
  /\ Move(S, "gone")
  /\ subject' = [i \in Ids |-> IF i \in S THEN None ELSE subject[i]]
  /\ UNCHANGED released

\* Calls end.
End == released' \subseteq released /\ UNCHANGED << req, subject >>

PNext ==
  \/ \E i \in Ids :
       \/ \E t \in Tokens, k \in Asks : Ask(i, t, k) \/ AskTooLate(i, t, k)
       \/ \E v \in {"approved", "denied"} : Decide(i, v)
       \/ Tell(i)
  \/ \E r \in released' \ released : Release(r)
  \/ \E S \in SUBSET Ids : Lapse(S) \/ Discard(S)
  \/ End

PSpec == PInit /\ [][PNext]_pvars
=============================================================================
