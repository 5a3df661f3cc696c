------------------------------ MODULE Approvals ------------------------------
(***************************************************************************)
(* The approval gate of the gateway (`ApprovalService`) between the agents *)
(* that call tools, the people that decide, the clock, and the database.   *)
(*                                                                         *)
(* The gateway serves Calls in parallel.  Each statement of `decided` and  *)
(* of what it calls is one step, because the task is suspended at each of  *)
(* its awaits: what was read before one may be stale after it.  At any of  *)
(* them the caller may go away or a statement may fail (GiveUp), and the   *)
(* process may stop (Restart): the rows stay, the calls are lost.          *)
(*                                                                         *)
(* An ask is the MCP, the tool and the arguments of a call, as             *)
(* `arguments_hash` tells them apart.                                      *)
(***************************************************************************)
EXTENDS Naturals, Sequences, FiniteSets

CONSTANTS Tokens, Calls, TokenOf,
          People,           \* those who decide, by what they have under way
          Asks,             \* what calls ask for
          Mcps, McpOf,      \* the MCP each ask goes to
          AsksByDefault,    \* the MCPs whose tool asks until someone chooses
          TooLarge,         \* the asks with more than MAX_ARGUMENT_BYTES
          MaxPending,       \* MAX_PENDING_PER_TOKEN
          PendingTime,      \* APPROVAL_PENDING_HOURS, in ticks of the clock
          GrantTime,        \* APPROVAL_GRANT_HOURS
          KeptTime,         \* KEPT_DAYS
          MaxRows,          \* bound: rows ever inserted
          MaxClock,         \* bound: ticks of the clock
          None

ASSUME ApprovalsAssumption ==
  /\ TokenOf \in [Calls -> Tokens]
  /\ McpOf \in [Asks -> Mcps]
  /\ AsksByDefault \subseteq Mcps
  /\ TooLarge \subseteq Asks
  /\ MaxPending \in Nat \ {0}
  /\ PendingTime \in Nat \ {0}
  /\ GrantTime \in Nat \ {0}
  /\ KeptTime \in Nat
  /\ MaxRows \in Nat
  /\ MaxClock \in Nat
  /\ None \notin Asks
  /\ None \notin [token : Tokens, ask : Asks]

Ids == 1..MaxRows

VARIABLES rows,    \* the table approval_requests, by id
          nextId,  \* its autoincrement
          mcps,    \* the MCPs that exist
          tokens,  \* the access tokens that exist
          saved,   \* saved[m]: the choice saved for the tool of m
          clock,
          line,    \* line[t]: the calls of t at the gate (module TokenLine)
          pc,      \* where each call is
          ask,     \* what it asks for
          mode,    \* the saved choice in the row of the MCP it was given
          found,   \* the id and the status of the request it read
          now,     \* the time it took before it counted
          deciding \* deciding[p]: what `decide` was called for, and the time it took

db == << rows, nextId >>
local == << ask, mode, found, now >>
vars == << db, mcps, tokens, saved, clock, line, pc, local, deciding >>

TL == INSTANCE TokenLine

-----------------------------------------------------------------------------
(***************************************************************************)
(* Rows                                                                    *)
(***************************************************************************)

Verdicts == {"pending", "approved", "denied"}

ApprovalRequest ==
  [token : Tokens, ask : Asks, status : Verdicts, consumed : BOOLEAN, expires : Nat]

NotFound == [id |-> 0, status |-> "pending"]

Decision == [id : Ids, verdict : {"approved", "denied"}, at : Nat]

NoDecision == [id |-> 0, verdict |-> "pending", at |-> 0]

NoRow == [token |-> None, ask |-> None, status |-> "pending",
          consumed |-> TRUE, expires |-> 0]

Exists(i) == rows[i] # NoRow

\* Nobody acted on it and its time is not over.
Live(i) == Exists(i) /\ ~ rows[i].consumed /\ rows[i].expires > clock

\* A mutant of Matching: an approval is for a tool, whatever the arguments.
MatchingTool(t, k) ==
  {i \in Ids : Live(i) /\ rows[i].token = t /\ McpOf[rows[i].ask] = McpOf[k]}

\* The rows `decided` looks at for a call: same token, MCP, tool and arguments.
Matching(t, k) == {i \in Ids : Live(i) /\ rows[i].token = t /\ rows[i].ask = k}

\* The rows `request` counts.
PendingOf(t, at) ==
  {i \in Ids : /\ Exists(i) /\ rows[i].token = t
               /\ rows[i].status = "pending" /\ rows[i].expires > at}

\* A deletion: `DELETE ... WHERE` and the cascades from `mcps` and `access_tokens`.
Deleted(S) == rows' = [i \in Ids |-> IF i \in S THEN NoRow ELSE rows[i]]

-----------------------------------------------------------------------------
(***************************************************************************)
(* The line of a token at the gate                                         *)
(***************************************************************************)

\* A mutant of HasTurn: calls at the gate do not wait for each other.
HasTurnAtOnce(c) == TL!Stands(c, line[TokenOf[c]])

HasTurn(c) == TL!HeadIs(line[TokenOf[c]], c)

\* Phases of a call that is in the line of its token.
InTurn == {"consuming", "opened", "requesting", "summarizing", "inserting"}
AtGate == {"waiting"} \cup InTurn
Choices == {"default", "unreadable", "auto", "ask"}
Phases == {"idle", "authenticated", "running"} \cup AtGate

\* A mutant of Forget: the slot keeps what the last call asked.
ForgetKeepsAsk(c) ==
  /\ mode' = [mode EXCEPT ![c] = None]
  /\ found' = [found EXCEPT ![c] = NotFound]
  /\ now' = [now EXCEPT ![c] = 0]
  /\ UNCHANGED ask

\* The call forgets what it knew; its slot is free for another call.
Forget(c) ==
  /\ ask' = [ask EXCEPT ![c] = None]
  /\ mode' = [mode EXCEPT ![c] = None]
  /\ found' = [found EXCEPT ![c] = NotFound]
  /\ now' = [now EXCEPT ![c] = 0]

\* The call is answered: the gate held it, or it ended.
Answered(c) == pc' = [pc EXCEPT ![c] = "idle"] /\ Forget(c)

\* `decided` returned: the turn goes to the next call of the token.
Held(c) == TL!LeaveLine(c) /\ Answered(c)

Goto(c, phase) == pc' = [pc EXCEPT ![c] = phase]

-----------------------------------------------------------------------------

Init ==
  /\ rows = [i \in Ids |-> NoRow]
  /\ nextId = 1
  /\ mcps = Mcps
  /\ tokens = Tokens
  /\ saved \in [Mcps -> {"default", "unreadable"}]
  /\ clock = 0
  /\ TL!LineInit
  /\ pc = [c \in Calls |-> "idle"]
  /\ ask = [c \in Calls |-> None]
  /\ mode = [c \in Calls |-> None]
  /\ found = [c \in Calls |-> NotFound]
  /\ now = [c \in Calls |-> 0]
  /\ deciding = [p \in People |-> NoDecision]

\* `authenticate_bearer` and the lookup of the tool: the call carries the row
\* of its MCP as it is now.
Authenticate(c, k) ==
  /\ pc[c] = "idle"
  /\ TokenOf[c] \in tokens /\ McpOf[k] \in mcps
  /\ ask' = [ask EXCEPT ![c] = k]
  /\ mode' = [mode EXCEPT ![c] = saved[McpOf[k]]]
  /\ Goto(c, "authenticated")
  /\ UNCHANGED << db, mcps, tokens, saved, clock, line, found, now, deciding >>

\* What `tool_approval_mode` reads in a saved choice: the default where none
\* is saved, and "ask" where it cannot be read.
tool_approval_mode(choice, m) ==
  CASE choice = "default"    -> IF m \in AsksByDefault THEN "ask" ELSE "auto"
    [] choice = "unreadable" -> "ask"
    [] OTHER                 -> choice

\* `gate` for a tool that runs.
GateOpen(c) ==
  /\ pc[c] = "authenticated"
  /\ tool_approval_mode(mode[c], McpOf[ask[c]]) = "auto"
  /\ Goto(c, "running")
  /\ mode' = [mode EXCEPT ![c] = None]
  /\ UNCHANGED << db, mcps, tokens, saved, clock, line, ask, found, now, deciding >>

\* `gate` for a tool that asks: the call joins the line of its token.
GateAsks(c) ==
  /\ pc[c] = "authenticated"
  /\ tool_approval_mode(mode[c], McpOf[ask[c]]) = "ask"
  /\ TL!EnterLine(c)
  /\ Goto(c, "waiting")
  /\ mode' = [mode EXCEPT ![c] = None]
  /\ UNCHANGED << db, mcps, tokens, saved, clock, ask, found, now, deciding >>

\* `decided`: the last live request for this very call.  A pending one answers
\* the call; a decided one is consumed next; without one, a request is made.
Select(c) ==
  /\ pc[c] = "waiting" /\ HasTurn(c)
  /\ LET live == Matching(TokenOf[c], ask[c])
         Last(i) == i \in live /\ \A j \in live : j <= i
     IN \/ /\ live = {}
           /\ Goto(c, "requesting")
           /\ UNCHANGED << line, local >>
        \/ /\ \E last \in Ids : Last(last) /\ rows[last].status = "pending"
           /\ Held(c)
        \/ /\ \E last \in Ids :
                /\ Last(last) /\ rows[last].status # "pending"
                /\ found' = [found EXCEPT ![c] = [id |-> last, status |-> rows[last].status]]
           /\ Goto(c, "consuming")
           /\ UNCHANGED << line, ask, mode, now >>
  /\ UNCHANGED << db, mcps, tokens, saved, clock, deciding >>

\* The update of `consume`: one row, or none when it is no longer as it was read.
Unconsumed(r) == Exists(r.id) /\ rows[r.id].status = r.status /\ ~ rows[r.id].consumed

consume(r) ==
  rows' = IF Unconsumed(r) THEN [rows EXCEPT ![r.id].consumed = TRUE] ELSE rows

\* `consume` for an approval: the call that got it is let through, another
\* one goes on to ask.
ConsumeApproved(c) ==
  /\ pc[c] = "consuming" /\ found[c].status = "approved"
  /\ consume(found[c])
  /\ IF Unconsumed(found[c])
       THEN Goto(c, "opened") /\ UNCHANGED found
       ELSE Goto(c, "requesting") /\ found' = [found EXCEPT ![c] = NotFound]
  /\ UNCHANGED << nextId, mcps, tokens, saved, clock, line, ask, mode, now, deciding >>

\* `consume` for a refusal: the agent is told, whatever the update did.
ConsumeDenied(c) ==
  /\ pc[c] = "consuming" /\ found[c].status = "denied"
  /\ consume(found[c])
  /\ Held(c)
  /\ UNCHANGED << nextId, mcps, tokens, saved, clock, deciding >>

\* `gate` returned Open: the turn is given on and the tool is called.
Open(c) ==
  /\ pc[c] = "opened"
  /\ TL!LeaveLine(c)
  /\ Goto(c, "running")
  /\ UNCHANGED << db, mcps, tokens, saved, clock, local, deciding >>

\* The tool answered, failed, or its caller went away.
Ran(c) ==
  /\ pc[c] = "running"
  /\ Answered(c)
  /\ UNCHANGED << db, mcps, tokens, saved, clock, line, deciding >>

\* A mutant of Count: one request past the limit.
CountOnePast(c) ==
  /\ pc[c] = "requesting"
  /\ IF ask[c] \in TooLarge \/ Cardinality(PendingOf(TokenOf[c], clock)) > MaxPending
       THEN Held(c)
       ELSE /\ now' = [now EXCEPT ![c] = clock]
            /\ Goto(c, "summarizing")
            /\ UNCHANGED << line, ask, mode, found >>
  /\ UNCHANGED << db, mcps, tokens, saved, clock, deciding >>

\* `request`: the arguments a person could not be shown, and the limit of the
\* token; the time the row will bear is taken here.
Count(c) ==
  /\ pc[c] = "requesting"
  /\ IF ask[c] \in TooLarge \/ Cardinality(PendingOf(TokenOf[c], clock)) >= MaxPending
       THEN Held(c)
       ELSE /\ now' = [now EXCEPT ![c] = clock]
            /\ Goto(c, "summarizing")
            /\ UNCHANGED << line, ask, mode, found >>
  /\ UNCHANGED << db, mcps, tokens, saved, clock, deciding >>

\* `summarize`: the built-in tool or the probe of the MCP describes the call,
\* or refuses it.
Summarize(c) ==
  /\ pc[c] = "summarizing"
  /\ \/ Goto(c, "inserting") /\ UNCHANGED << line, local >>
     \/ Held(c)
  /\ UNCHANGED << db, mcps, tokens, saved, clock, deciding >>

\* The insert of `request`.
Insert(c) ==
  /\ pc[c] = "inserting"
  /\ TokenOf[c] \in tokens /\ McpOf[ask[c]] \in mcps
  /\ nextId <= MaxRows
  /\ rows' = [rows EXCEPT ![nextId] =
                [token |-> TokenOf[c], ask |-> ask[c], status |-> "pending",
                 consumed |-> FALSE, expires |-> now[c] + PendingTime]]
  /\ nextId' = nextId + 1
  /\ Held(c)
  /\ UNCHANGED << mcps, tokens, saved, clock, deciding >>

\* The insert fails: a foreign key refuses it when the MCP or the token is gone.
InsertFails(c) ==
  /\ pc[c] = "inserting"
  /\ TokenOf[c] \notin tokens \/ McpOf[ask[c]] \notin mcps \/ nextId > MaxRows
  /\ Held(c)
  /\ UNCHANGED << db, mcps, tokens, saved, clock, deciding >>

\* A statement fails and so does the call; or its caller goes away and the
\* future is dropped where it is, with whatever it did done.
GiveUp(c) ==
  /\ pc[c] \in AtGate
  /\ Held(c)
  /\ UNCHANGED << db, mcps, tokens, saved, clock, deciding >>

-----------------------------------------------------------------------------
(***************************************************************************)
(* The people, the clock and the process                                   *)
(***************************************************************************)

\* The request a decision is about is still pending, and in time by its clock.
Decidable(d) ==
  Exists(d.id) /\ rows[d.id].status = "pending" /\ rows[d.id].expires > d.at

\* `decide` of a request somebody found: it takes the time that its update compares
\* and writes, then waits for its turn in the database.  The update would match no
\* row, then or later, of a request that is not decidable now.
Decide(p, i, verdict) ==
  LET d == [id |-> i, verdict |-> verdict, at |-> clock] IN
    /\ deciding[p] = NoDecision
    /\ Decidable(d)
    /\ deciding' = [deciding EXCEPT ![p] = d]
    /\ UNCHANGED << db, mcps, tokens, saved, clock, line, pc, local >>

Undecided(p) == deciding' = [deciding EXCEPT ![p] = NoDecision]

\* A mutant of Record: what was pending when the decision began is taken to be so.
RecordBlind(p) ==
  /\ deciding[p] # NoDecision
  /\ LET d == deciding[p] IN
       rows' = IF Exists(d.id)
                 THEN [rows EXCEPT ![d.id].status = d.verdict,
                                   ![d.id].expires = IF d.verdict = "approved"
                                                       THEN d.at + GrantTime ELSE @]
                 ELSE rows
  /\ Undecided(p)
  /\ UNCHANGED << nextId, mcps, tokens, saved, clock, line, pc, local >>

\* The update of `decide`.
Record(p) ==
  /\ deciding[p] # NoDecision
  /\ LET d == deciding[p] IN
       rows' = IF Decidable(d)
                 THEN [rows EXCEPT ![d.id].status = d.verdict,
                                   ![d.id].expires = IF d.verdict = "approved"
                                                       THEN d.at + GrantTime ELSE @]
                 ELSE rows
  /\ Undecided(p)
  /\ UNCHANGED << nextId, mcps, tokens, saved, clock, line, pc, local >>

\* The update fails, or the page is closed before it ran.
Abandon(p) ==
  /\ deciding[p] # NoDecision
  /\ Undecided(p)
  /\ UNCHANGED << db, mcps, tokens, saved, clock, line, pc, local >>

\* The tools page saves what a tool does, unless that is its default
\* (`assign_tool_approvals`).
Choose(m, choice) ==
  /\ m \in mcps
  /\ saved' = [saved EXCEPT ![m] =
                 IF choice = tool_approval_mode("default", m) THEN "default" ELSE choice]
  /\ UNCHANGED << db, mcps, tokens, clock, line, pc, local, deciding >>

\* An MCP is deleted, and its requests with it.
DeleteMcp(m) ==
  /\ m \in mcps
  /\ mcps' = mcps \ {m}
  /\ Deleted({i \in Ids : Exists(i) /\ McpOf[rows[i].ask] = m})
  /\ UNCHANGED << nextId, tokens, saved, clock, line, pc, local, deciding >>

\* A token that is revoked or over is deleted, and its requests with it.
DeleteToken(t) ==
  /\ t \in tokens
  /\ tokens' = tokens \ {t}
  /\ Deleted({i \in Ids : Exists(i) /\ rows[i].token = t})
  /\ UNCHANGED << nextId, mcps, saved, clock, line, pc, local, deciding >>

\* `prune_expired`, which a request starts and does not wait for.
prune_expired ==
  LET old == {i \in Ids : Exists(i) /\ rows[i].expires + KeptTime < clock}
  IN /\ old # {}
     /\ Deleted(old)
     /\ UNCHANGED << nextId, mcps, tokens, saved, clock, line, pc, local, deciding >>

Tick ==
  /\ clock < MaxClock
  /\ clock' = clock + 1
  /\ UNCHANGED << db, mcps, tokens, saved, line, pc, local, deciding >>

\* The process stops and starts again.
Restart ==
  /\ (\E c \in Calls : pc[c] # "idle") \/ (\E p \in People : deciding[p] # NoDecision)
  /\ TL!Emptied
  /\ pc' = [c \in Calls |-> "idle"]
  /\ ask' = [c \in Calls |-> None]
  /\ mode' = [c \in Calls |-> None]
  /\ found' = [c \in Calls |-> NotFound]
  /\ now' = [c \in Calls |-> 0]
  /\ deciding' = [p \in People |-> NoDecision]
  /\ UNCHANGED << db, mcps, tokens, saved, clock >>

-----------------------------------------------------------------------------

\* What the gateway does by itself with a call it was given.
Step(c) ==
  \/ GateOpen(c) \/ GateAsks(c) \/ Select(c) \/ ConsumeApproved(c)
  \/ ConsumeDenied(c) \/ Open(c) \/ Ran(c) \/ Count(c) \/ Summarize(c)
  \/ Insert(c) \/ InsertFails(c)

Next ==
  \/ \E c \in Calls : Step(c) \/ GiveUp(c) \/ \E k \in Asks : Authenticate(c, k)
  \/ \E p \in People :
       \/ Record(p) \/ Abandon(p)
       \/ \E i \in Ids, v \in {"approved", "denied"} : Decide(p, i, v)
  \/ \E m \in Mcps : DeleteMcp(m) \/ \E choice \in {"auto", "ask"} : Choose(m, choice)
  \/ \E t \in Tokens : DeleteToken(t)
  \/ prune_expired
  \/ Tick
  \/ Restart

\* A call that has its turn, or needs none, is polled until it is answered;
\* people, agents and the clock owe nothing.
Spec == Init /\ [][Next]_vars /\ \A c \in Calls : WF_vars(Step(c))

-----------------------------------------------------------------------------
(***************************************************************************)
(* Properties                                                              *)
(***************************************************************************)

\* Every variable has its type, and only a call that is served knows an ask.
TypeOK ==
  /\ rows \in [Ids -> ApprovalRequest \cup {NoRow}]
  /\ nextId \in 1..(MaxRows + 1)
  /\ mcps \subseteq Mcps
  /\ tokens \subseteq Tokens
  /\ saved \in [Mcps -> Choices]
  /\ clock \in Nat
  /\ line \in [Tokens -> Seq(Calls)]
  /\ pc \in [Calls -> Phases]
  /\ ask \in [Calls -> Asks \cup {None}]
  /\ mode \in [Calls -> Choices \cup {None}]
  /\ found \in [Calls -> [id : Ids \cup {0}, status : Verdicts]]
  /\ now \in [Calls -> Nat]
  /\ deciding \in [People -> Decision \cup {NoDecision}]
  /\ \A c \in Calls : pc[c] = "idle" <=> ask[c] = None

\* in_turn: "two calls of the same access token doing that at once would both
\* add, past the limit, or twice for the same call".  Whatever calls, people,
\* deletions and restarts do, no token has more requests waiting than
\* MAX_PENDING_PER_TOKEN.
WithinLimit == \A t \in Tokens : Cardinality(PendingOf(t, clock)) <= MaxPending

\* The same comment, its second half: a call is never put to people twice.  Of
\* two open requests for one call the older one was approved, by a decision that
\* began in time and was written when the call had been put to people again: the
\* one that waits, or was refused, is the newest, which the agent will read.
OneOpenRequest ==
  \A i, j \in Ids :
    /\ Live(i) /\ Live(j) /\ i < j
    /\ rows[i].token = rows[j].token /\ rows[i].ask = rows[j].ask
    => rows[i].status = "approved"

\* consume: "Only one of two calls made at the same moment gets the approval.";
\* the route of `decide`: "Of two decisions made at once, the first to be written
\* wins."  A decision is never replaced and what is over stays over, whatever
\* late calls, second decisions and restarts do; but for a request that a person
\* began to approve before its time was over.
DecisionIsFinal ==
  [][\A i \in Ids :
       /\ i < nextId /\ ~ Live(i) /\ Live(i)' =>
            \E p \in People :
              deciding[p].id = i /\ deciding[p].verdict = "approved" /\ Decidable(deciding[p])
       /\ Exists(i) /\ Exists(i)' /\ rows[i].status # "pending"
            => rows'[i].status = rows[i].status]_vars

\* decide: "False when the request was decided in the meantime or has expired."
\* A request whose time is over is not decided any more.  The code does not keep this
\* (README, section 6); DecisionIsFinal and OneOpenRequest say what it keeps.
DecidedInTime ==
  [][\A i \in Ids :
       Exists(i) /\ Exists(i)' /\ rows[i].status = "pending" /\ rows'[i].status # "pending"
         => Live(i)]_vars

\* decided, on a refusal: "Said once."  The result of `consume` is not looked
\* at there, so only the turn keeps two calls from both saying it.
SaidOnce ==
  [][\A c \in Calls : ConsumeDenied(c) /\ Exists(found[c].id) =>
                        ~ rows[found[c].id].consumed]_vars

\* Every call the gateway accepted is answered: no turn is kept by a call that
\* ended, was given up, or was refused.
EveryCallAnswered == \A c \in Calls : pc[c] # "idle" ~> pc[c] = "idle"

-----------------------------------------------------------------------------
(***************************************************************************)
(* The gate keeps the promise of module ApprovalPromise                    *)
(***************************************************************************)

\* The stage of a row, as `ApprovalRequest::state` tells it to a reader, but for
\* an approval whose time is over: a call that read it in time may still consume
\* it.  `made`: an id that was drawn.
StageOf(r, made, at) ==
  IF ~ made THEN "none"
  ELSE IF r = NoRow THEN "gone"
  ELSE IF r.status = "pending" THEN (IF r.expires > at THEN "pending" ELSE "lapsed")
  ELSE IF r.status = "approved" THEN (IF r.consumed = TRUE THEN "used" ELSE "approved")
  ELSE (IF r.consumed = TRUE THEN "told" ELSE "denied")

stage == [i \in Ids |-> StageOf(rows[i], i < nextId, clock)]

subjects == [i \in Ids |->
  IF Exists(i) THEN [token |-> rows[i].token, ask |-> rows[i].ask] ELSE None]

letThrough == {<< c, TokenOf[c], ask[c], found[c].id >> :
                 c \in {d \in Calls : pc[d] \in {"opened", "running"} /\ found[d] # NotFound}}

P == INSTANCE ApprovalPromise
       WITH req <- stage, subject <- subjects, released <- letThrough

\* gate: "A tool set to ask is held until a person approved this very call: same
\* token, MCP, tool and arguments. The approval is spent by the call it lets
\* through."
KeepsPromise == P!PSpec
=============================================================================
