---------------------------- MODULE UpstreamOauth ----------------------------
(***************************************************************************)
(* The OAuth sign-in of one upstream MCP: the tokens in its row, which     *)
(* calls renew, administrators obtain in a browser, and edits of the MCP   *)
(* forget (crates/upstream/src/oauth.rs, session.rs, shared.rs,            *)
(* crates/core/src/models/mcp.rs, crates/web/src/routes/mcps.rs).          *)
(*                                                                         *)
(* Everybody works on a copy of the row read earlier.  A step that asks a  *)
(* provider for tokens saves them only while the row is still the copy it  *)
(* started from (its basis); calls share one renewal, a task of its own.   *)
(*                                                                         *)
(* The provider is one that lets a refresh token be used once.  A pair is  *)
(* the access token and the refresh token of one answer of a provider.     *)
(***************************************************************************)
EXTENDS Naturals, Sequences

CONSTANTS Callers,    \* calls and tests that connect to the MCP
          Tasks,      \* renewals, one task each
          Flows,      \* requests of the sign-in pages: starts and callbacks
          Edits,      \* requests that save the form of the MCP
          Dests,      \* where an MCP can lead: URL and network
          Clients,    \* client ids providers know us by
          MaxStarts,  \* MAX_PENDING_OAUTH_STARTS
          MaxGens,    \* bound: generations drawn
          MaxPairs,   \* bound: pairs issued
          DbFails,    \* whether an update may fail
          None

ASSUME UpstreamAssumption ==
  /\ MaxStarts \in Nat \ {0}
  /\ MaxGens \in Nat
  /\ MaxPairs \in Nat \ {0}
  /\ DbFails \in BOOLEAN
  /\ None \notin Clients
  /\ None \notin Tasks
  /\ None \notin Dests

Gens == 0..MaxGens
Pairs == 1..MaxPairs

\* The columns of an MCP that matter here.  `auto`: it signs in with OAuth.
\* `conf`: the endpoints saved with the sign-in.  `pair` is 0 without tokens.
\* `fresh`: the access token is good for two minutes more.
Row == [dest : Dests, auto : BOOLEAN, gen : Gens, client : Clients \cup {None},
        conf : BOOLEAN, pair : Pairs \cup {0}, fresh : BOOLEAN]

\* What a sign-in, and the pairs that come of it, were made for.
Origin == [dest : Dests, gen : Gens]

\* Where a caller connects, and with which token.
Target == [dest : Dests, pair : Pairs \cup {0}]

\* What an edit compares with what it saves: where the row it read leads, how it
\* signs in, and which of its other columns are filled.
Draft == [dest : Dests, auto : BOOLEAN, client : BOOLEAN, conf : BOOLEAN, pair : BOOLEAN]

\* What the browser session keeps of a sign-in that was started.
OauthSession == [dest : Dests, gen : Gens, client : Clients]

VARIABLES row,          \* the row, or Blank once the MCP is deleted
          drawn,        \* generations drawn so far
          issued,       \* pairs issued so far
          home,         \* home[p]: what the pair p was issued for
          spent,        \* the pairs whose refresh token a provider took
          lost,         \* history variable: those whose answer was not saved
          pending,      \* the entry of the MCP in `pending_refreshes`
          task, basis, got, outcome,  \* each renewal: where it is, the row it
                                      \* started from, its pair, its result
          at, mine, on, left,         \* each caller: where it is, its copy of
                                      \* the row, the renewal it waits for, and
                                      \* (history variable) the pair that
                                      \* renewal replaced
          flow, copy, entry, bought,  \* each sign-in request: where it is, its
                                      \* row, its session entry, its pair
          session,      \* started sign-ins in the browser session, oldest first
          edit, draft   \* each edit: where it is, what it read

rowVars == << row, drawn >>
provider == << issued, home, spent, lost >>
taskVars == << pending, task, basis, got, outcome >>
callerVars == << at, mine, on, left >>
flowVars == << flow, copy, entry, bought, session >>
editVars == << edit, draft >>
vars == << rowVars, provider, taskVars, callerVars, flowVars, editVars >>

\* A copy nobody uses.
Blank == [dest |-> None, auto |-> FALSE, gen |-> 0, client |-> None, conf |-> FALSE,
          pair |-> 0, fresh |-> FALSE]

NoOrigin == [dest |-> None, gen |-> 0]

NoTarget == [dest |-> None, pair |-> 0]

NoDraft == [dest |-> None, auto |-> FALSE, client |-> FALSE, conf |-> FALSE, pair |-> FALSE]

\* An MCP that signs in with OAuth: its client may be known already, and it
\* may have been connected before.
Init ==
  /\ drawn = 0
  /\ \E d \in Dests, k \in Clients \cup {None}, p \in {0, 1} :
       /\ k = None => p = 0
       /\ row = [dest |-> d, auto |-> TRUE, gen |-> 0, client |-> k, conf |-> FALSE,
                 pair |-> p, fresh |-> p = 1]
       /\ issued = p
       /\ home = [q \in Pairs |-> IF q <= p THEN [dest |-> d, gen |-> 0] ELSE NoOrigin]
  /\ spent = {}
  /\ lost = {}
  /\ pending = None
  /\ task = [t \in Tasks |-> "idle"]
  /\ basis = [t \in Tasks |-> Blank]
  /\ got = [t \in Tasks |-> 0]
  /\ outcome = [t \in Tasks |-> FALSE]
  /\ at = [c \in Callers |-> "idle"]
  /\ mine = [c \in Callers |-> NoTarget]
  /\ on = [c \in Callers |-> None]
  /\ left = [c \in Callers |-> 0]
  /\ flow = [f \in Flows |-> "idle"]
  /\ copy = [f \in Flows |-> Blank]
  /\ entry = [f \in Flows |-> NoOrigin]
  /\ bought = [f \in Flows |-> 0]
  /\ session = << >>
  /\ edit = [e \in Edits |-> "idle"]
  /\ draft = [e \in Edits |-> NoDraft]

-----------------------------------------------------------------------------
(***************************************************************************)
(* The row                                                                 *)
(***************************************************************************)

\* The MCP was not deleted.
exists == row # Blank

\* What an OAuth step starts from (`McpOauthBasis`).
oauth_basis == [row EXCEPT !.fresh = FALSE]

\* Mutant of `BasisHolds`: the update asks for the row by its id alone.
BasisIgnored(b) == exists

\* The condition of `save_if_basis_holds`.
BasisHolds(b) == exists /\ oauth_basis = b

\* The row with a pair just issued (`save_oauth_tokens`).
WithTokens(r, p) == [r EXCEPT !.pair = p, !.fresh = TRUE]

\* The row without tokens, its sign-in named anew.
WithoutTokens(r, g) == [r EXCEPT !.gen = g, !.pair = 0, !.fresh = FALSE]

\* A provider issues the next pair.
Issue(origin) ==
  /\ issued < MaxPairs
  /\ issued' = issued + 1
  /\ home' = [home EXCEPT ![issued + 1] = origin]

\* Time passes: the saved access token is about to expire.
Expire ==
  /\ exists /\ row.fresh
  /\ row' = [row EXCEPT !.fresh = FALSE]
  /\ UNCHANGED << drawn, provider, taskVars, callerVars, flowVars, editVars >>

-----------------------------------------------------------------------------
(***************************************************************************)
(* The renewal of the tokens, shared by all who wait for it                *)
(***************************************************************************)

End(t, ok) ==
  /\ task' = [task EXCEPT ![t] = "ended"]
  /\ outcome' = [outcome EXCEPT ![t] = ok]

\* The row `refresh_current_oauth_access_token` reads needs a renewal.
NeedsRenewal(r) == r.auto /\ r.pair # 0 /\ r.client # None /\ ~ r.fresh

\* The task reads the row, whatever its callers hold.
Reload(t) ==
  /\ task[t] = "loading"
  /\ IF exists /\ NeedsRenewal(row)
       THEN /\ basis' = [basis EXCEPT ![t] = oauth_basis]
            /\ task' = [task EXCEPT ![t] = "asking"]
            /\ UNCHANGED outcome
       ELSE End(t, exists) /\ UNCHANGED basis
  /\ UNCHANGED << rowVars, provider, pending, got, callerVars, flowVars, editVars >>

\* `refresh_authorization`: the provider takes the refresh token and answers
\* with a pair; or its answer does not arrive; or it is not reached, or it
\* refuses, as it does a token it took before.
AskProvider(t) ==
  /\ task[t] = "asking"
  /\ LET p == basis[t].pair
     IN \/ /\ p \notin spent
           /\ Issue([dest |-> basis[t].dest, gen |-> basis[t].gen])
           /\ spent' = spent \cup {p}
           /\ got' = [got EXCEPT ![t] = issued + 1]
           /\ task' = [task EXCEPT ![t] = "saving"]
           /\ UNCHANGED << lost, outcome >>
        \/ /\ p \notin spent
           /\ spent' = spent \cup {p} /\ lost' = lost \cup {p}
           /\ End(t, FALSE)
           /\ UNCHANGED << issued, home, got >>
        \/ /\ End(t, FALSE)
           /\ UNCHANGED << provider, got >>
  /\ UNCHANGED << rowVars, pending, basis, callerVars, flowVars, editVars >>

\* `save_oauth_step` of the renewal.  The pair of a row that moved is dropped.
SaveRenewed(t) ==
  /\ task[t] = "saving"
  /\ \/ /\ BasisHolds(basis[t])
        /\ row' = WithTokens(row, got[t])
        /\ End(t, TRUE)
        /\ UNCHANGED lost
     \/ /\ ~ BasisHolds(basis[t]) \/ DbFails
        /\ lost' = lost \cup {basis[t].pair}
        /\ End(t, FALSE)
        /\ UNCHANGED row
  /\ UNCHANGED << drawn, issued, home, spent, pending, basis, got,
                  callerVars, flowVars, editVars >>

\* `drop(release)`: the next caller starts a renewal of its own.
Release(t) ==
  /\ task[t] = "ended"
  /\ pending' = None
  /\ task' = [task EXCEPT ![t] = "released"]
  /\ UNCHANGED << rowVars, provider, basis, got, outcome, callerVars, flowVars, editVars >>

\* Mutant of `Waiting`: only one of those who wait is told.
WaitingFirst(t) ==
  LET W == {c \in Callers : at[c] = "waiting" /\ on[c] = t}
  IN IF W = {} THEN {} ELSE {CHOOSE c \in W : TRUE}

\* The callers of a renewal.
Waiting(t) == {c \in Callers : at[c] = "waiting" /\ on[c] = t}

\* `outcome.send`: all who wait have the outcome.  On an error their call fails.
Send(t) ==
  /\ task[t] = "released"
  /\ at' = [c \in Callers |->
              IF c \notin Waiting(t) THEN at[c]
              ELSE IF outcome[t] THEN "reloading" ELSE "idle"]
  /\ mine' = [c \in Callers |-> IF c \in Waiting(t) /\ ~ outcome[t] THEN NoTarget ELSE mine[c]]
  /\ on' = [c \in Callers |-> IF c \in Waiting(t) THEN None ELSE on[c]]
  /\ left' = [c \in Callers |->
                IF c \in Waiting(t) /\ outcome[t] /\ got[t] # 0 THEN basis[t].pair ELSE left[c]]
  /\ task' = [task EXCEPT ![t] = "idle"]
  /\ basis' = [basis EXCEPT ![t] = Blank]
  /\ got' = [got EXCEPT ![t] = 0]
  /\ outcome' = [outcome EXCEPT ![t] = FALSE]
  /\ UNCHANGED << rowVars, provider, pending, flowVars, editVars >>

-----------------------------------------------------------------------------
(***************************************************************************)
(* Those who connect: `connect_http_upstream`                              *)
(***************************************************************************)

CallerEnds(c) ==
  /\ at' = [at EXCEPT ![c] = "idle"]
  /\ mine' = [mine EXCEPT ![c] = NoTarget]
  /\ on' = [on EXCEPT ![c] = None]
  /\ left' = [left EXCEPT ![c] = 0]

\* The caller has its row; without a token there is nothing to renew.
ReadRow(c) ==
  /\ at[c] = "idle" /\ exists
  /\ mine' = [mine EXCEPT ![c] = [dest |-> row.dest, pair |-> row.pair]]
  /\ at' = [at EXCEPT ![c] = IF row.auto /\ row.pair # 0 THEN "joining" ELSE "using"]
  /\ UNCHANGED << rowVars, provider, taskVars, on, left, flowVars, editVars >>

\* Mutant of `MayStart`: the map is not looked at.
MayStartAlways == TRUE

MayStart == pending = None

\* `pending_refresh`, under the mutex of the map: the renewal under way, or a
\* new one.
pending_refresh(c) ==
  /\ at[c] = "joining"
  /\ \/ /\ pending # None
        /\ on' = [on EXCEPT ![c] = pending]
        /\ UNCHANGED << pending, task >>
     \/ /\ MayStart
        /\ \E t \in Tasks :
             /\ task[t] = "idle"
             /\ pending' = t
             /\ task' = [task EXCEPT ![t] = "loading"]
             /\ on' = [on EXCEPT ![c] = t]
  /\ at' = [at EXCEPT ![c] = "waiting"]
  /\ UNCHANGED << rowVars, provider, basis, got, outcome, mine, left, flowVars, editVars >>

\* Mutants of `ReloadMine`: those who only waited go on with the row they had,
\* and the token is taken from the new row while the URL is the old one.
KeepMine(c) ==
  /\ at[c] = "reloading"
  /\ at' = [at EXCEPT ![c] = "using"]
  /\ UNCHANGED << rowVars, provider, taskVars, mine, on, left, flowVars, editVars >>

ReloadToken(c) ==
  /\ at[c] = "reloading"
  /\ at' = [at EXCEPT ![c] = "using"]
  /\ mine' = [mine EXCEPT ![c] = [dest |-> mine[c].dest, pair |-> row.pair]]
  /\ UNCHANGED << rowVars, provider, taskVars, on, left, flowVars, editVars >>

\* `refresh_oauth_access_token` ends with the row as it is now.
ReloadMine(c) ==
  /\ at[c] = "reloading"
  /\ IF exists
       THEN /\ mine' = [mine EXCEPT ![c] = [dest |-> row.dest, pair |-> row.pair]]
            /\ at' = [at EXCEPT ![c] = "using"]
            /\ UNCHANGED << on, left >>
       ELSE CallerEnds(c)
  /\ UNCHANGED << rowVars, provider, taskVars, flowVars, editVars >>

\* The token goes to the URL of the same row; the call ends.
Use(c) ==
  /\ at[c] = "using"
  /\ CallerEnds(c)
  /\ UNCHANGED << rowVars, provider, taskVars, flowVars, editVars >>

\* The caller goes away.  A renewal it started goes on.
GiveUp(c) ==
  /\ at[c] \in {"joining", "waiting", "reloading"}
  /\ CallerEnds(c)
  /\ UNCHANGED << rowVars, provider, taskVars, flowVars, editVars >>

-----------------------------------------------------------------------------
(***************************************************************************)
(* Signing in                                                              *)
(***************************************************************************)

FlowEnds(f) ==
  /\ flow' = [flow EXCEPT ![f] = "idle"]
  /\ copy' = [copy EXCEPT ![f] = Blank]
  /\ entry' = [entry EXCEPT ![f] = NoOrigin]
  /\ bought' = [bought EXCEPT ![f] = 0]

\* `oauth_start` reads the MCP; `start_oauth_flow` takes its basis from it.
BeginStart(f) ==
  /\ flow[f] = "idle" /\ exists /\ row.auto
  /\ copy' = [copy EXCEPT ![f] = oauth_basis]
  /\ flow' = [flow EXCEPT ![f] = "starting"]
  /\ UNCHANGED << rowVars, provider, taskVars, callerVars, entry, bought, session,
                  editVars >>

\* `start_oauth_session`: the oldest make room, in number and in bytes; the
\* new one stays.  A start in another browser leaves this session alone.
start_oauth_session(r) ==
  \/ \E n \in 0..Len(session) :
       /\ Len(session) - n < MaxStarts
       /\ session' = Append(SubSeq(session, n + 1, Len(session)),
                            [dest |-> r.dest, gen |-> r.gen, client |-> r.client])
  \/ UNCHANGED session

\* The client is used again and nothing changes: there is nothing to save, and
\* so nothing to compare.
StartAgain(f) ==
  /\ flow[f] = "starting" /\ copy[f].client # None
  /\ start_oauth_session(copy[f])
  /\ FlowEnds(f)
  /\ UNCHANGED << rowVars, provider, taskVars, callerVars, editVars >>

\* The row is saved if it is still the basis; else the flow fails.
SaveStart(f, r) ==
  /\ IF BasisHolds(copy[f])
       THEN row' = r /\ start_oauth_session(r)
       ELSE UNCHANGED << row, session >>
  /\ FlowEnds(f)
  /\ UNCHANGED << provider, taskVars, callerVars, editVars >>

\* The client is used again at endpoints that changed.
StartMoved(f) ==
  /\ flow[f] = "starting" /\ copy[f].client # None
  /\ SaveStart(f, [row EXCEPT !.conf = ~ row.conf])
  /\ UNCHANGED drawn

\* A client is registered, or the one of the metadata document is named: the
\* tokens of the one before go (`forget_oauth_tokens`).
StartRegistered(f) ==
  /\ flow[f] = "starting"
  /\ drawn < MaxGens
  /\ drawn' = drawn + 1
  /\ \E k \in Clients :
       SaveStart(f, [WithoutTokens(row, drawn + 1) EXCEPT !.client = k])

\* Mutant of `check_current`: only the client is compared.
CheckNothing(e, r) == TRUE

\* `OauthSession::check_current`.
check_current(e, r) == e.gen = r.gen

\* `oauth_callback`: the entry is taken from the session, and the MCP is read.
\* The sign-in goes on if it is still the one of the MCP.
Callback(f) ==
  /\ flow[f] = "idle"
  /\ \E i \in 1..Len(session) :
       /\ session' = SubSeq(session, 1, i - 1) \o SubSeq(session, i + 1, Len(session))
       /\ \/ /\ exists /\ check_current(session[i], row)
             /\ row.client = session[i].client
             /\ copy' = [copy EXCEPT ![f] = oauth_basis]
             /\ entry' = [entry EXCEPT ![f] =
                            [dest |-> session[i].dest, gen |-> session[i].gen]]
             /\ flow' = [flow EXCEPT ![f] = "exchanging"]
             /\ UNCHANGED bought
          \/ UNCHANGED << flow, copy, entry, bought >>
  /\ UNCHANGED << rowVars, provider, taskVars, callerVars, editVars >>

\* `exchange_authorization`: the provider of the sign-in issues a pair.
Exchange(f) ==
  /\ flow[f] = "exchanging"
  /\ Issue(entry[f])
  /\ bought' = [bought EXCEPT ![f] = issued + 1]
  /\ flow' = [flow EXCEPT ![f] = "exchanged"]
  /\ UNCHANGED << rowVars, spent, lost, taskVars, callerVars, copy, entry, session,
                  editVars >>

\* `save_oauth_step` of the exchange; the pair of a row that moved is dropped.
\* When that update fails, `oauth_callback` saves the status of the MCP, and with
\* it what its copy still holds unsaved: the tokens, whatever the row is now.
SaveSignIn(f) ==
  /\ flow[f] = "exchanged"
  /\ LET new == WithTokens(row, bought[f])
         failed == IF exists /\ DbFails THEN {new} ELSE {}
     IN row' \in {IF BasisHolds(copy[f]) THEN new ELSE row} \cup failed
  /\ FlowEnds(f)
  /\ UNCHANGED << drawn, provider, taskVars, callerVars, session, editVars >>

\* The provider refuses, is not reached, or the browser goes away.
FlowFails(f) ==
  /\ flow[f] # "idle"
  /\ FlowEnds(f)
  /\ UNCHANGED << rowVars, provider, taskVars, callerVars, session, editVars >>

-----------------------------------------------------------------------------
(***************************************************************************)
(* Editing the MCP                                                         *)
(***************************************************************************)

EditEnds(e) ==
  /\ edit' = [edit EXCEPT ![e] = "idle"]
  /\ draft' = [draft EXCEPT ![e] = NoDraft]

\* `update` reads the row it edits.
BeginEdit(e) ==
  /\ edit[e] = "idle" /\ exists
  /\ draft' = [draft EXCEPT ![e] =
                 [dest |-> row.dest, auto |-> row.auto, client |-> row.client # None,
                  conf |-> row.conf, pair |-> row.pair # 0]]
  /\ edit' = [edit EXCEPT ![e] = "editing"]
  /\ UNCHANGED << rowVars, provider, taskVars, callerVars, flowVars >>

\* `clear_oauth_connection` and a save that compares: what was read empty is
\* not written.
Cleared(r, old) ==
  [r EXCEPT !.client = IF old.client THEN None ELSE @,
            !.conf = @ /\ ~ old.conf,
            !.pair = IF old.pair THEN 0 ELSE @,
            !.fresh = @ /\ ~ old.pair]

\* `forget_oauth_connection`: its columns are written whatever was read.
Forgotten(r, g) ==
  [WithoutTokens(r, g) EXCEPT !.client = None, !.conf = FALSE]

\* `assign_mcp_from_payload` and `save`: columns that differ from what was read
\* are written, and the sign-in is forgotten when the MCP is moved or does not
\* sign in with OAuth any more.  `other`: it goes from one way to sign in
\* without OAuth to another one, which writes that column too.
SaveEdit(e) ==
  /\ edit[e] = "editing"
  /\ \E d \in Dests, a, other \in BOOLEAN :
       LET old == draft[e]
           saved == [row EXCEPT !.dest = IF d # old.dest THEN d ELSE @,
                                !.auto = IF a # old.auto \/ (~ a /\ other) THEN a ELSE @]
           forgets == d # old.dest \/ (old.auto /\ ~ a)
       IN /\ ~ (forgets /\ drawn = MaxGens)
          /\ drawn' = IF forgets THEN drawn + 1 ELSE drawn
          /\ row' = IF ~ exists THEN row
                    ELSE IF forgets THEN Forgotten(saved, drawn + 1)
                    ELSE IF ~ a THEN Cleared(saved, old) ELSE saved
  /\ EditEnds(e)
  /\ UNCHANGED << provider, taskVars, callerVars, flowVars >>

\* The form is refused.
RefuseEdit(e) ==
  /\ edit[e] = "editing"
  /\ EditEnds(e)
  /\ UNCHANGED << rowVars, provider, taskVars, callerVars, flowVars >>

\* `sign_out_mcps`: the network of the MCP is another one now, and one update
\* clears the sign-ins made on it.
sign_out_mcps ==
  /\ exists /\ drawn < MaxGens
  /\ drawn' = drawn + 1
  /\ row' = Forgotten(row, drawn + 1)
  /\ UNCHANGED << provider, taskVars, callerVars, flowVars, editVars >>

\* The MCP is deleted.
Delete ==
  /\ exists
  /\ row' = Blank
  /\ UNCHANGED << drawn, provider, taskVars, callerVars, flowVars, editVars >>

\* The process stops and starts again: what was asked of a provider and not
\* saved is lost, the row and the browser session stay.
Restart ==
  /\ pending' = None
  /\ lost' = lost \cup {basis[t].pair : t \in {u \in Tasks : task[u] = "saving"}}
  /\ task' = [t \in Tasks |-> "idle"]
  /\ basis' = [t \in Tasks |-> Blank]
  /\ got' = [t \in Tasks |-> 0]
  /\ outcome' = [t \in Tasks |-> FALSE]
  /\ at' = [c \in Callers |-> "idle"]
  /\ mine' = [c \in Callers |-> NoTarget]
  /\ on' = [c \in Callers |-> None]
  /\ left' = [c \in Callers |-> 0]
  /\ flow' = [f \in Flows |-> "idle"]
  /\ copy' = [f \in Flows |-> Blank]
  /\ entry' = [f \in Flows |-> NoOrigin]
  /\ bought' = [f \in Flows |-> 0]
  /\ edit' = [e \in Edits |-> "idle"]
  /\ draft' = [e \in Edits |-> NoDraft]
  /\ UNCHANGED << rowVars, issued, home, spent, session >>

-----------------------------------------------------------------------------

Renew(t) == Reload(t) \/ AskProvider(t) \/ SaveRenewed(t) \/ Release(t) \/ Send(t)

Connect(c) == pending_refresh(c) \/ ReloadMine(c) \/ Use(c)

SignIn(f) ==
  \/ BeginStart(f) \/ StartAgain(f) \/ StartMoved(f) \/ StartRegistered(f)
  \/ Callback(f) \/ Exchange(f) \/ SaveSignIn(f) \/ FlowFails(f)

Next ==
  \/ \E t \in Tasks : Renew(t)
  \/ \E c \in Callers : ReadRow(c) \/ Connect(c) \/ GiveUp(c)
  \/ \E f \in Flows : SignIn(f)
  \/ \E e \in Edits : BeginEdit(e) \/ SaveEdit(e) \/ RefuseEdit(e)
  \/ sign_out_mcps
  \/ Delete
  \/ Expire
  \/ Restart

\* Tasks and callers are polled when they can go on; requests to a provider
\* have a time limit.  Nobody has to sign in, edit or call.
Spec ==
  /\ Init /\ [][Next]_vars
  /\ \A t \in Tasks : WF_vars(Renew(t))
  /\ \A c \in Callers : WF_vars(Connect(c))

-----------------------------------------------------------------------------
(***************************************************************************)
(* Properties                                                              *)
(***************************************************************************)

\* Every variable has its type, and a caller that waits does so for a renewal.
TypeOK ==
  /\ row \in Row \cup {Blank}
  /\ drawn \in Gens
  /\ issued \in 0..MaxPairs
  /\ home \in [Pairs -> Origin \cup {NoOrigin}]
  /\ spent \subseteq Pairs /\ lost \subseteq Pairs
  /\ pending \in Tasks \cup {None}
  /\ task \in [Tasks -> {"idle", "loading", "asking", "saving", "ended", "released"}]
  /\ basis \in [Tasks -> Row \cup {Blank}]
  /\ got \in [Tasks -> Pairs \cup {0}]
  /\ outcome \in [Tasks -> BOOLEAN]
  /\ at \in [Callers -> {"idle", "joining", "waiting", "reloading", "using"}]
  /\ mine \in [Callers -> Target \cup {NoTarget}]
  /\ on \in [Callers -> Tasks \cup {None}]
  /\ left \in [Callers -> Pairs \cup {0}]
  /\ flow \in [Flows -> {"idle", "starting", "exchanging", "exchanged"}]
  /\ copy \in [Flows -> Row \cup {Blank}]
  /\ entry \in [Flows -> Origin \cup {NoOrigin}]
  /\ bought \in [Flows -> Pairs \cup {0}]
  /\ session \in Seq(OauthSession)
  /\ edit \in [Edits -> {"idle", "editing"}]
  /\ draft \in [Edits -> Draft \cup {NoDraft}]
  /\ \A c \in Callers : at[c] = "waiting" <=> on[c] # None

\* refresh_oauth_access_token: "Refresh once per MCP".  A refresh token that a
\* provider took is not presented again, unless what it answered was lost: the
\* process stopped, the answer did not arrive, or the row had moved.
PresentedOnce ==
  \A t \in Tasks : task[t] = "asking" /\ basis[t].pair \in spent => basis[t].pair \in lost

\* save_oauth_step: "When the row moved, nothing is written and the step fails:
\* its tokens are dropped".  The tokens in the row were issued for the
\* destination it leads to, and for the sign-in it names now: no renewal and no
\* callback brings back one that an edit, another start or a sign-out ended.
SignInIntact ==
  exists /\ row.pair # 0 => home[row.pair] = [dest |-> row.dest, gen |-> row.gen]

\* connect_http_upstream: "never pair fresh credentials with an old URL".  A
\* caller sends a token only to the destination it was issued for.
TokensStayHome ==
  \A c \in Callers :
    at[c] = "using" /\ mine[c].pair # 0 => home[mine[c].pair].dest = mine[c].dest

\* refresh_oauth_access_token: "They must use the saved access token, not the
\* old token from before they joined the shared refresh."
WaitersMoveOn ==
  \A c \in Callers : at[c] = "using" /\ mine[c].pair # 0 => mine[c].pair # left[c]

\* shared.rs: every caller of a renewal learns its outcome, however the others
\* come and go.
EveryCallerAnswered == \A c \in Callers : at[c] = "waiting" ~> at[c] # "waiting"
=============================================================================
