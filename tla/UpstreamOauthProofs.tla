-------------------------- MODULE UpstreamOauthProofs --------------------------
(***************************************************************************)
(* Proofs about UpstreamOauth, for any number of callers, renewals,        *)
(* sign-ins and edits: a refresh token is presented once, those who waited *)
(* for a renewal use what it brought, and, while no update fails, tokens   *)
(* stay with the sign-in and the destination they were issued for.         *)
(***************************************************************************)
EXTENDS UpstreamOauth, SequenceTheorems, TLAPS

-----------------------------------------------------------------------------
(***************************************************************************)
(* The inductive invariant.                                                *)
(***************************************************************************)

\* A refresh token that was replaced: it was traded, and is not the one of the row.
Replaced(p) == p \in spent /\ row.pair # p

\* A copy of the row, read earlier, is the row's sign-in or an older one.
Agree(gen, dest) == gen <= drawn /\ (exists /\ gen = row.gen => dest = row.dest)

\* A pair that was issued and is not saved yet.
Unsaved(p) == p \in Pairs /\ p <= issued /\ p \notin spent /\ p # row.pair

\* What the row and the providers know.
KnownOK ==
  /\ row.pair <= issued
  /\ row.gen <= drawn
  /\ \A p \in spent : p <= issued

\* A renewal that is under way, until it makes room for the next one.
Live == {"loading", "asking", "saving", "ended"}

\* One renewal at a time; the pair it got is nobody else's and was issued for
\* what it started from.
TaskOf(t) ==
  /\ task[t] \in Live <=> pending = t
  /\ task[t] \in {"asking", "saving"} => basis[t] \in Row /\ basis[t].pair # 0
  /\ basis[t].pair <= issued
  /\ task[t] \in {"idle", "loading", "asking"} => got[t] = 0
  /\ task[t] = "saving" =>
       /\ Unsaved(got[t]) /\ basis[t].pair \in spent
       /\ home[got[t]] = [dest |-> basis[t].dest, gen |-> basis[t].gen]

\* A renewal that succeeded replaced the token it started from.
RenewedOf(t) ==
  task[t] \in {"ended", "released"} /\ outcome[t] /\ got[t] # 0 => Replaced(basis[t].pair)

\* A renewal asks with a token nobody traded, or whose answer was lost.
AskOf(t) == task[t] = "asking" /\ basis[t].pair \in spent => basis[t].pair \in lost

\* The token in the row was not traded, unless the answer was lost or is about
\* to be saved.
RowAsk ==
  row.pair \in spent /\ row.pair \notin lost =>
    \E t \in Tasks : task[t] = "saving" /\ basis[t].pair = row.pair

\* The pair that a sign-in got is nobody else's, and was issued for what the
\* copy it will save was made for.
FlowOf(f) ==
  /\ flow[f] # "idle" => copy[f] \in Row /\ Agree(copy[f].gen, copy[f].dest)
  /\ flow[f] \in {"exchanging", "exchanged"} =>
       entry[f] = [dest |-> copy[f].dest, gen |-> copy[f].gen]
  /\ flow[f] = "exchanged" =>
       /\ Unsaved(bought[f]) /\ home[bought[f]] = entry[f]
       /\ \A t \in Tasks : /\ task[t] = "saving" => got[t] # bought[f]
                           /\ task[t] = "asking" => basis[t].pair # bought[f]
       /\ \A g \in Flows \ {f} : flow[g] = "exchanged" => bought[g] # bought[f]

\* What a caller has, and what the renewal it waited for replaced.
CallerOf(c) ==
  /\ at[c] \notin {"reloading", "using"} => left[c] = 0
  /\ left[c] # 0 => Replaced(left[c])
  /\ mine[c].pair <= issued
  /\ at[c] = "using" /\ mine[c].pair # 0 => mine[c].pair # left[c]

\* The browser session holds sign-ins of the row or older ones.
Entries == {s \in OauthSession : Agree(s.gen, s.dest)}

Inv ==
  /\ TypeOK
  /\ KnownOK
  /\ \A t \in Tasks : TaskOf(t) /\ RenewedOf(t) /\ AskOf(t)
  /\ RowAsk
  /\ \A f \in Flows : FlowOf(f)
  /\ \A c \in Callers : CallerOf(c)
  /\ session \in Seq(Entries)
  /\ DbFails \/ (SignInIntact /\ TokensStayHome)

-----------------------------------------------------------------------------
(***************************************************************************)
(* The operators on rows and sequences.                                    *)
(***************************************************************************)

\* Pairs and generations are numbers.
LEMMA Numbers ==
  /\ Pairs \subseteq Nat /\ Gens \subseteq Nat /\ 0 \notin Pairs /\ 0 \in Gens
BY UpstreamAssumption DEF Pairs, Gens

\* The blank row is no row, and has no pair.
LEMMA BlankRow ==
  /\ Blank \notin Row /\ Blank.pair = 0 /\ Blank.gen = 0 /\ Blank.dest = None
BY UpstreamAssumption DEF Blank, Row

\* Saving a pair changes nothing else that matters.
LEMMA WithTokensRow ==
  ASSUME NEW r \in Row, NEW p \in Pairs
  PROVE  /\ WithTokens(r, p) \in Row /\ WithTokens(r, p).pair = p
         /\ WithTokens(r, p).dest = r.dest /\ WithTokens(r, p).gen = r.gen
BY DEF WithTokens, Row

\* Forgetting the tokens names the sign-in anew.
LEMMA WithoutTokensRow ==
  ASSUME NEW r \in Row, NEW g \in Gens
  PROVE  /\ WithoutTokens(r, g) \in Row /\ WithoutTokens(r, g).pair = 0
         /\ WithoutTokens(r, g).dest = r.dest /\ WithoutTokens(r, g).gen = g
BY DEF WithoutTokens, Row

\* So does forgetting the whole sign-in.
LEMMA ForgottenRow ==
  ASSUME NEW r \in Row, NEW g \in Gens
  PROVE  /\ Forgotten(r, g) \in Row /\ Forgotten(r, g).pair = 0
         /\ Forgotten(r, g).dest = r.dest /\ Forgotten(r, g).gen = g
<1>1. /\ WithoutTokens(r, g) \in Row /\ WithoutTokens(r, g).pair = 0
      /\ WithoutTokens(r, g).dest = r.dest /\ WithoutTokens(r, g).gen = g
  BY WithoutTokensRow
<1> QED BY <1>1 DEF Forgotten, Row

\* Clearing the columns of a sign-in names no other one.
LEMMA ClearedRow ==
  ASSUME NEW r \in Row, NEW old \in Draft
  PROVE  /\ Cleared(r, old) \in Row /\ Cleared(r, old).pair \in {0, r.pair}
         /\ Cleared(r, old).dest = r.dest /\ Cleared(r, old).gen = r.gen
<1>1. PICK k \in Clients \cup {None} : k = IF old.client THEN None ELSE r.client
  BY DEF Row
<1>2. PICK conf \in BOOLEAN : conf = (r.conf /\ ~ old.conf)
  OBVIOUS
<1>3. PICK p \in Pairs \cup {0} : p = (IF old.pair THEN 0 ELSE r.pair) /\ p \in {0, r.pair}
  BY DEF Row
<1>4. PICK fresh \in BOOLEAN : fresh = (r.fresh /\ ~ old.pair)
  OBVIOUS
<1>5. Cleared(r, old) = [r EXCEPT !.client = k, !.conf = conf, !.pair = p, !.fresh = fresh]
  BY <1>1, <1>2, <1>3, <1>4 DEF Cleared
<1> QED BY <1>3, <1>5 DEF Row

\* Sequences over a larger set.
LEMMA SeqGrows ==
  ASSUME NEW S, NEW T, S \subseteq T, NEW s \in Seq(S)
  PROVE  s \in Seq(T)
BY SeqDef

\* A sign-in joins the session, and older ones make room.
LEMMA SessionStarts ==
  ASSUME NEW S, session \in Seq(S), NEW r, start_oauth_session(r),
         [dest |-> r.dest, gen |-> r.gen, client |-> r.client] \in S
  PROVE  session' \in Seq(S)
<1>1. CASE UNCHANGED session
  BY <1>1
<1>2. ASSUME NEW n \in 0..Len(session),
             session' = Append(SubSeq(session, n + 1, Len(session)),
                               [dest |-> r.dest, gen |-> r.gen, client |-> r.client])
      PROVE  session' \in Seq(S)
  <2>1. SubSeq(session, n + 1, Len(session)) \in Seq(S)
    BY SubSeqProperties, LenProperties
  <2> QED BY <1>2, <2>1, AppendProperties
<1> QED BY <1>1, <1>2 DEF start_oauth_session

\* A callback takes its entry.
LEMMA SessionTaken ==
  ASSUME NEW S, NEW s \in Seq(S), NEW i \in 1..Len(s)
  PROVE  /\ SubSeq(s, 1, i - 1) \o SubSeq(s, i + 1, Len(s)) \in Seq(S)
         /\ s[i] \in S
<1>1. SubSeq(s, 1, i - 1) \in Seq(S) /\ SubSeq(s, i + 1, Len(s)) \in Seq(S)
  BY SubSeqProperties, LenProperties
<1> QED BY <1>1, ConcatProperties, ElementOfSeq

-----------------------------------------------------------------------------
(***************************************************************************)
(* The types, one part of the state at a time.                             *)
(***************************************************************************)

RowTypes == row \in Row \cup {Blank} /\ drawn \in Gens

ProviderTypes ==
  /\ issued \in 0..MaxPairs
  /\ home \in [Pairs -> Origin \cup {NoOrigin}]
  /\ spent \subseteq Pairs /\ lost \subseteq Pairs

TaskTypes ==
  /\ pending \in Tasks \cup {None}
  /\ task \in [Tasks -> {"idle", "loading", "asking", "saving", "ended", "released"}]
  /\ basis \in [Tasks -> Row \cup {Blank}]
  /\ got \in [Tasks -> Pairs \cup {0}]
  /\ outcome \in [Tasks -> BOOLEAN]

CallerTypes ==
  /\ at \in [Callers -> {"idle", "joining", "waiting", "reloading", "using"}]
  /\ mine \in [Callers -> Target \cup {NoTarget}]
  /\ on \in [Callers -> Tasks \cup {None}]
  /\ left \in [Callers -> Pairs \cup {0}]
  /\ \A c \in Callers : at[c] = "waiting" <=> on[c] # None

FlowTypes ==
  /\ flow \in [Flows -> {"idle", "starting", "exchanging", "exchanged"}]
  /\ copy \in [Flows -> Row \cup {Blank}]
  /\ entry \in [Flows -> Origin \cup {NoOrigin}]
  /\ bought \in [Flows -> Pairs \cup {0}]

EditTypes ==
  /\ edit \in [Edits -> {"idle", "editing"}]
  /\ draft \in [Edits -> Draft \cup {NoDraft}]

\* The type invariant, part by part.
LEMMA TypeParts ==
  /\ TypeOK <=> /\ RowTypes /\ ProviderTypes /\ TaskTypes /\ CallerTypes /\ FlowTypes
                /\ EditTypes /\ session \in Seq(OauthSession)
BY Zenon DEF TypeOK, RowTypes, ProviderTypes, TaskTypes, CallerTypes, FlowTypes, EditTypes

\* The same after a step.
LEMMA TypePartsNext ==
  ASSUME RowTypes', ProviderTypes', TaskTypes', CallerTypes', FlowTypes', EditTypes',
         session' \in Seq(Entries')
  PROVE  TypeOK'
<1>1. session' \in Seq(OauthSession)
  BY SeqGrows DEF Entries
<1> QED BY <1>1, Zenon DEF TypeOK, RowTypes, ProviderTypes, TaskTypes, CallerTypes, FlowTypes,
           EditTypes

\* Parts that a step leaves alone keep their types.
LEMMA SameTypes ==
  /\ RowTypes /\ UNCHANGED rowVars => RowTypes'
  /\ ProviderTypes /\ UNCHANGED provider => ProviderTypes'
  /\ TaskTypes /\ UNCHANGED taskVars => TaskTypes'
  /\ CallerTypes /\ UNCHANGED callerVars => CallerTypes'
  /\ FlowTypes /\ UNCHANGED flowVars => FlowTypes'
  /\ EditTypes /\ UNCHANGED editVars => EditTypes'
BY DEF RowTypes, ProviderTypes, TaskTypes, CallerTypes, FlowTypes, EditTypes,
       rowVars, provider, taskVars, callerVars, flowVars, editVars

\* A caller or a sign-in that ends leaves nothing behind.
LEMMA EndTypes ==
  /\ \A c \in Callers : CallerTypes /\ CallerEnds(c) =>
       /\ CallerTypes' /\ at'[c] = "idle" /\ left'[c] = 0 /\ mine'[c].pair = 0
       /\ \A d \in Callers \ {c} : at'[d] = at[d] /\ mine'[d] = mine[d] /\ left'[d] = left[d]
  /\ \A f \in Flows : FlowTypes /\ FlowEnds(f) =>
       /\ FlowTypes' /\ flow'[f] = "idle"
       /\ \A g \in Flows \ {f} : /\ flow'[g] = flow[g] /\ copy'[g] = copy[g]
                                 /\ entry'[g] = entry[g] /\ bought'[g] = bought[g]
  /\ \A e \in Edits : EditTypes /\ EditEnds(e) => EditTypes'
<1>1. ASSUME NEW c \in Callers, CallerTypes, CallerEnds(c)
      PROVE  /\ CallerTypes' /\ at'[c] = "idle" /\ left'[c] = 0 /\ mine'[c].pair = 0
             /\ \A d \in Callers \ {c} : at'[d] = at[d] /\ mine'[d] = mine[d] /\ left'[d] = left[d]
  BY <1>1 DEF CallerTypes, CallerEnds, NoTarget
<1>2. ASSUME NEW f \in Flows, FlowTypes, FlowEnds(f)
      PROVE  /\ FlowTypes' /\ flow'[f] = "idle"
             /\ \A g \in Flows \ {f} : /\ flow'[g] = flow[g] /\ copy'[g] = copy[g]
                                       /\ entry'[g] = entry[g] /\ bought'[g] = bought[g]
  BY <1>2 DEF FlowTypes, FlowEnds
<1>3. ASSUME NEW e \in Edits, EditTypes, EditEnds(e) PROVE EditTypes'
  BY <1>3 DEF EditTypes, EditEnds
<1> QED BY <1>1, <1>2, <1>3

-----------------------------------------------------------------------------
(***************************************************************************)
(* What a step leaves alone.                                               *)
(***************************************************************************)

\* Nothing is taken back: pairs stay issued for what they were issued for,
\* replaced tokens stay replaced, and copies stay older than the row.
Grows ==
  /\ issued <= issued'
  /\ \A p \in Pairs : p <= issued => home'[p] = home[p]
  /\ \A p \in Pairs : Replaced(p) => Replaced(p)'
  /\ \A g \in Gens, d \in Dests : Agree(g, d) => Agree(g, d)'

\* The row keeps its pair and its sign-in, or loses its pair, perhaps to a new
\* sign-in, or is gone.
RowQuiet ==
  /\ drawn <= drawn'
  /\ \/ row' = Blank
     \/ /\ exists /\ row'.pair \in {0, row.pair}
        /\ row'.dest = row.dest /\ row'.gen = row.gen
     \/ exists /\ row'.pair = 0 /\ drawn < row'.gen /\ row'.gen <= drawn'

FlowRests(f) ==
  flow'[f] = flow[f] /\ copy'[f] = copy[f] /\ entry'[f] = entry[f] /\ bought'[f] = bought[f]

CallerRests(c) == at'[c] = at[c] /\ mine'[c] = mine[c] /\ left'[c] = left[c]

TaskRests(t) ==
  task'[t] = task[t] /\ basis'[t] = basis[t] /\ got'[t] = got[t] /\ outcome'[t] = outcome[t]

\* Every token the caller uses leads where it was issued for.
HomeOf(c) ==
  at[c] = "using" /\ mine[c].pair # 0 => home[mine[c].pair].dest = mine[c].dest

\* The numbers of a state.
LEMMA InvNumbers ==
  ASSUME Inv
  PROVE  /\ issued \in Nat /\ drawn \in Nat /\ row.pair \in Pairs \cup {0} /\ row.gen \in Gens
         /\ row.pair \in Nat /\ row.gen \in Nat
         /\ spent \subseteq Pairs /\ 0 \notin spent
         /\ exists => row \in Row
<1>1. RowTypes /\ ProviderTypes
  BY TypeParts DEF Inv
<1>2. row.pair \in Pairs \cup {0} /\ row.gen \in Gens /\ (exists => row \in Row)
  BY <1>1, BlankRow, Numbers DEF RowTypes, Row, exists
<1>3. row.pair \in Nat /\ row.gen \in Nat
  BY <1>2, Numbers
<1>4. issued \in Nat
  BY <1>1 DEF ProviderTypes
<1>5. drawn \in Nat
  BY <1>1, Numbers DEF RowTypes
<1>6. spent \subseteq Pairs /\ 0 \notin spent
  BY <1>1, Numbers DEF ProviderTypes
<1> QED BY <1>2, <1>3, <1>4, <1>5, <1>6

\* A row that changes quietly gives nobody a pair.
LEMMA QuietRow ==
  ASSUME Inv, RowTypes', RowQuiet,
         spent' = spent, issued' \in Nat, issued <= issued',
         \A p \in Pairs : p <= issued => home'[p] = home[p]
  PROVE  /\ Grows /\ KnownOK' /\ Entries \subseteq Entries'
         /\ \A p \in Pairs : p <= issued /\ Unsaved(p) => Unsaved(p)'
         /\ SignInIntact => SignInIntact'
<1>1. /\ issued \in Nat /\ drawn \in Nat /\ row.pair \in Pairs \cup {0} /\ row.gen \in Nat
      /\ row.pair \in Nat /\ 0 \notin spent /\ spent \subseteq Pairs
  BY InvNumbers
<1>2. drawn' \in Nat /\ row'.gen \in Nat /\ row'.pair \in {0, row.pair}
  BY BlankRow, Numbers DEF RowTypes, RowQuiet, Row, Gens
<1>3. KnownOK
  BY DEF Inv
<1>4. row'.gen <= drawn'
  BY <1>1, <1>2, <1>3, BlankRow DEF KnownOK, RowQuiet
<1>5. KnownOK'
  <2>1. row'.pair <= issued'
    BY <1>1, <1>2, <1>3 DEF KnownOK
  <2>2. \A p \in spent : p <= issued'
    BY <1>1, <1>3, Numbers DEF KnownOK
  <2> QED BY <1>4, <2>1, <2>2 DEF KnownOK
<1>6. ASSUME NEW g \in Gens, NEW d \in Dests, Agree(g, d) PROVE Agree(g, d)'
  <2>1. g \in Nat
    BY Numbers
  <2>2. g <= drawn'
    BY <1>1, <1>2, <1>6, <2>1 DEF Agree, RowQuiet
  <2>3. exists' => row' # Blank
    BY DEF exists, Blank
  <2>4. exists' /\ g = row'.gen => d = row'.dest
    BY <1>1, <1>2, <1>6, <2>1, <2>3 DEF Agree, RowQuiet
  <2> QED BY <2>2, <2>4 DEF Agree
<1>7. \A p \in Pairs : Replaced(p) => Replaced(p)'
  BY <1>1, <1>2, Numbers DEF Replaced
<1>8. \A p \in Pairs : p <= issued /\ Unsaved(p) => Unsaved(p)'
  BY <1>1, <1>2, Numbers DEF Unsaved
<1>9. Grows
  BY <1>6, <1>7 DEF Grows
<1>10. Entries \subseteq Entries'
  BY <1>6 DEF Entries, OauthSession
<1>11. SignInIntact => SignInIntact'
  <2>1. exists' => row' # Blank
    BY DEF exists, Blank
  <2> QED BY <1>1, <1>2, <1>3, <2>1 DEF SignInIntact, RowQuiet, KnownOK
<1> QED BY <1>5, <1>8, <1>9, <1>10, <1>11

\* Renewals that do not move keep what they know.
LEMMA QuietTasks ==
  ASSUME Inv, RowTypes', RowQuiet, UNCHANGED taskVars, spent' = spent, lost' = lost,
         issued' \in Nat, Grows, \A p \in Pairs : p <= issued /\ Unsaved(p) => Unsaved(p)'
  PROVE  /\ TaskTypes' /\ RowAsk'
         /\ \A t \in Tasks : TaskOf(t)' /\ RenewedOf(t)' /\ AskOf(t)'
<1>1. /\ issued \in Nat /\ row.pair \in Pairs \cup {0} /\ 0 \notin spent /\ spent \subseteq Pairs
  BY InvNumbers
<1>2. TaskTypes
  BY TypeParts DEF Inv
<1>3. TaskTypes' /\ UNCHANGED << pending, task, basis, got, outcome >>
  BY <1>2, SameTypes DEF taskVars
<1>4. row'.pair \in {0, row.pair}
  BY BlankRow DEF RowQuiet
<1>5. RowAsk'
  BY <1>1, <1>3, <1>4 DEF Inv, RowAsk
<1>6. ASSUME NEW t \in Tasks PROVE TaskOf(t)' /\ RenewedOf(t)' /\ AskOf(t)'
  <2>1. TaskOf(t) /\ RenewedOf(t) /\ AskOf(t)
    BY DEF Inv
  <2>2. AskOf(t)'
    BY <1>3, <2>1 DEF AskOf
  <2>3. RenewedOf(t)'
    BY <1>1, <1>3, <2>1 DEF RenewedOf, Grows, Replaced
  <2>4. basis[t].pair \in Nat
    BY <1>2, BlankRow, Numbers DEF TaskTypes, Row
  <2>5. basis[t].pair <= issued'
    BY <1>1, <2>1, <2>4 DEF TaskOf, Grows
  <2>6. task[t] = "saving" =>
          Unsaved(got[t])' /\ home'[got[t]] = home[got[t]]
    BY <1>3, <2>1 DEF TaskOf, Unsaved, Grows
  <2>7. TaskOf(t)'
    BY <1>3, <2>1, <2>5, <2>6 DEF TaskOf
  <2> QED BY <2>2, <2>3, <2>7
<1> QED BY <1>3, <1>5, <1>6

\* A sign-in that does not move keeps what it knows.
LEMMA FlowStays ==
  ASSUME Inv, Grows, NEW f \in Flows, FlowRests(f),
         flow[f] = "exchanged" =>
           /\ Unsaved(bought[f])'
           /\ \A t \in Tasks : /\ task'[t] = "saving" => got'[t] # bought[f]
                               /\ task'[t] = "asking" => basis'[t].pair # bought[f]
           /\ \A g \in Flows \ {f} : flow'[g] = "exchanged" => bought'[g] # bought[f]
  PROVE  FlowOf(f)'
<1>1. FlowOf(f)
  BY DEF Inv
<1>2. flow[f] # "idle" => Agree(copy[f].gen, copy[f].dest)'
  <2>1. flow[f] # "idle" => copy[f].gen \in Gens /\ copy[f].dest \in Dests
    BY <1>1 DEF FlowOf, Row
  <2>2. ASSUME flow[f] # "idle"
        PROVE  \E g \in Gens, d \in Dests : g = copy[f].gen /\ d = copy[f].dest /\ Agree(g, d)'
    BY <1>1, <2>1, <2>2 DEF FlowOf, Grows
  <2> QED BY <2>2 DEF FlowRests, Agree
<1>3. flow[f] = "exchanged" => home'[bought[f]] = entry[f]
  BY <1>1 DEF FlowOf, Unsaved, Grows
<1> QED BY <1>1, <1>2, <1>3 DEF FlowOf, FlowRests, Unsaved, Agree

\* So does a caller.
LEMMA CallerStays ==
  ASSUME Inv, Grows, issued' \in Nat, NEW c \in Callers, CallerRests(c)
  PROVE  CallerOf(c)' /\ (HomeOf(c) => HomeOf(c)')
<1>1. CallerOf(c) /\ issued \in Nat /\ spent \subseteq Pairs
  BY InvNumbers DEF Inv
<1>2. mine[c].pair \in Pairs \cup {0} /\ mine[c].pair \in Nat /\ left[c] \in Pairs \cup {0}
  <2>1. CallerTypes
    BY TypeParts DEF Inv
  <2>2. mine[c] \in Target \cup {NoTarget} /\ left[c] \in Pairs \cup {0}
    BY <2>1 DEF CallerTypes
  <2>3. mine[c].pair \in Pairs \cup {0}
    BY <2>2 DEF Target, NoTarget
  <2> QED BY <2>2, <2>3, Numbers
<1>3. left[c] # 0 => Replaced(left[c])'
  <2>1. ASSUME left[c] # 0 PROVE \E p \in Pairs : p = left[c] /\ Replaced(p)'
    BY <1>1, <1>2, <2>1 DEF CallerOf, Grows
  <2> QED BY <2>1 DEF CallerRests, Replaced
<1>4. mine[c].pair <= issued'
  BY <1>1, <1>2 DEF CallerOf, Grows
<1>5. CallerOf(c)'
  BY <1>1, <1>3, <1>4 DEF CallerOf, CallerRests, Replaced
<1>6. HomeOf(c) => HomeOf(c)'
  BY <1>1, <1>2 DEF HomeOf, CallerOf, CallerRests, Grows
<1> QED BY <1>5, <1>6

\* A step that issues nothing, saves nothing and moves no renewal: whoever
\* rests keeps what it knows.
LEMMA QuietStep ==
  ASSUME Inv, RowTypes', RowQuiet, UNCHANGED << provider, taskVars >>,
         \A g \in Flows : FlowRests(g) \/ flow'[g] # "exchanged"
  PROVE  /\ ProviderTypes' /\ TaskTypes' /\ KnownOK' /\ RowAsk'
         /\ \A t \in Tasks : TaskOf(t)' /\ RenewedOf(t)' /\ AskOf(t)'
         /\ Grows /\ issued' \in Nat
         /\ Entries \subseteq Entries'
         /\ SignInIntact => SignInIntact'
         /\ \A f \in Flows : FlowRests(f) => FlowOf(f)'
         /\ \A c \in Callers : CallerRests(c) => CallerOf(c)' /\ (HomeOf(c) => HomeOf(c)')
<1>1. /\ issued' = issued /\ home' = home /\ spent' = spent /\ lost' = lost
      /\ issued \in Nat /\ ProviderTypes /\ UNCHANGED taskVars /\ UNCHANGED provider
  BY InvNumbers, TypeParts DEF Inv, provider
<1>2. /\ Grows /\ KnownOK' /\ Entries \subseteq Entries' /\ (SignInIntact => SignInIntact')
      /\ \A p \in Pairs : p <= issued /\ Unsaved(p) => Unsaved(p)'
  BY <1>1, QuietRow
<1>3. TaskTypes' /\ RowAsk' /\ \A t \in Tasks : TaskOf(t)' /\ RenewedOf(t)' /\ AskOf(t)'
  BY <1>1, <1>2, QuietTasks
<1>4. ASSUME NEW f \in Flows, FlowRests(f) PROVE FlowOf(f)'
  <2>1. FlowOf(f)
    BY DEF Inv
  <2>2. UNCHANGED << task, basis, got >>
    BY <1>1 DEF taskVars
  <2>3. flow[f] = "exchanged" => Unsaved(bought[f])'
    BY <1>2, <1>4, <2>1 DEF FlowOf, FlowRests, Unsaved
  <2> QED BY <1>2, <1>4, <2>1, <2>2, <2>3, FlowStays DEF FlowOf, FlowRests
<1>5. ASSUME NEW c \in Callers, CallerRests(c) PROVE CallerOf(c)' /\ (HomeOf(c) => HomeOf(c)')
  BY <1>1, <1>2, <1>5, CallerStays
<1>6. ProviderTypes'
  BY <1>1, SameTypes
<1> QED BY <1>1, <1>2, <1>3, <1>4, <1>5, <1>6

\* The parts make the invariant.
LEMMA InvParts ==
  ASSUME RowTypes', ProviderTypes', TaskTypes', CallerTypes', FlowTypes', EditTypes',
         session' \in Seq(Entries'), KnownOK', RowAsk',
         \A t \in Tasks : TaskOf(t)' /\ RenewedOf(t)' /\ AskOf(t)',
         \A f \in Flows : FlowOf(f)',
         \A c \in Callers : CallerOf(c)' /\ (DbFails \/ HomeOf(c)'),
         DbFails \/ SignInIntact'
  PROVE  Inv'
<1>1. TypeOK'
  BY TypePartsNext
<1>2. DbFails \/ (SignInIntact' /\ TokensStayHome')
  BY Zenon DEF TokensStayHome, HomeOf
<1> QED BY <1>1, <1>2, Zenon DEF Inv

\* What the invariant says of one caller and of the row.
LEMMA InvHome ==
  ASSUME Inv
  PROVE  (DbFails \/ SignInIntact) /\ \A c \in Callers : CallerOf(c) /\ (DbFails \/ HomeOf(c))
BY Zenon DEF Inv, TokensStayHome, HomeOf

\* The row stays as it is.
LEMMA RowStays ==
  ASSUME Inv, UNCHANGED rowVars
  PROVE  RowTypes' /\ RowQuiet
<1>1. RowTypes /\ UNCHANGED << row, drawn >>
  BY TypeParts DEF Inv, rowVars
<1>2. row' = Blank \/ exists
  BY <1>1 DEF exists
<1>3. drawn <= drawn'
  BY <1>1, InvNumbers
<1> QED BY <1>1, <1>2, <1>3 DEF RowTypes, RowQuiet

-----------------------------------------------------------------------------
(***************************************************************************)
(* Those who connect.                                                      *)
(***************************************************************************)

\* A step of one caller that changes nothing else.
LEMMA CallerStep ==
  ASSUME Inv, NEW c \in Callers, CallerTypes', CallerOf(c)', DbFails \/ HomeOf(c)',
         \A d \in Callers \ {c} : CallerRests(d),
         UNCHANGED << rowVars, provider, taskVars, flowVars, editVars >>
  PROVE  Inv'
<1>1. RowTypes' /\ RowQuiet
  BY RowStays
<1>2. FlowTypes' /\ EditTypes' /\ \A f \in Flows : FlowRests(f)
  BY SameTypes, TypeParts DEF Inv, FlowRests, flowVars
<1>3. /\ ProviderTypes' /\ TaskTypes' /\ KnownOK' /\ RowAsk'
      /\ \A t \in Tasks : TaskOf(t)' /\ RenewedOf(t)' /\ AskOf(t)'
      /\ Entries \subseteq Entries' /\ (SignInIntact => SignInIntact')
      /\ \A f \in Flows : FlowOf(f)'
      /\ \A d \in Callers \ {c} : CallerOf(d)' /\ (HomeOf(d) => HomeOf(d)')
  BY <1>1, <1>2, QuietStep
<1>4. session' \in Seq(Entries')
  BY <1>3, SeqGrows DEF Inv, flowVars
<1>5. \A d \in Callers : CallerOf(d)' /\ (DbFails \/ HomeOf(d)')
  BY <1>3, InvHome, Zenon
<1>6. DbFails \/ SignInIntact'
  BY <1>3, InvHome, Zenon
<1> QED BY <1>1, <1>2, <1>3, <1>4, <1>5, <1>6, InvParts

\* The caller gets a copy of the row, whose token belongs where the row leads.
LEMMA CallerCopies ==
  ASSUME Inv, NEW c \in Callers, exists, NEW step \in {"joining", "using"},
         mine' = [mine EXCEPT ![c] = [dest |-> row.dest, pair |-> row.pair]],
         at' = [at EXCEPT ![c] = step], at[c] # "waiting",
         UNCHANGED << rowVars, provider, taskVars, on, left, flowVars, editVars >>,
         step = "joining" => left[c] = 0
  PROVE  Inv'
<1>1. CallerTypes /\ CallerOf(c) /\ row \in Row
  BY InvNumbers, TypeParts DEF Inv
<1>2. [dest |-> row.dest, pair |-> row.pair] \in Target
  BY <1>1 DEF Row, Target
<1>3. CallerTypes'
  BY <1>1, <1>2 DEF CallerTypes
<1>4. /\ mine'[c].pair = row.pair /\ mine'[c].dest = row.dest /\ at'[c] = step
      /\ \A d \in Callers \ {c} : CallerRests(d)
  BY <1>1 DEF CallerTypes, CallerRests
<1>5. /\ left' = left /\ row' = row /\ issued' = issued /\ spent' = spent /\ home' = home
      /\ UNCHANGED << rowVars, provider, taskVars, flowVars, editVars >>
  BY DEF rowVars, provider
<1>6. CallerOf(c)'
  BY <1>1, <1>4, <1>5 DEF CallerOf, Inv, KnownOK, Replaced
<1>7. DbFails \/ HomeOf(c)'
  <2>1. SignInIntact => HomeOf(c)'
    BY <1>4, <1>5 DEF SignInIntact, HomeOf
  <2> QED BY <2>1, InvHome, Zenon
<1> QED BY <1>3, <1>4, <1>5, <1>6, <1>7, CallerStep

\* A caller's call ends.
LEMMA CallerLeaves ==
  ASSUME Inv, NEW c \in Callers, CallerEnds(c),
         UNCHANGED << rowVars, provider, taskVars, flowVars, editVars >>
  PROVE  Inv'
<1>1. /\ CallerTypes' /\ at'[c] = "idle" /\ left'[c] = 0 /\ mine'[c].pair = 0
      /\ \A d \in Callers \ {c} : CallerRests(d)
  BY EndTypes, TypeParts DEF Inv, CallerRests
<1>2. issued' \in Nat
  BY InvNumbers DEF provider
<1>3. CallerOf(c)'
  BY <1>1, <1>2 DEF CallerOf
<1>4. HomeOf(c)'
  BY <1>1 DEF HomeOf
<1> QED BY <1>1, <1>3, <1>4, CallerStep, Zenon

\* `ReadRow`, `ReloadMine`, `Use` and `GiveUp`.
LEMMA CallerInv ==
  ASSUME Inv, NEW c \in Callers, ReadRow(c) \/ ReloadMine(c) \/ Use(c) \/ GiveUp(c)
  PROVE  Inv'
<1>1. CallerOf(c)
  BY DEF Inv
<1>2. CASE ReadRow(c)
  <2>1. PICK step \in {"joining", "using"} : at' = [at EXCEPT ![c] = step]
    BY <1>2 DEF ReadRow
  <2>2. left[c] = 0
    BY <1>1, <1>2 DEF CallerOf, ReadRow
  <2> QED BY <1>2, <2>1, <2>2, CallerCopies DEF ReadRow
<1>3. CASE ReloadMine(c) /\ exists
  BY <1>3, CallerCopies DEF ReloadMine
<1>4. CASE CallerEnds(c) /\ UNCHANGED << rowVars, provider, taskVars, flowVars, editVars >>
  BY <1>4, CallerLeaves
<1> QED BY <1>2, <1>3, <1>4 DEF ReloadMine, Use, GiveUp

-----------------------------------------------------------------------------
(***************************************************************************)
(* The renewals.                                                           *)
(***************************************************************************)

\* A renewal that does not move, and whose pair nobody takes, keeps what it
\* knows.
LEMMA TaskStays ==
  ASSUME Inv, Grows, issued' \in Nat, NEW u \in Tasks, TaskRests(u),
         pending' = u <=> pending = u,
         task[u] = "saving" => Unsaved(got[u])' /\ spent \subseteq spent',
         task[u] = "asking" => spent' = spent /\ lost' = lost
  PROVE  TaskOf(u)' /\ RenewedOf(u)' /\ AskOf(u)'
<1>1. TaskOf(u) /\ RenewedOf(u) /\ AskOf(u) /\ TaskTypes /\ issued \in Nat
  BY InvNumbers, TypeParts DEF Inv
<1>2. basis[u].pair \in Nat /\ basis[u].pair \in Pairs \cup {0}
  BY <1>1, BlankRow, Numbers DEF TaskTypes, Row
<1>3. AskOf(u)'
  BY <1>1 DEF AskOf, TaskRests
<1>4. RenewedOf(u)'
  <2>1. ASSUME Replaced(basis[u].pair)
        PROVE  \E p \in Pairs : p = basis[u].pair /\ Replaced(p)'
    BY <1>2, <2>1, InvNumbers DEF Replaced, Grows
  <2>2. Replaced(basis[u].pair) => Replaced(basis[u].pair)'
    BY <2>1 DEF Replaced, TaskRests
  <2> QED BY <1>1, <2>2 DEF RenewedOf, TaskRests
<1>5. basis[u].pair <= issued'
  BY <1>1, <1>2 DEF TaskOf, Grows
<1>6. task[u] = "saving" => home'[got[u]] = home[got[u]]
  BY <1>1 DEF TaskOf, Unsaved, Grows
<1>7. task[u] = "saving" =>
        /\ Unsaved(got[u])' /\ basis'[u].pair \in spent'
        /\ home'[got'[u]] = [dest |-> basis'[u].dest, gen |-> basis'[u].gen]
  BY <1>1, <1>6 DEF TaskOf, TaskRests
<1>8. TaskOf(u)'
  <2>1. task'[u] \in Live <=> pending' = u
    BY <1>1 DEF TaskOf, TaskRests
  <2>2. task'[u] \in {"asking", "saving"} => basis'[u] \in Row /\ basis'[u].pair # 0
    BY <1>1 DEF TaskOf, TaskRests
  <2>3. task'[u] \in {"idle", "loading", "asking"} => got'[u] = 0
    BY <1>1 DEF TaskOf, TaskRests
  <2>4. basis'[u].pair <= issued' /\ (task'[u] = "saving" <=> task[u] = "saving")
    BY <1>5 DEF TaskRests
  <2> QED BY <1>7, <2>1, <2>2, <2>3, <2>4 DEF TaskOf
<1> QED BY <1>3, <1>4, <1>8

\* There is one renewal under way at most.
LEMMA OneTask ==
  ASSUME Inv, NEW t \in Tasks, task[t] \in Live
  PROVE  pending = t /\ \A u \in Tasks \ {t} : task[u] \notin Live
<1>1. \A u \in Tasks : TaskOf(u)
  BY DEF Inv
<1> QED BY <1>1 DEF TaskOf

\* What is left to show of a step of the renewal under way.
LEMMA TaskStep ==
  ASSUME Inv, NEW t \in Tasks, task[t] \in Live, Grows, issued' \in Nat,
         RowTypes', ProviderTypes', TaskTypes', KnownOK', RowAsk',
         \A u \in Tasks \ {t} : TaskRests(u), pending' \in {pending, None},
         TaskOf(t)', RenewedOf(t)', AskOf(t)', DbFails \/ SignInIntact',
         Entries \subseteq Entries',
         \A f \in Flows : flow[f] = "exchanged" =>
           /\ Unsaved(bought[f])'
           /\ task'[t] = "saving" => got'[t] # bought[f]
           /\ task'[t] = "asking" => basis'[t].pair # bought[f],
         UNCHANGED << callerVars, flowVars, editVars >>
  PROVE  Inv'
<1>1. pending = t /\ \A u \in Tasks \ {t} : task[u] \notin Live
  BY OneTask
<1>2. ASSUME NEW u \in Tasks PROVE TaskOf(u)' /\ RenewedOf(u)' /\ AskOf(u)'
  <2>1. CASE u # t
    <3>1. task[u] # "saving" /\ task[u] # "asking"
      BY <1>1, <2>1 DEF Live
    <3>2. pending' # u /\ pending # u
      BY <1>1, <2>1, UpstreamAssumption
    <3> QED BY <2>1, <3>1, <3>2, TaskStays
  <2> QED BY <2>1
<1>3. CallerTypes' /\ FlowTypes' /\ EditTypes'
  BY SameTypes, TypeParts DEF Inv
<1>4. /\ \A c \in Callers : CallerRests(c)
      /\ \A f \in Flows : FlowRests(f)
  BY DEF CallerRests, FlowRests, callerVars, flowVars
<1>5. \A c \in Callers : CallerOf(c)' /\ (DbFails \/ HomeOf(c)')
  BY <1>4, CallerStays, InvHome, Zenon
<1>6. ASSUME NEW f \in Flows PROVE FlowOf(f)'
  <2>1. ASSUME flow[f] = "exchanged", NEW u \in Tasks \ {t}
        PROVE  task'[u] # "saving" /\ task'[u] # "asking"
    BY <1>1, <2>1 DEF Live, TaskRests
  <2>2. FlowOf(f)
    BY DEF Inv
  <2> QED BY <1>4, <2>1, <2>2, FlowStays DEF FlowOf, FlowRests
<1>7. session' \in Seq(Entries')
  BY SeqGrows DEF Inv, flowVars
<1> QED BY <1>2, <1>3, <1>5, <1>6, <1>7, InvParts

\* Steps that leave the row and the providers alone take nothing back.
LEMMA RowRests ==
  ASSUME Inv, UNCHANGED << rowVars, provider >>
  PROVE  /\ Grows /\ KnownOK' /\ Entries \subseteq Entries' /\ issued' \in Nat
         /\ RowTypes' /\ ProviderTypes'
         /\ \A p \in Pairs : Unsaved(p) => Unsaved(p)'
         /\ SignInIntact => SignInIntact'
<1>1. /\ RowTypes' /\ RowQuiet /\ ProviderTypes'
  BY RowStays, SameTypes, TypeParts DEF Inv
<1>2. /\ issued' = issued /\ home' = home /\ spent' = spent /\ issued \in Nat
  BY InvNumbers DEF provider
<1>3. issued <= issued'
  BY <1>2
<1>4. \A p \in Pairs : p <= issued => home'[p] = home[p]
  BY <1>2
<1>5. /\ Grows /\ KnownOK' /\ Entries \subseteq Entries'
      /\ \A p \in Pairs : p <= issued /\ Unsaved(p) => Unsaved(p)'
      /\ SignInIntact => SignInIntact'
  BY <1>1, <1>2, <1>3, <1>4, QuietRow
<1> QED BY <1>1, <1>2, <1>5 DEF Unsaved

\* `Reload`: no other renewal is about to save what the row holds.
LEMMA ReloadInv ==
  ASSUME Inv, NEW t \in Tasks, Reload(t)
  PROVE  Inv'
<1>1. /\ task[t] \in Live /\ TaskTypes /\ TaskOf(t) /\ task[t] = "loading"
      /\ UNCHANGED << rowVars, provider >> /\ UNCHANGED << row, spent, lost, issued, home >>
      /\ UNCHANGED << got, pending >>
      /\ UNCHANGED << callerVars, flowVars, editVars >>
  BY TypeParts DEF Reload, Live, Inv, rowVars, provider
<1>2. /\ Grows /\ KnownOK' /\ Entries \subseteq Entries' /\ issued' \in Nat
      /\ RowTypes' /\ ProviderTypes'
      /\ \A p \in Pairs : Unsaved(p) => Unsaved(p)'
  BY <1>1, RowRests
<1>3. DbFails \/ SignInIntact'
  BY <1>1, RowRests, InvHome, Zenon
<1>4. pending = t /\ \A u \in Tasks \ {t} : task[u] \notin Live
  BY <1>1, OneTask
<1>5. row.pair \in spent => row.pair \in lost
  BY <1>1, <1>4 DEF Inv, RowAsk, Live
<1>6. RowAsk'
  BY <1>1, <1>5 DEF RowAsk
<1>7. \A f \in Flows : flow[f] = "exchanged" => Unsaved(bought[f]) /\ bought' = bought
  BY <1>1 DEF Inv, FlowOf, flowVars
<1>8. \A f \in Flows : flow[f] = "exchanged" => Unsaved(bought[f])'
  BY <1>2, <1>7 DEF Unsaved
<1>9. got[t] = 0
  BY <1>1 DEF TaskOf
<1>10. CASE exists /\ NeedsRenewal(row)
  <2>1. /\ row \in Row /\ row.pair # 0 /\ row.pair \in Nat
    BY <1>10, InvNumbers DEF NeedsRenewal
  <2>2. oauth_basis \in Row /\ oauth_basis.pair = row.pair
    BY <2>1 DEF oauth_basis, Row
  <2>3. /\ basis' = [basis EXCEPT ![t] = oauth_basis]
        /\ task' = [task EXCEPT ![t] = "asking"]
        /\ UNCHANGED outcome
    BY <1>10 DEF Reload
  <2>4. TaskTypes'
    BY <1>1, <2>2, <2>3 DEF TaskTypes
  <2>5. /\ task'[t] = "asking" /\ basis'[t] \in Row /\ basis'[t].pair = row.pair /\ got'[t] = 0
        /\ \A u \in Tasks \ {t} : TaskRests(u)
    BY <1>1, <1>9, <2>2, <2>3 DEF TaskTypes, TaskRests
  <2>6. TaskOf(t)'
    BY <1>1, <1>4, <2>1, <2>5 DEF TaskOf, Live, Inv, KnownOK
  <2>7. RenewedOf(t)' /\ AskOf(t)'
    BY <1>1, <1>5, <2>5 DEF RenewedOf, AskOf
  <2>8. \A f \in Flows : flow[f] = "exchanged" => basis'[t].pair # bought[f]
    BY <1>7, <2>5 DEF Unsaved
  <2> QED BY <1>1, <1>2, <1>3, <1>6, <1>8, <2>4, <2>5, <2>6, <2>7, <2>8, TaskStep
<1>11. CASE ~ (exists /\ NeedsRenewal(row))
  <2>1. End(t, exists) /\ UNCHANGED basis
    BY <1>11 DEF Reload
  <2>2. TaskTypes'
    BY <1>1, <2>1 DEF TaskTypes, End, exists
  <2>3. /\ task'[t] = "ended" /\ basis'[t] = basis[t] /\ got'[t] = 0
        /\ \A u \in Tasks \ {t} : TaskRests(u)
    BY <1>1, <1>9, <2>1 DEF TaskTypes, TaskRests, End
  <2>4. TaskOf(t)'
    BY <1>1, <1>4, <2>3 DEF TaskOf, Live
  <2>5. RenewedOf(t)' /\ AskOf(t)'
    BY <2>3 DEF RenewedOf, AskOf
  <2> QED BY <1>1, <1>2, <1>3, <1>6, <1>8, <2>2, <2>3, <2>4, <2>5, TaskStep
<1> QED BY <1>10, <1>11

\* `AskProvider`: the provider answered, and its answer arrives.
LEMMA RenewalGranted ==
  ASSUME Inv, NEW t \in Tasks, task[t] = "asking", basis[t].pair \notin spent,
         Issue([dest |-> basis[t].dest, gen |-> basis[t].gen]),
         spent' = spent \cup {basis[t].pair},
         got' = [got EXCEPT ![t] = issued + 1],
         task' = [task EXCEPT ![t] = "saving"],
         UNCHANGED << lost, outcome, rowVars, pending, basis, callerVars, flowVars, editVars >>
  PROVE  Inv'
<1> DEFINE p == basis[t].pair
<1>1. /\ task[t] \in Live /\ TaskTypes /\ ProviderTypes /\ TaskOf(t)
      /\ UNCHANGED << row, drawn, basis, pending, lost >>
  BY TypeParts DEF Live, Inv, rowVars
<1>2. pending = t /\ \A u \in Tasks \ {t} : task[u] \notin Live
  BY <1>1, OneTask
<1>3. /\ basis[t] \in Row /\ basis[t].pair # 0 /\ p <= issued /\ p \in Pairs /\ p \in Nat
  BY <1>1, Numbers DEF TaskOf, Row
<1>4. /\ issued \in Nat /\ row.pair \in Nat /\ row.pair \in Pairs \cup {0}
      /\ row.gen \in Nat /\ spent \subseteq Pairs
  BY InvNumbers
<1>5. /\ issued' = issued + 1 /\ issued' \in Nat /\ issued' \in Pairs /\ issued' <= MaxPairs
      /\ home' = [home EXCEPT ![issued'] = [dest |-> basis[t].dest, gen |-> basis[t].gen]]
  BY <1>4, UpstreamAssumption DEF Issue, Pairs
<1>6. [dest |-> basis[t].dest, gen |-> basis[t].gen] \in Origin
  BY <1>3 DEF Row, Origin
<1>7. ProviderTypes'
  <2>1. home' \in [Pairs -> Origin \cup {NoOrigin}]
    BY <1>1, <1>5, <1>6 DEF ProviderTypes
  <2>2. issued' \in 0..MaxPairs
    BY <1>5, UpstreamAssumption
  <2>3. spent' \subseteq Pairs /\ lost' \subseteq Pairs
    BY <1>1, <1>3 DEF ProviderTypes
  <2> QED BY <2>1, <2>2, <2>3 DEF ProviderTypes
<1>8. TaskTypes'
  BY <1>1, <1>5 DEF TaskTypes
<1>9. /\ task'[t] = "saving" /\ got'[t] = issued + 1 /\ basis'[t] = basis[t]
      /\ \A u \in Tasks \ {t} : TaskRests(u)
  BY <1>1 DEF TaskTypes, TaskRests
<1>10. KnownOK
  BY DEF Inv
<1>11. RowTypes'
  BY SameTypes, TypeParts DEF Inv
<1>12. KnownOK'
  <2>1. row'.pair <= issued' /\ row'.gen <= drawn'
    BY <1>1, <1>4, <1>5, <1>10 DEF KnownOK
  <2>2. ASSUME NEW q \in spent' PROVE q <= issued'
    <3>1. q \in Nat /\ q <= issued
      BY <1>3, <1>4, <1>10, Numbers DEF KnownOK
    <3> QED BY <1>4, <1>5, <3>1
  <2> QED BY <2>1, <2>2 DEF KnownOK
<1>13. \A q \in Pairs : q <= issued => home'[q] = home[q]
  BY <1>1, <1>4, <1>5, Numbers DEF ProviderTypes
<1>14. Grows
  <2>1. \A q \in Pairs : Replaced(q) => Replaced(q)'
    BY <1>1 DEF Replaced
  <2>2. \A g \in Gens, d \in Dests : Agree(g, d) => Agree(g, d)'
    BY <1>1 DEF Agree, exists
  <2> QED BY <1>4, <1>5, <1>13, <2>1, <2>2 DEF Grows
<1>15. Entries \subseteq Entries'
  BY <1>1 DEF Entries, Agree, exists
<1>16. RowAsk'
  <2>1. CASE row.pair = p
    BY <1>1, <1>9, <2>1 DEF RowAsk
  <2>2. CASE row.pair # p
    BY <1>1, <1>2, <2>2 DEF RowAsk, Inv, Live
  <2> QED BY <2>1, <2>2
<1>17. issued + 1 \notin spent /\ issued + 1 # row.pair /\ issued + 1 # p
  BY <1>3, <1>4, <1>10, Numbers DEF KnownOK
<1>18. TaskOf(t)'
  <2>1. home'[issued + 1] = [dest |-> basis[t].dest, gen |-> basis[t].gen]
    BY <1>1, <1>5 DEF ProviderTypes
  <2>2. got'[t] \in Pairs /\ got'[t] <= issued' /\ got'[t] \notin spent' /\ got'[t] # row'.pair
    BY <1>1, <1>4, <1>5, <1>9, <1>17
  <2>3. Unsaved(got[t])'
    BY <2>2 DEF Unsaved
  <2>4. basis[t].pair <= issued'
    BY <1>3, <1>4, <1>5
  <2> QED BY <1>1, <1>2, <1>3, <1>9, <2>1, <2>3, <2>4 DEF TaskOf, Live
<1>19. RenewedOf(t)' /\ AskOf(t)'
  BY <1>9 DEF RenewedOf, AskOf
<1>20. DbFails \/ SignInIntact'
  <2>1. SignInIntact => SignInIntact'
    BY <1>1, <1>4, <1>10, <1>13 DEF SignInIntact, exists, KnownOK
  <2> QED BY <2>1, InvHome, Zenon
<1>21. ASSUME NEW f \in Flows, flow[f] = "exchanged"
       PROVE  Unsaved(bought[f])' /\ got'[t] # bought[f]
  <2>1. Unsaved(bought[f]) /\ bought[f] # p /\ bought'[f] = bought[f]
    BY <1>21 DEF Inv, FlowOf, flowVars
  <2>2. bought[f] \in Nat /\ bought[f] <= issued
    BY <2>1, Numbers DEF Unsaved
  <2>3. bought[f] <= issued' /\ bought[f] # issued + 1
    BY <1>4, <1>5, <2>2
  <2> QED BY <1>1, <1>9, <2>1, <2>3 DEF Unsaved
<1>22. task'[t] # "asking"
  BY <1>9
<1>23. pending' \in {pending, None} /\ UNCHANGED << callerVars, flowVars, editVars >>
  BY <1>1
<1> QED BY <1>1, <1>5, <1>7, <1>8, <1>9, <1>11, <1>12, <1>14, <1>15, <1>16, <1>18, <1>19, <1>20,
           <1>21, <1>22, <1>23, TaskStep

\* A renewal that ends without a pair: the token it traded, if it did, is lost.
LEMMA RenewalFails ==
  ASSUME Inv, NEW t \in Tasks, task[t] \in {"asking", "saving"}, End(t, FALSE),
         spent' \in {spent, spent \cup {basis[t].pair}},
         lost' \in {lost, lost \cup {basis[t].pair}},
         \/ spent' = spent /\ task[t] = "asking"
         \/ basis[t].pair \in lost',
         \A f \in Flows : flow[f] = "exchanged" => bought[f] \notin spent' \ spent,
         UNCHANGED << rowVars, issued, home, pending, basis, got, callerVars, flowVars, editVars >>
  PROVE  Inv'
<1> DEFINE p == basis[t].pair
<1>1. /\ task[t] \in Live /\ TaskTypes /\ ProviderTypes /\ TaskOf(t) /\ AskOf(t)
      /\ UNCHANGED << row, drawn, basis, pending, got, issued, home >>
  BY TypeParts DEF Live, Inv, rowVars
<1>2. pending = t /\ \A u \in Tasks \ {t} : task[u] \notin Live
  BY <1>1, OneTask
<1>3. /\ basis[t] \in Row /\ basis[t].pair # 0 /\ p <= issued /\ p \in Pairs /\ p \in Nat
  BY <1>1, Numbers DEF TaskOf, Row
<1>4. /\ issued \in Nat /\ issued' \in Nat /\ row.pair \in Nat /\ row.pair \in Pairs \cup {0}
      /\ spent \subseteq Pairs
  BY <1>1, InvNumbers
<1>5. ProviderTypes'
  BY <1>1, <1>3 DEF ProviderTypes
<1>6. TaskTypes'
  BY <1>1 DEF TaskTypes, End
<1>7. /\ task'[t] = "ended" /\ outcome'[t] = FALSE /\ basis'[t] = basis[t]
      /\ \A u \in Tasks \ {t} : TaskRests(u)
  BY <1>1 DEF TaskTypes, TaskRests, End
<1>8. RowTypes'
  BY SameTypes, TypeParts DEF Inv
<1>9. KnownOK'
  BY <1>1, <1>3, <1>4 DEF Inv, KnownOK
<1>10. Grows
  <2>1. \A q \in Pairs : Replaced(q) => Replaced(q)'
    BY <1>1 DEF Replaced
  <2>2. \A g \in Gens, d \in Dests : Agree(g, d) => Agree(g, d)'
    BY <1>1 DEF Agree, exists
  <2> QED BY <1>1, <1>4, <2>1, <2>2 DEF Grows
<1>11. Entries \subseteq Entries'
  BY <1>1 DEF Entries, Agree, exists
<1>12. RowAsk'
  <2>1. ASSUME row.pair \in spent', row.pair \notin lost' PROVE FALSE
    <3>1. CASE row.pair = p
      BY <1>1, <2>1, <3>1 DEF AskOf
    <3>2. CASE row.pair # p
      BY <1>1, <1>2, <2>1, <3>2 DEF RowAsk, Inv, Live
    <3> QED BY <3>1, <3>2
  <2> QED BY <1>1, <2>1 DEF RowAsk
<1>13. TaskOf(t)' /\ RenewedOf(t)' /\ AskOf(t)'
  BY <1>1, <1>2, <1>3, <1>7 DEF TaskOf, RenewedOf, AskOf, Live
<1>14. DbFails \/ SignInIntact'
  <2>1. SignInIntact => SignInIntact'
    BY <1>1 DEF SignInIntact, exists
  <2> QED BY <2>1, InvHome, Zenon
<1>15. ASSUME NEW f \in Flows, flow[f] = "exchanged" PROVE Unsaved(bought[f])'
  BY <1>1, <1>15 DEF Inv, FlowOf, flowVars, Unsaved
<1>16. task'[t] # "asking" /\ task'[t] # "saving"
  BY <1>7
<1>17. pending' \in {pending, None} /\ UNCHANGED << callerVars, flowVars, editVars >>
  BY <1>1
<1> QED BY <1>1, <1>4, <1>5, <1>6, <1>7, <1>8, <1>9, <1>10, <1>11, <1>12, <1>13, <1>14,
           <1>15, <1>16, <1>17, TaskStep

\* `AskProvider`.
LEMMA AskProviderInv ==
  ASSUME Inv, NEW t \in Tasks, AskProvider(t)
  PROVE  Inv'
<1> DEFINE p == basis[t].pair
<1>1. task[t] = "asking" /\ UNCHANGED << rowVars, pending, basis, callerVars, flowVars, editVars >>
  BY DEF AskProvider
<1>2. \A f \in Flows : flow[f] = "exchanged" => bought[f] # p
  BY <1>1 DEF Inv, FlowOf
<1>3. CASE /\ p \notin spent
           /\ Issue([dest |-> basis[t].dest, gen |-> basis[t].gen])
           /\ spent' = spent \cup {p}
           /\ got' = [got EXCEPT ![t] = issued + 1]
           /\ task' = [task EXCEPT ![t] = "saving"]
           /\ UNCHANGED << lost, outcome >>
  BY <1>1, <1>3, RenewalGranted
<1>4. CASE /\ p \notin spent
           /\ spent' = spent \cup {p} /\ lost' = lost \cup {p}
           /\ End(t, FALSE)
           /\ UNCHANGED << issued, home, got >>
  BY <1>1, <1>2, <1>4, RenewalFails
<1>5. CASE End(t, FALSE) /\ UNCHANGED << provider, got >>
  BY <1>1, <1>2, <1>5, RenewalFails DEF provider
<1> QED BY <1>3, <1>4, <1>5 DEF AskProvider

\* A pair that nobody has is saved: the token it replaces stays replaced.
LEMMA RowSaved ==
  ASSUME Inv, exists, NEW p \in Pairs, Unsaved(p), row' = WithTokens(row, p),
         UNCHANGED << drawn, issued, home, spent >>
  PROVE  /\ RowTypes' /\ KnownOK' /\ Grows /\ Entries \subseteq Entries'
         /\ row'.pair = p /\ row'.dest = row.dest /\ row'.gen = row.gen /\ exists'
         /\ \A q \in Pairs \ {p} : Unsaved(q) => Unsaved(q)'
         /\ \A q \in Pairs : q \in spent => Replaced(q)'
<1>1. /\ row \in Row /\ issued \in Nat /\ RowTypes /\ KnownOK /\ spent \subseteq Pairs
  BY InvNumbers, TypeParts DEF Inv
<1>2. /\ row' \in Row /\ row'.pair = p /\ row'.dest = row.dest /\ row'.gen = row.gen
  BY <1>1, WithTokensRow
<1>3. exists'
  BY <1>2, BlankRow DEF exists, Blank
<1>4. RowTypes' /\ KnownOK'
  BY <1>1, <1>2 DEF RowTypes, KnownOK, Unsaved
<1>5. \A q \in Pairs : q \in spent => Replaced(q)'
  BY <1>2 DEF Replaced, Unsaved
<1>6. Grows
  <2>1. \A q \in Pairs : Replaced(q) => Replaced(q)'
    BY <1>5 DEF Replaced
  <2>2. \A g \in Gens, d \in Dests : Agree(g, d) => Agree(g, d)'
    BY <1>2, <1>3 DEF Agree
  <2> QED BY <1>1, <2>1, <2>2 DEF Grows
<1>7. Entries \subseteq Entries'
  BY <1>2, <1>3 DEF Entries, Agree
<1>8. \A q \in Pairs \ {p} : Unsaved(q) => Unsaved(q)'
  BY <1>2 DEF Unsaved
<1> QED BY <1>2, <1>3, <1>4, <1>5, <1>6, <1>7, <1>8

\* `SaveRenewed`: a row that is still the basis gets the pair, which was issued
\* for its sign-in.
LEMMA SaveRenewedInv ==
  ASSUME Inv, NEW t \in Tasks, SaveRenewed(t)
  PROVE  Inv'
<1>1. /\ task[t] = "saving" /\ UNCHANGED << drawn, issued, home, spent, pending, basis, got >>
      /\ UNCHANGED << callerVars, flowVars, editVars >>
  BY DEF SaveRenewed
<1>2. /\ task[t] \in Live /\ TaskTypes /\ ProviderTypes /\ TaskOf(t)
  BY <1>1, TypeParts DEF Live, Inv
<1>3. CASE /\ ~ BasisHolds(basis[t]) \/ DbFails
           /\ lost' = lost \cup {basis[t].pair}
           /\ End(t, FALSE)
           /\ UNCHANGED row
  <2>1. UNCHANGED rowVars
    BY <1>1, <1>3 DEF rowVars
  <2> QED BY <1>1, <1>3, <2>1, RenewalFails
<1>4. CASE /\ BasisHolds(basis[t])
           /\ row' = WithTokens(row, got[t])
           /\ End(t, TRUE)
           /\ UNCHANGED lost
  <2>1. PICK p \in Pairs : p = got[t] /\ Unsaved(p)
    BY <1>1, <1>2 DEF TaskOf, Unsaved
  <2>2. exists /\ oauth_basis = basis[t]
    BY <1>4 DEF BasisHolds
  <2>3. /\ RowTypes' /\ KnownOK' /\ Grows /\ Entries \subseteq Entries'
        /\ row'.pair = p /\ row'.dest = row.dest /\ row'.gen = row.gen /\ exists'
        /\ \A q \in Pairs \ {p} : Unsaved(q) => Unsaved(q)'
        /\ \A q \in Pairs : q \in spent => Replaced(q)'
    BY <1>1, <1>4, <2>1, <2>2, RowSaved
  <2>4. ProviderTypes'
    BY <1>1, <1>2, <1>4 DEF ProviderTypes
  <2>5. TaskTypes'
    BY <1>1, <1>2, <1>4 DEF TaskTypes, End
  <2>6. /\ task'[t] = "ended" /\ basis'[t] = basis[t] /\ got'[t] = p
        /\ \A u \in Tasks \ {t} : TaskRests(u)
    BY <1>1, <1>2, <1>4, <2>1 DEF TaskTypes, TaskRests, End
  <2>7. RowAsk'
    BY <1>1, <2>1, <2>3 DEF RowAsk, Unsaved
  <2>8. pending' = t
    BY <1>1, <1>2, OneTask
  <2>9. TaskOf(t)'
    BY <1>1, <1>2, <2>6, <2>8 DEF TaskOf, Live
  <2>10. RenewedOf(t)' /\ AskOf(t)'
    <3>1. basis[t].pair \in spent /\ basis[t].pair \in Pairs
      BY <1>1, <1>2, InvNumbers DEF TaskOf
    <3>2. PICK q \in Pairs : q = basis[t].pair /\ Replaced(q)'
      BY <2>3, <3>1
    <3>3. Replaced(basis[t].pair)'
      BY <2>6, <3>2 DEF Replaced
    <3> QED BY <2>6, <3>3 DEF RenewedOf, AskOf
  <2>11. row \in Row
    BY <2>2, InvNumbers
  <2>12. basis[t].dest = row.dest /\ basis[t].gen = row.gen
    BY <2>2, <2>11 DEF oauth_basis, Row
  <2>13. SignInIntact'
    BY <1>1, <1>2, <2>1, <2>3, <2>12 DEF SignInIntact, TaskOf
  <2>14. ASSUME NEW f \in Flows, flow[f] = "exchanged" PROVE Unsaved(bought[f])'
    <3>1. Unsaved(bought[f]) /\ bought[f] # p /\ bought'[f] = bought[f]
      BY <1>1, <2>1, <2>14 DEF Inv, FlowOf, flowVars
    <3> QED BY <2>3, <3>1 DEF Unsaved
  <2>15. task'[t] # "asking" /\ task'[t] # "saving" /\ issued' \in Nat
    BY <1>1, <2>6, InvNumbers
  <2>16. pending' \in {pending, None}
    BY <1>1
  <2> QED BY <1>1, <1>2, <2>3, <2>4, <2>5, <2>6, <2>7, <2>9, <2>10, <2>13, <2>14, <2>15,
             <2>16, TaskStep
<1> QED BY <1>3, <1>4 DEF SaveRenewed

\* `Release`.
LEMMA ReleaseInv ==
  ASSUME Inv, NEW t \in Tasks, Release(t)
  PROVE  Inv'
<1>1. /\ task[t] = "ended" /\ pending' = None /\ task' = [task EXCEPT ![t] = "released"]
      /\ UNCHANGED << rowVars, provider >> /\ UNCHANGED << row, spent, lost, issued, home >>
      /\ UNCHANGED << basis, got, outcome >>
      /\ UNCHANGED << callerVars, flowVars, editVars >>
  BY DEF Release, rowVars, provider
<1>2. task[t] \in Live /\ TaskTypes /\ TaskOf(t) /\ RenewedOf(t)
  BY <1>1, TypeParts DEF Live, Inv
<1>3. /\ Grows /\ KnownOK' /\ Entries \subseteq Entries' /\ issued' \in Nat
      /\ RowTypes' /\ ProviderTypes'
      /\ \A p \in Pairs : Unsaved(p) => Unsaved(p)'
  BY <1>1, RowRests
<1>4. DbFails \/ SignInIntact'
  BY <1>1, RowRests, InvHome, Zenon
<1>5. TaskTypes'
  BY <1>1, <1>2 DEF TaskTypes
<1>6. /\ task'[t] = "released" /\ basis'[t] = basis[t] /\ got'[t] = got[t]
      /\ \A u \in Tasks \ {t} : TaskRests(u)
  BY <1>1, <1>2 DEF TaskTypes, TaskRests
<1>7. RowAsk'
  BY <1>1, <1>6 DEF Inv, RowAsk, TaskRests
<1>8. TaskOf(t)'
  BY <1>1, <1>2, <1>6, UpstreamAssumption DEF TaskOf, Live
<1>9. RenewedOf(t)' /\ AskOf(t)'
  BY <1>1, <1>2, <1>6 DEF RenewedOf, AskOf, Replaced
<1>10. ASSUME NEW f \in Flows, flow[f] = "exchanged" PROVE Unsaved(bought[f])'
  BY <1>1, <1>10 DEF Inv, FlowOf, flowVars, Unsaved
<1>11. task'[t] # "asking" /\ task'[t] # "saving" /\ pending' \in {pending, None}
  BY <1>1, <1>6
<1> QED BY <1>1, <1>2, <1>3, <1>4, <1>5, <1>6, <1>7, <1>8, <1>9, <1>10, <1>11, TaskStep

-----------------------------------------------------------------------------
(***************************************************************************)
(* Callers and renewals together: who joins, who is told, and a restart.   *)
(***************************************************************************)

\* A renewal takes up no work in a step.
TaskIdles(t) ==
  /\ task[t] # "saving" /\ task'[t] \notin {"asking", "saving"}
  /\ TaskOf(t)' /\ RenewedOf(t)' /\ AskOf(t)'

\* Callers and renewals move while the row, the providers and the pages rest.
LEMMA CallsStep ==
  ASSUME Inv, UNCHANGED << rowVars, provider, flowVars, editVars >>, TaskTypes', CallerTypes',
         \A u \in Tasks : TaskIdles(u) \/ (TaskRests(u) /\ (pending' = u <=> pending = u)),
         \A c \in Callers : CallerRests(c) \/ (CallerOf(c)' /\ HomeOf(c)')
  PROVE  Inv'
<1>1. /\ UNCHANGED << row, drawn, issued, home, spent, lost >>
      /\ UNCHANGED << rowVars, provider >>
      /\ UNCHANGED << flow, copy, entry, bought, session >>
  BY DEF rowVars, provider, flowVars
<1>2. /\ Grows /\ KnownOK' /\ Entries \subseteq Entries' /\ issued' \in Nat
      /\ RowTypes' /\ ProviderTypes'
      /\ \A p \in Pairs : Unsaved(p) => Unsaved(p)'
  BY <1>1, RowRests
<1>3. DbFails \/ SignInIntact'
  BY <1>1, RowRests, InvHome, Zenon
<1>4. FlowTypes' /\ EditTypes'
  BY SameTypes, TypeParts DEF Inv
<1>5. session' \in Seq(Entries')
  BY <1>1, <1>2, SeqGrows DEF Inv
<1>6. ASSUME NEW u \in Tasks PROVE TaskOf(u)' /\ RenewedOf(u)' /\ AskOf(u)'
  <2>1. CASE TaskIdles(u)
    BY <2>1 DEF TaskIdles
  <2>2. CASE TaskRests(u) /\ (pending' = u <=> pending = u)
    <3>1. task[u] = "saving" => Unsaved(got[u])'
      BY <1>1, <2>2 DEF Inv, TaskOf, Unsaved, TaskRests
    <3>2. spent' = spent /\ lost' = lost
      BY <1>1
    <3> QED BY <1>2, <2>2, <3>1, <3>2, TaskStays
  <2> QED BY <2>1, <2>2
<1>7. RowAsk'
  BY <1>1 DEF Inv, RowAsk, TaskIdles, TaskRests
<1>8. ASSUME NEW c \in Callers PROVE CallerOf(c)' /\ (DbFails \/ HomeOf(c)')
  BY <1>2, CallerStays, InvHome, Zenon
<1>9. ASSUME NEW f \in Flows PROVE FlowOf(f)'
  <2>1. FlowOf(f) /\ FlowRests(f)
    BY <1>1 DEF Inv, FlowRests
  <2>2. flow[f] = "exchanged" => Unsaved(bought[f])'
    BY <1>1, <2>1 DEF FlowOf, Unsaved
  <2>3. flow[f] = "exchanged" =>
          \A u \in Tasks : /\ task'[u] = "saving" => got'[u] # bought[f]
                           /\ task'[u] = "asking" => basis'[u].pair # bought[f]
    BY <2>1 DEF FlowOf, TaskIdles, TaskRests
  <2> QED BY <1>1, <1>2, <2>1, <2>2, <2>3, FlowStays DEF FlowOf
<1> QED BY <1>2, <1>3, <1>4, <1>5, <1>6, <1>7, <1>8, <1>9, InvParts

\* `pending_refresh`: one renewal at a time.
LEMMA JoinInv ==
  ASSUME Inv, NEW c \in Callers, pending_refresh(c)
  PROVE  Inv'
<1>1. /\ at[c] = "joining" /\ at' = [at EXCEPT ![c] = "waiting"]
      /\ UNCHANGED << basis, got, outcome, mine, left >>
      /\ UNCHANGED << rowVars, provider, flowVars, editVars >>
  BY DEF pending_refresh
<1>2. TaskTypes /\ CallerTypes /\ CallerOf(c) /\ issued \in Nat /\ issued' = issued
  BY InvNumbers, TypeParts DEF Inv, pending_refresh, provider
<1>3. /\ at'[c] = "waiting" /\ mine'[c] = mine[c] /\ left'[c] = 0
      /\ \A d \in Callers \ {c} : CallerRests(d)
  BY <1>1, <1>2 DEF CallerTypes, CallerRests, CallerOf
<1>4. CallerOf(c)' /\ HomeOf(c)'
  BY <1>2, <1>3 DEF CallerOf, HomeOf
<1>5. CASE /\ pending # None
           /\ on' = [on EXCEPT ![c] = pending]
           /\ UNCHANGED << pending, task >>
  <2>1. TaskTypes' /\ \A u \in Tasks : TaskRests(u) /\ (pending' = u <=> pending = u)
    BY <1>1, <1>2, <1>5 DEF TaskTypes, TaskRests
  <2>2. CallerTypes'
    BY <1>1, <1>2, <1>5 DEF CallerTypes, TaskTypes
  <2> QED BY <1>1, <1>3, <1>4, <2>1, <2>2, CallsStep
<1>6. ASSUME MayStart, NEW t \in Tasks, task[t] = "idle", pending' = t,
             task' = [task EXCEPT ![t] = "loading"], on' = [on EXCEPT ![c] = t]
      PROVE  Inv'
  <2>1. TaskTypes'
    BY <1>1, <1>2, <1>6 DEF TaskTypes
  <2>2. CallerTypes'
    BY <1>1, <1>2, <1>6, UpstreamAssumption DEF CallerTypes
  <2>3. /\ task'[t] = "loading" /\ basis'[t] = basis[t] /\ got'[t] = got[t]
        /\ \A u \in Tasks \ {t} : TaskRests(u)
    BY <1>1, <1>2, <1>6 DEF TaskTypes, TaskRests
  <2>4. TaskOf(t)
    BY DEF Inv
  <2>5. TaskIdles(t)
    BY <1>2, <1>6, <2>3, <2>4 DEF TaskIdles, TaskOf, RenewedOf, AskOf, Live
  <2>6. \A u \in Tasks \ {t} : pending' = u <=> pending = u
    BY <1>6, UpstreamAssumption DEF MayStart
  <2> QED BY <1>1, <1>3, <1>4, <2>1, <2>2, <2>3, <2>5, <2>6, CallsStep
<1> QED BY <1>5, <1>6 DEF pending_refresh

\* `Send`: those who waited know which token was replaced.
LEMMA SendInv ==
  ASSUME Inv, NEW t \in Tasks, Send(t)
  PROVE  Inv'
<1> DEFINE W == Waiting(t)
<1>1. /\ task[t] = "released"
      /\ at' = [c \in Callers |->
                  IF c \notin W THEN at[c] ELSE IF outcome[t] THEN "reloading" ELSE "idle"]
      /\ mine' = [c \in Callers |-> IF c \in W /\ ~ outcome[t] THEN NoTarget ELSE mine[c]]
      /\ on' = [c \in Callers |-> IF c \in W THEN None ELSE on[c]]
      /\ left' = [c \in Callers |->
                    IF c \in W /\ outcome[t] /\ got[t] # 0 THEN basis[t].pair ELSE left[c]]
      /\ task' = [task EXCEPT ![t] = "idle"]
      /\ basis' = [basis EXCEPT ![t] = Blank]
      /\ got' = [got EXCEPT ![t] = 0]
      /\ outcome' = [outcome EXCEPT ![t] = FALSE]
      /\ UNCHANGED << rowVars, provider, flowVars, editVars >> /\ UNCHANGED pending
      /\ UNCHANGED << row, spent, issued, home >>
  BY DEF Send, rowVars, provider
<1>2. /\ TaskTypes /\ CallerTypes /\ TaskOf(t) /\ RenewedOf(t) /\ issued \in Nat
  BY InvNumbers, TypeParts DEF Inv
<1>3. W \subseteq Callers /\ \A c \in W : at[c] = "waiting"
  BY DEF Waiting
<1>4. basis[t].pair \in Pairs \cup {0}
  BY <1>2, BlankRow DEF TaskTypes, Row
<1>5. TaskTypes'
  BY <1>1, <1>2 DEF TaskTypes
<1>6. CallerTypes'
  <2>1. PICK ok \in BOOLEAN : ok = outcome[t]
    BY <1>2 DEF TaskTypes
  <2>2. \A c \in Callers : left'[c] \in Pairs \cup {0} /\ mine'[c] \in Target \cup {NoTarget}
    BY <1>1, <1>2, <1>4 DEF CallerTypes
  <2>3. left' \in [Callers -> Pairs \cup {0}] /\ mine' \in [Callers -> Target \cup {NoTarget}]
    BY <1>1, <2>2
  <2>4. /\ at' \in [Callers -> {"idle", "joining", "waiting", "reloading", "using"}]
        /\ on' \in [Callers -> Tasks \cup {None}]
    BY <1>1, <1>2 DEF CallerTypes
  <2>5. \A c \in Callers : at'[c] = "waiting" <=> on'[c] # None
    BY <1>1, <1>2, <1>3 DEF CallerTypes
  <2> QED BY <2>3, <2>4, <2>5 DEF CallerTypes
<1>7. \A u \in Tasks \ {t} : TaskRests(u) /\ (pending' = u <=> pending = u)
  BY <1>1, <1>2 DEF TaskTypes, TaskRests
<1>8. TaskIdles(t)
  <2>1. task'[t] = "idle" /\ basis'[t] = Blank /\ got'[t] = 0
    BY <1>1, <1>2 DEF TaskTypes
  <2>2. pending' # t
    BY <1>1, <1>2 DEF TaskOf, Live
  <2>3. TaskOf(t)'
    BY <1>1, <1>2, <2>1, <2>2, BlankRow DEF TaskOf, Live
  <2> QED BY <1>1, <2>1, <2>3 DEF TaskIdles, RenewedOf, AskOf
<1>9. ASSUME NEW c \in Callers PROVE CallerRests(c) \/ (CallerOf(c)' /\ HomeOf(c)')
  <2>1. CASE c \notin W
    BY <1>1, <1>2, <2>1 DEF CallerRests, CallerTypes
  <2>2. CASE c \in W
    <3>1. CallerOf(c) /\ at[c] = "waiting" /\ left[c] = 0
      BY <1>3, <2>2 DEF Inv, CallerOf
    <3>2. at'[c] \in {"reloading", "idle"} /\ (at'[c] = "idle" => ~ outcome[t])
      BY <1>1, <2>2
    <3>3. mine'[c].pair <= issued'
      BY <1>1, <1>2, <3>1 DEF CallerOf, NoTarget
    <3>4. left'[c] # 0 => at'[c] = "reloading" /\ Replaced(left[c])'
      <4>1. ASSUME left'[c] # 0
            PROVE  outcome[t] /\ got[t] # 0 /\ left'[c] = basis[t].pair
        BY <1>1, <2>2, <3>1, <4>1
      <4> QED BY <1>1, <1>2, <3>2, <4>1 DEF RenewedOf, Replaced
    <3> QED BY <3>2, <3>3, <3>4 DEF CallerOf, HomeOf
  <2> QED BY <2>1, <2>2
<1>10. \A u \in Tasks : TaskIdles(u) \/ (TaskRests(u) /\ (pending' = u <=> pending = u))
  BY <1>7, <1>8
<1> QED BY <1>1, <1>5, <1>6, <1>9, <1>10, CallsStep

-----------------------------------------------------------------------------
(***************************************************************************)
(* The pages and the forms.                                                *)
(***************************************************************************)

\* A step of a page or a form that gives nobody a pair.
LEMMA QuietInv ==
  ASSUME Inv, RowTypes', RowQuiet, UNCHANGED << provider, taskVars, callerVars >>,
         FlowTypes', EditTypes', session' \in Seq(Entries'),
         \A g \in Flows : FlowRests(g) \/ (flow'[g] # "exchanged" /\ FlowOf(g)')
  PROVE  Inv'
<1>1. /\ ProviderTypes' /\ TaskTypes' /\ KnownOK' /\ RowAsk'
      /\ \A t \in Tasks : TaskOf(t)' /\ RenewedOf(t)' /\ AskOf(t)'
      /\ SignInIntact => SignInIntact'
      /\ \A f \in Flows : FlowRests(f) => FlowOf(f)'
      /\ \A c \in Callers : CallerRests(c) => CallerOf(c)' /\ (HomeOf(c) => HomeOf(c)')
  BY QuietStep
<1>2. CallerTypes' /\ \A c \in Callers : CallerRests(c)
  BY SameTypes, TypeParts DEF Inv, CallerRests, callerVars
<1>3. \A c \in Callers : CallerOf(c)' /\ (DbFails \/ HomeOf(c)')
  BY <1>1, <1>2, InvHome, Zenon
<1>4. DbFails \/ SignInIntact'
  BY <1>1, InvHome, Zenon
<1>5. \A f \in Flows : FlowOf(f)'
  BY <1>1, Zenon
<1> QED BY <1>1, <1>2, <1>3, <1>4, <1>5, InvParts

\* The session keeps to sign-ins of the row or older ones.
LEMMA SessionStays ==
  ASSUME Inv, RowTypes', RowQuiet, UNCHANGED << provider, taskVars >>, NEW s \in Seq(Entries)
  PROVE  s \in Seq(Entries')
<1>1. Grows
  <2>1. /\ issued' = issued /\ home' = home /\ spent' = spent /\ issued \in Nat
    BY InvNumbers DEF provider
  <2> QED BY <2>1, QuietRow
<1>2. Entries \subseteq Entries'
  BY <1>1 DEF Grows, Entries, OauthSession
<1> QED BY <1>2, SeqGrows

\* A sign-in request that ends, with a session that is as it should be.
LEMMA FlowLeaves ==
  ASSUME Inv, NEW f \in Flows, FlowEnds(f), RowTypes', RowQuiet,
         UNCHANGED << provider, taskVars, callerVars, editVars >>,
         session' \in Seq(Entries')
  PROVE  Inv'
<1>1. /\ FlowTypes' /\ flow'[f] = "idle" /\ EditTypes'
      /\ \A g \in Flows \ {f} : FlowRests(g)
  BY EndTypes, SameTypes, TypeParts DEF Inv, FlowRests
<1>2. FlowOf(f)'
  BY <1>1 DEF FlowOf
<1> QED BY <1>1, <1>2, QuietInv

\* `BeginStart`: the basis is the row.
LEMMA BeginStartInv ==
  ASSUME Inv, NEW f \in Flows, BeginStart(f)
  PROVE  Inv'
<1>1. /\ flow[f] = "idle" /\ exists
      /\ copy' = [copy EXCEPT ![f] = oauth_basis]
      /\ flow' = [flow EXCEPT ![f] = "starting"]
      /\ UNCHANGED << rowVars, provider, taskVars, callerVars, editVars >>
      /\ UNCHANGED << entry, bought, session, row, drawn >>
  BY DEF BeginStart, rowVars
<1>2. RowTypes' /\ RowQuiet
  BY <1>1, RowStays
<1>3. row \in Row /\ FlowTypes /\ KnownOK
  BY <1>1, InvNumbers, TypeParts DEF Inv
<1>4. oauth_basis \in Row /\ oauth_basis.gen = row.gen /\ oauth_basis.dest = row.dest
  BY <1>3 DEF oauth_basis, Row
<1>5. FlowTypes' /\ EditTypes'
  <2>1. FlowTypes'
    BY <1>1, <1>3, <1>4 DEF FlowTypes
  <2> QED BY <1>1, <2>1, SameTypes, TypeParts DEF Inv
<1>6. /\ flow'[f] = "starting" /\ copy'[f] = oauth_basis
      /\ \A g \in Flows \ {f} : FlowRests(g)
  BY <1>1, <1>3 DEF FlowTypes, FlowRests
<1>7. FlowOf(f)'
  BY <1>1, <1>3, <1>4, <1>6 DEF FlowOf, Agree, KnownOK
<1>8. session' \in Seq(Entries')
  BY <1>1, <1>2, SessionStays DEF Inv
<1> QED BY <1>1, <1>2, <1>5, <1>6, <1>7, <1>8, QuietInv

\* `StartAgain`: the session gets the sign-in of the copy.
LEMMA StartAgainInv ==
  ASSUME Inv, NEW f \in Flows, StartAgain(f)
  PROVE  Inv'
<1>1. /\ flow[f] = "starting" /\ copy[f].client # None
      /\ start_oauth_session(copy[f])
      /\ FlowEnds(f)
      /\ UNCHANGED << rowVars, provider, taskVars, callerVars, editVars >>
  BY DEF StartAgain
<1>2. RowTypes' /\ RowQuiet
  BY <1>1, RowStays
<1>3. copy[f] \in Row /\ Agree(copy[f].gen, copy[f].dest)
  BY <1>1 DEF Inv, FlowOf
<1>4. [dest |-> copy[f].dest, gen |-> copy[f].gen, client |-> copy[f].client] \in Entries
  <2>1. [dest |-> copy[f].dest, gen |-> copy[f].gen, client |-> copy[f].client] \in OauthSession
    BY <1>1, <1>3 DEF Row, OauthSession
  <2> QED BY <1>3, <2>1 DEF Entries
<1>5. session' \in Seq(Entries)
  BY <1>1, <1>4, SessionStarts DEF Inv
<1>6. session' \in Seq(Entries')
  <2>1. PICK s \in Seq(Entries) : s = session'
    BY <1>5
  <2> QED BY <1>1, <1>2, <2>1, SessionStays
<1> QED BY <1>1, <1>2, <1>6, FlowLeaves

\* `SaveStart`: the row saved is quiet, and the session gets its sign-in.
LEMMA SaveStartInv ==
  ASSUME Inv, NEW f \in Flows, NEW r \in Row, SaveStart(f, r), r.client # None,
         drawn' \in Gens, drawn <= drawn', r.gen <= drawn',
         \/ r.pair = row.pair /\ r.dest = row.dest /\ r.gen = row.gen
         \/ r.pair = 0 /\ drawn < r.gen
  PROVE  Inv'
<1>1. FlowEnds(f) /\ UNCHANGED << provider, taskVars, callerVars, editVars >>
  BY DEF SaveStart
<1>2. RowTypes /\ row.pair \in Nat /\ row.gen \in Nat /\ drawn \in Nat
  BY InvNumbers, TypeParts DEF Inv
<1>3. CASE ~ BasisHolds(copy[f])
  <2>1. UNCHANGED << row, session >>
    BY <1>3 DEF SaveStart
  <2>2. row' = Blank \/ exists
    BY <2>1 DEF exists
  <2>3. RowTypes' /\ RowQuiet
    BY <1>2, <2>1, <2>2 DEF RowTypes, RowQuiet
  <2>4. session' \in Seq(Entries')
    BY <1>1, <2>1, <2>3, SessionStays DEF Inv
  <2> QED BY <1>1, <2>3, <2>4, FlowLeaves
<1>4. CASE BasisHolds(copy[f])
  <2>1. row' = r /\ start_oauth_session(r) /\ exists
    BY <1>4 DEF SaveStart, BasisHolds
  <2>2. RowTypes' /\ RowQuiet
    BY <1>2, <2>1 DEF RowTypes, RowQuiet
  <2>3. Agree(r.gen, r.dest)'
    BY <1>2, <2>1 DEF Agree
  <2>4. [dest |-> r.dest, gen |-> r.gen, client |-> r.client] \in Entries'
    <3>1. [dest |-> r.dest, gen |-> r.gen, client |-> r.client] \in OauthSession
      BY DEF Row, OauthSession
    <3> QED BY <2>3, <3>1 DEF Entries
  <2>5. session \in Seq(Entries')
    BY <1>1, <2>2, SessionStays DEF Inv
  <2>6. session' \in Seq(Entries')
    BY <2>1, <2>4, <2>5, SessionStarts
  <2> QED BY <1>1, <2>2, <2>6, FlowLeaves
<1> QED BY <1>3, <1>4

\* `StartMoved` and `StartRegistered`: the endpoints change, or a new sign-in
\* is named.
LEMMA StartInv ==
  ASSUME Inv, NEW f \in Flows, StartMoved(f) \/ StartRegistered(f)
  PROVE  Inv'
<1>1. /\ drawn \in Nat /\ drawn \in Gens /\ KnownOK /\ row.gen \in Nat /\ RowTypes
      /\ exists => row \in Row
  BY InvNumbers, TypeParts DEF Inv, RowTypes
<1>2. flow[f] = "starting" /\ copy[f] \in Row
  BY DEF StartMoved, StartRegistered, Inv, FlowOf
<1>3. ASSUME NEW r, SaveStart(f, r), ~ BasisHolds(copy[f]), drawn' \in Gens, drawn <= drawn'
      PROVE  Inv'
  <2>1. /\ UNCHANGED << row, session >> /\ FlowEnds(f)
        /\ UNCHANGED << provider, taskVars, callerVars, editVars >>
    BY <1>3 DEF SaveStart
  <2>2. row' = Blank \/ exists
    BY <2>1 DEF exists
  <2>3. RowTypes' /\ RowQuiet
    BY <1>1, <1>3, <2>1, <2>2 DEF RowTypes, RowQuiet
  <2>4. session' \in Seq(Entries')
    BY <2>1, <2>3, SessionStays DEF Inv
  <2> QED BY <2>1, <2>3, <2>4, FlowLeaves
<1>4. CASE StartMoved(f)
  <2> DEFINE r == [row EXCEPT !.conf = ~ row.conf]
  <2>1. SaveStart(f, r) /\ drawn' = drawn /\ copy[f].client # None
    BY <1>4 DEF StartMoved
  <2>2. drawn' \in Gens /\ drawn <= drawn'
    BY <1>1, <2>1
  <2>3. CASE BasisHolds(copy[f])
    <3>0. exists /\ oauth_basis = copy[f]
      BY <2>3 DEF BasisHolds
    <3>1. PICK b \in BOOLEAN : b = ~ row.conf
      OBVIOUS
    <3>2. r = [row EXCEPT !.conf = b]
      BY <3>1
    <3>3. /\ r \in Row /\ r.pair = row.pair /\ r.dest = row.dest /\ r.gen = row.gen
          /\ r.client = row.client
      BY <1>1, <3>0, <3>2 DEF Row
    <3>4. copy[f].client = row.client
      BY <1>1, <3>0 DEF oauth_basis, Row
    <3>5. PICK q \in Row : q = r
      BY <3>3
    <3> QED BY <1>1, <2>1, <2>2, <3>3, <3>4, <3>5, SaveStartInv DEF KnownOK
  <2> QED BY <1>3, <2>1, <2>2, <2>3
<1>5. CASE StartRegistered(f)
  <2>1. PICK k \in Clients : SaveStart(f, [WithoutTokens(row, drawn + 1) EXCEPT !.client = k])
    BY <1>5 DEF StartRegistered
  <2>2. /\ drawn' = drawn + 1 /\ drawn' \in Gens /\ drawn <= drawn' /\ drawn < drawn + 1
        /\ drawn + 1 <= drawn' /\ drawn + 1 \in Gens
    BY <1>1, <1>5, UpstreamAssumption DEF StartRegistered, Gens
  <2>3. CASE exists
    <3>1. PICK w \in Row : /\ w = WithoutTokens(row, drawn + 1)
                           /\ w.pair = 0 /\ w.gen = drawn + 1
      BY <1>1, <2>2, <2>3, WithoutTokensRow
    <3>2. /\ [w EXCEPT !.client = k] \in Row /\ [w EXCEPT !.client = k].pair = w.pair
          /\ [w EXCEPT !.client = k].gen = w.gen /\ [w EXCEPT !.client = k].client = k
      BY <3>1 DEF Row
    <3>3. PICK r \in Row : /\ r = [w EXCEPT !.client = k]
                           /\ r.pair = 0 /\ r.gen = drawn + 1 /\ r.client = k
      BY <3>1, <3>2
    <3>4. r.client # None /\ SaveStart(f, r)
      BY <2>1, <3>1, <3>3, UpstreamAssumption
    <3> QED BY <2>2, <3>3, <3>4, SaveStartInv
  <2> QED BY <1>3, <2>1, <2>2, <2>3 DEF BasisHolds
<1> QED BY <1>4, <1>5

\* `Callback`: a sign-in with the generation of the row leads where the row does.
LEMMA CallbackInv ==
  ASSUME Inv, NEW f \in Flows, Callback(f)
  PROVE  Inv'
<1>1. /\ flow[f] = "idle"
      /\ UNCHANGED << rowVars, provider, taskVars, callerVars, editVars >>
      /\ UNCHANGED << row, drawn >>
  BY DEF Callback, rowVars
<1>2. PICK i \in 1..Len(session) :
        /\ session' = SubSeq(session, 1, i - 1) \o SubSeq(session, i + 1, Len(session))
        /\ \/ /\ exists /\ check_current(session[i], row)
              /\ row.client = session[i].client
              /\ copy' = [copy EXCEPT ![f] = oauth_basis]
              /\ entry' = [entry EXCEPT ![f] =
                             [dest |-> session[i].dest, gen |-> session[i].gen]]
              /\ flow' = [flow EXCEPT ![f] = "exchanging"]
              /\ UNCHANGED bought
           \/ UNCHANGED << flow, copy, entry, bought >>
  BY DEF Callback
<1>3. session' \in Seq(Entries) /\ session[i] \in Entries
  BY <1>2, SessionTaken DEF Inv
<1>4. RowTypes' /\ RowQuiet
  BY <1>1, RowStays
<1>5. session' \in Seq(Entries')
  <2>1. PICK s \in Seq(Entries) : s = session'
    BY <1>3
  <2> QED BY <1>1, <1>4, <2>1, SessionStays
<1>6. FlowTypes /\ KnownOK /\ EditTypes' /\ row.gen \in Nat /\ (exists => row \in Row)
  BY <1>1, InvNumbers, SameTypes, TypeParts DEF Inv
<1>7. CASE UNCHANGED << flow, copy, entry, bought >>
  <2>1. FlowTypes' /\ \A g \in Flows : FlowRests(g)
    BY <1>6, <1>7 DEF FlowTypes, FlowRests
  <2> QED BY <1>1, <1>4, <1>5, <1>6, <2>1, QuietInv
<1>8. CASE /\ exists /\ check_current(session[i], row)
           /\ copy' = [copy EXCEPT ![f] = oauth_basis]
           /\ entry' = [entry EXCEPT ![f] = [dest |-> session[i].dest, gen |-> session[i].gen]]
           /\ flow' = [flow EXCEPT ![f] = "exchanging"]
           /\ UNCHANGED bought
  <2>1. /\ oauth_basis \in Row /\ oauth_basis.gen = row.gen /\ oauth_basis.dest = row.dest
    BY <1>6, <1>8 DEF oauth_basis, Row
  <2>2. session[i].gen = row.gen /\ session[i].dest = row.dest
    BY <1>3, <1>8 DEF Entries, Agree, check_current
  <2>3. [dest |-> session[i].dest, gen |-> session[i].gen] \in Origin
    BY <1>3 DEF Entries, OauthSession, Origin
  <2>4. FlowTypes'
    BY <1>6, <1>8, <2>1, <2>3 DEF FlowTypes
  <2>5. /\ flow'[f] = "exchanging" /\ copy'[f] = oauth_basis
        /\ entry'[f] = [dest |-> row.dest, gen |-> row.gen]
        /\ \A g \in Flows \ {f} : FlowRests(g)
    BY <1>6, <1>8, <2>2 DEF FlowTypes, FlowRests
  <2>6. FlowOf(f)'
    BY <1>1, <1>6, <2>1, <2>5 DEF FlowOf, Agree, KnownOK
  <2> QED BY <1>1, <1>4, <1>5, <1>6, <2>4, <2>5, <2>6, QuietInv
<1> QED BY <1>2, <1>7, <1>8

\* `Exchange`: the pair issued is one that nobody has yet.
LEMMA ExchangeInv ==
  ASSUME Inv, NEW f \in Flows, Exchange(f)
  PROVE  Inv'
<1>1. /\ flow[f] = "exchanging" /\ Issue(entry[f])
      /\ bought' = [bought EXCEPT ![f] = issued + 1]
      /\ flow' = [flow EXCEPT ![f] = "exchanged"]
      /\ UNCHANGED << rowVars, taskVars, callerVars, editVars >>
      /\ UNCHANGED << spent, lost, copy, entry, session, row, drawn, task, basis, got >>
  BY DEF Exchange, rowVars, taskVars
<1>2. /\ ProviderTypes /\ FlowTypes /\ FlowOf(f) /\ KnownOK
      /\ issued \in Nat /\ row.pair \in Nat /\ spent \subseteq Pairs
  BY InvNumbers, TypeParts DEF Inv
<1>3. copy[f] \in Row /\ entry[f] = [dest |-> copy[f].dest, gen |-> copy[f].gen]
  BY <1>1, <1>2 DEF FlowOf
<1>4. /\ issued' = issued + 1 /\ issued' \in Nat /\ issued' \in Pairs /\ issued' \in 0..MaxPairs
      /\ home' = [home EXCEPT ![issued'] = entry[f]] /\ issued <= issued'
  BY <1>1, <1>2, UpstreamAssumption DEF Issue, Pairs
<1>5. \A q \in Pairs : q <= issued => home'[q] = home[q]
  BY <1>2, <1>4, Numbers DEF ProviderTypes
<1>6. ProviderTypes'
  BY <1>1, <1>2, <1>4 DEF ProviderTypes, FlowTypes
<1>7. RowTypes' /\ RowQuiet
  BY <1>1, RowStays
<1>8. /\ Grows /\ KnownOK' /\ Entries \subseteq Entries'
      /\ \A p \in Pairs : p <= issued /\ Unsaved(p) => Unsaved(p)'
      /\ SignInIntact => SignInIntact'
  BY <1>1, <1>4, <1>5, <1>7, QuietRow
<1>9. /\ TaskTypes' /\ RowAsk' /\ \A t \in Tasks : TaskOf(t)' /\ RenewedOf(t)' /\ AskOf(t)'
  BY <1>1, <1>4, <1>7, <1>8, QuietTasks
<1>10. FlowTypes'
  BY <1>1, <1>2, <1>4 DEF FlowTypes
<1>11. CallerTypes' /\ EditTypes' /\ \A c \in Callers : CallerRests(c)
  BY <1>1, SameTypes, TypeParts DEF Inv, CallerRests, callerVars
<1>12. session' \in Seq(Entries')
  BY <1>1, <1>8, SeqGrows DEF Inv
<1>13. /\ flow'[f] = "exchanged" /\ copy'[f] = copy[f] /\ entry'[f] = entry[f]
       /\ bought'[f] = issued + 1
       /\ \A g \in Flows \ {f} : FlowRests(g)
  BY <1>1, <1>2 DEF FlowTypes, FlowRests
<1>14. \A q \in Pairs : q <= issued => q # issued + 1
  BY <1>2, Numbers
<1>15. /\ bought'[f] \in Pairs /\ bought'[f] <= issued'
       /\ bought'[f] \notin spent' /\ bought'[f] # row'.pair
       /\ home'[bought'[f]] = entry[f]
  <2>1. issued + 1 \notin spent /\ issued + 1 # row.pair
    BY <1>2, <1>14 DEF KnownOK
  <2>2. home'[issued'] = entry[f]
    BY <1>2, <1>4 DEF ProviderTypes
  <2> QED BY <1>1, <1>4, <1>13, <2>1, <2>2
<1>16. ASSUME NEW t \in Tasks
       PROVE  /\ task'[t] = "saving" => got'[t] # issued + 1
              /\ task'[t] = "asking" => basis'[t].pair # issued + 1
  <2>1. TaskOf(t)
    BY DEF Inv
  <2>2. task[t] = "asking" => basis[t].pair \in Pairs /\ basis[t].pair <= issued
    BY <2>1, Numbers DEF TaskOf, Row
  <2>3. task[t] = "saving" => got[t] \in Pairs /\ got[t] <= issued
    BY <2>1 DEF TaskOf, Unsaved
  <2> QED BY <1>1, <1>14, <2>2, <2>3
<1>17. ASSUME NEW g \in Flows \ {f}
       PROVE  flow[g] = "exchanged" => Unsaved(bought[g])' /\ bought[g] # issued + 1
  <2>1. ASSUME flow[g] = "exchanged"
        PROVE  bought[g] \in Pairs /\ bought[g] <= issued /\ Unsaved(bought[g])
    BY <2>1 DEF Inv, FlowOf, Unsaved
  <2> QED BY <1>8, <1>13, <1>14, <2>1 DEF Unsaved, FlowRests
<1>18. FlowOf(f)'
  <2>1. Agree(copy[f].gen, copy[f].dest)'
    BY <1>1, <1>2 DEF FlowOf, Agree, exists
  <2>2. \A g \in Flows \ {f} : flow'[g] = "exchanged" => bought'[g] # bought'[f]
    BY <1>13, <1>17 DEF FlowRests
  <2>3. Unsaved(bought[f])' /\ home'[bought'[f]] = entry'[f]
    BY <1>13, <1>15 DEF Unsaved
  <2> QED BY <1>1, <1>3, <1>13, <1>16, <2>1, <2>2, <2>3 DEF FlowOf, Agree
<1>19. ASSUME NEW g \in Flows \ {f} PROVE FlowOf(g)'
  <2>1. FlowOf(g) /\ FlowRests(g)
    BY <1>13 DEF Inv
  <2>2. flow[g] = "exchanged" =>
          /\ \A t \in Tasks : /\ task'[t] = "saving" => got'[t] # bought[g]
                              /\ task'[t] = "asking" => basis'[t].pair # bought[g]
    BY <1>1, <2>1 DEF FlowOf
  <2>3. flow[g] = "exchanged" =>
          \A h \in Flows \ {g} : flow'[h] = "exchanged" => bought'[h] # bought[g]
    BY <1>13, <1>17, <2>1 DEF FlowOf, FlowRests
  <2> QED BY <1>8, <1>17, <2>1, <2>2, <2>3, FlowStays
<1>20. \A c \in Callers : CallerOf(c)' /\ (DbFails \/ HomeOf(c)')
  BY <1>4, <1>8, <1>11, CallerStays, InvHome, Zenon
<1>21. DbFails \/ SignInIntact'
  BY <1>8, InvHome, Zenon
<1>22. \A g \in Flows : FlowOf(g)'
  BY <1>18, <1>19
<1> QED BY <1>6, <1>7, <1>8, <1>9, <1>10, <1>11, <1>12, <1>20, <1>21, <1>22, InvParts

\* `SaveSignIn`: a row that is still the copy gets the pair of its sign-in.
\* A status saved after an update that failed may put it into any row.
LEMMA SaveSignInInv ==
  ASSUME Inv, NEW f \in Flows, SaveSignIn(f)
  PROVE  Inv'
<1>1. /\ flow[f] = "exchanged" /\ FlowEnds(f)
      /\ UNCHANGED << provider, taskVars, callerVars, editVars >>
      /\ UNCHANGED << drawn, session, issued, home, spent, lost, task, basis, got, pending >>
  BY DEF SaveSignIn, provider, taskVars
<1>2. FlowOf(f) /\ ProviderTypes /\ TaskTypes /\ RowTypes
  BY TypeParts DEF Inv
<1>3. PICK p \in Pairs : p = bought[f] /\ Unsaved(p)
  BY <1>1, <1>2 DEF FlowOf, Unsaved
<1>4. CASE row' = row
  <2>1. RowTypes' /\ RowQuiet
    BY <1>1, <1>4, RowStays DEF rowVars
  <2>2. session' \in Seq(Entries')
    BY <1>1, <2>1, SessionStays DEF Inv
  <2> QED BY <1>1, <2>1, <2>2, FlowLeaves
<1>5. CASE row' = WithTokens(row, p) /\ exists /\ (BasisHolds(copy[f]) \/ DbFails)
  <2>1. /\ RowTypes' /\ KnownOK' /\ Grows /\ Entries \subseteq Entries'
        /\ row'.pair = p /\ row'.dest = row.dest /\ row'.gen = row.gen /\ exists'
        /\ \A q \in Pairs \ {p} : Unsaved(q) => Unsaved(q)'
        /\ \A q \in Pairs : q \in spent => Replaced(q)'
    BY <1>1, <1>3, <1>5, RowSaved
  <2>2. /\ ProviderTypes' /\ TaskTypes' /\ CallerTypes' /\ EditTypes'
        /\ FlowTypes' /\ flow'[f] = "idle" /\ \A g \in Flows \ {f} : FlowRests(g)
    BY <1>1, EndTypes, SameTypes, TypeParts DEF Inv, FlowRests
  <2>3. session' \in Seq(Entries')
    BY <1>1, <2>1, SeqGrows DEF Inv
  <2>4. RowAsk'
    BY <1>1, <1>3, <2>1 DEF RowAsk, Unsaved
  <2>5. issued' \in Nat
    BY <1>1, InvNumbers
  <2>6. ASSUME NEW t \in Tasks PROVE TaskOf(t)' /\ RenewedOf(t)' /\ AskOf(t)'
    <3>1. TaskRests(t) /\ TaskOf(t) /\ pending' = pending
      BY <1>1 DEF TaskRests, taskVars, Inv
    <3>2. task[t] = "saving" => got[t] # p
      BY <1>1, <1>2, <1>3 DEF FlowOf
    <3>3. task[t] = "saving" => Unsaved(got[t])'
      BY <2>1, <3>1, <3>2 DEF TaskOf, Unsaved, TaskRests
    <3> QED BY <1>1, <2>1, <2>5, <3>1, <3>3, TaskStays
  <2>7. ASSUME NEW g \in Flows PROVE FlowOf(g)'
    <3>1. CASE g = f
      BY <2>2, <3>1 DEF FlowOf
    <3>2. CASE g # f
      <4>1. FlowOf(g) /\ FlowRests(g)
        BY <2>2, <3>2 DEF Inv
      <4>2. flow[g] = "exchanged" => bought[g] # p
        BY <1>1, <1>2, <1>3, <3>2 DEF FlowOf
      <4>3. flow[g] = "exchanged" => Unsaved(bought[g])'
        BY <2>1, <4>1, <4>2 DEF FlowOf, Unsaved, FlowRests
      <4>4. flow[g] = "exchanged" =>
              \A t \in Tasks : /\ task'[t] = "saving" => got'[t] # bought[g]
                               /\ task'[t] = "asking" => basis'[t].pair # bought[g]
        BY <1>1, <4>1 DEF FlowOf
      <4>5. flow[g] = "exchanged" =>
              \A h \in Flows \ {g} : flow'[h] = "exchanged" => bought'[h] # bought[g]
        BY <2>2, <4>1 DEF FlowOf, FlowRests
      <4> QED BY <2>1, <4>1, <4>3, <4>4, <4>5, FlowStays
    <3> QED BY <3>1, <3>2
  <2>8. \A c \in Callers : CallerRests(c)
    BY <1>1 DEF CallerRests, callerVars
  <2>9. \A c \in Callers : CallerOf(c)' /\ (DbFails \/ HomeOf(c)')
    BY <2>1, <2>5, <2>8, CallerStays, InvHome, Zenon
  <2>10. DbFails \/ SignInIntact'
    <3>1. ASSUME BasisHolds(copy[f]) PROVE SignInIntact'
      <4>1. oauth_basis = copy[f] /\ row \in Row
        BY <1>5, <3>1, InvNumbers DEF BasisHolds
      <4>2. copy[f].dest = row.dest /\ copy[f].gen = row.gen
        BY <4>1 DEF oauth_basis, Row
      <4>3. home'[p] = [dest |-> row.dest, gen |-> row.gen]
        BY <1>1, <1>2, <1>3, <4>2 DEF FlowOf
      <4> QED BY <2>1, <4>3 DEF SignInIntact
    <3> QED BY <1>5, <3>1, Zenon
  <2> QED BY <2>1, <2>2, <2>3, <2>4, <2>6, <2>7, <2>9, <2>10, InvParts
<1> QED BY <1>3, <1>4, <1>5 DEF SaveSignIn, BasisHolds

\* `FlowFails`.
LEMMA FlowFailsInv ==
  ASSUME Inv, NEW f \in Flows, FlowFails(f)
  PROVE  Inv'
<1>1. /\ FlowEnds(f) /\ UNCHANGED << rowVars, provider, taskVars, callerVars, editVars >>
      /\ UNCHANGED session
  BY DEF FlowFails
<1>2. RowTypes' /\ RowQuiet
  BY <1>1, RowStays
<1>3. session' \in Seq(Entries')
  BY <1>1, <1>2, SessionStays DEF Inv
<1> QED BY <1>1, <1>2, <1>3, FlowLeaves

\* A step that changes the row quietly and leaves the pages alone.
LEMMA RowStep ==
  ASSUME Inv, RowTypes', RowQuiet, EditTypes',
         UNCHANGED << provider, taskVars, callerVars, flowVars >>
  PROVE  Inv'
<1>1. FlowTypes' /\ (\A g \in Flows : FlowRests(g)) /\ session' = session
  BY SameTypes, TypeParts DEF Inv, FlowRests, flowVars
<1>2. session' \in Seq(Entries')
  BY <1>1, SessionStays DEF Inv
<1> QED BY <1>1, <1>2, QuietInv

\* `SaveEdit`: a move forgets the sign-in under a new generation.
LEMMA SaveEditInv ==
  ASSUME Inv, NEW e \in Edits, SaveEdit(e)
  PROVE  Inv'
<1>1. /\ edit[e] = "editing" /\ EditEnds(e)
      /\ UNCHANGED << provider, taskVars, callerVars, flowVars >>
  BY DEF SaveEdit
<1>2. RowTypes /\ EditTypes' /\ drawn \in Nat /\ drawn \in Gens /\ row.gen \in Nat
  BY <1>1, EndTypes, InvNumbers, TypeParts DEF Inv, RowTypes
<1>3. PICK d \in Dests, a \in BOOLEAN, other \in BOOLEAN :
        LET old == draft[e]
            saved == [row EXCEPT !.dest = IF d # old.dest THEN d ELSE @,
                                 !.auto = IF a # old.auto \/ (~ a /\ other) THEN a ELSE @]
            forgets == d # old.dest \/ (old.auto /\ ~ a)
        IN /\ ~ (forgets /\ drawn = MaxGens)
           /\ drawn' = IF forgets THEN drawn + 1 ELSE drawn
           /\ row' = IF ~ exists THEN row
                     ELSE IF forgets THEN Forgotten(saved, drawn + 1)
                     ELSE IF ~ a THEN Cleared(saved, old) ELSE saved
  BY DEF SaveEdit
<1> DEFINE old == draft[e]
           saved == [row EXCEPT !.dest = IF d # old.dest THEN d ELSE @,
                                !.auto = IF a # old.auto \/ (~ a /\ other) THEN a ELSE @]
           forgets == d # old.dest \/ (old.auto /\ ~ a)
<1>4. /\ ~ (forgets /\ drawn = MaxGens)
      /\ drawn' = IF forgets THEN drawn + 1 ELSE drawn
      /\ row' = IF ~ exists THEN row
                ELSE IF forgets THEN Forgotten(saved, drawn + 1)
                ELSE IF ~ a THEN Cleared(saved, old) ELSE saved
  BY <1>3
<1> HIDE DEF saved, forgets
<1>5. drawn' \in Gens /\ drawn <= drawn' /\ (forgets => drawn < drawn' /\ drawn' = drawn + 1)
  BY <1>2, <1>4, UpstreamAssumption DEF Gens
<1>6. CASE ~ exists
  <2>1. row' = Blank
    BY <1>4, <1>6 DEF exists
  <2> QED BY <1>1, <1>2, <1>5, <2>1, RowStep DEF RowTypes, RowQuiet
<1>7. CASE exists
  <2>1. row \in Row
    BY <1>7, InvNumbers
  <2>2. saved \in Row /\ saved.pair = row.pair /\ saved.gen = row.gen
        /\ (d = old.dest => saved.dest = row.dest)
    <3>1. PICK b \in BOOLEAN : b = IF a # old.auto \/ (~ a /\ other) THEN a ELSE row.auto
      BY <2>1 DEF Row
    <3>2. saved = [row EXCEPT !.dest = IF d # old.dest THEN d ELSE row.dest, !.auto = b]
      BY <3>1 DEF saved
    <3>3. PICK to \in Dests : to = IF d # old.dest THEN d ELSE row.dest
      BY <2>1 DEF Row
    <3>4. saved = [row EXCEPT !.dest = to, !.auto = b]
      BY <3>2, <3>3
    <3> QED BY <2>1, <3>3, <3>4 DEF Row
  <2>3. CASE forgets
    <3>1. /\ row' \in Row /\ row'.pair = 0 /\ row'.gen = drawn'
      BY <1>4, <1>5, <1>7, <2>2, <2>3, ForgottenRow
    <3> QED BY <1>1, <1>2, <1>5, <1>7, <2>3, <3>1, RowStep, Numbers DEF RowTypes, RowQuiet, Gens
  <2>4. CASE ~ forgets
    <3>1. d = old.dest
      BY <2>4 DEF forgets
    <3>2. old \in Draft
      <4>1. EditTypes
        BY TypeParts DEF Inv
      <4>2. NoDraft.dest = None
        BY DEF NoDraft
      <4> QED BY <3>1, <4>1, <4>2, UpstreamAssumption DEF EditTypes
    <3>3. /\ row' \in Row /\ row'.pair \in {0, row.pair}
          /\ row'.dest = row.dest /\ row'.gen = row.gen
      <4>1. row' = Cleared(saved, old) \/ row' = saved
        BY <1>4, <1>7, <2>4
      <4> QED BY <2>2, <3>1, <3>2, <4>1, ClearedRow
    <3> QED BY <1>1, <1>2, <1>5, <1>7, <3>3, RowStep DEF RowTypes, RowQuiet
  <2> QED BY <2>3, <2>4
<1> QED BY <1>6, <1>7

\* The other edits, a sign-out of the network, a deletion, and time.
LEMMA EditsInv ==
  ASSUME Inv,
         \/ \E e \in Edits : BeginEdit(e) \/ RefuseEdit(e)
         \/ sign_out_mcps \/ Delete \/ Expire
  PROVE  Inv'
<1>1. /\ RowTypes /\ EditTypes /\ drawn \in Nat /\ drawn \in Gens /\ row.gen \in Nat
      /\ exists => row \in Row
  BY InvNumbers, TypeParts DEF Inv, RowTypes
<1>2. ASSUME NEW e \in Edits, BeginEdit(e) PROVE Inv'
  <2>1. row \in Row
    BY <1>1, <1>2 DEF BeginEdit
  <2>2. PICK client, pair, conf, auto \in BOOLEAN :
          /\ client = (row.client # None) /\ pair = (row.pair # 0)
          /\ conf = row.conf /\ auto = row.auto
    BY <2>1 DEF Row
  <2>3. [dest |-> row.dest, auto |-> auto, client |-> client, conf |-> conf, pair |-> pair] \in Draft
    BY <2>1 DEF Row, Draft
  <2>4. draft' = [draft EXCEPT ![e] =
                    [dest |-> row.dest, auto |-> auto, client |-> client, conf |-> conf,
                     pair |-> pair]]
    BY <1>2, <2>2 DEF BeginEdit
  <2>5. EditTypes'
    BY <1>1, <1>2, <2>3, <2>4 DEF BeginEdit, EditTypes
  <2>6. UNCHANGED << rowVars, provider, taskVars, callerVars, flowVars >>
    BY <1>2 DEF BeginEdit
  <2>7. RowTypes' /\ RowQuiet
    BY <2>6, RowStays
  <2> QED BY <2>5, <2>6, <2>7, RowStep
<1>3. ASSUME NEW e \in Edits, RefuseEdit(e) PROVE Inv'
  <2>1. EditEnds(e) /\ UNCHANGED << rowVars, provider, taskVars, callerVars, flowVars >>
    BY <1>3 DEF RefuseEdit
  <2>2. RowTypes' /\ RowQuiet /\ EditTypes'
    BY <1>1, <2>1, RowStays, EndTypes
  <2> QED BY <2>1, <2>2, RowStep
<1>4. CASE sign_out_mcps
  <2>1. /\ exists /\ drawn < MaxGens /\ drawn' = drawn + 1
        /\ row' = Forgotten(row, drawn + 1)
        /\ UNCHANGED << provider, taskVars, callerVars, flowVars, editVars >>
    BY <1>4 DEF sign_out_mcps
  <2>2. drawn' \in Gens /\ drawn < drawn' /\ drawn <= drawn' /\ drawn' <= drawn'
    BY <1>1, <2>1, UpstreamAssumption DEF Gens
  <2>3. row' \in Row /\ row'.pair = 0 /\ row'.gen = drawn'
    BY <1>1, <2>1, <2>2, ForgottenRow
  <2>4. RowTypes' /\ RowQuiet /\ EditTypes'
    BY <1>1, <2>1, <2>2, <2>3, SameTypes DEF RowTypes, RowQuiet
  <2> QED BY <2>1, <2>4, RowStep
<1>5. CASE Delete
  <2>1. row' = Blank /\ UNCHANGED << drawn, provider, taskVars, callerVars, flowVars, editVars >>
    BY <1>5 DEF Delete
  <2>2. RowTypes' /\ RowQuiet /\ EditTypes'
    BY <1>1, <2>1, SameTypes DEF RowTypes, RowQuiet
  <2> QED BY <2>1, <2>2, RowStep
<1>6. CASE Expire
  <2>1. /\ exists /\ row' = [row EXCEPT !.fresh = FALSE]
        /\ UNCHANGED << drawn, provider, taskVars, callerVars, flowVars, editVars >>
    BY <1>6 DEF Expire
  <2>2. row' \in Row /\ row'.pair = row.pair /\ row'.dest = row.dest /\ row'.gen = row.gen
    BY <1>1, <2>1 DEF Row
  <2>3. RowTypes' /\ RowQuiet /\ EditTypes'
    BY <1>1, <2>1, <2>2, SameTypes DEF RowTypes, RowQuiet
  <2> QED BY <2>1, <2>3, RowStep
<1> QED BY <1>2, <1>3, <1>4, <1>5, <1>6

\* `Restart`: the answers that were not saved are lost, and nobody holds a copy.
LEMMA RestartInv ==
  ASSUME Inv, Restart
  PROVE  Inv'
<1> DEFINE saving == {u \in Tasks : task[u] = "saving"}
<1>1. /\ pending' = None
      /\ lost' = lost \cup {basis[t].pair : t \in saving}
      /\ task' = [t \in Tasks |-> "idle"] /\ basis' = [t \in Tasks |-> Blank]
      /\ got' = [t \in Tasks |-> 0] /\ outcome' = [t \in Tasks |-> FALSE]
      /\ at' = [c \in Callers |-> "idle"] /\ mine' = [c \in Callers |-> NoTarget]
      /\ on' = [c \in Callers |-> None] /\ left' = [c \in Callers |-> 0]
      /\ flow' = [f \in Flows |-> "idle"] /\ copy' = [f \in Flows |-> Blank]
      /\ entry' = [f \in Flows |-> NoOrigin] /\ bought' = [f \in Flows |-> 0]
      /\ edit' = [e \in Edits |-> "idle"] /\ draft' = [e \in Edits |-> NoDraft]
      /\ UNCHANGED << row, drawn, issued, home, spent, session >>
  BY DEF Restart, rowVars
<1>2. /\ RowTypes /\ ProviderTypes /\ TaskTypes /\ issued \in Nat /\ KnownOK
      /\ session \in Seq(Entries)
  BY InvNumbers, TypeParts DEF Inv
<1>3. \A t \in saving : basis[t].pair \in Pairs
  BY DEF Inv, TaskOf, Row
<1>4. RowTypes' /\ ProviderTypes'
  <2>1. lost' \subseteq Pairs
    BY <1>1, <1>2, <1>3 DEF ProviderTypes
  <2> QED BY <1>1, <1>2, <2>1 DEF RowTypes, ProviderTypes
<1>5. TaskTypes' /\ FlowTypes' /\ EditTypes'
  BY <1>1 DEF TaskTypes, FlowTypes, EditTypes
<1>6. CallerTypes'
  BY <1>1 DEF CallerTypes
<1>7. session' \in Seq(Entries') /\ KnownOK'
  <2>1. Entries' = Entries
    BY <1>1 DEF Entries, Agree, exists
  <2> QED BY <1>1, <1>2, <2>1 DEF KnownOK
<1>8. RowAsk'
  <2>1. ASSUME row.pair \in spent PROVE row.pair \in lost'
    <3>1. CASE row.pair \in lost
      BY <1>1, <3>1
    <3>2. CASE row.pair \notin lost
      <4>1. PICK t \in saving : basis[t].pair = row.pair
        BY <2>1, <3>2 DEF Inv, RowAsk
      <4> QED BY <1>1, <4>1
    <3> QED BY <3>1, <3>2
  <2> QED BY <1>1, <2>1 DEF RowAsk
<1>9. ASSUME NEW t \in Tasks PROVE TaskOf(t)' /\ RenewedOf(t)' /\ AskOf(t)'
  BY <1>1, <1>2, BlankRow, UpstreamAssumption DEF TaskOf, RenewedOf, AskOf, Live
<1>10. ASSUME NEW f \in Flows PROVE FlowOf(f)'
  BY <1>1 DEF FlowOf
<1>11. ASSUME NEW c \in Callers PROVE CallerOf(c)' /\ HomeOf(c)'
  BY <1>1, <1>2 DEF CallerOf, HomeOf, NoTarget
<1>12. DbFails \/ SignInIntact'
  <2>1. SignInIntact => SignInIntact'
    BY <1>1 DEF SignInIntact, exists
  <2> QED BY <2>1, InvHome, Zenon
<1> QED BY <1>4, <1>5, <1>6, <1>7, <1>8, <1>9, <1>10, <1>11, <1>12, InvParts

-----------------------------------------------------------------------------
(***************************************************************************)
(* The theorems.                                                           *)
(***************************************************************************)

\* The invariant holds at the start.
LEMMA InvInit == Init => Inv
<1> SUFFICES ASSUME Init PROVE Inv
  OBVIOUS
<1>1. PICK d \in Dests, k \in Clients \cup {None}, p \in {0, 1} :
        /\ row = [dest |-> d, auto |-> TRUE, gen |-> 0, client |-> k, conf |-> FALSE,
                  pair |-> p, fresh |-> p = 1]
        /\ issued = p
        /\ home = [q \in Pairs |-> IF q <= p THEN [dest |-> d, gen |-> 0] ELSE NoOrigin]
  BY DEF Init
<1>2. 1 \in Pairs /\ p \in Pairs \cup {0} /\ p \in 0..MaxPairs /\ p \in Nat /\ 0 \in Gens
  BY Numbers, UpstreamAssumption DEF Pairs
<1>3. row \in Row /\ row.pair = p /\ row.gen = 0 /\ row.dest = d
  <2>1. PICK b \in BOOLEAN : b = (p = 1)
    OBVIOUS
  <2>2. row = [dest |-> d, auto |-> TRUE, gen |-> 0, client |-> k, conf |-> FALSE,
               pair |-> p, fresh |-> b]
    BY <1>1, <2>1
  <2> QED BY <1>2, <2>2 DEF Row
<1>4. RowTypes /\ ProviderTypes
  <2>1. [dest |-> d, gen |-> 0] \in Origin
    BY <1>2 DEF Origin
  <2>2. RowTypes
    BY <1>2, <1>3 DEF RowTypes, Init
  <2> QED BY <1>1, <1>2, <2>1, <2>2 DEF ProviderTypes, Init
<1>5. TaskTypes /\ FlowTypes /\ EditTypes
  BY DEF Init, TaskTypes, FlowTypes, EditTypes
<1>6. CallerTypes
  BY DEF Init, CallerTypes
<1>7. session \in Seq(Entries) /\ session \in Seq(OauthSession)
  BY DEF Init
<1>8. TypeOK
  BY <1>4, <1>5, <1>6, <1>7, TypeParts
<1>9. KnownOK /\ RowAsk
  BY <1>1, <1>2, <1>3 DEF KnownOK, RowAsk, Init
<1>10. ASSUME NEW t \in Tasks PROVE TaskOf(t) /\ RenewedOf(t) /\ AskOf(t)
  BY <1>1, <1>2, BlankRow, UpstreamAssumption DEF Init, TaskOf, RenewedOf, AskOf, Live
<1>11. ASSUME NEW f \in Flows PROVE FlowOf(f)
  BY DEF Init, FlowOf
<1>12. ASSUME NEW c \in Callers PROVE CallerOf(c)
  BY <1>1, <1>2 DEF Init, CallerOf, NoTarget
<1>13. SignInIntact
  <2>1. ASSUME p # 0 PROVE home[p] = [dest |-> d, gen |-> 0]
    BY <1>1, <1>2, <2>1
  <2> QED BY <1>3, <2>1 DEF SignInIntact
<1>14. TokensStayHome
  BY DEF Init, TokensStayHome
<1> QED BY <1>7, <1>8, <1>9, <1>10, <1>11, <1>12, <1>13, <1>14, Zenon DEF Inv

\* Every step keeps it.
LEMMA InvNext == Inv /\ [Next]_vars => Inv'
<1> SUFFICES ASSUME Inv, [Next]_vars PROVE Inv'
  OBVIOUS
<1>1. ASSUME NEW t \in Tasks, Renew(t) PROVE Inv'
  BY <1>1, ReloadInv, AskProviderInv, SaveRenewedInv, ReleaseInv, SendInv, Zenon DEF Renew
<1>2. ASSUME NEW c \in Callers, ReadRow(c) \/ Connect(c) \/ GiveUp(c) PROVE Inv'
  BY <1>2, CallerInv, JoinInv, Zenon DEF Connect
<1>3. ASSUME NEW f \in Flows, SignIn(f) PROVE Inv'
  BY <1>3, BeginStartInv, StartAgainInv, StartInv, CallbackInv, ExchangeInv, SaveSignInInv,
     FlowFailsInv, Zenon DEF SignIn
<1>4. ASSUME NEW e \in Edits, BeginEdit(e) \/ SaveEdit(e) \/ RefuseEdit(e) PROVE Inv'
  BY <1>4, SaveEditInv, EditsInv, Zenon
<1>5. CASE sign_out_mcps \/ Delete \/ Expire
  BY <1>5, EditsInv, Zenon
<1>6. CASE Restart
  BY <1>6, RestartInv
<1>7. CASE UNCHANGED vars
  <2>1. UNCHANGED << rowVars, provider, taskVars, callerVars, flowVars, editVars >>
    BY <1>7 DEF vars
  <2>2. RowTypes' /\ RowQuiet /\ EditTypes'
    BY <2>1, RowStays, SameTypes, TypeParts DEF Inv
  <2> QED BY <2>1, <2>2, RowStep
<1> QED BY <1>1, <1>2, <1>3, <1>4, <1>5, <1>6, <1>7, Zenon DEF Next

\* So it always holds.
LEMMA InvAlways == Spec => []Inv
BY InvInit, InvNext, PTL DEF Spec

\* Every variable has its type, and a caller that waits does so for a renewal
\* (the mutex of `pending_refreshes`).
THEOREM UpstreamTypes == Spec => []TypeOK
<1>1. Inv => TypeOK
  BY DEF Inv
<1> QED BY <1>1, InvAlways, PTL

\* `refresh_oauth_access_token`: "Refresh once per MCP", whatever callers,
\* edits, sign-ins and restarts do meanwhile.
THEOREM TokensArePresentedOnce == Spec => []PresentedOnce
<1>1. Inv => PresentedOnce
  BY DEF Inv, AskOf, PresentedOnce
<1> QED BY <1>1, InvAlways, PTL

\* `refresh_oauth_access_token`: those who waited use the token that was saved,
\* not the one from before.
THEOREM WaitersGoOn == Spec => []WaitersMoveOn
<1>1. Inv => WaitersMoveOn
  BY DEF Inv, CallerOf, WaitersMoveOn
<1> QED BY <1>1, InvAlways, PTL

\* `save_oauth_step`: while no update fails, the tokens in the row were issued
\* for the destination and the sign-in it names now.
THEOREM SignInsAreIntact == ~ DbFails => (Spec => []SignInIntact)
<1> SUFFICES ASSUME ~ DbFails PROVE Spec => []SignInIntact
  OBVIOUS
<1>1. Inv => SignInIntact
  BY DEF Inv
<1> QED BY <1>1, InvAlways, PTL

\* `connect_http_upstream`: while no update fails, a token goes only to the
\* destination it was issued for.
THEOREM TokensAreSentHome == ~ DbFails => (Spec => []TokensStayHome)
<1> SUFFICES ASSUME ~ DbFails PROVE Spec => []TokensStayHome
  OBVIOUS
<1>1. Inv => TokensStayHome
  BY DEF Inv
<1> QED BY <1>1, InvAlways, PTL
=============================================================================
