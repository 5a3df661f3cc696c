-------------------------- MODULE OauthGrantsProofs --------------------------
(***************************************************************************)
(* Proofs about OauthGrants, for any number of requests, consents, clients *)
(* and people: tokens are traded once, replays and revocations end their   *)
(* grant, nobody who left keeps a token, clients keep to their own grants, *)
(* and the server implements GrantPromise.                                 *)
(***************************************************************************)
EXTENDS OauthGrants, TLAPS

-----------------------------------------------------------------------------
(***************************************************************************)
(* The inductive invariant.                                                *)
(***************************************************************************)

\* The steps of a request of each kind.
Fits(kind, p) ==
  \/ kind = "none" /\ p = "idle"
  \/ kind = "exchange" /\ p \in {"code", "redeem", "done"}
  \/ kind = "refresh" /\ p \in {"history", "suspect", "revoking", "current", "rotate", "done"}
  \/ kind = "revoke" /\ p \in {"find", "history", "suspect", "revoking", "done"}
  \/ kind = "close" /\ p \in {"load", "revoking", "done"}
  \/ kind = "narrow" /\ p \in {"load", "narrowing", "done"}

\* What a request knows: what it names exists, and the grant it found is a
\* row that was stored.
ShapeOf(r) ==
  /\ Fits(call[r].kind, pc[r])
  /\ pc[r] # "done" => result[r] = "none"
  /\ call[r].kind = "exchange" => call[r].given \in Codes
  /\ call[r].kind \in {"refresh", "revoke"}
       => call[r].given \in Requests /\ Issued(call[r].given)
  /\ call[r].kind \in {"close", "narrow"}
       => call[r].given \in Requests /\ grants[call[r].given].at # "none"
  /\ call[r].kind = "refresh" => call[r].type = "refresh"
  /\ pc[r] \in {"suspect", "rotate", "revoking", "narrowing"}
       => found[r] \in Requests /\ grants[found[r]].at # "none"
  /\ result[r] = "granted" => call[r].kind = "exchange" /\ found[r] = r
  /\ result[r] = "rotated" => call[r].kind = "refresh"
  /\ Issued(r) => found[r] \in Requests /\ grants[found[r]].at # "none"

\* What a row knows of the requests that wrote it.
RowOf(g) ==
  grants[g].at # "none" =>
    /\ result[g] = "granted"
    /\ grants[g].code \in Codes
    /\ grants[g].pair \in Requests
    /\ Issued(grants[g].pair)
    /\ Owner(grants[g].pair) = g

\* A code that was traded is gone; a refresh token that was traded is not the
\* latest of its grant.
SpentOf(r) ==
  /\ result[r] = "granted" => codes[call[r].given].at = "gone"
  /\ result[r] = "rotated" =>
       /\ Owner(call[r].given) = found[r]
       /\ grants[found[r]].pair # call[r].given

Shape == \A r \in Requests : ShapeOf(r)
Rows == \A g \in Requests : RowOf(g)
Spent == \A r \in Requests : SpentOf(r)

\* The history names the grant a retired token belongs to.
HistoryOK == \A s \in Requests : history[s] # None => Issued(s) /\ history[s] = Owner(s)

Inv == TypeOK /\ Shape /\ Rows /\ Spent /\ HistoryOK /\ NoneForgotten /\ TradedOnce

-----------------------------------------------------------------------------

\* Nothing was handed out yet.
LEMMA InvInit == Init => Inv
<1> SUFFICES ASSUME Init PROVE Inv
  OBVIOUS
<1> USE DEF Init
<1>1. TypeOK
  BY DEF TypeOK, CodeRow, GrantRow, Call, Kinds, Steps, Results
<1>2. \A r \in Requests : ~ Issued(r) /\ grants[r].at = "none"
  BY DEF Issued
<1>3. Shape
  BY <1>2 DEF Shape, ShapeOf, Fits
<1>4. Rows /\ Spent /\ HistoryOK /\ NoneForgotten /\ TradedOnce
  BY <1>2 DEF Rows, RowOf, Spent, SpentOf, HistoryOK, NoneForgotten, TradedOnce
<1> QED BY <1>1, <1>3, <1>4 DEF Inv

-----------------------------------------------------------------------------
(***************************************************************************)
(* Every action but the two that hand out tokens leaves pairs and owners   *)
(* alone; what it may do to the rest is the same for all of them.          *)
(***************************************************************************)

\* Rows keep their code and pair and are never restored; the history loses
\* what belongs to deleted rows and nothing else; codes that are gone stay
\* gone.
RowsKept ==
  /\ \A g \in Requests :
       /\ grants'[g].at = "none" <=> grants[g].at = "none"
       /\ grants'[g].at = "stored" => grants[g].at = "stored"
       /\ grants'[g].code = grants[g].code
       /\ grants'[g].pair = grants[g].pair
       /\ grants'[g].renews = grants[g].renews
  /\ \A s \in Requests :
       /\ history'[s] # None => history'[s] = history[s]
       /\ history[s] # None /\ grants'[history[s]].at = "stored" => history'[s] = history[s]
  /\ \A k \in Codes : codes[k].at = "gone" => codes'[k].at = "gone"

\* Requests that were answered with tokens do not move, and nobody else is
\* answered with tokens.
RequestsKept ==
  \A r \in Requests :
    \/ /\ call'[r] = call[r] /\ pc'[r] = pc[r] /\ found'[r] = found[r]
       /\ result'[r] = result[r]
    \/ /\ ~ Issued(r)
       /\ result'[r] \notin {"granted", "rotated"}
       /\ ShapeOf(r)'

\* A step that hands out no tokens preserves the invariant.
LEMMA KeptInv ==
  ASSUME Inv, TypeOK', RowsKept, RequestsKept
  PROVE  Inv'
<1> USE DEF Inv
<1>1. \A r \in Requests : Issued(r)' <=> Issued(r)
  BY DEF RequestsKept, Issued
<1>2. \A r \in Requests : Issued(r) => /\ call'[r] = call[r] /\ found'[r] = found[r]
                                       /\ result'[r] = result[r]
  BY DEF RequestsKept, Issued
<1>3. Shape'
  <2> SUFFICES ASSUME NEW r \in Requests, call'[r] = call[r], pc'[r] = pc[r],
                      found'[r] = found[r], result'[r] = result[r]
               PROVE  ShapeOf(r)'
    BY DEF Shape, RequestsKept
  <2>1. ShapeOf(r)
    BY DEF Shape
  <2>2. \A g \in Requests : grants[g].at # "none" => grants'[g].at # "none"
    BY DEF RowsKept
  <2> QED BY <1>1, <2>1, <2>2 DEF ShapeOf
<1>4. Rows'
  <2> SUFFICES ASSUME NEW g \in Requests, grants'[g].at # "none"
               PROVE  /\ result'[g] = "granted"
                      /\ grants'[g].code \in Codes
                      /\ grants'[g].pair \in Requests
                      /\ Issued(grants[g].pair)'
                      /\ found'[grants'[g].pair] = g
    BY DEF Rows, RowOf, Owner
  <2>1. /\ grants[g].at # "none"
        /\ grants'[g].code = grants[g].code
        /\ grants'[g].pair = grants[g].pair
    BY DEF RowsKept
  <2>2. /\ result[g] = "granted" /\ grants[g].code \in Codes
        /\ grants[g].pair \in Requests /\ Issued(grants[g].pair)
        /\ found[grants[g].pair] = g
    BY <2>1 DEF Rows, RowOf, Owner
  <2>3. Issued(g)
    BY <2>2 DEF Issued
  <2> QED BY <1>1, <1>2, <2>1, <2>2, <2>3
<1>5. Spent'
  <2> SUFFICES ASSUME NEW r \in Requests, Issued(r)' PROVE SpentOf(r)'
    BY DEF Spent, SpentOf, Issued
  <2>1. /\ Issued(r) /\ call'[r] = call[r] /\ found'[r] = found[r]
        /\ result'[r] = result[r]
    BY <1>1, <1>2
  <2>2. SpentOf(r) /\ ShapeOf(r)
    BY DEF Spent, Shape
  <2>3. CASE result[r] = "granted"
    BY <2>1, <2>2, <2>3 DEF SpentOf, ShapeOf, RowsKept
  <2>4. CASE result[r] = "rotated"
    <3>1. /\ call[r].given \in Requests /\ Issued(call[r].given)
          /\ found[r] \in Requests
      BY <2>1, <2>2, <2>4 DEF ShapeOf
    <3>2. found'[call[r].given] = found[call[r].given]
      BY <1>2, <3>1
    <3> QED BY <2>1, <2>2, <2>4, <3>1, <3>2 DEF SpentOf, RowsKept, Owner
  <2> QED BY <2>1, <2>3, <2>4 DEF Issued
<1>6. HistoryOK'
  BY <1>1, <1>2 DEF HistoryOK, RowsKept, Owner
<1>7. NoneForgotten'
  <2> SUFFICES ASSUME NEW s \in Requests, Issued(s)', Stored(Owner(s))',
                      grants'[Owner(s)'].renews
               PROVE  grants'[Owner(s)'].pair = s \/ history'[s] = Owner(s)'
    BY DEF NoneForgotten
  <2>1. Issued(s) /\ Owner(s)' = Owner(s) /\ Owner(s) \in Requests
    BY <1>1, <1>2 DEF Owner, Shape, ShapeOf, Issued
  <2>2. Stored(Owner(s)) /\ grants[Owner(s)].renews
    BY <2>1 DEF RowsKept, Stored
  <2>3. grants[Owner(s)].pair = s \/ history[s] = Owner(s)
    BY <2>1, <2>2 DEF NoneForgotten
  <2> QED BY <2>1, <2>3, GrantConstants DEF RowsKept, Stored
<1>8. TradedOnce'
  BY <1>1, <1>2 DEF TradedOnce, Issued
<1> QED BY <1>3, <1>4, <1>5, <1>6, <1>7, <1>8

\* A step of one request that writes no table and hands out no tokens.
LEMMA LocalInv ==
  ASSUME Inv, NEW r \in Requests, pc[r] # "done",
         UNCHANGED tables,
         call' \in [Requests -> Call], pc' \in [Requests -> Steps],
         found' \in [Requests -> Requests \cup {None}],
         again' \in [Requests -> BOOLEAN], result' \in [Requests -> Results],
         \A q \in Requests \ {r} : /\ call'[q] = call[q] /\ pc'[q] = pc[q]
                                   /\ found'[q] = found[q] /\ result'[q] = result[q],
         result'[r] \notin {"granted", "rotated"}, ShapeOf(r)'
  PROVE  Inv'
<1>1. TypeOK'
  BY DEF Inv, TypeOK, Stored, tables
<1>2. RowsKept
  BY DEF RowsKept, tables
<1>3. ~ Issued(r)
  BY DEF Inv, Shape, ShapeOf, Issued
<1>4. RequestsKept
  BY <1>3 DEF RequestsKept
<1> QED BY <1>1, <1>2, <1>4, KeptInv

\* A request that arrives.
LEMMA BeginInv ==
  ASSUME Inv, NEW r \in Requests,
         NEW kind \in Kinds, NEW given, NEW type \in {"access", "refresh"},
         NEW client \in Clients \cup {None}, NEW asks \in BOOLEAN,
         Begin(r, kind, given, type, client, asks),
         kind = "exchange" => given \in Codes,
         kind \in {"refresh", "revoke"} => given \in Requests /\ Issued(given),
         kind \in {"close", "narrow"} => given \in Requests /\ Stored(given),
         kind = "refresh" => type = "refresh"
  PROVE  Inv'
<1>1. given \in Requests \cup Codes
  BY DEF Kinds
<1>2. /\ call \in [Requests -> Call] /\ pc \in [Requests -> Steps]
      /\ found \in [Requests -> Requests \cup {None}]
      /\ again \in [Requests -> BOOLEAN] /\ result \in [Requests -> Results]
  BY DEF Inv, TypeOK
<1>3. /\ pc[r] = "idle" /\ UNCHANGED << found, again, result >> /\ UNCHANGED tables
      /\ pc' = [pc EXCEPT ![r] = FirstStep(kind)]
  BY DEF Begin
<1> DEFINE c == [kind |-> kind, given |-> given, type |-> type, client |-> client,
                 asks |-> asks, replay |-> kind = "refresh" /\ history[given] # None]
<1>4. c \in Call
  BY <1>1 DEF Call
<1>5. call' = [call EXCEPT ![r] = c]
  BY DEF Begin
<1>6. c.kind = kind /\ c.given = given /\ c.type = type
  OBVIOUS
<1> HIDE DEF c
<1>7. /\ call' \in [Requests -> Call] /\ call'[r] = c
      /\ \A q \in Requests \ {r} : call'[q] = call[q]
  BY <1>2, <1>4, <1>5
<1>8. FirstStep(kind) \in {"code", "history", "find", "load"}
  BY DEF FirstStep
<1>9. /\ pc' \in [Requests -> Steps] /\ pc'[r] = FirstStep(kind)
      /\ \A q \in Requests \ {r} : pc'[q] = pc[q]
  BY <1>2, <1>3, <1>8 DEF Steps
<1>10. result[r] = "none"
  BY <1>3 DEF Inv, Shape, ShapeOf
<1>11. Fits(call'[r].kind, pc'[r])
  BY <1>6, <1>7, <1>9 DEF Fits, FirstStep, Kinds
<1>12. ShapeOf(r)'
  BY <1>3, <1>6, <1>7, <1>8, <1>9, <1>10, <1>11 DEF ShapeOf, Issued, Stored, tables
<1> QED BY <1>2, <1>3, <1>7, <1>9, <1>10, <1>12, LocalInv

\* Steps that keep hold of a grant.
Holding == {"suspect", "rotate", "revoking", "narrowing"}

\* A request goes on with another statement, or is answered without tokens.
LEMMA MoveInv ==
  ASSUME Inv, NEW r \in Requests, pc[r] # "done",
         UNCHANGED tables, UNCHANGED call,
         NEW p \in Steps, pc' = [pc EXCEPT ![r] = p],
         found' \in [Requests -> Requests \cup {None}],
         again' \in [Requests -> BOOLEAN], result' \in [Requests -> Results],
         \A q \in Requests \ {r} : found'[q] = found[q] /\ result'[q] = result[q],
         result'[r] \notin {"granted", "rotated"},
         p # "done" => result'[r] = "none",
         Fits(call[r].kind, p),
         p \in Holding => found'[r] \in Requests /\ grants[found'[r]].at # "none"
  PROVE  Inv'
<1>1. /\ pc' \in [Requests -> Steps] /\ pc'[r] = p
      /\ \A q \in Requests \ {r} : pc'[q] = pc[q]
  BY DEF Inv, TypeOK
<1>2. call' \in [Requests -> Call] /\ call'[r] = call[r]
  BY DEF Inv, TypeOK
<1>3. ShapeOf(r)
  BY DEF Inv, Shape
<1>4. \A s \in Requests : Issued(s) => Issued(s)'
  BY <1>3 DEF Issued, ShapeOf
<1>5. ShapeOf(r)'
  BY <1>1, <1>2, <1>3, <1>4 DEF ShapeOf, Issued, Holding, tables
<1> QED BY <1>1, <1>2, <1>5, LocalInv

\* The same, for each way of saying it in the model.
LEMMA GotoInv ==
  ASSUME Inv, NEW r \in Requests, pc[r] # "done", UNCHANGED tables,
         NEW p \in Steps \ (Holding \cup {"done"}), Goto(r, p), Fits(call[r].kind, p)
  PROVE  Inv'
<1>1. result[r] = "none"
  BY DEF Inv, Shape, ShapeOf
<1>2. /\ found' \in [Requests -> Requests \cup {None}]
      /\ again' \in [Requests -> BOOLEAN] /\ result' \in [Requests -> Results]
      /\ \A q \in Requests : found'[q] = found[q] /\ result'[q] = result[q]
  BY DEF Inv, TypeOK, Goto
<1>3. UNCHANGED call /\ pc' = [pc EXCEPT ![r] = p]
  BY DEF Goto
<1> QED BY <1>1, <1>2, <1>3, MoveInv

\* A step that only moves on with the grant it found preserves the invariant.
LEMMA GotoWithInv ==
  ASSUME Inv, NEW r \in Requests, pc[r] # "done", UNCHANGED tables,
         NEW p \in Steps \ {"done"}, NEW g \in Requests, GotoWith(r, p, g),
         Fits(call[r].kind, p), grants[g].at # "none"
  PROVE  Inv'
<1>1. result[r] = "none"
  BY DEF Inv, Shape, ShapeOf
<1>2. /\ found' \in [Requests -> Requests \cup {None}] /\ found'[r] = g
      /\ again' \in [Requests -> BOOLEAN] /\ result' \in [Requests -> Results]
      /\ \A q \in Requests \ {r} : found'[q] = found[q] /\ result'[q] = result[q]
      /\ result'[r] = result[r]
  BY DEF Inv, TypeOK, GotoWith
<1>3. UNCHANGED call /\ pc' = [pc EXCEPT ![r] = p]
  BY DEF GotoWith
<1> QED BY <1>1, <1>2, <1>3, MoveInv

\* An answer that hands out no tokens preserves the invariant.
LEMMA AnswerInv ==
  ASSUME Inv, NEW r \in Requests, pc[r] \notin {"done", "idle"}, UNCHANGED tables,
         NEW res \in Results \ {"granted", "rotated"}, Answer(r, res)
  PROVE  Inv'
<1>1. /\ found' \in [Requests -> Requests \cup {None}]
      /\ again' \in [Requests -> BOOLEAN] /\ result' \in [Requests -> Results]
      /\ \A q \in Requests \ {r} : found'[q] = found[q] /\ result'[q] = result[q]
      /\ result'[r] = res
  BY DEF Inv, TypeOK, Answer
<1>2. Fits(call[r].kind, "done")
  BY DEF Inv, Shape, ShapeOf, Fits
<1>3. UNCHANGED call /\ pc' = [pc EXCEPT ![r] = "done"]
  BY DEF Answer
<1>4. "done" \in Steps /\ "done" \notin Holding
  BY DEF Steps, Holding
<1> QED BY <1>1, <1>2, <1>3, <1>4, MoveInv

-----------------------------------------------------------------------------
(***************************************************************************)
(* The steps of a request that only read.                                  *)
(***************************************************************************)

\* The request found the grant it should end.
LEMMA FoundInv ==
  ASSUME Inv, NEW r \in Requests, NEW g \in Requests, Found(r, g), Stored(g),
         UNCHANGED tables, pc[r] \in {"suspect", "find"}
  PROVE  Inv'
<1>1. Fits(call[r].kind, "revoking")
  BY DEF Inv, Shape, ShapeOf, Fits
<1>2. grants[g].at # "none"
  BY DEF Stored
<1>3. CASE GotoWith(r, "revoking", g)
  BY <1>1, <1>2, <1>3, GotoWithInv DEF Steps
<1>4. CASE Answer(r, "reused") \/ Answer(r, "revoked")
  BY <1>4, AnswerInv DEF Results
<1> QED BY <1>3, <1>4 DEF Found

\* The token is in no history.
LEMMA NotRetiredInv ==
  ASSUME Inv, NEW r \in Requests, NotRetired(r), UNCHANGED tables,
         pc[r] \in {"history", "suspect"}
  PROVE  Inv'
<1>1. CASE Answer(r, "unknown") \/ Answer(r, "invalid")
  BY <1>1, AnswerInv DEF Results
<1>2. CASE call[r].kind # "revoke" /\ Goto(r, "current")
  <2>1. Fits(call[r].kind, "current")
    BY <1>2 DEF Inv, Shape, ShapeOf, Fits
  <2> QED BY <1>2, <2>1, GotoInv DEF Steps, Holding
<1> QED BY <1>1, <1>2 DEF NotRetired

\* The statements that only read the tables preserve the invariant.
LEMMA ReadInv ==
  ASSUME Inv, NEW r \in Requests,
         \/ ReadCode(r) \/ LookUp(r) \/ Suspect(r) \/ ReadCurrent(r)
         \/ Find(r) \/ Load(r)
  PROVE  Inv'
<1>1. CASE ReadCode(r)
  <2>1. pc[r] = "code" /\ UNCHANGED tables /\ (Goto(r, "redeem") \/ Answer(r, "invalid"))
    BY <1>1 DEF ReadCode
  <2>2. Fits(call[r].kind, "redeem")
    BY <2>1 DEF Inv, Shape, ShapeOf, Fits
  <2> QED BY <2>1, <2>2, GotoInv, AnswerInv DEF Steps, Holding, Results
<1>2. CASE LookUp(r)
  <2>1. pc[r] = "history" /\ UNCHANGED tables /\ call[r].given \in Requests
    BY <1>2 DEF LookUp, Inv, Shape, ShapeOf, Fits
  <2>2. CASE NotRetired(r)
    BY <2>1, <2>2, NotRetiredInv
  <2>3. CASE history[call[r].given] # None /\ GotoWith(r, "suspect", history[call[r].given])
    <3> DEFINE g == history[call[r].given]
    <3>1. g \in Requests /\ grants[g].at # "none"
      BY <2>1, <2>3 DEF Inv, TypeOK, Stored
    <3>2. Fits(call[r].kind, "suspect")
      BY <2>1 DEF Inv, Shape, ShapeOf, Fits
    <3>3. GotoWith(r, "suspect", g)
      BY <2>3
    <3> HIDE DEF g
    <3> QED BY <2>1, <3>1, <3>2, <3>3, GotoWithInv DEF Steps
  <2> QED BY <1>2, <2>2, <2>3 DEF LookUp
<1>3. CASE Suspect(r)
  <2>1. pc[r] = "suspect" /\ UNCHANGED tables /\ found[r] \in Requests
    BY <1>3 DEF Suspect, Inv, Shape, ShapeOf
  <2>2. NotRetired(r) \/ (Found(r, found[r]) /\ Stored(found[r]))
    BY <1>3 DEF Suspect, OfClient
  <2> QED BY <2>1, <2>2, NotRetiredInv, FoundInv
<1>4. CASE ReadCurrent(r)
  <2>1. pc[r] = "current" /\ UNCHANGED tables
    BY <1>4 DEF ReadCurrent
  <2>2. CASE Answer(r, "invalid") \/ Answer(r, "exceeded")
    BY <2>1, <2>2, AnswerInv DEF Results
  <2>3. CASE \E g \in Renewing(call[r].given) : GotoWith(r, "rotate", g)
    <3>1. PICK g \in Requests : Stored(g) /\ GotoWith(r, "rotate", g)
      BY <2>3 DEF Renewing
    <3>2. Fits(call[r].kind, "rotate")
      BY <2>1 DEF Inv, Shape, ShapeOf, Fits
    <3>3. grants[g].at # "none"
      BY <3>1 DEF Stored
    <3> QED BY <2>1, <3>1, <3>2, <3>3, GotoWithInv DEF Steps
  <2> QED BY <1>4, <2>2, <2>3 DEF ReadCurrent
<1>5. CASE Find(r)
  <2>1. pc[r] = "find" /\ UNCHANGED tables
    BY <1>5 DEF Find
  <2>2. CASE Goto(r, "history")
    <3>1. Fits(call[r].kind, "history")
      BY <2>1 DEF Inv, Shape, ShapeOf, Fits
    <3> QED BY <2>1, <2>2, <3>1, GotoInv DEF Steps, Holding
  <2>3. CASE \E g \in Requests : Stored(g) /\ Found(r, g)
    BY <2>1, <2>3, FoundInv
  <2> QED BY <1>5, <2>2, <2>3 DEF Find, Unheld
<1>6. CASE Load(r)
  <2>1. pc[r] = "load" /\ UNCHANGED tables /\ call[r].given \in Requests
    BY <1>6 DEF Load, Inv, Shape, ShapeOf, Fits
  <2>2. CASE Answer(r, "refused")
    BY <2>1, <2>2, AnswerInv DEF Results
  <2>3. CASE /\ Stored(call[r].given)
             /\ GotoWith(r, IF call[r].kind = "narrow" THEN "narrowing" ELSE "revoking",
                         call[r].given)
    <3>1. grants[call[r].given].at # "none"
      BY <2>3 DEF Stored
    <3>2. CASE call[r].kind = "narrow" /\ GotoWith(r, "narrowing", call[r].given)
      <4>1. Fits(call[r].kind, "narrowing")
        BY <3>2 DEF Fits
      <4> QED BY <2>1, <3>1, <3>2, <4>1, GotoWithInv DEF Steps
    <3>3. CASE call[r].kind # "narrow" /\ GotoWith(r, "revoking", call[r].given)
      <4>1. Fits(call[r].kind, "revoking")
        BY <2>1, <3>3 DEF Inv, Shape, ShapeOf, Fits
      <4> QED BY <2>1, <3>1, <3>3, <4>1, GotoWithInv DEF Steps
    <3> QED BY <2>3, <3>2, <3>3
  <2> QED BY <1>6, <2>2, <2>3 DEF Load
<1> QED BY <1>1, <1>2, <1>3, <1>4, <1>5, <1>6

\* A request comes in.
LEMMA ComeInv ==
  ASSUME Inv, NEW r \in Requests, Arrive(r) \/ Manage(r)
  PROVE  Inv'
<1>1. CASE Arrive(r)
  <2>1. PICK client \in Clients :
          \/ \E k \in Codes : Begin(r, "exchange", k, "refresh", client, FALSE)
          \/ \E s \in Requests, asks \in BOOLEAN :
               Issued(s) /\ Begin(r, "refresh", s, "refresh", client, asks)
          \/ \E s \in Requests, type \in {"access", "refresh"} :
               Issued(s) /\ Begin(r, "revoke", s, type, client, FALSE)
    BY <1>1 DEF Arrive
  <2>2. CASE \E k \in Codes : Begin(r, "exchange", k, "refresh", client, FALSE)
    BY <2>2, BeginInv DEF Kinds
  <2>3. CASE \E s \in Requests, asks \in BOOLEAN :
               Issued(s) /\ Begin(r, "refresh", s, "refresh", client, asks)
    BY <2>3, BeginInv DEF Kinds
  <2>4. CASE \E s \in Requests, type \in {"access", "refresh"} :
               Issued(s) /\ Begin(r, "revoke", s, type, client, FALSE)
    BY <2>4, BeginInv DEF Kinds
  <2> QED BY <2>1, <2>2, <2>3, <2>4
<1>2. CASE Manage(r)
  <2>1. PICK g \in Requests, kind \in {"close", "narrow"} :
          Stored(g) /\ Begin(r, kind, g, "refresh", None, FALSE)
    BY <1>2 DEF Manage
  <2> QED BY <2>1, BeginInv DEF Kinds
<1> QED BY <1>1, <1>2

-----------------------------------------------------------------------------
(***************************************************************************)
(* The steps that write a table and hand out no tokens.                    *)
(***************************************************************************)

LocalTypes ==
  /\ call \in [Requests -> Call] /\ pc \in [Requests -> Steps]
  /\ found \in [Requests -> Requests \cup {None}]
  /\ again \in [Requests -> BOOLEAN] /\ result \in [Requests -> Results]

\* A request is answered while it writes.
LEMMA AnsweredKept ==
  ASSUME Inv, NEW r \in Requests, pc[r] \notin {"done", "idle"}, RowsKept,
         NEW res \in Results \ {"granted", "rotated"}, Answer(r, res)
  PROVE  RequestsKept /\ LocalTypes'
<1>1. LocalTypes'
  BY DEF Inv, TypeOK, LocalTypes, Answer, Steps
<1>2. ShapeOf(r) /\ call'[r] = call[r] /\ found'[r] = found[r] /\ pc'[r] = "done"
      /\ result'[r] = res
  BY DEF Inv, TypeOK, Shape, Answer
<1>3. \A q \in Requests \ {r} : /\ call'[q] = call[q] /\ pc'[q] = pc[q]
                                /\ found'[q] = found[q] /\ result'[q] = result[q]
  BY DEF Inv, TypeOK, Answer
<1>4. ~ Issued(r)
  BY <1>2 DEF ShapeOf, Issued
<1>5. \A s \in Requests : Issued(s) => Issued(s)'
  BY <1>3, <1>4 DEF Issued
<1>6. Fits(call[r].kind, "done")
  BY <1>2 DEF ShapeOf, Fits
<1>7. \A g \in Requests : grants[g].at # "none" => grants'[g].at # "none"
  BY DEF RowsKept
<1>8. ShapeOf(r)'
  BY <1>2, <1>5, <1>6, <1>7 DEF ShapeOf, Issued
<1>9. RequestsKept
  BY <1>2, <1>3, <1>4, <1>8 DEF RequestsKept
<1> QED BY <1>1, <1>9

\* `revoke` and `remove_mcp_management`: one column of one row.
LEMMA ColumnInv ==
  ASSUME Inv, NEW r \in Requests, revoke(r) \/ remove_mcp_management(r)
  PROVE  Inv'
<1>1. /\ pc[r] \in {"revoking", "narrowing"} /\ found[r] \in Requests
      /\ UNCHANGED << member, codes, history, late >>
  BY DEF revoke, remove_mcp_management, Inv, Shape, ShapeOf
<1>2. \/ grants' = grants
      \/ grants' = [grants EXCEPT ![found[r]].revoked = TRUE]
      \/ grants' = [grants EXCEPT ![found[r]].manage = FALSE]
  BY DEF revoke, remove_mcp_management
<1>3. PICK res \in Results \ {"granted", "rotated"} : Answer(r, res)
  <2>1. CASE revoke(r)
    BY <2>1 DEF revoke, Results
  <2>2. CASE remove_mcp_management(r)
    BY <2>2 DEF remove_mcp_management, Results
  <2> QED BY <2>1, <2>2
<1>4. grants \in [Requests -> GrantRow]
  BY DEF Inv, TypeOK
<1>5. grants' \in [Requests -> GrantRow]
  <2>1. CASE grants' = [grants EXCEPT ![found[r]].revoked = TRUE]
    BY <1>1, <1>4, <2>1 DEF GrantRow
  <2>2. CASE grants' = [grants EXCEPT ![found[r]].manage = FALSE]
    BY <1>1, <1>4, <2>2 DEF GrantRow
  <2> QED BY <1>2, <1>4, <2>1, <2>2
<1>6. \A g \in Requests :
        /\ grants'[g].at = grants[g].at /\ grants'[g].code = grants[g].code
        /\ grants'[g].pair = grants[g].pair /\ grants'[g].renews = grants[g].renews
  BY <1>1, <1>2, <1>4 DEF GrantRow
<1>7. RowsKept
  BY <1>1, <1>6 DEF RowsKept
<1>8. RequestsKept /\ LocalTypes'
  BY <1>1, <1>3, <1>7, AnsweredKept
<1>9. TypeOK'
  BY <1>1, <1>5, <1>6, <1>8 DEF Inv, TypeOK, LocalTypes, Stored
<1> QED BY <1>7, <1>8, <1>9, KeptInv

\* Steps of nobody's request.
LEMMA OutsideInv ==
  ASSUME Inv, UNCHANGED locals,
         member' \in [People -> BOOLEAN], codes' \in [Codes -> CodeRow],
         grants' \in [Requests -> GrantRow], late' \in SUBSET Codes,
         history' \in [Requests -> Requests \cup {None}],
         \A s \in Requests : history'[s] # None => grants'[history'[s]].at = "stored",
         RowsKept
  PROVE  Inv'
<1>1. TypeOK'
  BY DEF Inv, TypeOK, locals, Stored
<1>2. RequestsKept
  BY DEF RequestsKept, locals
<1> QED BY <1>1, <1>2, KeptInv

\* The steps of a consent preserve the invariant.
LEMMA ConsentInv ==
  ASSUME Inv, NEW k \in Codes, Consent(k)
  PROVE  Inv'
<1>1. UNCHANGED << member, grants, history, locals >>
  BY DEF Consent, Visit, CheckRole, Sweep, create_authorization_code
<1>2. codes \in [Codes -> CodeRow] /\ late \in SUBSET Codes
  BY DEF Inv, TypeOK
<1>3. codes' \in [Codes -> CodeRow]
  <2>1. CASE Visit(k)
    BY <1>2, <2>1 DEF Visit, CodeRow
  <2>2. CASE CheckRole(k)
    BY <1>2, <2>2 DEF CheckRole, CodeRow
  <2>3. CASE create_authorization_code(k)
    BY <1>2, <2>3 DEF create_authorization_code, CodeRow
  <2>4. CASE Sweep(k)
    BY <1>2, <2>4 DEF Sweep, CodeRow
  <2> QED BY <2>1, <2>2, <2>3, <2>4 DEF Consent
<1>4. late' \in SUBSET Codes
  BY <1>2 DEF Consent, Visit, CheckRole, Sweep, create_authorization_code
<1>5. \A j \in Codes : codes[j].at = "gone" => codes'[j].at = "gone"
  <2>1. CASE Visit(k)
    BY <1>2, <2>1 DEF Visit, CodeRow
  <2>2. CASE CheckRole(k)
    BY <1>2, <2>2 DEF CheckRole, CodeRow
  <2>3. CASE create_authorization_code(k)
    BY <1>2, <2>3 DEF create_authorization_code, CodeRow
  <2>4. CASE Sweep(k)
    BY <1>2, <2>4 DEF Sweep, CodeRow
  <2> QED BY <2>1, <2>2, <2>3, <2>4 DEF Consent
<1>6. RowsKept
  BY <1>1, <1>5 DEF RowsKept
<1> QED BY <1>1, <1>3, <1>4, <1>6, OutsideInv DEF Inv, TypeOK, Stored

\* Leaving the team revokes and deletes, which preserves the invariant.
LEMMA DetachInv ==
  ASSUME Inv, NEW p \in People, detach(p)
  PROVE  Inv'
<1>1. UNCHANGED << history, late, locals >>
  BY DEF detach
<1>2. codes \in [Codes -> CodeRow] /\ grants \in [Requests -> GrantRow]
  BY DEF Inv, TypeOK
<1>3. /\ codes' \in [Codes -> CodeRow]
      /\ \A j \in Codes : codes[j].at = "gone" => codes'[j].at = "gone"
  BY <1>2 DEF detach, CodeRow, Forfeited
<1>4. /\ grants' \in [Requests -> GrantRow]
      /\ \A g \in Requests :
           /\ grants'[g].at = grants[g].at /\ grants'[g].code = grants[g].code
           /\ grants'[g].pair = grants[g].pair /\ grants'[g].renews = grants[g].renews
  BY <1>2 DEF detach, GrantRow
<1>5. member' \in [People -> BOOLEAN]
  BY DEF detach, Inv, TypeOK
<1>6. RowsKept
  BY <1>1, <1>3, <1>4 DEF RowsKept
<1> QED BY <1>1, <1>3, <1>4, <1>5, <1>6, OutsideInv DEF Inv, TypeOK, Stored

\* Deleting a grant takes its history along, which preserves the invariant.
LEMMA DeleteInv ==
  ASSUME Inv, NEW g \in Requests, delete_inactive(g)
  PROVE  Inv'
<1>1. UNCHANGED << member, codes, late, locals >>
  BY DEF delete_inactive
<1>2. /\ grants \in [Requests -> GrantRow] /\ history \in [Requests -> Requests \cup {None}]
      /\ Stored(g)
  BY DEF Inv, TypeOK, delete_inactive
<1>3. /\ grants' \in [Requests -> GrantRow] /\ grants'[g].at = "gone"
      /\ \A h \in Requests :
           /\ h # g => grants'[h] = grants[h]
           /\ grants'[h].code = grants[h].code
           /\ grants'[h].pair = grants[h].pair /\ grants'[h].renews = grants[h].renews
  BY <1>2 DEF delete_inactive, GrantRow
<1>4. history' = [s \in Requests |-> IF history[s] = g THEN None ELSE history[s]]
  BY DEF delete_inactive, Cascade
<1>5. history' \in [Requests -> Requests \cup {None}]
  BY <1>2, <1>4
<1>6. RowsKept
  BY <1>1, <1>2, <1>3, <1>4, GrantConstants DEF RowsKept, Stored
<1>7. \A s \in Requests : history'[s] # None => grants'[history'[s]].at = "stored"
  BY <1>2, <1>3, <1>4 DEF Inv, TypeOK, Stored
<1> QED BY <1>1, <1>3, <1>5, <1>6, <1>7, OutsideInv DEF Inv, TypeOK

\* Time passing preserves the invariant.
LEMMA ExpireInv ==
  ASSUME Inv, Expire
  PROVE  Inv'
<1>1. UNCHANGED << member, history, late, locals >>
  BY DEF Expire
<1>2. codes \in [Codes -> CodeRow] /\ grants \in [Requests -> GrantRow]
  BY DEF Inv, TypeOK
<1>3. /\ codes' \in [Codes -> CodeRow]
      /\ \A j \in Codes : codes[j].at = "gone" => codes'[j].at = "gone"
  BY <1>2 DEF Expire, CodeRow
<1>4. /\ grants' \in [Requests -> GrantRow]
      /\ \A g \in Requests :
           /\ grants'[g].at = grants[g].at /\ grants'[g].code = grants[g].code
           /\ grants'[g].pair = grants[g].pair /\ grants'[g].renews = grants[g].renews
  <2>1. CASE grants' = grants
    BY <1>2, <2>1
  <2>2. CASE \E g \in Requests : grants' = [grants EXCEPT ![g].fresh = FALSE]
    <3>1. PICK g \in Requests : grants' = [grants EXCEPT ![g].fresh = FALSE]
      BY <2>2
    <3>2. grants' \in [Requests -> GrantRow]
      BY <1>2, <3>1 DEF GrantRow
    <3> QED BY <1>2, <3>1, <3>2 DEF GrantRow
  <2>3. CASE \E g \in Requests : grants' = [grants EXCEPT ![g].lasts = FALSE]
    <3>1. PICK g \in Requests : grants' = [grants EXCEPT ![g].lasts = FALSE]
      BY <2>3
    <3>2. grants' \in [Requests -> GrantRow]
      BY <1>2, <3>1 DEF GrantRow
    <3> QED BY <1>2, <3>1, <3>2 DEF GrantRow
  <2> QED BY <2>1, <2>2, <2>3 DEF Expire
<1>5. RowsKept
  BY <1>1, <1>3, <1>4 DEF RowsKept
<1> QED BY <1>1, <1>3, <1>4, <1>5, OutsideInv DEF Inv, TypeOK, Stored

-----------------------------------------------------------------------------
(***************************************************************************)
(* The two steps that hand out tokens.                                     *)
(***************************************************************************)

\* A code becomes a grant: nobody had traded it, for its row was still there.
LEMMA RedeemInv ==
  ASSUME Inv, NEW r \in Requests, Redeem(r)
  PROVE  Inv'
<1> DEFINE k == call[r].given
<1>1. /\ pc[r] = "redeem" /\ call[r].kind = "exchange" /\ result[r] = "none"
      /\ k \in Codes /\ UNCHANGED << member, history, late >>
  BY DEF Redeem, Inv, Shape, ShapeOf, Fits
<1>2. CASE Answer(r, "invalid") /\ UNCHANGED << codes, grants >>
  BY <1>1, <1>2, AnswerInv DEF Results, tables
<1>3. CASE /\ codes[k].at = "stored" /\ codes' = [codes EXCEPT ![k].at = "gone"]
           /\ grants' = [grants EXCEPT ![r] =
                           [at |-> "stored", code |-> k, pair |-> r,
                            renews |-> call[r].client \in Refreshing,
                            manage |-> k \in Manages, fresh |-> TRUE,
                            lasts |-> TRUE, revoked |-> FALSE]]
           /\ pc' = [pc EXCEPT ![r] = "done"]
           /\ result' = [result EXCEPT ![r] = "granted"]
           /\ found' = [found EXCEPT ![r] = r]
           /\ UNCHANGED << call, again >>
  <2> HIDE DEF k
  <2>1. TypeOK
    BY DEF Inv
  <2>2. /\ pc' \in [Requests -> Steps] /\ result' \in [Requests -> Results]
        /\ found' \in [Requests -> Requests \cup {None}]
        /\ pc'[r] = "done" /\ result'[r] = "granted" /\ found'[r] = r
        /\ \A q \in Requests \ {r} :
             pc'[q] = pc[q] /\ result'[q] = result[q] /\ found'[q] = found[q]
    BY <1>3, <2>1 DEF TypeOK, Steps, Results
  <2>3. /\ codes' \in [Codes -> CodeRow] /\ codes'[k].at = "gone"
        /\ \A j \in Codes : codes[j].at = "gone" => codes'[j].at = "gone"
    BY <1>1, <1>3, <2>1 DEF TypeOK, CodeRow
  <2>4. /\ grants' \in [Requests -> GrantRow]
        /\ grants'[r].at = "stored" /\ grants'[r].code = k /\ grants'[r].pair = r
        /\ \A g \in Requests \ {r} : grants'[g] = grants[g]
    BY <1>1, <1>3, <2>1 DEF TypeOK, GrantRow
  <2>5. ~ Issued(r) /\ grants[r].at = "none"
    BY <1>1 DEF Issued, Inv, Rows, RowOf
  <2>6. \A q \in Requests : Issued(q)' <=> Issued(q) \/ q = r
    BY <2>2 DEF Issued
  <2>7. call' = call /\ again' = again /\ history' = history /\ call[r].given = k
    BY <1>1, <1>3 DEF k
  <2>8. TypeOK'
    BY <1>1, <2>1, <2>2, <2>3, <2>4, <2>7 DEF TypeOK, Stored
  <2>9. Shape'
    <3> SUFFICES ASSUME NEW q \in Requests PROVE ShapeOf(q)'
      BY DEF Shape
    <3>1. CASE q = r
      BY <1>1, <2>2, <2>4, <2>7, <3>1 DEF ShapeOf, Fits, Issued
    <3>2. CASE q # r
      <4>1. ShapeOf(q)
        BY DEF Inv, Shape
      <4>2. \A g \in Requests : grants[g].at # "none" => grants'[g].at # "none"
        BY <2>4
      <4> QED BY <2>2, <2>6, <2>7, <3>2, <4>1, <4>2 DEF ShapeOf
    <3> QED BY <3>1, <3>2
  <2>10. Rows'
    <3> SUFFICES ASSUME NEW g \in Requests, g # r, grants[g].at # "none"
                 PROVE  RowOf(g)'
      BY <1>1, <2>2, <2>4, <2>6 DEF Rows, RowOf, Owner
    <3>1. RowOf(g)
      BY DEF Inv, Rows
    <3> QED BY <2>2, <2>4, <2>5, <2>6, <3>1 DEF RowOf, Owner
  <2>11. Spent'
    <3> SUFFICES ASSUME NEW q \in Requests, q # r, Issued(q) PROVE SpentOf(q)'
      BY <1>1, <2>2, <2>3, <2>6, <2>7 DEF Spent, SpentOf, Issued
    <3>1. SpentOf(q) /\ ShapeOf(q)
      BY DEF Inv, Spent, Shape
    <3>2. CASE result[q] = "granted"
      BY <2>2, <2>3, <2>7, <3>1, <3>2 DEF SpentOf, ShapeOf
    <3>3. CASE result[q] = "rotated"
      BY <2>2, <2>4, <2>5, <2>7, <3>1, <3>3 DEF SpentOf, ShapeOf, Owner, Issued
    <3> QED BY <3>2, <3>3 DEF Issued
  <2>12. HistoryOK'
    BY <2>2, <2>5, <2>6, <2>7 DEF Inv, HistoryOK, Owner
  <2>13. NoneForgotten'
    <3> SUFFICES ASSUME NEW s \in Requests, s # r, Issued(s), Stored(Owner(s))',
                        grants'[Owner(s)'].renews
                 PROVE  grants'[Owner(s)'].pair = s \/ history'[s] = Owner(s)'
      BY <2>2, <2>4, <2>6 DEF NoneForgotten, Owner
    <3>1. Owner(s)' = Owner(s) /\ Owner(s) \in Requests /\ Owner(s) # r
      BY <2>2, <2>5 DEF Owner, Inv, Shape, ShapeOf
    <3> QED BY <2>4, <2>7, <3>1 DEF Inv, NoneForgotten, Stored
  <2>14. TradedOnce'
    <3>1. \A q \in Requests : result[q] = "granted" => call[q].given # k
      BY <1>3, <2>1 DEF Inv, Spent, SpentOf
    <3> QED BY <2>2, <2>6, <2>7, <3>1 DEF Inv, TradedOnce, Issued
  <2> QED BY <2>8, <2>9, <2>10, <2>11, <2>12, <2>13, <2>14 DEF Inv
<1> QED BY <1>2, <1>3 DEF Redeem, Stocked

\* A refresh token is traded for the next pair: it was the latest one of its
\* grant, so nobody had traded it.
LEMMA RotateInv ==
  ASSUME Inv, NEW r \in Requests, Rotate(r)
  PROVE  Inv'
<1> DEFINE s == call[r].given
           g == found[r]
<1>1. /\ pc[r] = "rotate" /\ call[r].kind = "refresh" /\ result[r] = "none"
      /\ s \in Requests /\ Issued(s) /\ g \in Requests /\ grants[g].at # "none"
      /\ UNCHANGED << member, codes, late >>
  BY DEF Rotate, Inv, Shape, ShapeOf, Fits
<1>2. CASE Lost(r) /\ UNCHANGED << grants, history >>
  <2>1. /\ UNCHANGED tables /\ UNCHANGED call /\ pc' = [pc EXCEPT ![r] = "history"]
        /\ UNCHANGED << found, result >>
    BY <1>1, <1>2 DEF tables, Lost
  <2>2. again' \in [Requests -> BOOLEAN]
    BY <1>2 DEF Lost, Inv, TypeOK
  <2>3. Fits(call[r].kind, "history") /\ "history" \in Steps /\ "history" \notin Holding
    BY <1>1 DEF Fits, Steps, Holding
  <2> QED BY <1>1, <2>1, <2>2, <2>3, MoveInv DEF Inv, TypeOK
<1>3. CASE /\ Stored(g) /\ grants[g].pair = s
           /\ grants' = [grants EXCEPT ![g].pair = r, ![g].fresh = TRUE]
           /\ history' = [history EXCEPT ![s] = g]
           /\ Answer(r, "rotated")
  <2>1. TypeOK /\ call[r].given = s /\ found[r] = g
    BY DEF Inv
  <2> HIDE DEF s, g
  <2>2. /\ pc' \in [Requests -> Steps] /\ result' \in [Requests -> Results]
        /\ pc'[r] = "done" /\ result'[r] = "rotated"
        /\ \A q \in Requests \ {r} : pc'[q] = pc[q] /\ result'[q] = result[q]
        /\ UNCHANGED << call, found, again >>
    BY <1>3, <2>1 DEF TypeOK, Steps, Results, Answer
  <2>3. grants' \in [Requests -> GrantRow]
    <3>1. g \in Requests /\ grants \in [Requests -> GrantRow]
      BY <1>1, <2>1 DEF TypeOK
    <3>2. grants' = [grants EXCEPT ![g] = [grants[g] EXCEPT !.pair = r, !.fresh = TRUE]]
      BY <1>3, <3>1
    <3>3. [grants[g] EXCEPT !.pair = r, !.fresh = TRUE] \in GrantRow
      BY <3>1 DEF GrantRow
    <3> QED BY <3>1, <3>2, <3>3
  <2>4. /\ grants'[g].pair = r
        /\ \A h \in Requests \ {g} : grants'[h] = grants[h]
        /\ \A h \in Requests : /\ grants'[h].at = grants[h].at
                               /\ grants'[h].code = grants[h].code
                               /\ grants'[h].renews = grants[h].renews
    BY <1>1, <1>3, <2>1 DEF TypeOK, GrantRow
  <2>5. /\ history' \in [Requests -> Requests \cup {None}] /\ history'[s] = g
        /\ \A t \in Requests \ {s} : history'[t] = history[t]
    BY <1>1, <1>3, <2>1 DEF TypeOK
  <2>6. ~ Issued(r) /\ s # r
    BY <1>1 DEF Issued
  <2>7. \A q \in Requests : Issued(q)' <=> Issued(q) \/ q = r
    BY <2>2 DEF Issued
  <2>8. Owner(s) = g
    BY <1>1, <1>3 DEF Inv, Rows, RowOf
  <2>9. TypeOK'
    BY <1>1, <1>3, <2>1, <2>2, <2>3, <2>4, <2>5 DEF TypeOK, Stored
  <2>10. Shape'
    <3> SUFFICES ASSUME NEW q \in Requests PROVE ShapeOf(q)'
      BY DEF Shape
    <3>1. ShapeOf(q)
      BY DEF Inv, Shape
    <3>2. CASE q = r
      BY <1>1, <2>1, <2>2, <2>4, <2>7, <3>1, <3>2 DEF ShapeOf, Fits, Issued
    <3>3. CASE q # r
      BY <2>2, <2>4, <2>7, <3>1, <3>3 DEF ShapeOf
    <3> QED BY <3>2, <3>3
  <2>11. Rows'
    <3> SUFFICES ASSUME NEW h \in Requests, grants[h].at # "none" PROVE RowOf(h)'
      BY <2>4 DEF Rows, RowOf
    <3>1. RowOf(h)
      BY DEF Inv, Rows
    <3>2. result'[h] = "granted"
      BY <1>1, <2>2, <3>1 DEF RowOf
    <3>3. CASE h = g
      BY <2>1, <2>2, <2>4, <2>7, <3>1, <3>2, <3>3 DEF RowOf, Owner
    <3>4. CASE h # g
      BY <2>2, <2>4, <2>7, <3>1, <3>2, <3>4 DEF RowOf, Owner
    <3> QED BY <3>3, <3>4
  <2>12. Spent'
    <3> SUFFICES ASSUME NEW q \in Requests, Issued(q) \/ q = r PROVE SpentOf(q)'
      BY <2>7 DEF Spent, SpentOf, Issued
    <3>1. CASE q = r
      BY <2>1, <2>2, <2>4, <2>6, <2>8, <3>1 DEF SpentOf, Owner
    <3>2. CASE q # r /\ result[q] = "granted"
      BY <1>1, <2>2, <3>2 DEF SpentOf, Inv, Spent
    <3>3. CASE q # r /\ result[q] = "rotated"
      <4>1. SpentOf(q) /\ ShapeOf(q)
        BY DEF Inv, Spent, Shape
      <4>2. call[q].given \in Requests /\ Issued(call[q].given) /\ found[q] \in Requests
        BY <3>3, <4>1 DEF ShapeOf, Issued
      <4>3. call[q].given # r
        BY <2>6, <4>2
      <4>4. grants'[found[q]].pair # call[q].given
        BY <2>4, <3>3, <4>1, <4>2, <4>3 DEF SpentOf
      <4> QED BY <2>2, <3>3, <4>1, <4>4 DEF SpentOf, Owner
    <3> QED BY <3>1, <3>2, <3>3 DEF Issued
  <2>13. HistoryOK'
    BY <1>1, <2>2, <2>5, <2>7, <2>8 DEF Inv, HistoryOK, Owner
  <2>14. NoneForgotten'
    <3> SUFFICES ASSUME NEW t \in Requests, Issued(t) \/ t = r, Stored(Owner(t)),
                        grants[Owner(t)].renews, Owner(t) \in Requests
                 PROVE  grants'[Owner(t)].pair = t \/ history'[t] = Owner(t)
      <4>1. \A t \in Requests : Owner(t)' = Owner(t)
        BY <2>2 DEF Owner
      <4>2. \A t \in Requests : Issued(t) \/ t = r => Owner(t) \in Requests
        BY <1>1, <2>1 DEF Owner, Inv, Shape, ShapeOf
      <4> QED BY <2>4, <2>7, <4>1, <4>2 DEF NoneForgotten, Stored
    <3>1. CASE t = r
      BY <2>1, <2>4, <3>1 DEF Owner
    <3>2. CASE t = s
      BY <2>5, <2>8, <3>2
    <3>3. CASE t # r /\ t # s
      <4>1. grants[Owner(t)].pair = t \/ history[t] = Owner(t)
        BY <3>3 DEF Inv, NoneForgotten
      <4> QED BY <1>3, <2>4, <2>5, <3>3, <4>1
    <3> QED BY <3>1, <3>2, <3>3
  <2>15. TradedOnce'
    <3>1. \A q \in Requests : result[q] = "rotated" => call[q].given # s
      BY <1>3, <2>8 DEF Inv, Spent, SpentOf
    <3> QED BY <2>1, <2>2, <2>7, <3>1 DEF Inv, TradedOnce, Issued
  <2> QED BY <2>9, <2>10, <2>11, <2>12, <2>13, <2>14, <2>15 DEF Inv
<1> QED BY <1>2, <1>3 DEF Rotate, Unchanged, Retire, Renewing

-----------------------------------------------------------------------------

\* Every step preserves the invariant.
LEMMA InvNext == Inv /\ [Next]_vars => Inv'
<1> SUFFICES ASSUME Inv, [Next]_vars PROVE Inv'
  OBVIOUS
<1>1. ASSUME NEW k \in Codes, Consent(k) PROVE Inv'
  BY <1>1, ConsentInv
<1>2. ASSUME NEW r \in Requests, Arrive(r) \/ Manage(r) PROVE Inv'
  BY <1>2, ComeInv
<1>3. ASSUME NEW r \in Requests, Serve(r) PROVE Inv'
  BY <1>3, ReadInv, RedeemInv, RotateInv, ColumnInv DEF Serve
<1>4. ASSUME NEW p \in People, detach(p) PROVE Inv'
  BY <1>4, DetachInv
<1>5. ASSUME NEW g \in Requests, delete_inactive(g) PROVE Inv'
  BY <1>5, DeleteInv
<1>6. CASE Expire
  BY <1>6, ExpireInv
<1>7. CASE UNCHANGED vars
  <2>1. UNCHANGED locals /\ UNCHANGED << member, codes, grants, history, late >>
    BY <1>7 DEF vars, locals
  <2>2. RowsKept
    BY <2>1 DEF RowsKept
  <2> QED BY <2>1, <2>2, OutsideInv DEF Inv, TypeOK, Stored
<1> QED BY <1>1, <1>2, <1>3, <1>4, <1>5, <1>6, <1>7 DEF Next

\* The tables stay well formed, foreign key included, whatever the requests.
THEOREM TypeCorrect == Spec => []TypeOK
<1>1. Inv => TypeOK
  BY DEF Inv
<1> QED BY InvInit, InvNext, <1>1, PTL DEF Spec

\* No code and no refresh token is traded twice, for any number of requests
\* that present it at once.
THEOREM SingleUse == Spec => []TradedOnce
<1>1. Inv => TradedOnce
  BY DEF Inv
<1> QED BY InvInit, InvNext, <1>1, PTL DEF Spec

\* Every refresh token of a stored grant is its latest or in its history.
THEOREM HistoryComplete == Spec => []NoneForgotten
<1>1. Inv => NoneForgotten
  BY DEF Inv
<1> QED BY InvInit, InvNext, <1>1, PTL DEF Spec

-----------------------------------------------------------------------------
(***************************************************************************)
(* Who may act on a grant, and how a grant ends.  The invariant is         *)
(* strengthened with what a request under way knows.                       *)
(***************************************************************************)

\* The grant of the token that r presents was given to r's client.
Theirs(r) == ClientOfGrant(Owner(call[r].given)) = call[r].client

\* A request that finds a grant finds the one of the token it presents, and
\* acts on it only for the client the grant was given to.
FoundOf(r) ==
  /\ call[r].kind \in {"refresh", "revoke"} /\ pc[r] \in {"suspect", "revoking", "rotate"}
       => found[r] = Owner(call[r].given)
  /\ call[r].kind \in {"refresh", "revoke"} /\ pc[r] \in {"revoking", "rotate"} => Theirs(r)
  /\ pc[r] = "rotate" => grants[found[r]].renews
  /\ pc[r] = "redeem" => ClientOf[call[r].given] = call[r].client

\* The request knows its grant from the history, and is on its way to end it.
Knows(r) ==
  /\ history[call[r].given] = Owner(call[r].given)
  /\ pc[r] \in {"history", "suspect", "revoking"}

\* A grant that a request has to end is ended already, or the request is on
\* its way to end it.
EndsOf(r) ==
  /\ pc[r] = "idle" => ~ again[r]
  /\ call[r].kind = "refresh" /\ (call[r].replay \/ again[r]) /\ Theirs(r)
       => Ended(Owner(call[r].given)) \/ Knows(r)
  /\ /\ call[r].kind = "revoke" /\ call[r].type = "refresh" /\ pc[r] # "find"
     /\ grants[Owner(call[r].given)].renews /\ Theirs(r)
     => Ended(Owner(call[r].given)) \/ Knows(r) \/ pc[r] = "revoking"

\* The grants of a person who left in time answer no more.
LeftOf(k) ==
  k \notin late /\ ~ member[PersonOf[k]] =>
    /\ codes[k].at # "stored"
    /\ \A g \in Requests : grants[g].code = k /\ Stored(g) => grants[g].revoked

InvMore ==
  /\ Inv
  /\ \A r \in Requests : FoundOf(r) /\ EndsOf(r)
  /\ \A k \in Codes : LeftOf(k)

-----------------------------------------------------------------------------

\* Only request r moves, and it had handed out nothing.
Alone(r) ==
  /\ ~ Issued(r)
  /\ \A q \in Requests \ {r} :
       /\ call'[q] = call[q] /\ pc'[q] = pc[q] /\ found'[q] = found[q]
       /\ again'[q] = again[q] /\ result'[q] = result[q]

\* A step of a request moves that request alone.
LEMMA StepAlone ==
  ASSUME Inv, NEW r \in Requests, Arrive(r) \/ Manage(r) \/ Serve(r)
  PROVE  Alone(r) /\ pc[r] # "done"
<1>1. LocalTypes /\ ShapeOf(r)
  BY DEF Inv, TypeOK, LocalTypes, Shape
<1>2. pc[r] # "done"
  BY DEF Arrive, Manage, Begin, Serve, ReadCode, Redeem, LookUp, Suspect, revoke, ReadCurrent,
         Rotate, Find, Load, remove_mcp_management
<1>3. ~ Issued(r)
  BY <1>1, <1>2 DEF ShapeOf, Issued
<1>4. \/ \E p : Goto(r, p)
      \/ \E p, g : GotoWith(r, p, g)
      \/ \E res : Answer(r, res)
      \/ Lost(r)
      \/ Redeem(r)
      \/ \E kind, given, type, client, asks : Begin(r, kind, given, type, client, asks)
  <2>1. CASE Arrive(r) \/ Manage(r)
    BY <2>1, Zenon DEF Arrive, Manage
  <2>2. CASE ReadCode(r)
    BY <2>2, Zenon DEF ReadCode
  <2>3. CASE LookUp(r)
    BY <2>3, Zenon DEF LookUp, NotRetired
  <2>4. CASE Suspect(r)
    BY <2>4, Zenon DEF Suspect, NotRetired, Found
  <2>5. CASE revoke(r)
    BY <2>5, Zenon DEF revoke
  <2>6. CASE ReadCurrent(r)
    BY <2>6, Zenon DEF ReadCurrent
  <2>7. CASE Rotate(r)
    BY <2>7, Zenon DEF Rotate
  <2>8. CASE Find(r)
    BY <2>8, Zenon DEF Find, Unheld, Found
  <2>9. CASE Load(r)
    BY <2>9, Zenon DEF Load
  <2>10. CASE remove_mcp_management(r)
    BY <2>10, Zenon DEF remove_mcp_management
  <2> QED BY <2>1, <2>2, <2>3, <2>4, <2>5, <2>6, <2>7, <2>8, <2>9, <2>10 DEF Serve
<1>5. CASE \E p : Goto(r, p)
  BY <1>1, <1>2, <1>3, <1>5 DEF LocalTypes, Alone, Goto
<1>6. CASE \E p, g : GotoWith(r, p, g)
  BY <1>1, <1>2, <1>3, <1>6 DEF LocalTypes, Alone, GotoWith
<1>7. CASE \E res : Answer(r, res)
  BY <1>1, <1>2, <1>3, <1>7 DEF LocalTypes, Alone, Answer
<1>8. CASE Lost(r)
  BY <1>1, <1>2, <1>3, <1>8 DEF LocalTypes, Alone, Lost
<1>9. CASE Redeem(r)
  BY <1>1, <1>2, <1>3, <1>9 DEF LocalTypes, Alone, Redeem, Answer
<1>10. CASE \E kind, given, type, client, asks : Begin(r, kind, given, type, client, asks)
  <2>1. PICK kind, given, type, client, asks : Begin(r, kind, given, type, client, asks)
    BY <1>10
  <2>2. UNCHANGED << found, again, result >> /\ pc' = [pc EXCEPT ![r] = FirstStep(kind)]
    BY <2>1 DEF Begin
  <2>3. PICK c : call' = [call EXCEPT ![r] = c]
    BY <2>1 DEF Begin
  <2> QED BY <1>1, <1>2, <1>3, <2>2, <2>3 DEF LocalTypes, Alone
<1> QED BY <1>4, <1>5, <1>6, <1>7, <1>8, <1>9, <1>10

\* Grants keep their code, and whether they renew, and stay ended; tokens keep
\* their owner; the history forgets only what belongs to a grant that ended.
Keeps ==
  /\ \A g \in Requests : grants[g].at # "none" =>
       /\ grants'[g].at # "none"
       /\ grants'[g].code = grants[g].code
       /\ grants[g].renews <=> grants'[g].renews
       /\ Ended(g) => Ended(g)'
  /\ \A s \in Requests : Issued(s) => Issued(s)' /\ found'[s] = found[s]
  /\ \A s, g \in Requests : history[s] = g => history'[s] = g \/ Ended(g)'

\* No step takes anything back.
LEMMA KeepsNext ==
  ASSUME Inv, [Next]_vars
  PROVE  Keeps
<1> DEFINE Same == grants' = grants /\ history' = history
<1>1. TypeOK /\ grants \in [Requests -> GrantRow] /\ history \in [Requests -> Requests \cup {None}]
  BY DEF Inv, TypeOK
<1>2. \A s \in Requests : Issued(s) => Issued(s)' /\ found'[s] = found[s]
  <2>1. CASE UNCHANGED locals
    BY <2>1 DEF locals, Issued
  <2>2. CASE \E r \in Requests : Alone(r)
    BY <2>2 DEF Alone, Issued
  <2> QED BY <2>1, <2>2, StepAlone
          DEF Next, Consent, Visit, CheckRole, Sweep, create_authorization_code, detach,
              delete_inactive, Expire, vars, locals
<1>3. CASE Same
  BY <1>2, <1>3 DEF Keeps, Ended
<1>4. ASSUME NEW k \in Codes, Consent(k) PROVE Keeps
  BY <1>3, <1>4 DEF Consent, Visit, CheckRole, Sweep, create_authorization_code
<1>5. ASSUME NEW r \in Requests, Arrive(r) \/ Manage(r) PROVE Keeps
  BY <1>3, <1>5 DEF Arrive, Manage, Begin, tables
<1>6. ASSUME NEW r \in Requests, Serve(r) PROVE Keeps
  <2>1. CASE UNCHANGED tables
    BY <1>3, <2>1 DEF tables
  <2>2. CASE Redeem(r)
    <3>1. grants[r].at = "none"
      BY <1>6, StepAlone DEF Alone, Inv, Rows, RowOf, Issued
    <3>2. history' = history /\ \A g \in Requests \ {r} : grants'[g] = grants[g]
      BY <1>1, <2>2 DEF Redeem
    <3> QED BY <1>2, <3>1, <3>2 DEF Keeps, Ended
  <2>3. CASE Rotate(r)
    <3> DEFINE g == found[r]
    <3>1. CASE Same
      BY <1>3, <3>1
    <3>2. CASE /\ grants' = [grants EXCEPT ![g].pair = r, ![g].fresh = TRUE]
               /\ history' = [history EXCEPT ![call[r].given] = g]
               /\ g \in Renewing(call[r].given)
      <4>1. g \in Requests /\ grants[g].pair = call[r].given /\ Stored(g)
        BY <3>2 DEF Renewing
      <4>2. \A h \in Requests :
              /\ grants'[h].at = grants[h].at /\ grants'[h].code = grants[h].code
              /\ grants'[h].renews = grants[h].renews /\ grants'[h].revoked = grants[h].revoked
        BY <1>1, <3>2, <4>1 DEF GrantRow
      <4>3. history[call[r].given] # None => history[call[r].given] = g
        BY <4>1 DEF Inv, HistoryOK, Rows, RowOf, Stored
      <4>4. \A s \in Requests : history[s] # None => history'[s] = history[s]
        BY <1>1, <3>2, <4>3
      <4> QED BY <1>2, <4>2, <4>4, GrantConstants DEF Keeps, Ended
    <3> QED BY <2>3, <3>1, <3>2 DEF Rotate, Lost, Unchanged, Retire
  <2>4. CASE revoke(r) \/ remove_mcp_management(r)
    <3>1. history' = history
      BY <2>4 DEF revoke, remove_mcp_management
    <3>2. CASE grants' = grants
      BY <1>3, <3>1, <3>2
    <3>3. CASE grants' = [grants EXCEPT ![found[r]].revoked = TRUE]
      <4>1. \A h \in Requests :
              /\ grants'[h].at = grants[h].at /\ grants'[h].code = grants[h].code
              /\ grants'[h].renews = grants[h].renews
              /\ grants'[h].revoked = grants[h].revoked \/ grants'[h].revoked
        BY <1>1, <3>3 DEF GrantRow
      <4> QED BY <1>2, <3>1, <4>1 DEF Keeps, Ended
    <3>4. CASE grants' = [grants EXCEPT ![found[r]].manage = FALSE]
      <4>1. \A h \in Requests :
              /\ grants'[h].at = grants[h].at /\ grants'[h].code = grants[h].code
              /\ grants'[h].renews = grants[h].renews /\ grants'[h].revoked = grants[h].revoked
        BY <1>1, <3>4 DEF GrantRow
      <4> QED BY <1>2, <3>1, <4>1 DEF Keeps, Ended
    <3> QED BY <2>4, <3>2, <3>3, <3>4 DEF revoke, remove_mcp_management
  <2> QED BY <1>6, <2>1, <2>2, <2>3, <2>4
          DEF Serve, ReadCode, LookUp, Suspect, ReadCurrent, Find, Load
<1>7. ASSUME NEW p \in People, detach(p) PROVE Keeps
  <2>1. history' = history
    BY <1>7 DEF detach
  <2>2. \A h \in Requests :
          /\ grants'[h].at = grants[h].at /\ grants'[h].code = grants[h].code
          /\ grants'[h].renews = grants[h].renews
          /\ grants'[h].revoked = grants[h].revoked \/ grants'[h].revoked
    BY <1>1, <1>7 DEF detach, GrantRow
  <2> QED BY <1>2, <2>1, <2>2 DEF Keeps, Ended
<1>8. ASSUME NEW g \in Requests, delete_inactive(g) PROVE Keeps
  <2>1. \A s \in Requests : history[s] # g => history'[s] = history[s]
    BY <1>1, <1>8 DEF delete_inactive, Cascade
  <2>2. /\ grants'[g].at = "gone"
        /\ \A h \in Requests : /\ h # g => grants'[h] = grants[h]
                               /\ grants'[h].code = grants[h].code
                               /\ grants'[h].renews = grants[h].renews
    BY <1>1, <1>8 DEF delete_inactive, GrantRow
  <2> QED BY <1>2, <2>1, <2>2 DEF Keeps, Ended
<1>9. CASE Expire
  <2>1. history' = history
    BY <1>9 DEF Expire
  <2>2. \A h \in Requests :
          /\ grants'[h].at = grants[h].at /\ grants'[h].code = grants[h].code
          /\ grants'[h].renews = grants[h].renews /\ grants'[h].revoked = grants[h].revoked
    <3>1. CASE grants' = grants
      BY <3>1
    <3>2. CASE \E g \in Requests : grants' = [grants EXCEPT ![g].fresh = FALSE]
      BY <1>1, <3>2 DEF GrantRow
    <3>3. CASE \E g \in Requests : grants' = [grants EXCEPT ![g].lasts = FALSE]
      BY <1>1, <3>3 DEF GrantRow
    <3> QED BY <1>9, <3>1, <3>2, <3>3 DEF Expire
  <2> QED BY <1>2, <2>1, <2>2 DEF Keeps, Ended
<1>10. CASE UNCHANGED vars
  BY <1>3, <1>10 DEF vars
<1> QED BY <1>4, <1>5, <1>6, <1>7, <1>8, <1>9, <1>10 DEF Next

\* What a request knows stays true while it does not move.
LEMMA RestsFoundEnds ==
  ASSUME Inv, Keeps, NEW q \in Requests, FoundOf(q), EndsOf(q),
         call'[q] = call[q], pc'[q] = pc[q], found'[q] = found[q], again'[q] = again[q]
  PROVE  FoundOf(q)' /\ EndsOf(q)'
<1> DEFINE s == call[q].given
<1>1. ShapeOf(q)
  BY DEF Inv, Shape
<1>2. CASE call[q].kind \in {"refresh", "revoke"}
  <2>1. /\ s \in Requests /\ Issued(s) /\ Owner(s)' = Owner(s)
        /\ Owner(s) \in Requests /\ grants[Owner(s)].at # "none"
    BY <1>1, <1>2 DEF ShapeOf, Keeps, Inv, Shape, Owner
  <2>2. /\ (grants[Owner(s)].renews)' <=> grants[Owner(s)].renews
        /\ Ended(Owner(s)) => Ended(Owner(s))'
        /\ grants'[Owner(s)].code = grants[Owner(s)].code
        /\ Theirs(q)' <=> Theirs(q)
    BY <2>1 DEF Keeps, Theirs, ClientOfGrant
  <2>3. history[s] = Owner(s) => history'[s] = Owner(s) \/ Ended(Owner(s))'
    BY <2>1, GrantConstants DEF Keeps
  <2>4. Knows(q) => Knows(q)' \/ Ended(Owner(s))'
    BY <2>1, <2>3 DEF Knows
  <2>5. FoundOf(q)'
    <3>1. pc[q] = "rotate" => grants'[found[q]].renews
      BY <1>1 DEF FoundOf, Keeps, ShapeOf
    <3> QED BY <2>1, <2>2, <3>1 DEF FoundOf
  <2>6. EndsOf(q)'
    BY <2>1, <2>2, <2>4 DEF EndsOf
  <2> QED BY <2>5, <2>6
<1>3. CASE call[q].kind \notin {"refresh", "revoke"}
  BY <1>1, <1>3 DEF FoundOf, EndsOf, ShapeOf, Fits
<1> QED BY <1>2, <1>3

\* A request that comes in knows what it has to end.
LEMMA BeginFoundEnds ==
  ASSUME InvMore, NEW r \in Requests, Arrive(r) \/ Manage(r)
  PROVE  FoundOf(r)' /\ EndsOf(r)'
<1>1. PICK kind, given, type, client, asks :
        /\ Begin(r, kind, given, type, client, asks)
        /\ kind \in Kinds /\ (kind = "refresh" => given \in Requests)
  <2>1. CASE Arrive(r)
    <3>1. /\ "exchange" # "refresh" /\ "revoke" # "refresh"
          /\ {"exchange", "refresh", "revoke"} \subseteq Kinds
      BY DEF Kinds
    <3> QED BY <2>1, <3>1, Zenon DEF Arrive
  <2>2. CASE Manage(r)
    <3>1. \A kind \in {"close", "narrow"} : kind \in Kinds /\ kind # "refresh"
      BY DEF Kinds
    <3> QED BY <2>2, <3>1, Zenon DEF Manage
  <2> QED BY <2>1, <2>2
<1>2. call \in [Requests -> Call] /\ pc \in [Requests -> Steps] /\ ~ again[r]
  BY <1>1 DEF InvMore, Inv, TypeOK, EndsOf, Begin
<1>3. PICK c : /\ c = [kind |-> kind, given |-> given, type |-> type, client |-> client,
                       asks |-> asks, replay |-> kind = "refresh" /\ history[given] # None]
               /\ call' = [call EXCEPT ![r] = c]
  BY <1>1 DEF Begin
<1>4. /\ call'[r] = c /\ pc'[r] = FirstStep(kind)
      /\ UNCHANGED << again, history, found >>
  BY <1>1, <1>2, <1>3 DEF Begin, tables
<1>5. c.kind = kind /\ c.given = given
  BY <1>3
<1>6. kind = "refresh" /\ c.replay => history[given] = Owner(given)
  BY <1>1, <1>3 DEF InvMore, Inv, HistoryOK
<1>7. FoundOf(r)'
  BY <1>4, <1>5 DEF FoundOf, FirstStep, Kinds
<1>8. EndsOf(r)'
  BY <1>2, <1>4, <1>5, <1>6 DEF EndsOf, Knows, FirstStep, Kinds, Owner
<1> QED BY <1>7, <1>8

\* The request that presents a token, and the grant of that token.
LEMMA PresentedGrant ==
  ASSUME Inv, NEW r \in Requests, call[r].kind \in {"refresh", "revoke"}
  PROVE  /\ call[r].given \in Requests /\ Issued(call[r].given)
         /\ Owner(call[r].given) \in Requests
         /\ grants[Owner(call[r].given)].at # "none"
         /\ ~ Stored(Owner(call[r].given)) => Ended(Owner(call[r].given))
<1>1. ShapeOf(r) /\ ShapeOf(call[r].given)
  BY DEF Inv, Shape, ShapeOf
<1>2. /\ call[r].given \in Requests /\ Issued(call[r].given)
      /\ Owner(call[r].given) \in Requests
      /\ grants[Owner(call[r].given)].at # "none"
  BY <1>1 DEF ShapeOf, Owner
<1>3. grants[Owner(call[r].given)] \in GrantRow
  BY <1>2 DEF Inv, TypeOK
<1> QED BY <1>2, <1>3 DEF GrantRow, Stored, Ended

\* A token of a stored grant that renews is its latest or in the history, and
\* only its own grant holds it.
LEMMA HeldOrRetired ==
  ASSUME Inv, NEW s \in Requests, Issued(s)
  PROVE  /\ Stored(Owner(s)) /\ grants[Owner(s)].renews /\ grants[Owner(s)].pair # s
              => history[s] = Owner(s)
         /\ \A g \in Requests : Stored(g) /\ grants[g].pair = s => g = Owner(s)
         /\ history[s] # None => history[s] = Owner(s)
BY DEF Inv, NoneForgotten, Rows, RowOf, HistoryOK, Stored

\* Request r goes on with the grant of its token, and on its way to end it.
Onward(r) ==
  LET g == Owner(call[r].given)
      known == /\ history[call[r].given] = g
               /\ pc'[r] \in {"history", "suspect", "revoking"}
  IN /\ call' = call
     /\ pc'[r] \notin {"idle", "redeem", "find"}
     /\ pc'[r] \in {"suspect", "revoking", "rotate"} => found'[r] = g
     /\ pc'[r] \in {"revoking", "rotate"} => Theirs(r)
     /\ pc'[r] = "rotate" => grants[g].renews
     /\ call[r].kind = "refresh" /\ (call[r].replay \/ again'[r]) /\ Theirs(r)
          => Ended(g) \/ known
     /\ call[r].kind = "revoke" /\ call[r].type = "refresh" /\ grants[g].renews /\ Theirs(r)
          => Ended(g) \/ known \/ pc'[r] = "revoking"

\* A request that presents a token and goes on so stays on its way.
LEMMA OnwardFoundEnds ==
  ASSUME Inv, Inv', Keeps, NEW r \in Requests, call[r].kind \in {"refresh", "revoke"}, Onward(r)
  PROVE  FoundOf(r)' /\ EndsOf(r)'
<1> DEFINE s == call[r].given
<1>1. /\ s \in Requests /\ Issued(s) /\ Owner(s) \in Requests
      /\ grants[Owner(s)].at # "none"
  BY PresentedGrant
<1>2. /\ Owner(s)' = Owner(s)
      /\ (grants[Owner(s)].renews)' <=> grants[Owner(s)].renews
      /\ Ended(Owner(s)) => Ended(Owner(s))'
      /\ grants'[Owner(s)].code = grants[Owner(s)].code
      /\ history[s] = Owner(s) => history'[s] = Owner(s) \/ Ended(Owner(s))'
  BY <1>1 DEF Keeps, Owner, Onward
<1>3. Theirs(r)' <=> Theirs(r)
  BY <1>2 DEF Theirs, ClientOfGrant, Onward
<1>4. FoundOf(r)'
  BY <1>1, <1>2, <1>3 DEF FoundOf, Onward
<1>5. EndsOf(r)'
  BY <1>1, <1>2, <1>3 DEF EndsOf, Knows, Onward
<1> QED BY <1>4, <1>5

\* A step of a request that presents a token keeps it on its way.
LEMMA TokenFoundEnds ==
  ASSUME InvMore, Inv', Keeps, NEW r \in Requests, Serve(r),
         call[r].kind \in {"refresh", "revoke"}
  PROVE  FoundOf(r)' /\ EndsOf(r)'
<1> DEFINE s == call[r].given
<1>1. Inv /\ FoundOf(r) /\ EndsOf(r) /\ ShapeOf(r)
  BY DEF InvMore, Inv, Shape
<1>2. /\ s \in Requests /\ Issued(s) /\ Owner(s) \in Requests
      /\ grants[Owner(s)].at # "none"
      /\ ~ Stored(Owner(s)) => Ended(Owner(s))
  BY <1>1, PresentedGrant
<1>3. /\ Stored(Owner(s)) /\ grants[Owner(s)].renews /\ grants[Owner(s)].pair # s
           => history[s] = Owner(s)
      /\ \A g \in Requests : Stored(g) /\ grants[g].pair = s => g = Owner(s)
      /\ history[s] # None => history[s] = Owner(s)
  BY <1>1, <1>2, HeldOrRetired
<1>4. pc \in [Requests -> Steps] /\ found \in [Requests -> Requests \cup {None}]
  BY <1>1 DEF Inv, TypeOK
<1>5. ASSUME NEW p, Goto(r, p)
      PROVE  pc'[r] = p /\ UNCHANGED << call, found, again >>
  BY <1>4, <1>5 DEF Goto
<1>6. ASSUME NEW p, NEW g, GotoWith(r, p, g)
      PROVE  pc'[r] = p /\ found'[r] = g /\ UNCHANGED << call, again >>
  BY <1>4, <1>6 DEF GotoWith
<1>7. ASSUME NEW res, Answer(r, res)
      PROVE  pc'[r] = "done" /\ UNCHANGED << call, found, again >>
  BY <1>4, <1>7 DEF Answer
<1> HIDE DEF s
<1>8. ASSUME pc[r] \in {"history", "suspect"}, NotRetired(r),
             call[r].type = "refresh" /\ Theirs(r) => Ended(Owner(s)) \/ ~ Knows(r)
      PROVE  FoundOf(r)' /\ EndsOf(r)'
  <2>1. /\ pc'[r] \in {"done", "current"} /\ UNCHANGED << call, found, again >>
    BY <1>5, <1>7, <1>8 DEF NotRetired
  <2>2. call[r].kind = "refresh" => call[r].type = "refresh"
    BY <1>1 DEF ShapeOf
  <2>3. call[r].kind = "refresh" /\ (call[r].replay \/ again[r]) /\ Theirs(r) => Ended(Owner(s))
    BY <1>1, <1>8, <2>2 DEF EndsOf, s
  <2>4. /\ call[r].kind = "revoke" /\ call[r].type = "refresh"
        /\ grants[Owner(s)].renews /\ Theirs(r)
        => Ended(Owner(s))
    BY <1>1, <1>8 DEF EndsOf, s
  <2>9. Onward(r)
    BY <1>1, <2>1, <2>3, <2>4 DEF Onward, s
  <2> QED BY <1>1, <2>9, OnwardFoundEnds
<1>9. CASE LookUp(r)
  <2>1. CASE call[r].type = "refresh" /\ history[s] # None
    <3>1. GotoWith(r, "suspect", Owner(s))
      BY <1>3, <1>9, <2>1 DEF LookUp, s
    <3>2. /\ pc'[r] = "suspect" /\ found'[r] = Owner(s) /\ UNCHANGED << call, again >>
      BY <1>6, <3>1
    <3>3. history[s] = Owner(s)
      BY <1>3, <2>1
    <3>9. Onward(r)
      BY <1>1, <3>2, <3>3 DEF Onward, s
    <3> QED BY <1>1, <3>9, OnwardFoundEnds
  <2>2. CASE ~ (call[r].type = "refresh" /\ history[s] # None)
    <3>1. pc[r] = "history" /\ NotRetired(r)
      BY <1>9, <2>2 DEF LookUp, s
    <3>2. call[r].type = "refresh" => ~ Knows(r)
      BY <1>2, <2>2, GrantConstants DEF Knows, s
    <3> QED BY <1>8, <3>1, <3>2
  <2> QED BY <2>1, <2>2
<1>10. ASSUME Found(r, Owner(s)), Theirs(r), again' = again
       PROVE  FoundOf(r)' /\ EndsOf(r)'
  <2>1. CASE grants[Owner(s)].revoked
    <3>1. Ended(Owner(s)) /\ pc'[r] = "done" /\ call' = call
      BY <1>7, <1>10, <2>1 DEF Ended, Found
    <3>9. Onward(r)
      BY <1>1, <3>1 DEF Onward, s
    <3> QED BY <1>1, <3>9, OnwardFoundEnds
  <2>2. CASE ~ grants[Owner(s)].revoked
    <3>1. /\ pc'[r] = "revoking" /\ found'[r] = Owner(s) /\ UNCHANGED << call, again >>
      BY <1>6, <1>10, <2>2 DEF Found
    <3>2. call[r].kind = "refresh" /\ (call[r].replay \/ again[r]) /\ Theirs(r)
             => Ended(Owner(s)) \/ history[s] = Owner(s)
      BY <1>1 DEF EndsOf, Knows, s
    <3>9. Onward(r)
      BY <1>1, <1>10, <3>1, <3>2 DEF Onward, s
    <3> QED BY <1>1, <3>9, OnwardFoundEnds
  <2> QED BY <2>1, <2>2
<1>11. ASSUME NEW g, Found(r, g) PROVE again' = again
  BY <1>6, <1>7, <1>11 DEF Found
<1>12. CASE Suspect(r)
  <2>1. pc[r] = "suspect" /\ found[r] = Owner(s)
    BY <1>1, <1>12 DEF Suspect, FoundOf, s
  <2>2. CASE OfClient(Owner(s), call[r].client)
    <3>1. Found(r, Owner(s)) /\ Theirs(r)
      BY <1>12, <2>1, <2>2 DEF Suspect, OfClient, Theirs, s
    <3> QED BY <1>10, <1>11, <3>1
  <2>3. CASE ~ OfClient(Owner(s), call[r].client)
    <3>1. NotRetired(r)
      BY <1>12, <2>1, <2>3 DEF Suspect
    <3>2. Theirs(r) => Ended(Owner(s))
      BY <1>2, <2>3 DEF OfClient, Theirs, s
    <3> QED BY <1>8, <2>1, <3>1, <3>2
  <2> QED BY <2>2, <2>3
<1>13. CASE Find(r)
  <2>1. call[r].kind = "revoke" /\ pc[r] = "find"
    BY <1>1, <1>13 DEF Find, ShapeOf, Fits
  <2>2. CASE \E g \in Requests : /\ Stored(g) /\ grants[g].pair = s /\ Found(r, g)
                                 /\ ClientOfGrant(g) = call[r].client
    BY <1>3, <1>10, <1>11, <2>2 DEF Theirs, s
  <2>3. CASE /\ Goto(r, "history")
             /\ \A g \in Requests :
                  ~ (/\ Stored(g) /\ grants[g].pair = s
                     /\ call[r].type = "refresh" => grants[g].renews
                     /\ ClientOfGrant(g) = call[r].client)
    <3>1. pc'[r] = "history" /\ UNCHANGED << call, found, again >>
      BY <1>5, <2>3
    <3>2. call[r].type = "refresh" /\ grants[Owner(s)].renews /\ Theirs(r)
             => Ended(Owner(s)) \/ history[s] = Owner(s)
      BY <1>2, <1>3, <2>3 DEF Theirs, s
    <3>9. Onward(r)
      BY <1>1, <2>1, <3>1, <3>2 DEF Onward, s
    <3> QED BY <1>1, <3>9, OnwardFoundEnds
  <2> QED BY <1>13, <2>2, <2>3 DEF Find, Unheld, s
<1>14. CASE revoke(r)
  <2>1. pc[r] = "revoking" /\ found[r] = Owner(s)
    BY <1>1, <1>14 DEF revoke, FoundOf, s
  <2>2. pc'[r] = "done" /\ UNCHANGED << call, found, again >>
    BY <1>7, <1>14 DEF revoke
  <2>3. Ended(Owner(s))'
    <3>1. CASE ~ Stored(Owner(s))
      <4>1. Owner(s)' = Owner(s)
        BY <1>2, <2>2 DEF Owner, s
      <4>2. PICK g \in Requests : g = Owner(s)
        BY <1>2
      <4>3. Ended(g)'
        BY <1>2, <3>1, <4>2 DEF Keeps
      <4> QED BY <4>1, <4>2, <4>3 DEF Ended
    <3>2. CASE Stored(Owner(s))
      <4>1. grants' = [grants EXCEPT ![Owner(s)].revoked = TRUE]
        BY <1>14, <2>1, <3>2 DEF revoke
      <4>2. Owner(s)' = Owner(s) /\ grants \in [Requests -> GrantRow]
        BY <1>1, <2>2 DEF Owner, Inv, TypeOK, s
      <4> QED BY <1>2, <4>1, <4>2 DEF Ended, GrantRow
    <3> QED BY <3>1, <3>2
  <2> QED BY <2>2, <2>3 DEF FoundOf, EndsOf, s
<1>15. CASE ReadCurrent(r)
  <2>1. /\ pc[r] = "current" /\ call[r].kind = "refresh"
        /\ (call[r].replay \/ again[r]) /\ Theirs(r) => Ended(Owner(s))
    BY <1>1, <1>15 DEF ReadCurrent, ShapeOf, Fits, EndsOf, Knows, s
  <2>2. CASE Answer(r, "invalid") \/ Answer(r, "exceeded")
    <3>1. pc'[r] = "done" /\ UNCHANGED << call, found, again >>
      BY <1>7, <2>2
    <3>9. Onward(r)
      BY <1>1, <2>1, <3>1 DEF Onward, s
    <3> QED BY <1>1, <3>9, OnwardFoundEnds
  <2>3. CASE \E g \in Renewing(s) : ClientOfGrant(g) = call[r].client /\ GotoWith(r, "rotate", g)
    <3>1. /\ GotoWith(r, "rotate", Owner(s)) /\ grants[Owner(s)].renews
          /\ Theirs(r)
      BY <1>3, <2>3 DEF Renewing, Theirs, s
    <3>2. pc'[r] = "rotate" /\ found'[r] = Owner(s) /\ UNCHANGED << call, again >>
      BY <1>6, <3>1
    <3>9. Onward(r)
      BY <1>1, <2>1, <3>1, <3>2 DEF Onward, s
    <3> QED BY <1>1, <3>9, OnwardFoundEnds
  <2> QED BY <1>15, <2>2, <2>3 DEF ReadCurrent, s
<1>16. CASE Rotate(r)
  <2>1. /\ pc[r] = "rotate" /\ call[r].kind = "refresh" /\ found[r] = Owner(s) /\ Theirs(r)
        /\ grants[Owner(s)].renews
        /\ call[r].replay \/ again[r] => Ended(Owner(s))
    BY <1>1, <1>16 DEF Rotate, ShapeOf, Fits, FoundOf, EndsOf, Knows, s
  <2>2. CASE Answer(r, "rotated")
    <3>1. pc'[r] = "done" /\ UNCHANGED << call, found, again >>
      BY <1>7, <2>2
    <3>9. Onward(r)
      BY <1>1, <2>1, <3>1 DEF Onward, s
    <3> QED BY <1>1, <3>9, OnwardFoundEnds
  <2>3. CASE Lost(r) /\ ~ Unchanged(r)
    <3>1. pc'[r] = "history" /\ UNCHANGED << call, found >>
      BY <1>4, <2>3 DEF Lost
    <3>2. Ended(Owner(s)) \/ history[s] = Owner(s)
      BY <1>2, <1>3, <2>1, <2>3 DEF Unchanged, Renewing, Ended, s
    <3>9. Onward(r)
      BY <1>1, <2>1, <3>1, <3>2 DEF Onward, s
    <3> QED BY <1>1, <3>9, OnwardFoundEnds
  <2> QED BY <1>16, <2>2, <2>3 DEF Rotate
<1> QED BY <1>1, <1>9, <1>12, <1>13, <1>14, <1>15, <1>16
        DEF Serve, ReadCode, Redeem, Load, remove_mcp_management, ShapeOf, Fits

\* Every step of a request keeps what it knows.
LEMMA ServeFoundEnds ==
  ASSUME InvMore, Inv', Keeps, NEW r \in Requests, Serve(r)
  PROVE  FoundOf(r)' /\ EndsOf(r)'
<1>1. Inv /\ ShapeOf(r) /\ pc \in [Requests -> Steps]
  BY DEF InvMore, Inv, Shape, TypeOK
<1>2. CASE call[r].kind \in {"refresh", "revoke"}
  BY <1>2, TokenFoundEnds
<1>3. CASE call[r].kind \notin {"refresh", "revoke"}
  <2>1. ReadCode(r) \/ Redeem(r) \/ revoke(r) \/ Load(r) \/ remove_mcp_management(r)
    BY <1>1, <1>3 DEF Serve, LookUp, Suspect, ReadCurrent, Rotate, Find, ShapeOf, Fits
  <2>2. /\ call' = call
        /\ \/ pc'[r] \in {"done", "revoking", "narrowing"}
           \/ pc'[r] = "redeem" /\ call[r].client = ClientOf[call[r].given]
    <3>1. CASE ReadCode(r)
      BY <1>1, <3>1 DEF ReadCode, Goto, Answer
    <3>2. CASE Redeem(r)
      BY <1>1, <3>2 DEF Redeem, Answer
    <3>3. CASE revoke(r)
      BY <1>1, <3>3 DEF revoke, Answer
    <3>4. CASE Load(r)
      BY <1>1, <3>4 DEF Load, GotoWith, Answer
    <3>5. CASE remove_mcp_management(r)
      BY <1>1, <3>5 DEF remove_mcp_management, Answer
    <3> QED BY <2>1, <3>1, <3>2, <3>3, <3>4, <3>5
  <2> QED BY <1>3, <2>2 DEF FoundOf, EndsOf
<1> QED BY <1>2, <1>3

\* Whoever leaves takes nothing along: no step gives back what `detach` took.
LEMMA LeftNext ==
  ASSUME Inv, Inv', Keeps, NEW k \in Codes, LeftOf(k), [Next]_vars
  PROVE  LeftOf(k)'
<1>1. /\ member \in [People -> BOOLEAN] /\ codes \in [Codes -> CodeRow]
      /\ grants \in [Requests -> GrantRow] /\ PersonOf[k] \in People
  BY GrantConstants DEF Inv, TypeOK
<1>2. ASSUME member' = member, late' = late, codes'[k].at = "stored" => codes[k].at = "stored",
             \A g \in Requests : grants'[g].at = "stored" => Stored(g)
      PROVE  LeftOf(k)'
  <2>1. ASSUME NEW g \in Requests, Stored(g)', grants'[g].code = k,
               k \notin late, ~ member[PersonOf[k]]
        PROVE  grants'[g].revoked
    <3>1. Stored(g) /\ grants[g].code = k
      BY <1>2, <2>1 DEF Keeps, Stored
    <3>2. Ended(g)
      BY <2>1, <3>1 DEF LeftOf, Ended
    <3> QED BY <2>1, <3>1, <3>2 DEF Keeps, Ended, Stored
  <2> QED BY <1>2, <2>1 DEF LeftOf
<1>3. ASSUME NEW j \in Codes, Consent(j) PROVE LeftOf(k)'
  <2>1. member' = member /\ grants' = grants
    BY <1>3 DEF Consent, Visit, CheckRole, Sweep, create_authorization_code
  <2>2. CASE Visit(j) \/ CheckRole(j) \/ Sweep(j)
    <3>1. late' = late /\ (codes'[k].at = "stored" => codes[k].at = "stored")
      BY <1>1, <2>2 DEF Visit, CheckRole, Sweep, CodeRow
    <3> QED BY <1>2, <2>1, <3>1 DEF Stored
  <2>3. CASE create_authorization_code(j)
    <3>1. CASE j = k
      BY <2>1, <2>3, <3>1 DEF LeftOf, create_authorization_code, Stored
    <3>2. CASE j # k
      BY <1>1, <2>1, <2>3, <3>2 DEF LeftOf, create_authorization_code, Stored
    <3> QED BY <3>1, <3>2
  <2> QED BY <1>3, <2>2, <2>3 DEF Consent
<1>4. ASSUME UNCHANGED << member, codes, late >>,
             \A g \in Requests : grants'[g].at = grants[g].at
      PROVE  LeftOf(k)'
  BY <1>2, <1>4 DEF Stored
<1>5. ASSUME NEW r \in Requests, Arrive(r) \/ Manage(r) PROVE LeftOf(k)'
  BY <1>4, <1>5 DEF Arrive, Manage, Begin, tables
<1>6. ASSUME NEW r \in Requests, Serve(r) PROVE LeftOf(k)'
  <2>1. CASE UNCHANGED tables
    BY <1>4, <2>1 DEF tables
  <2>2. CASE Redeem(r)
    <3> DEFINE j == call[r].given
    <3>1. member' = member /\ late' = late /\ j \in Codes
      BY <2>2 DEF Redeem, Inv, Shape, ShapeOf, Fits
    <3>2. CASE UNCHANGED << codes, grants >>
      BY <1>4, <3>1, <3>2
    <3>3. CASE codes[j].at = "stored"
      <4>1. PICK row : row.code = j /\ grants' = [grants EXCEPT ![r] = row]
        BY <2>2, <3>3 DEF Redeem, Stocked
      <4>2. codes' = [codes EXCEPT ![j].at = "gone"]
        BY <2>2, <3>3 DEF Redeem, Stocked
      <4>3. codes'[k].at = "stored" => codes[k].at = "stored"
        BY <1>1, <3>1, <4>2 DEF CodeRow
      <4>4. grants'[r].code = j /\ \A g \in Requests \ {r} : grants'[g] = grants[g]
        BY <1>1, <4>1
      <4> QED BY <3>1, <3>3, <4>3, <4>4 DEF LeftOf, Stored
    <3> QED BY <2>2, <3>2, <3>3 DEF Redeem, Stocked
  <2>3. CASE Rotate(r) \/ revoke(r) \/ remove_mcp_management(r)
    <3>1. UNCHANGED << member, codes, late >>
      BY <2>3 DEF Rotate, revoke, remove_mcp_management
    <3>2. \/ grants' = grants
          \/ grants' = [grants EXCEPT ![found[r]].pair = r, ![found[r]].fresh = TRUE]
          \/ grants' = [grants EXCEPT ![found[r]].revoked = TRUE]
          \/ grants' = [grants EXCEPT ![found[r]].manage = FALSE]
      BY <2>3 DEF Rotate, revoke, remove_mcp_management
    <3>3. \A g \in Requests : grants'[g].at = grants[g].at
      BY <1>1, <3>2 DEF GrantRow
    <3> QED BY <1>4, <3>1, <3>3
  <2> QED BY <1>6, <2>1, <2>2, <2>3
          DEF Serve, ReadCode, LookUp, Suspect, ReadCurrent, Find, Load
<1>7. ASSUME NEW p \in People, detach(p) PROVE LeftOf(k)'
  <2>1. /\ member' = [member EXCEPT ![p] = FALSE] /\ late' = late
        /\ codes'[k].at = "stored" => codes[k].at = "stored" /\ PersonOf[k] # p
    BY <1>1, <1>7 DEF detach, Forfeited, CodeRow
  <2>2. \A g \in Requests : /\ grants'[g].at = grants[g].at
                            /\ grants'[g].code = grants[g].code
                            /\ Stored(g) /\ PersonOf[grants[g].code] = p => grants'[g].revoked
                            /\ grants[g].revoked => grants'[g].revoked
    BY <1>1, <1>7 DEF detach, GrantRow
  <2>3. CASE PersonOf[k] = p
    BY <2>1, <2>2, <2>3 DEF LeftOf, Stored
  <2>4. CASE PersonOf[k] # p
    BY <1>1, <2>1, <2>2, <2>4 DEF LeftOf, Stored
  <2> QED BY <2>3, <2>4
<1>8. ASSUME NEW g \in Requests, delete_inactive(g) PROVE LeftOf(k)'
  <2>1. \A h \in Requests : grants'[h].at = "stored" => Stored(h)
    BY <1>1, <1>8 DEF delete_inactive, GrantRow, Stored
  <2> QED BY <1>2, <1>8, <2>1 DEF delete_inactive
<1>9. CASE Expire
  <2>1. member' = member /\ late' = late /\ codes'[k].at = codes[k].at
    BY <1>1, <1>9 DEF Expire, CodeRow
  <2>2. \A g \in Requests : grants'[g].at = grants[g].at
    BY <1>1, <1>9 DEF Expire, GrantRow
  <2> QED BY <1>2, <2>1, <2>2 DEF Stored
<1>10. CASE UNCHANGED vars
  BY <1>4, <1>10 DEF vars
<1> QED BY <1>3, <1>5, <1>6, <1>7, <1>8, <1>9, <1>10 DEF Next

\* The strengthened invariant.
LEMMA InvMoreHolds == Spec => []InvMore
<1>1. Init => InvMore
  <2> SUFFICES ASSUME Init PROVE InvMore
    OBVIOUS
  <2>1. \A r \in Requests : pc[r] = "idle" /\ call[r].kind = "none" /\ again[r] = FALSE
    BY DEF Init
  <2>2. \A r \in Requests : FoundOf(r) /\ EndsOf(r)
    BY <2>1 DEF FoundOf, EndsOf
  <2>3. \A k \in Codes : member[PersonOf[k]]
    BY GrantConstants DEF Init
  <2> QED BY <2>2, <2>3, InvInit DEF InvMore, LeftOf
<1>2. InvMore /\ [Next]_vars => InvMore'
  <2> SUFFICES ASSUME InvMore, [Next]_vars PROVE InvMore'
    OBVIOUS
  <2>1. Inv /\ Inv' /\ Keeps
    BY InvNext, KeepsNext DEF InvMore
  <2>2. ASSUME NEW q \in Requests PROVE FoundOf(q)' /\ EndsOf(q)'
    <3>1. FoundOf(q) /\ EndsOf(q)
      BY DEF InvMore
    <3>2. CASE UNCHANGED locals
      BY <2>1, <3>1, <3>2, RestsFoundEnds DEF locals
    <3>3. ASSUME NEW r \in Requests, Arrive(r) \/ Manage(r) \/ Serve(r)
          PROVE  FoundOf(q)' /\ EndsOf(q)'
      <4>1. CASE q = r
        BY <2>1, <3>3, <4>1, BeginFoundEnds, ServeFoundEnds
      <4>2. CASE q # r
        <5>1. Alone(r)
          BY <2>1, <3>3, StepAlone
        <5> QED BY <2>1, <3>1, <4>2, <5>1, RestsFoundEnds DEF Alone
      <4> QED BY <4>1, <4>2
    <3> QED BY <3>2, <3>3
          DEF Next, Consent, Visit, CheckRole, Sweep, create_authorization_code, detach,
              delete_inactive, Expire, vars, locals
  <2>3. \A k \in Codes : LeftOf(k)'
    BY <2>1, LeftNext DEF InvMore
  <2> QED BY <2>1, <2>2, <2>3 DEF InvMore
<1> QED BY <1>1, <1>2, PTL DEF Spec

\* A refresh token that comes back after it was retired ends its grant, by
\* the time the request that presents it is answered (`rotate_oauth_grant`).
THEOREM ReplaysEnd == Spec => []ReplayEndsGrant
<1>1. InvMore => ReplayEndsGrant
  BY DEF InvMore, EndsOf, Knows, Theirs, ReplayEndsGrant
<1> QED BY <1>1, InvMoreHolds, PTL

\* A revocation that was answered has ended the grant, wherever in it the
\* token was rotated (`revoke_oauth_token`).
THEOREM RevocationsHold == Spec => []RevocationHolds
<1>1. InvMore => RevocationHolds
  BY DEF InvMore, EndsOf, Knows, Theirs, RevocationHolds
<1> QED BY <1>1, InvMoreHolds, PTL

\* Who leaves the team leaves no working token and no code behind, but for
\* the code that was being stored while they left (`Team::detach`).
THEOREM LeaversTakeNothing == Spec => []LeaversKeepNothing
<1>1. InvMore => LeaversKeepNothing
  BY DEF InvMore, LeftOf, LeaversKeepNothing, is_usable
<1> QED BY <1>1, InvMoreHolds, PTL

\* A client changes no grant but its own, whatever token it presents
\* (the `oauth_client_id` of every select).
THEOREM ClientsKeepToTheirs == Spec => OwnGrantsOnly
<1> DEFINE Own == \A r, g \in Requests :
                    /\ call[r].kind \in {"exchange", "refresh", "revoke"}
                    /\ pc'[r] # pc[r] /\ grants'[g] # grants[g]
                    => ClientOfGrant(g)' = call[r].client
<1>1. InvMore /\ [Next]_vars => [Own]_vars
  <2> SUFFICES ASSUME InvMore, Next,
                      NEW r \in Requests, NEW g \in Requests,
                      call[r].kind \in {"exchange", "refresh", "revoke"},
                      pc'[r] # pc[r], grants'[g] # grants[g]
               PROVE  ClientOfGrant(g)' = call[r].client
    OBVIOUS
  <2>1. Inv /\ Keeps /\ FoundOf(r) /\ ShapeOf(r) /\ TypeOK
    BY KeepsNext DEF InvMore, Inv, Shape
  <2>2. Arrive(r) \/ Manage(r) \/ Serve(r)
    <3>1. \E q \in Requests : Arrive(q) \/ Manage(q) \/ Serve(q)
      BY DEF Next, Consent, Visit, CheckRole, Sweep, create_authorization_code, detach,
             delete_inactive, Expire, locals
    <3>2. \A q \in Requests : Arrive(q) \/ Manage(q) \/ Serve(q) => Alone(q)
      BY <2>1, StepAlone
    <3> QED BY <3>1, <3>2 DEF Alone
  <2>3. Redeem(r) \/ Rotate(r) \/ revoke(r)
    BY <2>1, <2>2 DEF Arrive, Manage, Begin, Serve, ReadCode, LookUp, Suspect, ReadCurrent,
                      Find, Load, remove_mcp_management, tables, ShapeOf, Fits
  <2>4. CASE Redeem(r)
    <3>1. g = r /\ grants'[r].code = call[r].given
      BY <2>1, <2>4 DEF Redeem, TypeOK
    <3> QED BY <2>1, <2>4, <3>1 DEF Redeem, FoundOf, ClientOfGrant
  <2>5. CASE Rotate(r) \/ revoke(r)
    <3>1. /\ call[r].kind \in {"refresh", "revoke"} /\ found[r] = Owner(call[r].given)
          /\ grants[found[r]].at # "none" /\ Theirs(r)
      BY <2>1, <2>5 DEF Rotate, revoke, FoundOf, ShapeOf, Fits
    <3>2. g = found[r]
      BY <2>1, <2>5 DEF Rotate, revoke, TypeOK
    <3> QED BY <2>1, <3>1, <3>2 DEF Keeps, Theirs, ClientOfGrant
  <2> QED BY <2>3, <2>4, <2>5
<1> QED BY <1>1, InvMoreHolds, PTL DEF Spec, OwnGrantsOnly

-----------------------------------------------------------------------------
(***************************************************************************)
(* The server keeps the promise of GrantPromise, step by step.             *)
(***************************************************************************)

\* What is traded stays the same when nobody is handed tokens.
LEMMA SameTraded ==
  ASSUME \A q \in Requests : /\ Issued(q)' <=> Issued(q)
                             /\ Issued(q) => call'[q].given = call[q].given
  PROVE  traded' = traded
<1>1. \A x : x \in traded <=> \E q \in Requests : Issued(q) /\ x = call[q].given
  BY DEF traded
<1>2. \A x : x \in traded' <=> \E q \in Requests : Issued(q)' /\ x = call'[q].given
  BY DEF traded
<1> QED BY <1>1, <1>2

\* What a view may be, and what it tells of a row.
Views == [at : {"none", "open", "ended"}, pair : Requests \cup {None}, manage : BOOLEAN,
          lasts : BOOLEAN]

\* A view is open when the row is stored and not revoked.
LEMMA ViewTells ==
  ASSUME NEW row \in GrantRow
  PROVE  /\ View(row) \in Views
         /\ View(row).at = "open" <=> row.at = "stored" /\ ~ row.revoked
         /\ View(row).at = "none" <=> row.at = "none"
         /\ View(row).pair = row.pair
         /\ View(row).manage = row.manage
         /\ View(row).lasts <=> row.at = "stored" /\ ~ row.revoked /\ row.lasts
<1>1. PICK ended \in BOOLEAN : ended = (row.at = "gone" \/ row.revoked)
  OBVIOUS
<1>2. PICK l \in BOOLEAN : l = (row.at # "none" /\ ~ ended /\ row.lasts)
  OBVIOUS
<1>3. View(row) = [at |-> IF row.at = "none" THEN "none" ELSE IF ended THEN "ended" ELSE "open",
                   pair |-> row.pair, manage |-> row.manage, lasts |-> l]
  BY <1>1, <1>2 DEF View
<1>4. l <=> row.at = "stored" /\ ~ row.revoked /\ row.lasts
  BY <1>1, <1>2 DEF GrantRow
<1>5. View(row).at = "open" <=> row.at = "stored" /\ ~ row.revoked
  <2>1. View(row).at = "open" <=> row.at # "none" /\ ~ ended
    BY <1>3
  <2> QED BY <1>1, <2>1 DEF GrantRow
<1>6. View(row).at = "none" <=> row.at = "none"
  BY <1>3
<1>7. View(row).pair = row.pair /\ View(row).manage = row.manage /\ View(row).lasts = l
  BY <1>3
<1>8. row.pair \in Requests \cup {None} /\ row.manage \in BOOLEAN
  BY DEF GrantRow
<1>9. View(row) \in Views
  BY <1>3, <1>8 DEF Views
<1> QED BY <1>4, <1>5, <1>6, <1>7, <1>9

\* A row keeps its view when what the view tells does not change.
LEMMA SameView ==
  ASSUME NEW row \in GrantRow, NEW new \in GrantRow,
         new.at = "none" <=> row.at = "none",
         new.at = "stored" /\ ~ new.revoked <=> row.at = "stored" /\ ~ row.revoked,
         new.pair = row.pair, new.manage = row.manage,
         row.at # "stored" \/ row.revoked \/ new.lasts = row.lasts
  PROVE  View(new) = View(row)
<1>1. View(new).lasts = View(row).lasts
  BY ViewTells DEF GrantRow, Views
<1>2. View(new).at = View(row).at
  BY ViewTells DEF GrantRow, Views
<1> QED BY <1>1, <1>2, ViewTells DEF Views

\* A row that loses the permission to manage MCPs.
LEMMA Narrowed ==
  ASSUME NEW row \in GrantRow, NEW new \in GrantRow,
         new.at = row.at, new.pair = row.pair, new.revoked = row.revoked, new.lasts = row.lasts,
         new.manage = FALSE
  PROVE  View(new) = [View(row) EXCEPT !.manage = FALSE]
<1>1. /\ View(new).at = View(row).at /\ View(new).lasts = View(row).lasts
      /\ View(new).pair = View(row).pair /\ View(new).manage = FALSE
  BY ViewTells DEF Views, GrantRow
<1> QED BY <1>1, ViewTells DEF Views

\* A row whose refresh token expires.
LEMMA Expired ==
  ASSUME NEW row \in GrantRow, NEW new \in GrantRow,
         new.at = row.at, new.pair = row.pair, new.revoked = row.revoked, new.lasts = FALSE,
         new.manage = row.manage
  PROVE  View(new) = [View(row) EXCEPT !.lasts = FALSE]
<1>1. /\ View(new).at = View(row).at /\ View(new).lasts = FALSE
      /\ View(new).pair = View(row).pair /\ View(new).manage = View(row).manage
  BY ViewTells DEF Views, GrantRow
<1> QED BY <1>1, ViewTells DEF Views

\* A row that ends.
LEMMA EndedRow ==
  ASSUME NEW row \in GrantRow, NEW new \in GrantRow, row.at # "none", new.at # "none",
         new.at = "gone" \/ new.revoked, new.pair = row.pair, new.manage = row.manage
  PROVE  View(new) = [View(row) EXCEPT !.at = "ended", !.lasts = FALSE]
<1>1. /\ View(new).at = "ended" /\ View(new).lasts = FALSE
      /\ View(new).pair = View(row).pair /\ View(new).manage = View(row).manage
  BY ViewTells DEF Views
<1> QED BY <1>1, ViewTells DEF Views

\* The views of all rows make the chain.
LEMMA ChainChange ==
  ASSUME NEW g \in Requests, \A h \in Requests \ {g} : View(grants'[h]) = View(grants[h])
  PROVE  /\ chain \in [Requests -> {View(grants[h]) : h \in Requests}]
         /\ chain' = [chain EXCEPT ![g] = View(grants'[g])]
         /\ chain[g] = View(grants[g])
<1>1. PICK v : v = View(grants'[g])
  OBVIOUS
<1>2. PICK c : c = chain'
  OBVIOUS
<1>3. c = [h \in Requests |-> IF h = g THEN v ELSE View(grants[h])]
  BY <1>1, <1>2 DEF chain
<1>4. chain = [h \in Requests |-> View(grants[h])]
  BY DEF chain
<1>5. c = [chain EXCEPT ![g] = v]
  BY <1>3, <1>4
<1> QED BY <1>1, <1>2, <1>4, <1>5

\* A step that ends the open grants of G, and changes no other view.
LEMMA EndsMany ==
  ASSUME Inv, Inv', NEW G \in SUBSET Requests, UNCHANGED traded,
         \A g \in G : /\ Stored(g) /\ ~ grants[g].revoked
                      /\ grants'[g].at # "none" /\ Ended(g)'
                      /\ grants'[g].pair = grants[g].pair /\ grants'[g].manage = grants[g].manage,
         \A g \in Requests \ G : View(grants'[g]) = View(grants[g])
  PROVE  P!End(G)
<1>0. grants \in [Requests -> GrantRow] /\ grants' \in [Requests -> GrantRow]
  BY DEF Inv, TypeOK
<1>1. \A g \in G : chain[g].at = "open"
  BY <1>0, ViewTells DEF chain, Stored
<1>2. \A g \in G : View(grants'[g]) = [View(grants[g]) EXCEPT !.at = "ended", !.lasts = FALSE]
  BY <1>0, EndedRow DEF Ended, Stored
<1>3. PICK c : c = chain'
  OBVIOUS
<1>4. c = [g \in Requests |-> View(grants'[g])]
  BY <1>3 DEF chain
<1>5. \A g \in Requests : chain[g] = View(grants[g])
  BY DEF chain
<1>6. c = [g \in Requests |-> IF g \in G THEN [chain[g] EXCEPT !.at = "ended", !.lasts = FALSE]
                              ELSE chain[g]]
  BY <1>2, <1>4, <1>5
<1> QED BY <1>1, <1>3, <1>6 DEF P!End

\* A step of one row, in the terms of the promise.
LEMMA RowStep ==
  ASSUME Inv, Inv', NEW g \in Requests, Stored(g), ~ grants[g].revoked, UNCHANGED traded,
         \A h \in Requests \ {g} : View(grants'[h]) = View(grants[h]),
         \/ View(grants'[g]) = [View(grants[g]) EXCEPT !.manage = FALSE]
         \/ View(grants'[g]) = [View(grants[g]) EXCEPT !.lasts = FALSE]
  PROVE  P!Narrow(g) \/ P!Expire(g)
<1>1. chain[g].at = "open" /\ chain[g] = View(grants[g])
  BY ViewTells DEF chain, Inv, TypeOK, Stored
<1>2. chain' = [chain EXCEPT ![g] = View(grants'[g])] /\ chain \in [Requests -> {View(grants[h]) : h \in Requests}]
  BY ChainChange
<1>3. CASE View(grants'[g]) = [View(grants[g]) EXCEPT !.manage = FALSE]
  <2>1. chain' = [chain EXCEPT ![g].manage = FALSE]
    BY <1>1, <1>2, <1>3
  <2> QED BY <1>1, <2>1 DEF P!Narrow
<1>4. CASE View(grants'[g]) = [View(grants[g]) EXCEPT !.lasts = FALSE]
  <2>1. chain' = [chain EXCEPT ![g].lasts = FALSE]
    BY <1>1, <1>2, <1>4
  <2> QED BY <1>1, <2>1 DEF P!Expire
<1> QED BY <1>3, <1>4

\* A code or a refresh token that nobody traded is traded.
LEMMA TradesOne ==
  ASSUME NEW r \in Requests, ~ Issued(r), Issued(r)', call' = call,
         \A q \in Requests \ {r} : Issued(q)' <=> Issued(q)
  PROVE  traded' = traded \cup {call[r].given}
<1>1. \A x : x \in traded <=> \E q \in Requests : Issued(q) /\ x = call[q].given
  BY DEF traded
<1>2. \A x : x \in traded' <=> \E q \in Requests : Issued(q)' /\ x = call[q].given
  BY DEF traded
<1> QED BY <1>1, <1>2

\* `Redeem` opens a grant.
LEMMA RedeemOpens ==
  ASSUME Inv, Inv', NEW r \in Requests, Redeem(r), Stocked(call[r].given)
  PROVE  P!PNext
<1> DEFINE k == call[r].given
<1>1. /\ ~ Issued(r) /\ grants[r].at = "none" /\ k \in Codes
      /\ \A q \in Requests \ {r} : result'[q] = result[q]
  <2>1. Alone(r) /\ ShapeOf(r) /\ RowOf(r)
    BY StepAlone DEF Serve, Inv, Rows, Shape
  <2> QED BY <2>1 DEF Alone, RowOf, Issued, Redeem, ShapeOf, Fits
<1>2. TypeOK /\ call' = call /\ result'[r] = "granted"
  BY DEF Redeem, Stocked, Inv, TypeOK
<1>3. traded' = traded \cup {k}
  BY <1>1, <1>2, TradesOne DEF Issued
<1>4. k \notin traded
  <2> SUFFICES ASSUME NEW q \in Requests, Issued(q), call[q].given = k PROVE FALSE
    BY DEF traded
  <2>1. SpentOf(q) /\ ShapeOf(q)
    BY DEF Inv, Spent, Shape
  <2>2. CASE result[q] = "granted"
    BY <2>1, <2>2 DEF SpentOf, Stocked
  <2>3. CASE result[q] = "rotated"
    BY <1>1, <2>1, <2>3, GrantConstants DEF ShapeOf
  <2> QED BY <2>2, <2>3 DEF Issued
<1>5. PICK row : /\ row = [at |-> "stored", code |-> k, pair |-> r,
                           renews |-> call[r].client \in Refreshing,
                           manage |-> k \in Manages, fresh |-> TRUE,
                           lasts |-> TRUE, revoked |-> FALSE]
                 /\ grants' = [grants EXCEPT ![r] = row]
  BY DEF Redeem, Stocked
<1>6. grants'[r] = row /\ \A h \in Requests \ {r} : grants'[h] = grants[h]
  BY <1>2, <1>5 DEF TypeOK
<1>7. View(grants'[r]) = [at |-> "open", pair |-> r, manage |-> k \in Manages, lasts |-> TRUE]
  <2>1. PICK m : m = (k \in Manages)
    OBVIOUS
  <2>2. /\ row \in GrantRow /\ row.at = "stored" /\ row.pair = r /\ row.manage = m
        /\ row.lasts = TRUE /\ row.revoked = FALSE
    <3>1. grants' \in [Requests -> GrantRow]
      BY DEF Inv, TypeOK
    <3> QED BY <1>5, <1>6, <2>1, <3>1
  <2>3. View(row) = [at |-> "open", pair |-> r, manage |-> m, lasts |-> TRUE]
    <3>1. /\ View(row) \in Views /\ View(row).at = "open" /\ View(row).pair = r
          /\ View(row).manage = m /\ View(row).lasts = TRUE
      BY <2>2, ViewTells DEF Views
    <3> QED BY <3>1 DEF Views
  <2> QED BY <1>6, <2>1, <2>3
<1>8. \A h \in Requests \ {r} : View(grants'[h]) = View(grants[h])
  BY <1>6 DEF View
<1>9. chain' = [chain EXCEPT ![r] = [at |-> "open", pair |-> r, manage |-> k \in Manages,
                                     lasts |-> TRUE]]
  BY <1>7, <1>8, ChainChange, Zenon
<1>10. chain[r].at = "none"
  BY <1>1, ViewTells DEF chain, Inv, TypeOK, Stored
<1>11. P!OpenGrant(r, k, r)
  BY <1>3, <1>4, <1>9, <1>10, Zenon DEF P!OpenGrant
<1> QED BY <1>1, <1>11, Zenon DEF P!PNext

\* `Rotate` renews one.
LEMMA RotateRenews ==
  ASSUME Inv, Inv', NEW r \in Requests, Rotate(r), Unchanged(r)
  PROVE  P!PNext
<1>1. PICK s, g :
        /\ s = call[r].given /\ g = found[r]
        /\ ~ Issued(r) /\ s \in Requests /\ Issued(s) /\ TypeOK
        /\ g \in Requests /\ grants[g].pair = s /\ Stored(g) /\ ~ grants[g].revoked
  BY StepAlone DEF Serve, Alone, Inv, Rotate, Unchanged, Renewing, Shape, ShapeOf, Fits
<1>2. /\ call' = call /\ result' = [result EXCEPT ![r] = "rotated"] /\ Owner(s) = g
      /\ grants' = [grants EXCEPT ![g].pair = r, ![g].fresh = TRUE]
  BY <1>1 DEF Rotate, Answer, Inv, Rows, RowOf, Stored
<1>3. traded' = traded \cup {s}
  BY <1>1, <1>2, TradesOne DEF Issued, TypeOK
<1>4. s \notin traded
  <2> SUFFICES ASSUME NEW q \in Requests, Issued(q), call[q].given = s PROVE FALSE
    BY DEF traded
  <2>1. SpentOf(q) /\ ShapeOf(q)
    BY DEF Inv, Spent, Shape
  <2>2. CASE result[q] = "granted"
    BY <1>1, <2>1, <2>2, GrantConstants DEF ShapeOf
  <2>3. CASE result[q] = "rotated"
    BY <1>1, <1>2, <2>1, <2>3 DEF SpentOf
  <2> QED BY <2>2, <2>3 DEF Issued
<1>5. r # s /\ r \notin traded
  <2> SUFFICES ASSUME NEW q \in Requests, Issued(q), call[q].given = r PROVE FALSE
    BY <1>1 DEF traded
  <2>1. ShapeOf(q)
    BY DEF Inv, Shape
  <2>2. CASE result[q] = "granted"
    BY <2>1, <2>2, GrantConstants DEF ShapeOf
  <2>3. CASE result[q] = "rotated"
    BY <1>1, <2>1, <2>3 DEF ShapeOf
  <2> QED BY <2>2, <2>3 DEF Issued
<1>6. /\ grants'[g].pair = r /\ \A h \in Requests \ {g} : grants'[h] = grants[h]
      /\ grants'[g].at = grants[g].at /\ grants'[g].manage = grants[g].manage
      /\ grants'[g].revoked = grants[g].revoked /\ grants'[g].lasts = grants[g].lasts
  BY <1>1, <1>2 DEF TypeOK, GrantRow
<1>7. View(grants'[g]) = [View(grants[g]) EXCEPT !.pair = r]
  BY <1>6 DEF View
<1>8. \A h \in Requests \ {g} : View(grants'[h]) = View(grants[h])
  BY <1>6 DEF View
<1>9. /\ chain' = [chain EXCEPT ![g] = View(grants'[g])] /\ chain[g] = View(grants[g])
      /\ chain \in [Requests -> {View(grants[h]) : h \in Requests}]
  BY <1>1, <1>8, ChainChange
<1>10. chain[g].at = "open" /\ chain[g].pair = s
  BY <1>1, <1>9, ViewTells DEF TypeOK, Stored
<1>11. chain' = [chain EXCEPT ![g].pair = r]
  BY <1>1, <1>7, <1>9
<1>12. P!Renew(g, r)
  BY <1>3, <1>4, <1>5, <1>10, <1>11, Zenon DEF P!Renew
<1> QED BY <1>1, <1>12, Zenon DEF P!PNext

\* Every step opens, renews, narrows, lets expire or ends grants, or changes
\* nothing the promise is about.
LEMMA StepKeepsPromise ==
  ASSUME Inv, Inv', [Next]_vars
  PROVE  [P!PNext]_P!pvars
<1>1. /\ TypeOK /\ grants \in [Requests -> GrantRow] /\ grants' \in [Requests -> GrantRow]
  BY DEF Inv, TypeOK
<1>2. ASSUME UNCHANGED << traded, grants >> PROVE [P!PNext]_P!pvars
  <2>1. \A g \in Requests : View(grants'[g]) = View(grants[g])
    BY <1>2 DEF View
  <2>2. chain' = chain
    BY <2>1 DEF chain
  <2> QED BY <1>2, <2>2 DEF P!pvars
<1>3. ASSUME UNCHANGED locals PROVE UNCHANGED traded
  BY <1>3, SameTraded DEF locals, Issued
<1>4. ASSUME UNCHANGED traded, \A g \in Requests : View(grants'[g]) = View(grants[g])
      PROVE  [P!PNext]_P!pvars
  <2>1. chain' = chain
    BY <1>4 DEF chain
  <2> QED BY <1>4, <2>1 DEF P!pvars
<1>5. ASSUME UNCHANGED traded, NEW g \in Requests, Stored(g), Ended(g)', grants'[g].at # "none",
             grants'[g].pair = grants[g].pair, grants'[g].manage = grants[g].manage,
             \A h \in Requests \ {g} : grants'[h] = grants[h]
      PROVE  [P!PNext]_P!pvars
  <2>1. \A h \in Requests \ {g} : View(grants'[h]) = View(grants[h])
    BY <1>5 DEF View
  <2>2. CASE grants[g].revoked
    <3>1. View(grants'[g]) = View(grants[g])
      BY <1>1, <1>5, <2>2, SameView DEF Ended, Stored
    <3> QED BY <1>4, <1>5, <2>1, <3>1
  <2>3. CASE ~ grants[g].revoked
    <3>1. P!End({g})
      BY <1>5, <2>1, <2>3, EndsMany
    <3> QED BY <1>5, <3>1, Zenon DEF P!PNext
  <2> QED BY <2>2, <2>3
<1>6. ASSUME NEW r \in Requests, Arrive(r) \/ Manage(r) \/ Serve(r), result'[r] \notin {"granted", "rotated"}
      PROVE  UNCHANGED traded
  BY <1>6, StepAlone, SameTraded DEF Alone, Issued
<1>7. ASSUME NEW r \in Requests, Arrive(r) \/ Manage(r) PROVE [P!PNext]_P!pvars
  <2>1. UNCHANGED << grants, result >> /\ ~ Issued(r)
    BY <1>7, StepAlone DEF Arrive, Manage, Begin, tables, Alone
  <2> QED BY <1>2, <1>6, <1>7, <2>1 DEF Issued
<1>8. ASSUME NEW r \in Requests, Serve(r) PROVE [P!PNext]_P!pvars
  <2>1. ~ Issued(r) /\ result \in [Requests -> Results]
    BY <1>1, <1>8, StepAlone DEF Alone, TypeOK
  <2>2. CASE Redeem(r)
    <3>1. CASE Stocked(call[r].given)
      BY <2>2, <3>1, RedeemOpens
    <3>2. CASE ~ Stocked(call[r].given)
      <4>1. grants' = grants /\ result'[r] = "invalid"
        BY <2>1, <2>2, <3>2 DEF Redeem, Answer
      <4> QED BY <1>2, <1>6, <1>8, <4>1
    <3> QED BY <3>1, <3>2
  <2>3. CASE Rotate(r)
    <3>1. CASE Unchanged(r)
      BY <2>3, <3>1, RotateRenews
    <3>2. CASE ~ Unchanged(r)
      <4>1. grants' = grants /\ result' = result
        BY <2>3, <3>2 DEF Rotate, Lost
      <4> QED BY <1>2, <1>6, <1>8, <2>1, <4>1 DEF Issued
    <3> QED BY <3>1, <3>2
  <2>4. CASE revoke(r)
    <3>1. UNCHANGED traded
      <4>1. result'[r] \in {"reused", "revoked"}
        BY <2>1, <2>4 DEF revoke, Answer
      <4> QED BY <1>6, <1>8, <4>1
    <3>2. PICK g : g = found[r] /\ g \in Requests
      BY <2>4 DEF revoke, Inv, Shape, ShapeOf
    <3>3. CASE ~ Stored(g)
      BY <1>2, <2>4, <3>1, <3>2, <3>3 DEF revoke
    <3>4. CASE Stored(g)
      <4>1. grants' = [grants EXCEPT ![g].revoked = TRUE]
        BY <2>4, <3>2, <3>4 DEF revoke
      <4>2. /\ grants'[g].at = grants[g].at /\ grants'[g].pair = grants[g].pair
            /\ grants'[g].manage = grants[g].manage /\ grants'[g].revoked
            /\ \A h \in Requests \ {g} : grants'[h] = grants[h]
        BY <1>1, <3>2, <4>1 DEF GrantRow
      <4> QED BY <1>5, <3>1, <3>2, <3>4, <4>2 DEF Ended, Stored
    <3> QED BY <3>3, <3>4
  <2>5. CASE remove_mcp_management(r)
    <3>1. UNCHANGED traded
      <4>1. result'[r] \in {"narrowed", "refused"}
        BY <2>1, <2>5 DEF remove_mcp_management, Answer
      <4> QED BY <1>6, <1>8, <4>1
    <3>2. PICK g : g = found[r] /\ g \in Requests
      BY <2>5 DEF remove_mcp_management, Inv, Shape, ShapeOf
    <3>3. CASE grants' = grants
      BY <1>2, <3>1, <3>3
    <3>4. CASE /\ Stored(g) /\ ~ grants[g].revoked
               /\ grants' = [grants EXCEPT ![g].manage = FALSE]
      <4>1. /\ grants'[g].at = grants[g].at /\ grants'[g].pair = grants[g].pair
            /\ grants'[g].revoked = grants[g].revoked /\ grants'[g].lasts = grants[g].lasts
            /\ grants'[g].manage = FALSE
            /\ \A h \in Requests \ {g} : grants'[h] = grants[h]
        BY <1>1, <3>2, <3>4 DEF GrantRow
      <4>2. View(grants'[g]) = [View(grants[g]) EXCEPT !.manage = FALSE]
        BY <1>1, <3>2, <4>1, Narrowed
      <4>3. \A h \in Requests \ {g} : View(grants'[h]) = View(grants[h])
        BY <4>1 DEF View
      <4>4. P!Narrow(g) \/ P!Expire(g)
        BY <3>1, <3>2, <3>4, <4>2, <4>3, RowStep
      <4> QED BY <3>2, <4>4, Zenon DEF P!PNext
    <3> QED BY <2>5, <3>2, <3>3, <3>4 DEF remove_mcp_management
  <2>6. CASE ReadCode(r) \/ LookUp(r) \/ Suspect(r) \/ ReadCurrent(r) \/ Find(r) \/ Load(r)
    <3>1. grants' = grants
      BY <2>6 DEF ReadCode, LookUp, Suspect, ReadCurrent, Find, Load, tables
    <3>2. \/ \E p : Goto(r, p)
          \/ \E p, g : GotoWith(r, p, g)
          \/ \E res \in Results \ {"granted", "rotated"} : Answer(r, res)
      <4>1. {"invalid", "exceeded", "reused", "revoked", "unknown", "refused"}
               \subseteq Results \ {"granted", "rotated"}
        BY DEF Results
      <4> QED BY <2>6, <4>1, Zenon DEF ReadCode, LookUp, Suspect, ReadCurrent, Find, Load,
                                       NotRetired, Found, Unheld
    <3>3. result'[r] \notin {"granted", "rotated"}
      BY <2>1, <3>2 DEF Goto, GotoWith, Answer, Issued
    <3> QED BY <1>2, <1>6, <1>8, <3>1, <3>3
  <2> QED BY <1>8, <2>2, <2>3, <2>4, <2>5, <2>6 DEF Serve
<1>9. ASSUME NEW p \in People, detach(p) PROVE [P!PNext]_P!pvars
  <2>1. UNCHANGED traded
    BY <1>3, <1>9 DEF detach
  <2>2. PICK G \in SUBSET Requests :
          G = {g \in Requests : Stored(g) /\ PersonOf[grants[g].code] = p /\ ~ grants[g].revoked}
    OBVIOUS
  <2>3. \A g \in Requests :
          IF Stored(g) /\ PersonOf[grants[g].code] = p
          THEN /\ grants'[g].at = grants[g].at /\ grants'[g].pair = grants[g].pair
               /\ grants'[g].manage = grants[g].manage /\ grants'[g].revoked
          ELSE grants'[g] = grants[g]
    BY <1>1, <1>9 DEF detach, GrantRow
  <2>4. \A g \in G : /\ Stored(g) /\ ~ grants[g].revoked /\ Ended(g)'
                     /\ grants'[g].at # "none"
                     /\ grants'[g].pair = grants[g].pair /\ grants'[g].manage = grants[g].manage
    BY <2>2, <2>3 DEF Ended, Stored
  <2>5. ASSUME NEW g \in Requests \ G PROVE View(grants'[g]) = View(grants[g])
    <3>1. CASE Stored(g) /\ PersonOf[grants[g].code] = p
      <4>1. grants[g].revoked
        BY <2>2, <2>5, <3>1
      <4> QED BY <1>1, <2>3, <3>1, <4>1, SameView DEF Ended
    <3>2. CASE ~ (Stored(g) /\ PersonOf[grants[g].code] = p)
      BY <2>3, <3>2 DEF View
    <3> QED BY <3>1, <3>2
  <2>6. P!End(G)
    BY <2>1, <2>4, <2>5, EndsMany
  <2> QED BY <2>6, Zenon DEF P!PNext
<1>10. ASSUME NEW g \in Requests, delete_inactive(g) PROVE [P!PNext]_P!pvars
  <2>1. UNCHANGED traded /\ Stored(g)
    BY <1>3, <1>10 DEF delete_inactive
  <2>2. /\ grants'[g].at = "gone" /\ grants'[g].pair = grants[g].pair
        /\ grants'[g].manage = grants[g].manage
        /\ \A h \in Requests \ {g} : grants'[h] = grants[h]
    BY <1>1, <1>10 DEF delete_inactive, GrantRow
  <2> QED BY <1>5, <2>1, <2>2 DEF Ended
<1>11. CASE Expire
  <2>1. UNCHANGED traded
    BY <1>3, <1>11 DEF Expire
  <2>2. CASE grants' = grants
    BY <1>2, <2>1, <2>2
  <2>3. CASE \E g \in Requests : grants' = [grants EXCEPT ![g].fresh = FALSE]
    <3>1. \A h \in Requests : /\ grants'[h].at = grants[h].at /\ grants'[h].pair = grants[h].pair
                              /\ grants'[h].manage = grants[h].manage
                              /\ grants'[h].revoked = grants[h].revoked
                              /\ grants'[h].lasts = grants[h].lasts
      BY <1>1, <2>3 DEF GrantRow
    <3>2. \A h \in Requests : View(grants'[h]) = View(grants[h])
      BY <3>1 DEF View
    <3> QED BY <1>4, <2>1, <3>2
  <2>4. CASE \E g \in Requests : Stored(g) /\ grants' = [grants EXCEPT ![g].lasts = FALSE]
    <3>1. PICK g \in Requests : Stored(g) /\ grants' = [grants EXCEPT ![g].lasts = FALSE]
      BY <2>4
    <3>2. /\ grants'[g].at = grants[g].at /\ grants'[g].pair = grants[g].pair
          /\ grants'[g].manage = grants[g].manage /\ grants'[g].revoked = grants[g].revoked
          /\ grants'[g].lasts = FALSE
          /\ \A h \in Requests \ {g} : grants'[h] = grants[h]
      BY <1>1, <3>1 DEF GrantRow
    <3>3. \A h \in Requests \ {g} : View(grants'[h]) = View(grants[h])
      BY <3>2 DEF View
    <3>4. CASE grants[g].revoked
      <4>1. View(grants'[g]) = View(grants[g])
        BY <1>1, <3>2, <3>4, SameView DEF Ended
      <4> QED BY <1>4, <2>1, <3>3, <4>1
    <3>5. CASE ~ grants[g].revoked
      <4>1. View(grants'[g]) = [View(grants[g]) EXCEPT !.lasts = FALSE]
        BY <1>1, <3>2, Expired
      <4>2. P!Narrow(g) \/ P!Expire(g)
        BY <2>1, <3>1, <3>3, <3>5, <4>1, RowStep
      <4> QED BY <4>2, Zenon DEF P!PNext
    <3> QED BY <3>4, <3>5
  <2> QED BY <1>11, <2>2, <2>3, <2>4 DEF Expire
<1>12. ASSUME NEW k \in Codes, Consent(k) PROVE [P!PNext]_P!pvars
  <2>1. UNCHANGED << grants, locals >>
    BY <1>12 DEF Consent, Visit, CheckRole, Sweep, create_authorization_code
  <2> QED BY <1>2, <1>3, <2>1
<1>13. CASE UNCHANGED vars
  <2>1. UNCHANGED << grants, locals >>
    BY <1>13 DEF vars, locals
  <2> QED BY <1>2, <1>3, <2>1
<1> QED BY <1>7, <1>8, <1>9, <1>10, <1>11, <1>12, <1>13 DEF Next

\* The server implements GrantPromise: codes and refresh tokens are traded
\* one for one, and a grant that ended stays closed.
THEOREM PromiseIsKept == Spec => KeepsPromise
<1>1. Init => P!PInit
  <2> SUFFICES ASSUME Init PROVE P!PInit
    OBVIOUS
  <2>1. traded = {}
    BY DEF Init, traded, Issued
  <2>2. \A g \in Requests :
          (grants[g].at # "none" /\ ~ Ended(g) /\ grants[g].lasts) = FALSE
    <3>1. \A g \in Requests : grants[g].at = "none"
      BY DEF Init
    <3> QED BY <3>1, Zenon
  <2>3. \A g \in Requests :
          View(grants[g]) = [at |-> "none", pair |-> None, manage |-> FALSE, lasts |-> FALSE]
    BY <2>2 DEF Init, View
  <2>4. chain = [g \in Requests |-> [at |-> "none", pair |-> None, manage |-> FALSE,
                                     lasts |-> FALSE]]
    BY <2>3 DEF chain
  <2> QED BY <2>1, <2>4 DEF P!PInit
<1> QED BY <1>1, InvInit, InvNext, StepKeepsPromise, PTL DEF Spec, KeepsPromise, P!PSpec
=============================================================================
