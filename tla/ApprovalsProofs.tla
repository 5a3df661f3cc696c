--------------------------- MODULE ApprovalsProofs ---------------------------
(***************************************************************************)
(* For any calls, tokens, asks, limits and times: the gate never holds     *)
(* more requests of a token than the limit, has a second open request for  *)
(* a call only beside approved ones, says a refusal once, never replaces a *)
(* decision, and implements module ApprovalPromise.                        *)
(***************************************************************************)
EXTENDS Approvals, FiniteSetTheorems, TLAPS

\* A line holds calls of its token that are at the gate, each once.
LineHolds ==
  \A t \in Tokens :
    /\ \A i \in 1..Len(line[t]) : pc[line[t][i]] \in AtGate /\ TokenOf[line[t][i]] = t
    /\ \A i, j \in 1..Len(line[t]) : line[t][i] = line[t][j] => i = j

\* A call that got past the wait has the turn.
TurnHeld == \A c \in Calls : pc[c] \in InTurn => HasTurn(c)

\* The autoincrement is past every row.
NoFuture == \A i \in Ids : i >= nextId => ~ Exists(i)

\* A request that can still be used, and that is not the newest for its call, was
\* approved when it was over: a newer one is made only when none is open.
OlderApproved ==
  \A i, j \in Ids :
    /\ Live(i) /\ Exists(j) /\ i < j
    /\ rows[i].token = rows[j].token /\ rows[i].ask = rows[j].ask
    => rows[i].status = "approved"

\* The rows of S were approved.
AllApproved(S) == \A i \in S : rows[i].status = "approved"

\* What a call that is about to consume a row read about it is still so.
Reads(c) ==
  /\ found[c].id \in Ids /\ found[c].id < nextId
  /\ found[c].status # "pending"
  /\ AllApproved(Matching(TokenOf[c], ask[c]) \ {found[c].id})
  /\ Exists(found[c].id) =>
       /\ rows[found[c].id].token = TokenOf[c]
       /\ rows[found[c].id].status = found[c].status
       /\ ~ rows[found[c].id].consumed

\* What a call on its way to a new request found out is still so.
CallOK(c) ==
  /\ pc[c] = "consuming" => Reads(c)
  /\ pc[c] \in {"requesting", "summarizing", "inserting"} =>
       AllApproved(Matching(TokenOf[c], ask[c]))
  /\ pc[c] \in {"summarizing", "inserting"} =>
       Cardinality(PendingOf(TokenOf[c], clock)) < MaxPending

CallsOK == \A c \in Calls : CallOK(c)

\* The inductive invariant.
Inv ==
  /\ TypeOK /\ LineHolds /\ TurnHeld /\ NoFuture /\ CallsOK
  /\ WithinLimit /\ OlderApproved

-----------------------------------------------------------------------------
(***************************************************************************)
(* Lines                                                                   *)
(***************************************************************************)

\* What is left of a line without one place: the other members, each once, and
\* the same head unless it was the head that left.
LEMMA WithoutFacts ==
  ASSUME NEW S, NEW q \in Seq(S), NEW i \in 1..Len(q),
         \A j, k \in 1..Len(q) : q[j] = q[k] => j = k
  PROVE  /\ TL!Without(q, i) \in Seq(S)
         /\ \A j \in 1..Len(TL!Without(q, i)) :
              /\ TL!Without(q, i)[j] # q[i]
              /\ \E k \in 1..Len(q) : TL!Without(q, i)[j] = q[k]
         /\ \A j, k \in 1..Len(TL!Without(q, i)) :
              TL!Without(q, i)[j] = TL!Without(q, i)[k] => j = k
         /\ i # 1 => TL!Without(q, i) # << >> /\ TL!Without(q, i)[1] = q[1]
<1> DEFINE w == TL!Without(q, i)
           n == Len(q)
           from(j) == IF j < i THEN j ELSE j + 1
<1>1. n \in Nat /\ n - 1 \in Nat /\ i \in 1..n
  OBVIOUS
<1>2. \A j \in 1..(n - 1) : w[j] = q[from(j)]
  BY DEF TL!Without
<1>3. \A j \in 1..(n - 1) : from(j) \in 1..n /\ from(j) # i
  BY <1>1
<1>4. \A j, k \in 1..(n - 1) : from(j) = from(k) => j = k
  BY <1>1
<1>5. \A j \in 1..(n - 1) : w[j] \in S
  BY <1>2, <1>3
<1>6. w \in Seq(S) /\ Len(w) = n - 1
  BY <1>1, <1>5 DEF TL!Without
<1>7. i # 1 => n - 1 >= 1 /\ from(1) = 1
  BY <1>1
<1> HIDE DEF w, from, n
<1>8. i # 1 => w # << >> /\ w[1] = q[1]
  BY <1>1, <1>2, <1>6, <1>7
<1>9. \A j \in 1..Len(w) : w[j] # q[i] /\ \E k \in 1..Len(q) : w[j] = q[k]
  BY <1>1, <1>2, <1>3, <1>6 DEF n
<1>10. \A j, k \in 1..Len(w) : w[j] = w[k] => j = k
  BY <1>2, <1>3, <1>4, <1>6 DEF n
<1> QED
  BY <1>6, <1>8, <1>9, <1>10 DEF w

\* Two calls of one token never have the turn together.
LEMMA OneTurn ==
  ASSUME Inv, NEW c \in Calls, NEW d \in Calls, TokenOf[c] = TokenOf[d],
         pc[c] \in InTurn, pc[d] \in InTurn
  PROVE  c = d
  BY DEF Inv, TurnHeld, HasTurn, TL!HeadIs

\* A call that leaves the line takes the turn of nobody else.
LEMMA LeaveFacts ==
  ASSUME ApprovalsAssumption, Inv, NEW c \in Calls, TL!LeaveLine(c),
         NEW phase \in Phases \ AtGate, pc' = [pc EXCEPT ![c] = phase]
  PROVE  line' \in [Tokens -> Seq(Calls)] /\ LineHolds' /\ TurnHeld'
<1> USE DEF ApprovalsAssumption
<1> DEFINE u == TokenOf[c]  q == line[u]
<1>1. u \in Tokens /\ q \in Seq(Calls)
  BY DEF Inv, TypeOK
<1>2. PICK i \in 1..Len(q) : q[i] = c /\ line' = [line EXCEPT ![u] = TL!Without(@, i)]
  BY DEF TL!LeaveLine
<1> DEFINE w == TL!Without(q, i)
<1>3. /\ \A j \in 1..Len(q) : q[j] \in Calls /\ pc[q[j]] \in AtGate /\ TokenOf[q[j]] = u
      /\ \A j, k \in 1..Len(q) : q[j] = q[k] => j = k
  BY <1>1 DEF Inv, LineHolds
<1>7. /\ w \in Seq(Calls)
      /\ \A j \in 1..Len(w) : w[j] # q[i] /\ \E k \in 1..Len(q) : w[j] = q[k]
      /\ \A j, k \in 1..Len(w) : w[j] = w[k] => j = k
      /\ i # 1 => w # << >> /\ w[1] = q[1]
  BY <1>1, <1>3, WithoutFacts
<1> HIDE DEF w
<1>4. line'[u] = w /\ \A t \in Tokens : t # u => line'[t] = line[t]
  BY <1>1, <1>2 DEF Inv, TypeOK, w
<1>5. line' \in [Tokens -> Seq(Calls)]
  BY <1>1, <1>2, <1>7 DEF Inv, TypeOK, w
<1>9. LineHolds'
  <2>1. /\ \A j \in 1..Len(w) : w[j] \in Calls /\ w[j] # c /\ pc[w[j]] \in AtGate /\ TokenOf[w[j]] = u
        /\ \A j, k \in 1..Len(w) : w[j] = w[k] => j = k
    <3>1. ASSUME NEW j \in 1..Len(w)
          PROVE  w[j] \in Calls /\ w[j] # c /\ pc[w[j]] \in AtGate /\ TokenOf[w[j]] = u
      <4>1. PICK k \in 1..Len(q) : w[j] = q[k]
        BY <1>7
      <4>2. w[j] # c
        BY <1>2, <1>7
      <4> QED
        BY <1>3, <4>1, <4>2
    <3> QED
      BY <1>7, <3>1
  <2>2. ASSUME NEW t \in Tokens, t # u
        PROVE  /\ \A j \in 1..Len(line'[t]) : pc'[line'[t][j]] \in AtGate /\ TokenOf[line'[t][j]] = t
               /\ \A j, k \in 1..Len(line'[t]) : line'[t][j] = line'[t][k] => j = k
    <3>1. line'[t] = line[t] /\ line[t] \in Seq(Calls)
      BY <1>4, <2>2 DEF Inv, TypeOK
    <3>2. /\ \A j \in 1..Len(line[t]) : line[t][j] \in Calls /\ pc[line[t][j]] \in AtGate /\ TokenOf[line[t][j]] = t
          /\ \A j, k \in 1..Len(line[t]) : line[t][j] = line[t][k] => j = k
      BY <3>1 DEF Inv, LineHolds
    <3>3. \A d \in Calls : TokenOf[d] = t => pc'[d] = pc[d]
      BY <2>2 DEF Inv, TypeOK
    <3> QED
      BY <3>1, <3>2, <3>3
  <2>3. /\ \A j \in 1..Len(line'[u]) : pc'[line'[u][j]] \in AtGate /\ TokenOf[line'[u][j]] = u
        /\ \A j, k \in 1..Len(line'[u]) : line'[u][j] = line'[u][k] => j = k
    BY <1>4, <2>1 DEF Inv, TypeOK
  <2> QED
    BY <2>2, <2>3 DEF LineHolds
<1>10. TurnHeld'
  <2>1. SUFFICES ASSUME NEW d \in Calls, pc'[d] \in InTurn
                 PROVE  HasTurn(d)'
    BY DEF TurnHeld
  <2>2. d # c /\ pc'[d] = pc[d]
    BY <2>1 DEF Inv, TypeOK, AtGate
  <2>3. line[TokenOf[d]] # << >> /\ line[TokenOf[d]][1] = d
    BY <2>1, <2>2 DEF Inv, TurnHeld, HasTurn, TL!HeadIs
  <2>4. CASE TokenOf[d] = u
    BY <1>2, <1>4, <1>7, <2>2, <2>3, <2>4 DEF HasTurn, TL!HeadIs
  <2>5. CASE TokenOf[d] # u
    BY <1>4, <2>3, <2>5 DEF HasTurn, TL!HeadIs
  <2> QED
    BY <2>4, <2>5
<1> QED
  BY <1>5, <1>9, <1>10

\* A step of the call that has the turn, inside the gate.
LEMMA TurnFacts ==
  ASSUME ApprovalsAssumption, Inv, NEW c \in Calls, pc[c] \in AtGate, HasTurn(c),
         NEW phase \in InTurn, pc' = [pc EXCEPT ![c] = phase], line' = line
  PROVE  LineHolds' /\ TurnHeld'
<1> USE DEF ApprovalsAssumption
<1>1. \A d \in Calls : pc[d] \in AtGate => pc'[d] \in AtGate
  BY DEF Inv, TypeOK, AtGate
<1>2. \A t \in Tokens : line[t] \in Seq(Calls)
  BY DEF Inv, TypeOK
<1>3. LineHolds'
  <2> SUFFICES ASSUME NEW t \in Tokens
               PROVE  /\ \A i \in 1..Len(line[t]) : pc'[line[t][i]] \in AtGate /\ TokenOf[line[t][i]] = t
                      /\ \A i, j \in 1..Len(line[t]) : line[t][i] = line[t][j] => i = j
    BY DEF LineHolds
  <2>1. \A i \in 1..Len(line[t]) : line[t][i] \in Calls
    BY <1>2
  <2> QED
    BY <1>1, <2>1 DEF Inv, LineHolds
<1>4. TurnHeld'
  BY DEF Inv, TypeOK, TurnHeld, HasTurn, TL!HeadIs
<1> QED
  BY <1>3, <1>4

\* A call that enters the line takes the turn of nobody.
LEMMA EnterFacts ==
  ASSUME ApprovalsAssumption, Inv, NEW c \in Calls, TL!EnterLine(c),
         pc[c] \notin AtGate, pc' = [pc EXCEPT ![c] = "waiting"]
  PROVE  line' \in [Tokens -> Seq(Calls)] /\ LineHolds' /\ TurnHeld'
<1> USE DEF ApprovalsAssumption
<1> DEFINE u == TokenOf[c]  q == line[u]  w == Append(q, c)
<1>1. u \in Tokens /\ q \in Seq(Calls) /\ line' = [line EXCEPT ![u] = w]
  BY DEF Inv, TypeOK, TL!EnterLine
<1>2. line'[u] = w /\ \A t \in Tokens : t # u => line'[t] = line[t]
  BY <1>1 DEF Inv, TypeOK
<1>3. line' \in [Tokens -> Seq(Calls)]
  BY <1>1 DEF Inv, TypeOK
<1>4. \A i \in 1..Len(q) : q[i] # c
  BY DEF TL!EnterLine, TL!Stands
<1>5. \A d \in Calls : pc[d] \in AtGate => pc'[d] \in AtGate /\ d # c
  BY DEF Inv, TypeOK, AtGate
<1>6. pc'[c] \in AtGate
  BY DEF Inv, TypeOK, AtGate
<1>7. ASSUME NEW t \in Tokens
      PROVE  /\ \A i \in 1..Len(line[t]) :
                   line[t][i] \in Calls /\ pc'[line[t][i]] \in AtGate /\ TokenOf[line[t][i]] = t
             /\ \A i, j \in 1..Len(line[t]) : line[t][i] = line[t][j] => i = j
  <2>1. \A i \in 1..Len(line[t]) : line[t][i] \in Calls
    BY DEF Inv, TypeOK
  <2> QED
    BY <1>5, <2>1 DEF Inv, LineHolds
<1>8. /\ \A i \in 1..Len(w) : pc'[w[i]] \in AtGate /\ TokenOf[w[i]] = u
      /\ \A i, j \in 1..Len(w) : w[i] = w[j] => i = j
  <2>1. /\ \A i \in 1..Len(q) : pc'[q[i]] \in AtGate /\ TokenOf[q[i]] = u
        /\ \A i, j \in 1..Len(q) : q[i] = q[j] => i = j
    BY <1>1, <1>7
  <2>2. Len(w) = Len(q) + 1 /\ w[Len(q) + 1] = c /\ \A i \in 1..Len(q) : w[i] = q[i]
    BY <1>1
  <2>3. \A i \in 1..Len(w) : i \in 1..Len(q) \/ i = Len(q) + 1
    BY <1>1, <2>2
  <2>4. Len(q) + 1 \notin 1..Len(q)
    BY <1>1
  <2> HIDE DEF w, q
  <2> QED
    BY <1>4, <1>6, <2>1, <2>2, <2>3, <2>4
<1>9. LineHolds'
  <2> HIDE DEF w, q
  <2> SUFFICES ASSUME NEW t \in Tokens
               PROVE  /\ \A i \in 1..Len(line'[t]) : pc'[line'[t][i]] \in AtGate /\ TokenOf[line'[t][i]] = t
                      /\ \A i, j \in 1..Len(line'[t]) : line'[t][i] = line'[t][j] => i = j
    BY DEF LineHolds
  <2>1. CASE t = u
    BY <1>2, <1>8, <2>1
  <2>2. CASE t # u
    BY <1>2, <1>7, <2>2
  <2> QED
    BY <2>1, <2>2
<1>10. TurnHeld'
  <2>1. SUFFICES ASSUME NEW d \in Calls, pc'[d] \in InTurn
                 PROVE  HasTurn(d)'
    BY DEF TurnHeld
  <2>2. d # c /\ pc'[d] = pc[d]
    BY <2>1 DEF Inv, TypeOK, InTurn
  <2>3. line[TokenOf[d]] # << >> /\ line[TokenOf[d]][1] = d
    BY <2>1, <2>2 DEF Inv, TurnHeld, HasTurn, TL!HeadIs
  <2>4. CASE TokenOf[d] = u
    BY <1>1, <1>2, <2>3, <2>4 DEF HasTurn, TL!HeadIs
  <2>5. CASE TokenOf[d] # u
    BY <1>2, <2>3, <2>5 DEF HasTurn, TL!HeadIs
  <2> QED
    BY <2>4, <2>5
<1> QED
  BY <1>3, <1>9, <1>10

\* A call that neither was nor gets at the gate leaves the lines alone, and so
\* does a step of nobody.
LEMMA OutsideFacts ==
  ASSUME ApprovalsAssumption, Inv, line' = line,
         \A d \in Calls : pc'[d] = pc[d] \/ (pc[d] \notin AtGate /\ pc'[d] \notin AtGate)
  PROVE  LineHolds' /\ TurnHeld'
<1> USE DEF ApprovalsAssumption
<1>1. LineHolds'
  <2> SUFFICES ASSUME NEW t \in Tokens
               PROVE  /\ \A i \in 1..Len(line[t]) : pc'[line[t][i]] \in AtGate /\ TokenOf[line[t][i]] = t
                      /\ \A i, j \in 1..Len(line[t]) : line[t][i] = line[t][j] => i = j
    BY DEF LineHolds
  <2>1. \A i \in 1..Len(line[t]) : line[t][i] \in Calls
    BY DEF Inv, TypeOK
  <2> QED
    BY <2>1 DEF Inv, LineHolds
<1>2. TurnHeld'
  BY DEF Inv, TurnHeld, HasTurn, TL!HeadIs, AtGate
<1> QED
  BY <1>1, <1>2

-----------------------------------------------------------------------------
(***************************************************************************)
(* Rows                                                                    *)
(***************************************************************************)

\* The rows counted are finitely many, and fewer rows count for less.
LEMMA PendingFacts ==
  ASSUME ApprovalsAssumption, NEW S, S \subseteq Ids, NEW T, T \subseteq S
  PROVE  /\ IsFiniteSet(S) /\ Cardinality(S) \in Nat
         /\ Cardinality(T) \in Nat /\ Cardinality(T) <= Cardinality(S)
<1>1. IsFiniteSet(Ids)
  <2>1. MaxRows \in Int /\ 1 \in Int
    BY DEF ApprovalsAssumption
  <2>2. IsFiniteSet(1..MaxRows)
    BY <2>1, FS_Interval
  <2> QED
    BY <2>2 DEF Ids
<1>2. IsFiniteSet(S)
  BY <1>1, FS_Subset
<1>3. IsFiniteSet(T) /\ Cardinality(T) <= Cardinality(S)
  BY <1>2, FS_Subset
<1> QED
  BY <1>2, <1>3, FS_CardinalityType

\* A call keeps what it knows when no row that concerns it appears, but for one
\* that was approved.
LEMMA Frame ==
  ASSUME ApprovalsAssumption, Inv, NEW d \in Calls,
         pc'[d] = pc[d], ask'[d] = ask[d], found'[d] = found[d],
         nextId' \in Nat, nextId' >= nextId,
         \A i \in Matching(TokenOf[d], ask[d])' :
           rows'[i].status = "approved" \/ (i \in Matching(TokenOf[d], ask[d]) /\ rows'[i] = rows[i]),
         PendingOf(TokenOf[d], clock)' \subseteq PendingOf(TokenOf[d], clock),
         pc[d] = "consuming" /\ Exists(found[d].id)' =>
           Exists(found[d].id) /\ rows'[found[d].id] = rows[found[d].id]
  PROVE  CallOK(d)'
<1> USE DEF ApprovalsAssumption
<1>1. CallOK(d)
  BY DEF Inv, CallsOK
<1>2. pc[d] = "consuming" => Reads(d)'
  <2>1. SUFFICES ASSUME pc[d] = "consuming" PROVE Reads(d)'
    OBVIOUS
  <2>2. Reads(d)
    BY <1>1, <2>1 DEF CallOK
  <2>3. Exists(found[d].id)' => Exists(found[d].id) /\ rows'[found[d].id] = rows[found[d].id]
    BY <2>1
  <2>4. found[d].id < nextId'
    BY <2>2 DEF Reads, Ids, Inv, TypeOK
  <2> QED
    BY <2>2, <2>3, <2>4 DEF Reads, AllApproved
<1>3. pc[d] \in {"requesting", "summarizing", "inserting"} =>
        AllApproved(Matching(TokenOf[d], ask[d]))'
  BY <1>1 DEF CallOK, AllApproved
<1>4. pc[d] \in {"summarizing", "inserting"} =>
        Cardinality(PendingOf(TokenOf[d], clock)') < MaxPending
  <2>1. PendingOf(TokenOf[d], clock) \subseteq Ids
    BY DEF PendingOf
  <2>2. /\ Cardinality(PendingOf(TokenOf[d], clock)) \in Nat
        /\ Cardinality(PendingOf(TokenOf[d], clock)') \in Nat
        /\ Cardinality(PendingOf(TokenOf[d], clock)') <= Cardinality(PendingOf(TokenOf[d], clock))
    BY <2>1, PendingFacts
  <2> QED
    BY <1>1, <2>2 DEF CallOK
<1> QED
  BY <1>2, <1>3, <1>4 DEF CallOK

\* Rows that stay as they are or go, while time passes or not.
LEMMA FewerRows ==
  ASSUME ApprovalsAssumption, Inv, clock' \in Nat, clock' >= clock, nextId' = nextId,
         \A i \in Ids : rows'[i] = NoRow \/ rows'[i] = rows[i]
  PROVE  /\ NoFuture' /\ WithinLimit' /\ OlderApproved'
         /\ \A d \in Calls : pc'[d] = pc[d] /\ ask'[d] = ask[d] /\ found'[d] = found[d]
                               => CallOK(d)'
<1> USE DEF ApprovalsAssumption
<1>1. \A i \in Ids : Exists(i)' => Exists(i) /\ rows'[i] = rows[i]
  BY DEF Exists
<1>2. \A i \in Ids : Exists(i) => rows[i].expires \in Nat
  BY DEF Inv, TypeOK, Exists, ApprovalRequest
<1>3. \A i \in Ids : Live(i)' => Live(i) /\ rows'[i] = rows[i]
  BY <1>1, <1>2 DEF Live, Inv, TypeOK
<1>4. \A t \in Tokens : PendingOf(t, clock)' \subseteq PendingOf(t, clock)
  BY <1>1, <1>2 DEF PendingOf, Inv, TypeOK
<1>5. \A t \in Tokens : \A k : Matching(t, k)' \subseteq Matching(t, k)
  BY <1>3 DEF Matching
<1>6. NoFuture'
  BY <1>1 DEF Inv, NoFuture
<1>7. OlderApproved'
  BY <1>1, <1>3 DEF Inv, OlderApproved
<1>8. WithinLimit'
  <2> SUFFICES ASSUME NEW t \in Tokens
               PROVE  Cardinality(PendingOf(t, clock)') <= MaxPending
    BY DEF WithinLimit
  <2>1. PendingOf(t, clock) \subseteq Ids
    BY DEF PendingOf
  <2>2. /\ Cardinality(PendingOf(t, clock)) \in Nat
        /\ Cardinality(PendingOf(t, clock)') \in Nat
        /\ Cardinality(PendingOf(t, clock)') <= Cardinality(PendingOf(t, clock))
    BY <1>4, <2>1, PendingFacts
  <2> QED
    BY <2>2 DEF Inv, WithinLimit
<1>9. ASSUME NEW d \in Calls, pc'[d] = pc[d], ask'[d] = ask[d], found'[d] = found[d]
      PROVE  CallOK(d)'
  <2>1. \A i \in Matching(TokenOf[d], ask[d])' :
          i \in Matching(TokenOf[d], ask[d]) /\ rows'[i] = rows[i]
    <3>1. Matching(TokenOf[d], ask[d])' = {i \in Ids : Live(i)' /\ rows'[i].token = TokenOf[d] /\ rows'[i].ask = ask[d]}
      BY <1>9 DEF Matching
    <3> QED
      BY <1>3, <3>1 DEF Matching
  <2>2. PendingOf(TokenOf[d], clock)' \subseteq PendingOf(TokenOf[d], clock)
    BY <1>4
  <2>3. pc[d] = "consuming" /\ Exists(found[d].id)' =>
          Exists(found[d].id) /\ rows'[found[d].id] = rows[found[d].id]
    <3>1. SUFFICES ASSUME pc[d] = "consuming", Exists(found[d].id)'
                   PROVE  Exists(found[d].id) /\ rows'[found[d].id] = rows[found[d].id]
      OBVIOUS
    <3>2. found[d].id \in Ids
      BY <3>1 DEF Inv, CallsOK, CallOK, Reads
    <3>3. rows'[found[d].id] # NoRow
      BY <1>9, <3>1 DEF Exists
    <3> QED
      BY <3>2, <3>3 DEF Exists
  <2>4. nextId' \in Nat /\ nextId' >= nextId
    BY DEF Inv, TypeOK
  <2> QED
    BY <1>9, <2>1, <2>2, <2>3, <2>4, Frame
<1> QED
  BY <1>6, <1>7, <1>8, <1>9

-----------------------------------------------------------------------------
(***************************************************************************)
(* One lemma for each kind of step                                         *)
(***************************************************************************)

\* The other calls keep what they know when `Held` or a phase is the call's.
Others(c) == \A d \in Calls : d # c => pc'[d] = pc[d] /\ ask'[d] = ask[d] /\ found'[d] = found[d]

\* A call that ends knows nothing, and touches nothing of the others.
LEMMA AnsweredFacts ==
  ASSUME ApprovalsAssumption, Inv, NEW c \in Calls, Answered(c)
  PROVE  /\ Others(c) /\ CallOK(c)'
         /\ pc' = [pc EXCEPT ![c] = "idle"] /\ "idle" \in Phases \ AtGate
         /\ pc' \in [Calls -> Phases]
         /\ ask' \in [Calls -> Asks \cup {None}]
         /\ mode' \in [Calls -> Choices \cup {None}]
         /\ found' \in [Calls -> [id : Ids \cup {0}, status : Verdicts]]
         /\ now' \in [Calls -> Nat]
         /\ \A d \in Calls : pc'[d] = "idle" <=> ask'[d] = None
  BY DEF ApprovalsAssumption, Inv, TypeOK, Answered, Forget, Others, CallOK, Phases,
         AtGate, InTurn, NotFound, Verdicts

\* A call at the gate is answered and no row changes.
LEMMA HeldInv ==
  ASSUME ApprovalsAssumption, Inv, NEW c \in Calls, pc[c] \in AtGate, Held(c),
         UNCHANGED << db, mcps, tokens, saved, clock, deciding >>
  PROVE  Inv'
<1>1. TL!LeaveLine(c) /\ Answered(c)
  BY DEF Held
<1>2. rows' = rows /\ nextId' = nextId /\ mcps' = mcps /\ tokens' = tokens /\ saved' = saved /\ clock' = clock /\ deciding' = deciding
  BY DEF db
<1>3. line' \in [Tokens -> Seq(Calls)] /\ LineHolds' /\ TurnHeld'
  BY <1>1, AnsweredFacts, LeaveFacts
<1>4. /\ NoFuture' /\ WithinLimit' /\ OlderApproved'
      /\ \A d \in Calls : d # c => CallOK(d)'
  BY <1>1, <1>2, AnsweredFacts, FewerRows DEF Inv, TypeOK, Others
<1>5. CallsOK'
  BY <1>1, <1>4, AnsweredFacts DEF CallsOK
<1>6. TypeOK'
  BY <1>1, <1>2, <1>3, AnsweredFacts DEF Inv, TypeOK
<1> QED
  BY <1>3, <1>4, <1>5, <1>6 DEF Inv

\* A call that has the turn goes on and no row changes.
LEMMA TurnInv ==
  ASSUME ApprovalsAssumption, Inv, NEW c \in Calls, pc[c] \in AtGate, HasTurn(c),
         NEW phase \in InTurn, pc' = [pc EXCEPT ![c] = phase],
         UNCHANGED << db, mcps, tokens, saved, clock, deciding, line, ask, mode >>,
         found' \in [Calls -> [id : Ids \cup {0}, status : Verdicts]],
         \A d \in Calls : d # c => found'[d] = found[d],
         now' \in [Calls -> Nat], CallOK(c)'
  PROVE  Inv'
<1>2. /\ rows' = rows /\ nextId' = nextId /\ mcps' = mcps /\ tokens' = tokens /\ saved' = saved
      /\ clock' = clock /\ line' = line /\ ask' = ask /\ mode' = mode /\ deciding' = deciding
  BY DEF db
<1>3. LineHolds' /\ TurnHeld'
  BY <1>2, TurnFacts
<1>4. \A d \in Calls : d # c => pc'[d] = pc[d]
  BY DEF Inv, TypeOK
<1>5. /\ NoFuture' /\ WithinLimit' /\ OlderApproved'
      /\ \A d \in Calls : d # c => CallOK(d)'
  BY <1>2, <1>4, FewerRows DEF Inv, TypeOK
<1>6. CallsOK'
  BY <1>5 DEF CallsOK
<1>7. TypeOK'
  <2>1. pc' \in [Calls -> Phases] /\ \A d \in Calls : pc'[d] = "idle" <=> ask'[d] = None
    BY <1>2 DEF Inv, TypeOK, Phases, AtGate, InTurn
  <2> QED
    BY <1>2, <2>1 DEF Inv, TypeOK
<1> QED
  BY <1>3, <1>5, <1>6, <1>7 DEF Inv

\* The live rows of a call before its last one were approved.
LEMMA LastLive ==
  ASSUME ApprovalsAssumption, Inv, NEW t \in Tokens, NEW k \in Asks,
         NEW last \in Matching(t, k), \A j \in Matching(t, k) : j <= last
  PROVE  AllApproved(Matching(t, k) \ {last})
<1> SUFFICES ASSUME NEW j \in Matching(t, k) \ {last} PROVE rows[j].status = "approved"
  BY DEF AllApproved
<1>1. j \in Ids /\ last \in Ids /\ j < last
  BY DEF Matching, Ids
<1>2. Live(j) /\ Exists(last) /\ rows[j].token = rows[last].token /\ rows[j].ask = rows[last].ask
  BY DEF Matching, Live
<1> QED
  BY <1>1, <1>2 DEF Inv, OlderApproved

\* What `decided` reads with the turn is what the next statement finds.
LEMMA SelectInv ==
  ASSUME ApprovalsAssumption, Inv, NEW c \in Calls, Select(c)
  PROVE  Inv'
<1> USE DEF ApprovalsAssumption
<1> DEFINE live == Matching(TokenOf[c], ask[c])
<1>1. /\ pc[c] = "waiting" /\ HasTurn(c) /\ pc[c] \in AtGate
      /\ UNCHANGED << db, mcps, tokens, saved, clock, deciding >>
  BY DEF Select, AtGate
<1>2. TokenOf[c] \in Tokens /\ ask[c] \in Asks
  BY <1>1 DEF Inv, TypeOK
<1>3. CASE live = {} /\ Goto(c, "requesting") /\ UNCHANGED << line, local >>
  <2>1. pc' = [pc EXCEPT ![c] = "requesting"] /\ "requesting" \in InTurn
    BY <1>3 DEF Goto, InTurn
  <2>2. /\ ask' = ask /\ found' = found /\ now' = now /\ mode' = mode /\ line' = line
        /\ rows' = rows /\ clock' = clock
    BY <1>1, <1>3 DEF local, db
  <2>3. CallOK(c)'
    <3>1. Matching(TokenOf[c], ask[c])' = live
      BY <2>2 DEF Matching, Live, Exists
    <3>2. pc'[c] = "requesting"
      BY <2>1 DEF Inv, TypeOK
    <3> QED
      BY <1>3, <3>1, <3>2 DEF CallOK, AllApproved
  <2> QED
    BY <1>1, <2>1, <2>2, <2>3, TurnInv DEF Inv, TypeOK
<1>4. CASE Held(c)
  BY <1>1, <1>4, HeldInv
<1>5. ASSUME NEW last \in Ids, last \in live, \A j \in live : j <= last,
             rows[last].status # "pending",
             found' = [found EXCEPT ![c] = [id |-> last, status |-> rows[last].status]],
             Goto(c, "consuming"),
             UNCHANGED << line, ask, mode, now >>
      PROVE  Inv'
  <2>1. pc' = [pc EXCEPT ![c] = "consuming"] /\ "consuming" \in InTurn
    BY <1>5 DEF Goto, InTurn
  <2>2. /\ ask' = ask /\ now' = now /\ mode' = mode /\ line' = line
        /\ rows' = rows /\ clock' = clock
    BY <1>1, <1>5 DEF db
  <2>3. last \in live /\ AllApproved(live \ {last})
    BY <1>2, <1>5, LastLive
  <2>4. /\ last \in Ids /\ Exists(last) /\ ~ rows[last].consumed
        /\ rows[last].token = TokenOf[c]
    BY <2>3 DEF Matching, Live
  <2>4a. last < nextId /\ nextId' = nextId
    BY <1>1, <2>4 DEF Inv, NoFuture, TypeOK, Ids, db
  <2>5. rows[last].status \in Verdicts
    BY <2>4 DEF Inv, TypeOK, ApprovalRequest, NoRow, Verdicts
  <2>6. pc'[c] = "consuming" /\ found'[c] = [id |-> last, status |-> rows[last].status]
    BY <1>5, <2>1 DEF Inv, TypeOK
  <2>7. CallOK(c)'
    <3>1. Matching(TokenOf[c], ask[c])' = live
      BY <2>2 DEF Matching, Live, Exists
    <3>2. found'[c].id = last /\ found'[c].status = rows[last].status
      BY <2>6
    <3> HIDE DEF live
    <3>3. Reads(c)'
      BY <1>5, <2>2, <2>3, <2>4, <2>4a, <3>1, <3>2 DEF Reads, Exists, AllApproved
    <3> QED
      BY <2>6, <3>3 DEF CallOK
  <2>8. /\ found' \in [Calls -> [id : Ids \cup {0}, status : Verdicts]]
        /\ \A d \in Calls : d # c => found'[d] = found[d]
    BY <1>5, <2>4, <2>5 DEF Inv, TypeOK
  <2>9. now' \in [Calls -> Nat]
    BY <2>2 DEF Inv, TypeOK
  <2> QED
    BY <1>1, <1>5, <2>1, <2>2, <2>7, <2>8, <2>9, TurnInv
<1> QED
  BY <1>3, <1>4, <1>5 DEF Select

\* A call in turn has the turn.
LEMMA InTurnFacts ==
  ASSUME ApprovalsAssumption, Inv, NEW c \in Calls, pc[c] \in InTurn
  PROVE  HasTurn(c) /\ pc[c] \in AtGate
  BY DEF Inv, TurnHeld, AtGate

\* A call that goes on to ask saw room under the limit.
LEMMA CountInv ==
  ASSUME ApprovalsAssumption, Inv, NEW c \in Calls, Count(c)
  PROVE  Inv'
<1> USE DEF ApprovalsAssumption
<1>1. pc[c] = "requesting" /\ pc[c] \in InTurn /\ UNCHANGED << db, mcps, tokens, saved, clock, deciding >>
  BY DEF Count, InTurn
<1>2. HasTurn(c) /\ pc[c] \in AtGate
  BY <1>1, InTurnFacts
<1>3. CASE Held(c)
  BY <1>1, <1>2, <1>3, HeldInv
<1>4. CASE /\ ~ Cardinality(PendingOf(TokenOf[c], clock)) >= MaxPending
           /\ now' = [now EXCEPT ![c] = clock]
           /\ Goto(c, "summarizing")
           /\ UNCHANGED << line, ask, mode, found >>
  <2>1. pc' = [pc EXCEPT ![c] = "summarizing"] /\ "summarizing" \in InTurn
    BY <1>4 DEF Goto, InTurn
  <2>2. ask' = ask /\ found' = found /\ rows' = rows /\ clock' = clock
    BY <1>1, <1>4 DEF db
  <2>3. now' \in [Calls -> Nat]
    BY <1>4 DEF Inv, TypeOK
  <2>4. CallOK(c)'
    <3>1. AllApproved(Matching(TokenOf[c], ask[c]))
      BY <1>1 DEF Inv, CallsOK, CallOK
    <3>2. Matching(TokenOf[c], ask[c])' = Matching(TokenOf[c], ask[c])
      BY <2>2 DEF Matching, Live, Exists
    <3>3. PendingOf(TokenOf[c], clock)' = PendingOf(TokenOf[c], clock)
      BY <2>2 DEF PendingOf, Exists
    <3>4. Cardinality(PendingOf(TokenOf[c], clock)) < MaxPending
      <4>1. PendingOf(TokenOf[c], clock) \subseteq Ids
        BY DEF PendingOf
      <4>2. Cardinality(PendingOf(TokenOf[c], clock)) \in Nat
        BY <4>1, PendingFacts
      <4> QED
        BY <1>4, <4>2
    <3>5. pc'[c] = "summarizing"
      BY <2>1 DEF Inv, TypeOK
    <3> QED
      BY <2>2, <3>1, <3>2, <3>3, <3>4, <3>5 DEF CallOK, AllApproved
  <2> QED
    BY <1>1, <1>2, <1>4, <2>1, <2>2, <2>3, <2>4, TurnInv DEF Inv, TypeOK
<1> QED
  BY <1>3, <1>4 DEF Count

\* Describing the call changes no row: the count and the search stand.
LEMMA SummarizeInv ==
  ASSUME ApprovalsAssumption, Inv, NEW c \in Calls, Summarize(c)
  PROVE  Inv'
<1> USE DEF ApprovalsAssumption
<1>1. pc[c] = "summarizing" /\ pc[c] \in InTurn /\ UNCHANGED << db, mcps, tokens, saved, clock, deciding >>
  BY DEF Summarize, InTurn
<1>2. HasTurn(c) /\ pc[c] \in AtGate
  BY <1>1, InTurnFacts
<1>3. CASE Held(c)
  BY <1>1, <1>2, <1>3, HeldInv
<1>4. CASE Goto(c, "inserting") /\ UNCHANGED << line, local >>
  <2>1. pc' = [pc EXCEPT ![c] = "inserting"] /\ "inserting" \in InTurn
    BY <1>4 DEF Goto, InTurn
  <2>2. /\ ask' = ask /\ found' = found /\ now' = now /\ mode' = mode
        /\ rows' = rows /\ clock' = clock /\ line' = line
    BY <1>1, <1>4 DEF db, local
  <2>3. CallOK(c)'
    <3>1. Matching(TokenOf[c], ask[c])' = Matching(TokenOf[c], ask[c])
      BY <2>2 DEF Matching, Live, Exists
    <3>2. PendingOf(TokenOf[c], clock)' = PendingOf(TokenOf[c], clock)
      BY <2>2 DEF PendingOf, Exists
    <3>3. pc'[c] = "inserting"
      BY <2>1 DEF Inv, TypeOK
    <3> QED
      BY <1>1, <2>2, <3>1, <3>2, <3>3 DEF CallOK, Inv, CallsOK, AllApproved
  <2> QED
    BY <1>1, <1>2, <2>1, <2>2, <2>3, TurnInv DEF Inv, TypeOK
<1> QED
  BY <1>3, <1>4 DEF Summarize

\* What the update of `consume` does to rows: at most one, which is over.
LEMMA ConsumeFacts ==
  ASSUME ApprovalsAssumption, Inv, NEW c \in Calls, pc[c] = "consuming",
         consume(found[c]), clock' = clock, nextId' = nextId, Others(c)
  PROVE  /\ rows' \in [Ids -> ApprovalRequest \cup {NoRow}]
         /\ NoFuture' /\ WithinLimit' /\ OlderApproved'
         /\ \A d \in Calls : d # c => CallOK(d)'
         /\ ask' = ask => AllApproved(Matching(TokenOf[c], ask[c]))'
<1> USE DEF ApprovalsAssumption
<1> DEFINE i == found[c].id
<1>1. Reads(c) /\ i \in Ids
  BY DEF Inv, CallsOK, CallOK, Reads
<1>2. CASE ~ Unconsumed(found[c])
  <2>1. rows' = rows /\ ~ Exists(i)
    BY <1>1, <1>2 DEF consume, Unconsumed, Reads
  <2>2. /\ NoFuture' /\ WithinLimit' /\ OlderApproved'
        /\ \A d \in Calls : d # c => CallOK(d)'
    BY <2>1, FewerRows DEF Inv, TypeOK, Others
  <2>3. ask' = ask => AllApproved(Matching(TokenOf[c], ask[c]))'
    <3>1. AllApproved(Matching(TokenOf[c], ask[c]))
      BY <1>1, <2>1 DEF Reads, Matching, Live, AllApproved
    <3>2. ask' = ask => Matching(TokenOf[c], ask[c])' = Matching(TokenOf[c], ask[c])
      BY <2>1 DEF Matching, Live, Exists
    <3> QED
      BY <2>1, <3>1, <3>2 DEF AllApproved
  <2> QED
    BY <2>1, <2>2, <2>3 DEF Inv, TypeOK
<1>3. CASE Unconsumed(found[c])
  <2>1. /\ Exists(i) /\ ~ rows[i].consumed /\ rows[i].token = TokenOf[c]
        /\ rows[i].status # "pending" /\ rows[i] \in ApprovalRequest
        /\ rows' = [rows EXCEPT ![i].consumed = TRUE]
    BY <1>1, <1>3 DEF Reads, Unconsumed, consume, Exists, Inv, TypeOK
  <2>2. /\ rows'[i] = [rows[i] EXCEPT !.consumed = TRUE]
        /\ \A j \in Ids : j # i => rows'[j] = rows[j]
        /\ rows' \in [Ids -> ApprovalRequest \cup {NoRow}]
    BY <1>1, <2>1 DEF Inv, TypeOK, ApprovalRequest
  <2>3. /\ rows'[i].consumed = TRUE /\ rows'[i].status = rows[i].status
        /\ rows'[i].token = rows[i].token /\ rows'[i].ask = rows[i].ask
        /\ rows'[i].expires = rows[i].expires
    BY <2>1, <2>2 DEF ApprovalRequest
  <2>4. \A j \in Ids : Live(j)' => j # i /\ Live(j) /\ rows'[j] = rows[j]
    BY <2>2, <2>3 DEF Live, Exists
  <2>5. \A t : PendingOf(t, clock)' \subseteq PendingOf(t, clock)
    BY <2>1, <2>2, <2>3 DEF PendingOf, Exists
  <2>6. NoFuture'
    BY <2>1, <2>2 DEF NoFuture, Exists, Inv
  <2>7. OlderApproved'
    <3>1. \A j \in Ids : Exists(j)' => /\ Exists(j) /\ rows'[j].token = rows[j].token
                                       /\ rows'[j].ask = rows[j].ask
      BY <2>1, <2>2, <2>3 DEF Exists
    <3> QED
      BY <2>4, <3>1 DEF OlderApproved, Inv
  <2>8. WithinLimit'
    <3> SUFFICES ASSUME NEW t \in Tokens
                 PROVE  Cardinality(PendingOf(t, clock)') <= MaxPending
      BY DEF WithinLimit
    <3>1. PendingOf(t, clock) \subseteq Ids
      BY DEF PendingOf
    <3>2. /\ Cardinality(PendingOf(t, clock)) \in Nat
          /\ Cardinality(PendingOf(t, clock)') \in Nat
          /\ Cardinality(PendingOf(t, clock)') <= Cardinality(PendingOf(t, clock))
      BY <2>5, <3>1, PendingFacts
    <3> QED
      BY <3>2 DEF Inv, WithinLimit
  <2>9. ASSUME NEW d \in Calls, d # c PROVE CallOK(d)'
    <3>1. pc'[d] = pc[d] /\ ask'[d] = ask[d] /\ found'[d] = found[d]
      BY <2>9 DEF Others
    <3>2. \A j \in Matching(TokenOf[d], ask[d])' :
            j \in Matching(TokenOf[d], ask[d]) /\ rows'[j] = rows[j]
      BY <2>4, <3>1 DEF Matching
    <3>3. PendingOf(TokenOf[d], clock)' \subseteq PendingOf(TokenOf[d], clock)
      BY <2>5
    <3>4. pc[d] = "consuming" /\ Exists(found[d].id)' =>
            Exists(found[d].id) /\ rows'[found[d].id] = rows[found[d].id]
      <4>1. SUFFICES ASSUME pc[d] = "consuming", Exists(found[d].id)'
                     PROVE  Exists(found[d].id) /\ rows'[found[d].id] = rows[found[d].id]
        OBVIOUS
      <4>2. Reads(d)
        BY <4>1 DEF Inv, CallsOK, CallOK
      <4>3. found[d].id # i
        <5>1. SUFFICES ASSUME found[d].id = i PROVE FALSE
          OBVIOUS
        <5>2. TokenOf[d] = TokenOf[c]
          BY <2>1, <4>2, <5>1 DEF Reads
        <5>3. c = d
          BY <4>1, <5>2, OneTurn DEF InTurn
        <5> QED
          BY <2>9, <5>3
      <4>4. found[d].id \in Ids
        BY <4>2 DEF Reads
      <4> QED
        BY <2>2, <3>1, <4>1, <4>3, <4>4 DEF Exists
    <3>5. nextId' \in Nat /\ nextId' >= nextId
      BY DEF Inv, TypeOK
    <3> QED
      BY <3>1, <3>2, <3>3, <3>4, <3>5, Frame
  <2>10. ask' = ask => AllApproved(Matching(TokenOf[c], ask[c]))'
    BY <1>1, <2>4 DEF Matching, Reads, AllApproved
  <2> QED
    BY <2>2, <2>6, <2>7, <2>8, <2>9, <2>10
<1> QED
  BY <1>2, <1>3

\* Consuming an approval closes the last open request for the call.
LEMMA ConsumeApprovedInv ==
  ASSUME ApprovalsAssumption, Inv, NEW c \in Calls, ConsumeApproved(c)
  PROVE  Inv'
<1> USE DEF ApprovalsAssumption
<1>1. /\ pc[c] = "consuming" /\ pc[c] \in InTurn /\ consume(found[c])
      /\ nextId' = nextId /\ mcps' = mcps /\ tokens' = tokens /\ saved' = saved /\ clock' = clock /\ deciding' = deciding
      /\ line' = line /\ ask' = ask /\ mode' = mode /\ now' = now
  BY DEF ConsumeApproved, InTurn
<1>2. HasTurn(c) /\ pc[c] \in AtGate
  BY <1>1, InTurnFacts
<1>3. PICK phase \in {"opened", "requesting"} : pc' = [pc EXCEPT ![c] = phase]
  BY DEF ConsumeApproved, Goto
<1>4. /\ found' \in [Calls -> [id : Ids \cup {0}, status : Verdicts]]
      /\ \A d \in Calls : d # c => found'[d] = found[d]
  <2>1. found' = found \/ found' = [found EXCEPT ![c] = NotFound]
    BY DEF ConsumeApproved
  <2>2. NotFound \in [id : Ids \cup {0}, status : Verdicts]
    BY DEF NotFound, Verdicts
  <2>3. found \in [Calls -> [id : Ids \cup {0}, status : Verdicts]]
    BY DEF Inv, TypeOK
  <2> HIDE DEF NotFound
  <2> QED
    BY <2>1, <2>2, <2>3
<1>5. Others(c) /\ pc'[c] = phase
  BY <1>1, <1>3, <1>4 DEF Others, Inv, TypeOK
<1>6. /\ rows' \in [Ids -> ApprovalRequest \cup {NoRow}]
      /\ NoFuture' /\ WithinLimit' /\ OlderApproved'
      /\ \A d \in Calls : d # c => CallOK(d)'
      /\ AllApproved(Matching(TokenOf[c], ask[c]))'
  BY <1>1, <1>5, ConsumeFacts
<1>7. CallOK(c)'
  BY <1>5, <1>6 DEF CallOK
<1>8. CallsOK'
  BY <1>6, <1>7 DEF CallsOK
<1>9. LineHolds' /\ TurnHeld'
  BY <1>1, <1>2, <1>3, TurnFacts DEF InTurn
<1>10. TypeOK'
  <2>1. pc' \in [Calls -> Phases] /\ \A d \in Calls : pc'[d] = "idle" <=> ask'[d] = None
    BY <1>1, <1>3 DEF Inv, TypeOK, Phases, AtGate, InTurn
  <2> QED
    BY <1>1, <1>4, <1>6, <2>1 DEF Inv, TypeOK
<1> QED
  BY <1>6, <1>8, <1>9, <1>10 DEF Inv

\* Consuming a refusal closes the last open request for the call.
LEMMA ConsumeDeniedInv ==
  ASSUME ApprovalsAssumption, Inv, NEW c \in Calls, ConsumeDenied(c)
  PROVE  Inv'
<1>1. /\ pc[c] = "consuming" /\ consume(found[c]) /\ TL!LeaveLine(c) /\ Answered(c)
      /\ nextId' = nextId /\ mcps' = mcps /\ tokens' = tokens /\ saved' = saved /\ clock' = clock /\ deciding' = deciding
  BY DEF ConsumeDenied, Held
<1>2. /\ rows' \in [Ids -> ApprovalRequest \cup {NoRow}]
      /\ NoFuture' /\ WithinLimit' /\ OlderApproved'
      /\ \A d \in Calls : d # c => CallOK(d)'
  BY <1>1, AnsweredFacts, ConsumeFacts
<1>3. line' \in [Tokens -> Seq(Calls)] /\ LineHolds' /\ TurnHeld'
  BY <1>1, AnsweredFacts, LeaveFacts
<1>4. CallsOK'
  BY <1>1, <1>2, AnsweredFacts DEF CallsOK
<1>5. TypeOK'
  BY <1>1, <1>2, <1>3, AnsweredFacts DEF Inv, TypeOK
<1> QED
  BY <1>2, <1>3, <1>4, <1>5 DEF Inv

\* The insert adds the one request that was room for and that no row equals.
LEMMA InsertInv ==
  ASSUME ApprovalsAssumption, Inv, NEW c \in Calls, Insert(c)
  PROVE  Inv'
<1> USE DEF ApprovalsAssumption
<1> DEFINE n == nextId  u == TokenOf[c]
           new == [token |-> u, ask |-> ask[c], status |-> "pending",
                   consumed |-> FALSE, expires |-> now[c] + PendingTime]
<1>1. /\ pc[c] = "inserting" /\ pc[c] \in InTurn
      /\ rows' = [rows EXCEPT ![n] = new] /\ nextId' = n + 1
      /\ TL!LeaveLine(c) /\ Answered(c)
      /\ mcps' = mcps /\ tokens' = tokens /\ saved' = saved /\ clock' = clock /\ deciding' = deciding
  BY DEF Insert, Held, InTurn
<1>2. n \in Ids /\ n \in Nat /\ n + 1 \in 1..(MaxRows + 1)
  BY DEF Insert, Ids, Inv, TypeOK
<1>3. ~ Exists(n)
  BY <1>2 DEF Inv, NoFuture
<1>4. u \in Tokens /\ ask[c] \in Asks /\ new \in ApprovalRequest
  BY <1>1 DEF Inv, TypeOK, ApprovalRequest, Verdicts
<1>5. /\ new.token = u /\ new.ask = ask[c]
  OBVIOUS
<1> HIDE DEF new
<1>6. /\ rows'[n] = new /\ \A j \in Ids : j # n => rows'[j] = rows[j]
      /\ rows' \in [Ids -> ApprovalRequest \cup {NoRow}]
  BY <1>1, <1>2, <1>4 DEF Inv, TypeOK
<1>7. \A j \in Ids : j # n /\ Live(j)' => Live(j) /\ rows'[j] = rows[j]
  BY <1>1, <1>6 DEF Live, Exists
<1>8. /\ AllApproved(Matching(u, ask[c]))
      /\ Cardinality(PendingOf(u, clock)) < MaxPending
  BY <1>1 DEF Inv, CallsOK, CallOK
<1>9. NoFuture'
  BY <1>1, <1>2, <1>6 DEF Inv, NoFuture, Exists, Ids
<1>10. OlderApproved'
  <2>1. SUFFICES ASSUME NEW i \in Ids, NEW j \in Ids, Live(i)', Exists(j)', i < j,
                        rows'[i].token = rows'[j].token, rows'[i].ask = rows'[j].ask
                 PROVE  rows'[i].status = "approved"
    BY DEF OlderApproved
  <2>2. i # n
    <3>1. \A m \in Ids : m > n => ~ Exists(m)'
      BY <1>2, <1>6 DEF Inv, NoFuture, Exists, Ids
    <3> QED
      BY <1>2, <2>1, <3>1 DEF Ids
  <2>3. Live(i) /\ rows'[i] = rows[i]
    BY <1>7, <2>1, <2>2
  <2>4. CASE j = n
    <3>1. i \in Matching(u, ask[c])
      BY <1>5, <1>6, <2>1, <2>3, <2>4 DEF Matching
    <3> QED
      BY <1>8, <2>3, <3>1 DEF AllApproved
  <2>5. CASE j # n
    <3>1. Exists(j) /\ rows'[j] = rows[j]
      BY <1>6, <2>1, <2>5 DEF Exists
    <3> QED
      BY <2>1, <2>3, <3>1 DEF Inv, OlderApproved
  <2> QED
    BY <2>4, <2>5
<1>11. \A t \in Tokens : PendingOf(t, clock)' \subseteq PendingOf(t, clock) \cup (IF t = u THEN {n} ELSE {})
  BY <1>1, <1>5, <1>6 DEF PendingOf, Exists
<1>12. WithinLimit'
  <2> SUFFICES ASSUME NEW t \in Tokens
               PROVE  Cardinality(PendingOf(t, clock)') <= MaxPending
    BY DEF WithinLimit
  <2>1. PendingOf(t, clock) \subseteq Ids /\ PendingOf(t, clock)' \subseteq Ids
    BY DEF PendingOf
  <2>2. IsFiniteSet(PendingOf(t, clock)) /\ Cardinality(PendingOf(t, clock)) \in Nat
    BY <2>1, PendingFacts
  <2>3. CASE t # u
    <3>1. PendingOf(t, clock)' \subseteq PendingOf(t, clock)
      BY <1>11, <2>3
    <3>2. /\ Cardinality(PendingOf(t, clock)') \in Nat
          /\ Cardinality(PendingOf(t, clock)') <= Cardinality(PendingOf(t, clock))
      BY <2>1, <3>1, PendingFacts
    <3> QED
      BY <2>2, <3>2 DEF Inv, WithinLimit
  <2>4. CASE t = u
    <3> DEFINE S == PendingOf(u, clock) \cup {n}
    <3>1. PendingOf(u, clock)' \subseteq S /\ S \subseteq Ids
      BY <1>2, <1>11, <2>1, <2>4
    <3>2. Cardinality(S) <= Cardinality(PendingOf(u, clock)) + 1
      <4>1. Cardinality(S) = IF n \in PendingOf(u, clock) THEN Cardinality(PendingOf(u, clock))
                                                          ELSE Cardinality(PendingOf(u, clock)) + 1
        BY <2>2, <2>4, FS_AddElement
      <4> QED
        BY <2>2, <2>4, <4>1
    <3>3. /\ Cardinality(S) \in Nat /\ Cardinality(PendingOf(u, clock)') \in Nat
          /\ Cardinality(PendingOf(u, clock)') <= Cardinality(S)
      BY <3>1, PendingFacts
    <3> HIDE DEF S
    <3> QED
      BY <1>8, <2>2, <2>4, <3>2, <3>3
  <2> QED
    BY <2>3, <2>4
<1>13. ASSUME NEW d \in Calls, d # c PROVE CallOK(d)'
  <2>1. pc'[d] = pc[d] /\ ask'[d] = ask[d] /\ found'[d] = found[d]
    BY <1>1, <1>13, AnsweredFacts DEF Others
  <2>2. CASE pc[d] \notin InTurn
    BY <2>1, <2>2 DEF CallOK, InTurn
  <2>3. CASE pc[d] \in InTurn
    <3>1. TokenOf[d] # u /\ TokenOf[d] \in Tokens
      BY <1>1, <1>13, <2>3, OneTurn
    <3>2. \A i \in Matching(TokenOf[d], ask[d])' :
            i \in Matching(TokenOf[d], ask[d]) /\ rows'[i] = rows[i]
      BY <1>5, <1>6, <1>7, <2>1, <3>1 DEF Matching
    <3>3. PendingOf(TokenOf[d], clock)' \subseteq PendingOf(TokenOf[d], clock)
      BY <1>11, <3>1
    <3>4. pc[d] = "consuming" /\ Exists(found[d].id)' =>
            Exists(found[d].id) /\ rows'[found[d].id] = rows[found[d].id]
      <4>1. SUFFICES ASSUME pc[d] = "consuming", Exists(found[d].id)'
                     PROVE  Exists(found[d].id) /\ rows'[found[d].id] = rows[found[d].id]
        OBVIOUS
      <4>2. Reads(d) /\ found[d].id \in Ids
        BY <4>1 DEF Inv, CallsOK, CallOK, Reads
      <4>3. CASE found[d].id # n
        BY <1>6, <2>1, <4>1, <4>2, <4>3 DEF Exists
      <4>4. found[d].id # n
        BY <1>2, <4>2 DEF Reads, Ids
      <4> QED
        BY <4>3, <4>4
    <3> QED
      BY <1>1, <1>2, <2>1, <3>2, <3>3, <3>4, Frame
  <2> QED
    BY <2>2, <2>3
<1>14. line' \in [Tokens -> Seq(Calls)] /\ LineHolds' /\ TurnHeld'
  BY <1>1, AnsweredFacts, LeaveFacts
<1>15. CallsOK'
  BY <1>1, <1>13, AnsweredFacts DEF CallsOK
<1>16. TypeOK'
  BY <1>1, <1>2, <1>6, <1>14, AnsweredFacts DEF Inv, TypeOK
<1> QED
  BY <1>9, <1>10, <1>12, <1>14, <1>15, <1>16 DEF Inv

\* Calls that are not at the gate come, run and end.
LEMMA AuthenticateInv ==
  ASSUME ApprovalsAssumption, Inv, NEW c \in Calls, NEW k \in Asks, Authenticate(c, k)
  PROVE  Inv'
<1> USE DEF ApprovalsAssumption
<1>1. /\ rows' = rows /\ nextId' = nextId /\ mcps' = mcps /\ tokens' = tokens /\ saved' = saved /\ clock' = clock /\ deciding' = deciding
      /\ line' = line /\ found' = found /\ now' = now
      /\ pc[c] = "idle" /\ pc' = [pc EXCEPT ![c] = "authenticated"]
      /\ ask' = [ask EXCEPT ![c] = k] /\ mode' = [mode EXCEPT ![c] = saved[McpOf[k]]]
  BY DEF Authenticate, Goto, db
<1>2. TypeOK'
  BY <1>1 DEF Inv, TypeOK, Phases
<1>3. \A d \in Calls : pc'[d] = pc[d] \/ (pc[d] \notin AtGate /\ pc'[d] \notin AtGate)
  BY <1>1 DEF Inv, TypeOK, AtGate, InTurn
<1>4. LineHolds' /\ TurnHeld'
  BY <1>1, <1>3, OutsideFacts
<1>5. \A d \in Calls : d # c => pc'[d] = pc[d] /\ ask'[d] = ask[d] /\ found'[d] = found[d]
  BY <1>1 DEF Inv, TypeOK
<1>6. /\ NoFuture' /\ WithinLimit' /\ OlderApproved'
      /\ \A d \in Calls : d # c => CallOK(d)'
  BY <1>1, <1>5, FewerRows DEF Inv, TypeOK
<1>7. CallOK(c)'
  BY <1>1 DEF CallOK, Inv, TypeOK
<1> QED
  BY <1>2, <1>4, <1>6, <1>7 DEF Inv, CallsOK

\* A tool that runs without asking touches no row and no line.
LEMMA GateOpenInv ==
  ASSUME ApprovalsAssumption, Inv, NEW c \in Calls, GateOpen(c)
  PROVE  Inv'
<1> USE DEF ApprovalsAssumption
<1>1. /\ rows' = rows /\ nextId' = nextId /\ mcps' = mcps /\ tokens' = tokens /\ saved' = saved /\ clock' = clock /\ deciding' = deciding
      /\ line' = line /\ found' = found /\ now' = now /\ ask' = ask
      /\ pc[c] = "authenticated" /\ pc' = [pc EXCEPT ![c] = "running"]
      /\ mode' = [mode EXCEPT ![c] = None]
  BY DEF GateOpen, Goto, db
<1>2. TypeOK'
  BY <1>1 DEF Inv, TypeOK, Phases
<1>3. \A d \in Calls : pc'[d] = pc[d] \/ (pc[d] \notin AtGate /\ pc'[d] \notin AtGate)
  BY <1>1 DEF Inv, TypeOK, AtGate, InTurn
<1>4. LineHolds' /\ TurnHeld'
  BY <1>1, <1>3, OutsideFacts
<1>5. \A d \in Calls : d # c => pc'[d] = pc[d] /\ ask'[d] = ask[d] /\ found'[d] = found[d]
  BY <1>1 DEF Inv, TypeOK
<1>6. /\ NoFuture' /\ WithinLimit' /\ OlderApproved'
      /\ \A d \in Calls : d # c => CallOK(d)'
  BY <1>1, <1>5, FewerRows DEF Inv, TypeOK
<1>7. CallOK(c)'
  BY <1>1 DEF CallOK, Inv, TypeOK
<1> QED
  BY <1>2, <1>4, <1>6, <1>7 DEF Inv, CallsOK

\* A call that joins the line stands in it once, behind the others.
LEMMA GateAsksInv ==
  ASSUME ApprovalsAssumption, Inv, NEW c \in Calls, GateAsks(c)
  PROVE  Inv'
<1> USE DEF ApprovalsAssumption
<1>1. /\ rows' = rows /\ nextId' = nextId /\ mcps' = mcps /\ tokens' = tokens /\ saved' = saved /\ clock' = clock /\ deciding' = deciding
      /\ found' = found /\ now' = now /\ ask' = ask /\ TL!EnterLine(c)
      /\ pc[c] = "authenticated" /\ pc' = [pc EXCEPT ![c] = "waiting"]
      /\ mode' = [mode EXCEPT ![c] = None]
  BY DEF GateAsks, Goto, db
<1>2. pc[c] \notin AtGate
  BY <1>1 DEF AtGate, InTurn
<1>3. line' \in [Tokens -> Seq(Calls)] /\ LineHolds' /\ TurnHeld'
  BY <1>1, <1>2, EnterFacts
<1>4. TypeOK'
  BY <1>1, <1>3 DEF Inv, TypeOK, Phases, AtGate
<1>5. \A d \in Calls : d # c => pc'[d] = pc[d] /\ ask'[d] = ask[d] /\ found'[d] = found[d]
  BY <1>1 DEF Inv, TypeOK
<1>6. /\ NoFuture' /\ WithinLimit' /\ OlderApproved'
      /\ \A d \in Calls : d # c => CallOK(d)'
  BY <1>1, <1>5, FewerRows DEF Inv, TypeOK
<1>7. CallOK(c)'
  BY <1>1 DEF CallOK, Inv, TypeOK
<1> QED
  BY <1>3, <1>4, <1>6, <1>7 DEF Inv, CallsOK

\* A call that is let through gives its turn on.
LEMMA OpenInv ==
  ASSUME ApprovalsAssumption, Inv, NEW c \in Calls, Open(c)
  PROVE  Inv'
<1> USE DEF ApprovalsAssumption
<1>1. /\ rows' = rows /\ nextId' = nextId /\ mcps' = mcps /\ tokens' = tokens /\ saved' = saved /\ clock' = clock /\ deciding' = deciding
      /\ found' = found /\ now' = now /\ ask' = ask /\ mode' = mode /\ TL!LeaveLine(c)
      /\ pc[c] = "opened" /\ pc' = [pc EXCEPT ![c] = "running"]
  BY DEF Open, Goto, db, local
<1>2. "running" \in Phases \ AtGate
  BY DEF Phases, AtGate, InTurn
<1>3. line' \in [Tokens -> Seq(Calls)] /\ LineHolds' /\ TurnHeld'
  BY <1>1, <1>2, LeaveFacts
<1>4. TypeOK'
  BY <1>1, <1>3 DEF Inv, TypeOK, Phases
<1>5. \A d \in Calls : d # c => pc'[d] = pc[d] /\ ask'[d] = ask[d] /\ found'[d] = found[d]
  BY <1>1 DEF Inv, TypeOK
<1>6. /\ NoFuture' /\ WithinLimit' /\ OlderApproved'
      /\ \A d \in Calls : d # c => CallOK(d)'
  BY <1>1, <1>5, FewerRows DEF Inv, TypeOK
<1>7. CallOK(c)'
  BY <1>1 DEF CallOK, Inv, TypeOK
<1> QED
  BY <1>3, <1>4, <1>6, <1>7 DEF Inv, CallsOK

\* A call that ends was in no line.
LEMMA RanInv ==
  ASSUME ApprovalsAssumption, Inv, NEW c \in Calls, Ran(c)
  PROVE  Inv'
<1>1. /\ rows' = rows /\ nextId' = nextId /\ mcps' = mcps /\ tokens' = tokens /\ saved' = saved /\ clock' = clock /\ deciding' = deciding
      /\ line' = line /\ pc[c] = "running" /\ Answered(c)
  BY DEF Ran, db
<1>2. \A d \in Calls : pc'[d] = pc[d] \/ (pc[d] \notin AtGate /\ pc'[d] \notin AtGate)
  BY <1>1 DEF Answered, Inv, TypeOK, AtGate, InTurn
<1>3. LineHolds' /\ TurnHeld'
  BY <1>1, <1>2, OutsideFacts
<1>4. TypeOK'
  BY <1>1, AnsweredFacts DEF Inv, TypeOK
<1>5. /\ NoFuture' /\ WithinLimit' /\ OlderApproved'
      /\ \A d \in Calls : d # c => CallOK(d)'
  BY <1>1, AnsweredFacts, FewerRows DEF Inv, TypeOK, Others
<1>6. CallOK(c)'
  BY <1>1, AnsweredFacts
<1> QED
  BY <1>3, <1>4, <1>5, <1>6 DEF Inv, CallsOK

\* Time passes, rows are deleted, choices are saved: nothing of that makes a row
\* that concerns a call.
LEMMA WorldInv ==
  ASSUME ApprovalsAssumption, Inv, UNCHANGED << nextId, line, pc, local, deciding >>,
         clock' \in Nat, clock' >= clock, mcps' \subseteq Mcps, tokens' \subseteq Tokens,
         saved' \in [Mcps -> Choices],
         rows' \in [Ids -> ApprovalRequest \cup {NoRow}],
         \A i \in Ids : rows'[i] = NoRow \/ rows'[i] = rows[i]
  PROVE  Inv'
<1>1. /\ nextId' = nextId /\ line' = line /\ pc' = pc
      /\ ask' = ask /\ mode' = mode /\ found' = found /\ now' = now
  BY DEF local
<1>4. TypeOK'
  BY <1>1 DEF Inv, TypeOK
<1>5. LineHolds' /\ TurnHeld'
  BY <1>1, OutsideFacts
<1>6. /\ NoFuture' /\ WithinLimit' /\ OlderApproved'
      /\ \A d \in Calls : CallOK(d)'
  BY <1>1, FewerRows
<1> QED
  BY <1>4, <1>5, <1>6 DEF Inv, CallsOK

\* A step of a decision that writes nothing.
LEMMA DecidingInv ==
  ASSUME ApprovalsAssumption, Inv, UNCHANGED << db, mcps, tokens, saved, clock, line, pc, local >>,
         deciding' \in [People -> Decision \cup {NoDecision}]
  PROVE  Inv'
<1>1. /\ rows' = rows /\ nextId' = nextId /\ mcps' = mcps /\ tokens' = tokens /\ saved' = saved
      /\ clock' = clock /\ line' = line /\ pc' = pc
      /\ ask' = ask /\ mode' = mode /\ found' = found /\ now' = now
  BY DEF local, db
<1>4. TypeOK'
  BY <1>1 DEF Inv, TypeOK
<1>5. LineHolds' /\ TurnHeld'
  BY <1>1, OutsideFacts
<1>6. /\ NoFuture' /\ WithinLimit' /\ OlderApproved'
      /\ \A d \in Calls : CallOK(d)'
  BY <1>1, FewerRows DEF Inv, TypeOK
<1> QED
  BY <1>4, <1>5, <1>6 DEF Inv, CallsOK

\* A decision begins.
LEMMA DecideInv ==
  ASSUME ApprovalsAssumption, Inv, NEW p \in People, NEW i \in Ids,
         NEW v \in {"approved", "denied"}, Decide(p, i, v)
  PROVE  Inv'
<1>1. [id |-> i, verdict |-> v, at |-> clock] \in Decision
  BY DEF Decision, Inv, TypeOK
<1>2. deciding' \in [People -> Decision \cup {NoDecision}]
  BY <1>1 DEF Decide, Inv, TypeOK
<1> QED
  BY <1>2, DecidingInv DEF Decide

\* A decision is dropped.
LEMMA AbandonInv ==
  ASSUME ApprovalsAssumption, Inv, NEW p \in People, Abandon(p)
  PROVE  Inv'
<1>1. deciding' \in [People -> Decision \cup {NoDecision}]
  BY DEF Abandon, Undecided, Inv, TypeOK
<1> QED
  BY <1>1, DecidingInv DEF Abandon

\* What the update of `decide` writes, in one row that was pending.
LEMMA RecordFacts ==
  ASSUME ApprovalsAssumption, Inv, NEW p \in People, Record(p)
  PROVE  LET d == deciding[p]  i == d.id  v == d.verdict IN
         /\ d \in Decision /\ i \in Ids /\ v \in {"approved", "denied"}
         /\ rows' \in [Ids -> ApprovalRequest \cup {NoRow}]
         /\ ~ Decidable(d) => rows' = rows
         /\ Decidable(d) =>
              /\ Exists(i) /\ rows[i].status = "pending" /\ rows[i] \in ApprovalRequest
              /\ rows'[i] \in ApprovalRequest
              /\ rows'[i].status = v /\ rows'[i].consumed = rows[i].consumed
              /\ rows'[i].token = rows[i].token /\ rows'[i].ask = rows[i].ask
              /\ v = "denied" => rows'[i].expires = rows[i].expires
              /\ \A j \in Ids : j # i => rows'[j] = rows[j]
<1> USE DEF ApprovalsAssumption
<1> DEFINE d == deciding[p]  i == d.id  v == d.verdict
<1>1. /\ d \in Decision
      /\ rows' = IF Decidable(d)
                   THEN [rows EXCEPT ![i].status = v,
                                     ![i].expires = IF v = "approved" THEN d.at + GrantTime ELSE @]
                   ELSE rows
  BY DEF Record, Inv, TypeOK
<1>2. i \in Ids /\ v \in {"approved", "denied"} /\ d.at \in Nat
  BY <1>1 DEF Decision
<1>3. rows \in [Ids -> ApprovalRequest \cup {NoRow}]
  BY DEF Inv, TypeOK
<1> HIDE DEF d, i, v
<1>4. ASSUME Decidable(d)
      PROVE  /\ Exists(i) /\ rows[i].status = "pending" /\ rows[i] \in ApprovalRequest
             /\ rows'[i] \in ApprovalRequest
             /\ rows'[i].status = v /\ rows'[i].consumed = rows[i].consumed
             /\ rows'[i].token = rows[i].token /\ rows'[i].ask = rows[i].ask
             /\ v = "denied" => rows'[i].expires = rows[i].expires
             /\ \A j \in Ids : j # i => rows'[j] = rows[j]
             /\ rows' \in [Ids -> ApprovalRequest \cup {NoRow}]
  <2>1. Exists(i) /\ rows[i].status = "pending" /\ rows[i] \in ApprovalRequest
    BY <1>2, <1>3, <1>4 DEF Decidable, Exists, i
  <2> DEFINE e == IF v = "approved" THEN d.at + GrantTime ELSE rows[i].expires
  <2>2. e \in Nat /\ v \in Verdicts /\ (v = "denied" => e = rows[i].expires)
    BY <1>2, <2>1 DEF ApprovalRequest, Verdicts
  <2>3. /\ rows'[i] = [rows[i] EXCEPT !.status = v, !.expires = e]
        /\ \A j \in Ids : j # i => rows'[j] = rows[j]
        /\ rows' = [rows EXCEPT ![i] = rows'[i]]
    BY <1>1, <1>2, <1>3, <1>4
  <2> HIDE DEF e
  <2>4. /\ rows'[i] \in ApprovalRequest
        /\ rows'[i].status = v /\ rows'[i].consumed = rows[i].consumed
        /\ rows'[i].token = rows[i].token /\ rows'[i].ask = rows[i].ask
        /\ rows'[i].expires = e
    BY <2>1, <2>2, <2>3 DEF ApprovalRequest
  <2> QED
    BY <1>3, <2>1, <2>2, <2>3, <2>4
<1> QED
  BY <1>1, <1>2, <1>3, <1>4 DEF d, i, v

\* A decision opens at most an approved request, and keeps what a call at the
\* gate read.
LEMMA RecordInv ==
  ASSUME ApprovalsAssumption, Inv, NEW p \in People, Record(p)
  PROVE  Inv'
<1> USE DEF ApprovalsAssumption
<1> DEFINE d == deciding[p]  i == d.id  v == d.verdict
<1>1. /\ nextId' = nextId /\ mcps' = mcps /\ tokens' = tokens /\ saved' = saved
      /\ clock' = clock /\ line' = line /\ pc' = pc
      /\ ask' = ask /\ mode' = mode /\ found' = found /\ now' = now
      /\ deciding' \in [People -> Decision \cup {NoDecision}]
  BY DEF Record, Undecided, local, Inv, TypeOK
<1>2. CASE ~ Decidable(d)
  <2>1. rows' = rows
    BY <1>2, RecordFacts
  <2> QED
    BY <1>1, <2>1, DecidingInv DEF local, db
<1>3. CASE Decidable(d)
  <2>1. /\ i \in Ids /\ v \in {"approved", "denied"}
        /\ rows' \in [Ids -> ApprovalRequest \cup {NoRow}]
        /\ Exists(i) /\ rows[i].status = "pending" /\ rows[i] \in ApprovalRequest
        /\ rows'[i] \in ApprovalRequest
        /\ rows'[i].status = v /\ rows'[i].consumed = rows[i].consumed
        /\ rows'[i].token = rows[i].token /\ rows'[i].ask = rows[i].ask
        /\ v = "denied" => rows'[i].expires = rows[i].expires
        /\ \A j \in Ids : j # i => rows'[j] = rows[j]
    BY <1>3, RecordFacts
  <2> HIDE DEF i, v
  <2>2. \A j \in Ids : Exists(j)' => /\ Exists(j) /\ rows'[j].token = rows[j].token
                                     /\ rows'[j].ask = rows[j].ask
    BY <2>1 DEF Exists
  <2>3. \A j \in Ids : Live(j)' /\ rows'[j].status # "approved" => Live(j)
    BY <1>1, <2>1 DEF Live, Exists
  <2>4. \A t : PendingOf(t, clock)' \subseteq PendingOf(t, clock)
    BY <1>1, <2>1 DEF PendingOf, Exists
  <2>5. NoFuture'
    BY <1>1, <2>2 DEF NoFuture, Inv
  <2>6. OlderApproved'
    <3> SUFFICES ASSUME NEW h \in Ids, NEW j \in Ids, Live(h)', Exists(j)', h < j,
                        rows'[h].token = rows'[j].token, rows'[h].ask = rows'[j].ask,
                        rows'[h].status # "approved"
                 PROVE  FALSE
      BY DEF OlderApproved
    <3>1. Live(h) /\ Exists(h)' /\ Exists(j)
      BY <2>2, <2>3 DEF Live
    <3>2. rows[h].status = "approved"
      BY <2>2, <3>1 DEF OlderApproved, Inv
    <3> QED
      BY <2>1, <3>2
  <2>7. WithinLimit'
    <3> SUFFICES ASSUME NEW t \in Tokens
                 PROVE  Cardinality(PendingOf(t, clock)') <= MaxPending
      BY DEF WithinLimit
    <3>1. PendingOf(t, clock) \subseteq Ids
      BY DEF PendingOf
    <3>2. /\ Cardinality(PendingOf(t, clock)) \in Nat
          /\ Cardinality(PendingOf(t, clock)') \in Nat
          /\ Cardinality(PendingOf(t, clock)') <= Cardinality(PendingOf(t, clock))
      BY <2>4, <3>1, PendingFacts
    <3> QED
      BY <3>2 DEF Inv, WithinLimit
  <2>8. ASSUME NEW c \in Calls PROVE CallOK(c)'
    <3>1. CASE pc[c] \notin InTurn
      BY <1>1, <3>1 DEF CallOK, InTurn
    <3>2. CASE pc[c] = "opened"
      BY <1>1, <3>2 DEF CallOK
    <3>3. CASE pc[c] = "consuming"
      <4>1. Reads(c) /\ found[c].id \in Ids
        BY <3>3 DEF Inv, CallsOK, CallOK, Reads
      <4>2. Exists(found[c].id)' => found[c].id # i
        BY <2>1, <2>2, <4>1 DEF Reads
      <4>3. Exists(found[c].id)' => rows'[found[c].id] = rows[found[c].id]
        BY <2>1, <4>1, <4>2
      <4>4. ASSUME NEW j \in (Matching(TokenOf[c], ask[c])' \ {found[c].id})
            PROVE  rows'[j].status = "approved"
        <5>1. /\ j \in Ids /\ Live(j)' /\ Exists(j)'
              /\ rows'[j].token = TokenOf[c] /\ rows'[j].ask = ask[c]
          BY <1>1, <4>4 DEF Matching, Live
        <5>2. rows'[j].status # "approved" => j \in Matching(TokenOf[c], ask[c])
          BY <2>2, <2>3, <5>1 DEF Matching
        <5>3. rows'[j].status # "approved" => rows[j].status = "approved"
          BY <4>1, <4>4, <5>2 DEF Reads, AllApproved
        <5> QED
          BY <2>1, <5>1, <5>3
      <4>5. Reads(c)'
        BY <1>1, <2>2, <4>1, <4>3, <4>4 DEF Reads, AllApproved
      <4> QED
        BY <1>1, <3>3, <4>5 DEF CallOK
    <3>4. CASE pc[c] \in {"requesting", "summarizing", "inserting"}
      <4>1. ASSUME NEW j \in Matching(TokenOf[c], ask[c])'
            PROVE  rows'[j].status = "approved"
        <5>1. /\ j \in Ids /\ Live(j)' /\ Exists(j)'
              /\ rows'[j].token = TokenOf[c] /\ rows'[j].ask = ask[c]
          BY <1>1, <4>1 DEF Matching, Live
        <5>2. rows'[j].status # "approved" => j \in Matching(TokenOf[c], ask[c])
          BY <2>2, <2>3, <5>1 DEF Matching
        <5>3. rows'[j].status # "approved" => rows[j].status = "approved"
          BY <3>4, <5>2 DEF Inv, CallsOK, CallOK, AllApproved
        <5> QED
          BY <2>1, <5>1, <5>3
      <4>2. pc[c] \in {"summarizing", "inserting"} =>
              Cardinality(PendingOf(TokenOf[c], clock)') < MaxPending
        <5>1. PendingOf(TokenOf[c], clock) \subseteq Ids
          BY DEF PendingOf
        <5>2. /\ Cardinality(PendingOf(TokenOf[c], clock)) \in Nat
              /\ Cardinality(PendingOf(TokenOf[c], clock)') \in Nat
              /\ Cardinality(PendingOf(TokenOf[c], clock)') <= Cardinality(PendingOf(TokenOf[c], clock))
          BY <2>4, <5>1, PendingFacts
        <5> QED
          BY <5>2 DEF Inv, CallsOK, CallOK
      <4> QED
        BY <1>1, <3>4, <4>1, <4>2 DEF CallOK, AllApproved
    <3> QED
      BY <3>1, <3>2, <3>3, <3>4 DEF InTurn
  <2>9. LineHolds' /\ TurnHeld'
    BY <1>1, OutsideFacts
  <2>10. TypeOK'
    BY <1>1, <2>1 DEF Inv, TypeOK
  <2> QED
    BY <2>5, <2>6, <2>7, <2>8, <2>9, <2>10 DEF Inv, CallsOK
<1> QED
  BY <1>2, <1>3

\* After a restart no call is at the gate and no line holds one.
LEMMA RestartInv ==
  ASSUME ApprovalsAssumption, Inv, Restart
  PROVE  Inv'
<1> USE DEF ApprovalsAssumption
<1>1. /\ rows' = rows /\ nextId' = nextId /\ mcps' = mcps /\ tokens' = tokens /\ saved' = saved /\ clock' = clock
      /\ line' = [t \in Tokens |-> << >>]
      /\ pc' = [c \in Calls |-> "idle"] /\ ask' = [c \in Calls |-> None]
      /\ mode' = [c \in Calls |-> None] /\ found' = [c \in Calls |-> NotFound]
      /\ now' = [c \in Calls |-> 0]
      /\ deciding' = [p \in People |-> NoDecision]
  BY DEF Restart, db, TL!Emptied
<1>2. TypeOK'
  BY <1>1 DEF Inv, TypeOK, Phases, NotFound, Verdicts
<1>3. LineHolds' /\ TurnHeld'
  BY <1>1 DEF LineHolds, TurnHeld, InTurn
<1>4. NoFuture' /\ WithinLimit' /\ OlderApproved'
  BY <1>1, FewerRows DEF Inv, TypeOK
<1>5. CallsOK'
  BY <1>1 DEF CallsOK, CallOK
<1> QED
  BY <1>2, <1>3, <1>4, <1>5 DEF Inv

\* The invariant holds with no row and no call.
LEMMA InitInv == ApprovalsAssumption /\ Init => Inv
<1> SUFFICES ASSUME ApprovalsAssumption, Init PROVE Inv
  OBVIOUS
<1> USE DEF ApprovalsAssumption
<1>1. /\ rows = [i \in Ids |-> NoRow] /\ nextId = 1 /\ mcps = Mcps /\ tokens = Tokens /\ clock = 0
      /\ saved \in [Mcps -> {"default", "unreadable"}]
      /\ line = [t \in Tokens |-> << >>] /\ pc = [c \in Calls |-> "idle"]
      /\ ask = [c \in Calls |-> None] /\ mode = [c \in Calls |-> None]
      /\ found = [c \in Calls |-> NotFound] /\ now = [c \in Calls |-> 0]
      /\ deciding = [p \in People |-> NoDecision]
  BY DEF Init, TL!LineInit
<1>2. TypeOK
  <2>1. saved \in [Mcps -> Choices]
    BY <1>1 DEF Choices
  <2>2. found \in [Calls -> [id : Ids \cup {0}, status : Verdicts]]
    BY <1>1 DEF NotFound, Verdicts
  <2> QED
    BY <1>1, <2>1, <2>2 DEF TypeOK, Phases
<1>3. LineHolds /\ TurnHeld /\ CallsOK
  BY <1>1 DEF LineHolds, TurnHeld, InTurn, CallsOK, CallOK
<1>4. \A i \in Ids : ~ Exists(i)
  BY <1>1 DEF Exists
<1>5. NoFuture /\ OlderApproved
  BY <1>4 DEF NoFuture, OlderApproved, Live
<1>6. WithinLimit
  <2>1. \A t \in Tokens : PendingOf(t, clock) = {}
    BY <1>4 DEF PendingOf
  <2>2. Cardinality({}) = 0
    BY FS_EmptySet
  <2> QED
    BY <2>1, <2>2 DEF WithinLimit
<1> QED
  BY <1>2, <1>3, <1>5, <1>6 DEF Inv

\* Every step of calls, people, clock and process preserves the invariant.
LEMMA NextInv == ApprovalsAssumption /\ Inv /\ [Next]_vars => Inv'
<1> SUFFICES ASSUME ApprovalsAssumption, Inv, [Next]_vars PROVE Inv'
  OBVIOUS
<1>1. ASSUME NEW c \in Calls, Step(c) PROVE Inv'
  <2>1. CASE InsertFails(c)
    BY <2>1, HeldInv DEF InsertFails, AtGate, InTurn
  <2> QED
    BY <1>1, <2>1, GateOpenInv, GateAsksInv, SelectInv, ConsumeApprovedInv,
       ConsumeDeniedInv, OpenInv, RanInv, CountInv, SummarizeInv, InsertInv DEF Step
<1>2. ASSUME NEW c \in Calls, GiveUp(c) PROVE Inv'
  BY <1>2, HeldInv DEF GiveUp
<1>3. ASSUME NEW c \in Calls, NEW k \in Asks, Authenticate(c, k) PROVE Inv'
  BY <1>3, AuthenticateInv
<1>4. ASSUME NEW p \in People, NEW i \in Ids, NEW v \in {"approved", "denied"}, Decide(p, i, v)
      PROVE  Inv'
  BY <1>4, DecideInv
<1>14. ASSUME NEW p \in People, Record(p) \/ Abandon(p) PROVE Inv'
  BY <1>14, RecordInv, AbandonInv
<1>5. rows \in [Ids -> ApprovalRequest \cup {NoRow}]
  BY DEF Inv, TypeOK
<1>6. /\ clock \in Nat /\ clock >= clock /\ mcps \subseteq Mcps
      /\ tokens \subseteq Tokens /\ saved \in [Mcps -> Choices]
  BY DEF Inv, TypeOK
<1>7. ASSUME NEW m \in Mcps, DeleteMcp(m) PROVE Inv'
  <2>1. mcps' \subseteq Mcps
    BY <1>6, <1>7 DEF DeleteMcp
  <2>2. /\ UNCHANGED << nextId, line, pc, local, deciding >> /\ clock' = clock /\ saved' = saved
        /\ tokens' = tokens
        /\ rows' = [i \in Ids |-> IF i \in {j \in Ids : Exists(j) /\ McpOf[rows[j].ask] = m}
                                     THEN NoRow ELSE rows[i]]
    BY <1>7 DEF DeleteMcp, Deleted
  <2>3. /\ rows' \in [Ids -> ApprovalRequest \cup {NoRow}]
        /\ \A i \in Ids : rows'[i] = NoRow \/ rows'[i] = rows[i]
    BY <1>5, <2>2
  <2> QED
    BY <1>6, <2>1, <2>2, <2>3, WorldInv
<1>13. ASSUME NEW t \in Tokens, DeleteToken(t) PROVE Inv'
  <2>1. tokens' \subseteq Tokens
    BY <1>6, <1>13 DEF DeleteToken
  <2>2. /\ UNCHANGED << nextId, line, pc, local, deciding >> /\ clock' = clock /\ saved' = saved
        /\ mcps' = mcps
        /\ rows' = [i \in Ids |-> IF i \in {j \in Ids : Exists(j) /\ rows[j].token = t}
                                     THEN NoRow ELSE rows[i]]
    BY <1>13 DEF DeleteToken, Deleted
  <2>3. /\ rows' \in [Ids -> ApprovalRequest \cup {NoRow}]
        /\ \A i \in Ids : rows'[i] = NoRow \/ rows'[i] = rows[i]
    BY <1>5, <2>2
  <2> QED
    BY <1>6, <2>1, <2>2, <2>3, WorldInv
<1>8. ASSUME NEW m \in Mcps, NEW choice \in {"auto", "ask"}, Choose(m, choice) PROVE Inv'
  <2>1. saved' \in [Mcps -> Choices]
    BY <1>6, <1>8 DEF Choose, Choices
  <2>2. /\ UNCHANGED << nextId, line, pc, local, deciding >> /\ clock' = clock /\ mcps' = mcps /\ tokens' = tokens
        /\ rows' = rows
    BY <1>8 DEF Choose, db
  <2>3. /\ rows' \in [Ids -> ApprovalRequest \cup {NoRow}]
        /\ \A i \in Ids : rows'[i] = NoRow \/ rows'[i] = rows[i]
    BY <1>5, <2>2
  <2> QED
    BY <1>6, <2>1, <2>2, <2>3, WorldInv
<1>9. CASE prune_expired
  <2>1. PICK S : /\ UNCHANGED << nextId, line, pc, local, deciding >> /\ clock' = clock
                 /\ saved' = saved /\ mcps' = mcps /\ tokens' = tokens
                 /\ rows' = [i \in Ids |-> IF i \in S THEN NoRow ELSE rows[i]]
    BY <1>9 DEF prune_expired, Deleted
  <2>2. /\ rows' \in [Ids -> ApprovalRequest \cup {NoRow}]
        /\ \A i \in Ids : rows'[i] = NoRow \/ rows'[i] = rows[i]
    BY <1>5, <2>1
  <2> QED
    BY <1>6, <2>1, <2>2, WorldInv
<1>10. CASE Tick
  <2>1. clock' \in Nat /\ clock' >= clock
    BY <1>6, <1>10 DEF Tick
  <2>2. /\ UNCHANGED << nextId, line, pc, local, deciding >> /\ saved' = saved /\ mcps' = mcps /\ tokens' = tokens
        /\ rows' = rows
    BY <1>10 DEF Tick, db
  <2>3. /\ rows' \in [Ids -> ApprovalRequest \cup {NoRow}]
        /\ \A i \in Ids : rows'[i] = NoRow \/ rows'[i] = rows[i]
    BY <1>5, <2>2
  <2> QED
    BY <1>6, <2>1, <2>2, <2>3, WorldInv
<1>11. CASE Restart
  BY <1>11, RestartInv
<1>12. CASE UNCHANGED vars
  <2>1. /\ UNCHANGED << nextId, line, pc, local, deciding >> /\ saved' = saved /\ mcps' = mcps /\ tokens' = tokens
        /\ rows' = rows /\ clock' = clock
    BY <1>12 DEF vars, db
  <2>2. /\ rows' \in [Ids -> ApprovalRequest \cup {NoRow}]
        /\ \A i \in Ids : rows'[i] = NoRow \/ rows'[i] = rows[i]
    BY <1>5, <2>1
  <2> QED
    BY <1>6, <2>1, <2>2, WorldInv
<1> QED
  BY <1>1, <1>2, <1>3, <1>4, <1>7, <1>8, <1>9, <1>10, <1>11, <1>12, <1>13, <1>14 DEF Next

\* The inductive invariant holds of every reachable state of the gate.
LEMMA SpecInv == Spec => []Inv
<1>1. Init => Inv
  BY ApprovalsAssumption, InitInv
<1>2. Inv /\ [Next]_vars => Inv'
  BY ApprovalsAssumption, NextInv
<1> QED
  BY <1>1, <1>2, PTL DEF Spec

-----------------------------------------------------------------------------

\* Every variable of the gate keeps its type.
THEOREM TypeCorrect == Spec => []TypeOK
<1>1. Inv => TypeOK
  BY DEF Inv
<1> QED
  BY <1>1, SpecInv, PTL

\* `request` never lets a token have more than MAX_PENDING_PER_TOKEN requests
\* waiting, though it counts before the awaits it inserts after.
THEOREM LimitKept == Spec => []WithinLimit
<1>1. Inv => WithinLimit
  BY DEF Inv
<1> QED
  BY <1>1, SpecInv, PTL

\* `decided` puts a call to people once more only when nothing is open: a second
\* open request is beside older ones that were approved after their time.
THEOREM RequestUnique == Spec => []OneOpenRequest
<1>1. Inv => OneOpenRequest
  BY DEF Inv, OlderApproved, OneOpenRequest, Live
<1> QED
  BY <1>1, SpecInv, PTL

\* A refusal is said once, though `decided` ignores what `consume` returns.
THEOREM RefusalSaidOnce == Spec => SaidOnce
<1>1. Inv /\ [Next]_vars =>
        [\A c \in Calls : ConsumeDenied(c) /\ Exists(found[c].id) =>
                            ~ rows[found[c].id].consumed]_vars
  <2> SUFFICES ASSUME Inv, NEW c \in Calls, ConsumeDenied(c), Exists(found[c].id)
               PROVE  ~ rows[found[c].id].consumed
    OBVIOUS
  <2> QED
    BY DEF Inv, CallsOK, CallOK, Reads, ConsumeDenied
<1> QED
  BY <1>1, SpecInv, PTL DEF Spec, SaidOnce

-----------------------------------------------------------------------------
(***************************************************************************)
(* Decisions are final                                                     *)
(***************************************************************************)

\* A decision that began in time is written in row i.
Recorded(i) ==
  \E p \in People :
    /\ deciding[p].id = i /\ Decidable(deciding[p])
    /\ rows[i] \in ApprovalRequest /\ rows'[i].consumed = rows[i].consumed
    /\ \/ deciding[p].verdict = "approved"
       \/ rows'[i].expires = rows[i].expires

\* What a step does to one row: nothing, a deletion, a decision, an end of what was
\* decided, or a new row past the others.
RowStep(i) ==
  \/ rows'[i] \in {rows[i], NoRow}
  \/ Recorded(i) /\ clock' = clock
  \/ /\ Exists(i) /\ rows'[i].status = rows[i].status /\ rows'[i].consumed
  \/ i = nextId

\* Every step does one of these, and time does not go back.
LEMMA RowSteps ==
  ASSUME ApprovalsAssumption, Inv, [Next]_vars, NEW i \in Ids
  PROVE  RowStep(i) /\ clock <= clock' /\ clock' \in Nat
<1>1. rows \in [Ids -> ApprovalRequest \cup {NoRow}] /\ clock \in Nat /\ clock <= clock
  BY DEF Inv, TypeOK
<1>2. ASSUME rows' = rows, clock' = clock PROVE RowStep(i) /\ clock <= clock' /\ clock' \in Nat
  BY <1>1, <1>2 DEF RowStep
<1>3. ASSUME NEW S, Deleted(S), clock' = clock
      PROVE  RowStep(i) /\ clock <= clock' /\ clock' \in Nat
  BY <1>1, <1>3 DEF RowStep, Deleted
<1>4. ASSUME NEW c \in Calls, consume(found[c]), clock' = clock
      PROVE  RowStep(i) /\ clock <= clock' /\ clock' \in Nat
  <2>1. CASE ~ Unconsumed(found[c])
    BY <1>2, <1>4, <2>1 DEF consume
  <2>2. CASE Unconsumed(found[c])
    <3>1. rows' = [rows EXCEPT ![found[c].id].consumed = TRUE] /\ Exists(found[c].id)
      BY <1>4, <2>2 DEF consume, Unconsumed
    <3>2. CASE i # found[c].id
      BY <1>1, <1>4, <3>1, <3>2 DEF RowStep
    <3>3. CASE i = found[c].id
      <4>1. rows[i] \in ApprovalRequest /\ rows'[i] = [rows[i] EXCEPT !.consumed = TRUE]
        BY <1>1, <3>1, <3>3 DEF Exists
      <4>2. rows'[i].status = rows[i].status /\ rows'[i].consumed = TRUE
        BY <4>1 DEF ApprovalRequest
      <4> QED BY <1>1, <1>4, <3>1, <3>3, <4>2 DEF RowStep
    <3> QED BY <3>2, <3>3
  <2> QED BY <2>1, <2>2
<1>5. ASSUME NEW p \in People, Record(p)
      PROVE  RowStep(i) /\ clock <= clock' /\ clock' \in Nat
  <2>1. clock' = clock
    BY <1>5 DEF Record
  <2>2. CASE ~ Decidable(deciding[p])
    BY <1>2, <1>5, <2>1, <2>2, RecordFacts
  <2>3. CASE Decidable(deciding[p]) /\ i # deciding[p].id
    BY <1>1, <1>5, <2>1, <2>3, RecordFacts DEF RowStep
  <2>4. CASE Decidable(deciding[p]) /\ i = deciding[p].id
    BY <1>1, <1>5, <2>1, <2>4, RecordFacts DEF RowStep, Recorded
  <2> QED BY <2>2, <2>3, <2>4
<1>13. ASSUME NEW p \in People,
              Abandon(p) \/ \E j \in Ids, v \in {"approved", "denied"} : Decide(p, j, v)
       PROVE  RowStep(i) /\ clock <= clock' /\ clock' \in Nat
  BY <1>2, <1>13 DEF Abandon, Decide, db
<1>6. ASSUME NEW c \in Calls, Insert(c)
      PROVE  RowStep(i) /\ clock <= clock' /\ clock' \in Nat
  BY <1>1, <1>6 DEF Insert, RowStep
<1>7. CASE Tick
  BY <1>1, <1>7 DEF Tick, RowStep, db
<1>8. ASSUME NEW c \in Calls, Step(c) PROVE RowStep(i) /\ clock <= clock' /\ clock' \in Nat
  <2>1. CASE ConsumeApproved(c) \/ ConsumeDenied(c)
    BY <1>4, <2>1 DEF ConsumeApproved, ConsumeDenied
  <2>2. CASE Insert(c)
    BY <1>6, <2>2
  <2>3. CASE GateOpen(c) \/ GateAsks(c) \/ Select(c) \/ Open(c) \/ Ran(c) \/ Count(c)
             \/ Summarize(c) \/ InsertFails(c)
    BY <1>2, <2>3 DEF GateOpen, GateAsks, Select, Open, Ran, Count, Summarize, InsertFails, db
  <2> QED BY <1>8, <2>1, <2>2, <2>3 DEF Step
<1>9. CASE \E c \in Calls : GiveUp(c) \/ \E k \in Asks : Authenticate(c, k)
  BY <1>2, <1>9 DEF GiveUp, Authenticate, db
<1>10. CASE \E m \in Mcps : \E choice \in {"auto", "ask"} : Choose(m, choice)
  BY <1>2, <1>10 DEF Choose, db
<1>11. CASE Restart \/ UNCHANGED vars
  BY <1>2, <1>11 DEF Restart, vars, db
<1>12. CASE \/ \E m \in Mcps : DeleteMcp(m)
            \/ \E t \in Tokens : DeleteToken(t)
            \/ prune_expired
  BY <1>3, <1>12 DEF DeleteMcp, DeleteToken, prune_expired
<1> QED BY <1>5, <1>7, <1>8, <1>9, <1>10, <1>11, <1>12, <1>13 DEF Next

\* A person is about to approve request i, and began in time.
Approving(i) ==
  \E p \in People :
    deciding[p].id = i /\ deciding[p].verdict = "approved" /\ Decidable(deciding[p])

\* `decide` and `consume`: a decision is never replaced, and only an approval that
\* began in time opens a request that is over.
THEOREM DecisionsStand == Spec => DecisionIsFinal
<1>1. ASSUME Inv, [Next]_vars, NEW i \in Ids
      PROVE  /\ i < nextId /\ ~ Live(i) /\ Live(i)' => Approving(i)
             /\ Exists(i) /\ Exists(i)' /\ rows[i].status # "pending"
                  => rows'[i].status = rows[i].status
  <2>1. RowStep(i) /\ clock <= clock' /\ clock \in Nat /\ clock' \in Nat
    BY <1>1, ApprovalsAssumption, RowSteps DEF Inv, TypeOK
  <2>2. rows[i] \in ApprovalRequest \cup {NoRow} /\ nextId \in Nat /\ i \in Nat
    <3>1. nextId \in 1..(MaxRows + 1) /\ rows \in [Ids -> ApprovalRequest \cup {NoRow}]
      BY <1>1 DEF Inv, TypeOK
    <3> QED BY <3>1, ApprovalsAssumption DEF ApprovalsAssumption, Ids
  <2>3. NoFuture
    BY <1>1 DEF Inv
  <2>4. Exists(i) => rows[i] \in ApprovalRequest
    BY <2>2 DEF Exists
  <2>5. i = nextId => ~ Exists(i)
    BY <2>2, <2>3 DEF NoFuture
  <2>6. CASE rows'[i] \in {rows[i], NoRow}
    <3>1. Exists(i)' => rows'[i] = rows[i] /\ Exists(i)
      BY <2>6 DEF Exists
    <3>2. Exists(i)' /\ rows[i].expires > clock' => rows[i].expires > clock
      BY <2>1, <2>4, <3>1 DEF ApprovalRequest
    <3> QED BY <3>1, <3>2 DEF Live
  <2>7. CASE Recorded(i) /\ clock' = clock
    <3>1. PICK p \in People :
            /\ deciding[p].id = i /\ Decidable(deciding[p])
            /\ rows[i] \in ApprovalRequest /\ rows'[i].consumed = rows[i].consumed
            /\ \/ deciding[p].verdict = "approved"
               \/ rows'[i].expires = rows[i].expires
      BY <2>7 DEF Recorded
    <3>2. Exists(i) /\ rows[i].status = "pending"
      BY <3>1 DEF Decidable
    <3>3. CASE deciding[p].verdict = "approved"
      BY <3>1, <3>2, <3>3 DEF Approving
    <3>4. CASE rows'[i].expires = rows[i].expires
      BY <2>7, <3>1, <3>2, <3>4 DEF Live
    <3> QED BY <3>1, <3>3, <3>4
  <2>8. CASE Exists(i) /\ rows'[i].status = rows[i].status /\ rows'[i].consumed
    BY <2>8 DEF Live
  <2>9. CASE i = nextId
    BY <2>2, <2>5, <2>9
  <2> QED BY <2>1, <2>6, <2>7, <2>8, <2>9 DEF RowStep
<1>2. Inv /\ [Next]_vars =>
        [\A i \in Ids :
           /\ i < nextId /\ ~ Live(i) /\ Live(i)' => Approving(i)
           /\ Exists(i) /\ Exists(i)' /\ rows[i].status # "pending"
                => rows'[i].status = rows[i].status]_vars
  BY <1>1
<1> QED BY <1>2, SpecInv, PTL DEF Spec, DecisionIsFinal, Approving

-----------------------------------------------------------------------------
(***************************************************************************)
(* The gate keeps the promise                                              *)
(***************************************************************************)

\* What the promise needs besides: a request nobody decided was not consumed,
\* and only a call that an approval let through remembers a request, one for
\* what it asks.
Fresh == \A i \in Ids : Exists(i) /\ rows[i].status = "pending" => rows[i].consumed = FALSE

KnownBy(c) ==
  /\ found[c] # NotFound => pc[c] \in {"consuming", "opened", "running"}
  /\ pc[c] = "consuming" /\ Exists(found[c].id) => rows[found[c].id].ask = ask[c]

More == Fresh /\ \A c \in Calls : KnownBy(c)

\* What a row is for.
SubjectOf(r) == IF r = NoRow THEN None ELSE [token |-> r.token, ask |-> r.ask]

\* Who is let through.
Passed(c) == pc[c] \in {"opened", "running"} /\ found[c] # NotFound

\* The refinement mapping, one id and one call at a time.
MapOK ==
  /\ stage = [i \in Ids |-> StageOf(rows[i], i < nextId, clock)]
  /\ subjects = [i \in Ids |-> SubjectOf(rows[i])]
  /\ \A r : r \in letThrough <=>
       \E c \in Calls : Passed(c) /\ r = << c, TokenOf[c], ask[c], found[c].id >>

\* It is what it says.
LEMMA Mapped == MapOK
<1>1. subjects = [i \in Ids |-> SubjectOf(rows[i])]
  BY DEF subjects, SubjectOf, Exists
<1>2. \A r : r \in letThrough <=>
        \E c \in Calls : Passed(c) /\ r = << c, TokenOf[c], ask[c], found[c].id >>
  BY DEF letThrough, Passed
<1> QED BY <1>1, <1>2 DEF MapOK, stage

\* The same after a step.
LEMMA MappedNext == MapOK'
BY Mapped, PTL

\* Rows that stay as they are keep their stages while time stands still.
LEMMA RowsRest ==
  ASSUME rows' = rows, nextId' = nextId, clock' = clock
  PROVE  stage' = stage /\ subjects' = subjects
BY DEF stage, subjects, Exists

\* Nobody is let through when no call comes past the gate.
LEMMA NobodyPasses ==
  ASSUME \A c \in Calls : Passed(c)' =>
           Passed(c) /\ ask'[c] = ask[c] /\ found'[c].id = found[c].id
  PROVE  letThrough' \subseteq letThrough
<1>1. \A r : r \in letThrough' <=>
        \E c \in Calls : Passed(c)' /\ r = << c, TokenOf[c], ask'[c], found'[c].id >>
  BY MappedNext DEF MapOK
<1>2. \A r : r \in letThrough <=>
        \E c \in Calls : Passed(c) /\ r = << c, TokenOf[c], ask[c], found[c].id >>
  BY Mapped DEF MapOK
<1> QED BY <1>1, <1>2

\* The call moves without passing: what it knew it forgets or keeps, or it reads
\* a request for what it asks.
Moves(c) ==
  /\ Others(c)
  /\ \/ found'[c] = NotFound /\ pc'[c] # "consuming"
     \/ /\ found'[c] = found[c] /\ ask'[c] = ask[c] /\ pc[c] \in {"opened", "running"}
        /\ pc'[c] = "running"
     \/ /\ pc'[c] = "consuming" /\ Exists(found'[c].id) /\ rows[found'[c].id].ask = ask'[c]

\* Such a step is an end for the promise.
LEMMA MovesEnd ==
  ASSUME More, NEW c \in Calls, Moves(c),
         rows' = rows, nextId' = nextId, clock' = clock
  PROVE  More' /\ P!End
<1>1. ASSUME NEW d \in Calls
      PROVE  KnownBy(d)' /\ (Passed(d)' =>
               Passed(d) /\ ask'[d] = ask[d] /\ found'[d].id = found[d].id)
  <2>1. KnownBy(d) /\ KnownBy(c)
    BY DEF More
  <2>2. CASE d # c
    BY <2>1, <2>2 DEF KnownBy, Passed, Moves, Others, Exists
  <2>3. CASE d = c
    BY <2>1, <2>3 DEF KnownBy, Passed, Moves, Exists
  <2> QED BY <2>2, <2>3
<1>2. Fresh'
  BY DEF More, Fresh, Exists
<1>3. letThrough' \subseteq letThrough
  BY <1>1, NobodyPasses
<1> QED BY <1>1, <1>2, <1>3, RowsRest DEF More, P!End

\* What calls do by themselves when they change no row.
LEMMA CallMoves ==
  ASSUME ApprovalsAssumption, Inv, More, NEW c \in Calls,
         \/ GateOpen(c) \/ GateAsks(c) \/ Select(c) \/ Open(c) \/ Ran(c) \/ Count(c)
         \/ Summarize(c) \/ InsertFails(c) \/ GiveUp(c)
         \/ \E k \in Asks : Authenticate(c, k)
  PROVE  Moves(c) /\ rows' = rows /\ nextId' = nextId /\ clock' = clock
<1>1. KnownBy(c) /\ found \in [Calls -> [id : Ids \cup {0}, status : Verdicts]]
      /\ pc \in [Calls -> Phases] /\ ask \in [Calls -> Asks \cup {None}]
  BY DEF More, Inv, TypeOK
<1>2. rows' = rows /\ nextId' = nextId /\ clock' = clock
  BY DEF GateOpen, GateAsks, Select, Open, Ran, Count, Summarize, InsertFails, GiveUp,
         Authenticate, db
<1> SUFFICES Moves(c)
  BY <1>2
<1>3. ASSUME Answered(c) PROVE Moves(c)
  <2>1. found'[c] = NotFound /\ pc'[c] = "idle"
    BY <1>1, <1>3 DEF Answered, Forget
  <2> QED BY <1>3, <2>1, AnsweredFacts DEF Moves
<1>4. ASSUME NEW phase, phase # "consuming", pc' = [pc EXCEPT ![c] = phase], found' = found,
             found[c] = NotFound, \A d \in Calls \ {c} : ask'[d] = ask[d]
      PROVE  Moves(c)
  BY <1>1, <1>4 DEF Moves, Others
<1>5. CASE GateOpen(c) \/ GateAsks(c)
  <2>1. found' = found /\ ask' = ask /\ pc[c] = "authenticated"
    BY <1>5 DEF GateOpen, GateAsks
  <2>2. found[c] = NotFound
    BY <1>1, <2>1 DEF KnownBy
  <2> QED BY <1>4, <1>5, <2>1, <2>2 DEF GateOpen, GateAsks, Goto
<1>6. CASE Select(c)
  <2> DEFINE live == Matching(TokenOf[c], ask[c])
  <2>1. /\ pc[c] = "waiting"
        /\ \/ /\ Goto(c, "requesting")
              /\ UNCHANGED << line, local >>
           \/ Held(c)
           \/ /\ \E last \in Ids :
                   /\ last \in live
                   /\ found' = [found EXCEPT ![c] = [id |-> last, status |-> rows[last].status]]
              /\ Goto(c, "consuming")
              /\ UNCHANGED << line, ask, mode, now >>
    BY <1>6 DEF Select
  <2>2. found[c] = NotFound
    BY <1>1, <2>1 DEF KnownBy
  <2>3. CASE Goto(c, "requesting") /\ UNCHANGED << line, local >>
    BY <1>4, <2>2, <2>3 DEF Goto, local
  <2>4. CASE Held(c)
    BY <1>3, <2>4 DEF Held
  <2>5. ASSUME NEW last \in Ids, last \in live,
               found' = [found EXCEPT ![c] = [id |-> last, status |-> rows[last].status]],
               Goto(c, "consuming"), UNCHANGED << line, ask, mode, now >>
        PROVE  Moves(c)
    <3>1. Exists(last) /\ rows[last].ask = ask[c]
      BY <2>5 DEF Matching, Live
    <3> HIDE DEF live
    <3>2. found'[c].id = last /\ pc'[c] = "consuming" /\ ask' = ask
      BY <1>1, <2>5 DEF Goto
    <3>3. Others(c)
      BY <1>1, <2>5 DEF Goto, Others
    <3> QED BY <3>1, <3>2, <3>3 DEF Moves
  <2> QED BY <2>1, <2>3, <2>4, <2>5
<1>7. CASE Open(c)
  BY <1>1, <1>7 DEF Open, Goto, local, Moves, Others
<1>8. CASE Ran(c)
  BY <1>3, <1>8 DEF Ran
<1>9. CASE Count(c)
  <2>1. found[c] = NotFound
    BY <1>1, <1>9 DEF KnownBy, Count
  <2> QED BY <1>3, <1>4, <1>9, <2>1 DEF Count, Held, Goto
<1>10. CASE Summarize(c)
  <2>1. found[c] = NotFound
    BY <1>1, <1>10 DEF KnownBy, Summarize
  <2> QED BY <1>3, <1>4, <1>10, <2>1 DEF Summarize, Held, Goto, local
<1>11. CASE InsertFails(c) \/ GiveUp(c)
  BY <1>3, <1>11 DEF InsertFails, GiveUp, Held
<1>12. ASSUME NEW k \in Asks, Authenticate(c, k) PROVE Moves(c)
  <2>1. found[c] = NotFound
    BY <1>1, <1>12 DEF KnownBy, Authenticate
  <2> QED BY <1>1, <1>4, <1>12, <2>1 DEF Authenticate, Goto
<1> QED BY <1>2, <1>5, <1>6, <1>7, <1>8, <1>9, <1>10, <1>11, <1>12

\* A change of stages and subjects, one id at a time.
LEMMA Mover ==
  ASSUME NEW S, NEW s,
         \A i \in Ids : StageOf(rows'[i], i < nextId', clock') =
                          IF i \in S THEN s ELSE StageOf(rows[i], i < nextId, clock)
  PROVE  P!Move(S, s)
<1>1. stage' = [i \in Ids |-> StageOf(rows'[i], i < nextId', clock')]
  BY MappedNext DEF MapOK
<1>2. stage = [i \in Ids |-> StageOf(rows[i], i < nextId, clock)]
  BY Mapped DEF MapOK
<1>3. \A i \in Ids : stage'[i] = IF i \in S THEN s ELSE stage[i]
  BY <1>1, <1>2
<1>4. stage' = [i \in Ids |-> stage'[i]]
  BY <1>1
<1> QED BY <1>3, <1>4 DEF P!Move

\* Rows that stay for the same token and the same ask.
LEMMA SameSubjects ==
  ASSUME \A i \in Ids : SubjectOf(rows'[i]) = SubjectOf(rows[i])
  PROVE  subjects' = subjects
<1>1. subjects' = [i \in Ids |-> SubjectOf(rows'[i])]
  BY MappedNext DEF MapOK
<1>2. subjects = [i \in Ids |-> SubjectOf(rows[i])]
  BY Mapped DEF MapOK
<1> QED BY <1>1, <1>2

\* Calls that stay let nobody through and lose nobody.
LEMMA SameLet ==
  ASSUME \A c \in Calls :
           /\ Passed(c)' <=> Passed(c)
           /\ Passed(c) => ask'[c] = ask[c] /\ found'[c].id = found[c].id
  PROVE  letThrough' = letThrough
<1>1. \A r : r \in letThrough' <=>
        \E c \in Calls : Passed(c)' /\ r = << c, TokenOf[c], ask'[c], found'[c].id >>
  BY MappedNext DEF MapOK
<1>2. \A r : r \in letThrough <=>
        \E c \in Calls : Passed(c) /\ r = << c, TokenOf[c], ask[c], found[c].id >>
  BY Mapped DEF MapOK
<1> QED BY <1>1, <1>2

\* A deletion, of whatever rows, is a discard.
LEMMA DeletedKeeps ==
  ASSUME ApprovalsAssumption, Inv, More, NEW S, S \subseteq Ids, \A i \in S : Exists(i),
         Deleted(S), nextId' = nextId, clock' = clock, UNCHANGED << pc, local >>
  PROVE  More' /\ P!Discard(S)
<1>1. /\ rows' = [i \in Ids |-> IF i \in S THEN NoRow ELSE rows[i]]
      /\ nextId \in Nat /\ ask' = ask /\ found' = found /\ pc' = pc
  BY DEF Deleted, Inv, TypeOK, local
<1>2. \A i \in S : i < nextId
  BY <1>1 DEF Inv, NoFuture, Ids
<1>3. P!Move(S, "gone")
  <2>1. \A i \in S : StageOf(NoRow, i < nextId', clock') = "gone"
    BY <1>2 DEF StageOf
  <2> QED BY <1>1, <2>1, Mover
<1>4. subjects' = [i \in Ids |-> IF i \in S THEN None ELSE subjects[i]]
  <2>1. subjects' = [i \in Ids |-> SubjectOf(rows'[i])]
    BY MappedNext DEF MapOK
  <2>2. subjects = [i \in Ids |-> SubjectOf(rows[i])]
    BY Mapped DEF MapOK
  <2>3. SubjectOf(NoRow) = None
    BY DEF SubjectOf
  <2>4. \A i \in Ids : SubjectOf(rows'[i]) = IF i \in S THEN None ELSE subjects[i]
    BY <1>1, <2>2, <2>3
  <2> QED BY <2>1, <2>4
<1>5. letThrough' = letThrough
  BY <1>1, SameLet DEF Passed
<1>6. More'
  <2>1. \A i \in Ids : Exists(i)' => Exists(i) /\ rows'[i] = rows[i]
    BY <1>1 DEF Exists
  <2>2. Fresh'
    BY <2>1 DEF More, Fresh
  <2>3. ASSUME NEW c \in Calls PROVE KnownBy(c)'
    <3>1. KnownBy(c)
      BY DEF More
    <3>2. pc[c] = "consuming" => found[c].id \in Ids
      BY DEF Inv, CallsOK, CallOK, Reads
    <3>3. pc[c] = "consuming" /\ rows'[found[c].id] # NoRow =>
            Exists(found[c].id) /\ rows'[found[c].id] = rows[found[c].id]
      BY <2>1, <3>2 DEF Exists
    <3> QED BY <1>1, <3>1, <3>3 DEF KnownBy, Exists
  <2> QED BY <2>2, <2>3 DEF More
<1> QED BY <1>3, <1>4, <1>5, <1>6 DEF P!Discard

\* Time passes: requests nobody decided lapse.
LEMMA TickKeeps ==
  ASSUME ApprovalsAssumption, Inv, More, Tick
  PROVE  More' /\ \E S \in SUBSET Ids : P!Lapse(S)
<1>1. /\ rows' = rows /\ nextId' = nextId /\ clock' = clock + 1 /\ clock \in Nat
      /\ ask' = ask /\ found' = found /\ pc' = pc
  BY DEF Tick, db, local, Inv, TypeOK
<1> DEFINE St(i) == StageOf(rows[i], i < nextId, clock)
           Sn(i) == StageOf(rows[i], i < nextId, clock')
           S == {i \in Ids : St(i) = "pending" /\ Sn(i) # "pending"}
<1>2. ASSUME NEW i \in Ids PROVE Sn(i) = IF i \in S THEN "lapsed" ELSE St(i)
  <2>1. Exists(i) => rows[i].expires \in Nat
    BY DEF Inv, TypeOK, Exists, ApprovalRequest
  <2> QED BY <1>1, <2>1 DEF StageOf, Exists
<1>3. P!Move(S, "lapsed")
  <2>1. \A i \in Ids : StageOf(rows'[i], i < nextId', clock') =
                         IF i \in S THEN "lapsed" ELSE StageOf(rows[i], i < nextId, clock)
    BY <1>1, <1>2
  <2> HIDE DEF S
  <2> QED BY <2>1, Mover
<1>4. \A i \in S : stage[i] = "pending"
  BY Mapped DEF MapOK
<1>5. subjects' = subjects /\ letThrough' = letThrough
  BY <1>1, SameSubjects, SameLet DEF Passed
<1>6. More'
  BY <1>1 DEF More, Fresh, KnownBy, Exists
<1>7. S \in SUBSET Ids
  OBVIOUS
<1> HIDE DEF S
<1>8. P!Lapse(S)
  BY <1>3, <1>4, <1>5 DEF P!Lapse
<1> QED BY <1>6, <1>7, <1>8

\* What touches neither the rows nor the calls is no step of the promise.
LEMMA RestKeeps ==
  ASSUME More, UNCHANGED << db, clock, pc, local >>
  PROVE  More' /\ UNCHANGED P!pvars
<1>1. /\ rows' = rows /\ nextId' = nextId /\ clock' = clock
      /\ pc' = pc /\ ask' = ask /\ found' = found
  BY DEF db, local
<1>2. letThrough' = letThrough
  BY <1>1, SameLet DEF Passed
<1>3. Fresh' /\ \A c \in Calls : KnownBy(c)'
  BY <1>1 DEF More, Fresh, KnownBy, Exists
<1> QED BY <1>1, <1>2, <1>3, RowsRest DEF More, P!pvars

\* A decision is one for the promise, or nothing when its request was decided.
LEMMA RecordKeeps ==
  ASSUME ApprovalsAssumption, Inv, More, NEW p \in People, Record(p)
  PROVE  More' /\ (P!Decide(deciding[p].id, deciding[p].verdict) \/ UNCHANGED P!pvars)
<1> DEFINE i == deciding[p].id  v == deciding[p].verdict
<1>1. /\ nextId' = nextId /\ clock' = clock /\ pc' = pc /\ ask' = ask /\ found' = found
      /\ mode' = mode /\ now' = now
      /\ rows \in [Ids -> ApprovalRequest \cup {NoRow}] /\ nextId \in Nat
  BY DEF Record, local, Inv, TypeOK
<1>2. CASE ~ Decidable(deciding[p])
  <2>1. rows' = rows
    BY <1>2, RecordFacts
  <2> QED BY <1>1, <2>1, RestKeeps DEF db, local
<1>3. CASE Decidable(deciding[p])
  <2>1. /\ i \in Ids /\ v \in {"approved", "denied"}
        /\ Exists(i) /\ rows[i].status = "pending" /\ rows[i] \in ApprovalRequest
        /\ rows'[i] \in ApprovalRequest
        /\ rows'[i].status = v /\ rows'[i].consumed = rows[i].consumed
        /\ rows'[i].token = rows[i].token /\ rows'[i].ask = rows[i].ask
        /\ \A j \in Ids : j # i => rows'[j] = rows[j]
    BY <1>3, RecordFacts
  <2> HIDE DEF i, v
  <2>2. rows'[i].consumed = FALSE /\ rows'[i] # NoRow
    BY <2>1, ApprovalsAssumption DEF More, Fresh, NoRow, ApprovalRequest
  <2>3. i < nextId
    BY <1>1, <2>1 DEF Inv, NoFuture, Ids
  <2>4. StageOf(rows[i], i < nextId, clock) \in {"pending", "lapsed"}
    BY <2>1, <2>3 DEF StageOf, Exists
  <2>5. StageOf(rows'[i], i < nextId', clock') = v
    BY <1>1, <2>1, <2>2, <2>3 DEF StageOf
  <2>6. P!Move({i}, v)
    <3>1. \A j \in Ids : StageOf(rows'[j], j < nextId', clock') =
                           IF j \in {i} THEN v ELSE StageOf(rows[j], j < nextId, clock)
      BY <1>1, <2>1, <2>5
    <3> QED BY <3>1, Mover
  <2>7. stage[i] \in {"pending", "lapsed"}
    BY <2>1, <2>4, Mapped DEF MapOK
  <2>8. subjects' = subjects
    BY <1>1, <2>1, <2>2, SameSubjects DEF SubjectOf, Exists
  <2>9. letThrough' = letThrough
    BY <1>1, SameLet DEF Passed
  <2>10. More'
    <3>1. Fresh'
      BY <2>1, <2>2 DEF More, Fresh, Exists
    <3>2. ASSUME NEW c \in Calls PROVE KnownBy(c)'
      <4>1. KnownBy(c)
        BY DEF More
      <4>2. pc[c] = "consuming" => found[c].id \in Ids
        BY DEF Inv, CallsOK, CallOK, Reads
      <4>3. pc[c] = "consuming" /\ rows'[found[c].id] # NoRow =>
              Exists(found[c].id) /\ rows'[found[c].id].ask = rows[found[c].id].ask
        BY <1>1, <2>1, <4>2 DEF Exists
      <4> QED BY <1>1, <4>1, <4>3 DEF KnownBy, Exists
    <3> QED BY <3>1, <3>2 DEF More
  <2> QED BY <2>1, <2>6, <2>7, <2>8, <2>9, <2>10 DEF P!Decide, i, v
<1> QED BY <1>2, <1>3

\* The requests that wait are the rows `request` counts.
LEMMA WaitingRows ==
  ASSUME ApprovalsAssumption, Inv, NEW t \in Tokens
  PROVE  P!Waiting(t) = PendingOf(t, clock)
<1>1. ASSUME NEW i \in Ids
      PROVE  stage[i] = "pending" /\ subjects[i].token = t <=>
               /\ Exists(i) /\ rows[i].token = t
               /\ rows[i].status = "pending" /\ rows[i].expires > clock
  <2>1. /\ stage[i] = StageOf(rows[i], i < nextId, clock)
        /\ subjects[i] = SubjectOf(rows[i])
    BY Mapped DEF MapOK
  <2>2. Exists(i) => i < nextId
    BY DEF Inv, NoFuture, TypeOK, ApprovalsAssumption, Ids
  <2>3. Exists(i) => SubjectOf(rows[i]).token = rows[i].token
    BY DEF SubjectOf, Exists
  <2>4. stage[i] = "pending" <=>
          /\ i < nextId /\ Exists(i)
          /\ rows[i].status = "pending" /\ rows[i].expires > clock
    BY <2>1 DEF StageOf, Exists
  <2> QED BY <2>1, <2>2, <2>3, <2>4
<1> QED BY <1>1 DEF P!Waiting, PendingOf

\* The promise counts as the gate does.
LEMMA SameCount ==
  ASSUME NEW S PROVE P!Cardinality(S) = Cardinality(S)
BY Zenon DEF P!Cardinality, Cardinality

\* An insert asks, unless its description took too long: there is room, and no
\* request for the same call waits.
LEMMA InsertKeeps ==
  ASSUME ApprovalsAssumption, Inv, More, NEW c \in Calls, Insert(c)
  PROVE  More' /\ \E i \in Ids, t \in Tokens, k \in Asks : P!Ask(i, t, k) \/ P!AskTooLate(i, t, k)
<1> DEFINE n == nextId  t == TokenOf[c]  k == ask[c]
           new == [token |-> t, ask |-> k, status |-> "pending",
                   consumed |-> FALSE, expires |-> now[c] + PendingTime]
<1>1. /\ pc[c] = "inserting" /\ t \in Tokens /\ k \in Asks
      /\ rows' = [rows EXCEPT ![n] = new] /\ nextId' = n + 1 /\ clock' = clock
      /\ n \in Ids /\ n \in Nat /\ Ids \subseteq Nat /\ Answered(c)
      /\ rows \in [Ids -> ApprovalRequest \cup {NoRow}]
  BY DEF Insert, Held, Inv, TypeOK, ApprovalsAssumption, Ids
<1>2. rows'[n] = new /\ \A i \in Ids : i # n => rows'[i] = rows[i]
  BY <1>1
<1>3. /\ new.status = "pending" /\ new.token = t /\ new.ask = k /\ new.consumed = FALSE
      /\ new # NoRow
  BY <1>1, ApprovalsAssumption DEF NoRow
<1> HIDE DEF new
<1>4. Others(c) /\ found'[c] = NotFound /\ pc'[c] = "idle"
  BY <1>1, AnsweredFacts DEF Answered, Forget, Inv, TypeOK
<1>5. KnownBy(c) /\ ~ Passed(c) /\ ~ Passed(c)'
  BY <1>1, <1>4 DEF More, KnownBy, Passed
<1>6. letThrough' = letThrough
  BY <1>4, <1>5, SameLet DEF Others, Passed
<1>7. ~ Exists(n)
  BY <1>1 DEF Inv, NoFuture
<1>8. More'
  <2>1. Fresh'
    BY <1>2, <1>3 DEF More, Fresh, Exists
  <2>2. ASSUME NEW d \in Calls, d # c PROVE KnownBy(d)'
    <3>1. KnownBy(d)
      BY DEF More
    <3>2. pc[d] = "consuming" => found[d].id \in Ids /\ found[d].id # n
      <4>1. pc[d] = "consuming" => found[d].id \in Ids /\ found[d].id < nextId
        BY DEF Inv, CallsOK, CallOK, Reads
      <4> QED BY <1>1, <4>1
    <3> QED BY <1>2, <1>4, <2>2, <3>1, <3>2 DEF KnownBy, Exists, Others
  <2>3. KnownBy(c)'
    BY <1>4 DEF KnownBy
  <2> QED BY <2>1, <2>2, <2>3 DEF More
<1>9. stage[n] = "none"
  BY <1>1, Mapped DEF MapOK, StageOf
<1>10. PICK s \in {"pending", "lapsed"} : s = StageOf(new, TRUE, clock)
  BY <1>3 DEF StageOf
<1>11. P!Move({n}, s)
  <2>1. \A i \in Ids : i # n => (i < n + 1 <=> i < n)
    BY <1>1
  <2>2. n < n + 1
    BY <1>1
  <2>3. ASSUME NEW i \in Ids
        PROVE  StageOf(rows'[i], i < nextId', clock') =
                 IF i \in {n} THEN s ELSE StageOf(rows[i], i < nextId, clock)
    <3>1. CASE i = n
      BY <1>1, <1>2, <1>10, <2>2, <3>1 DEF StageOf
    <3>2. CASE i # n
      BY <1>1, <1>2, <2>1, <3>2 DEF StageOf
    <3> QED BY <3>1, <3>2
  <2> QED BY <2>3, Mover
<1>12. subjects' = [subjects EXCEPT ![n] = [token |-> t, ask |-> k]]
  <2>1. subjects' = [i \in Ids |-> SubjectOf(rows'[i])]
    BY MappedNext DEF MapOK
  <2>2. subjects = [i \in Ids |-> SubjectOf(rows[i])]
    BY Mapped DEF MapOK
  <2>3. SubjectOf(new) = [token |-> t, ask |-> k]
    BY <1>3 DEF SubjectOf
  <2> QED BY <1>1, <1>2, <2>1, <2>2, <2>3
<1>13. CASE s = "lapsed"
  BY <1>1, <1>6, <1>8, <1>9, <1>11, <1>12, <1>13 DEF P!AskTooLate
<1>14. CASE s = "pending"
  <2>1. AllApproved(Matching(t, k)) /\ Cardinality(PendingOf(t, clock)) < MaxPending
    BY <1>1 DEF Inv, CallsOK, CallOK
  <2>2. ASSUME NEW j \in P!Waiting(t) PROVE subjects[j].ask # k
    <3>1. /\ j \in Ids /\ Exists(j) /\ rows[j].token = t
          /\ rows[j].status = "pending" /\ rows[j].expires > clock
      BY <1>1, <2>2, WaitingRows DEF PendingOf
    <3>2. Live(j)
      BY <3>1 DEF More, Fresh, Live
    <3>3. rows[j].ask # k
      BY <2>1, <3>1, <3>2 DEF Matching, AllApproved
    <3>4. subjects[j] = SubjectOf(rows[j])
      BY <3>1, Mapped DEF MapOK
    <3> QED BY <3>1, <3>3, <3>4 DEF SubjectOf, Exists
  <2>3. P!Cardinality(P!Waiting(t)) < MaxPending
    <3>1. P!Waiting(t) = PendingOf(t, clock)
      BY <1>1, WaitingRows
    <3>2. \E S : S = PendingOf(t, clock) /\ P!Cardinality(S) = Cardinality(S)
      BY SameCount
    <3> QED BY <2>1, <3>1, <3>2
  <2>4. P!Ask(n, t, k)
    BY <1>6, <1>9, <1>11, <1>12, <1>14, <2>2, <2>3 DEF P!Ask
  <2> QED BY <1>1, <1>8, <2>4
<1> QED BY <1>13, <1>14

\* The update of `consume` closes the request, once.
LEMMA ConsumeMoves ==
  ASSUME ApprovalsAssumption, Inv, More, NEW c \in Calls, pc[c] = "consuming",
         Unconsumed(found[c]), consume(found[c]), nextId' = nextId, clock' = clock,
         Others(c), found'[c] # NotFound => pc'[c] \in {"consuming", "opened", "running"},
         pc'[c] # "consuming"
  PROVE  /\ More' /\ found[c].id \in Ids /\ subjects' = subjects
         /\ subjects[found[c].id] = [token |-> TokenOf[c], ask |-> ask[c]]
         /\ stage[found[c].id] = found[c].status
         /\ P!Move({found[c].id}, IF found[c].status = "approved" THEN "used" ELSE "told")
<1> DEFINE i == found[c].id
<1>1. /\ i \in Ids /\ found[c].status \in {"approved", "denied"} /\ Exists(i)
      /\ i < nextId /\ rows[i].token = TokenOf[c] /\ rows[i].status = found[c].status
      /\ rows[i].ask = ask[c] /\ rows[i] \in ApprovalRequest
      /\ rows \in [Ids -> ApprovalRequest \cup {NoRow}]
  <2>1. Reads(c) /\ KnownBy(c) /\ Exists(i) /\ found[c] \in [id : Ids \cup {0}, status : Verdicts]
    BY DEF Inv, CallsOK, CallOK, More, Unconsumed, TypeOK
  <2>2. rows \in [Ids -> ApprovalRequest \cup {NoRow}] /\ rows[i] \in ApprovalRequest
    BY <2>1 DEF Inv, TypeOK, Reads, Exists
  <2> QED BY <2>1, <2>2 DEF Reads, KnownBy, Verdicts
<1>2. rows[i].consumed = FALSE
  BY <1>1 DEF Unconsumed, ApprovalRequest
<1>3. rows' = [rows EXCEPT ![i].consumed = TRUE]
  BY DEF consume
<1>4. /\ rows'[i] = [rows[i] EXCEPT !.consumed = TRUE]
      /\ \A j \in Ids : j # i => rows'[j] = rows[j]
  BY <1>1, <1>3
<1>5. /\ rows'[i].consumed = TRUE /\ rows'[i].status = rows[i].status
      /\ rows'[i].token = rows[i].token /\ rows'[i].ask = rows[i].ask
  BY <1>1, <1>4 DEF ApprovalRequest
<1>6. rows'[i] # NoRow
  BY <1>1, <1>5, ApprovalsAssumption DEF NoRow
<1>7. StageOf(rows[i], i < nextId, clock) = found[c].status
  BY <1>1, <1>2 DEF StageOf, Exists
<1>8. StageOf(rows'[i], i < nextId', clock') = IF found[c].status = "approved" THEN "used" ELSE "told"
  BY <1>1, <1>5, <1>6 DEF StageOf
<1>9. P!Move({i}, IF found[c].status = "approved" THEN "used" ELSE "told")
  <2>1. \A j \in Ids : StageOf(rows'[j], j < nextId', clock') =
                         IF j \in {i} THEN (IF found[c].status = "approved" THEN "used" ELSE "told")
                                      ELSE StageOf(rows[j], j < nextId, clock)
    BY <1>4, <1>8
  <2> QED BY <2>1, Mover
<1>10. subjects' = subjects
  BY <1>1, <1>4, <1>5, <1>6, SameSubjects DEF SubjectOf, Exists
<1>11. stage[i] = found[c].status /\ subjects[i] = [token |-> TokenOf[c], ask |-> ask[c]]
  BY <1>1, <1>7, Mapped DEF MapOK, SubjectOf, Exists
<1>12. More'
  <2>1. Fresh'
    <3>1. ASSUME NEW j \in Ids, rows'[j] # NoRow, rows'[j].status = "pending"
          PROVE  rows'[j].consumed = FALSE
      <4>1. j # i
        BY <1>1, <1>5, <3>1
      <4> QED BY <1>4, <3>1, <4>1 DEF More, Fresh, Exists
    <3> QED BY <3>1 DEF Fresh, Exists
  <2>2. ASSUME NEW d \in Calls, d # c PROVE KnownBy(d)'
    <3>1. KnownBy(d)
      BY DEF More
    <3>2. pc[d] = "consuming" => found[d].id \in Ids
      BY DEF Inv, CallsOK, CallOK, Reads
    <3>3. pc[d] = "consuming" /\ rows'[found[d].id] # NoRow =>
            Exists(found[d].id) /\ rows'[found[d].id].ask = rows[found[d].id].ask
      BY <1>1, <1>4, <1>5, <3>2 DEF Exists
    <3> QED BY <2>2, <3>1, <3>3 DEF KnownBy, Exists, Others
  <2>3. KnownBy(c)'
    BY DEF KnownBy
  <2> QED BY <2>1, <2>2, <2>3 DEF More
<1> QED BY <1>1, <1>9, <1>10, <1>11, <1>12

\* An approval is used up in the step that lets its call through.
LEMMA ConsumeApprovedKeeps ==
  ASSUME ApprovalsAssumption, Inv, Inv', More, NEW c \in Calls, ConsumeApproved(c)
  PROVE  More' /\ (P!End \/ \E r \in letThrough' \ letThrough : P!Release(r))
<1>1. /\ pc[c] = "consuming" /\ found[c].status = "approved" /\ consume(found[c])
      /\ nextId' = nextId /\ clock' = clock /\ ask' = ask
      /\ pc \in [Calls -> Phases] /\ found \in [Calls -> [id : Ids \cup {0}, status : Verdicts]]
  BY DEF ConsumeApproved, Inv, TypeOK
<1>2. CASE ~ Unconsumed(found[c])
  <2>1. /\ rows' = rows /\ Goto(c, "requesting") /\ found' = [found EXCEPT ![c] = NotFound]
    BY <1>1, <1>2 DEF consume, ConsumeApproved
  <2>2. Moves(c)
    BY <1>1, <2>1 DEF Moves, Others, Goto
  <2> QED BY <1>1, <2>1, <2>2, MovesEnd
<1>3. CASE Unconsumed(found[c])
  <2>1. Goto(c, "opened") /\ found' = found
    BY <1>3 DEF ConsumeApproved
  <2>2. Others(c) /\ pc'[c] = "opened"
    BY <1>1, <2>1 DEF Others, Goto
  <2>3. /\ More' /\ found[c].id \in Ids /\ subjects' = subjects
        /\ subjects[found[c].id] = [token |-> TokenOf[c], ask |-> ask[c]]
        /\ stage[found[c].id] = "approved"
        /\ P!Move({found[c].id}, "used")
    BY <1>1, <1>3, <2>2, ConsumeMoves
  <2> DEFINE r == << c, TokenOf[c], ask[c], found[c].id >>
  <2>4. found[c] # NotFound
    BY <1>1 DEF NotFound
  <2>5. \A x : x \in letThrough' <=>
          \E d \in Calls : Passed(d)' /\ x = << d, TokenOf[d], ask[d], found[d].id >>
    <3>1. \A x : x \in letThrough' <=>
            \E d \in Calls : Passed(d)' /\ x = << d, TokenOf[d], ask'[d], found'[d].id >>
      BY MappedNext DEF MapOK
    <3> QED BY <1>1, <2>1, <3>1
  <2>6. \A x : x \in letThrough <=>
          \E d \in Calls : Passed(d) /\ x = << d, TokenOf[d], ask[d], found[d].id >>
    BY Mapped DEF MapOK
  <2>7. /\ \A d \in Calls : d # c => (Passed(d)' <=> Passed(d))
        /\ Passed(c)' /\ ~ Passed(c)
    BY <1>1, <2>1, <2>2, <2>4 DEF Passed, Others
  <2>8. r \in letThrough' /\ r \notin letThrough /\ letThrough' = letThrough \cup {r}
    <3>1. r \in letThrough'
      BY <2>5, <2>7
    <3>2. \A d \in Calls : r = << d, TokenOf[d], ask[d], found[d].id >> => d = c
      OBVIOUS
    <3>3. r \notin letThrough
      BY <2>6, <2>7, <3>2
    <3>4. \A x : x \in letThrough' <=> x \in letThrough \/ x = r
      BY <2>5, <2>6, <2>7
    <3> QED BY <3>1, <3>3, <3>4
  <2>9. r[1] = c /\ r[2] = TokenOf[c] /\ r[3] = ask[c] /\ r[4] = found[c].id
    OBVIOUS
  <2> HIDE DEF r
  <2>10. P!Release(r)
    BY <2>3, <2>8, <2>9 DEF P!Release
  <2> QED BY <2>3, <2>8, <2>10
<1> QED BY <1>2, <1>3

\* A refusal is told in the step that closes the request.
LEMMA ConsumeDeniedKeeps ==
  ASSUME ApprovalsAssumption, Inv, Inv', More, NEW c \in Calls, ConsumeDenied(c)
  PROVE  More' /\ (P!End \/ \E i \in Ids : P!Tell(i))
<1>1. /\ pc[c] = "consuming" /\ found[c].status = "denied" /\ consume(found[c])
      /\ nextId' = nextId /\ clock' = clock /\ Answered(c)
  BY DEF ConsumeDenied, Held
<1>2. Others(c) /\ found'[c] = NotFound /\ pc'[c] = "idle"
  BY <1>1, AnsweredFacts DEF Answered, Forget, Inv, TypeOK
<1>3. CASE ~ Unconsumed(found[c])
  <2>1. rows' = rows
    BY <1>1, <1>3 DEF consume
  <2>2. Moves(c)
    BY <1>2 DEF Moves
  <2> QED BY <1>1, <2>1, <2>2, MovesEnd
<1>4. CASE Unconsumed(found[c])
  <2>1. /\ More' /\ found[c].id \in Ids /\ subjects' = subjects
        /\ stage[found[c].id] = "denied"
        /\ P!Move({found[c].id}, "told")
    BY <1>1, <1>2, <1>4, ConsumeMoves
  <2>2. ~ Passed(c) /\ ~ Passed(c)'
    BY <1>1, <1>2 DEF Passed
  <2>3. letThrough' = letThrough
    BY <1>2, <2>2, SameLet DEF Others, Passed
  <2> QED BY <2>1, <2>3 DEF P!Tell
<1> QED BY <1>3, <1>4

\* A restart ends every call.
LEMMA RestartKeeps ==
  ASSUME Inv, More, Restart
  PROVE  More' /\ P!End
<1>1. /\ rows' = rows /\ nextId' = nextId /\ clock' = clock
      /\ \A c \in Calls : pc'[c] = "idle" /\ found'[c] = NotFound
  BY DEF Restart, db
<1>2. letThrough' \subseteq letThrough
  BY <1>1, NobodyPasses DEF Passed
<1>3. Fresh' /\ \A c \in Calls : KnownBy(c)'
  BY <1>1 DEF More, Fresh, KnownBy, Exists
<1> QED BY <1>1, <1>2, <1>3, RowsRest DEF More, P!End

\* Every step of the gate is one of the promise, or none.
LEMMA StepKeeps ==
  ASSUME ApprovalsAssumption, Inv, Inv', More, [Next]_vars
  PROVE  More' /\ [P!PNext]_P!pvars
<1>1. ASSUME NEW c \in Calls,
             \/ GateOpen(c) \/ GateAsks(c) \/ Select(c) \/ Open(c) \/ Ran(c) \/ Count(c)
             \/ Summarize(c) \/ InsertFails(c) \/ GiveUp(c)
             \/ \E k \in Asks : Authenticate(c, k)
      PROVE  More' /\ P!End
  BY <1>1, CallMoves, MovesEnd
<1>2. ASSUME NEW c \in Calls, Insert(c) PROVE More' /\ P!PNext
  BY <1>2, InsertKeeps DEF P!PNext
<1>3. ASSUME NEW c \in Calls, ConsumeApproved(c) PROVE More' /\ P!PNext
  BY <1>3, ConsumeApprovedKeeps DEF P!PNext
<1>4. ASSUME NEW c \in Calls, ConsumeDenied(c) PROVE More' /\ P!PNext
  BY <1>4, ConsumeDeniedKeeps DEF P!PNext
<1>5. ASSUME NEW c \in Calls, Step(c) \/ GiveUp(c) \/ \E k \in Asks : Authenticate(c, k)
      PROVE  More' /\ P!PNext
  BY <1>1, <1>2, <1>3, <1>4, <1>5 DEF Step, P!PNext
<1>6. ASSUME NEW p \in People, Record(p)
      PROVE  More' /\ [P!PNext]_P!pvars
  <2>1. deciding[p].id \in Ids /\ deciding[p].verdict \in {"approved", "denied"}
    BY <1>6, RecordFacts
  <2> QED BY <1>6, <2>1, RecordKeeps DEF P!PNext
<1>7. ASSUME NEW S, S \subseteq Ids, \A i \in S : Exists(i), Deleted(S), nextId' = nextId,
             clock' = clock, UNCHANGED << pc, local >>
      PROVE  More' /\ P!PNext
  <2>1. More' /\ P!Discard(S)
    BY <1>7, DeletedKeeps
  <2> QED BY <1>7, <2>1 DEF P!PNext
<1>8. ASSUME NEW m \in Mcps, DeleteMcp(m) PROVE More' /\ P!PNext
  BY <1>7, <1>8 DEF DeleteMcp
<1>9. ASSUME NEW t \in Tokens, DeleteToken(t) PROVE More' /\ P!PNext
  BY <1>7, <1>9 DEF DeleteToken
<1>10. ASSUME prune_expired PROVE More' /\ P!PNext
  BY <1>7, <1>10 DEF prune_expired
<1>11. ASSUME Tick PROVE More' /\ P!PNext
  BY <1>11, TickKeeps DEF P!PNext
<1>12. ASSUME Restart PROVE More' /\ P!PNext
  BY <1>12, RestartKeeps DEF P!PNext
<1>13. ASSUME \/ UNCHANGED vars
              \/ \E m \in Mcps : \E choice \in {"auto", "ask"} : Choose(m, choice)
              \/ \E p \in People :
                   \/ Abandon(p)
                   \/ \E i \in Ids, v \in {"approved", "denied"} : Decide(p, i, v)
       PROVE  More' /\ UNCHANGED P!pvars
  <2>1. UNCHANGED << db, clock, pc, local >>
    BY <1>13 DEF vars, Choose, Abandon, Decide
  <2> QED BY <2>1, RestKeeps
<1> QED BY <1>5, <1>6, <1>8, <1>9, <1>10, <1>11, <1>12, <1>13 DEF Next

\* It starts where the promise starts.
LEMMA StartKeeps ==
  ASSUME ApprovalsAssumption, Init
  PROVE  More /\ P!PInit
<1>1. /\ \A i \in Ids : ~ (i < nextId) /\ rows[i] = NoRow
      /\ \A c \in Calls : pc[c] = "idle" /\ found[c] = NotFound
  BY DEF Init, Ids, ApprovalsAssumption
<1>2. stage = [i \in Ids |-> "none"]
  BY <1>1 DEF stage, StageOf
<1>3. subjects = [i \in Ids |-> None]
  BY <1>1 DEF subjects, Exists
<1>4. letThrough = {}
  BY <1>1 DEF letThrough
<1>5. More
  BY <1>1 DEF More, Fresh, KnownBy, Exists
<1> QED BY <1>2, <1>3, <1>4, <1>5 DEF P!PInit

\* The gate implements ApprovalPromise: a tool that asks runs only by using up
\* an approval for that very call, no request is asked twice or past the limit,
\* and what was decided, told, used or deleted stays so.
THEOREM GateKeepsPromise == Spec => KeepsPromise
<1>1. Init => More /\ P!PInit
  BY ApprovalsAssumption, StartKeeps
<1>2. Inv /\ Inv' /\ More /\ [Next]_vars => More' /\ [P!PNext]_P!pvars
  BY ApprovalsAssumption, StepKeeps
<1> QED BY <1>1, <1>2, SpecInv, PTL DEF Spec, KeepsPromise, P!PSpec
=============================================================================
