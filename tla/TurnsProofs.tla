----------------------------- MODULE TurnsProofs -----------------------------
(***************************************************************************)
(* For any tokens, calls and lines: `in_turn` gives the turn of a token to *)
(* one call at a time, and the map of locks is the FIFO line of module     *)
(* TokenLine.                                                              *)
(***************************************************************************)
EXTENDS Turns, FiniteSetTheorems, TLAPS

\* No line serves two tokens.
LinesApart ==
  \A t, u \in Tokens : turns[t] = turns[u] /\ turns[t] # NoLine => t = u

\* A line a call holds is mapped for the token of the call, or not at all.
HeldIsOwn ==
  \A c \in Calls, t \in Tokens :
    held[c] # NoLine /\ turns[t] = held[c] => t = TokenOf[c]

\* A lock is asked for, once, by calls that hold its line.
QueueHolds ==
  \A l \in Lines :
    /\ \A i \in 1..Len(queue[l]) : pc[queue[l][i]] = "locking" /\ held[queue[l][i]] = l
    /\ \A i, j \in 1..Len(queue[l]) : queue[l][i] = queue[l][j] => i = j

\* The inductive invariant.
Inv == TypeOK /\ LineInUseIsMapped /\ LinesApart /\ HeldIsOwn /\ QueueHolds

-----------------------------------------------------------------------------

\* What is left of a queue without one place: its members, in their order.
LEMMA WithoutFacts ==
  ASSUME NEW S, NEW q \in Seq(S), NEW i \in 1..Len(q)
  PROVE  /\ TL!Without(q, i) \in Seq(S)
         /\ Len(TL!Without(q, i)) = Len(q) - 1
         /\ \A j \in 1..(Len(q) - 1) :
              TL!Without(q, i)[j] = IF j < i THEN q[j] ELSE q[j + 1]
<1> DEFINE w == TL!Without(q, i)
<1>1. Len(q) - 1 \in Nat
  OBVIOUS
<1>2. \A j \in 1..(Len(q) - 1) : w[j] = IF j < i THEN q[j] ELSE q[j + 1]
  BY DEF TL!Without
<1>3. \A j \in 1..(Len(q) - 1) : w[j] \in S
  BY <1>2
<1>4. w \in Seq(S) /\ Len(w) = Len(q) - 1
  BY <1>1, <1>3 DEF TL!Without
<1> QED
  BY <1>2, <1>4

\* A count of two, when the map holds the line and c does, leaves nobody else.
LEMMA CountOfTwo ==
  ASSUME TurnsAssumption, NEW c \in Calls, NEW d \in Calls,
         turns[TokenOf[c]] = held[c], held[d] = held[c],
         strong_count(held[c]) = 2
  PROVE  d = c
<1> DEFINE T == {t \in Tokens : turns[t] = held[c]}
           H == {e \in Calls : held[e] = held[c]}
<1>1. IsFiniteSet(T) /\ IsFiniteSet(H)
  BY FS_Subset DEF TurnsAssumption
<1>2. Cardinality(T) \in Nat /\ Cardinality(H) \in Nat
  BY <1>1, FS_CardinalityType
<1>3. Cardinality(T) >= 1
  <2>1. TokenOf[c] \in T
    BY DEF TurnsAssumption
  <2>2. Cardinality(T) # 0
    BY <1>1, <2>1, FS_EmptySet
  <2> QED
    BY <1>2, <2>2
<1>4. Cardinality(T) + Cardinality(H) = 2
  BY DEF strong_count
<1>5. ASSUME d # c PROVE FALSE
  <2>1. {c, d} \subseteq H
    OBVIOUS
  <2>2. IsFiniteSet({c}) /\ Cardinality({c}) = 1
    BY FS_Singleton
  <2>3. Cardinality({c} \cup {d}) = 2
    <3>1. d \notin {c}
      BY <1>5
    <3>2. Cardinality({c} \cup {d}) = IF d \in {c} THEN Cardinality({c}) ELSE Cardinality({c}) + 1
      BY <2>2, FS_AddElement
    <3> QED
      BY <2>2, <3>1, <3>2
  <2>4. {c, d} = {c} \cup {d}
    OBVIOUS
  <2>5. Cardinality({c, d}) <= Cardinality(H)
    BY <1>1, <2>1, FS_Subset
  <2> QED
    BY <1>2, <1>3, <1>4, <2>3, <2>4, <2>5
<1> QED
  BY <1>5

\* The invariant holds before any call came.
LEMMA InitInv == TurnsAssumption /\ Init => Inv
<1> SUFFICES ASSUME TurnsAssumption, Init PROVE Inv
  OBVIOUS
<1>1. TypeOK
  BY DEF Init, TypeOK, Phases, TurnsAssumption
<1>2. LineInUseIsMapped /\ LinesApart /\ HeldIsOwn /\ QueueHolds
  BY DEF Init, LineInUseIsMapped, LinesApart, HeldIsOwn, QueueHolds, TurnsAssumption
<1> QED
  BY <1>1, <1>2 DEF Inv

\* Joining shares the line the map holds, or maps a free one.
LEMMA JoinInv ==
  ASSUME TurnsAssumption, Inv, NEW c \in Calls, Join(c)
  PROVE  Inv'
<1> USE DEF TurnsAssumption
<1>1. PICK l \in Lines :
        /\ IF turns[TokenOf[c]] = NoLine THEN Free(l) ELSE l = turns[TokenOf[c]]
        /\ turns' = [turns EXCEPT ![TokenOf[c]] = l]
        /\ held' = [held EXCEPT ![c] = l]
  BY DEF Join
<1>2. pc' = [pc EXCEPT ![c] = "joined"] /\ queue' = queue /\ pc[c] = "outside"
  BY DEF Join
<1>3. TypeOK'
  BY <1>1, <1>2 DEF Inv, TypeOK, Phases
<1>4. LineInUseIsMapped'
  BY <1>1, <1>2 DEF Inv, TypeOK, LineInUseIsMapped, Free
<1>5. LinesApart'
  BY <1>1, <1>2 DEF Inv, TypeOK, LinesApart, Free
<1>6. HeldIsOwn'
  BY <1>1, <1>2 DEF Inv, TypeOK, HeldIsOwn, LinesApart, Free
<1>7. QueueHolds'
  BY <1>1, <1>2 DEF Inv, TypeOK, QueueHolds
<1> QED
  BY <1>3, <1>4, <1>5, <1>6, <1>7 DEF Inv

\* Asking for the lock adds the call to the line the map holds.
LEMMA LockInv ==
  ASSUME TurnsAssumption, Inv, NEW c \in Calls, Lock(c)
  PROVE  Inv'
<1> USE DEF TurnsAssumption
<1> DEFINE l == held[c]
<1>1. /\ l \in Lines /\ queue[l] \in Seq(Calls)
      /\ pc[c] = "joined"
      /\ pc' = [pc EXCEPT ![c] = "locking"]
      /\ queue' = [queue EXCEPT ![l] = Append(@, c)]
      /\ turns' = turns /\ held' = held
  BY DEF Lock, Inv, TypeOK
<1>2. TypeOK'
  BY <1>1 DEF Inv, TypeOK, Phases
<1>3. LineInUseIsMapped' /\ LinesApart' /\ HeldIsOwn'
  BY <1>1 DEF Inv, TypeOK, LineInUseIsMapped, LinesApart, HeldIsOwn
<1>4. QueueHolds'
  <2>1. ASSUME NEW m \in Lines, m # l
        PROVE  queue'[m] = queue[m]
    BY <1>1, <2>1 DEF Inv, TypeOK
  <2>2. queue'[l] = Append(queue[l], c)
    BY <1>1 DEF Inv, TypeOK
  <2>3. \A i \in 1..Len(queue[l]) : queue[l][i] # c
    BY <1>1 DEF Inv, QueueHolds
  <2>4. ASSUME NEW m \in Lines, m # l
        PROVE  /\ \A i \in 1..Len(queue'[m]) : pc'[queue'[m][i]] = "locking" /\ held'[queue'[m][i]] = m
               /\ \A i, j \in 1..Len(queue'[m]) : queue'[m][i] = queue'[m][j] => i = j
    BY <1>1, <2>1, <2>4 DEF Inv, TypeOK, QueueHolds
  <2>5. /\ \A i \in 1..Len(queue'[l]) : pc'[queue'[l][i]] = "locking" /\ held'[queue'[l][i]] = l
        /\ \A i, j \in 1..Len(queue'[l]) : queue'[l][i] = queue'[l][j] => i = j
    BY <1>1, <2>2, <2>3 DEF Inv, TypeOK, QueueHolds
  <2> QED
    BY <2>4, <2>5 DEF QueueHolds
<1> QED
  BY <1>2, <1>3, <1>4 DEF Inv

\* A call that gives its place up leaves the others their order.
LEMMA UnlockInv ==
  ASSUME TurnsAssumption, Inv, NEW c \in Calls, pc[c] = "locking", Unlock(c)
  PROVE  Inv'
<1> USE DEF TurnsAssumption
<1> DEFINE l == held[c]
<1>1. /\ l \in Lines /\ queue[l] \in Seq(Calls)
      /\ pc' = [pc EXCEPT ![c] = "unlocked"]
      /\ turns' = turns /\ held' = held
  BY DEF Unlock, Inv, TypeOK
<1>2. PICK i \in 1..Len(queue[l]) :
        /\ queue[l][i] = c
        /\ queue' = [queue EXCEPT ![l] = TL!Without(@, i)]
  BY DEF Unlock
<1> DEFINE w == TL!Without(queue[l], i)
<1>3. /\ w \in Seq(Calls) /\ Len(w) = Len(queue[l]) - 1
      /\ \A j \in 1..(Len(queue[l]) - 1) : w[j] = IF j < i THEN queue[l][j] ELSE queue[l][j + 1]
  BY <1>1, WithoutFacts
<1> HIDE DEF w
<1>4. queue'[l] = w /\ \A m \in Lines : m # l => queue'[m] = queue[m]
  BY <1>1, <1>2 DEF Inv, TypeOK, w
<1>5. TypeOK'
  <2>1. queue' \in [Lines -> Seq(Calls)]
    BY <1>1, <1>2, <1>3 DEF Inv, TypeOK, w
  <2> QED
    BY <1>1, <2>1 DEF Inv, TypeOK, Phases
<1>6. LineInUseIsMapped' /\ LinesApart' /\ HeldIsOwn'
  BY <1>1 DEF Inv, TypeOK, LineInUseIsMapped, LinesApart, HeldIsOwn
<1>7. QueueHolds'
  <2>1. ASSUME NEW m \in Lines, m # l
        PROVE  /\ \A j \in 1..Len(queue'[m]) : pc'[queue'[m][j]] = "locking" /\ held'[queue'[m][j]] = m
               /\ \A j, k \in 1..Len(queue'[m]) : queue'[m][j] = queue'[m][k] => j = k
    BY <1>1, <1>4, <2>1 DEF Inv, TypeOK, QueueHolds
  <2> DEFINE q == queue[l]
             from(j) == IF j < i THEN j ELSE j + 1
  <2>a. q \in Seq(Calls) /\ i \in 1..Len(q) /\ q[i] = c
    BY <1>1, <1>2
  <2>b. /\ \A j \in 1..Len(q) : q[j] \in Calls /\ pc[q[j]] = "locking" /\ held[q[j]] = l
        /\ \A j, k \in 1..Len(q) : q[j] = q[k] => j = k
    BY <1>1 DEF Inv, QueueHolds
  <2>c. \A j \in 1..Len(w) : from(j) \in 1..Len(q) /\ from(j) # i /\ w[j] = q[from(j)]
    BY <1>3, <2>a
  <2>d. \A j, k \in 1..Len(w) : from(j) = from(k) => j = k
    BY <1>3, <2>a
  <2> HIDE DEF q, from
  <2>2. \A j \in 1..Len(w) : w[j] # c /\ w[j] \in Calls /\ pc[w[j]] = "locking" /\ held[w[j]] = l
    BY <2>a, <2>b, <2>c
  <2>3. \A j, k \in 1..Len(w) : w[j] = w[k] => j = k
    BY <2>b, <2>c, <2>d
  <2>4. /\ \A j \in 1..Len(queue'[l]) : pc'[queue'[l][j]] = "locking" /\ held'[queue'[l][j]] = l
        /\ \A j, k \in 1..Len(queue'[l]) : queue'[l][j] = queue'[l][k] => j = k
    BY <1>1, <1>4, <2>2, <2>3 DEF Inv, TypeOK
  <2> QED
    BY <2>1, <2>4 DEF QueueHolds
<1> QED
  BY <1>5, <1>6, <1>7 DEF Inv

\* The map entry goes only when the leaving call is its last user.
LEMMA LeaveInv ==
  ASSUME TurnsAssumption, Inv, NEW c \in Calls, Leave(c)
  PROVE  Inv'
<1> USE DEF TurnsAssumption
<1>1. /\ pc[c] = "unlocked"
      /\ pc' = [pc EXCEPT ![c] = "dropping"]
      /\ held' = held /\ queue' = queue
      /\ turns' = IF strong_count(held[c]) = 2
                    THEN [turns EXCEPT ![TokenOf[c]] = NoLine] ELSE turns
  BY DEF Leave
<1>2. turns[TokenOf[c]] = held[c]
  BY <1>1 DEF Inv, LineInUseIsMapped
<1>3. TypeOK' /\ LinesApart' /\ HeldIsOwn' /\ QueueHolds'
  BY <1>1 DEF Inv, TypeOK, Phases, LinesApart, HeldIsOwn, QueueHolds
<1>4. LineInUseIsMapped'
  <2>1. CASE strong_count(held[c]) = 2
    <3>1. SUFFICES ASSUME NEW d \in Calls,
                          pc'[d] \in {"joined", "locking", "unlocked"}
                   PROVE  turns'[TokenOf[d]] = held'[d]
      BY DEF LineInUseIsMapped
    <3>2. d # c /\ pc[d] \in {"joined", "locking", "unlocked"}
      BY <1>1, <3>1 DEF Inv, TypeOK
    <3>3. turns[TokenOf[d]] = held[d]
      BY <3>2 DEF Inv, LineInUseIsMapped
    <3>4. held[d] # held[c]
      BY <1>2, <2>1, <3>2, CountOfTwo
    <3> QED
      BY <1>1, <1>2, <2>1, <3>3, <3>4 DEF Inv, TypeOK
  <2>2. CASE strong_count(held[c]) # 2
    BY <1>1, <2>2 DEF Inv, TypeOK, LineInUseIsMapped
  <2> QED
    BY <2>1, <2>2
<1> QED
  BY <1>3, <1>4 DEF Inv

\* Dropping an Arc that is in no queue changes nothing for the others.
LEMMA DropArcInv ==
  ASSUME TurnsAssumption, Inv, NEW c \in Calls, DropArc(c)
  PROVE  Inv'
<1> USE DEF TurnsAssumption
<1>1. /\ pc[c] = "dropping"
      /\ held' = [held EXCEPT ![c] = NoLine]
      /\ pc' = [pc EXCEPT ![c] = "outside"]
      /\ turns' = turns /\ queue' = queue
  BY DEF DropArc
<1>2. TypeOK'
  BY <1>1 DEF Inv, TypeOK, Phases
<1>3. LineInUseIsMapped' /\ LinesApart' /\ HeldIsOwn'
  BY <1>1 DEF Inv, TypeOK, LineInUseIsMapped, LinesApart, HeldIsOwn
<1>4. QueueHolds'
  BY <1>1 DEF Inv, TypeOK, QueueHolds
<1> QED
  BY <1>2, <1>3, <1>4 DEF Inv

\* The invariant is a predicate of the variables.
LEMMA StutterInv == Inv /\ UNCHANGED vars => Inv'
<1> SUFFICES ASSUME Inv, turns' = turns, held' = held, queue' = queue, pc' = pc
             PROVE  Inv'
  BY DEF vars
<1>1. TypeOK'
  BY DEF Inv, TypeOK
<1>2. LineInUseIsMapped' /\ LinesApart' /\ HeldIsOwn'
  BY DEF Inv, LineInUseIsMapped, LinesApart, HeldIsOwn
<1>3. QueueHolds'
  BY DEF Inv, QueueHolds
<1> QED
  BY <1>1, <1>2, <1>3 DEF Inv

\* Every step of every call preserves the invariant.
LEMMA NextInv == TurnsAssumption /\ Inv /\ [Next]_vars => Inv'
<1> SUFFICES ASSUME TurnsAssumption, Inv, [Next]_vars PROVE Inv'
  OBVIOUS
<1>1. ASSUME NEW c \in Calls, Join(c) PROVE Inv'
  BY <1>1, JoinInv
<1>2. ASSUME NEW c \in Calls, Lock(c) PROVE Inv'
  BY <1>2, LockInv
<1>3. ASSUME NEW c \in Calls, Finish(c) \/ GiveUp(c) PROVE Inv'
  BY <1>3, UnlockInv DEF Finish, GiveUp, HasTurn
<1>4. ASSUME NEW c \in Calls, Leave(c) PROVE Inv'
  BY <1>4, LeaveInv
<1>5. ASSUME NEW c \in Calls, DropArc(c) PROVE Inv'
  BY <1>5, DropArcInv
<1> QED
  BY <1>1, <1>2, <1>3, <1>4, <1>5, StutterInv DEF Next, Step

\* The inductive invariant holds of every reachable state of `in_turn`.
LEMMA SpecInv == Spec => []Inv
<1>1. Init => Inv
  BY TurnsAssumption, InitInv
<1>2. Inv /\ [Next]_vars => Inv'
  BY TurnsAssumption, NextInv
<1> QED
  BY <1>1, <1>2, PTL DEF Spec

-----------------------------------------------------------------------------

\* Every variable of `in_turn` keeps its type, and a call holds an Arc exactly
\* while it is inside.
THEOREM TypeCorrect == Spec => []TypeOK
<1>1. Inv => TypeOK
  BY DEF Inv
<1> QED
  BY <1>1, SpecInv, PTL

\* The map entry of a token is never removed under a call that is in its line.
THEOREM LineStaysMapped == Spec => []LineInUseIsMapped
<1>1. Inv => LineInUseIsMapped
  BY DEF Inv
<1> QED
  BY <1>1, SpecInv, PTL

\* `in_turn` is mutual exclusion per access token, for any number of calls,
\* tokens and lines, and whatever order they join, give up and drop in.
THEOREM MutualExclusion == Spec => []OneTurnPerToken
<1>1. Inv => OneTurnPerToken
  <2> SUFFICES ASSUME Inv, NEW c \in Calls, NEW d \in Calls,
                      TokenOf[c] = TokenOf[d], HasTurn(c), HasTurn(d)
               PROVE  c = d
    BY DEF OneTurnPerToken
  <2>1. held[c] = held[d]
    BY DEF Inv, LineInUseIsMapped, HasTurn
  <2> QED
    BY <2>1 DEF HasTurn, TL!HeadIs
<1> QED
  BY <1>1, SpecInv, PTL

-----------------------------------------------------------------------------
(***************************************************************************)
(* The map of locks implements the line of module TokenLine                *)
(***************************************************************************)

\* A queue nobody holds the line of is empty.
LEMMA EmptyWhenUnheld ==
  ASSUME Inv, NEW l \in Lines, \A d \in Calls : pc[d] = "locking" => held[d] # l
  PROVE  queue[l] = << >>
<1>1. queue[l] \in Seq(Calls)
  BY DEF Inv, TypeOK
<1>2. \A i \in 1..Len(queue[l]) : FALSE
  BY <1>1 DEF Inv, QueueHolds
<1>3. Len(queue[l]) = 0
  BY <1>1, <1>2
<1> QED
  BY <1>1, <1>3

\* Seen through the map, joining is a stutter: the line is still empty.
LEMMA JoinLine ==
  ASSUME TurnsAssumption, Inv, NEW c \in Calls, Join(c)
  PROVE  lineOf' = lineOf
<1> USE DEF TurnsAssumption
<1>1. PICK l \in Lines :
        /\ IF turns[TokenOf[c]] = NoLine THEN Free(l) ELSE l = turns[TokenOf[c]]
        /\ turns' = [turns EXCEPT ![TokenOf[c]] = l]
  BY DEF Join
<1>2. queue' = queue
  BY DEF Join
<1>3. turns[TokenOf[c]] = NoLine => queue[l] = << >>
  BY <1>1, EmptyWhenUnheld DEF Free
<1>4. \A t \in Tokens : (IF turns'[t] = NoLine THEN << >> ELSE queue'[turns'[t]])
                          = (IF turns[t] = NoLine THEN << >> ELSE queue[turns[t]])
  BY <1>1, <1>2, <1>3 DEF Inv, TypeOK
<1> QED
  BY <1>4 DEF lineOf

\* Seen through the map, asking for the lock takes the last place.
LEMMA LockLine ==
  ASSUME TurnsAssumption, Inv, NEW c \in Calls, Lock(c)
  PROVE  TL!EnterLine(c)
<1> USE DEF TurnsAssumption
<1> DEFINE l == held[c]  u == TokenOf[c]
<1>1. /\ l \in Lines /\ u \in Tokens /\ turns[u] = l /\ pc[c] = "joined"
      /\ queue[l] \in Seq(Calls)
      /\ queue' = [queue EXCEPT ![l] = Append(@, c)] /\ turns' = turns
  BY DEF Lock, Inv, TypeOK, LineInUseIsMapped
<1>2. lineOf[u] = queue[l]
  BY <1>1 DEF lineOf
<1>3. \A t \in Tokens : t # u => turns[t] # l
  BY <1>1 DEF Inv, LinesApart
<1>4. ~ TL!Stands(c, lineOf[u])
  BY <1>1, <1>2 DEF TL!Stands, Inv, QueueHolds
<1>5. \A t \in Tokens : t # u => lineOf'[t] = lineOf[t]
  BY <1>1, <1>3 DEF lineOf, Inv, TypeOK
<1>6. lineOf'[u] = Append(lineOf[u], c)
  BY <1>1, <1>2 DEF lineOf, Inv, TypeOK
<1>7. lineOf' = [lineOf EXCEPT ![u] = Append(@, c)]
  <2>1. /\ lineOf' = [t \in Tokens |-> lineOf'[t]]
        /\ lineOf = [t \in Tokens |-> lineOf[t]]
    BY Zenon DEF lineOf
  <2> QED
    BY <1>1, <1>5, <1>6, <2>1
<1> QED
  BY <1>4, <1>7 DEF TL!EnterLine

\* Seen through the map, giving the lock up leaves the line.
LEMMA UnlockLine ==
  ASSUME TurnsAssumption, Inv, NEW c \in Calls, pc[c] = "locking", Unlock(c)
  PROVE  TL!LeaveLine(c)
<1> USE DEF TurnsAssumption
<1> DEFINE l == held[c]  u == TokenOf[c]
<1>1. /\ l \in Lines /\ u \in Tokens /\ turns[u] = l
      /\ turns' = turns
  BY DEF Unlock, Inv, TypeOK, LineInUseIsMapped
<1>2. PICK i \in 1..Len(queue[l]) :
        queue[l][i] = c /\ queue' = [queue EXCEPT ![l] = TL!Without(@, i)]
  BY DEF Unlock
<1>3. lineOf[u] = queue[l]
  BY <1>1 DEF lineOf
<1>4. \A t \in Tokens : t # u => turns[t] # l
  BY <1>1 DEF Inv, LinesApart
<1>5. \A t \in Tokens : t # u => lineOf'[t] = lineOf[t]
  BY <1>1, <1>2, <1>4 DEF lineOf, Inv, TypeOK
<1>6. lineOf'[u] = TL!Without(lineOf[u], i)
  BY <1>1, <1>2, <1>3 DEF lineOf, Inv, TypeOK
<1>7. lineOf' = [lineOf EXCEPT ![u] = TL!Without(@, i)]
  BY <1>1, <1>5, <1>6 DEF lineOf
<1> QED
  BY <1>2, <1>3, <1>7 DEF TL!LeaveLine

\* Seen through the map, an entry that is removed was an empty line.
LEMMA LeaveKeepsLine ==
  ASSUME TurnsAssumption, Inv, NEW c \in Calls, Leave(c)
  PROVE  lineOf' = lineOf
<1> USE DEF TurnsAssumption
<1>1. /\ pc[c] = "unlocked" /\ queue' = queue
      /\ turns' = IF strong_count(held[c]) = 2
                    THEN [turns EXCEPT ![TokenOf[c]] = NoLine] ELSE turns
  BY DEF Leave
<1>2. turns[TokenOf[c]] = held[c] /\ held[c] \in Lines
  BY <1>1 DEF Inv, TypeOK, LineInUseIsMapped
<1>3. CASE strong_count(held[c]) = 2
  <2>1. \A d \in Calls : pc[d] = "locking" => held[d] # held[c]
    BY <1>1, <1>2, <1>3, CountOfTwo
  <2>2. queue[held[c]] = << >>
    BY <1>2, <2>1, EmptyWhenUnheld
  <2>3. \A t \in Tokens : (IF turns'[t] = NoLine THEN << >> ELSE queue'[turns'[t]])
                            = (IF turns[t] = NoLine THEN << >> ELSE queue[turns[t]])
    BY <1>1, <1>2, <1>3, <2>2 DEF Inv, TypeOK
  <2> QED
    BY <2>3 DEF lineOf
<1>4. CASE strong_count(held[c]) # 2
  BY <1>1, <1>4 DEF lineOf
<1> QED
  BY <1>3, <1>4

\* Seen through its map, `in_turn` is the FIFO line that module Approvals takes
\* for granted: every step enters the line at its end, leaves it, or does not
\* change it.
THEOREM TurnsImplementLine == Spec => KeepsLine
<1>1. Init => TL!LineInit
  BY DEF Init, TL!LineInit, lineOf
<1>2. Inv /\ [Next]_vars => [TL!LineNext \/ TL!Emptied]_lineOf
  <2> SUFFICES ASSUME Inv, [Next]_vars
               PROVE  TL!LineNext \/ UNCHANGED lineOf
    OBVIOUS
  <2> USE TurnsAssumption
  <2>1. ASSUME NEW c \in Calls, Join(c) PROVE UNCHANGED lineOf
    BY <2>1, JoinLine
  <2>2. ASSUME NEW c \in Calls, Lock(c) PROVE TL!LineNext
    BY <2>2, LockLine DEF TL!LineNext
  <2>3. ASSUME NEW c \in Calls, Finish(c) \/ GiveUp(c) PROVE TL!LineNext
    BY <2>3, UnlockLine DEF TL!LineNext, Finish, GiveUp, HasTurn
  <2>4. ASSUME NEW c \in Calls, Leave(c) PROVE UNCHANGED lineOf
    BY <2>4, LeaveKeepsLine
  <2>5. ASSUME NEW c \in Calls, DropArc(c) PROVE UNCHANGED lineOf
    BY <2>5 DEF DropArc, lineOf
  <2>6. CASE UNCHANGED vars
    BY <2>6 DEF vars, lineOf
  <2> QED
    BY <2>1, <2>2, <2>3, <2>4, <2>5, <2>6 DEF Next, Step
<1> QED
  BY <1>1, <1>2, SpecInv, PTL DEF Spec, KeepsLine, TL!LineSpec
=============================================================================
