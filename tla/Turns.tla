-------------------------------- MODULE Turns --------------------------------
(***************************************************************************)
(* How `in_turn` keeps the line of an access token.  A map, under a mutex, *)
(* holds one reference-counted FIFO lock (`Arc<tokio::sync::Mutex<()>>`)   *)
(* per token with calls at the gate.  A call joins by cloning the Arc of   *)
(* its token, waits for the lock, runs its task, drops the lock guard and  *)
(* then its `Queued`: the body of `drop` removes the map entry when the    *)
(* count is two, and only after that body, and outside the map's mutex,    *)
(* does the compiler drop the Arc the call itself held.  Each of these is  *)
(* a step of its own, because tasks run on several threads.                *)
(***************************************************************************)
EXTENDS Naturals, Sequences, FiniteSets

CONSTANTS Tokens, Calls, TokenOf,
          Lines,    \* the allocations an `Arc` of a line can live in
          NoLine

ASSUME TurnsAssumption ==
  /\ IsFiniteSet(Tokens) /\ IsFiniteSet(Calls)
  /\ TokenOf \in [Calls -> Tokens]
  /\ NoLine \notin Lines

VARIABLES turns,    \* turns[t]: the line the map holds for t, or NoLine
          held,     \* held[c]: the line whose Arc the `Queued` of c holds
          queue,    \* queue[l]: who asked for the lock of l, the owner first
          pc        \* where each call is in `in_turn`

vars == << turns, held, queue, pc >>

Phases == {"outside", "joined", "locking", "unlocked", "dropping"}

-----------------------------------------------------------------------------

\* The line as its users see it (module TokenLine).
lineOf == [t \in Tokens |->
             IF turns[t] = NoLine THEN << >> ELSE queue[turns[t]]]

TL == INSTANCE TokenLine WITH line <- lineOf

\* `Arc::strong_count`: the map's clone and one for each call that holds it.
strong_count(l) ==
  Cardinality({t \in Tokens : turns[t] = l}) + Cardinality({c \in Calls : held[c] = l})

\* Freed memory, which a new Arc may use again.
Free(l) == /\ \A t \in Tokens : turns[t] # l
           /\ \A c \in Calls : held[c] # l

\* The lock is the call's.
HasTurn(c) == pc[c] = "locking" /\ TL!HeadIs(queue[held[c]], c)

Init ==
  /\ turns = [t \in Tokens |-> NoLine]
  /\ held = [c \in Calls |-> NoLine]
  /\ queue = [l \in Lines |-> << >>]
  /\ pc = [c \in Calls |-> "outside"]

\* `Queued::join`, under the map's mutex: clone the entry, made when absent.
Join(c) ==
  /\ pc[c] = "outside"
  /\ \E l \in Lines :
       /\ IF turns[TokenOf[c]] = NoLine THEN Free(l) ELSE l = turns[TokenOf[c]]
       /\ turns' = [turns EXCEPT ![TokenOf[c]] = l]
       /\ held' = [held EXCEPT ![c] = l]
  /\ pc' = [pc EXCEPT ![c] = "joined"]
  /\ UNCHANGED queue

\* A mutant of Lock: the lock is not fair, the last to ask is served first.
LockUnfair(c) ==
  /\ pc[c] = "joined"
  /\ queue' = [queue EXCEPT ![held[c]] = << c >> \o @]
  /\ pc' = [pc EXCEPT ![c] = "locking"]
  /\ UNCHANGED << turns, held >>

\* The first poll of `line.lock()`: the call has its place, which is the turn
\* itself when nobody is before it.
Lock(c) ==
  /\ pc[c] = "joined"
  /\ queue' = [queue EXCEPT ![held[c]] = Append(@, c)]
  /\ pc' = [pc EXCEPT ![c] = "locking"]
  /\ UNCHANGED << turns, held >>

\* The guard, or the future still waiting for it, is dropped.
Unlock(c) ==
  /\ \E i \in 1..Len(queue[held[c]]) :
       /\ queue[held[c]][i] = c
       /\ queue' = [queue EXCEPT ![held[c]] = TL!Without(@, i)]
  /\ pc' = [pc EXCEPT ![c] = "unlocked"]
  /\ UNCHANGED << turns, held >>

\* The task of the call ended.
Finish(c) == HasTurn(c) /\ Unlock(c)

\* The caller went away: the future is dropped at the await it is at, with
\* the turn or without it.
GiveUp(c) == pc[c] = "locking" /\ Unlock(c)

\* A mutant of Leave: whoever leaves removes the line.
LeaveRemoves(c) ==
  /\ pc[c] = "unlocked"
  /\ turns' = [turns EXCEPT ![TokenOf[c]] = NoLine]
  /\ pc' = [pc EXCEPT ![c] = "dropping"]
  /\ UNCHANGED << held, queue >>

\* The body of `Queued::drop`, under the map's mutex.
Leave(c) ==
  /\ pc[c] = "unlocked"
  /\ turns' = IF strong_count(held[c]) = 2
                THEN [turns EXCEPT ![TokenOf[c]] = NoLine] ELSE turns
  /\ pc' = [pc EXCEPT ![c] = "dropping"]
  /\ UNCHANGED << held, queue >>

\* A mutant of DropArc: the Arc leaks.
DropArcLeaks(c) ==
  /\ pc[c] = "dropping"
  /\ pc' = [pc EXCEPT ![c] = "outside"]
  /\ UNCHANGED << turns, held, queue >>

\* The drop glue after that body: the field `line` goes.
DropArc(c) ==
  /\ pc[c] = "dropping"
  /\ held' = [held EXCEPT ![c] = NoLine]
  /\ pc' = [pc EXCEPT ![c] = "outside"]
  /\ UNCHANGED << turns, queue >>

\* What the runtime does by itself once a call is in `in_turn`.
Step(c) == Lock(c) \/ Finish(c) \/ Leave(c) \/ DropArc(c)

Next == \E c \in Calls : Join(c) \/ GiveUp(c) \/ Step(c)

\* The executor polls every ready task, and a task at the gate ends: its
\* statements and its probe of the MCP have time limits.
Spec == Init /\ [][Next]_vars /\ \A c \in Calls : WF_vars(Step(c))

-----------------------------------------------------------------------------
(***************************************************************************)
(* Properties                                                              *)
(***************************************************************************)

\* Every variable has its type, and a call holds an Arc exactly while it is in
\* `in_turn`.
TypeOK ==
  /\ turns \in [Tokens -> Lines \cup {NoLine}]
  /\ held \in [Calls -> Lines \cup {NoLine}]
  /\ queue \in [Lines -> Seq(Calls)]
  /\ pc \in [Calls -> Phases]
  /\ \A c \in Calls : pc[c] = "outside" <=> held[c] = NoLine

\* in_turn: "Run `task` once the earlier tasks of the same access token have
\* finished."  Two calls of one token never have the turn together, whatever
\* calls join, leave and remove the map entry around them.
OneTurnPerToken ==
  \A c, d \in Calls :
    TokenOf[c] = TokenOf[d] /\ HasTurn(c) /\ HasTurn(d) => c = d

\* Queued::drop: "A call joins the line while holding the lock taken above, so
\* the count cannot grow under this check."  An entry is never removed under a
\* call that has not finished with it: all the calls of a token that are in
\* the line share the one line the map knows.
LineInUseIsMapped ==
  \A c \in Calls :
    pc[c] \in {"joined", "locking", "unlocked"} => turns[TokenOf[c]] = held[c]

\* Seen through the map, the line is the FIFO line TokenLine promises.
KeepsLine == TL!LineSpec

\* A call that waits for its turn gets it, or its caller gives up.
TurnComes == \A c \in Calls : pc[c] = "joined" ~> (HasTurn(c) \/ pc[c] = "unlocked")

\* Queued: "The line is forgotten when the last call leaves it."  The map holds
\* nothing for a token none of whose calls is in `in_turn`.
LineForgotten ==
  \A t \in Tokens :
    (\A c \in Calls : TokenOf[c] = t => pc[c] = "outside") => turns[t] = NoLine
=============================================================================
