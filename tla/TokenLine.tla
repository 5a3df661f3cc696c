------------------------------ MODULE TokenLine ------------------------------
(***************************************************************************)
(* What the line of an access token promises: the calls of one token that  *)
(* ask for approval pass the gate one at a time, in the order they came.   *)
(* `ApprovalService::in_turn` keeps this promise with a map of locks (see  *)
(* module Turns); `decided` relies on it (see module Approvals).           *)
(*                                                                         *)
(* A call is a member of Calls, made with the token TokenOf[c].  The call  *)
(* at the head of line[t] has the turn of token t.                         *)
(***************************************************************************)
EXTENDS Naturals, Sequences

CONSTANTS Tokens,   \* access tokens
          Calls,    \* slots for tool calls the gateway serves in parallel
          TokenOf   \* the token each call is made with

VARIABLE line       \* line[t]: the calls of token t at the gate, in order

-----------------------------------------------------------------------------

\* The call `c` stands somewhere in the sequence `q`.
Stands(c, q) == \E i \in 1..Len(q) : q[i] = c

\* `q` without its element at `i`: a call that leaves lets the ones behind it
\* move up and overtakes nobody.
Without(q, i) == [j \in 1..(Len(q) - 1) |-> IF j < i THEN q[j] ELSE q[j + 1]]

\* The call `c` has the turn in the sequence `q`.
HeadIs(q, c) == q # << >> /\ q[1] = c

LineInit == line = [t \in Tokens |-> << >>]

\* A call takes the last place of the line of its token.
EnterLine(c) ==
  /\ ~ Stands(c, line[TokenOf[c]])
  /\ line' = [line EXCEPT ![TokenOf[c]] = Append(@, c)]

\* A call leaves: its task ended, or its caller went away before that.
LeaveLine(c) ==
  \E i \in 1..Len(line[TokenOf[c]]) :
    /\ line[TokenOf[c]][i] = c
    /\ line' = [line EXCEPT ![TokenOf[c]] = Without(@, i)]

LineNext == \E c \in Calls : EnterLine(c) \/ LeaveLine(c)

\* Restarting the process empties every line.
Emptied == line' = [t \in Tokens |-> << >>]

LineSpec == LineInit /\ [][LineNext \/ Emptied]_line
=============================================================================
