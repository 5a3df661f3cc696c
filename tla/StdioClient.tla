---------------------------- MODULE StdioClient ----------------------------
(***************************************************************************)
(* One use of an npm MCP (`node/src/runner.rs`): its process is started,   *)
(* greeted, asked one thing and ended, through the MCP client              *)
(* (`mcp/src/client/mod.rs`) over the pipes of a child                     *)
(* (`mcp/src/client/stdio.rs`).  The child may answer, keep silent, exit,  *)
(* close its stdout, ignore signals, or leave a process behind that holds  *)
(* its stdout open.  Whoever asked may go away at any point.               *)
(***************************************************************************)
EXTENDS Naturals

CONSTANT None

Closers == {"client", "transport"}  \* the two calls of `close`
Methods == {"initialize", "tool"}

VARIABLES caller,       \* where `call_tool` or `list_tools` is
          connected,    \* the client has a transport (`State::transport`)
          pending,      \* requests of the client that wait
          answer,       \* what the waiting request got: None, "result", "closed"
          alive,        \* the child runs
          killed,       \* it was sent SIGKILL
          held,         \* another process holds its stdout
          eof,          \* its stdout was read to the end
          lines,        \* the queue of its stdin is open (`Running::lines`)
          sup, exited, output_read, closing,  \* `supervise` and its variables
          closer,       \* closer[c]: where a `close` is
          kept          \* a task keeps a handle until its `close` ends

clientVars == << caller, connected, pending, answer >>
childVars == << alive, killed, held, eof >>
supVars == << lines, sup, exited, output_read, closing >>
vars == << clientVars, childVars, supVars, closer, kept >>

Asking == {"initialize", "tool"}
Active == Asking \cup {"stderr", "client", "transport"}

\* Some handle of the transport is left.
Handles == caller \in Active \/ kept

\* Requests of `close` that the channel holds.
Queued == {c \in Closers : closer[c] = "queued"}

-----------------------------------------------------------------------------

Init ==
  /\ caller = "idle" /\ connected = FALSE /\ pending = {} /\ answer = None
  /\ alive = FALSE /\ killed = FALSE /\ held \in BOOLEAN /\ eof = FALSE
  /\ lines = FALSE /\ sup = "none" /\ exited = FALSE /\ output_read = FALSE /\ closing = "no"
  /\ closer = [c \in Closers |-> "none"] /\ kept = FALSE

\* `connect` spawns the child and sends `initialize`; a command that cannot
\* be started leaves nothing behind.
Connect ==
  /\ caller = "idle"
  /\ \/ /\ caller' = "initialize" /\ connected' = TRUE /\ pending' = {"initialize"}
        /\ alive' = TRUE /\ lines' = TRUE /\ sup' = "running"
        /\ UNCHANGED << answer, killed, held, eof, exited, output_read, closing >>
     \/ caller' = "over" /\ UNCHANGED << connected, pending, answer, childVars, supVars >>
  /\ UNCHANGED << closer, kept >>

\* The first half of `close`: a request to the supervisor, while it runs.
\* (The client has no transport to close once it was told of the end.)
Ask(c) == [closer EXCEPT ![c] = IF sup = "running" /\ (c = "client" => connected)
                                  THEN "queued" ELSE "done"]

\* `connect` failed: the client closes the transport in a task of its own, and
\* the runner goes on to what the child wrote on stderr.
Failed ==
  /\ caller' = "stderr" /\ pending' = {} /\ answer' = None
  /\ closer' = [closer EXCEPT !["client"] = IF sup = "running" THEN "queued" ELSE "done"]
  /\ UNCHANGED connected

\* The call is over: `ConnectedNodeUpstream::close` begins.
EndCall ==
  /\ caller' = "client" /\ pending' = {} /\ answer' = None
  /\ closer' = Ask("client")
  /\ UNCHANGED connected

\* `initialize` was answered; the notification that follows and the call
\* itself need a client that is connected and an open queue.
Greeted ==
  /\ caller = "initialize" /\ answer = "result"
  /\ \/ lines /\ connected /\ caller' = "tool" /\ pending' = {"tool"} /\ answer' = None
        /\ UNCHANGED << connected, closer >>
     \/ Failed                    \* refused, or not connected
     \/ ~ (lines /\ connected) /\ EndCall  \* closed after the notification
  /\ UNCHANGED << childVars, supVars, kept >>

\* A request fails: the connection closed under it, the answer is an error,
\* its time is over, or its line could not be queued.
RequestFails ==
  /\ caller \in Asking
  /\ IF caller = "initialize" THEN Failed ELSE EndCall
  /\ UNCHANGED << childVars, supVars, kept >>

Answered ==
  /\ caller = "tool" /\ answer # None
  /\ EndCall
  /\ UNCHANGED << childVars, supVars, kept >>

\* `StartupStderrCapture::read` ends, at the latest when its time is over; a
\* task keeps the transport while it closes.
ReadStderr ==
  /\ caller = "stderr"
  /\ caller' = "over" /\ connected' = FALSE
  /\ closer' = Ask("transport")
  /\ kept' = (closer'["transport"] = "queued")
  /\ UNCHANGED << pending, answer, childVars, supVars >>

\* The `close` a caller waits for is done.
NextClose ==
  /\ caller \in Closers /\ closer[caller] = "done"
  /\ IF caller = "client"
       THEN caller' = "transport" /\ closer' = Ask("transport") /\ UNCHANGED connected
       ELSE caller' = "over" /\ connected' = FALSE /\ UNCHANGED closer
  /\ UNCHANGED << pending, answer, childVars, supVars, kept >>

\* The task that kept the transport ends.
LetGo ==
  /\ kept /\ closer["transport"] = "done"
  /\ kept' = FALSE
  /\ UNCHANGED << clientVars, childVars, supVars, closer >>

\* The caller is dropped where it waits, with the client and its handle.
GoAway ==
  /\ caller \in Active
  /\ caller' = "over" /\ pending' = {} /\ answer' = None /\ connected' = FALSE
  /\ UNCHANGED << childVars, supVars, closer, kept >>

-----------------------------------------------------------------------------
(* The child and its pipes.                                                *)

\* A message of it is read, perhaps after it exited: an answer.  (`settle`: one
\* that nobody waits for, or waits for no longer, is dropped.)
Reply(id) ==
  /\ ~ eof
  /\ id \in pending
  /\ pending' = pending \ {id} /\ answer' = "result"
  /\ UNCHANGED << caller, connected, childVars, supVars, closer, kept >>

Exits ==
  /\ alive
  /\ alive' = FALSE
  /\ UNCHANGED << clientVars, killed, held, eof, supVars, closer, kept >>

\* Its stdout ends, when nobody holds it any more; a child may also close it.
OutputEnds ==
  /\ sup # "none" /\ ~ held /\ ~ eof
  /\ eof' = TRUE
  /\ UNCHANGED << clientVars, alive, killed, held, supVars, closer, kept >>

HolderEnds ==
  /\ held
  /\ held' = FALSE
  /\ UNCHANGED << clientVars, alive, killed, eof, supVars, closer, kept >>

-----------------------------------------------------------------------------
(* `supervise`.                                                            *)

Supervising == sup = "running" /\ ~ (exited /\ output_read)

SeesExit ==
  /\ Supervising /\ ~ exited /\ ~ alive
  /\ exited' = TRUE
  /\ UNCHANGED << clientVars, childVars, lines, sup, output_read, closing, closer, kept >>

SeesOutput ==
  /\ Supervising /\ ~ output_read /\ eof
  /\ output_read' = TRUE
  /\ UNCHANGED << clientVars, childVars, lines, sup, exited, closing, closer, kept >>

\* stdin is closed, once; what was queued is still written.
BeginClosing == IF closing = "no" THEN lines' = FALSE /\ closing' = "stdin"
                ELSE UNCHANGED << lines, closing >>

TakesClose(c) ==
  /\ Supervising /\ c \in Queued
  /\ closer' = [closer EXCEPT ![c] = IF closing = "done" THEN "done" ELSE "waiting"]
  /\ BeginClosing
  /\ UNCHANGED << clientVars, childVars, sup, exited, output_read, kept >>

\* The reader's buffer overflowed: it asks for the transport to close.
Overflow ==
  /\ Supervising /\ ~ eof /\ closing = "no"
  /\ BeginClosing
  /\ UNCHANGED << clientVars, childVars, sup, exited, output_read, closer, kept >>

\* Those the supervisor keeps waiting are told.
Settled == [c \in Closers |-> IF closer[c] = "waiting" THEN "done" ELSE closer[c]]

\* The last handle was dropped: the child is killed with it.
Abandoned ==
  /\ Supervising /\ ~ Handles /\ Queued = {}
  /\ sup' = "ended"
  /\ killed' = (killed \/ alive)
  /\ closer' = Settled
  /\ UNCHANGED << clientVars, alive, held, eof, lines, exited, output_read, closing, kept >>

\* A mutant of Deadline: who closes is told once the child was asked to end.
DeadlineAsked ==
  /\ Supervising /\ closing \in {"stdin", "term"}
  /\ closing' = IF closing = "stdin" /\ ~ exited THEN "term" ELSE "done"
  /\ killed' = (killed \/ (closing = "term" /\ ~ exited))
  /\ closer' = Settled
  /\ UNCHANGED << clientVars, alive, held, eof, lines, sup, exited, output_read, kept >>

\* The two seconds of grace are over: SIGTERM, then SIGKILL, then done.
Deadline ==
  /\ Supervising /\ closing \in {"stdin", "term"}
  /\ closing' = IF closing = "stdin" /\ ~ exited THEN "term" ELSE "done"
  /\ killed' = (killed \/ (closing = "term" /\ ~ exited))
  /\ closer' = IF closing' = "done" THEN Settled ELSE closer
  /\ UNCHANGED << clientVars, alive, held, eof, lines, sup, exited, output_read, kept >>

\* The child is gone and its output read: `on_close` fails what still waits,
\* and every `close` is done, those the channel still holds too.
Ends ==
  /\ sup = "running" /\ exited /\ output_read
  /\ sup' = "ended" /\ lines' = FALSE
  /\ connected' = FALSE /\ pending' = {}
  /\ answer' = IF pending = {} THEN answer ELSE "closed"
  /\ closer' = [c \in Closers |-> IF closer[c] = "none" THEN "none" ELSE "done"]
  /\ UNCHANGED << caller, childVars, exited, output_read, closing, kept >>

Supervise ==
  \/ SeesExit \/ SeesOutput \/ Abandoned \/ Deadline \/ Ends
  \/ \E c \in Closers : TakesClose(c)

CallerStep == Greeted \/ RequestFails \/ Answered \/ ReadStderr \/ NextClose \/ LetGo

Next ==
  \/ Connect \/ CallerStep \/ GoAway
  \/ \E id \in Methods : Reply(id)
  \/ Exits \/ OutputEnds \/ HolderEnds
  \/ Supervise \/ Overflow

\* Requests and `close` have deadlines and tasks that can go on do; a child
\* that was killed dies, and a pipe nobody holds ends.  A child does nothing
\* else of itself.
Fairness ==
  /\ WF_vars(CallerStep) /\ WF_vars(Supervise)
  /\ WF_vars(killed /\ Exits) /\ WF_vars(~ alive /\ OutputEnds)

Spec == Init /\ [][Next]_vars /\ Fairness

-----------------------------------------------------------------------------

TypeOK ==
  /\ caller \in {"idle", "over"} \cup Active
  /\ pending \subseteq Methods /\ answer \in {None, "result", "closed"}
  /\ {connected, alive, killed, held, eof, lines, exited, output_read, kept} \subseteq BOOLEAN
  /\ sup \in {"none", "running", "ended"} /\ closing \in {"no", "stdin", "term", "done"}
  /\ closer \in [Closers -> {"none", "queued", "waiting", "done"}]

\* The child never outlives the transport: when a `close` has returned, or
\* nobody watches the child any more, it has exited or was killed (`supervise`,
\* `kill_on_drop`), however it behaves and whoever goes away.
ChildEnded ==
  sup = "ended" \/ (\E c \in Closers : closer[c] = "done") => ~ alive \/ killed

\* Every call of an npm MCP comes to its end, and then its process does.
CallEnds == caller \in Active ~> caller = "over"
ProcessEnds == caller = "over" /\ alive ~> ~ alive

-----------------------------------------------------------------------------
(* The inductive invariant behind ChildEnded.                              *)

\* The child ended, or cannot but end.
Dead == ~ alive \/ killed

\* `supervise` says a child exited, or that a close is done, when that is so.
SupervisorKnows == (exited => ~ alive) /\ (closing = "done" => Dead)

\* While a call is under way its child is watched, and the client has its
\* transport until the watch ends; before it, nothing was asked to close.
WatchedWhile ==
  /\ caller \in Active => sup # "none"
  /\ caller \in Active /\ sup = "running" => connected
  /\ caller = "idle" => /\ sup = "none" /\ closing = "no" /\ ~ exited
                        /\ closer = [c \in Closers |-> "none"]

Inv == TypeOK /\ ChildEnded /\ SupervisorKnows /\ WatchedWhile
=============================================================================
