----------------------------- MODULE MCServices -----------------------------
(***************************************************************************)
(* Instances of the parts of the server that callers wait for: the line of *)
(* an access token, the approval gate, the tailnets, the npm packages, the *)
(* schedule of updates, setting up from a backup, the call log, and the    *)
(* MCP client over pipes and over HTTP.  They share no state: one of them, *)
(* `part`, moves in a behaviour, the others stay where they start.         *)
(***************************************************************************)
EXTENDS Turns, TLC

CONSTANTS Parts, None, t1, t2, c1, c2, c3, c4, k1, k2, m1

VARIABLES part,
          rows, nextId, mcps, tokens, saved, clock, line, gate, ask, mode, found, now,
          deciding,
          removed, entries, sup, turn, ensure, states, gone,
          row, current, disk, holder, start, wiping,
          settings, save, job, timer, tick, run,
          up, db, place, keys, dirs, task,
          waiting, unwritten, queued, written, writing, since, writer, table, levels, flush,
          day, last_pruned_at, pruners,
          use, connected, pending, reply, alive, killed, heir, eof, lines, watch, exited,
          output_read, closing, closer, kept,
          caller, posted, answer, aborted, stream, reopened

-----------------------------------------------------------------------------
(* Three calls of one token and one of another.                            *)

MCTokens == {t1, t2}
MCCalls == {c1, c2, c3, c4}
MCTokenOf == (c1 :> t1) @@ (c2 :> t1) @@ (c3 :> t1) @@ (c4 :> t2)

\* Two calls of one token at the gate, one of them with too large arguments.
Gate ==
  INSTANCE Approvals
    WITH Tokens <- {t1}, Calls <- {c1, c2}, TokenOf <- [c \in {c1, c2} |-> t1],
         People <- {1},
         Asks <- {k1, k2}, Mcps <- {m1}, McpOf <- [k \in {k1, k2} |-> m1],
         AsksByDefault <- {m1}, TooLarge <- {k2}, MaxPending <- 1, PendingTime <- 1,
         GrantTime <- 1, KeptTime <- 0, MaxRows <- 1, MaxClock <- 1, pc <- gate

\* One tailnet, two requests and two supervisors of its daemon.
Net ==
  INSTANCE Tailnets
    WITH Ids <- {1}, Callers <- {1, 2}, Supervisors <- {1, 2}, call <- ensure

\* An MCP whose package is changed once; two callers, two installs at a time.
Npm ==
  INSTANCE NpmPackages
    WITH Rows <- << [package |-> 1, requested |-> 1], [package |-> 2, requested |-> 1] >>,
         Latest <- 1, Callers <- {1, 2}, Installs <- {1, 2}, call <- start

\* Two saves of the settings, a schedule and three timers.
Auto == INSTANCE AutoUpdate WITH Crons <- {1}, Saves <- {1, 2}, Jobs <- {1, 2, 3}

\* Two requests; one file of this instance and one of another.
Bak ==
  INSTANCE Backups
    WITH Tasks <- {1, 2}, Files <- {k1, k2}, Own <- k1,
         KeyOf <- [f \in {k1, k2} |-> f], queue <- keys

\* Three calls are logged while the settings stay as they are; one flush.
Log ==
  INSTANCE CallLog
    WITH Writers <- {1, 2}, Flushers <- {1}, MAX_PENDING_WRITES <- 2, WRITE_BATCH <- 2,
         Retention <- 0, MaxRecords <- 3, MaxLevels <- 1, MaxClock <- 0,
         pending <- unwritten, rows <- table, clock <- day

\* One use of an npm MCP, and one of an HTTP MCP.
Child ==
  INSTANCE StdioClient
    WITH caller <- use, answer <- reply, held <- heir, sup <- watch

Http == INSTANCE HttpClient WITH max_retries <- 2, MaxReopened <- 2

turnsVars == vars
gateVars == << rows, nextId, mcps, tokens, saved, clock, line, gate, ask, mode, found, now,
               deciding >>
netVars == << removed, entries, sup, turn, ensure, states, gone >>
npmVars == << row, current, disk, holder, start, wiping >>
autoVars == << settings, save, job, timer, tick, run >>
bakVars == << up, db, place, keys, dirs, task >>
logVars == << waiting, unwritten, queued, written, writing, since, writer, table, levels, flush,
              day, last_pruned_at, pruners >>
childVars == << use, connected, pending, reply, alive, killed, heir, eof, lines, watch, exited,
                output_read, closing, closer, kept >>
httpVars == << caller, posted, answer, aborted, stream, reopened >>
allVars == << part, turnsVars, gateVars, netVars, npmVars, autoVars, bakVars, logVars,
              childVars, httpVars >>

SumInit ==
  /\ part \in Parts
  /\ Init /\ Gate!Init /\ Net!Init /\ Npm!Init /\ Auto!Init /\ Bak!Init
  /\ Log!Init /\ Child!Init /\ Http!Init
  /\ part # "gate" => saved = [m \in {m1} |-> "default"]
  /\ part # "net" => removed = {} /\ states = {}
  /\ part # "auto" => settings = None
  /\ part # "child" => heir = FALSE

\* The part p moves, the others stay as they are.
Moves(p) ==
  /\ part = p /\ UNCHANGED part
  /\ p # "turns" => UNCHANGED turnsVars
  /\ p # "gate" => UNCHANGED gateVars
  /\ p # "net" => UNCHANGED netVars
  /\ p # "npm" => UNCHANGED npmVars
  /\ p # "auto" => UNCHANGED autoVars
  /\ p # "backups" => UNCHANGED bakVars
  /\ p # "log" => UNCHANGED logVars
  /\ p # "child" => UNCHANGED childVars
  /\ p # "http" => UNCHANGED httpVars

SumNext ==
  \/ Moves("turns") /\ Next
  \/ Moves("gate") /\ Gate!Next
  \/ Moves("net") /\ Net!Next
  \/ Moves("npm") /\ Npm!Next
  \/ Moves("auto") /\ Auto!Next
  \/ Moves("backups") /\ Bak!Next
  \/ Moves("log") /\ Log!Next
  \/ Moves("child") /\ Child!Next
  \/ Moves("http") /\ Http!Next

\* The fairness of each part, with its processes numbered: what goes on by
\* itself, and the locks that are handed out in the order they were asked for.
CallNo(i) == << c1, c2, c3, c4 >>[i]

StreamNo(i) == << "initialize", "tool", "listen" >>[i]

GoesOn(i) ==
  \/ i <= 4 /\ Moves("turns") /\ Step(CallNo(i))
  \/ i <= 2 /\ Moves("gate") /\ Gate!Step(CallNo(i))
  \/ i <= 2 /\ Moves("net") /\ Net!CallerStep(i)
  \/ i >= 3 /\ i <= 4 /\ Moves("net") /\ Net!SupervisorStep(i - 2)
  \/ i <= 2 /\ Moves("npm") /\ Npm!CallerStep(i)
  \/ i <= 3 /\ Moves("auto") /\ Auto!Told(i)
  \/ i >= 4 /\ i <= 5 /\ Moves("auto") /\ Auto!SaveStep(i - 3)
  \/ i = 6 /\ Moves("auto") /\ Auto!RunEnds
  \/ i <= 2 /\ Moves("backups") /\ Bak!Work(i)
  \/ i <= 2 /\ Moves("log") /\ Log!Write(i)
  \/ i = 3 /\ Moves("log") /\ Log!Flushed(1)
  \/ i = 1 /\ Moves("child") /\ Child!CallerStep
  \/ i = 2 /\ Moves("child") /\ Child!Supervise
  \/ i = 3 /\ Moves("child") /\ killed /\ Child!Exits
  \/ i = 4 /\ Moves("child") /\ ~ alive /\ Child!OutputEnds
  \/ i <= 3 /\ Moves("http") /\ Http!GoesOn(StreamNo(i))
  \/ i = 4 /\ Moves("http") /\ Http!CallOver

GetsLock(i) ==
  \/ Moves("net") /\ Net!TakeTurn(i)
  \/ Moves("npm") /\ Npm!Lock(i)

SumFairness ==
  /\ \A i \in 1..6 : WF_allVars(GoesOn(i))
  /\ \A i \in 1..2 : SF_allVars(GetsLock(i))

SumSpec == SumInit /\ [][SumNext]_allVars /\ SumFairness

-----------------------------------------------------------------------------

(* Somebody waits.  The callers of a part are alike, as are its timers and *)
(* tasks, so one stands for all of them.  A call in line waits for its     *)
(* turn, any other caller for its answer; after a use of an MCP the server *)
(* waits for its process, or its streams, to end.                          *)

Waits ==
  \/ part = "turns" /\ pc[c1] = "joined"
  \/ part = "gate" /\ gate[c1] # "idle"
  \/ part = "net" /\ ~ Net!At(1, "idle")
  \/ part = "npm" /\ ~ Npm!At(1, "idle")
  \/ part = "auto" /\ tick[1] # "none"
  \/ part = "backups" /\ place = 1
  \/ part = "log" /\ flush[1] # None
  \/ part = "child" /\ (use \in Child!Active \/ (use = "over" /\ alive))
  \/ part = "http" /\ caller # "idle"
       /\ (caller # "over" \/ \E s \in Http!Streams : ~ Http!Quiet(s))

Served == IF part = "turns" THEN HasTurn(c1) \/ pc[c1] = "unlocked" ELSE ~ Waits

\* Nobody waits for good, whoever fails, is dropped or dies before them: every
\* call in line gets its turn (TurnComes of Turns), every call at the gate its
\* answer (EveryCallAnswered of Approvals), and so do requests that start, stop
\* or remove a tailnet (EveryCallEnds of Tailnets), calls and updates of an npm
\* package (EveryCallerEnds of NpmPackages), ticks of the schedule (TicksEnd of
\* AutoUpdate); the place of the one import comes back (PlaceComesBack of
\* Backups); who flushes the log goes on (FlushEnds of CallLog); a use of an MCP
\* ends, whatever the MCP does, and leaves no process and no stream behind
\* (CallEnds, ProcessEnds of StdioClient, CallEnds, LeavesNothing of HttpClient).
EveryWaitEnds == Waits ~> Served
=============================================================================
