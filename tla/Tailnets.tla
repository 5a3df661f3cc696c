------------------------------ MODULE Tailnets ------------------------------
(***************************************************************************)
(* The daemons of the tailnets (crate `tailnet`): one supervised           *)
(* `tailscaled` per tailnet, started by `ensure_running`, ended by `stop`, *)
(* `remove` and `discard`, each holding the turn of the tailnet.  A        *)
(* supervisor is a task of its own that starts the daemon again when it    *)
(* ends; a caller may be dropped at any await, because the browser it      *)
(* serves went away.  The turn is a fair lock: who waits for it gets it.   *)
(***************************************************************************)
EXTENDS Naturals, FiniteSets

CONSTANTS Ids,          \* tailnets, by the id of their row
          Callers,      \* requests that start, stop or remove a tailnet
          Supervisors,  \* the tasks that may exist at once
          None

VARIABLES removed,  \* the tailnets `ensure_running` refuses
          entries,  \* entries[id]: the supervisor in the map, or None
          sup,      \* sup[s]: what the task of a supervisor is doing
          turn,     \* turn[id]: the caller that holds the turn, or None
          call,     \* call[c]: what each caller is doing
          states,   \* the tailnets with a `tailscaled.state` on disk
          gone      \* the tailnets whose removal was answered with `Ok`

vars == << removed, entries, sup, turn, call, states, gone >>

Phases == {"free", "starting", "running", "waiting", "terminating", "aborted"}
Ops == {"ensure", "stop", "remove", "discard"}
Steps == {"idle", "queued", "holding", "starting", "logout",
          "stopping", "ending", "clearing"}

NoCall == [op |-> "ensure", id |-> None, at |-> "idle", sup |-> None]
NoSupervisor == [phase |-> "free", id |-> None, cancelled |-> FALSE]

\* The entry of the map has a task that did not finish.
is_supervised(id) == entries[id] # None /\ sup[entries[id]].phase # "free"

At(c, step) == call[c].at = step
Goes(c, step) == call' = [call EXCEPT ![c].at = step]

\* The caller is answered: the guard of the turn is dropped with its future.
Answered(c) ==
  /\ call' = [call EXCEPT ![c] = NoCall]
  /\ turn' = [id \in Ids |-> IF turn[id] = c THEN None ELSE turn[id]]

-----------------------------------------------------------------------------

Init ==
  /\ removed = {}
  /\ entries = [id \in Ids |-> None]
  /\ sup = [s \in Supervisors |-> NoSupervisor]
  /\ turn = [id \in Ids |-> None]
  /\ call = [c \in Callers |-> NoCall]
  /\ states \in SUBSET Ids
  /\ gone = {}

\* A caller comes.  `remove` and `discard` mark the tailnet before they ask
\* for the turn.
Begin(c, op, id) ==
  /\ At(c, "idle")
  /\ removed' = IF op \in {"remove", "discard"} THEN removed \cup {id} ELSE removed
  /\ call' = [call EXCEPT ![c] = [op |-> op, id |-> id, at |-> "queued", sup |-> None]]
  /\ UNCHANGED << entries, sup, turn, states, gone >>

\* `turn(id).await` returns.
TakeTurn(c) ==
  /\ At(c, "queued")
  /\ turn[call[c].id] = None
  /\ turn' = [turn EXCEPT ![call[c].id] = c]
  /\ Goes(c, "holding")
  /\ UNCHANGED << removed, entries, sup, states, gone >>

\* `ensure_running` of a tailnet that was removed meanwhile.
Refuse(c) ==
  /\ At(c, "holding") /\ call[c].op = "ensure" /\ call[c].id \in removed
  /\ Answered(c)
  /\ UNCHANGED << removed, entries, sup, states, gone >>

\* `ensure_running`: nothing to do, or `start` goes on to make directories.
Ensure(c) ==
  /\ At(c, "holding") /\ call[c].op = "ensure" /\ call[c].id \notin removed
  /\ IF is_supervised(call[c].id)
       THEN Answered(c)
       ELSE Goes(c, "starting") /\ UNCHANGED turn
  /\ UNCHANGED << removed, entries, sup, states, gone >>

\* `remove`: a node joined before this process started needs a daemon to log
\* out; `stop` and `discard` go straight to the daemon.
Leave(c) ==
  /\ At(c, "holding") /\ call[c].op # "ensure"
  /\ LET id == call[c].id IN
       \/ /\ call[c].op = "remove" /\ ~ is_supervised(id) /\ id \in states
          /\ Goes(c, "starting")
       \/ /\ call[c].op = "remove" /\ entries[id] # None
          /\ Goes(c, "logout")
       \/ /\ call[c].op = "remove" => entries[id] = None /\ id \notin states
          /\ Goes(c, "stopping")
  /\ UNCHANGED << removed, entries, sup, turn, states, gone >>

\* The end of `start`: a supervisor is spawned and put in the map.  It is a new
\* task, none that somebody still waits for.
Start(c) ==
  /\ At(c, "starting")
  /\ \E s \in Supervisors :
       /\ sup[s].phase = "free" /\ \A k \in Callers : call[k].sup # s
       /\ sup' = [sup EXCEPT ![s] = [phase |-> "starting", id |-> call[c].id,
                                     cancelled |-> FALSE]]
       /\ entries' = [entries EXCEPT ![call[c].id] = s]
  /\ IF call[c].op = "ensure" THEN Answered(c) ELSE Goes(c, "logout") /\ UNCHANGED turn
  /\ UNCHANGED << removed, states, gone >>

\* `start` fails (a directory cannot be made), and with it `ensure_running`
\* or the whole `remove`.
StartFails(c) ==
  /\ At(c, "starting")
  /\ Answered(c)
  /\ UNCHANGED << removed, entries, sup, states, gone >>

\* `wait_ready` and `logout` have a deadline, and their failure is logged.
Logout(c) ==
  /\ At(c, "logout")
  /\ Goes(c, "stopping")
  /\ UNCHANGED << removed, entries, sup, turn, states, gone >>

\* `stop_daemon`: the entry leaves the map and its task is told to end.
StopDaemon(c) ==
  /\ At(c, "stopping")
  /\ LET id == call[c].id
         s == entries[id]
     IN IF s = None
          THEN /\ IF call[c].op = "stop" THEN Answered(c)
                                         ELSE Goes(c, "clearing") /\ UNCHANGED turn
               /\ UNCHANGED << entries, sup >>
          ELSE /\ entries' = [entries EXCEPT ![id] = None]
               /\ sup' = [sup EXCEPT ![s].cancelled = TRUE]
               /\ call' = [call EXCEPT ![c].at = "ending", ![c].sup = s]
               /\ UNCHANGED turn
  /\ UNCHANGED << removed, states, gone >>

\* What follows `supervisor.stop()`.
AfterStop(c) ==
  IF call[c].op = "stop" THEN Answered(c)
  ELSE call' = [call EXCEPT ![c].at = "clearing", ![c].sup = None] /\ UNCHANGED turn

\* A mutant of Ended: the daemon is signalled and not waited for.
EndedEarly(c) ==
  /\ At(c, "ending")
  /\ AfterStop(c)
  /\ UNCHANGED << removed, entries, sup, states, gone >>

\* The task of the supervisor finished.
Ended(c) ==
  /\ At(c, "ending") /\ sup[call[c].sup].phase = "free"
  /\ AfterStop(c)
  /\ UNCHANGED << removed, entries, sup, states, gone >>

\* It did not in time: the drop of the supervisor aborts it.
EndTimesOut(c) ==
  /\ At(c, "ending") /\ sup[call[c].sup].phase = "terminating"
  /\ sup' = [sup EXCEPT ![call[c].sup].phase = "aborted"]
  /\ AfterStop(c)
  /\ UNCHANGED << removed, entries, states, gone >>

\* `remove_dir`; it may fail, which is answered as an error.
Clear(c) ==
  /\ At(c, "clearing")
  /\ \/ /\ states' = states \ {call[c].id}
        /\ gone' = gone \cup {call[c].id}
     \/ UNCHANGED << states, gone >>
  /\ Answered(c)
  /\ UNCHANGED << removed, entries, sup >>

\* The future of the caller is dropped at the await it is at: its supervisor,
\* when it has one, is aborted; a directory being deleted is deleted.
GoAway(c) ==
  /\ ~ At(c, "idle")
  /\ Answered(c)
  /\ sup' = IF At(c, "ending") /\ sup[call[c].sup].phase # "free"
              THEN [sup EXCEPT ![call[c].sup].phase = "aborted"] ELSE sup
  /\ states' = IF At(c, "clearing") THEN states \ {call[c].id} ELSE states
  /\ UNCHANGED << removed, entries, gone >>

\* A backup was imported into an instance without users, which has no request
\* under way: `forget_removals`.
ForgetRemovals ==
  /\ \A c \in Callers : At(c, "idle")
  /\ removed # {}
  /\ removed' = {}
  /\ gone' = {}
  /\ UNCHANGED << entries, sup, turn, call, states >>

-----------------------------------------------------------------------------
(* The loop of `supervise`.                                                *)

Becomes(s, phase) == sup' = [sup EXCEPT ![s].phase = phase]

\* The daemon is spawned, or cannot be.
Spawn(s) ==
  /\ sup[s].phase = "starting" /\ ~ sup[s].cancelled
  /\ \/ Becomes(s, "running") /\ states' = states \cup {sup[s].id}
     \/ Becomes(s, "waiting") /\ UNCHANGED states
  /\ UNCHANGED << removed, entries, turn, call, gone >>

\* The daemon ends by itself: it is started again after a wait.
Dies(s) ==
  /\ sup[s].phase = "running"
  /\ Becomes(s, "waiting")
  /\ UNCHANGED << removed, entries, turn, call, states, gone >>

\* The wait is over.
Retry(s) ==
  /\ sup[s].phase = "waiting"
  /\ Becomes(s, "starting")
  /\ UNCHANGED << removed, entries, turn, call, states, gone >>

\* Cancelled: a running daemon gets SIGTERM, the task returns otherwise.
Cancel(s) ==
  /\ sup[s].cancelled /\ sup[s].phase \in {"starting", "waiting", "running"}
  /\ IF sup[s].phase = "running" THEN Becomes(s, "terminating")
     ELSE sup' = [sup EXCEPT ![s] = NoSupervisor]
  /\ UNCHANGED << removed, entries, turn, call, states, gone >>

\* The daemon is gone after SIGTERM or SIGKILL, or after the abort.
Exits(s) ==
  /\ sup[s].phase \in {"terminating", "aborted"}
  /\ sup' = [sup EXCEPT ![s] = NoSupervisor]
  /\ UNCHANGED << removed, entries, turn, call, states, gone >>

CallerStep(c) ==
  \/ Refuse(c) \/ Ensure(c) \/ Leave(c) \/ Start(c) \/ StartFails(c)
  \/ Logout(c) \/ StopDaemon(c) \/ Ended(c) \/ EndTimesOut(c) \/ Clear(c)

SupervisorStep(s) == Spawn(s) \/ Retry(s) \/ Cancel(s) \/ Exits(s)

Next ==
  \/ \E c \in Callers, op \in Ops, id \in Ids : Begin(c, op, id)
  \/ \E c \in Callers : TakeTurn(c) \/ CallerStep(c) \/ GoAway(c)
  \/ \E s \in Supervisors : SupervisorStep(s) \/ Dies(s)
  \/ ForgetRemovals

\* The runtime runs every task that can run; the lock is fair; what a caller
\* waits for has a deadline.  Nothing makes a caller come or go, a daemon die
\* or a backup be imported.
Fairness ==
  /\ \A c \in Callers : SF_vars(TakeTurn(c)) /\ WF_vars(CallerStep(c))
  /\ \A s \in Supervisors : WF_vars(SupervisorStep(s))

Spec == Init /\ [][Next]_vars /\ Fairness

-----------------------------------------------------------------------------

CallStates == [op : Ops, id : Ids \cup {None}, at : Steps, sup : Supervisors \cup {None}]
TaskStates == [phase : Phases, id : Ids \cup {None}, cancelled : BOOLEAN]

TypeOK ==
  /\ removed \subseteq Ids /\ states \subseteq Ids /\ gone \subseteq Ids
  /\ entries \in [Ids -> Supervisors \cup {None}]
  /\ sup \in [Supervisors -> TaskStates]
  /\ turn \in [Ids -> Callers \cup {None}]
  /\ call \in [Callers -> CallStates]

\* Two daemons never run on the directory of one tailnet: `ensure_running`
\* waits for the end of the daemon a `stop` took out of the map.  A daemon
\* that is being killed, because its supervisor was dropped, is not counted.
OneDaemon ==
  \A s1, s2 \in Supervisors :
    /\ s1 # s2 /\ sup[s1].id = sup[s2].id
    /\ sup[s1].phase \in {"running", "terminating"}
    => sup[s2].phase \in {"free", "aborted"}

\* A tailnet whose removal was answered with `Ok` stays down: no request that
\* began before it, and none that comes later, starts its daemon or brings
\* its state back.
RemovedStaysDown ==
  \A id \in gone :
    /\ entries[id] = None /\ id \notin states
    /\ \A s \in Supervisors : sup[s].id = id => sup[s].phase \in {"free", "aborted"}

\* Every request that starts, stops or removes a tailnet is answered,
\* whatever the daemon does and whoever gives up before it.
EveryCallEnds == \A c \in Callers : ~ At(c, "idle") ~> At(c, "idle")

-----------------------------------------------------------------------------
(* The inductive invariant behind OneDaemon and RemovedStaysDown.          *)

\* The task is there, and nothing kills it.
Lives(s) == sup[s].phase \notin {"free", "aborted"}

\* A caller past its wait has the turn of its tailnet.
HasTurn(c) ==
  /\ ~ At(c, "idle") => call[c].id \in Ids
  /\ call[c].at \notin {"idle", "queued"} => turn[call[c].id] = c

\* A caller whose supervisor is not in the map: none yet, or none any more.
Between(c) ==
  call[c].at \in {"starting", "ending", "clearing"} => entries[call[c].id] = None

\* A caller that waits for a supervisor has one that was told to end.
Waits(c) ==
  /\ At(c, "ending") =>
       /\ call[c].sup \in Supervisors
       /\ sup[call[c].sup].phase # "free"
            => sup[call[c].sup].id = call[c].id /\ sup[call[c].sup].cancelled
  /\ ~ At(c, "ending") => call[c].sup = None

\* The steps are those of the operation, and a removal is marked.
Means(c) ==
  /\ call[c].at \in {"logout", "stopping", "ending", "clearing"} => call[c].op # "ensure"
  /\ At(c, "clearing") => call[c].op # "stop"
  /\ call[c].op \in {"remove", "discard"} /\ ~ At(c, "idle") => call[c].id \in removed

\* The supervisor in the map works for its tailnet.
EntryOK(id) ==
  entries[id] # None =>
    /\ sup[entries[id]].phase \in {"starting", "running", "waiting"}
    /\ sup[entries[id]].id = id /\ ~ sup[entries[id]].cancelled

\* A supervisor is in the map, or somebody waits for its end.
Known(s) ==
  Lives(s) =>
    /\ sup[s].id \in Ids
    /\ \/ entries[sup[s].id] = s
       \/ /\ sup[s].cancelled
          /\ \E c \in Callers : At(c, "ending") /\ call[c].sup = s /\ call[c].id = sup[s].id

\* A tailnet that is gone is not about to be started.
GoneOK(id) ==
  /\ id \in removed /\ entries[id] = None /\ id \notin states
  /\ \A c \in Callers : call[c].id = id => ~ At(c, "starting")
  /\ \A s \in Supervisors : sup[s].id = id => ~ Lives(s)

Inv ==
  /\ TypeOK
  /\ \A c \in Callers : HasTurn(c) /\ Between(c) /\ Waits(c) /\ Means(c)
  /\ \A id \in Ids : EntryOK(id)
  /\ \A s \in Supervisors : Known(s)
  /\ \A id \in gone : GoneOK(id)
=============================================================================
