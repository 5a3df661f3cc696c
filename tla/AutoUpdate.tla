----------------------------- MODULE AutoUpdate -----------------------------
(***************************************************************************)
(* The timer of npm updates (`gateway/src/auto_update/mod.rs`) and the run  *)
(* it shares (`update_latest_tracking_mcps`).  Saving the instance settings *)
(* replaces the timer; a run that it started is a task of its own and goes *)
(* on.  Two saves are not kept apart, so two `resync` may overlap.         *)
(***************************************************************************)
EXTENDS FiniteSets

CONSTANTS Crons,     \* schedules the settings may name
          Saves,     \* saves of the settings under way
          Jobs,      \* timer tasks that may exist at once
          None       \* also: auto-update is off, or the schedule is invalid

VARIABLES settings,  \* the schedule in the row, or None
          save,      \* save[s]: where its `resync` is, and what it read
          job,       \* the handle of the timer, or None
          timer,     \* timer[j]: the schedule a timer task waits by, or None
          tick,      \* tick[j]: the task of its last tick (its `running`)
          run        \* a run is in flight (`pending_npm_updates`)

vars == << settings, save, job, timer, tick, run >>

At(s, step) == save[s].at = step

\* `replace_job`: the timer before is stopped, a run it started is not.
replaced(t, j) ==
  [x \in Jobs |-> IF x = job /\ x # j THEN None ELSE t[x]]

-----------------------------------------------------------------------------

Init ==
  /\ settings \in Crons \cup {None}
  /\ save = [s \in Saves |-> [at |-> "idle", read |-> None]]
  /\ job = None
  /\ timer = [j \in Jobs |-> None]
  /\ tick = [j \in Jobs |-> "none"]
  /\ run = FALSE

\* The row is saved.  (Or the server starts, with the row as it is.)
Save(s, cron) ==
  /\ At(s, "idle")
  /\ settings' = cron
  /\ save' = [save EXCEPT ![s].at = "saved"]
  /\ UNCHANGED << job, timer, tick, run >>

\* `resync` begins: the timer is stopped.
Stop(s) ==
  /\ At(s, "saved")
  /\ save' = [save EXCEPT ![s].at = "stopped"]
  /\ timer' = replaced(timer, None)
  /\ job' = None
  /\ UNCHANGED << settings, tick, run >>

\* `InstanceSetting::current(..).await`; nothing more to do when it is off.
ReadSettings(s) ==
  /\ At(s, "stopped")
  /\ save' = [save EXCEPT ![s] = IF settings = None THEN [at |-> "idle", read |-> None]
                                 ELSE [at |-> "read", read |-> settings]]
  /\ UNCHANGED << settings, job, timer, tick, run >>

\* A mutant of Schedule: the new handle takes the place of one that another
\* save put there meanwhile, without stopping its timer.
ScheduleOver(s) ==
  /\ At(s, "read")
  /\ \E j \in Jobs :
       /\ timer[j] = None /\ tick[j] = "none" /\ job # j
       /\ timer' = [timer EXCEPT ![j] = save[s].read]
       /\ job' = j
  /\ save' = [save EXCEPT ![s] = [at |-> "idle", read |-> None]]
  /\ UNCHANGED << settings, tick, run >>

\* The timer is spawned by the schedule that was read.
Schedule(s) ==
  /\ At(s, "read")
  /\ \E j \in Jobs :
       /\ timer[j] = None /\ tick[j] = "none" /\ job # j
       /\ timer' = replaced([timer EXCEPT ![j] = save[s].read], j)
       /\ job' = j
  /\ save' = [save EXCEPT ![s] = [at |-> "idle", read |-> None]]
  /\ UNCHANGED << settings, tick, run >>

\* The request of a save is dropped where it waits, or cannot read the row.
GoAway(s) ==
  /\ ~ At(s, "idle")
  /\ save' = [save EXCEPT ![s] = [at |-> "idle", read |-> None]]
  /\ UNCHANGED << settings, job, timer, tick, run >>

\* The time of a timer comes, and its last run is over: a task joins the run
\* in flight or starts one.
Tick(j) ==
  /\ timer[j] # None /\ tick[j] = "none"
  /\ tick' = [tick EXCEPT ![j] = "waiting"]
  /\ run' = TRUE
  /\ UNCHANGED << settings, save, job, timer >>

\* The run is over, well or not: the next may start, and whoever waits has
\* its result.
RunEnds ==
  /\ run
  /\ run' = FALSE
  /\ tick' = [j \in Jobs |-> IF tick[j] = "waiting" THEN "told" ELSE tick[j]]
  /\ UNCHANGED << settings, save, job, timer >>

\* The task of a tick goes on and ends: its `Run` is dropped.
Told(j) ==
  /\ tick[j] = "told"
  /\ tick' = [tick EXCEPT ![j] = "none"]
  /\ UNCHANGED << settings, save, job, timer, run >>

\* The schedule names no later time: the task ends, its handle stays.
NeverAgain(j) ==
  /\ timer[j] # None
  /\ timer' = [timer EXCEPT ![j] = None]
  /\ UNCHANGED << settings, save, job, tick, run >>

SaveStep(s) == Stop(s) \/ ReadSettings(s) \/ Schedule(s)

Next ==
  \/ \E s \in Saves, cron \in Crons \cup {None} : Save(s, cron)
  \/ \E s \in Saves : SaveStep(s) \/ GoAway(s)
  \/ \E j \in Jobs : Tick(j) \/ Told(j) \/ NeverAgain(j)
  \/ RunEnds

\* Every install of a run has a deadline, so a run ends; tasks that can go on
\* do.  Nothing makes an admin save, or a schedule name a time.
Fairness ==
  /\ WF_vars(RunEnds)
  /\ \A j \in Jobs : WF_vars(Told(j))
  /\ \A s \in Saves : WF_vars(SaveStep(s))

Spec == Init /\ [][Next]_vars /\ Fairness

-----------------------------------------------------------------------------

TypeOK ==
  /\ settings \in Crons \cup {None}
  /\ save \in [Saves -> [at : {"idle", "saved", "stopped", "read"}, read : Crons \cup {None}]]
  /\ job \in Jobs \cup {None}
  /\ timer \in [Jobs -> Crons \cup {None}]
  /\ tick \in [Jobs -> {"none", "waiting", "told"}]
  /\ run \in BOOLEAN

\* No timer runs on that the scheduler lost: `stop` and the next save can end
\* every one there is, however saves overlap.
NoStrayTimer == \A j \in Jobs : timer[j] # None => job = j

\* A tick never blocks its timer for good: the task it started, or joined to
\* the run of a replaced timer, comes to its end.
TicksEnd == \A j \in Jobs : tick[j] # "none" ~> tick[j] = "none"

Inv == TypeOK /\ NoStrayTimer
=============================================================================
