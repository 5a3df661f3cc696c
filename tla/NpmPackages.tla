---------------------------- MODULE NpmPackages ----------------------------
(***************************************************************************)
(* The installs of the package of one npm MCP (crate `node`).  Each install *)
(* is a directory of its own; `current.json` names the one in use and is   *)
(* replaced whole.  Calls and updates of the MCP take a fair lock to read  *)
(* it or to install; an edit of the row that names another package deletes *)
(* the directory without that lock.  A caller may be dropped at any await, *)
(* and the process may stop anywhere: the disk stays as it is.             *)
(***************************************************************************)
EXTENDS Naturals, Sequences

CONSTANTS Rows,      \* what the row asks for, one edit after the other:
                     \* records [package, requested]
          Latest,    \* the value of `requested` that tracks new versions
          Callers,   \* calls and updates of the MCP
          Installs,  \* names of install directories, as numbers
          None

VARIABLES row,      \* how far the row got in Rows
          current,  \* `current.json`: an install and its spec, or None
          disk,     \* disk[i]: what is in the directory of an install
          holder,   \* the caller that holds the lock of the MCP, or None
          call,     \* call[c]: what each caller is doing
          wiping    \* `remove_sandbox` is deleting the installs

vars == << row, current, disk, holder, call, wiping >>

Specs == {Rows[n] : n \in DOMAIN Rows}
Steps == {"idle", "asked", "installing", "made", "placed", "using"}

\* since: updates since the call began to use its install, up to 2; 2 also
\* when the row was pointed at another package and its installs deleted.
NoCall == [at |-> "idle", op |-> "call", spec |-> None, install |-> None,
           previous |-> None, since |-> 0]

Asked(op, spec) == [at |-> "asked", op |-> op, spec |-> spec, install |-> None,
                    previous |-> None, since |-> 0]

\* What is in a directory that `npm` filled.
Whole(spec) == [spec |-> spec, whole |-> TRUE]

At(c, step) == call[c].at = step
Released(c) == holder' = IF holder = c THEN None ELSE holder
Answered(c) == call' = [call EXCEPT ![c] = NoCall] /\ Released(c)

\* A name never used before, so no directory and no caller has it.  Such
\* names are alike: an install takes the least.
Fresh(i) ==
  /\ disk[i] = None
  /\ current # None => current.install # i
  /\ \A c \in Callers : i \notin {call[c].install, call[c].previous}

-----------------------------------------------------------------------------

Init ==
  /\ row = 1
  /\ current = None
  /\ disk = [i \in Installs |-> None]
  /\ holder = None
  /\ call = [c \in Callers |-> NoCall]
  /\ wiping = FALSE

\* A call of a tool, or an update of an MCP that tracks `latest`: the row is
\* read here and carried along.
Ask(c, op) ==
  /\ At(c, "idle")
  /\ op = "update" => Rows[row].requested = Latest
  /\ call' = [call EXCEPT ![c] = Asked(op, Rows[row])]
  /\ UNCHANGED << row, current, disk, holder, wiping >>

\* `read_current`: the file names the spec asked for, and the entry of that
\* install is there.
InUse(c) ==
  /\ current # None /\ current.spec = call[c].spec
  /\ disk[current.install] # None

\* `installed` gets the lock and finds the install in use.
Read(c) ==
  /\ At(c, "asked") /\ holder = None
  /\ call[c].op = "call" /\ InUse(c)
  /\ call' = [call EXCEPT ![c].at = "using", ![c].install = current.install]
  /\ UNCHANGED << row, current, disk, holder, wiping >>

\* It finds none, or an update gets the lock: a directory is made and
\* `npm install` starts to fill it.
BeginInstall(c) ==
  /\ At(c, "asked") /\ holder = None
  /\ ~ (call[c].op = "call" /\ InUse(c))
  /\ holder' = c
  /\ \E i \in Installs :
       /\ Fresh(i) /\ \A j \in Installs : Fresh(j) => i <= j
       /\ disk' = [disk EXCEPT ![i] = [spec |-> call[c].spec, whole |-> FALSE]]
       /\ call' = [call EXCEPT ![c].at = "installing", ![c].install = i]
  /\ UNCHANGED << row, current, wiping >>

\* The directory cannot be made.
NoRoom(c) ==
  /\ At(c, "asked") /\ holder = None
  /\ ~ (call[c].op = "call" /\ InUse(c))
  /\ Answered(c)
  /\ UNCHANGED << row, current, disk, wiping >>

\* A mutant of InstallFails: an error on the way out leaves the lock taken.
InstallFailsLocked(c) ==
  /\ call[c].at \in {"installing", "made"}
  /\ disk' = [i \in Installs |-> IF i = call[c].install THEN None ELSE disk[i]]
  /\ call' = [call EXCEPT ![c] = NoCall]
  /\ UNCHANGED << row, current, holder, wiping >>

\* `npm` fails or is out of time, `inspect` refuses what it made, or
\* `current.json` cannot be written: what there is of the install is deleted.
InstallFails(c) ==
  /\ call[c].at \in {"installing", "made"}
  /\ disk' = [i \in Installs |-> IF i = call[c].install THEN None ELSE disk[i]]
  /\ Answered(c)
  /\ UNCHANGED << row, current, wiping >>

\* `npm` is done and `inspect` finds the program; `make_current` reads which
\* install the new one replaces.
InstallDone(c) ==
  /\ At(c, "installing") /\ disk[call[c].install] # None
  /\ disk' = [disk EXCEPT ![call[c].install] = Whole(call[c].spec)]
  /\ call' = [call EXCEPT ![c].at = "made",
                          ![c].previous = IF current = None THEN None ELSE current.install]
  /\ UNCHANGED << row, current, holder, wiping >>

\* `current.json` is renamed into place.  The directory may be gone when an
\* edit is deleting them all, and the rename then fails once that is done.
Put(c) ==
  /\ At(c, "made")
  /\ disk[call[c].install] # None \/ wiping
  /\ current' = [install |-> call[c].install, spec |-> call[c].spec]
  /\ call' = [x \in Callers |->
                IF x = c THEN [call[c] EXCEPT !.at = "placed"]
                ELSE IF At(x, "using") /\ call[x].since < 2
                  THEN [call[x] EXCEPT !.since = @ + 1] ELSE call[x]]
  /\ UNCHANGED << row, disk, holder, wiping >>

\* What follows `make_current`: a call runs the install, an update goes on to
\* test the MCP, which is a call of its own.
Installed(c) ==
  /\ call' = [call EXCEPT ![c] =
       IF @.op = "call" THEN [@ EXCEPT !.at = "using", !.previous = None]
       ELSE Asked("call", call[c].spec)]
  /\ Released(c)

\* A mutant of Sweep: the install that was replaced is deleted too.
SweepPrevious(c) ==
  /\ At(c, "placed")
  /\ \E old \in {{}, Installs \ {call[c].install}} :
       disk' = [i \in Installs |-> IF i \in old THEN None ELSE disk[i]]
  /\ Installed(c)
  /\ UNCHANGED << row, current, wiping >>

\* The other installs are deleted, but for the one replaced; what cannot be
\* deleted is left for the next time.
Sweep(c) ==
  /\ At(c, "placed")
  /\ \E old \in {{}, Installs \ {call[c].install, call[c].previous}} :
       disk' = [i \in Installs |-> IF i \in old THEN None ELSE disk[i]]
  /\ Installed(c)
  /\ UNCHANGED << row, current, wiping >>

\* The call ends, answered or out of time; its process is ended with it.
Finish(c) ==
  /\ At(c, "using")
  /\ Answered(c)
  /\ UNCHANGED << row, current, disk, wiping >>

\* The caller is dropped where it waits: a directory it was filling stays.
GoAway(c) ==
  /\ ~ At(c, "idle")
  /\ Answered(c)
  /\ UNCHANGED << row, current, disk, wiping >>

\* The row is saved with another version, or with another package: its
\* installs are then deleted.
Edit ==
  /\ row < Len(Rows)
  /\ row' = row + 1
  /\ wiping' = (wiping \/ Rows[row].package # Rows[row + 1].package)
  /\ UNCHANGED << current, disk, holder, call >>

\* `remove_sandbox` deletes the directories it finds.
Wipe ==
  /\ wiping /\ \E i \in Installs : disk[i] # None
  /\ disk' = [i \in Installs |-> None]
  /\ call' = [c \in Callers |->
                IF call[c].install # None THEN [call[c] EXCEPT !.since = 2] ELSE call[c]]
  /\ UNCHANGED << row, current, holder, wiping >>

\* It is done; what was made while it ran may be left, or its `current.json`
\* be gone without it.
WipeEnds ==
  /\ wiping
  /\ wiping' = FALSE
  /\ current' \in {current, None}
  /\ call' = [c \in Callers |->
                IF call[c].install # None THEN [call[c] EXCEPT !.since = 2] ELSE call[c]]
  /\ UNCHANGED << row, disk, holder >>

\* The process stops and is started again.
Crash ==
  /\ \E c \in Callers : ~ At(c, "idle")
  /\ call' = [c \in Callers |-> NoCall]
  /\ holder' = None
  /\ wiping' = FALSE
  /\ UNCHANGED << row, current, disk >>

Lock(c) == Read(c) \/ BeginInstall(c) \/ NoRoom(c)

CallerStep(c) ==
  InstallFails(c) \/ InstallDone(c) \/ Put(c) \/ Sweep(c) \/ Finish(c)

Next ==
  \/ \E c \in Callers, op \in {"call", "update"} : Ask(c, op)
  \/ \E c \in Callers : Lock(c) \/ CallerStep(c) \/ GoAway(c)
  \/ Edit
  \/ Wipe \/ WipeEnds
  \/ Crash

\* The lock is fair, `npm install` and a call have a deadline, and a task that
\* can run does.
Fairness == \A c \in Callers : SF_vars(Lock(c)) /\ WF_vars(CallerStep(c))

Spec == Init /\ [][Next]_vars /\ Fairness

-----------------------------------------------------------------------------

CallStates == [at : Steps, op : {"call", "update"}, spec : Specs \cup {None},
          install : Installs \cup {None}, previous : Installs \cup {None}, since : 0..2]

TypeOK ==
  /\ row \in DOMAIN Rows /\ wiping \in BOOLEAN
  /\ current \in [install : Installs, spec : Specs] \cup {None}
  /\ disk \in [Installs -> [spec : Specs, whole : BOOLEAN] \cup {None}]
  /\ holder \in Callers \cup {None}
  /\ call \in [Callers -> CallStates]

\* A call under way keeps the files it runs over the update that comes next,
\* whoever makes it and however many others fail: `make_current` keeps the
\* install it replaces.  (The second update deletes them.)
OutlivesUpdate ==
  \A c \in Callers :
    At(c, "using") /\ call[c].since < 2 =>
      disk[call[c].install] = Whole(call[c].spec)

\* A call never starts what an interrupted or failed install left behind, nor
\* a package or version other than the one its row asked for, after whatever
\* stops, edits and deletions (`installed`, `inspect`); and what it started
\* outlives the next update.
RunsItsPackage ==
  [][ /\ \A c \in Callers :
           call[c].at # "using" /\ call'[c].at = "using"
           => disk'[call'[c].install] \in {None, Whole(call[c].spec)}
      /\ OutlivesUpdate' ]_vars

\* Every call and every update ends, though all of them take one lock and any
\* of them may fail or be dropped while it holds it.
EveryCallerEnds == \A c \in Callers : ~ At(c, "idle") ~> At(c, "idle")

-----------------------------------------------------------------------------
(* The inductive invariant behind RunsItsPackage.                          *)

Owns(c) == call[c].at \in {"installing", "made"}

\* Who installs, and nobody else, holds the lock.
HoldsLock(c) == call[c].at \in {"installing", "made", "placed"} <=> holder = c

\* A caller has a spec, and an install while it makes or uses one, and counts updates only
\* while it uses it.
HasInstall(c) ==
  /\ ~ At(c, "idle") => call[c].spec \in Specs
  /\ call[c].at \in {"idle", "asked"} => call[c].install = None /\ call[c].since = 0
  /\ call[c].at \notin {"idle", "asked"} => call[c].install \in Installs
  /\ ~ At(c, "using") => call[c].since # 1

\* An install that is being made is nobody else's.
Apart(c) ==
  Owns(c) =>
    /\ current # None => current.install # call[c].install
    /\ \A x \in Callers \ {c} : call[x].install # call[c].install

\* What an install is, unless it was deleted.
MadeOK(c) ==
  /\ At(c, "installing") =>
       disk[call[c].install] \in {None, [spec |-> call[c].spec, whole |-> FALSE]}
  /\ At(c, "made") \/ At(c, "placed") => disk[call[c].install] \in {None, Whole(call[c].spec)}
  /\ call[c].at \in {"made", "placed", "using"} /\ call[c].since < 2 =>
       disk[call[c].install] = Whole(call[c].spec)

\* What `current.json` names, seen from a caller: what its install replaces,
\* its own, and what it began to use.
CurrentOK(c) ==
  /\ At(c, "made") /\ current # None => call[c].previous = current.install
  /\ At(c, "placed") /\ current # None => current.install = call[c].install
  /\ At(c, "placed") /\ call[c].since < 2 => current # None
  /\ At(c, "using") /\ call[c].since = 0 => current # None /\ current.install = call[c].install

\* Calls that outlived one update use the install the next one will delete.
PreviousOK(c) ==
  At(c, "placed") =>
    \A x \in Callers : At(x, "using") /\ call[x].since = 1 => call[x].install = call[c].previous

Inv ==
  /\ TypeOK
  /\ \A c \in Callers : /\ HoldsLock(c) /\ HasInstall(c) /\ Apart(c) /\ MadeOK(c)
                        /\ CurrentOK(c) /\ PreviousOK(c)
  /\ current # None /\ disk[current.install] # None =>
       disk[current.install] = Whole(current.spec)
=============================================================================
