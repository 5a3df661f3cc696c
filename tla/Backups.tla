------------------------------ MODULE Backups ------------------------------
(***************************************************************************)
(* Setting an instance up, by onboarding or from a backup, and making      *)
(* backups of it (`core/src/backup`, `routes/backup.rs`, POST /onboarding). *)
(*                                                                         *)
(* A visitor of the setup screen sends a file; one import runs at a time,  *)
(* and holds the place until its files are deleted.  Once the file is      *)
(* there the import goes on alone, whoever is still waiting for it.        *)
(* Another visitor may finish the onboarding form meanwhile.  Keys are     *)
(* derived one at a time, in order.  The server may stop at any moment.    *)
(***************************************************************************)
EXTENDS Naturals, Sequences

CONSTANTS Tasks, \* requests, and the work they left running
          Files, \* the backup files visitors have
          Own,   \* the APP_KEY of this instance
          KeyOf, \* the APP_KEY of the instance a file was made on
          None

VARIABLES up,     \* the server runs
          db,     \* the database: [by, key], who set it up and what its secrets
                  \* are encrypted with; by is None while it has no user
          place,  \* the task that holds the place of the one import
          queue,  \* `KeyDerivations`: the tasks that wait, the first one derives
          dirs,   \* the temporary directories on disk, by the task that made them
          task    \* task[t]: [at, file, key], the key of its decrypted copy

vars == << up, db, place, queue, dirs, task >>

Idle == [at |-> "idle", file |-> None, key |-> None]
At(t, step) == task[t].at = step
Goes(t, step) == task' = [task EXCEPT ![t].at = step]
Ends(t) == task' = [task EXCEPT ![t] = Idle]

\* `User::setup_complete`.
IsSetUp == db.by # None

-----------------------------------------------------------------------------

Init ==
  /\ up = TRUE
  /\ db = [by |-> None, key |-> Own]
  /\ place = None
  /\ queue = << >>
  /\ dirs = {}
  /\ task = [t \in Tasks |-> Idle]

\* The guard of the setup routes: the instance has no user yet.
Visit(t) ==
  /\ up /\ At(t, "idle")
  /\ ~IsSetUp
  /\ \E step \in {"form", "password"} : Goes(t, step)
  /\ UNCHANGED << up, db, place, queue, dirs >>

\* POST /onboarding once the password is hashed: the first account, under the
\* write lock, only while there is none.
Onboard(t) ==
  /\ At(t, "password")
  /\ db' = IF IsSetUp THEN db ELSE [by |-> t, key |-> Own]
  /\ Ends(t)
  /\ UNCHANGED << up, place, queue, dirs >>

\* `receive_file`: the first byte of the file takes the place, or finds it
\* taken (`Refused::UnderWay`); a private directory is made.
FirstByte(t) ==
  /\ At(t, "form")
  /\ \/ /\ place = None
        /\ place' = t
        /\ dirs' = dirs \union {t}
        /\ \E f \in Files : task' = [task EXCEPT ![t] = [Idle EXCEPT !.at = "upload", !.file = f]]
     \/ /\ place # None
        /\ Ends(t)
        /\ UNCHANGED << place, dirs >>
  /\ UNCHANGED << up, db, queue >>

\* The file is there and the form is good: `run_import` spawns the import,
\* which reads the header and waits for its key.
RunImport(t) ==
  /\ At(t, "upload")
  /\ queue' = Append(queue, t)
  /\ Goes(t, "key")
  /\ UNCHANGED << up, db, place, dirs >>

\* The form is refused, does not arrive in time (`Interrupted`), or its
\* visitor goes away: `Upload` is dropped.
Interrupted(t) ==
  /\ \/ At(t, "upload") /\ Goes(t, "delete")
     \/ At(t, "form") /\ Ends(t)
     \/ At(t, "password") /\ Ends(t)
  /\ UNCHANGED << up, db, place, queue, dirs >>

\* `derive` of the first in line is done.  An import decrypts its file, and
\* stops at a wrong password, a damaged body or damaged metadata.
Derived(t) ==
  /\ queue # << >> /\ Head(queue) = t
  /\ queue' = Tail(queue)
  /\ \/ /\ At(t, "key")
        /\ task' = [task EXCEPT ![t].at = "prepare", ![t].key = KeyOf[task[t].file]]
     \/ At(t, "key") /\ Goes(t, "delete")
     \/ At(t, "export") /\ Goes(t, "download")
  /\ UNCHANGED << up, db, place, dirs >>

\* `prepare`: the copy is checked, migrated, must name a super admin, and its
\* secrets are encrypted with the key of this instance (`reencrypt`).  Any of
\* these may refuse the file.
Prepare(t) ==
  /\ At(t, "prepare")
  /\ \/ task' = [task EXCEPT ![t].at = "copy", ![t].key = Own]
     \/ Goes(t, "delete")
  /\ UNCHANGED << up, db, place, queue, dirs >>

\* A mutant of CopyRows: what the guard of the route saw is taken to hold.
CopyRowsUnseen(t) ==
  /\ At(t, "copy")
  /\ db' = [by |-> task[t].file, key |-> task[t].key]
  /\ Goes(t, "delete")
  /\ UNCHANGED << up, place, queue, dirs >>

\* `copy_rows`, in one transaction: refused when the instance got a user
\* (`AlreadySetUp`) or the tables differ, rolled back when a statement fails.
CopyRows(t) ==
  /\ At(t, "copy")
  /\ \/ ~IsSetUp /\ db' = [by |-> task[t].file, key |-> task[t].key]
     \/ db' = db
  /\ Goes(t, "delete")
  /\ UNCHANGED << up, place, queue, dirs >>

\* A mutant of DeleteFiles: the place is given back before.
DeleteFilesLast(t) ==
  /\ At(t, "delete")
  /\ place' = None
  /\ Goes(t, "release")
  /\ UNCHANGED << up, db, queue, dirs >>

\* `drop(upload)`: its fields go in order, the directory and then the place.
DeleteFiles(t) ==
  /\ At(t, "delete")
  /\ dirs' = dirs \ {t}
  /\ Goes(t, "release")
  /\ UNCHANGED << up, db, place, queue >>

Release(t) ==
  /\ At(t, "release")
  /\ place' = None
  /\ Ends(t)
  /\ UNCHANGED << up, db, queue, dirs >>

\* POST /settings/backup of a super admin: `Export::prepare` makes a
\* directory, copies the database into it and waits for its key.
StartExport(t) ==
  /\ up /\ At(t, "idle")
  /\ IsSetUp
  /\ dirs' = dirs \union {t}
  /\ queue' = Append(queue, t)
  /\ Goes(t, "export")
  /\ UNCHANGED << up, db, place >>

\* `next_block` hands out the last block, or the download is dropped.
EndExport(t) ==
  /\ At(t, "download")
  /\ dirs' = dirs \ {t}
  /\ Ends(t)
  /\ UNCHANGED << up, db, place, queue >>

\* The server stops: what is on disk stays.
Crash ==
  /\ up
  /\ up' = FALSE
  /\ place' = None
  /\ queue' = << >>
  /\ task' = [t \in Tasks |-> Idle]
  /\ UNCHANGED << db, dirs >>

\* `serve`: `clear_temporary_files` before the first request.
Boot ==
  /\ ~up
  /\ up' = TRUE
  /\ dirs' = {}
  /\ UNCHANGED << db, place, queue, task >>

\* What the server does without anyone's help: every step of an upload ends
\* with the time a form is given (`WHOLE_UPLOAD`), and an import with its own
\* (`IMPORT_DEADLINE`).
Work(t) ==
  \/ RunImport(t) \/ Interrupted(t) \/ Derived(t) \/ Prepare(t) \/ CopyRows(t)
  \/ DeleteFiles(t) \/ Release(t)

Next ==
  \/ \E t \in Tasks :
       Visit(t) \/ Onboard(t) \/ FirstByte(t) \/ Work(t) \/ StartExport(t) \/ EndExport(t)
  \/ Crash \/ Boot

Fairness == \A t \in Tasks : WF_vars(Work(t))

Spec == Init /\ [][Next]_vars /\ Fairness

-----------------------------------------------------------------------------

Keys == {Own} \union {KeyOf[f] : f \in Files}
Works ==
  [at : {"idle", "form", "password", "upload", "key", "prepare", "copy", "delete", "release",
         "export", "download"},
   file : Files \union {None}, key : Keys \union {None}]

\* Every variable has its type.
TypeOK ==
  /\ up \in BOOLEAN
  /\ db \in [by : {None} \union Tasks \union Files, key : Keys]
  /\ place \in {None} \union Tasks
  /\ queue \in Seq(Tasks)
  /\ dirs \subseteq Tasks
  /\ task \in [Tasks -> Works]

\* An instance is set up once: whoever onboarded or imported first keeps it,
\* though others passed the guard of the setup screen before (`copy_rows`,
\* "nobody creates the first account between the check below and the
\* commit").  Its secrets can be read with its own key.
SetUpOnce ==
  /\ [][IsSetUp => db' = db]_vars
  /\ [](db.key = Own)

\* A copy of the database is on disk only while the task that made it uses
\* it, also after a crash, and the one of an import only while that import
\* holds the place (`Upload`, "the directory is gone before the next import
\* may start").
AllUsed ==
  \A t \in dirs :
    \/ task[t].at \in {"export", "download"}
    \/ place = t /\ task[t].at \in {"upload", "key", "prepare", "copy", "delete"}

NoLeftovers == up => AllUsed

\* What a step of a task relies on: while the task imports, the place is its
\* own, and what it copies is encrypted for this instance.
TaskOK(t) ==
  /\ task[t].at \in {"upload", "key", "prepare", "copy", "delete", "release"} => place = t
  /\ task[t].at \in {"upload", "key"} => task[t].file \in Files
  /\ At(t, "copy") => task[t].key = Own

\* The invariant: no task is under way while the server is down.
Inv ==
  /\ TypeOK /\ NoLeftovers
  /\ ~up => place = None /\ \A t \in Tasks : task[t] = Idle
  /\ db.key = Own
  /\ \A t \in Tasks : TaskOK(t)

\* The place of the one import is given back, whatever the file was and
\* wherever its visitor went (`WHOLE_UPLOAD`, "one that stalls must not hold
\* it for good").
PlaceComesBack == \A t \in Tasks : (place = t) ~> (place # t)
=============================================================================
