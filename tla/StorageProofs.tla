--------------------------- MODULE StorageProofs ---------------------------
(***************************************************************************)
(* Proofs about what the server keeps on disk: the backups, the database   *)
(* an import fills, the files agents upload and the log of calls; for any  *)
(* number of visitors, files, uploads and calls.                           *)
(***************************************************************************)
EXTENDS Parts, SequenceTheorems, TLAPS

-----------------------------------------------------------------------------
(* Backups.                                                                *)

\* What holds of the state, whether the server runs or not.
BackupsState ==
  /\ db \in [by : {None} \union Tasks \union Files, key : Bak!Keys] /\ db.key = Own
  /\ place \in {None} \union Tasks /\ keys \in Seq(Tasks) /\ dirs \subseteq Tasks
  /\ task \in [Tasks -> Bak!Works] /\ \A t \in Tasks : Bak!TaskOK(t)

\* The invariant is that of the state, and what the server is doing.
LEMMA BackupsInv ==
  Bak!Inv <=> /\ up \in BOOLEAN /\ BackupsState /\ (up => Bak!AllUsed)
              /\ (~up => place = None /\ \A t \in Tasks : task[t] = Bak!Idle)
BY Zenon DEF Bak!Inv, Bak!TypeOK, Bak!NoLeftovers, BackupsState

\* The server starts without a copy of its database.
LEMMA BackupsInit == Bak!Init => Bak!Inv
<1> SUFFICES ASSUME Bak!Init PROVE Bak!Inv
  OBVIOUS
<1>1. up = TRUE /\ db = [by |-> None, key |-> Own] /\ place = None /\ keys = << >> /\ dirs = {}
  BY DEF Bak!Init
<1>2. Bak!Idle \in Bak!Works
  BY DEF Bak!Idle, Bak!Works
<1>3. task \in [Tasks -> Bak!Works] /\ \A t \in Tasks : task[t].at = "idle"
  BY <1>2 DEF Bak!Init, Bak!Idle
<1>4. db \in [by : {None} \union Tasks \union Files, key : Bak!Keys]
  BY <1>1 DEF Bak!Keys
<1>5. BackupsState /\ Bak!AllUsed
  BY <1>1, <1>3, <1>4 DEF BackupsState, Bak!AllUsed, Bak!TaskOK, Bak!At
<1>6. up \in BOOLEAN /\ up
  BY <1>1, Zenon
<1> QED BY <1>5, <1>6, BackupsInv, Zenon

\* A step of the task t: it may take the place or give it back, and has a
\* directory only while it uses it.
TaskStep(t) ==
  /\ task' \in [Tasks -> Bak!Works] /\ (\A u \in Tasks \ {t} : task'[u] = task[u])
  /\ db' \in [by : {None} \union Tasks \union Files, key : Bak!Keys] /\ db'.key = Own
  /\ keys' \in Seq(Tasks)
  /\ \/ place' = place
     \/ place' = None /\ place = t
     \/ place' = t /\ place = None
  /\ dirs' \subseteq dirs \cup {t} /\ Bak!TaskOK(t)'
  /\ t \in dirs' => \/ task'[t].at \in {"export", "download"}
                    \/ place' = t /\ task'[t].at \in {"upload", "key", "prepare", "copy", "delete"}

\* Such a step keeps what holds of the state.
LEMMA BackupsStep ==
  ASSUME BackupsState, Bak!AllUsed, NEW t \in Tasks, TaskStep(t)
  PROVE  BackupsState' /\ Bak!AllUsed'
<1> USE NoneAssumption DEF Bak!At, BackupsState, TaskStep
<1>1. place' \in {None} \union Tasks /\ dirs' \subseteq Tasks
  OBVIOUS
<1>2. \A u \in Tasks \ {t} : Bak!TaskOK(u)'
  BY DEF Bak!TaskOK
<1>3. Bak!AllUsed'
  <2>1. ASSUME NEW u \in dirs', u # t, task[u].at \notin {"export", "download"}
        PROVE  place' = u
    BY <2>1 DEF Bak!AllUsed
  <2> QED BY <1>1, <2>1 DEF Bak!AllUsed
<1> QED BY <1>1, <1>2, <1>3

\* The place is taken, kept and given back by one import; an import and a
\* backup leave no copy of the database behind.
LEMMA BackupsTask ==
  ASSUME BackupsState, Bak!AllUsed, NEW t \in Tasks,
         \/ Bak!Visit(t) \/ Bak!Onboard(t) \/ Bak!FirstByte(t) \/ Bak!Work(t) \/ Bak!StartExport(t)
         \/ Bak!EndExport(t)
  PROVE  TaskStep(t)
<1> USE NoneAssumption DEF Bak!At
<1>1. /\ place \in {None} \union Tasks /\ keys \in Seq(Tasks) /\ dirs \subseteq Tasks
      /\ db \in [by : {None} \union Tasks \union Files, key : Bak!Keys] /\ db.key = Own
      /\ task \in [Tasks -> Bak!Works] /\ \A u \in Tasks : Bak!TaskOK(u)
      /\ Own \in Bak!Keys
  BY DEF BackupsState, Bak!Keys
<1>2. Bak!Idle \in Bak!Works
  BY DEF Bak!Idle, Bak!Works
<1>5. CASE Bak!Visit(t)
  <2>1. /\ UNCHANGED << db, place, keys, dirs >> /\ task[t].at = "idle"
        /\ \E step \in {"form", "password"} : task' = [task EXCEPT ![t].at = step]
    BY <1>5 DEF Bak!Visit, Bak!Goes
  <2>2. task' \in [Tasks -> Bak!Works] /\ \A u \in Tasks \ {t} : task'[u] = task[u]
    BY <1>1, <2>1 DEF Bak!Works
  <2>3. task'[t].at \in {"form", "password"}
    BY <1>1, <2>1 DEF Bak!Works
  <2>4. t \notin dirs
    BY <2>1 DEF Bak!AllUsed
  <2>9. Bak!TaskOK(t)'
    BY <1>1, <2>1, <2>2, <2>3, <2>4 DEF Bak!TaskOK
  <2> QED BY <1>1, <2>1, <2>2, <2>3, <2>4, <2>9 DEF TaskStep
<1>6. CASE Bak!Onboard(t)
  <2>1. /\ UNCHANGED << place, keys, dirs >> /\ task[t].at = "password"
        /\ task' = [task EXCEPT ![t] = Bak!Idle] /\ db' \in {db, [by |-> t, key |-> Own]}
    BY <1>6 DEF Bak!Onboard, Bak!Ends
  <2>2. task' \in [Tasks -> Bak!Works] /\ \A u \in Tasks \ {t} : task'[u] = task[u]
    BY <1>1, <1>2, <2>1
  <2>3. task'[t].at = "idle"
    BY <1>1, <2>1 DEF Bak!Idle
  <2>4. t \notin dirs
    BY <2>1 DEF Bak!AllUsed
  <2>5. db' \in [by : {None} \union Tasks \union Files, key : Bak!Keys] /\ db'.key = Own
    BY <1>1, <2>1
  <2>9. Bak!TaskOK(t)'
    BY <1>1, <2>1, <2>2, <2>3, <2>4, <2>5 DEF Bak!TaskOK
  <2> QED BY <1>1, <2>1, <2>2, <2>3, <2>4, <2>5, <2>9 DEF TaskStep
<1>7. CASE Bak!FirstByte(t)
  <2>1. UNCHANGED << db, keys >> /\ task[t].at = "form"
    BY <1>7 DEF Bak!FirstByte
  <2>2. CASE place # None
    <3>1. task' = [task EXCEPT ![t] = Bak!Idle] /\ UNCHANGED << place, dirs >>
      BY <1>7, <2>2 DEF Bak!FirstByte, Bak!Ends
    <3>2. task' \in [Tasks -> Bak!Works] /\ \A u \in Tasks \ {t} : task'[u] = task[u]
      BY <1>1, <1>2, <3>1
    <3>3. task'[t].at = "idle"
      BY <1>1, <3>1 DEF Bak!Idle
    <3>4. t \notin dirs
      BY <2>1 DEF Bak!AllUsed
    <3>9. Bak!TaskOK(t)'
      BY <1>1, <2>1, <3>1, <3>2, <3>3, <3>4 DEF Bak!TaskOK
    <3> QED BY <1>1, <2>1, <3>1, <3>2, <3>3, <3>4, <3>9 DEF TaskStep
  <2>3. CASE place = None
    <3>1. PICK f \in Files : task' = [task EXCEPT ![t] = [Bak!Idle EXCEPT !.at = "upload", !.file = f]]
      BY <1>7, <2>3 DEF Bak!FirstByte
    <3>2. place' = t /\ dirs' = dirs \union {t}
      BY <1>7, <2>3 DEF Bak!FirstByte
    <3>3. PICK w : w = [Bak!Idle EXCEPT !.at = "upload", !.file = f]
      OBVIOUS
    <3>4. w \in Bak!Works /\ w.at = "upload" /\ w.file = f
      BY <3>3 DEF Bak!Idle, Bak!Works
    <3>5. /\ task' \in [Tasks -> Bak!Works] /\ \A u \in Tasks \ {t} : task'[u] = task[u]
          /\ task'[t].at = "upload" /\ task'[t].file \in Files
      BY <1>1, <3>1, <3>3, <3>4
    <3>9. Bak!TaskOK(t)'
      BY <1>1, <2>1, <2>3, <3>2, <3>5 DEF Bak!TaskOK
    <3> QED BY <1>1, <2>1, <2>3, <3>2, <3>5, <3>9 DEF TaskStep
  <2> QED BY <2>2, <2>3
<1>8. CASE Bak!RunImport(t)
  <2>1. /\ UNCHANGED << db, place, dirs >> /\ task[t].at = "upload" /\ keys' = Append(keys, t)
        /\ task' = [task EXCEPT ![t].at = "key"]
    BY <1>8 DEF Bak!RunImport, Bak!Goes
  <2>2. /\ task' \in [Tasks -> Bak!Works] /\ \A u \in Tasks \ {t} : task'[u] = task[u]
        /\ task'[t].at = "key"
    BY <1>1, <2>1 DEF Bak!Works
  <2>4. task'[t].file = task[t].file
    BY <1>1, <2>1 DEF Bak!Works
  <2>3. place = t /\ task[t].file \in Files /\ keys' \in Seq(Tasks)
    BY <1>1, <2>1 DEF Bak!TaskOK
  <2>9. Bak!TaskOK(t)'
    BY <1>1, <2>1, <2>2, <2>3 DEF Bak!TaskOK
  <2> QED BY <1>1, <2>1, <2>2, <2>3, <2>9 DEF TaskStep
<1>9. CASE Bak!Interrupted(t)
  <2>1. UNCHANGED << db, place, keys, dirs >>
    BY <1>9 DEF Bak!Interrupted
  <2>2. CASE task[t].at = "upload" /\ task' = [task EXCEPT ![t].at = "delete"]
    <3>1. /\ task' \in [Tasks -> Bak!Works] /\ \A u \in Tasks \ {t} : task'[u] = task[u]
          /\ task'[t].at = "delete"
      BY <1>1, <2>2 DEF Bak!Works
    <3>2. place = t
      BY <1>1, <2>2 DEF Bak!TaskOK
    <3>9. Bak!TaskOK(t)'
      BY <1>1, <2>1, <3>1, <3>2 DEF Bak!TaskOK
    <3> QED BY <1>1, <2>1, <3>1, <3>2, <3>9 DEF TaskStep
  <2>3. CASE task[t].at \in {"form", "password"} /\ task' = [task EXCEPT ![t] = Bak!Idle]
    <3>1. task' \in [Tasks -> Bak!Works] /\ \A u \in Tasks \ {t} : task'[u] = task[u]
      BY <1>1, <1>2, <2>3
    <3>2. task'[t].at = "idle"
      BY <1>1, <2>3 DEF Bak!Idle
    <3>3. t \notin dirs
      BY <2>3 DEF Bak!AllUsed
    <3>9. Bak!TaskOK(t)'
      BY <1>1, <2>1, <3>1, <3>2, <3>3 DEF Bak!TaskOK
    <3> QED BY <1>1, <2>1, <3>1, <3>2, <3>3, <3>9 DEF TaskStep
  <2> QED BY <1>9, <2>2, <2>3 DEF Bak!Interrupted, Bak!Goes, Bak!Ends
<1>10. CASE Bak!Derived(t)
  <2>1. UNCHANGED << db, place, dirs >> /\ keys # << >> /\ keys' = Tail(keys)
    BY <1>10 DEF Bak!Derived
  <2>2. keys' \in Seq(Tasks)
    BY <1>1, <2>1
  <2>3. CASE task[t].at = "key"
    <3>1. place = t /\ task[t].file \in Files /\ KeyOf[task[t].file] \in Bak!Keys
      BY <1>1, <2>3 DEF Bak!TaskOK, Bak!Keys
    <3>2. /\ task' \in [Tasks -> Bak!Works] /\ \A u \in Tasks \ {t} : task'[u] = task[u]
          /\ task'[t].at \in {"prepare", "delete"}
      <4>1. CASE task' = [task EXCEPT ![t].at = "prepare", ![t].key = KeyOf[task[t].file]]
        <5>1. PICK w : w = [task[t] EXCEPT !.at = "prepare", !.key = KeyOf[task[t].file]]
          OBVIOUS
        <5>2. w \in Bak!Works /\ w.at = "prepare"
          BY <1>1, <3>1, <5>1 DEF Bak!Works
        <5>3. task' = [task EXCEPT ![t] = w]
          BY <1>1, <4>1, <5>1
        <5> QED BY <1>1, <5>2, <5>3
      <4>2. CASE task' = [task EXCEPT ![t].at = "delete"]
        BY <1>1, <4>2 DEF Bak!Works
      <4> QED BY <1>10, <2>3, <4>1, <4>2 DEF Bak!Derived, Bak!Goes
    <3>9. Bak!TaskOK(t)'
      BY <1>1, <2>1, <2>2, <3>1, <3>2 DEF Bak!TaskOK
    <3> QED BY <1>1, <2>1, <2>2, <3>1, <3>2, <3>9 DEF TaskStep
  <2>4. CASE task[t].at = "export"
    <3>1. task' = [task EXCEPT ![t].at = "download"]
      BY <1>10, <2>4 DEF Bak!Derived, Bak!Goes
    <3>2. /\ task' \in [Tasks -> Bak!Works] /\ \A u \in Tasks \ {t} : task'[u] = task[u]
          /\ task'[t].at = "download"
      <4>1. PICK w : w = [task[t] EXCEPT !.at = "download"]
        OBVIOUS
      <4>2. w \in Bak!Works /\ w.at = "download"
        BY <1>1, <4>1 DEF Bak!Works
      <4>3. task' = [task EXCEPT ![t] = w]
        BY <1>1, <3>1, <4>1
      <4> QED BY <1>1, <4>2, <4>3
    <3>9. Bak!TaskOK(t)'
      BY <1>1, <2>1, <2>2, <3>1, <3>2 DEF Bak!TaskOK
    <3> QED BY <1>1, <2>1, <2>2, <3>1, <3>2, <3>9 DEF TaskStep
  <2> QED BY <1>10, <2>3, <2>4 DEF Bak!Derived
<1>11. CASE Bak!Prepare(t)
  <2>1. UNCHANGED << db, place, keys, dirs >> /\ task[t].at = "prepare" /\ place = t
    BY <1>1, <1>11 DEF Bak!Prepare, Bak!TaskOK
  <2>2. /\ task' \in [Tasks -> Bak!Works] /\ \A u \in Tasks \ {t} : task'[u] = task[u]
        /\ (task'[t].at = "copy" /\ task'[t].key = Own) \/ task'[t].at = "delete"
    <3>1. CASE task' = [task EXCEPT ![t].at = "copy", ![t].key = Own]
      <4>1. PICK w : w = [task[t] EXCEPT !.at = "copy", !.key = Own]
        OBVIOUS
      <4>2. w \in Bak!Works /\ w.at = "copy" /\ w.key = Own
        BY <1>1, <4>1 DEF Bak!Works
      <4>3. task' = [task EXCEPT ![t] = w]
        BY <1>1, <3>1, <4>1
      <4> QED BY <1>1, <4>2, <4>3
    <3>2. CASE task' = [task EXCEPT ![t].at = "delete"]
      BY <1>1, <3>2 DEF Bak!Works
    <3> QED BY <1>11, <3>1, <3>2 DEF Bak!Prepare, Bak!Goes
  <2>9. Bak!TaskOK(t)'
    BY <1>1, <2>1, <2>2 DEF Bak!TaskOK
  <2> QED BY <1>1, <2>1, <2>2, <2>9 DEF TaskStep
<1>12. CASE Bak!CopyRows(t)
  <2>1. /\ UNCHANGED << place, keys, dirs >> /\ task[t].at = "copy" /\ place = t
        /\ task[t].key = Own
        /\ db' \in {db, [by |-> task[t].file, key |-> task[t].key]}
        /\ task' = [task EXCEPT ![t].at = "delete"]
    BY <1>1, <1>12 DEF Bak!CopyRows, Bak!TaskOK, Bak!Goes
  <2>2. /\ task' \in [Tasks -> Bak!Works] /\ \A u \in Tasks \ {t} : task'[u] = task[u]
        /\ task'[t].at = "delete"
    BY <1>1, <2>1 DEF Bak!Works
  <2>3. task[t].file \in Files \union {None}
    BY <1>1 DEF Bak!Works
  <2>4. db' \in [by : {None} \union Tasks \union Files, key : Bak!Keys] /\ db'.key = Own
    BY <1>1, <2>1, <2>3
  <2>9. Bak!TaskOK(t)'
    BY <1>1, <2>1, <2>2, <2>4 DEF Bak!TaskOK
  <2> QED BY <1>1, <2>1, <2>2, <2>4, <2>9 DEF TaskStep
<1>13. CASE Bak!DeleteFiles(t)
  <2>1. /\ UNCHANGED << db, place, keys >> /\ task[t].at = "delete" /\ place = t
        /\ dirs' = dirs \ {t} /\ task' = [task EXCEPT ![t].at = "release"]
    BY <1>1, <1>13 DEF Bak!DeleteFiles, Bak!TaskOK, Bak!Goes
  <2>2. /\ task' \in [Tasks -> Bak!Works] /\ \A u \in Tasks \ {t} : task'[u] = task[u]
        /\ task'[t].at = "release"
    BY <1>1, <2>1 DEF Bak!Works
  <2>9. Bak!TaskOK(t)'
    BY <1>1, <2>1, <2>2 DEF Bak!TaskOK
  <2> QED BY <1>1, <2>1, <2>2, <2>9 DEF TaskStep
<1>14. CASE Bak!Release(t)
  <2>1. /\ UNCHANGED << db, keys, dirs >> /\ task[t].at = "release" /\ place = t
        /\ place' = None /\ task' = [task EXCEPT ![t] = Bak!Idle] /\ t \notin dirs
    BY <1>1, <1>14 DEF Bak!Release, Bak!TaskOK, Bak!Ends, Bak!AllUsed
  <2>2. task' \in [Tasks -> Bak!Works] /\ \A u \in Tasks \ {t} : task'[u] = task[u]
    BY <1>1, <1>2, <2>1
  <2>3. task'[t].at = "idle"
    BY <1>1, <2>1 DEF Bak!Idle
  <2>9. Bak!TaskOK(t)'
    BY <1>1, <2>1, <2>2, <2>3 DEF Bak!TaskOK
  <2> QED BY <1>1, <2>1, <2>2, <2>3, <2>9 DEF TaskStep
<1>15. CASE Bak!StartExport(t)
  <2>1. /\ UNCHANGED << db, place >> /\ task[t].at = "idle"
        /\ dirs' = dirs \union {t} /\ keys' = Append(keys, t)
        /\ task' = [task EXCEPT ![t].at = "export"]
    BY <1>15 DEF Bak!StartExport, Bak!Goes
  <2>2. /\ task' \in [Tasks -> Bak!Works] /\ \A u \in Tasks \ {t} : task'[u] = task[u]
        /\ task'[t].at = "export"
    BY <1>1, <2>1 DEF Bak!Works
  <2>3. keys' \in Seq(Tasks)
    BY <1>1, <2>1
  <2>9. Bak!TaskOK(t)'
    BY <1>1, <2>1, <2>2, <2>3 DEF Bak!TaskOK
  <2> QED BY <1>1, <2>1, <2>2, <2>3, <2>9 DEF TaskStep
<1>16. CASE Bak!EndExport(t)
  <2>1. /\ UNCHANGED << db, place, keys >> /\ task[t].at = "download"
        /\ dirs' = dirs \ {t} /\ task' = [task EXCEPT ![t] = Bak!Idle]
    BY <1>16 DEF Bak!EndExport, Bak!Ends
  <2>2. task' \in [Tasks -> Bak!Works] /\ \A u \in Tasks \ {t} : task'[u] = task[u]
    BY <1>1, <1>2, <2>1
  <2>3. task'[t].at = "idle"
    BY <1>1, <2>1 DEF Bak!Idle
  <2>9. Bak!TaskOK(t)'
    BY <1>1, <2>1, <2>2, <2>3 DEF Bak!TaskOK
  <2> QED BY <1>1, <2>1, <2>2, <2>3, <2>9 DEF TaskStep
<1> QED
  BY <1>5, <1>6, <1>7, <1>8, <1>9, <1>10, <1>11, <1>12, <1>13, <1>14, <1>15, <1>16 DEF Bak!Work

\* When the server stops, nothing of its tasks is left but the files, and it
\* deletes those before it takes a request again.
LEMMA BackupsNext == Bak!Inv /\ [Bak!Next]_bakVars => Bak!Inv'
<1> SUFFICES ASSUME Bak!Inv, [Bak!Next]_bakVars PROVE Bak!Inv'
  OBVIOUS
<1>1. CASE UNCHANGED bakVars
  <2>1. UNCHANGED << up, db, place, keys, dirs, task >>
    BY <1>1 DEF bakVars
  <2> QED BY <2>1 DEF Bak!Inv, Bak!TypeOK, Bak!NoLeftovers, Bak!AllUsed, Bak!TaskOK, Bak!At
<1>2. ASSUME NEW t \in Tasks,
             \/ Bak!Visit(t) \/ Bak!Onboard(t) \/ Bak!FirstByte(t) \/ Bak!Work(t)
             \/ Bak!StartExport(t) \/ Bak!EndExport(t)
      PROVE  Bak!Inv'
  <2>1. up' = up
    BY <1>2 DEF Bak!Work, Bak!Visit, Bak!Onboard, Bak!FirstByte, Bak!RunImport, Bak!Interrupted,
         Bak!Derived, Bak!Prepare, Bak!CopyRows, Bak!DeleteFiles, Bak!Release, Bak!StartExport,
         Bak!EndExport
  <2>2. up \/ task[t].at # "idle"
    BY <1>2, Zenon DEF Bak!Work, Bak!Visit, Bak!Onboard, Bak!FirstByte, Bak!RunImport,
         Bak!Interrupted, Bak!Derived, Bak!Prepare, Bak!CopyRows, Bak!DeleteFiles, Bak!Release,
         Bak!StartExport, Bak!EndExport, Bak!At
  <2>3. Bak!Idle.at = "idle"
    BY DEF Bak!Idle
  <2>4. up \in BOOLEAN /\ BackupsState /\ (~up => \A u \in Tasks : task[u] = Bak!Idle) /\ (up => Bak!AllUsed)
    BY BackupsInv, Zenon
  <2>5. up
    BY <2>2, <2>3, <2>4, Zenon
  <2>6. BackupsState' /\ Bak!AllUsed'
    BY <1>2, <2>4, <2>5, BackupsTask, BackupsStep, Zenon
  <2>7. BackupsState' /\ Bak!AllUsed' /\ up' \in BOOLEAN /\ up'
    BY <2>1, <2>4, <2>5, <2>6, Zenon
  <2> QED BY <2>7, Zenon DEF Bak!Inv, Bak!TypeOK, Bak!NoLeftovers, BackupsState
<1>3. CASE Bak!Crash
  <2>1. /\ up' = FALSE /\ place' = None /\ keys' = << >> /\ task' = [t \in Tasks |-> Bak!Idle]
        /\ UNCHANGED << db, dirs >>
    BY <1>3, Zenon DEF Bak!Crash
  <2>2. Bak!Idle \in Bak!Works /\ Bak!Idle.at = "idle"
    BY DEF Bak!Idle, Bak!Works
  <2>3. BackupsState
    BY BackupsInv, Zenon
  <2>4. BackupsState'
    BY <2>1, <2>2, <2>3 DEF BackupsState, Bak!TaskOK, Bak!At
  <2>5. place' = None /\ \A t \in Tasks : task'[t] = Bak!Idle
    BY <2>1
  <2>6. up' \in BOOLEAN /\ ~up'
    BY <2>1, Zenon
  <2> QED BY <2>4, <2>5, <2>6, Zenon DEF Bak!Inv, Bak!TypeOK, Bak!NoLeftovers, BackupsState
<1>4. CASE Bak!Boot
  <2>1. up' = TRUE /\ dirs' = {} /\ UNCHANGED << db, place, keys, task >>
    BY <1>4, Zenon DEF Bak!Boot
  <2>2. BackupsState
    BY BackupsInv, Zenon
  <2>3. BackupsState' /\ Bak!AllUsed'
    BY <2>1, <2>2 DEF BackupsState, Bak!AllUsed, Bak!TaskOK, Bak!At
  <2>4. up' \in BOOLEAN /\ up'
    BY <2>1, Zenon
  <2> QED BY <2>3, <2>4, Zenon DEF Bak!Inv, Bak!TypeOK, Bak!NoLeftovers, BackupsState
<1> QED BY <1>1, <1>2, <1>3, <1>4 DEF Bak!Next

\* The one import, its keys and its copy agree.
LEMMA BackupsInvariant == Spec => []Bak!Inv
<1>1. Init => Bak!Inv
  BY BackupsInit DEF Init
<1>2. Bak!Inv /\ [Next]_allVars => Bak!Inv'
  <2>1. [Next]_allVars => [Bak!Next]_bakVars
    BY DEF Next, Moves, allVars, bakVars
  <2> QED BY <2>1, BackupsNext
<1> QED BY <1>1, <1>2, PTL DEF Spec

\* A copy of the database stays on disk only while the backup or the import
\* that made it uses it, and an import's only while it has the place of the one
\* import; for any number of visitors and crashes (`Upload`,
\* `clear_temporary_files`).
THEOREM CopiesAreDeleted == Spec => []NoLeftovers
<1>1. Bak!Inv => NoLeftovers
  BY DEF Bak!Inv, NoLeftovers
<1> QED BY <1>1, BackupsInvariant, PTL

\* Whoever set the instance up keeps it, and its secrets are encrypted with its
\* own key; for any number of visitors (`copy_rows`, `reencrypt`).
THEOREM SetUpIsFinal == Spec => SetUpOnce
<1>1. [Next]_allVars => [Bak!Next]_bakVars
  BY DEF Next, Moves, allVars, bakVars
<1>2. Bak!Inv => db.key = Own
  BY DEF Bak!Inv
<1>3. [Next]_allVars => [Bak!IsSetUp => db' = db]_(Bak!vars)
  <2> SUFFICES ASSUME Bak!Next, Bak!IsSetUp PROVE db' = db
    BY <1>1 DEF bakVars, Bak!vars
  <2> QED
    BY DEF Bak!Next, Bak!Work, Bak!Visit, Bak!Onboard, Bak!FirstByte, Bak!RunImport,
           Bak!Interrupted, Bak!Derived, Bak!Prepare, Bak!CopyRows, Bak!DeleteFiles, Bak!Release,
           Bak!StartExport, Bak!EndExport, Bak!Crash, Bak!Boot
<1>4. Spec => [][Bak!IsSetUp => db' = db]_(Bak!vars)
  BY <1>3, PTL DEF Spec
<1>5. Spec => [](db.key = Own)
  BY <1>2, BackupsInvariant, PTL
<1> QED BY <1>4, <1>5 DEF SetUpOnce, Bak!SetUpOnce

-----------------------------------------------------------------------------
(* UploadStore.                                                            *)

\* What holds of the files, whether their directory exists or not.
UploadsState ==
  /\ hour \in 0..UploadClock /\ mcp \in {"there", "deleted", "gone"}
  /\ file \in [Ids -> Upl!Stored \cup {None}] /\ meta \in [Ids -> Upl!Written \cup {None}]
  /\ work \in [Upl!Actors -> Upl!Works]
  /\ \A t \in Uploads : Upl!UploadOK(t)
  /\ \A a \in {Sweeper, Tool} : Upl!OtherOK(a)
  /\ \A id \in Ids :
       Upl!Intact(id) /\ Upl!Described(id) => Upl!Whole(id, meta[id].by, meta[id].size)
  /\ work[Tool].at = "found" => work[Tool].id \in Ids /\ work[Tool].by \in Uploads
  /\ work[Tool].at = "found" /\ Upl!Intact(work[Tool].id) =>
       Upl!Whole(work[Tool].id, work[Tool].by, work[Tool].size)
  /\ swept \subseteq Ids

\* The invariant is that, and that the directory exists or does not.
LEMMA UploadsInv == Upl!Inv <=> dir \in BOOLEAN /\ UploadsState
BY Zenon DEF Upl!Inv, Upl!TypeOK, UploadsState, Upl!At

\* At first there are no files.
LEMMA UploadsInit == Upl!Init => Upl!Inv
<1> SUFFICES ASSUME Upl!Init PROVE Upl!Inv
  OBVIOUS
<1> USE UploadsAssumption
<1>1. dir \in BOOLEAN
  BY Zenon DEF Upl!Init
<1>2. /\ hour = 0 /\ mcp = "there"
      /\ file = [id \in Ids |-> None] /\ meta = [id \in Ids |-> None] /\ swept = {}
      /\ work = [a \in Upl!Actors |-> Upl!Rest(IF a \in Uploads THEN "new" ELSE "done")]
  BY DEF Upl!Init
<1>3. \A step \in {"new", "done"} : /\ Upl!Rest(step) \in Upl!Works /\ Upl!Rest(step).at = step
                                   /\ Upl!Rest(step).size = 0
  BY DEF Upl!Rest, Upl!Works
<1>4. /\ work \in [Upl!Actors -> Upl!Works]
      /\ \A a \in Upl!Actors : work[a].at \in {"new", "done"} /\ work[a].size = 0
  BY <1>2, <1>3
<1>5. work[Sweeper].at = "done" /\ work[Tool].at = "done"
  BY <1>2, <1>3 DEF Upl!Actors
<1>6. \A t \in Uploads : Upl!UploadOK(t)
  BY <1>4 DEF Upl!UploadOK, Upl!At, Upl!Busy, Upl!Removes, Upl!Actors
<1>7. \A a \in {Sweeper, Tool} : Upl!OtherOK(a)
  BY <1>5 DEF Upl!OtherOK, Upl!Busy, Upl!Removes
<1>8. \A id \in Ids : ~ Upl!Described(id)
  BY <1>2 DEF Upl!Described
<1>9. UploadsState
  BY <1>2, <1>4, <1>5, <1>6, <1>7, <1>8 DEF UploadsState
<1> QED BY <1>1, <1>9, UploadsInv, Zenon

\* An upload that is under way is of a link.
LEMMA UploadsLink ==
  ASSUME UploadsState, NEW t \in Uploads, Upl!Busy(t)
  PROVE  work[t].id \in Ids
BY DEF UploadsState, Upl!UploadOK

\* A step of the actor a changes no file that is another's and no file that is
\* whole, unless that is swept away.
ActorStep(a) ==
  /\ hour' = hour /\ mcp' = mcp
  /\ work' \in [Upl!Actors -> Upl!Works] /\ (\A b \in Upl!Actors \ {a} : work'[b] = work[b])
  /\ file' \in [Ids -> Upl!Stored \cup {None}] /\ meta' \in [Ids -> Upl!Written \cup {None}]
  /\ a \in Uploads => work[a].at # "done" /\ Upl!UploadOK(a)'
  /\ a \notin Uploads => Upl!OtherOK(a)'
  /\ \A id \in Ids : file'[id] # file[id] => file'[id] = None \/ file'[id].by = a
  /\ \A id \in Ids : Upl!Intact(id) /\ file'[id] # file[id] => file[id] = None \/ file[id].by = a
  /\ \A id \in Ids :
       Upl!Intact(id) /\ Upl!Described(id)' => Upl!Whole(id, meta[id].by, meta[id].size)'
  /\ work'[Tool].at = "found" => work'[Tool].id \in Ids /\ work'[Tool].by \in Uploads
  /\ work'[Tool].at = "found" /\ Upl!Intact(work'[Tool].id) =>
       Upl!Whole(work[Tool].id, work[Tool].by, work[Tool].size)'
  /\ swept \subseteq swept' /\ swept' \subseteq Ids

\* Such a step keeps what holds of the files.
LEMMA UploadsStep ==
  ASSUME UploadsState, NEW a \in Upl!Actors, ActorStep(a)
  PROVE  UploadsState'
<1> USE UploadsAssumption DEF ActorStep, Upl!Intact
<1>1. ASSUME NEW u \in Uploads \ {a} PROVE Upl!UploadOK(u)'
  <2>1. Upl!UploadOK(u) /\ work'[u] = work[u] /\ u \in Upl!Actors
    BY DEF UploadsState, Upl!Actors
  <2>2. CASE work[u].at \in {"writing", "describing", "remove_file"}
    <3>1. work[u].id \in Ids
      BY <2>2, UploadsLink DEF Upl!Busy
    <3>2. Upl!Intact(work[u].id) => file'[work[u].id] = file[work[u].id]
      BY <2>1, <2>2, <3>1 DEF Upl!UploadOK
    <3>3. file'[work[u].id] # file[work[u].id] => file'[work[u].id] = None \/ file'[work[u].id].by # u
      BY <3>1
    <3> QED BY <2>1, <3>2, <3>3 DEF Upl!UploadOK, Upl!At, Upl!Busy, Upl!Removes
  <2>3. CASE work[u].at \notin {"writing", "describing", "remove_file"}
    BY <2>1, <2>3 DEF Upl!UploadOK, Upl!At, Upl!Busy, Upl!Removes
  <2> QED BY <2>2, <2>3
<1>2. \A t \in Uploads : Upl!UploadOK(t)'
  BY <1>1
<1>3. ASSUME NEW b \in {Sweeper, Tool} PROVE Upl!OtherOK(b)'
  <2>1. CASE b = a
    BY <2>1
  <2>2. CASE b # a
    BY <2>2 DEF UploadsState, Upl!OtherOK, Upl!Busy, Upl!Removes, Upl!Actors
  <2> QED BY <2>1, <2>2
<1> QED BY <1>2, <1>3 DEF UploadsState

\* A step of the actor a that changes no file and finds none.
LEMMA UploadsQuiet ==
  ASSUME UploadsState, NEW a \in Upl!Actors, UNCHANGED << hour, mcp, file, meta >>,
         work' \in [Upl!Actors -> Upl!Works], \A b \in Upl!Actors \ {a} : work'[b] = work[b],
         a \in Uploads => work[a].at # "done" /\ Upl!UploadOK(a)',
         a \notin Uploads => Upl!OtherOK(a)' /\ work'[a].at # "found",
         swept \subseteq swept', swept' \subseteq Ids
  PROVE  UploadsState'
<1> USE DEF Upl!Intact
<1>1. \A id \in Ids : Upl!Described(id)' <=> Upl!Described(id)
  BY DEF Upl!Described
<1>2. \A t \in Uploads : work[t].at = "done" => work'[t] = work[t]
  BY DEF Upl!Actors
<1>3. ASSUME NEW id \in Ids, NEW t \in Uploads, NEW size, Upl!Whole(id, t, size)
      PROVE  Upl!Whole(id, t, size)'
  BY <1>2, <1>3 DEF Upl!Whole, Upl!At
<1>4. \A id \in Ids : Upl!Described(id) => meta[id].by \in Uploads
  BY DEF Upl!Described, UploadsState, Upl!Written
<1>5. work'[Tool].at = "found" => work'[Tool] = work[Tool]
  BY UploadsAssumption DEF Upl!Actors
<1>6. \A id \in Ids : Upl!Intact(id) /\ Upl!Described(id)' => Upl!Whole(id, meta[id].by, meta[id].size)'
  BY <1>1, <1>3, <1>4 DEF UploadsState
<1>7. work'[Tool].at = "found" /\ Upl!Intact(work'[Tool].id) =>
        Upl!Whole(work[Tool].id, work[Tool].by, work[Tool].size)'
  BY <1>3, <1>5 DEF UploadsState
<1>8. ActorStep(a)
  BY <1>5, <1>6, <1>7 DEF ActorStep, UploadsState
<1> QED BY <1>8, UploadsStep

\* What the records of the actors hold.
LEMMA UploadsTypes ==
  ASSUME UploadsState
  PROVE  /\ work \in [Upl!Actors -> Upl!Works] /\ Uploads \subseteq Upl!Actors
         /\ Sweeper \in Upl!Actors /\ Tool \in Upl!Actors
         /\ hour \in 0..UploadClock /\ hour \in Nat
         /\ file \in [Ids -> Upl!Stored \cup {None}] /\ meta \in [Ids -> Upl!Written \cup {None}]
         /\ swept \subseteq Ids
BY UploadsAssumption DEF UploadsState, Upl!Actors

\* An upload that arrives has its link's time; the sweeper starts now.
LEMMA UploadsArrive ==
  ASSUME UploadsState,
         (\E t \in Uploads, id \in Ids : Upl!Arrive(t, id)) \/ Upl!Prune
  PROVE  UploadsState'
<1> USE UploadsAssumption, UploadsTypes DEF Upl!Intact
<1>1. ASSUME NEW t \in Uploads, NEW id \in Ids, Upl!Arrive(t, id) PROVE UploadsState'
  <2>1. /\ work[t].at = "new" /\ hour < LinkTime /\ UNCHANGED << hour, mcp, file, meta, swept >>
        /\ work' = [work EXCEPT ![t] =
             [@ EXCEPT !.at = "sweeping", !.id = id, !.todo = Ids, !.since = hour]]
    BY <1>1 DEF Upl!Arrive, Upl!At
  <2>2. PICK w : w = [work[t] EXCEPT !.at = "sweeping", !.id = id, !.todo = Ids, !.since = hour]
    OBVIOUS
  <2>7. work[t].size = 0
    BY <2>1 DEF UploadsState, Upl!UploadOK
  <2>3. w \in Upl!Works /\ w.at = "sweeping" /\ w.id = id /\ w.since = hour /\ w.size = 0
    <3>1. PICK u : u = [work[t] EXCEPT !.at = "sweeping"]
      OBVIOUS
    <3>2. PICK v : v = [u EXCEPT !.id = id]
      OBVIOUS
    <3>6. work[t] \in Upl!Works
      OBVIOUS
    <3>3. u \in Upl!Works /\ u.at = "sweeping" /\ u.size = 0
      BY <2>7, <3>1, <3>6 DEF Upl!Works
    <3>4. v \in Upl!Works /\ v.at = "sweeping" /\ v.id = id /\ v.size = 0
      BY <3>2, <3>3 DEF Upl!Works
    <3>5. w = [v EXCEPT !.todo = Ids, !.since = hour]
      BY <2>2, <3>1, <3>2
    <3> QED BY <3>4, <3>5 DEF Upl!Works
  <2>4. work' = [work EXCEPT ![t] = w]
    BY <2>1, <2>2
  <2>5. work' \in [Upl!Actors -> Upl!Works] /\ work'[t] = w /\ \A b \in Upl!Actors \ {t} : work'[b] = work[b]
    BY <2>3, <2>4
  <2>6. Upl!UploadOK(t)'
    BY <2>1, <2>3, <2>5 DEF Upl!UploadOK, Upl!At, Upl!Busy, Upl!Removes
  <2> QED BY <2>1, <2>5, <2>6, UploadsQuiet
<1>2. ASSUME Upl!Prune PROVE UploadsState'
  <2>1. /\ UNCHANGED << hour, mcp, file, meta, swept >>
        /\ work' = [work EXCEPT ![Sweeper] = [@ EXCEPT !.at = "sweeping", !.todo = Ids, !.since = hour]]
    BY <1>2 DEF Upl!Prune
  <2>2. PICK w : w = [work[Sweeper] EXCEPT !.at = "sweeping", !.todo = Ids, !.since = hour]
    OBVIOUS
  <2>3. w \in Upl!Works /\ w.at = "sweeping" /\ w.since = hour
    <3>1. PICK v : v = [work[Sweeper] EXCEPT !.at = "sweeping"]
      OBVIOUS
    <3>2. v \in Upl!Works /\ v.at = "sweeping"
      BY <3>1 DEF Upl!Works
    <3>3. w = [v EXCEPT !.todo = Ids, !.since = hour]
      BY <2>2, <3>1
    <3> QED BY <3>2, <3>3 DEF Upl!Works
  <2>4. work' = [work EXCEPT ![Sweeper] = w]
    BY <2>1, <2>2
  <2>5. work' \in [Upl!Actors -> Upl!Works] /\ work'[Sweeper] = w
        /\ \A b \in Upl!Actors \ {Sweeper} : work'[b] = work[b]
    BY <2>3, <2>4
  <2>6. Upl!OtherOK(Sweeper)'
    BY <2>1, <2>3, <2>5 DEF Upl!OtherOK, Upl!Busy, Upl!Removes
  <2> QED BY <2>1, <2>3, <2>5, <2>6, UploadsQuiet
<1> QED BY <1>1, <1>2

\* Who ends has nothing to do.
LEMMA UploadsEnds ==
  ASSUME UploadsState, NEW a \in Upl!Actors, UNCHANGED << hour, mcp, file, meta, swept >>,
         Upl!Ends(a), a \in Uploads => work[a].at # "done"
  PROVE  UploadsState'
<1> USE UploadsAssumption, UploadsTypes DEF Upl!Intact
<1>1. Upl!Rest("done") \in Upl!Works /\ Upl!Rest("done").at = "done"
  BY DEF Upl!Rest, Upl!Works
<1>2. work' \in [Upl!Actors -> Upl!Works] /\ work'[a].at = "done"
      /\ \A b \in Upl!Actors \ {a} : work'[b] = work[b]
  <2>1. PICK w : w = Upl!Rest("done")
    OBVIOUS
  <2> QED BY <1>1, <2>1 DEF Upl!Ends
<1>3. a \in Uploads => Upl!UploadOK(a)'
  BY <1>2 DEF Upl!UploadOK, Upl!At, Upl!Busy, Upl!Removes
<1>4. Upl!OtherOK(a)' /\ work'[a].at # "found"
  BY <1>2 DEF Upl!OtherOK, Upl!Busy, Upl!Removes
<1> QED BY <1>2, <1>3, <1>4, UploadsQuiet

\* A sweep discards what has expired, which an upload does not see.
LEMMA UploadsSweep ==
  ASSUME UploadsState, NEW a \in Upl!Actors, NEW id \in Ids, Upl!Sweep(a, id)
  PROVE  UploadsState'
<1> USE UploadsAssumption, UploadsTypes DEF Upl!Intact
<1> DEFINE expires == IF Upl!Described(id) THEN meta[id].expires ELSE file[id].modified + KeptTime
           expired == file[id] # None /\ expires <= work[a].since
           bytes == IF a = Sweeper THEN 0 ELSE work[a].bytes + file[id].size
           seen == [work[a] EXCEPT !.todo = @ \ {id}]
           new == IF file[id] = None THEN seen
                  ELSE IF expired
                    THEN [seen EXCEPT !.at = "remove_file", !.victim = id, !.back = "sweeping"]
                  ELSE [seen EXCEPT !.files = work[a].files + 1, !.bytes = bytes]
<1>1. /\ work[a].at = "sweeping" /\ UNCHANGED << hour, mcp, file, meta >>
      /\ work' = [work EXCEPT ![a] = new]
      /\ swept' = IF expired THEN swept \cup {id} ELSE swept
  BY DEF Upl!Sweep, Upl!At
<1>2. PICK w : w = new
  OBVIOUS
<1>3. PICK v : v = seen
  OBVIOUS
<1>4. v \in Upl!Works /\ v.at = "sweeping" /\ v.id = work[a].id /\ v.since = work[a].since
      /\ v.size = work[a].size
  BY <1>1, <1>3 DEF Upl!Works
<1>5. file[id] # None => file[id].size \in Nat /\ expires >= KeptTime /\ expires \in Nat
  BY DEF Upl!Described, Upl!Stored, Upl!Written
<1>6. /\ w \in Upl!Works /\ w.id = work[a].id /\ w.since = work[a].since /\ w.size = work[a].size
      /\ \/ w.at = "sweeping"
         \/ w.at = "remove_file" /\ w.victim = id /\ expired /\ work[a].since >= KeptTime
  <2>1. CASE file[id] = None
    BY <1>2, <1>3, <1>4, <2>1
  <2>2. CASE file[id] # None /\ expires <= work[a].since
    <3>1. w = [v EXCEPT !.at = "remove_file", !.victim = id, !.back = "sweeping"]
      BY <1>2, <1>3, <2>2
    <3>2. w \in Upl!Works /\ w.at = "remove_file" /\ w.victim = id /\ w.id = v.id /\ w.since = v.since
          /\ w.size = v.size
      BY <1>4, <3>1 DEF Upl!Works
    <3>3. work[a].since \in Nat
      BY DEF Upl!Works
    <3> QED BY <1>4, <1>5, <2>2, <3>2, <3>3
  <2>3. CASE file[id] # None /\ ~(expires <= work[a].since)
    <3>1. w = [v EXCEPT !.files = work[a].files + 1, !.bytes = bytes]
      BY <1>2, <1>3, <2>3
    <3>2. work[a].files + 1 \in Nat /\ bytes \in Nat
      BY <1>5, <2>3 DEF Upl!Works
    <3> HIDE DEF bytes
    <3> QED BY <1>4, <3>1, <3>2 DEF Upl!Works
  <2> QED BY <2>1, <2>2, <2>3
<1>11. swept \subseteq swept' /\ swept' \subseteq Ids /\ (expired => id \in swept')
  BY <1>1
<1> HIDE DEF expires, expired, seen, bytes, new
<1>7. work' = [work EXCEPT ![a] = w]
  BY <1>1, <1>2
<1>8. work' \in [Upl!Actors -> Upl!Works] /\ work'[a] = w /\ \A b \in Upl!Actors \ {a} : work'[b] = work[b]
  BY <1>6, <1>7
<1>9. CASE a \in Uploads
  <2>1. work[a].since < LinkTime /\ Upl!UploadOK(a) /\ work[a].since \in Nat
    BY <1>1, <1>9 DEF UploadsState, Upl!UploadOK, Upl!Busy, Upl!Works
  <2>2. w.at = "sweeping"
    BY <1>6, <2>1
  <2>3. Upl!UploadOK(a)'
    BY <1>1, <1>6, <1>8, <2>1, <2>2 DEF Upl!UploadOK, Upl!At, Upl!Busy, Upl!Removes
  <2> QED BY <1>1, <1>8, <1>9, <1>11, <2>3, UploadsQuiet
<1>10. CASE a \notin Uploads
  <2>1. Upl!OtherOK(a)' /\ work'[a].at # "found"
    BY <1>6, <1>8, <1>11 DEF Upl!OtherOK, Upl!Removes
  <2> QED BY <1>1, <1>8, <1>10, <1>11, <2>1, UploadsQuiet
<1> QED BY <1>9, <1>10

\* `discard` begins: an upload discards the file it made, the others what has
\* expired.
LEMMA UploadsDiscards ==
  ASSUME UploadsState, NEW t \in Uploads, UNCHANGED << hour, mcp, file, meta, swept >>,
         work[t].at \in {"writing", "describing"}, Upl!Discards(t, work[t].id, "done")
  PROVE  UploadsState'
<1> USE UploadsAssumption, UploadsTypes DEF Upl!Intact
<1>1. /\ work[t] \in Upl!Works /\ Upl!UploadOK(t)
      /\ work[t].id \in Ids /\ work[t].since < LinkTime
  BY DEF UploadsState, Upl!UploadOK, Upl!Busy
<1>2. PICK v : v = [work[t] EXCEPT !.at = "remove_file", !.victim = work[t].id]
  OBVIOUS
<1>3. /\ v \in Upl!Works /\ v.at = "remove_file" /\ v.victim = work[t].id
      /\ v.id = work[t].id /\ v.since = work[t].since /\ v.size = work[t].size
  BY <1>1, <1>2 DEF Upl!Works
<1>4. PICK w : w = [v EXCEPT !.back = "done"]
  OBVIOUS
<1>5. /\ w \in Upl!Works /\ w.at = "remove_file" /\ w.victim = work[t].id /\ w.back = "done"
      /\ w.id = work[t].id /\ w.since = work[t].since /\ w.size = work[t].size
  BY <1>3, <1>4 DEF Upl!Works
<1>6. work' = [work EXCEPT ![t] = w]
  BY <1>2, <1>4 DEF Upl!Discards
<1>7. work' \in [Upl!Actors -> Upl!Works] /\ work'[t] = w /\ \A b \in Upl!Actors \ {t} : work'[b] = work[b]
  BY <1>5, <1>6
<1>8. Upl!UploadOK(t)'
  BY <1>1, <1>5, <1>7 DEF Upl!UploadOK, Upl!At, Upl!Busy, Upl!Removes
<1> QED BY <1>7, <1>8, UploadsQuiet

\* `save` admits the file, or refuses it.
LEMMA UploadsAdmit ==
  ASSUME UploadsState, NEW t \in Uploads, Upl!Admit(t)
  PROVE  UploadsState'
<1> USE UploadsAssumption, UploadsTypes DEF Upl!Intact
<1>1. work[t].at = "sweeping" /\ UNCHANGED << hour, mcp, file, meta, swept >> /\ t \in Upl!Actors
  BY DEF Upl!Admit, Upl!At
<1>2. CASE Upl!Ends(t)
  BY <1>1, <1>2, UploadsEnds
<1>3. CASE /\ work[t].bytes < MAX_STORED_BYTES
           /\ work' = [work EXCEPT ![t] =
                [@ EXCEPT !.at = "open", !.bytes = MAX_STORED_BYTES - work[t].bytes, !.files = 0]]
  <2>1. /\ work[t] \in Upl!Works /\ Upl!UploadOK(t)
        /\ work[t].id \in Ids /\ work[t].since < LinkTime
    BY <1>1 DEF UploadsState, Upl!UploadOK, Upl!Busy
  <2>2. MAX_STORED_BYTES - work[t].bytes \in Nat
    BY <1>3, <2>1 DEF Upl!Works
  <2>3. PICK w : w = [work[t] EXCEPT !.at = "open", !.bytes = MAX_STORED_BYTES - work[t].bytes, !.files = 0]
    OBVIOUS
  <2>4. PICK v : v = [work[t] EXCEPT !.at = "open", !.files = 0]
    OBVIOUS
  <2>5. v \in Upl!Works /\ v.at = "open" /\ v.id = work[t].id /\ v.since = work[t].since
        /\ v.size = work[t].size
    BY <2>1, <2>4 DEF Upl!Works
  <2>6. w = [v EXCEPT !.bytes = MAX_STORED_BYTES - work[t].bytes]
    BY <2>1, <2>3, <2>4 DEF Upl!Works
  <2>7. w \in Upl!Works /\ w.at = "open" /\ w.id = work[t].id /\ w.since = work[t].since
        /\ w.size = work[t].size
    BY <2>2, <2>5, <2>6 DEF Upl!Works
  <2>8. work' = [work EXCEPT ![t] = w]
    BY <1>3, <2>3
  <2>9. work' \in [Upl!Actors -> Upl!Works] /\ work'[t] = w /\ \A b \in Upl!Actors \ {t} : work'[b] = work[b]
    BY <2>7, <2>8
  <2>10. Upl!UploadOK(t)'
    BY <1>1, <2>1, <2>7, <2>9 DEF Upl!UploadOK, Upl!At, Upl!Busy, Upl!Removes
  <2> QED BY <1>1, <2>9, <2>10, UploadsQuiet
<1>4. work[t].bytes \in Nat
  BY <1>1 DEF Upl!Works
<1> QED BY <1>2, <1>3, <1>4 DEF Upl!Admit

\* The whole files stay what they are while another file changes.
LEMMA UploadsKept ==
  ASSUME UploadsState, NEW t \in Uploads, NEW id \in Ids, mcp' = mcp, hour' = hour,
         work[t].at \notin {"new", "done"}, Upl!UploadOK(t), work[t].id = id,
         \A b \in Upl!Actors \ {t} : work'[b] = work[b],
         \A i \in Ids \ {id} : file'[i] = file[i], UNCHANGED meta,
         Upl!Intact(id) => file[id] = None \/ file[id].by = t
  PROVE  /\ \A i \in Ids :
              Upl!Intact(i) /\ Upl!Described(i)' => Upl!Whole(i, meta[i].by, meta[i].size)'
         /\ work'[Tool].at = "found" => work'[Tool].id \in Ids /\ work'[Tool].by \in Uploads
         /\ work'[Tool].at = "found" /\ Upl!Intact(work'[Tool].id) =>
              Upl!Whole(work[Tool].id, work[Tool].by, work[Tool].size)'
<1> USE UploadsAssumption, UploadsTypes DEF Upl!Intact
<1>2. ASSUME NEW i \in Ids, NEW u \in Uploads, NEW size, Upl!Whole(i, u, size), Upl!Intact(i)
      PROVE  Upl!Whole(i, u, size)'
  <2>1. u # t /\ work'[u] = work[u]
    BY <1>2 DEF Upl!Whole, Upl!At
  <2>2. i # id
    BY <1>2, <2>1 DEF Upl!Whole
  <2> QED BY <1>2, <2>1, <2>2 DEF Upl!Whole, Upl!At
<1>3. \A i \in Ids : (Upl!Described(i)' <=> Upl!Described(i)) /\ (Upl!Described(i) => meta[i].by \in Uploads)
  BY DEF Upl!Described, Upl!Written
<1>4. work'[Tool] = work[Tool]
  OBVIOUS
<1>5. \A i \in Ids : Upl!Intact(i) /\ Upl!Described(i)' => Upl!Whole(i, meta[i].by, meta[i].size)'
  BY <1>2, <1>3 DEF UploadsState
<1> QED BY <1>2, <1>4, <1>5 DEF UploadsState

\* A file is made only under a name that is free.
LEMMA UploadsOpen ==
  ASSUME UploadsState, NEW t \in Uploads, Upl!Open(t)
  PROVE  UploadsState'
<1> USE UploadsAssumption, UploadsTypes DEF Upl!Intact
<1>1. work[t].at = "open" /\ UNCHANGED << hour, mcp, meta, swept >> /\ t \in Upl!Actors
  BY DEF Upl!Open, Upl!At
<1>2. CASE Upl!Ends(t) /\ UNCHANGED file
  BY <1>1, <1>2, UploadsEnds
<1>3. CASE /\ file[work[t].id] = None
           /\ file' = [file EXCEPT ![work[t].id] = [by |-> t, size |-> 0, modified |-> hour]]
           /\ work' = [work EXCEPT ![t].at = "writing"]
  <2>1. /\ work[t] \in Upl!Works /\ Upl!UploadOK(t)
        /\ work[t].id \in Ids /\ work[t].since < LinkTime
    BY <1>1 DEF UploadsState, Upl!UploadOK, Upl!Busy
  <2> DEFINE id == work[t].id
  <2>2. [by |-> t, size |-> 0, modified |-> hour] \in Upl!Stored
    BY DEF Upl!Stored
  <2>3. /\ file' \in [Ids -> Upl!Stored \cup {None}] /\ file'[id].by = t /\ file'[id].size = 0
        /\ file'[id] # None
        /\ \A i \in Ids \ {id} : file'[i] = file[i]
    BY <1>3, <2>1, <2>2
  <2>4. /\ work' \in [Upl!Actors -> Upl!Works] /\ \A b \in Upl!Actors \ {t} : work'[b] = work[b]
    BY <1>3, <2>1 DEF Upl!Works
  <2>5. /\ work'[t].at = "writing" /\ work'[t].id = id /\ work'[t].since = work[t].since
        /\ work'[t].size = work[t].size
    BY <1>3, <2>1 DEF Upl!Works
  <2>6. work[t].size = 0
    BY <1>1 DEF UploadsState, Upl!UploadOK
  <2>7. Upl!UploadOK(t)'
    BY <1>1, <2>1, <2>3, <2>5, <2>6 DEF Upl!UploadOK, Upl!At, Upl!Busy, Upl!Removes
  <2>8. ActorStep(t)
    BY <1>1, <1>3, <2>1, <2>3, <2>4, <2>7, UploadsKept DEF ActorStep
  <2> QED BY <2>8, UploadsStep
<1> QED BY <1>2, <1>3 DEF Upl!Open

\* A piece is added to the file, unless that was deleted with its MCP.
LEMMA UploadsWrite ==
  ASSUME UploadsState, NEW t \in Uploads, Upl!Write(t)
  PROVE  UploadsState'
<1> USE UploadsAssumption, UploadsTypes DEF Upl!Intact
<1> DEFINE id == work[t].id
<1>1. /\ work[t].at = "writing" /\ UNCHANGED << hour, mcp, meta, swept >> /\ t \in Upl!Actors
      /\ work[t].size < MaxBytes
      /\ work' = [work EXCEPT ![t].size = work[t].size + 1]
      /\ file' = IF file[id] # None /\ file[id].by = t
                   THEN [file EXCEPT ![id].size = file[id].size + 1, ![id].modified = hour]
                   ELSE file
  BY DEF Upl!Write, Upl!At
<1>2. /\ work[t] \in Upl!Works /\ Upl!UploadOK(t) /\ id \in Ids
      /\ work[t].since < LinkTime
      /\ work[t].size \in Nat
  BY <1>1 DEF UploadsState, Upl!UploadOK, Upl!Busy, Upl!Works
<1>3. /\ work' \in [Upl!Actors -> Upl!Works] /\ \A b \in Upl!Actors \ {t} : work'[b] = work[b]
  BY <1>1, <1>2 DEF Upl!Works
<1>4. /\ work'[t].at = "writing" /\ work'[t].id = id /\ work'[t].since = work[t].since
      /\ work'[t].size = work[t].size + 1
  BY <1>1, <1>2 DEF Upl!Works
<1>5. CASE ~(file[id] # None /\ file[id].by = t)
  <2>1. file' = file
    BY <1>1, <1>5
  <2>2. Upl!UploadOK(t)'
    BY <1>1, <1>2, <1>4, <1>5, <2>1 DEF Upl!UploadOK, Upl!At, Upl!Busy, Upl!Removes
  <2> QED BY <1>1, <1>3, <2>1, <2>2, UploadsQuiet
<1>6. CASE file[id] # None /\ file[id].by = t
  <2>1. file[id] \in Upl!Stored /\ file[id].size = work[t].size
    BY <1>1, <1>2, <1>6 DEF Upl!UploadOK
  <2>2. PICK f : f = [file[id] EXCEPT !.size = work[t].size + 1, !.modified = hour]
    OBVIOUS
  <2>9. work[t].size + 1 \in 0..MaxBytes
    BY <1>1, <1>2
  <2>3. f \in Upl!Stored /\ f.by = t /\ f.size = work[t].size + 1
    BY <1>6, <2>1, <2>2, <2>9 DEF Upl!Stored
  <2>4. file' = [file EXCEPT ![id] = f]
    BY <1>1, <1>2, <1>6, <2>1, <2>2
  <2>5. /\ file' \in [Ids -> Upl!Stored \cup {None}] /\ file'[id] = f /\ f # None
        /\ \A i \in Ids \ {id} : file'[i] = file[i]
    BY <1>2, <2>3, <2>4
  <2>6. Upl!UploadOK(t)'
    BY <1>1, <1>2, <1>4, <2>3, <2>5 DEF Upl!UploadOK, Upl!At, Upl!Busy, Upl!Removes
  <2> HIDE DEF id
  <2>7. work[t].id = id
    BY DEF id
  <2>8. ActorStep(t)
    BY <1>1, <1>2, <1>3, <1>6, <2>3, <2>5, <2>6, <2>7, UploadsKept DEF ActorStep
  <2> QED BY <1>1, <2>8, UploadsStep
<1> QED BY <1>5, <1>6

\* The metadata is made when the file is there, not yet readable.
LEMMA UploadsDescribe ==
  ASSUME UploadsState, NEW t \in Uploads, Upl!Describe(t)
  PROVE  UploadsState'
<1> USE UploadsAssumption, UploadsTypes DEF Upl!Intact
<1> DEFINE id == work[t].id
<1>1. /\ work[t].at = "writing" /\ work[t].size > 0 /\ UNCHANGED << hour, mcp, file, swept >>
      /\ t \in Upl!Actors
  BY DEF Upl!Describe, Upl!At
<1>2. CASE Upl!Discards(t, id, "done") /\ UNCHANGED meta
  BY <1>1, <1>2, UploadsDiscards
<1>3. CASE /\ meta' = [meta EXCEPT ![id] = [by |-> t, size |-> 0, expires |-> hour + KeptTime]]
           /\ work' = [work EXCEPT ![t].at = "describing"]
  <2>1. /\ work[t] \in Upl!Works /\ Upl!UploadOK(t) /\ id \in Ids
        /\ work[t].since < LinkTime
    BY <1>1 DEF UploadsState, Upl!UploadOK, Upl!Busy
  <2>2. [by |-> t, size |-> 0, expires |-> hour + KeptTime] \in Upl!Written
    BY DEF Upl!Written
  <2>3. /\ meta' \in [Ids -> Upl!Written \cup {None}] /\ meta'[id].size = 0
        /\ \A i \in Ids \ {id} : meta'[i] = meta[i]
    BY <1>3, <2>1, <2>2
  <2>4. /\ work' \in [Upl!Actors -> Upl!Works] /\ \A b \in Upl!Actors \ {t} : work'[b] = work[b]
    BY <1>3, <2>1 DEF Upl!Works
  <2>5. /\ work'[t].at = "describing" /\ work'[t].id = id /\ work'[t].since = work[t].since
        /\ work'[t].size = work[t].size
    BY <1>3, <2>1 DEF Upl!Works
  <2>6. Upl!UploadOK(t)'
    BY <1>1, <2>1, <2>5 DEF Upl!UploadOK, Upl!At, Upl!Busy, Upl!Removes
  <2>7. \A i \in Ids : Upl!Described(i)' => Upl!Described(i) /\ meta'[i] = meta[i] /\ meta[i].by \in Uploads
    BY <2>3 DEF Upl!Described, Upl!Written
  <2>8. \A i \in Ids, u \in Uploads, size \in Nat : Upl!Whole(i, u, size) => Upl!Whole(i, u, size)'
    BY <1>1, <2>4 DEF Upl!Whole, Upl!At
  <2>9. work'[Tool] = work[Tool] /\ work[Tool].size \in Nat
    BY <2>4 DEF Upl!Works
  <2>10. \A i \in Ids : Upl!Intact(i) /\ Upl!Described(i)' => Upl!Whole(i, meta[i].by, meta[i].size)'
    BY <2>7, <2>8 DEF UploadsState, Upl!Described, Upl!Written
  <2>11. work'[Tool].at = "found" /\ Upl!Intact(work'[Tool].id) =>
           Upl!Whole(work[Tool].id, work[Tool].by, work[Tool].size)'
    BY <2>8, <2>9 DEF UploadsState
  <2>12. ActorStep(t)
    BY <1>1, <2>3, <2>4, <2>6, <2>9, <2>10, <2>11 DEF ActorStep, UploadsState
  <2> QED BY <1>1, <2>12, UploadsStep
<1> QED BY <1>2, <1>3 DEF Upl!Describe

\* With its metadata a file is whole.
LEMMA UploadsReceipt ==
  ASSUME UploadsState, NEW t \in Uploads, Upl!Receipt(t)
  PROVE  UploadsState'
<1> USE UploadsAssumption, UploadsTypes DEF Upl!Intact
<1>5. work[t].id \in Ids /\ t \in Upl!Actors
  BY UploadsLink DEF Upl!Receipt, Upl!At, Upl!Busy
<1>6. PICK id \in Ids : id = work[t].id
  BY <1>5
<1>1. /\ work[t].at = "describing" /\ UNCHANGED << hour, mcp, file, swept >> /\ t \in Upl!Actors
      /\ meta' = IF meta[id] # None /\ meta[id].by = t
                   THEN [meta EXCEPT ![id].size = work[t].size] ELSE meta
      /\ Upl!Ends(t)
  BY <1>5, <1>6 DEF Upl!Receipt, Upl!At
<1>2. /\ work[t] \in Upl!Works /\ Upl!UploadOK(t) /\ id \in Ids
      /\ work[t].since < LinkTime
  BY <1>1 DEF UploadsState, Upl!UploadOK, Upl!Busy
<1>3. CASE ~(meta[id] # None /\ meta[id].by = t)
  BY <1>1, <1>3, UploadsEnds
<1>4. CASE meta[id] # None /\ meta[id].by = t
  <2>16. PICK n \in 0..MaxBytes : n = work[t].size
    BY <1>2 DEF Upl!Works
  <2>1. Upl!Rest("done") \in Upl!Works /\ Upl!Rest("done").at = "done"
    BY DEF Upl!Rest, Upl!Works
  <2>2. work' \in [Upl!Actors -> Upl!Works] /\ work'[t].at = "done"
        /\ \A b \in Upl!Actors \ {t} : work'[b] = work[b]
    <3>1. PICK w : w = Upl!Rest("done")
      OBVIOUS
    <3> QED BY <1>1, <2>1, <3>1 DEF Upl!Ends
  <2>3. Upl!UploadOK(t)'
    BY <2>2 DEF Upl!UploadOK, Upl!At, Upl!Busy, Upl!Removes
  <2>4. meta[id] \in Upl!Written
    BY <1>2, <1>4
  <2>5. PICK m : m = [meta[id] EXCEPT !.size = work[t].size]
    OBVIOUS
  <2>6. m \in Upl!Written /\ m.by = t /\ m.size = work[t].size
    BY <1>2, <1>4, <2>4, <2>5 DEF Upl!Written, Upl!Works
  <2>7. meta' = [meta EXCEPT ![id] = m]
    BY <1>1, <1>4, <2>5
  <2>8. /\ meta' \in [Ids -> Upl!Written \cup {None}] /\ meta'[id] = m
        /\ \A i \in Ids \ {id} : meta'[i] = meta[i]
    BY <1>2, <2>6, <2>7
  <2>9. Upl!Intact(id) => Upl!Whole(id, t, n)'
    <3>1. Upl!Intact(id) => file[id] # None /\ file[id].by = t /\ file[id].size = n
      BY <1>1, <1>2, <1>6, <2>16 DEF Upl!UploadOK
    <3>2. (Upl!At(t, "done"))'
      BY <2>2 DEF Upl!At
    <3> QED BY <1>1, <3>1, <3>2 DEF Upl!Whole
  <2>10. \A i \in Ids, u \in Uploads, size \in Nat : Upl!Whole(i, u, size) => Upl!Whole(i, u, size)'
    BY <1>1, <2>2 DEF Upl!Whole, Upl!At
  <2>11. \A i \in Ids \ {id} : Upl!Described(i)' => Upl!Described(i) /\ meta[i].by \in Uploads /\ meta[i].size \in Nat
    BY <2>8 DEF Upl!Described, Upl!Written
  <2>12. work'[Tool] = work[Tool] /\ work[Tool].size \in Nat
    BY <2>2 DEF Upl!Works
  <2>13. \A i \in Ids : Upl!Intact(i) /\ Upl!Described(i)' => Upl!Whole(i, meta[i].by, meta[i].size)'
    <3>1. Upl!Intact(id) => Upl!Whole(id, meta[id].by, meta[id].size)'
      BY <2>6, <2>8, <2>9, <2>16
    <3>2. ASSUME NEW i \in Ids \ {id}, Upl!Intact(i), Upl!Described(i)'
          PROVE  Upl!Whole(i, meta[i].by, meta[i].size)'
      <4>1. Upl!Whole(i, meta[i].by, meta[i].size) /\ meta'[i] = meta[i]
        BY <2>8, <2>11, <3>2 DEF UploadsState
      <4> QED BY <2>10, <2>11, <3>2, <4>1
    <3> QED BY <3>1, <3>2
  <2>14. work'[Tool].at = "found" /\ Upl!Intact(work'[Tool].id) =>
           Upl!Whole(work[Tool].id, work[Tool].by, work[Tool].size)'
    BY <2>10, <2>12 DEF UploadsState
  <2>15. ActorStep(t)
    BY <1>1, <2>2, <2>3, <2>8, <2>12, <2>13, <2>14 DEF ActorStep, UploadsState
  <2> QED BY <1>1, <2>15, UploadsStep
<1> QED BY <1>3, <1>4

\* What a tool finds is whole, or has expired and is discarded.
LEMMA UploadsFind ==
  ASSUME UploadsState, NEW id \in Ids, Upl!Find(id)
  PROVE  UploadsState'
<1> USE UploadsAssumption, UploadsTypes DEF Upl!Intact
<1>1. /\ work[Tool].at = "done" /\ Upl!Described(id) /\ UNCHANGED << hour, mcp, file, meta >>
      /\ work[Tool] \in Upl!Works /\ meta[id] \in Upl!Written
  BY DEF Upl!Find, Upl!At, Upl!Described
<1>2. CASE /\ meta[id].expires <= hour /\ swept' = swept \cup {id}
           /\ work' = [work EXCEPT ![Tool] =
                [@ EXCEPT !.at = "remove_file", !.victim = id, !.since = hour]]
  <2>1. PICK v : v = [work[Tool] EXCEPT !.at = "remove_file", !.victim = id]
    OBVIOUS
  <2>2. v \in Upl!Works /\ v.at = "remove_file" /\ v.victim = id
    BY <1>1, <2>1 DEF Upl!Works
  <2>3. PICK w : w = [v EXCEPT !.since = hour]
    OBVIOUS
  <2>4. w \in Upl!Works /\ w.at = "remove_file" /\ w.victim = id /\ w.since = hour
    BY <2>2, <2>3 DEF Upl!Works
  <2>5. work' = [work EXCEPT ![Tool] = w]
    BY <1>2, <2>1, <2>3
  <2>6. /\ work' \in [Upl!Actors -> Upl!Works] /\ work'[Tool] = w
        /\ \A b \in Upl!Actors \ {Tool} : work'[b] = work[b]
    BY <2>4, <2>5
  <2>7. swept \subseteq swept' /\ swept' \subseteq Ids /\ id \in swept'
    BY <1>2
  <2>8. Upl!OtherOK(Tool)'
    BY <1>1, <2>4, <2>6, <2>7 DEF Upl!OtherOK, Upl!Busy, Upl!Removes
  <2> QED BY <1>1, <2>4, <2>6, <2>7, <2>8, UploadsQuiet
<1>3. CASE /\ swept' = swept
           /\ work' = [work EXCEPT ![Tool] =
                [@ EXCEPT !.at = "found", !.id = id, !.by = meta[id].by, !.size = meta[id].size,
                          !.since = hour]]
  <2>1. PICK v : v = [work[Tool] EXCEPT !.at = "found", !.id = id]
    OBVIOUS
  <2>2. v \in Upl!Works /\ v.at = "found" /\ v.id = id
    BY <1>1, <2>1 DEF Upl!Works
  <2>3. PICK u : u = [v EXCEPT !.by = meta[id].by, !.size = meta[id].size]
    OBVIOUS
  <2>4. u \in Upl!Works /\ u.at = "found" /\ u.id = id /\ u.by = meta[id].by /\ u.size = meta[id].size
    BY <1>1, <2>2, <2>3 DEF Upl!Works, Upl!Written
  <2>5. PICK w : w = [u EXCEPT !.since = hour]
    OBVIOUS
  <2>6. w \in Upl!Works /\ w.at = "found" /\ w.id = id /\ w.by = meta[id].by /\ w.size = meta[id].size
        /\ w.since = hour
    BY <2>4, <2>5 DEF Upl!Works
  <2>7. work' = [work EXCEPT ![Tool] = w]
    BY <1>3, <2>1, <2>3, <2>5
  <2>8. /\ work' \in [Upl!Actors -> Upl!Works] /\ work'[Tool] = w
        /\ \A b \in Upl!Actors \ {Tool} : work'[b] = work[b]
    BY <2>6, <2>7
  <2>9. Upl!OtherOK(Tool)'
    BY <1>1, <2>6, <2>8 DEF Upl!OtherOK, Upl!Busy, Upl!Removes
  <2>10. \A i \in Ids, t \in Uploads, size \in Nat : Upl!Whole(i, t, size) => Upl!Whole(i, t, size)'
    BY <1>1, <2>8 DEF Upl!Whole, Upl!At
  <2>11. \A i \in Ids : Upl!Described(i)' =>
           Upl!Described(i) /\ meta'[i] = meta[i] /\ meta[i].by \in Uploads /\ meta[i].size \in Nat
    BY <1>1 DEF Upl!Described, Upl!Written
  <2>12. \A i \in Ids : Upl!Intact(i) /\ Upl!Described(i)' => Upl!Whole(i, meta[i].by, meta[i].size)'
    BY <2>10, <2>11 DEF UploadsState
  <2>13. PICK t \in Uploads : t = meta[id].by
    BY <1>1 DEF Upl!Written
  <2>14. PICK n \in Nat : n = meta[id].size
    BY <1>1 DEF Upl!Written
  <2>15. Upl!Intact(id) => Upl!Whole(id, t, n)'
    BY <1>1, <2>10, <2>13, <2>14 DEF UploadsState
  <2>16. Upl!Intact(work'[Tool].id) => Upl!Whole(work[Tool].id, work[Tool].by, work[Tool].size)'
    BY <2>6, <2>8, <2>13, <2>14, <2>15
  <2>17. work'[Tool].id \in Ids /\ work'[Tool].by \in Uploads /\ Tool \notin Uploads
    BY <2>6, <2>8, <2>13
  <2>18. ActorStep(Tool)
    BY <1>1, <1>3, <2>8, <2>9, <2>12, <2>16, <2>17 DEF ActorStep
  <2> QED BY <2>18, UploadsStep
<1> QED BY <1>2, <1>3 DEF Upl!Find

\* Files and metadata that go leave the others whole.
LEMMA UploadsGone ==
  ASSUME UploadsState, hour' = hour, mcp' = mcp,
         \A u \in Uploads : work[u].at = "done" => work'[u].at = "done",
         \A i \in Ids : file'[i] = file[i] \/ (file'[i] = None /\ i \in swept),
         \A i \in Ids : meta'[i] = meta[i] \/ meta'[i] = None,
         work'[Tool].at = "found" => work'[Tool] = work[Tool]
  PROVE  /\ \A i \in Ids : Upl!Intact(i) /\ Upl!Described(i)' => Upl!Whole(i, meta[i].by, meta[i].size)'
         /\ work'[Tool].at = "found" => work'[Tool].id \in Ids /\ work'[Tool].by \in Uploads
         /\ work'[Tool].at = "found" /\ Upl!Intact(work'[Tool].id) =>
              Upl!Whole(work[Tool].id, work[Tool].by, work[Tool].size)'
<1> USE DEF Upl!Intact
<1>1. ASSUME NEW i \in Ids, NEW u \in Uploads, NEW size, Upl!Whole(i, u, size), Upl!Intact(i)
      PROVE  Upl!Whole(i, u, size)'
  BY <1>1, UploadsAssumption, UploadsTypes DEF Upl!Whole, Upl!At
<1>2. \A i \in Ids : Upl!Described(i)' =>
        Upl!Described(i) /\ meta'[i] = meta[i] /\ meta[i].by \in Uploads
  BY UploadsTypes DEF Upl!Described, Upl!Written
<1>3. \A i \in Ids : Upl!Intact(i) /\ Upl!Described(i)' => Upl!Whole(i, meta[i].by, meta[i].size)'
  BY <1>1, <1>2 DEF UploadsState
<1> QED BY <1>1, <1>3 DEF UploadsState

\* `discard`, its first step: the file of an upload that failed, or one that
\* expired.
LEMMA UploadsRemoveFile ==
  ASSUME UploadsState, NEW a \in Upl!Actors, Upl!RemoveFile(a)
  PROVE  UploadsState'
<1> USE UploadsAssumption, UploadsTypes DEF Upl!Intact
<1> DEFINE id == work[a].victim
<1>1. /\ work[a].at = "remove_file" /\ UNCHANGED << hour, mcp, meta, swept >>
      /\ file' = [file EXCEPT ![id] = None] /\ work' = [work EXCEPT ![a].at = "remove_meta"]
  BY DEF Upl!RemoveFile, Upl!At
<1>2. /\ work' \in [Upl!Actors -> Upl!Works] /\ \A b \in Upl!Actors \ {a} : work'[b] = work[b]
  BY <1>1 DEF Upl!Works
<1>3. /\ work'[a].at = "remove_meta" /\ work'[a].id = work[a].id /\ work'[a].since = work[a].since
      /\ work'[a].victim = work[a].victim /\ work'[a].back = work[a].back
  BY <1>1 DEF Upl!Works
<1>4. file' \in [Ids -> Upl!Stored \cup {None}] /\ (\A i \in Ids : file'[i] = file[i] \/ file'[i] = None)
      /\ (\A i \in Ids : i # id => file'[i] = file[i])
  BY <1>1
<1>5. CASE a \in Uploads
  <2>1. Upl!UploadOK(a) /\ work[a].id = id /\ id \in Ids
    BY <1>1, <1>5 DEF UploadsState, Upl!UploadOK, Upl!Busy, Upl!Removes
  <2>2. Upl!UploadOK(a)'
    BY <1>1, <1>3, <2>1 DEF Upl!UploadOK, Upl!At, Upl!Busy, Upl!Removes
  <2>3. Upl!Intact(id) => file[id] # None /\ file[id].by = a
    BY <1>1, <2>1 DEF Upl!UploadOK
  <2> HIDE DEF id
  <2>4. ActorStep(a)
    BY <1>1, <1>2, <1>4, <1>5, <2>1, <2>2, <2>3, UploadsKept DEF ActorStep
  <2> QED BY <2>4, UploadsStep
<1>6. CASE a \notin Uploads
  <2>1. id \in swept /\ Upl!OtherOK(a)
    BY <1>1, <1>6 DEF UploadsState, Upl!OtherOK, Upl!Removes, Upl!Actors
  <2>2. Upl!OtherOK(a)'
    BY <1>1, <1>3, <2>1 DEF Upl!OtherOK, Upl!Busy, Upl!Removes
  <2>3. \A u \in Uploads : work'[u] = work[u]
    BY <1>2, <1>6
  <2>4. work'[Tool].at = "found" => work'[Tool] = work[Tool]
    BY <1>2, <1>3
  <2> HIDE DEF id
  <2>5. ActorStep(a)
    BY <1>1, <1>2, <1>4, <1>6, <2>1, <2>2, <2>3, <2>4, UploadsGone DEF ActorStep
  <2> QED BY <2>5, UploadsStep
<1> QED BY <1>5, <1>6

\* `discard`, its second step.
LEMMA UploadsRemoveMeta ==
  ASSUME UploadsState, NEW a \in Upl!Actors, Upl!RemoveMeta(a)
  PROVE  UploadsState'
<1> USE UploadsAssumption, UploadsTypes DEF Upl!Intact
<1> DEFINE id == work[a].victim
<1>1. /\ work[a].at = "remove_meta" /\ UNCHANGED << hour, mcp, file, swept >>
      /\ meta' = [meta EXCEPT ![id] = None] /\ work[a] \in Upl!Works
      /\ \/ Upl!Ends(a)
         \/ /\ work[a].back # "done"
            /\ work' = [work EXCEPT ![a].at = work[a].back, ![a].victim = None, ![a].back = "done"]
  BY DEF Upl!RemoveMeta, Upl!At
<1>2. meta' \in [Ids -> Upl!Written \cup {None}] /\ (\A i \in Ids : meta'[i] = meta[i] \/ meta'[i] = None)
  BY <1>1
<1>3. /\ work' \in [Upl!Actors -> Upl!Works] /\ (\A b \in Upl!Actors \ {a} : work'[b] = work[b])
      /\ \/ work'[a].at = "done"
         \/ /\ work[a].back # "done" /\ work'[a].at = "sweeping" /\ work'[a].since = work[a].since
            /\ work'[a].victim = None
  <2>1. CASE Upl!Ends(a)
    <3>1. PICK w : w = Upl!Rest("done")
      OBVIOUS
    <3>2. w \in Upl!Works /\ w.at = "done"
      BY <3>1 DEF Upl!Rest, Upl!Works
    <3> QED BY <2>1, <3>1, <3>2 DEF Upl!Ends
  <2>2. CASE /\ work[a].back # "done"
             /\ work' = [work EXCEPT ![a].at = work[a].back, ![a].victim = None, ![a].back = "done"]
    <3>1. work[a].back = "sweeping"
      BY <1>1, <2>2 DEF Upl!Works
    <3>2. PICK v : v = [work[a] EXCEPT !.at = "sweeping", !.victim = None]
      OBVIOUS
    <3>3. v \in Upl!Works /\ v.at = "sweeping" /\ v.since = work[a].since /\ v.victim = None
      BY <1>1, <3>2 DEF Upl!Works
    <3>4. PICK w : w = [v EXCEPT !.back = "done"]
      OBVIOUS
    <3>5. w \in Upl!Works /\ w.at = "sweeping" /\ w.since = work[a].since /\ w.victim = None
      BY <3>3, <3>4 DEF Upl!Works
    <3>6. work' = [work EXCEPT ![a] = w]
      BY <2>2, <3>1, <3>2, <3>4
    <3>7. work' \in [Upl!Actors -> Upl!Works] /\ work'[a] = w
          /\ \A b \in Upl!Actors \ {a} : work'[b] = work[b]
      BY <3>5, <3>6
    <3> QED BY <2>2, <3>5, <3>7
  <2> QED BY <1>1, <2>1, <2>2
<1>4. a \in Uploads => Upl!UploadOK(a)' /\ work'[a].at = "done"
  <2>1. a \in Uploads => work[a].back = "done"
    BY <1>1 DEF UploadsState, Upl!UploadOK, Upl!Removes
  <2> QED BY <1>3, <2>1 DEF Upl!UploadOK, Upl!At, Upl!Busy, Upl!Removes
<1>5. a \notin Uploads => Upl!OtherOK(a)'
  BY <1>1, <1>3 DEF UploadsState, Upl!OtherOK, Upl!Busy, Upl!Removes, Upl!Actors
<1>6. \A u \in Uploads : work[u].at = "done" => work'[u].at = "done"
  BY <1>1, <1>3
<1>7. work'[Tool].at = "found" => work'[Tool] = work[Tool]
  BY <1>3
<1>8. ActorStep(a)
  BY <1>1, <1>2, <1>3, <1>4, <1>5, <1>6, <1>7, UploadsGone DEF ActorStep
<1> QED BY <1>8, UploadsStep

\* While an MCP is deleted its files go in any order.
LEMMA UploadsDelete ==
  ASSUME UploadsState, Upl!Delete \/ Upl!RemoveAll
  PROVE  UploadsState'
<1> USE UploadsAssumption, UploadsTypes DEF Upl!Intact
<1>1. /\ mcp' \in {"deleted", "gone"} /\ UNCHANGED << hour, work, swept >>
      /\ file' \in [Ids -> Upl!Stored \cup {None}] /\ meta' \in [Ids -> Upl!Written \cup {None}]
      /\ \A i \in Ids : file'[i] = file[i] \/ file'[i] = None
  <2>1. CASE Upl!Delete
    BY <2>1 DEF Upl!Delete
  <2>2. CASE Upl!RemoveAll
    BY <2>2 DEF Upl!RemoveAll
  <2> QED BY <2>1, <2>2
<1>2. ASSUME NEW t \in Uploads PROVE Upl!UploadOK(t)'
  <2>1. Upl!UploadOK(t)
    BY DEF UploadsState
  <2>2. Upl!Busy(t) => work[t].id \in Ids
    BY <2>1 DEF Upl!UploadOK
  <2> QED BY <1>1, <2>1, <2>2 DEF Upl!UploadOK, Upl!At, Upl!Busy, Upl!Removes
<1>3. ASSUME NEW a \in {Sweeper, Tool} PROVE Upl!OtherOK(a)'
  BY <1>1 DEF UploadsState, Upl!OtherOK, Upl!Busy, Upl!Removes
<1> QED BY <1>1, <1>2, <1>3 DEF UploadsState

\* After a restart nobody works on the files that are left.
LEMMA UploadsCrash ==
  ASSUME UploadsState, Upl!Crash
  PROVE  UploadsState'
<1> USE UploadsAssumption, UploadsTypes DEF Upl!Intact
<1>1. /\ UNCHANGED << hour, mcp, file, meta, swept >>
      /\ work' = [a \in Upl!Actors |-> IF Upl!Busy(a) THEN Upl!Rest("done") ELSE work[a]]
  BY DEF Upl!Crash
<1>2. Upl!Rest("done") \in Upl!Works /\ Upl!Rest("done").at = "done"
  BY DEF Upl!Rest, Upl!Works
<1>3. PICK w : w = Upl!Rest("done")
  OBVIOUS
<1>4. /\ work' \in [Upl!Actors -> Upl!Works]
      /\ \A a \in Upl!Actors : work'[a].at = "done" \/ (work'[a] = work[a] /\ ~ Upl!Busy(a))
  BY <1>1, <1>2, <1>3
<1>5. ASSUME NEW t \in Uploads PROVE Upl!UploadOK(t)'
  BY <1>4 DEF UploadsState, Upl!UploadOK, Upl!At, Upl!Busy, Upl!Removes
<1>6. ASSUME NEW a \in {Sweeper, Tool} PROVE Upl!OtherOK(a)'
  BY <1>4 DEF UploadsState, Upl!OtherOK, Upl!Busy, Upl!Removes
<1>7. work'[Tool].at # "found"
  BY <1>4 DEF Upl!Busy
<1>8. \A u \in Uploads : work[u].at = "done" => work'[u].at = "done"
  BY <1>4
<1>9. \A i \in Ids : Upl!Intact(i) /\ Upl!Described(i)' => Upl!Whole(i, meta[i].by, meta[i].size)'
  BY <1>1, <1>7, <1>8, UploadsGone
<1> QED BY <1>1, <1>4, <1>5, <1>6, <1>7, <1>9 DEF UploadsState

\* That time passes changes nothing of the files and who works on them.
LEMMA UploadsTick ==
  ASSUME UploadsState, Upl!Tick
  PROVE  UploadsState'
<1> USE UploadsAssumption, UploadsTypes DEF Upl!Intact
<1>1. hour < UploadClock /\ hour' = hour + 1 /\ UNCHANGED << mcp, file, meta, work, swept >>
  BY DEF Upl!Tick
<1>2. ASSUME NEW t \in Uploads PROVE Upl!UploadOK(t)'
  BY <1>1 DEF UploadsState, Upl!UploadOK, Upl!At, Upl!Busy, Upl!Removes
<1>3. ASSUME NEW a \in {Sweeper, Tool} PROVE Upl!OtherOK(a)'
  BY <1>1 DEF UploadsState, Upl!OtherOK, Upl!Busy, Upl!Removes
<1>4. ASSUME NEW i \in Ids, NEW u \in Uploads, NEW size, Upl!Whole(i, u, size)
      PROVE  Upl!Whole(i, u, size)'
  BY <1>1, <1>4 DEF Upl!Whole, Upl!At
<1>5. \A i \in Ids : Upl!Described(i)' => Upl!Described(i) /\ meta[i].by \in Uploads
  BY <1>1 DEF Upl!Described, Upl!Written
<1>6. \A i \in Ids : Upl!Intact(i) /\ Upl!Described(i)' => Upl!Whole(i, meta[i].by, meta[i].size)'
  BY <1>1, <1>4, <1>5 DEF UploadsState
<1>7. work'[Tool].at = "found" /\ Upl!Intact(work'[Tool].id) =>
        Upl!Whole(work[Tool].id, work[Tool].by, work[Tool].size)'
  BY <1>1, <1>4 DEF UploadsState
<1> QED BY <1>1, <1>2, <1>3, <1>6, <1>7 DEF UploadsState

\* Uploads to one link, sweeps, the tools and the deletion of the MCP take
\* turns as they like.
LEMMA UploadsNext == Upl!Inv /\ [Upl!Next]_uplVars => Upl!Inv'
<1> SUFFICES ASSUME Upl!Inv, [Upl!Next]_uplVars PROVE Upl!Inv'
  OBVIOUS
<1>1. UploadsState /\ dir \in BOOLEAN
  BY UploadsInv, Zenon
<1> USE <1>1
<1>2. CASE UNCHANGED uplVars
  BY <1>2 DEF uplVars, Upl!Inv, Upl!TypeOK, Upl!UploadOK, Upl!OtherOK, Upl!Whole, Upl!Described,
              Upl!Intact, Upl!At, Upl!Busy, Upl!Removes
<1>3. ASSUME NEW t \in Uploads,
             \/ \E id \in Ids : Upl!Arrive(t, id)
             \/ Upl!Admit(t) \/ Upl!Open(t) \/ Upl!Write(t) \/ Upl!Broken(t) \/ Upl!Describe(t)
             \/ Upl!Receipt(t)
      PROVE  UploadsState' /\ dir' \in BOOLEAN
  <2>1. dir' \in {dir, TRUE}
    BY <1>3 DEF Upl!Arrive, Upl!Admit, Upl!Open, Upl!Write, Upl!Broken, Upl!Describe, Upl!Receipt
  <2>2. CASE Upl!Broken(t)
    BY <2>2, UploadsDiscards DEF Upl!Broken
  <2>3. UploadsState'
    BY <1>3, <2>2, UploadsArrive, UploadsAdmit, UploadsOpen, UploadsWrite, UploadsDescribe,
       UploadsReceipt
  <2>4. dir' \in BOOLEAN
    BY <1>1, <2>1, Zenon
  <2> QED BY <2>3, <2>4
<1>4. ASSUME NEW a \in Upl!Actors,
             Upl!RemoveFile(a) \/ Upl!RemoveMeta(a) \/ \E id \in Ids : Upl!Sweep(a, id)
      PROVE  UploadsState' /\ dir' \in BOOLEAN
  <2>1. dir' = dir
    BY <1>4 DEF Upl!RemoveFile, Upl!RemoveMeta, Upl!Sweep
  <2>2. UploadsState'
    BY <1>4, UploadsRemoveFile, UploadsRemoveMeta, UploadsSweep
  <2>3. dir' \in BOOLEAN
    BY <1>1, <2>1, Zenon
  <2> QED BY <2>2, <2>3
<1>5. ASSUME \/ \E id \in Ids : Upl!Find(id)
             \/ Upl!Prune \/ Upl!Read \/ Upl!Delete \/ Upl!Crash \/ Upl!Tick
      PROVE  UploadsState' /\ dir' \in BOOLEAN
  <2>1. dir' = dir
    BY <1>5 DEF Upl!Find, Upl!Prune, Upl!Read, Upl!Delete, Upl!Crash, Upl!Tick
  <2>2. CASE Upl!Read
    BY <2>2, UploadsEnds, UploadsAssumption DEF Upl!Read, Upl!Actors
  <2>3. UploadsState'
    BY <1>5, <2>2, UploadsFind, UploadsArrive, UploadsDelete, UploadsCrash, UploadsTick
  <2>4. dir' \in BOOLEAN
    BY <1>1, <2>1, Zenon
  <2> QED BY <2>3, <2>4
<1>6. ASSUME Upl!PruneEnds \/ Upl!RemoveAll
      PROVE  UploadsState' /\ dir' \in BOOLEAN
  <2>1. CASE Upl!PruneEnds
    <3>1. UploadsState'
      BY <2>1, UploadsEnds, UploadsAssumption DEF Upl!PruneEnds, Upl!Actors
    <3>2. dir' \in BOOLEAN
      BY <2>1, Zenon DEF Upl!PruneEnds
    <3> QED BY <3>1, <3>2
  <2>2. CASE Upl!RemoveAll
    <3>1. UploadsState'
      BY <2>2, UploadsDelete
    <3>2. dir' \in BOOLEAN
      BY <1>1, <2>2, Zenon DEF Upl!RemoveAll
    <3> QED BY <3>1, <3>2
  <2> QED BY <1>6, <2>1, <2>2
<1>7. ASSUME Upl!Next PROVE UploadsState' /\ dir' \in BOOLEAN
  BY <1>3, <1>4, <1>5, <1>6, <1>7, Zenon DEF Upl!Next
<1>8. ASSUME UploadsState' /\ dir' \in BOOLEAN PROVE Upl!Inv'
  BY <1>8, Zenon DEF Upl!Inv, Upl!TypeOK, UploadsState, Upl!At
<1> QED BY <1>2, <1>7, <1>8

\* Files, what describes them and who works on them agree.
LEMMA UploadsInvariant == Spec => []Upl!Inv
<1>1. Init => Upl!Inv
  BY UploadsInit DEF Init
<1>2. Upl!Inv /\ [Next]_allVars => Upl!Inv'
  <2>1. [Next]_allVars => [Upl!Next]_uplVars
    BY DEF Next, Moves, allVars, uplVars
  <2> QED BY <2>1, UploadsNext
<1> QED BY <1>1, <1>2, PTL DEF Spec

\* A tool that found an upload reads the whole file or none, for any number of
\* uploads to any number of links, and whatever failures, crashes and deletions
\* of the MCP there are meanwhile (`save`, `find`, `sweep`), as long as no file
\* sent to that link was swept away.
THEOREM FilesAreReadWhole == Spec => []ReadsWholeUntilSwept
<1>1. Upl!Inv => ReadsWholeUntilSwept
  BY DEF Upl!Inv, Upl!Intact, Upl!Whole, Upl!At, ReadsWholeUntilSwept, Upl!ReadsWholeUntilSwept,
         Upl!ReadsWhole
<1> QED BY <1>1, UploadsInvariant, PTL

-----------------------------------------------------------------------------
(* CallLog.                                                                *)

\* What the records, the batches and the rows are.
LogTypes ==
  /\ unwritten \in Nat /\ queued \in 0..MaxRecords /\ written \in 0..queued
  /\ waiting \in Seq(1..MaxRecords)
  /\ since \in Seq(1..MaxLevels) /\ Len(since) = queued
  /\ writer \in [Writers -> Log!Works]
  /\ levels \in Seq(Log!Levels) /\ Len(levels) \in 1..MaxLevels

LogOthers ==
  /\ flush \in [Flushers -> 0..MaxRecords \cup {None}]
  /\ day \in 0..LogClock /\ last_pruned_at \in 0..LogClock \cup {None}
  /\ pruners \in Nat
  /\ last_pruned_at = None => pruners < Len(levels)
  /\ last_pruned_at # None => last_pruned_at <= day /\ pruners <= Len(levels) + last_pruned_at

LogQueue ==
  /\ \A v, w \in Writers : v = w \/ writer[v].at = "none" \/ writer[w].at = "none"
  /\ (\A w \in Writers : writer[w].at = "none") =>
       written = queued /\ waiting = << >> /\ unwritten = 0
  /\ \A w \in Writers : Log!BatchOK(w)
  /\ \A i \in DOMAIN waiting : waiting[i] = queued - Len(waiting) + i
  /\ unwritten <= MAX_PENDING_WRITES
  /\ \A n \in DOMAIN since : since[n] <= Len(levels)

LogRows ==
  /\ table \in Seq(Log!LoggedRows)
  /\ \A i \in DOMAIN table : Log!RowOK(table[i])
  /\ \A w \in Writers, i \in DOMAIN table :
       writer[w].at # "none" => table[i].record <= written + Len(writer[w].batch)
  /\ \A i, j \in DOMAIN table : i < j => table[i].record < table[j].record

LogState == LogTypes /\ LogOthers /\ LogQueue /\ LogRows

\* The invariant is that, and that `writing` says whether a task writes.
LogFull ==
  /\ LogState
  /\ writing \in BOOLEAN /\ (writing <=> \E w \in Writers : writer[w].at # "none")

\* It is the invariant of the log, in other words.
LEMMA LogInv == Log!Inv <=> LogFull
<1> USE LogAssumption
<1>1. ASSUME LogState PROVE unwritten \in 0..queued /\ pruners \in 0..(MaxLevels + LogClock)
  <2>1. pruners \in 0..(MaxLevels + LogClock)
    BY <1>1 DEF LogState, LogTypes, LogOthers
  <2>2. unwritten <= queued
    <3>1. CASE \A w \in Writers : writer[w].at = "none"
      BY <1>1, <3>1 DEF LogState, LogTypes, LogQueue
    <3>2. ASSUME NEW w \in Writers, writer[w].at # "none" PROVE unwritten <= queued
      <4>1. /\ written + Len(writer[w].batch) + Len(waiting) = queued
            /\ unwritten = Len(waiting) + IF writer[w].at = "discounted" THEN 0 ELSE Len(writer[w].batch)
        BY <1>1, <3>2 DEF LogState, LogQueue, Log!BatchOK, Log!At
      <4>2. Len(writer[w].batch) \in Nat /\ Len(waiting) \in Nat /\ written \in Nat
        BY <1>1 DEF LogState, LogTypes, Log!Works
      <4> QED BY <1>1, <4>1, <4>2
    <3> QED BY <3>1, <3>2
  <2> QED BY <1>1, <2>1, <2>2 DEF LogState, LogTypes
<1>2. ASSUME Log!Inv PROVE LogState
  <2>1. LogTypes
    BY <1>2 DEF Log!Inv, Log!TypeOK, LogTypes
  <2>2. LogOthers
    BY <1>2 DEF Log!Inv, Log!TypeOK, LogOthers
  <2>3. LogQueue
    BY <1>2 DEF Log!Inv, Log!TypeOK, Log!OneWriter, LogQueue, Log!At
  <2>4. LogRows
    BY <1>2 DEF Log!Inv, Log!TypeOK, LogRows, Log!At
  <2> QED BY <2>1, <2>2, <2>3, <2>4 DEF LogState
<1> QED BY <1>1, <1>2, Zenon DEF Log!Inv, Log!TypeOK, Log!OneWriter, Log!At, LogFull, LogState,
                                 LogTypes, LogOthers, LogQueue, LogRows

\* At first there is nothing to write.
LEMMA LogInit == Log!Init => Log!Inv
<1> SUFFICES ASSUME Log!Init PROVE Log!Inv
  OBVIOUS
<1> USE LogAssumption
<1>1. /\ waiting = << >> /\ unwritten = 0 /\ queued = 0 /\ written = 0 /\ since = << >>
      /\ writer = [w \in Writers |-> Log!NoTask] /\ table = << >> /\ levels = << "metadata" >>
      /\ flush = [f \in Flushers |-> None] /\ day = 0 /\ last_pruned_at = None /\ pruners = 0
  BY DEF Log!Init
<1>2. writing = FALSE
  BY Zenon DEF Log!Init
<1>3. Log!NoTask \in Log!Works /\ Log!NoTask.at = "none" /\ Log!NoTask.batch = << >>
  BY DEF Log!NoTask, Log!Works, Log!Steps
<1>4. writer \in [Writers -> Log!Works] /\ \A w \in Writers : writer[w].at = "none" /\ writer[w].batch = << >>
  BY <1>1, <1>3
<1>5. LogTypes
  BY <1>1, <1>4 DEF LogTypes, Log!Levels
<1>6. LogOthers
  BY <1>1 DEF LogOthers
<1>7. LogQueue
  BY <1>1, <1>4 DEF LogQueue, Log!BatchOK, Log!At
<1>8. LogRows
  BY <1>1 DEF LogRows
<1>9. LogState
  BY <1>5, <1>6, <1>7, <1>8 DEF LogState
<1>10. writing \in BOOLEAN /\ (writing <=> \E w \in Writers : writer[w].at # "none")
  BY <1>2, <1>4, Zenon
<1> QED BY <1>9, <1>10, LogInv, Zenon DEF LogFull

\* While a task writes, the others do not.
LEMMA LogAlone ==
  ASSUME LogState, NEW w \in Writers, writer[w].at # "none"
  PROVE  \A v \in Writers \ {w} : writer[v].at = "none"
BY DEF LogState, LogQueue

\* When one task moves on, what is to be shown of the queue is what holds of
\* that task.
LEMMA LogQueueStep ==
  ASSUME LogTypes, LogQueue, LogTypes', NEW w \in Writers,
         \A v \in Writers \ {w} : writer[v].at = "none" /\ writer'[v] = writer[v],
         Log!BatchOK(w)',
         writer'[w].at = "none" => written' = queued' /\ waiting' = << >> /\ unwritten' = 0,
         \A i \in DOMAIN waiting' : waiting'[i] = queued' - Len(waiting') + i,
         unwritten' <= MAX_PENDING_WRITES,
         \A n \in DOMAIN since' : since'[n] <= Len(levels')
  PROVE  LogQueue'
<1>1. \A u, v \in Writers : u = v \/ writer'[u].at = "none" \/ writer'[v].at = "none"
  OBVIOUS
<1>2. (\A v \in Writers : writer'[v].at = "none") => written' = queued' /\ waiting' = << >> /\ unwritten' = 0
  OBVIOUS
<1>3. ASSUME NEW v \in Writers PROVE Log!BatchOK(v)'
  <2>1. CASE v = w
    BY <2>1
  <2>2. CASE v # w
    <3>1. writer'[v] = writer[v] /\ writer[v].at = "none" /\ Log!BatchOK(v)
      BY <2>2 DEF LogQueue
    <3>2. writer'[v].at = "none" /\ writer'[v].batch = << >>
      BY <3>1 DEF Log!BatchOK, Log!At
    <3> QED BY <3>2 DEF Log!BatchOK, Log!At
  <2> QED BY <2>1, <2>2
<1> QED BY <1>1, <1>2, <1>3 DEF LogQueue

\* What a row says of its record.
LEMMA LogRow ==
  ASSUME LogState, NEW i \in DOMAIN table
  PROVE  /\ table[i] \in Log!LoggedRows
         /\ table[i].record \in 1..queued /\ table[i].level \in 1..Len(levels)
         /\ levels[table[i].level] # "off" /\ since[table[i].record] <= table[i].level
         /\ table[i].record > written => \E w \in Writers : writer[w].at \in {"settled", "discounted"}
<1>1. table \in Seq(Log!LoggedRows) /\ Log!RowOK(table[i]) /\ queued \in Nat /\ Len(levels) \in Nat
      /\ levels \in Seq(Log!Levels)
  BY DEF LogState, LogRows, LogTypes
<1>2. table[i] \in Log!LoggedRows
  BY <1>1
<1>3. table[i].record \in Nat \ {0}
  BY <1>2 DEF Log!LoggedRows
<1> QED BY <1>1, <1>2, <1>3 DEF Log!RowOK, Log!At

\* What a task has taken comes right after what is written, and before what
\* waits.
LEMMA LogBatch ==
  ASSUME LogState, NEW w \in Writers
  PROVE  /\ writer[w] \in Log!Works
         /\ writer[w].batch \in Seq(1..MaxRecords) /\ Len(writer[w].batch) \in Nat
         /\ DOMAIN writer[w].batch = 1..Len(writer[w].batch)
         /\ writer[w].at \in {"none", "loop"} => writer[w].batch = << >>
         /\ \A i \in 1..Len(writer[w].batch) : writer[w].batch[i] = written + i
         /\ writer[w].at # "none" =>
              /\ written + Len(writer[w].batch) + Len(waiting) = queued
              /\ writer[w].at = "discounted" => unwritten = Len(waiting)
              /\ writer[w].at # "discounted" => unwritten = Len(waiting) + Len(writer[w].batch)
         /\ writer[w].at = "read" =>
              /\ writer[w].level \in 1..Len(levels) /\ levels[writer[w].level] # "off"
              /\ \A i \in 1..Len(writer[w].batch) : since[writer[w].batch[i]] <= writer[w].level
<1>1. writer[w] \in Log!Works /\ Log!BatchOK(w) /\ levels \in Seq(Log!Levels)
  BY DEF LogState, LogTypes, LogQueue
<1>2. /\ writer[w].batch \in Seq(1..MaxRecords) /\ Len(writer[w].batch) \in Nat
      /\ DOMAIN writer[w].batch = 1..Len(writer[w].batch)
  BY <1>1 DEF Log!Works
<1>3. DOMAIN levels = 1..Len(levels)
  BY <1>1
<1> QED BY <1>1, <1>2, <1>3 DEF Log!BatchOK, Log!At

\* `record` takes the next number, while there is room, and makes sure that a
\* task writes.
LEMMA LogRecord ==
  ASSUME LogFull, Log!record
  PROVE  LogState' /\ \E w \in Writers : writer'[w].at # "none"
<1> USE LogAssumption
<1>20. LogState /\ (writing <=> \E w \in Writers : writer[w].at # "none")
  BY LogInv, Zenon DEF LogFull
<1>0. /\ unwritten \in Nat /\ queued \in Nat /\ written \in 0..queued
      /\ waiting \in Seq(1..MaxRecords) /\ since \in Seq(1..MaxLevels) /\ Len(since) = queued
      /\ writer \in [Writers -> Log!Works]
      /\ levels \in Seq(Log!Levels) /\ Len(levels) \in 1..MaxLevels
      /\ LogTypes /\ LogOthers /\ LogQueue /\ LogRows
  BY <1>20 DEF LogState, LogTypes
<1>21. /\ queued < MaxRecords /\ unwritten < MAX_PENDING_WRITES
       /\ unwritten' = unwritten + 1 /\ queued' = queued + 1
       /\ waiting' = Append(waiting, queued + 1) /\ since' = Append(since, Len(levels))
       /\ UNCHANGED << written, table, levels, flush, day, last_pruned_at, pruners >>
  BY DEF Log!record, Log!pruneVars
<1>22. \E w \in Writers, r \in Log!Works :
         /\ \A v \in Writers \ {w} : writer[v].at = "none"
         /\ r.batch = writer[w].batch /\ r.level = writer[w].level
         /\ \/ writer[w].at # "none" /\ r.at = writer[w].at
            \/ writer[w].at = "none" /\ r.at = "loop"
         /\ writer' = [writer EXCEPT ![w] = r]
  <2>1. CASE writing
    <3>1. PICK w \in Writers : writer[w].at # "none"
      BY <1>20, <2>1
    <3>2. writer' = writer
      BY <2>1 DEF Log!record
    <3>3. writer[w] \in Log!Works /\ writer' = [writer EXCEPT ![w] = writer[w]]
      BY <1>0, <3>2
    <3> QED BY <1>20, <3>1, <3>3, LogAlone
  <2>2. CASE ~ writing
    <3>1. \A w \in Writers : writer[w].at = "none"
      BY <1>20, <2>2
    <3>2. PICK w \in Writers : writer' = [writer EXCEPT ![w].at = "loop"]
      BY <2>2 DEF Log!record
    <3>3. PICK r : r = [writer[w] EXCEPT !.at = "loop"]
      OBVIOUS
    <3>4. writer[w] \in Log!Works
      BY <1>0
    <3>5. r \in Log!Works /\ r.batch = writer[w].batch /\ r.level = writer[w].level /\ r.at = "loop"
      BY <3>3, <3>4 DEF Log!Works, Log!Steps
    <3>6. writer' = [writer EXCEPT ![w] = r]
      BY <3>2, <3>3
    <3> QED BY <3>1, <3>5, <3>6
  <2> QED BY <2>1, <2>2
<1>23. PICK w \in Writers, r \in Log!Works :
         /\ \A v \in Writers \ {w} : writer[v].at = "none"
         /\ r.batch = writer[w].batch /\ r.level = writer[w].level
         /\ \/ writer[w].at # "none" /\ r.at = writer[w].at
            \/ writer[w].at = "none" /\ r.at = "loop"
         /\ writer' = [writer EXCEPT ![w] = r]
  BY <1>22
<1>1. /\ waiting' \in Seq(1..MaxRecords) /\ Len(waiting') = Len(waiting) + 1
      /\ \A i \in DOMAIN waiting : waiting'[i] = waiting[i]
      /\ waiting'[Len(waiting) + 1] = queued + 1
      /\ DOMAIN waiting' = 1..(Len(waiting) + 1) /\ DOMAIN waiting = 1..Len(waiting)
      /\ Len(waiting) \in Nat
  <2>1. queued + 1 \in 1..MaxRecords
    BY <1>0, <1>21
  <2> QED BY <1>0, <1>21, <2>1
<1>2. /\ since' \in Seq(1..MaxLevels) /\ Len(since') = queued + 1
      /\ \A n \in 1..queued : since'[n] = since[n]
      /\ since'[queued + 1] = Len(levels) /\ DOMAIN since' = 1..(queued + 1) /\ DOMAIN since = 1..queued
  BY <1>0, <1>21
<1>3. writer' \in [Writers -> Log!Works] /\ writer'[w] = r
      /\ \A v \in Writers \ {w} : writer'[v] = writer[v]
  BY <1>0, <1>23
<1>7. LogTypes'
  BY <1>0, <1>1, <1>2, <1>3, <1>21 DEF LogTypes
<1>8. LogOthers'
  BY <1>0, <1>21 DEF LogOthers
<1>9. /\ writer[w].batch \in Seq(1..MaxRecords) /\ Len(writer[w].batch) \in Nat
      /\ DOMAIN writer[w].batch = 1..Len(writer[w].batch)
  <2>1. writer[w] \in Log!Works
    BY <1>0
  <2> QED BY <2>1 DEF Log!Works
<1>10. Log!BatchOK(w)'
  <2> DEFINE batch == writer[w].batch
  <2>1. Log!BatchOK(w)
    BY <1>0 DEF LogQueue
  <2>2. CASE writer[w].at # "none" /\ r.at = writer[w].at
    <3>1. /\ r.at \in {"none", "loop"} => batch = << >>
          /\ \A i \in 1..Len(batch) : batch[i] = written + i
          /\ r.at = "read" =>
              /\ r.level \in 1..Len(levels) /\ levels[r.level] # "off"
              /\ \A i \in 1..Len(batch) : since[batch[i]] <= r.level
      BY <1>20, <1>23, <2>2, LogBatch
    <3>7. /\ written + Len(batch) + Len(waiting) = queued
          /\ r.at = "discounted" => unwritten = Len(waiting)
          /\ r.at # "discounted" => unwritten = Len(waiting) + Len(batch)
      BY <1>20, <1>23, <2>2, LogBatch
    <3>6. Len(batch) \in Nat /\ Len(waiting) \in Nat /\ queued \in Nat /\ written \in Nat /\ unwritten \in Nat
      BY <1>0, <1>1, <1>9
    <3> HIDE DEF batch
    <3>2. \A i \in 1..Len(batch) : batch[i] \in 1..queued
      BY <3>1, <3>6, <3>7
    <3>3. r.at = "read" => \A i \in 1..Len(batch) : since'[batch[i]] <= r.level
      BY <1>2, <3>1, <3>2
    <3>4. DOMAIN levels' = 1..Len(levels) /\ DOMAIN batch = 1..Len(batch) /\ writer'[w].batch = batch
      BY <1>0, <1>3, <1>9, <1>21, <1>23 DEF batch
    <3>5. /\ written' + Len(batch) + Len(waiting') = queued'
          /\ r.at = "discounted" => unwritten' = Len(waiting')
          /\ r.at # "discounted" => unwritten' = Len(waiting') + Len(batch)
      <4>1. Len(waiting') = Len(waiting) + 1 /\ queued' = queued + 1 /\ unwritten' = unwritten + 1
            /\ written' = written
        BY <1>1, <1>21
      <4>2. PICK n \in Nat : n = Len(batch)
        BY <3>6
      <4>3. PICK k \in Nat : k = Len(waiting)
        BY <3>6
      <4>4. written + n + (k + 1) = queued + 1
        BY <3>6, <3>7, <4>2, <4>3
      <4>5. r.at = "discounted" => unwritten + 1 = k + 1
        BY <3>7, <4>3
      <4>6. r.at # "discounted" => unwritten + 1 = (k + 1) + n
        BY <3>7, <4>2, <4>3
      <4> QED BY <4>1, <4>2, <4>3, <4>4, <4>5, <4>6
    <3>8. /\ unwritten' = Len(waiting') + IF r.at = "discounted" THEN 0 ELSE Len(batch)
          /\ written' + Len(batch) + Len(waiting') = queued'
      BY <3>5, <3>6
    <3>9. \A i \in DOMAIN batch : batch[i] = written' + i
      BY <1>21, <3>1, <3>4
    <3>10. r.at = "read" => /\ r.level \in DOMAIN levels' /\ levels'[r.level] # "off"
                            /\ \A i \in DOMAIN batch : since'[batch[i]] <= r.level
      BY <1>21, <3>1, <3>3, <3>4
    <3> QED BY <1>3, <2>2, <3>1, <3>4, <3>8, <3>9, <3>10 DEF Log!BatchOK, Log!At
  <2>3. CASE writer[w].at = "none" /\ r.at = "loop"
    <3>1. batch = << >>
      BY <2>1, <2>3 DEF Log!BatchOK, Log!At
    <3>2. written = queued /\ waiting = << >> /\ unwritten = 0
      BY <1>0, <1>23, <2>3 DEF LogQueue
    <3> QED BY <1>0, <1>1, <1>3, <1>21, <1>23, <2>3, <3>1, <3>2 DEF Log!BatchOK, Log!At
  <2> QED BY <1>23, <2>2, <2>3
<1>11. /\ writer'[w].at # "none"
       /\ \A v \in Writers \ {w} : writer[v].at = "none" /\ writer'[v] = writer[v]
  BY <1>3, <1>23
<1>24. \A i \in DOMAIN waiting' : waiting'[i] = queued' - Len(waiting') + i
  <2>1. \A i \in DOMAIN waiting : waiting[i] = queued - Len(waiting) + i
    BY <1>0 DEF LogQueue
  <2>2. queued' = queued + 1 /\ queued \in Nat
    BY <1>0, <1>21
  <2>3. ASSUME NEW i \in 1..(Len(waiting) + 1)
        PROVE  waiting'[i] = queued + 1 - (Len(waiting) + 1) + i
    <3>1. Len(waiting) \in Nat
      BY <1>1
    <3>2. CASE i = Len(waiting) + 1
      <4>1. waiting'[i] = queued + 1
        BY <1>1, <3>2
      <4> QED BY <2>2, <3>1, <3>2, <4>1
    <3>3. CASE i \in 1..Len(waiting)
      <4>1. waiting'[i] = queued - Len(waiting) + i
        BY <1>1, <2>1, <3>3
      <4> QED BY <2>2, <3>1, <3>3, <4>1
    <3> QED BY <3>1, <3>2, <3>3
  <2> QED BY <1>1, <2>2, <2>3
<1>25. \A n \in DOMAIN since' : since'[n] <= Len(levels')
  BY <1>0, <1>2, <1>21 DEF LogQueue
<1>26. unwritten' <= MAX_PENDING_WRITES
  BY <1>0, <1>21
<1>12. LogQueue'
  BY <1>0, <1>7, <1>10, <1>11, <1>24, <1>25, <1>26, LogQueueStep
<1>13. ASSUME NEW i \in DOMAIN table PROVE Log!RowOK(table[i])'
  <2>1. /\ table[i].record \in 1..queued /\ table[i].level \in 1..Len(levels)
        /\ levels[table[i].level] # "off" /\ since[table[i].record] <= table[i].level
        /\ table[i].record > written => \E v \in Writers : writer[v].at \in {"settled", "discounted"}
    BY <1>20, LogRow
  <2>2. table[i].record > written => writer'[w].at \in {"settled", "discounted"}
    BY <1>3, <1>23, <2>1
  <2>3. table[i].level \in DOMAIN levels'
    BY <1>0, <1>21, <2>1
  <2>4. since'[table[i].record] <= table[i].level
    BY <1>2, <2>1
  <2>5. table[i].record <= queued'
    BY <1>0, <1>21, <2>1
  <2>6. table' = table /\ levels' = levels /\ written' = written
    BY <1>21
  <2> QED BY <2>1, <2>2, <2>3, <2>4, <2>5, <2>6 DEF Log!RowOK, Log!At
<1>14. LogRows'
  <2>1. ASSUME NEW v \in Writers, NEW i \in DOMAIN table, writer'[v].at # "none"
        PROVE  table[i].record <= written + Len(writer'[v].batch)
    <3>0. v = w
      BY <1>11, <2>1
    <3>1. CASE writer[w].at # "none"
      BY <1>0, <1>3, <1>23, <3>0, <3>1 DEF LogRows
    <3>2. CASE writer[w].at = "none"
      <4>1. (\A u \in Writers : writer[u].at = "none") /\ Log!BatchOK(w)
        BY <1>0, <1>23, <3>2 DEF LogQueue
      <4>2. written = queued /\ writer[w].batch = << >>
        BY <1>0, <4>1 DEF LogQueue, Log!BatchOK, Log!At
      <4>3. table[i].record \in 1..queued
        BY <1>20, LogRow
      <4>4. Len(writer'[v].batch) = 0
        BY <1>3, <1>23, <3>0, <4>2
      <4> QED BY <1>0, <4>2, <4>3, <4>4
    <3> QED BY <3>1, <3>2
  <2>2. table' = table /\ written' = written
    BY <1>21
  <2> QED BY <1>0, <1>13, <2>1, <2>2 DEF LogRows
<1> QED BY <1>7, <1>8, <1>11, <1>12, <1>14 DEF LogState

\* What a task that moves on leaves of the rows, when it adds none.
LEMMA LogRowsStay ==
  ASSUME LogState, LogTypes', NEW w \in Writers,
         \A v \in Writers \ {w} : writer[v].at = "none" /\ writer'[v] = writer[v],
         table' = table, levels' = levels, since' = since, queued' = queued,
         \A i \in DOMAIN table :
           /\ table[i].record > written' => writer'[w].at \in {"settled", "discounted"}
           /\ writer'[w].at # "none" => table[i].record <= written' + Len(writer'[w].batch)
  PROVE  LogRows'
<1>1. table \in Seq(Log!LoggedRows) /\ levels \in Seq(Log!Levels) /\ Len(levels) \in Nat /\ queued \in Nat
  BY DEF LogState, LogRows, LogTypes
<1>2. ASSUME NEW i \in DOMAIN table PROVE Log!RowOK(table[i])'
  <2>1. /\ table[i].record \in 1..queued /\ table[i].level \in 1..Len(levels)
        /\ levels[table[i].level] # "off" /\ since[table[i].record] <= table[i].level
    BY LogRow
  <2>2. table[i].record > written' => writer'[w].at \in {"settled", "discounted"}
    OBVIOUS
  <2>3. table[i].level \in DOMAIN levels'
    BY <1>1, <2>1
  <2> QED BY <1>1, <2>1, <2>2, <2>3 DEF Log!RowOK, Log!At
<1>3. ASSUME NEW v \in Writers, NEW i \in DOMAIN table, writer'[v].at # "none"
      PROVE  table[i].record <= written' + Len(writer'[v].batch)
  <2>1. v = w
    BY <1>3
  <2> QED BY <1>3, <2>1
<1>4. \A i, j \in DOMAIN table : i < j => table[i].record < table[j].record
  BY DEF LogState, LogRows
<1> QED BY <1>1, <1>2, <1>3, <1>4 DEF LogRows

\* `write_queue` has seen the queue empty, with nothing left to write.
LEMMA LogTakesNothing ==
  ASSUME LogState, NEW w \in Writers, writer[w].at = "loop", Len(waiting) = 0,
         writer' = [writer EXCEPT ![w] = Log!NoTask],
         UNCHANGED << waiting, unwritten, queued, written, since, table, levels, flush, day,
                      last_pruned_at, pruners >>
  PROVE  LogState' /\ \A v \in Writers : writer'[v].at = "none"
<1> USE LogAssumption
<1>1. Log!NoTask \in Log!Works /\ Log!NoTask.at = "none" /\ Log!NoTask.batch = << >>
  BY DEF Log!NoTask, Log!Works, Log!Steps
<1>2. LogTypes /\ LogOthers /\ LogQueue
  BY DEF LogState
<1>3. writer' \in [Writers -> Log!Works] /\ writer'[w] = Log!NoTask
      /\ \A v \in Writers \ {w} : writer[v].at = "none" /\ writer'[v] = writer[v]
  BY <1>1, <1>2, LogAlone DEF LogTypes
<1>4. LogTypes'
  BY <1>2, <1>3 DEF LogTypes
<1>5. LogOthers'
  BY <1>2 DEF LogOthers
<1>6. written = queued /\ unwritten = 0 /\ waiting = << >>
  <2>1. writer[w].batch = << >> /\ written + Len(writer[w].batch) + Len(waiting) = queued
        /\ unwritten = Len(waiting) + Len(writer[w].batch)
    BY LogBatch
  <2> QED BY <1>2, <2>1 DEF LogTypes
<1>7. Log!BatchOK(w)'
  BY <1>1, <1>3 DEF Log!BatchOK, Log!At
<1>8. \A i \in DOMAIN waiting : waiting[i] = queued - Len(waiting) + i
  BY <1>2 DEF LogQueue
<1>9. LogQueue'
  <2>1. writer'[w].at = "none" => written' = queued' /\ waiting' = << >> /\ unwritten' = 0
    BY <1>6
  <2>2. unwritten' <= MAX_PENDING_WRITES /\ \A n \in DOMAIN since' : since'[n] <= Len(levels')
    BY <1>2 DEF LogQueue
  <2> QED BY <1>2, <1>3, <1>4, <1>7, <1>8, <2>1, <2>2, LogQueueStep
<1>10. LogRows'
  <2>1. ASSUME NEW i \in DOMAIN table
        PROVE  ~ (table[i].record > written') /\ writer'[w].at = "none"
    <3>1. table[i].record \in 1..queued
      BY LogRow
    <3> QED BY <1>1, <1>2, <1>3, <1>6, <3>1 DEF LogTypes
  <2> QED BY <1>3, <1>4, <2>1, LogRowsStay
<1> QED BY <1>1, <1>3, <1>4, <1>5, <1>9, <1>10 DEF LogState

\* A sequence that is cut in two.
LEMMA LogCut ==
  ASSUME NEW S, NEW s \in Seq(S), NEW count \in 1..Len(s)
  PROVE  /\ SubSeq(s, 1, count) \in Seq(S) /\ Len(SubSeq(s, 1, count)) = count
         /\ DOMAIN SubSeq(s, 1, count) = 1..count
         /\ \A i \in 1..count : SubSeq(s, 1, count)[i] = s[i]
         /\ SubSeq(s, count + 1, Len(s)) \in Seq(S)
         /\ Len(SubSeq(s, count + 1, Len(s))) = Len(s) - count
         /\ DOMAIN SubSeq(s, count + 1, Len(s)) = 1..(Len(s) - count)
         /\ \A i \in 1..(Len(s) - count) : SubSeq(s, count + 1, Len(s))[i] = s[count + i]
<1>1. Len(s) \in Nat /\ count \in Nat /\ 1 <= count /\ count <= Len(s)
  OBVIOUS
<1>2. \A i \in 1..count : s[i] \in S
  OBVIOUS
<1>3. \A i \in (count + 1)..Len(s) : s[i] \in S
  BY <1>1
<1>4. PICK t : t = SubSeq(s, 1, count)
  OBVIOUS
<1>5. /\ t \in Seq(S) /\ Len(t) = IF 1 <= count THEN count - 1 + 1 ELSE 0
      /\ \A i \in 1..(count - 1 + 1) : t[i] = s[1 + i - 1]
  <2>1. 1 \in Int /\ count \in Int
    BY <1>1
  <2> QED BY <1>2, <1>4, <2>1, SubSeqProperties
<1>6. count - 1 + 1 = count /\ \A i \in 1..count : 1 + i - 1 = i
  BY <1>1
<1>7. /\ t \in Seq(S) /\ Len(t) = count /\ DOMAIN t = 1..count /\ \A i \in 1..count : t[i] = s[i]
  BY <1>1, <1>5, <1>6
<1>8. PICK u : u = SubSeq(s, count + 1, Len(s))
  OBVIOUS
<1>9. /\ u \in Seq(S) /\ Len(u) = IF count + 1 <= Len(s) THEN Len(s) - (count + 1) + 1 ELSE 0
      /\ \A i \in 1..(Len(s) - (count + 1) + 1) : u[i] = s[count + 1 + i - 1]
  <2>1. count + 1 \in Int /\ Len(s) \in Int
    BY <1>1
  <2> QED BY <1>3, <1>8, <2>1, SubSeqProperties
<1>10. /\ Len(s) - (count + 1) + 1 = Len(s) - count
       /\ count + 1 <= Len(s) \/ Len(s) - count = 0
       /\ \A i \in 1..(Len(s) - count) : count + 1 + i - 1 = count + i
  BY <1>1
<1>11. Len(u) = Len(s) - count
  BY <1>1, <1>9, <1>10
<1>12. \A i \in 1..(Len(s) - count) : u[i] = s[count + i]
  BY <1>9, <1>10
<1>13. DOMAIN u = 1..(Len(s) - count)
  BY <1>9, <1>11
<1> QED BY <1>4, <1>7, <1>8, <1>9, <1>11, <1>12, <1>13

\* A task takes so many of the records that wait.
LogTakes(w, count) ==
  /\ writer' = [writer EXCEPT ![w] = [at |-> "took", batch |-> SubSeq(waiting, 1, count), level |-> 0]]
  /\ waiting' = SubSeq(waiting, count + 1, Len(waiting))
  /\ UNCHANGED << unwritten, queued, written, since, table, levels, flush, day, last_pruned_at, pruners >>

\* `write_queue` takes the first of the records that wait.
LEMMA LogTakesBatch ==
  ASSUME LogState, NEW w \in Writers, writer[w].at = "loop",
         NEW count \in 1..Len(waiting),
         LogTakes(w, count)
  PROVE  LogState'
<1> USE LogAssumption
<1>21. /\ unwritten' = unwritten /\ queued' = queued /\ written' = written /\ since' = since
       /\ table' = table /\ levels' = levels /\ flush' = flush /\ day' = day
       /\ last_pruned_at' = last_pruned_at /\ pruners' = pruners
  BY DEF LogTakes
<1>2. LogTypes /\ LogOthers /\ LogQueue
  BY DEF LogState
<1>0. waiting \in Seq(1..MaxRecords) /\ Len(waiting) \in Nat /\ DOMAIN waiting = 1..Len(waiting)
      /\ written \in Nat /\ queued \in Nat /\ unwritten \in Nat
  BY <1>2 DEF LogTypes
<1>20. Len(waiting) \in Nat /\ written \in Nat /\ queued \in Nat /\ unwritten \in Nat /\ count \in Nat
       /\ 1 <= count /\ count <= Len(waiting)
  BY <1>0
<1>1. PICK batch : batch = SubSeq(waiting, 1, count)
  OBVIOUS
<1>11. /\ batch \in Seq(1..MaxRecords) /\ Len(batch) = count /\ DOMAIN batch = 1..count
       /\ \A i \in 1..count : batch[i] = waiting[i]
  BY <1>0, <1>1, LogCut
<1>12. /\ waiting' \in Seq(1..MaxRecords) /\ Len(waiting') = Len(waiting) - count
       /\ DOMAIN waiting' = 1..(Len(waiting) - count)
       /\ \A i \in 1..(Len(waiting) - count) : waiting'[i] = waiting[count + i]
  <2>1. waiting \in Seq(1..MaxRecords) /\ count \in 1..Len(waiting)
    BY <1>0
  <2>2. /\ SubSeq(waiting, count + 1, Len(waiting)) \in Seq(1..MaxRecords)
        /\ Len(SubSeq(waiting, count + 1, Len(waiting))) = Len(waiting) - count
        /\ DOMAIN SubSeq(waiting, count + 1, Len(waiting)) = 1..(Len(waiting) - count)
        /\ \A i \in 1..(Len(waiting) - count) :
             SubSeq(waiting, count + 1, Len(waiting))[i] = waiting[count + i]
    <3>1. \A S : \A s \in Seq(S) : \A c \in 1..Len(s) :
            /\ SubSeq(s, c + 1, Len(s)) \in Seq(S) /\ Len(SubSeq(s, c + 1, Len(s))) = Len(s) - c
            /\ DOMAIN SubSeq(s, c + 1, Len(s)) = 1..(Len(s) - c)
            /\ \A i \in 1..(Len(s) - c) : SubSeq(s, c + 1, Len(s))[i] = s[c + i]
      BY LogCut
    <3> QED BY <2>1, <3>1, Zenon
  <2>3. waiting' = SubSeq(waiting, count + 1, Len(waiting))
    BY DEF LogTakes
  <2> QED BY <2>2, <2>3, Zenon
<1>13. PICK r : r = [at |-> "took", batch |-> batch, level |-> 0]
  OBVIOUS
<1>14. r \in Log!Works /\ r.at = "took" /\ r.batch = batch /\ r.level = 0
  BY <1>11, <1>13 DEF Log!Works, Log!Steps
<1>3. writer' \in [Writers -> Log!Works] /\ writer'[w] = r
      /\ \A v \in Writers \ {w} : writer[v].at = "none" /\ writer'[v] = writer[v]
  <2>1. writer' = [writer EXCEPT ![w] = r]
    BY <1>1, <1>13 DEF LogTakes
  <2> QED BY <1>2, <1>14, <2>1, LogAlone DEF LogTypes
<1>4. LogTypes'
  BY <1>2, <1>3, <1>12, <1>21 DEF LogTypes
<1>5. LogOthers'
  BY <1>2, <1>21 DEF LogOthers
<1>6. /\ written + Len(waiting) = queued /\ unwritten = Len(waiting)
      /\ \A i \in 1..Len(waiting) : waiting[i] = written + i
  <2>1. writer[w].batch = << >> /\ written + Len(writer[w].batch) + Len(waiting) = queued
        /\ unwritten = Len(waiting) + Len(writer[w].batch)
    BY LogBatch
  <2>2. \A i \in 1..Len(waiting) : waiting[i] = queued - Len(waiting) + i
    BY <1>0, <1>2 DEF LogQueue
  <2>3. Len(writer[w].batch) = 0
    BY <2>1
  <2>4. written + Len(waiting) = queued /\ unwritten = Len(waiting)
    BY <1>0, <2>1, <2>3
  <2>5. \A i \in 1..Len(waiting) : queued - Len(waiting) + i = written + i
    BY <1>20, <2>4
  <2>6. DOMAIN waiting = 1..Len(waiting)
    BY <1>0
  <2> QED BY <2>2, <2>4, <2>5, <2>6
<1>7. Log!BatchOK(w)'
  <2>1. \A i \in 1..count : batch[i] = written + i
    BY <1>6, <1>11, <1>20
  <2>2. written + count + Len(waiting') = queued /\ unwritten = Len(waiting') + count
    <3>1. written + Len(waiting) = queued /\ unwritten = Len(waiting)
      BY <1>6
    <3>2. Len(waiting') = Len(waiting) - count
      BY <1>12
    <3> QED BY <1>20, <3>1, <3>2
  <2> QED BY <1>3, <1>11, <1>14, <1>21, <2>1, <2>2 DEF Log!BatchOK, Log!At
<1>8. \A i \in DOMAIN waiting' : waiting'[i] = queued' - Len(waiting') + i
  <2>1. ASSUME NEW i \in 1..(Len(waiting) - count)
        PROVE  waiting'[i] = queued - (Len(waiting) - count) + i
    <3>0. written + Len(waiting) = queued
      BY <1>6
    <3>1. count + i \in 1..Len(waiting) /\ written + (count + i) = queued - (Len(waiting) - count) + i
      BY <1>20, <3>0
    <3>2. waiting'[i] = waiting[count + i] /\ waiting[count + i] = written + (count + i)
      BY <1>6, <1>12, <3>1
    <3> QED BY <3>1, <3>2
  <2> QED BY <1>12, <1>21, <2>1
<1>9. LogQueue'
  <2>1. unwritten' <= MAX_PENDING_WRITES /\ \A n \in DOMAIN since' : since'[n] <= Len(levels')
    BY <1>2, <1>21 DEF LogQueue
  <2>2. writer'[w].at # "none"
    BY <1>3, <1>14
  <2> QED BY <1>2, <1>3, <1>4, <1>7, <1>8, <2>1, <2>2, LogQueueStep
<1>10. LogRows'
  <2>1. ASSUME NEW i \in DOMAIN table
        PROVE  ~ (table[i].record > written') /\ table[i].record <= written' + Len(writer'[w].batch)
    <3>1. table[i].record <= written + Len(writer[w].batch) /\ writer[w].batch = << >>
          /\ table[i].record \in 1..queued
      BY LogRow, LogBatch DEF LogState, LogRows
    <3>2. Len(writer[w].batch) = 0 /\ Len(writer'[w].batch) = count /\ written' = written
      BY <1>3, <1>11, <1>14, <1>21, <3>1
    <3> QED BY <1>20, <3>1, <3>2
  <2> QED BY <1>3, <1>4, <1>21, <2>1, LogRowsStay
<1> QED BY <1>4, <1>5, <1>9, <1>10 DEF LogState

\* What a step changes that moves one task on, and nothing but its place.
LogMoves(w, r) ==
  /\ writer' = [writer EXCEPT ![w] = r]
  /\ UNCHANGED << waiting, queued, since, levels, flush, day, last_pruned_at, pruners >>

\* What such a step has to show.
LEMMA LogMove ==
  ASSUME LogState, NEW w \in Writers, NEW r \in Log!Works, LogMoves(w, r),
         writer[w].at # "none", r.at # "none",
         unwritten' \in Nat, written' \in 0..queued, unwritten' <= MAX_PENDING_WRITES,
         r.at = "loop" => r.batch = << >>,
         written' + Len(r.batch) + Len(waiting) = queued,
         r.at = "discounted" => unwritten' = Len(waiting),
         r.at # "discounted" => unwritten' = Len(waiting) + Len(r.batch),
         \A i \in 1..Len(r.batch) : r.batch[i] = written' + i,
         r.at = "read" => /\ r.level \in 1..Len(levels) /\ levels[r.level] # "off"
                          /\ \A i \in 1..Len(r.batch) : since[r.batch[i]] <= r.level
  PROVE  /\ LogTypes' /\ LogOthers' /\ LogQueue' /\ writer'[w] = r
         /\ \A v \in Writers \ {w} : writer[v].at = "none" /\ writer'[v] = writer[v]
<1>1. LogTypes /\ LogOthers /\ LogQueue
  BY DEF LogState
<1>2. /\ waiting' = waiting /\ queued' = queued /\ since' = since /\ levels' = levels /\ flush' = flush
      /\ day' = day /\ last_pruned_at' = last_pruned_at /\ pruners' = pruners
      /\ writer' = [writer EXCEPT ![w] = r]
  BY DEF LogMoves
<1>3. writer' \in [Writers -> Log!Works] /\ writer'[w] = r
      /\ \A v \in Writers \ {w} : writer[v].at = "none" /\ writer'[v] = writer[v]
  BY <1>1, <1>2, LogAlone DEF LogTypes
<1>4. LogTypes'
  BY <1>1, <1>2, <1>3 DEF LogTypes
<1>5. LogOthers'
  BY <1>1, <1>2 DEF LogOthers
<1>6. DOMAIN r.batch = 1..Len(r.batch) /\ DOMAIN levels = 1..Len(levels)
  BY <1>1 DEF Log!Works, LogTypes
<1>7. Log!BatchOK(w)'
  <2>1. unwritten' = Len(waiting) + IF r.at = "discounted" THEN 0 ELSE Len(r.batch)
    <3>1. Len(waiting) \in Nat
      BY <1>1 DEF LogTypes
    <3> QED BY <3>1
  <2>2. \A i \in DOMAIN r.batch : r.batch[i] = written' + i
    BY <1>6
  <2>3. r.at = "read" => /\ r.level \in DOMAIN levels /\ levels[r.level] # "off"
                         /\ \A i \in DOMAIN r.batch : since[r.batch[i]] <= r.level
    BY <1>6
  <2> QED BY <1>2, <1>3, <2>1, <2>2, <2>3 DEF Log!BatchOK, Log!At
<1>8. /\ \A i \in DOMAIN waiting : waiting[i] = queued - Len(waiting) + i
      /\ \A n \in DOMAIN since : since[n] <= Len(levels)
  BY <1>1 DEF LogQueue
<1>9. LogQueue'
  BY <1>1, <1>2, <1>3, <1>4, <1>7, <1>8, LogQueueStep
<1> QED BY <1>3, <1>4, <1>5, <1>9

\* `persist_batch` has read the settings, or finds that there is nothing to do.
LEMMA LogReads ==
  ASSUME LogState, NEW w \in Writers, Log!ReadLevel(w)
  PROVE  LogState'
<1> USE LogAssumption
<1>1. PICK next \in {"read", "settled"} :
        /\ levels[Len(levels)] = "off" => next = "settled"
        /\ writer' = [writer EXCEPT ![w].at = next, ![w].level = Len(levels)]
  BY DEF Log!ReadLevel
<1>2. /\ writer[w].at = "took"
      /\ UNCHANGED << waiting, queued, since, levels, flush, day, last_pruned_at, pruners >>
      /\ unwritten' = unwritten /\ written' = written /\ table' = table
  BY DEF Log!ReadLevel, Log!At, Log!queueVars, Log!pruneVars
<1>3. LogTypes /\ LogQueue /\ LogRows
  BY DEF LogState
<1>4. /\ unwritten \in Nat /\ queued \in Nat /\ written \in 0..queued /\ Len(waiting) \in Nat
      /\ Len(levels) \in 1..MaxLevels /\ unwritten <= MAX_PENDING_WRITES
      /\ DOMAIN since = 1..queued
  BY <1>3 DEF LogTypes, LogQueue
<1>5. PICK r : r = [writer[w] EXCEPT !.at = next, !.level = Len(levels)]
  OBVIOUS
<1>6. /\ writer[w] \in Log!Works
      /\ \A i \in 1..Len(writer[w].batch) : writer[w].batch[i] = written + i
      /\ written + Len(writer[w].batch) + Len(waiting) = queued
      /\ unwritten = Len(waiting) + Len(writer[w].batch)
      /\ Len(writer[w].batch) \in Nat
  BY <1>2, LogBatch
<1>7. r \in Log!Works /\ r.at = next /\ r.level = Len(levels) /\ r.batch = writer[w].batch
  <2>1. writer[w] \in Log!Works /\ Len(levels) \in 0..MaxLevels /\ next \in Log!Steps
    BY <1>4, <1>6 DEF Log!Steps
  <2> QED BY <1>5, <2>1 DEF Log!Works
<1>8. LogMoves(w, r)
  <2>1. writer' = [writer EXCEPT ![w] = r]
    BY <1>1, <1>5
  <2> QED BY <1>2, <2>1 DEF LogMoves
<1>9. ASSUME next = "read"
      PROVE  /\ levels[r.level] # "off"
             /\ \A i \in 1..Len(r.batch) : since[r.batch[i]] <= r.level
  <2>1. ASSUME NEW i \in 1..Len(r.batch) PROVE since[r.batch[i]] <= r.level
    <3>1. r.batch[i] = written + i
      BY <1>6, <1>7
    <3>2. written + i \in 1..queued
      BY <1>4, <1>6, <1>7
    <3> QED BY <1>3, <1>4, <1>7, <3>1, <3>2 DEF LogQueue
  <2> QED BY <1>1, <1>7, <1>9, <2>1
<1>10. r.at # "none" /\ r.at # "loop" /\ r.at # "discounted" /\ writer[w].at # "none"
  BY <1>2, <1>7
<1>11. /\ LogTypes' /\ LogOthers' /\ LogQueue' /\ writer'[w] = r
       /\ \A v \in Writers \ {w} : writer[v].at = "none" /\ writer'[v] = writer[v]
  <2>1. /\ unwritten' \in Nat /\ written' \in 0..queued /\ unwritten' <= MAX_PENDING_WRITES
        /\ written' + Len(r.batch) + Len(waiting) = queued
        /\ unwritten' = Len(waiting) + Len(r.batch)
    BY <1>2, <1>4, <1>6, <1>7
  <2>2. \A i \in 1..Len(r.batch) : r.batch[i] = written' + i
    BY <1>2, <1>6, <1>7
  <2>3. r.at = "read" => /\ r.level \in 1..Len(levels) /\ levels[r.level] # "off"
                         /\ \A i \in 1..Len(r.batch) : since[r.batch[i]] <= r.level
    BY <1>4, <1>7, <1>9
  <2> QED BY <1>7, <1>8, <1>10, <2>1, <2>2, <2>3, LogMove
<1>12. LogRows'
  <2>1. ASSUME NEW i \in DOMAIN table
        PROVE  ~ (table[i].record > written) /\ table[i].record <= written + Len(r.batch)
    <3>1. ~ (table[i].record > written) /\ table[i].record \in 1..queued
      BY <1>2, <1>11, LogRow
    <3>2. Len(r.batch) \in Nat /\ written \in Nat
      BY <1>4, <1>6, <1>7
    <3> QED BY <3>1, <3>2
  <2> QED BY <1>2, <1>11, <2>1, LogRowsStay
<1> QED BY <1>11, <1>12 DEF LogState

\* `write_batch` makes room for as many records as were settled.
LEMMA LogDiscounts ==
  ASSUME LogState, NEW w \in Writers, Log!Discount(w)
  PROVE  LogState'
<1>1. /\ writer' = [writer EXCEPT ![w].at = "discounted"]
      /\ unwritten' = IF unwritten < Len(writer[w].batch) THEN 0 ELSE unwritten - Len(writer[w].batch)
  BY DEF Log!Discount
<1>2. /\ writer[w].at = "settled"
      /\ UNCHANGED << waiting, queued, since, levels, flush, day, last_pruned_at, pruners >>
      /\ written' = written /\ table' = table
  BY DEF Log!Discount, Log!At, Log!pruneVars
<1>3. LogTypes /\ LogQueue /\ LogRows
  BY DEF LogState
<1>4. /\ unwritten \in Nat /\ queued \in Nat /\ written \in 0..queued /\ Len(waiting) \in Nat
      /\ unwritten <= MAX_PENDING_WRITES
  BY <1>3 DEF LogTypes, LogQueue
<1>5. PICK r : r = [writer[w] EXCEPT !.at = "discounted"]
  OBVIOUS
<1>6. /\ writer[w] \in Log!Works
      /\ \A i \in 1..Len(writer[w].batch) : writer[w].batch[i] = written + i
      /\ written + Len(writer[w].batch) + Len(waiting) = queued
      /\ unwritten = Len(waiting) + Len(writer[w].batch)
      /\ Len(writer[w].batch) \in Nat
  BY <1>2, LogBatch
<1>7. r \in Log!Works /\ r.at = "discounted" /\ r.batch = writer[w].batch
  BY <1>5, <1>6 DEF Log!Works, Log!Steps
<1>8. LogMoves(w, r)
  <2>1. writer' = [writer EXCEPT ![w] = r]
    BY <1>1, <1>5
  <2> QED BY <1>2, <2>1 DEF LogMoves
<1>9. unwritten' = Len(waiting) /\ unwritten' <= MAX_PENDING_WRITES
  <2>1. unwritten = Len(waiting) + Len(writer[w].batch) /\ Len(writer[w].batch) \in Nat
    BY <1>6
  <2>2. unwritten' = Len(waiting)
    BY <1>1, <1>4, <2>1
  <2>3. Len(waiting) <= MAX_PENDING_WRITES
    <3> USE LogAssumption
    <3> QED BY <1>4, <2>1
  <2> QED BY <2>2, <2>3
<1>10. r.at # "none" /\ r.at # "loop" /\ r.at # "read" /\ writer[w].at # "none"
  BY <1>2, <1>7
<1>11. /\ LogTypes' /\ LogOthers' /\ LogQueue' /\ writer'[w] = r
       /\ \A v \in Writers \ {w} : writer[v].at = "none" /\ writer'[v] = writer[v]
  BY <1>2, <1>4, <1>6, <1>7, <1>8, <1>9, <1>10, LogMove
<1>12. LogRows'
  <2>1. \A i \in DOMAIN table : table[i].record <= written + Len(r.batch)
    BY <1>3, <1>7, <1>10 DEF LogRows
  <2> QED BY <1>2, <1>7, <1>8, <1>11, <2>1, LogRowsStay DEF LogMoves
<1> QED BY <1>11, <1>12 DEF LogState

\* Those who flush are told what was written, and the task takes a next batch.
LEMMA LogPublishes ==
  ASSUME LogState, NEW w \in Writers, Log!Publish(w)
  PROVE  LogState'
<1>1. /\ writer' = [writer EXCEPT ![w] = [Log!NoTask EXCEPT !.at = "loop"]]
      /\ written' = written + Len(writer[w].batch)
  BY DEF Log!Publish
<1>2. /\ writer[w].at = "discounted"
      /\ UNCHANGED << waiting, queued, since, levels, flush, day, last_pruned_at, pruners >>
      /\ unwritten' = unwritten /\ table' = table
  BY DEF Log!Publish, Log!At, Log!pruneVars
<1>3. LogTypes /\ LogQueue /\ LogRows
  BY DEF LogState
<1>4. /\ unwritten \in Nat /\ queued \in Nat /\ written \in 0..queued /\ Len(waiting) \in Nat
      /\ unwritten <= MAX_PENDING_WRITES
  BY <1>3 DEF LogTypes, LogQueue
<1>5. PICK r : r = [Log!NoTask EXCEPT !.at = "loop"]
  OBVIOUS
<1>6. /\ written + Len(writer[w].batch) + Len(waiting) = queued
      /\ unwritten = Len(waiting) /\ Len(writer[w].batch) \in Nat
  BY <1>2, LogBatch
<1>7. r \in Log!Works /\ r.at = "loop" /\ r.batch = << >> /\ Len(r.batch) = 0
  <2>1. r = [at |-> "loop", batch |-> << >>, level |-> 0]
    BY <1>5 DEF Log!NoTask
  <2> QED BY <2>1, LogAssumption DEF Log!Works, Log!Steps
<1>8. LogMoves(w, r)
  <2>1. writer' = [writer EXCEPT ![w] = r]
    BY <1>1, <1>5
  <2> QED BY <1>2, <2>1 DEF LogMoves
<1>9. written' \in 0..queued /\ written' + Len(r.batch) + Len(waiting) = queued
      /\ unwritten' = Len(waiting) + Len(r.batch)
  <2>1. written' = written + Len(writer[w].batch) /\ unwritten' = unwritten /\ Len(r.batch) = 0
    BY <1>1, <1>2, <1>7
  <2> QED BY <1>4, <1>6, <2>1
<1>10. r.at # "none" /\ r.at # "discounted" /\ r.at # "read" /\ writer[w].at # "none"
  BY <1>2, <1>7
<1>13. \A i \in 1..Len(r.batch) : r.batch[i] = written' + i
  BY <1>7
<1>11. /\ LogTypes' /\ LogOthers' /\ LogQueue' /\ writer'[w] = r
       /\ \A v \in Writers \ {w} : writer[v].at = "none" /\ writer'[v] = writer[v]
  BY <1>2, <1>4, <1>7, <1>8, <1>9, <1>10, <1>13, LogMove
<1>12. LogRows'
  <2>1. ASSUME NEW i \in DOMAIN table
        PROVE  ~ (table[i].record > written') /\ table[i].record <= written' + Len(r.batch)
    <3>1. table[i].record <= written + Len(writer[w].batch) /\ table[i].record \in 1..queued
      BY <1>3, <1>10, LogRow DEF LogRows
    <3> QED BY <1>1, <1>4, <1>6, <1>7, <3>1
  <2> QED BY <1>2, <1>8, <1>11, <2>1, LogRowsStay DEF LogMoves
<1> QED BY <1>11, <1>12 DEF LogState

\* The rows of a batch follow those that are there, each later than the last.
LEMMA LogCommits ==
  ASSUME LogState, NEW w \in Writers, Log!Commit(w)
  PROVE  LogState'
<1> USE LogAssumption
<1>1. PICK stored \in SUBSET Log!Range(writer[w].batch) :
        table' = table \o [i \in DOMAIN writer[w].batch |->
                   [record |-> writer[w].batch[i], level |-> writer[w].level, at |-> day,
                    there |-> writer[w].batch[i] \in stored]]
  BY DEF Log!Commit
<1>2. /\ writer[w].at = "read" /\ writer' = [writer EXCEPT ![w].at = "settled"]
      /\ UNCHANGED << waiting, queued, since, levels, flush, day, last_pruned_at, pruners >>
      /\ unwritten' = unwritten /\ written' = written
  BY DEF Log!Commit, Log!At, Log!queueVars, Log!pruneVars
<1>3. LogTypes /\ LogOthers /\ LogQueue /\ LogRows
  BY DEF LogState
<1>4. /\ unwritten \in Nat /\ queued \in Nat /\ written \in 0..queued /\ Len(waiting) \in Nat
      /\ unwritten <= MAX_PENDING_WRITES /\ Len(levels) \in 1..MaxLevels
      /\ day \in 0..LogClock /\ levels \in Seq(Log!Levels)
  BY <1>3 DEF LogTypes, LogOthers, LogQueue
<1>5. PICK r : r = [writer[w] EXCEPT !.at = "settled"]
  OBVIOUS
<1>6. /\ writer[w] \in Log!Works
      /\ writer[w].batch \in Seq(1..MaxRecords) /\ DOMAIN writer[w].batch = 1..Len(writer[w].batch)
      /\ \A i \in 1..Len(writer[w].batch) : writer[w].batch[i] = written + i
      /\ Len(writer[w].batch) \in Nat
      /\ writer[w].level \in 1..Len(levels) /\ levels[writer[w].level] # "off"
      /\ \A i \in 1..Len(writer[w].batch) : since[writer[w].batch[i]] <= writer[w].level
  BY <1>2, LogBatch
<1>20. written + Len(writer[w].batch) + Len(waiting) = queued
       /\ unwritten = Len(waiting) + Len(writer[w].batch)
  BY <1>2, LogBatch
<1>7. r \in Log!Works /\ r.at = "settled" /\ r.batch = writer[w].batch
  <2>1. writer[w] \in Log!Works
    BY <1>6
  <2> QED BY <1>5, <2>1 DEF Log!Works, Log!Steps
<1>8. LogMoves(w, r)
  <2>1. writer' = [writer EXCEPT ![w] = r]
    BY <1>2, <1>5
  <2> QED BY <1>2, <2>1 DEF LogMoves
<1>9. /\ LogTypes' /\ LogOthers' /\ LogQueue' /\ writer'[w] = r
      /\ \A v \in Writers \ {w} : writer[v].at = "none" /\ writer'[v] = writer[v]
  <2>1. /\ unwritten' \in Nat /\ written' \in 0..queued /\ unwritten' <= MAX_PENDING_WRITES
        /\ written' + Len(r.batch) + Len(waiting) = queued
        /\ unwritten' = Len(waiting) + Len(r.batch)
    BY <1>2, <1>4, <1>7, <1>20
  <2>2. \A i \in 1..Len(r.batch) : r.batch[i] = written' + i
    BY <1>2, <1>6, <1>7
  <2> QED BY <1>2, <1>7, <1>8, <2>1, <2>2, LogMove
<1>10. PICK batch : batch = writer[w].batch
  OBVIOUS
<1>11. PICK level : level = writer[w].level
  OBVIOUS
<1>12. PICK new : new = [i \in DOMAIN batch |->
                   [record |-> batch[i], level |-> level, at |-> day, there |-> batch[i] \in stored]]
  OBVIOUS
<1>13. /\ batch \in Seq(1..MaxRecords) /\ DOMAIN batch = 1..Len(batch) /\ Len(batch) \in Nat
       /\ \A i \in 1..Len(batch) : batch[i] = written + i /\ batch[i] \in 1..MaxRecords
       /\ level \in 1..Len(levels) /\ levels[level] # "off"
       /\ \A i \in 1..Len(batch) : since[batch[i]] <= level
  <2>1. /\ batch \in Seq(1..MaxRecords) /\ DOMAIN batch = 1..Len(batch) /\ Len(batch) \in Nat
        /\ \A i \in 1..Len(batch) : batch[i] = written + i
    BY <1>6, <1>10
  <2>2. \A i \in 1..Len(batch) : batch[i] \in 1..MaxRecords
    BY <2>1, ElementOfSeq
  <2>3. /\ level \in 1..Len(levels) /\ levels[level] # "off"
        /\ \A i \in 1..Len(batch) : since[batch[i]] <= level
    BY <1>6, <1>10, <1>11
  <2> QED BY <2>1, <2>2, <2>3
<1>14. \A i \in 1..Len(batch) : /\ new[i] \in Log!LoggedRows
                                /\ new[i].record = batch[i] /\ new[i].level = level
  <2>1. ASSUME NEW i \in 1..Len(batch)
        PROVE  /\ new[i] \in Log!LoggedRows
               /\ new[i].record = batch[i] /\ new[i].level = level
    <3>0. (batch[i] \in stored) \in BOOLEAN
      OBVIOUS
    <3>1. PICK there \in BOOLEAN : there = (batch[i] \in stored)
      BY <3>0
    <3>2. new[i] = [record |-> batch[i], level |-> level, at |-> day, there |-> batch[i] \in stored]
      BY <1>12, <1>13, Zenon
    <3>3. new[i] = [record |-> batch[i], level |-> level, at |-> day, there |-> there]
      BY <3>1, <3>2, Zenon
    <3>4. batch[i] \in 1..MaxRecords /\ level \in 1..MaxLevels /\ day \in 0..LogClock
      BY <1>4, <1>13
    <3>5. new[i] \in Log!LoggedRows
      BY <3>1, <3>3, <3>4 DEF Log!LoggedRows
    <3> QED BY <3>3, <3>5
  <2> QED BY <2>1
<1>15. new \in Seq(Log!LoggedRows) /\ Len(new) = Len(batch)
  <2>1. DOMAIN new = 1..Len(batch) /\ new = [i \in 1..Len(batch) |-> new[i]]
    BY <1>12, <1>13, Zenon
  <2>2. new \in [1..Len(batch) -> Log!LoggedRows]
    BY <1>14, <2>1, Zenon
  <2>3. Len(batch) \in Nat
    BY <1>13
  <2>4. new \in Seq(Log!LoggedRows)
    BY <2>2, <2>3, SeqDef
  <2>5. DOMAIN new = 1..Len(new) /\ Len(new) \in Nat
    BY <2>4, LenProperties
  <2> QED BY <2>1, <2>3, <2>4, <2>5
<1>16. table' = table \o new
  BY <1>1, <1>10, <1>11, <1>12
<1>17. PICK n : n = Len(table)
  OBVIOUS
<1>18. /\ table \in Seq(Log!LoggedRows) /\ n \in Nat /\ DOMAIN table = 1..n
       /\ table' \in Seq(Log!LoggedRows) /\ DOMAIN table' = 1..(n + Len(batch))
       /\ \A i \in 1..n : table'[i] = table[i]
       /\ \A i \in (n + 1)..(n + Len(batch)) : table'[i] = new[i - n]
  <2>1. table \in Seq(Log!LoggedRows) /\ n \in Nat /\ DOMAIN table = 1..n
    BY <1>3, <1>17 DEF LogRows
  <2>2. /\ table' \in Seq(Log!LoggedRows) /\ Len(table') = n + Len(batch)
        /\ \A i \in 1..(n + Len(batch)) : table'[i] = IF i <= n THEN table[i] ELSE new[i - n]
    <3>1. table \in Seq(Log!LoggedRows) /\ new \in Seq(Log!LoggedRows) /\ Len(new) = Len(batch)
          /\ n = Len(table) /\ table' = table \o new
      BY <1>15, <1>16, <1>17, <2>1
    <3>2. /\ table \o new \in Seq(Log!LoggedRows) /\ Len(table \o new) = Len(table) + Len(new)
          /\ \A i \in 1..Len(table) + Len(new) :
               (table \o new)[i] = IF i <= Len(table) THEN table[i] ELSE new[i - Len(table)]
      BY <3>1, ConcatProperties, Zenon
    <3> QED BY <3>1, <3>2, Zenon
  <2>3. DOMAIN table' = 1..(n + Len(batch))
    BY <2>2
  <2>4. \A i \in 1..n : i \in 1..(n + Len(batch)) /\ i <= n
    BY <1>13, <2>1
  <2>5. \A i \in (n + 1)..(n + Len(batch)) : i \in 1..(n + Len(batch)) /\ ~ (i <= n)
    BY <1>13, <2>1
  <2> QED BY <2>1, <2>2, <2>3, <2>4, <2>5
<1>19. \A i \in 1..n : /\ table[i].record \in 1..written /\ table[i].level \in 1..Len(levels)
                       /\ levels[table[i].level] # "off" /\ since[table[i].record] <= table[i].level
  <2>1. ASSUME NEW i \in 1..n
        PROVE  /\ table[i].record \in 1..written /\ table[i].level \in 1..Len(levels)
               /\ levels[table[i].level] # "off" /\ since[table[i].record] <= table[i].level
    <3>1. /\ table[i].record \in 1..queued /\ table[i].level \in 1..Len(levels)
          /\ levels[table[i].level] # "off" /\ since[table[i].record] <= table[i].level
          /\ table[i].record > written => \E v \in Writers : writer[v].at \in {"settled", "discounted"}
      BY <1>18, LogRow
    <3>2. ~ (table[i].record > written)
      BY <1>2, <1>9, <3>1
    <3> QED BY <1>4, <3>1, <3>2
  <2> QED BY <2>1
<1>21. \A i \in (n + 1)..(n + Len(batch)) :
         /\ i - n \in 1..Len(batch) /\ table'[i].record = written + (i - n) /\ table'[i].level = level
         /\ table'[i].record \in 1..queued /\ since[table'[i].record] <= level
  <2>1. ASSUME NEW i \in (n + 1)..(n + Len(batch))
        PROVE  /\ i - n \in 1..Len(batch) /\ table'[i].record = written + (i - n)
               /\ table'[i].level = level
               /\ table'[i].record \in 1..queued /\ since[table'[i].record] <= level
    <3>1. i - n \in 1..Len(batch)
      BY <1>13, <1>18
    <3>2. table'[i].record = batch[i - n] /\ table'[i].level = level /\ batch[i - n] = written + (i - n)
          /\ since[batch[i - n]] <= level
      BY <1>13, <1>14, <1>18, <3>1
    <3>3. written + Len(batch) + Len(waiting) = queued /\ Len(batch) \in Nat
      BY <1>10, <1>13, <1>20
    <3>4. written + (i - n) \in 1..queued
      BY <1>4, <3>1, <3>3
    <3> QED BY <3>1, <3>2, <3>4
  <2> QED BY <2>1
<1>22. \A i \in 1..(n + Len(batch)) : i \in 1..n \/ i \in (n + 1)..(n + Len(batch))
  BY <1>13, <1>18
<1>23. ASSUME NEW i \in DOMAIN table' PROVE Log!RowOK(table[i])'
  <2>1. /\ table'[i].level \in 1..Len(levels) /\ levels[table'[i].level] # "off"
        /\ table'[i].record \in 1..queued /\ since[table'[i].record] <= table'[i].level
    <3>1. CASE i \in 1..n
      <4>1. /\ table'[i].level \in 1..Len(levels) /\ levels[table'[i].level] # "off"
            /\ table'[i].record \in 1..written /\ since[table'[i].record] <= table'[i].level
        BY <1>18, <1>19, <3>1
      <4> QED BY <1>4, <4>1
    <3>2. CASE i \in (n + 1)..(n + Len(batch))
      BY <1>13, <1>21, <3>2
    <3> QED BY <1>18, <1>22, <3>1, <3>2
  <2>2. DOMAIN levels' = 1..Len(levels) /\ levels' = levels /\ queued' = queued /\ since' = since
    BY <1>2, <1>4
  <2>3. writer'[w].at = "settled"
    BY <1>7, <1>9
  <2> QED BY <2>1, <2>2, <2>3 DEF Log!RowOK, Log!At
<1>24. ASSUME NEW v \in Writers, NEW i \in DOMAIN table', writer'[v].at # "none"
       PROVE  table'[i].record <= written' + Len(writer'[v].batch)
  <2>1. v = w /\ Len(writer'[v].batch) = Len(batch) /\ written' = written
    BY <1>2, <1>7, <1>9, <1>10, <1>24
  <2>2. table'[i].record <= written + Len(batch)
    <3>1. CASE i \in 1..n
      <4>1. table'[i].record \in 1..written
        BY <1>18, <1>19, <3>1
      <4> QED BY <1>4, <1>13, <4>1
    <3>2. CASE i \in (n + 1)..(n + Len(batch))
      <4>1. table'[i].record = written + (i - n) /\ i - n \in 1..Len(batch)
        BY <1>21, <3>2
      <4> QED BY <1>4, <1>13, <4>1
    <3> QED BY <1>18, <1>22, <3>1, <3>2
  <2> QED BY <2>1, <2>2
<1>25. ASSUME NEW i \in DOMAIN table', NEW j \in DOMAIN table', i < j
       PROVE  table'[i].record < table'[j].record
  <2>1. CASE i \in 1..n /\ j \in 1..n
    BY <1>3, <1>18, <1>25, <2>1 DEF LogRows
  <2>2. CASE i \in 1..n /\ j \in (n + 1)..(n + Len(batch))
    <3>1. table'[i].record \in 1..written
      BY <1>18, <1>19, <2>2
    <3>2. table'[j].record = written + (j - n) /\ j - n \in 1..Len(batch)
      BY <1>21, <2>2
    <3> QED BY <1>4, <3>1, <3>2
  <2>3. CASE i \in (n + 1)..(n + Len(batch)) /\ j \in (n + 1)..(n + Len(batch))
    <3>1. table'[i].record = written + (i - n) /\ table'[j].record = written + (j - n)
      BY <1>21, <2>3
    <3> QED BY <1>4, <1>18, <1>25, <2>3, <3>1
  <2>4. ~ (i \in (n + 1)..(n + Len(batch)) /\ j \in 1..n)
    BY <1>13, <1>18, <1>25
  <2> QED BY <1>18, <1>22, <2>1, <2>2, <2>3, <2>4
<1>26. LogRows'
  BY <1>18, <1>23, <1>24, <1>25 DEF LogRows
<1> QED BY <1>9, <1>26 DEF LogState

\* What holds of the queue and the rows does not depend on the rest.
LEMMA LogStays ==
  ASSUME LogState, LogOthers',
         UNCHANGED << waiting, unwritten, queued, written, since, writer, table, levels >>
  PROVE  LogState'
<1>1. LogTypes /\ LogQueue /\ LogRows
  BY DEF LogState
<1>2. LogTypes'
  BY <1>1 DEF LogTypes
<1>3. LogQueue'
  BY <1>1 DEF LogQueue, Log!BatchOK, Log!At
<1>4. LogRows'
  BY <1>1 DEF LogRows, Log!RowOK, Log!At
<1> QED BY <1>2, <1>3, <1>4 DEF LogState

\* Those who flush wait for what is queued, and go when it is written.
LEMMA LogFlushes ==
  ASSUME LogState, NEW f \in Flushers, Log!Flush(f) \/ Log!Flushed(f)
  PROVE  LogState'
<1> USE LogAssumption
<1>1. PICK n : n = queued
  OBVIOUS
<1>2. /\ flush' = [flush EXCEPT ![f] = n] \/ flush' = [flush EXCEPT ![f] = None]
      /\ UNCHANGED << waiting, unwritten, queued, written, since, writer, table, levels >>
      /\ UNCHANGED << day, last_pruned_at, pruners >>
  BY <1>1 DEF Log!Flush, Log!Flushed, Log!queueVars, Log!pruneVars
<1>3. LogOthers /\ n \in 0..MaxRecords
  BY <1>1 DEF LogState, LogTypes
<1>4. flush' \in [Flushers -> 0..MaxRecords \cup {None}]
  BY <1>2, <1>3 DEF LogOthers
<1>5. LogOthers'
  BY <1>2, <1>3, <1>4 DEF LogOthers
<1> QED BY <1>2, <1>5, LogStays

\* A level that is saved comes after those the rows were written under.
LEMMA LogSavesLevel ==
  ASSUME LogState, NEW level \in Log!Levels, Log!SaveLevel(level)
  PROVE  LogState'
<1> USE LogAssumption
<1>1. /\ Len(levels) < MaxLevels /\ levels' = Append(levels, level)
      /\ last_pruned_at' = day /\ pruners' = pruners + 1
      /\ UNCHANGED << waiting, unwritten, queued, written, since, writer, table, flush, day >>
  BY DEF Log!SaveLevel, Log!BeginPrune, Log!queueVars
<1>2. LogTypes /\ LogOthers /\ LogQueue /\ LogRows
  BY DEF LogState
<1>3. /\ levels' \in Seq(Log!Levels) /\ Len(levels') = Len(levels) + 1
      /\ \A i \in 1..Len(levels) : levels'[i] = levels[i]
  BY <1>1, <1>2, AppendProperties DEF LogTypes
<1>4. /\ Len(levels) \in 1..MaxLevels /\ DOMAIN levels = 1..Len(levels)
      /\ DOMAIN levels' = 1..(Len(levels) + 1)
  BY <1>2, <1>3 DEF LogTypes
<1>5. LogTypes'
  BY <1>1, <1>2, <1>3, <1>4 DEF LogTypes
<1>6. LogOthers'
  <2>1. day \in 0..LogClock /\ pruners \in Nat /\ None \notin 0..LogClock
        /\ flush \in [Flushers -> 0..MaxRecords \cup {None}]
    BY <1>2 DEF LogOthers
  <2>2. pruners <= Len(levels) + day
    <3>1. CASE last_pruned_at = None
      BY <1>2, <1>4, <2>1, <3>1 DEF LogOthers
    <3>2. CASE last_pruned_at # None
      <4>1. last_pruned_at \in 0..LogClock /\ last_pruned_at <= day
            /\ pruners <= Len(levels) + last_pruned_at
        BY <1>2, <3>2 DEF LogOthers
      <4> QED BY <1>4, <2>1, <4>1
    <3> QED BY <3>1, <3>2
  <2>3. pruners' \in Nat /\ pruners' <= Len(levels') + day
    BY <1>1, <1>3, <1>4, <2>1, <2>2
  <2>4. last_pruned_at' \in 0..LogClock /\ last_pruned_at' # None /\ last_pruned_at' <= day'
        /\ day' = day /\ last_pruned_at' = day /\ flush' = flush
    BY <1>1, <2>1
  <2> QED BY <2>1, <2>3, <2>4 DEF LogOthers
<1>7. ASSUME NEW w \in Writers PROVE Log!BatchOK(w)'
  <2>1. Log!BatchOK(w)
    BY <1>2 DEF LogQueue
  <2>2. writer[w].at = "read" =>
          writer[w].level \in DOMAIN levels' /\ levels'[writer[w].level] # "off"
    BY <1>3, <1>4, <2>1 DEF Log!BatchOK, Log!At
  <2> QED BY <1>1, <2>1, <2>2 DEF Log!BatchOK, Log!At
<1>8. \A n \in DOMAIN since : since[n] <= Len(levels) + 1
  <2>1. ASSUME NEW n \in DOMAIN since PROVE since[n] <= Len(levels) + 1
    <3>1. since[n] \in 1..MaxLevels /\ since[n] <= Len(levels)
      BY <1>2 DEF LogTypes, LogQueue
    <3> QED BY <1>4, <3>1
  <2> QED BY <2>1
<1>9. LogQueue'
  BY <1>1, <1>2, <1>3, <1>7, <1>8 DEF LogQueue
<1>10. ASSUME NEW i \in DOMAIN table PROVE Log!RowOK(table[i])'
  <2>1. Log!RowOK(table[i])
    BY <1>2 DEF LogRows
  <2>2. table[i].level \in DOMAIN levels' /\ levels'[table[i].level] # "off"
    BY <1>3, <1>4, <2>1 DEF Log!RowOK
  <2> QED BY <1>1, <2>1, <2>2 DEF Log!RowOK, Log!At
<1>11. LogRows'
  BY <1>1, <1>2, <1>10 DEF LogRows
<1> QED BY <1>5, <1>6, <1>9, <1>11 DEF LogState

\* `prune_expired` runs at most once in an interval.
LEMMA LogPrunes ==
  ASSUME LogState, Log!prune_expired
  PROVE  LogState'
<1> USE LogAssumption
<1>1. /\ last_pruned_at # day /\ last_pruned_at' = day /\ pruners' = pruners + 1
      /\ UNCHANGED << waiting, unwritten, queued, written, since, writer, table, levels >>
      /\ flush' = flush /\ day' = day
  BY DEF Log!prune_expired, Log!BeginPrune, Log!queueVars
<1>2. LogTypes /\ LogOthers
  BY DEF LogState
<1>3. Len(levels) \in 1..MaxLevels /\ day \in 0..LogClock /\ pruners \in Nat /\ None \notin 0..LogClock
      /\ flush \in [Flushers -> 0..MaxRecords \cup {None}]
  BY <1>2 DEF LogTypes, LogOthers
<1>4. pruners + 1 <= Len(levels) + day
  <2>1. CASE last_pruned_at = None
    <3>1. pruners < Len(levels)
      BY <1>2, <2>1 DEF LogOthers
    <3> QED BY <1>3, <3>1
  <2>2. CASE last_pruned_at # None
    <3>1. last_pruned_at \in 0..LogClock /\ last_pruned_at <= day
          /\ pruners <= Len(levels) + last_pruned_at
      BY <1>2, <2>2 DEF LogOthers
    <3> QED BY <1>1, <1>3, <3>1
  <2> QED BY <2>1, <2>2
<1>5. LogOthers'
  BY <1>1, <1>3, <1>4 DEF LogOthers
<1> QED BY <1>1, <1>5, LogStays

\* Rows that have expired are deleted, the others are as they were.
LEMMA LogDeletes ==
  ASSUME LogState, Log!DeleteExpired
  PROVE  LogState'
<1> USE LogAssumption
<1>1. /\ pruners > 0 /\ pruners' = pruners - 1
      /\ UNCHANGED << waiting, unwritten, queued, written, since, writer, levels >>
      /\ flush' = flush /\ day' = day /\ last_pruned_at' = last_pruned_at
  BY DEF Log!DeleteExpired, Log!queueVars
<1>2. LogTypes /\ LogOthers /\ LogQueue /\ LogRows
  BY DEF LogState
<1>3. LogOthers'
  <2>1. /\ pruners \in Nat /\ Len(levels) \in 1..MaxLevels
        /\ last_pruned_at = None => pruners < Len(levels)
        /\ last_pruned_at # None => last_pruned_at <= day /\ pruners <= Len(levels) + last_pruned_at
        /\ last_pruned_at \in 0..LogClock \cup {None}
    BY <1>2 DEF LogTypes, LogOthers
  <2>2. pruners' \in Nat
    BY <1>1, <2>1
  <2>3. last_pruned_at = None => pruners' < Len(levels)
    BY <1>1, <2>1
  <2>4. last_pruned_at # None => pruners' <= Len(levels) + last_pruned_at
    <3>1. ASSUME last_pruned_at # None PROVE pruners' <= Len(levels) + last_pruned_at
      <4>1. last_pruned_at \in Nat /\ pruners <= Len(levels) + last_pruned_at
        BY <2>1, <3>1
      <4> QED BY <1>1, <2>1, <4>1
    <3> QED BY <3>1
  <2> QED BY <1>1, <1>2, <2>1, <2>2, <2>3, <2>4 DEF LogOthers
<1>4. CASE table' = table
  BY <1>1, <1>2, <1>3, <1>4 DEF LogState, LogTypes, LogQueue, LogRows, Log!BatchOK, Log!RowOK, Log!At
<1>5. CASE table' = [i \in DOMAIN table |->
               [table[i] EXCEPT !.there = table[i].there /\ table[i].at >= day - Retention]]
  <2>1. table \in Seq(Log!LoggedRows) /\ Len(table) \in Nat /\ DOMAIN table = 1..Len(table)
    BY <1>2 DEF LogRows
  <2>2. \A i \in 1..Len(table) : /\ table'[i] \in Log!LoggedRows
                                 /\ table'[i].record = table[i].record
                                 /\ table'[i].level = table[i].level
    <3>1. ASSUME NEW i \in 1..Len(table)
          PROVE  /\ table'[i] \in Log!LoggedRows
                 /\ table'[i].record = table[i].record /\ table'[i].level = table[i].level
      <4>1. (table[i].there /\ table[i].at >= day - Retention) \in BOOLEAN
        OBVIOUS
      <4>2. PICK there \in BOOLEAN : there = (table[i].there /\ table[i].at >= day - Retention)
        BY <4>1
      <4>3. table'[i] = [table[i] EXCEPT !.there = table[i].there /\ table[i].at >= day - Retention]
        BY <1>5, <2>1, Zenon
      <4>4. table'[i] = [table[i] EXCEPT !.there = there]
        BY <4>2, <4>3, Zenon
      <4>5. table[i] \in Log!LoggedRows
        BY <2>1
      <4> QED BY <4>2, <4>4, <4>5 DEF Log!LoggedRows
    <3> QED BY <3>1
  <2>3. DOMAIN table' = 1..Len(table) /\ table' = [i \in 1..Len(table) |-> table'[i]]
    BY <1>5, <2>1, Zenon
  <2>4. table' \in [1..Len(table) -> Log!LoggedRows]
    BY <2>2, <2>3, Zenon
  <2>5. table' \in Seq(Log!LoggedRows)
    BY <2>1, <2>4, SeqDef
  <2>6. ASSUME NEW i \in 1..Len(table) PROVE Log!RowOK(table[i])'
    <3>1. Log!RowOK(table[i]) /\ table'[i].record = table[i].record /\ table'[i].level = table[i].level
      BY <1>2, <2>1, <2>2 DEF LogRows
    <3> QED BY <1>1, <3>1 DEF Log!RowOK, Log!At
  <2>7. LogRows'
    <3>1. ASSUME NEW w \in Writers, NEW i \in 1..Len(table), writer'[w].at # "none"
          PROVE  table'[i].record <= written' + Len(writer'[w].batch)
      BY <1>1, <1>2, <2>1, <2>2, <3>1 DEF LogRows
    <3>2. ASSUME NEW i \in 1..Len(table), NEW j \in 1..Len(table), i < j
          PROVE  table'[i].record < table'[j].record
      BY <1>2, <2>1, <2>2, <3>2 DEF LogRows
    <3> QED BY <2>3, <2>5, <2>6, <3>1, <3>2 DEF LogRows
  <2>8. LogTypes' /\ LogQueue'
    BY <1>1, <1>2 DEF LogTypes, LogQueue, Log!BatchOK, Log!At
  <2> QED BY <1>3, <2>7, <2>8 DEF LogState
<1> QED BY <1>4, <1>5 DEF Log!DeleteExpired

\* A day goes by.
LEMMA LogTicks ==
  ASSUME LogState, Log!Tick
  PROVE  LogState'
<1> USE LogAssumption
<1>1. /\ day < LogClock /\ day' = day + 1
      /\ UNCHANGED << waiting, unwritten, queued, written, since, writer, table, levels >>
      /\ flush' = flush /\ last_pruned_at' = last_pruned_at /\ pruners' = pruners
  BY DEF Log!Tick, Log!queueVars
<1>2. LogOthers /\ day' \in 0..LogClock
  BY <1>1 DEF LogState, LogOthers
<1>3. last_pruned_at # None => last_pruned_at <= day'
  <2>1. ASSUME last_pruned_at # None PROVE last_pruned_at <= day'
    <3>1. last_pruned_at \in 0..LogClock /\ last_pruned_at <= day /\ day \in Nat
      BY <1>2, <2>1 DEF LogOthers
    <3> QED BY <1>1, <3>1
  <2> QED BY <2>1
<1>4. LogOthers'
  BY <1>1, <1>2, <1>3 DEF LogOthers
<1> QED BY <1>1, <1>4, LogStays

\* The smaller of the size of a batch and the length of the queue.
LEMMA LogMin ==
  ASSUME NEW a \in Nat, NEW b \in Nat
  PROVE  Log!Min({a, b}) = IF a <= b THEN a ELSE b
<1> DEFINE least == IF a <= b THEN a ELSE b
<1>1. least \in {a, b} /\ \A y \in {a, b} : least <= y
  OBVIOUS
<1>2. \A x \in {a, b} : (\A y \in {a, b} : x <= y) => x = least
  OBVIOUS
<1> QED BY <1>1, <1>2 DEF Log!Min

\* `write_queue` takes a batch, or ends when it sees the queue empty.
LEMMA LogTakesAny ==
  ASSUME LogState, writing <=> \E w \in Writers : writer[w].at # "none",
         NEW w \in Writers, Log!TakeBatch(w)
  PROVE  LogFull'
<1> USE LogAssumption
<1>1. LogTypes /\ Len(waiting) \in Nat /\ WRITE_BATCH \in Nat \ {0}
  BY DEF LogState, LogTypes
<1>2. PICK count : count = Log!Min({Len(waiting), WRITE_BATCH})
  OBVIOUS
<1>3. count = IF Len(waiting) <= WRITE_BATCH THEN Len(waiting) ELSE WRITE_BATCH
  BY <1>1, <1>2, LogMin
<1>4. writer[w].at = "loop" /\ UNCHANGED << unwritten, queued, written, since, table, levels, flush, day, last_pruned_at, pruners >>
  BY DEF Log!TakeBatch, Log!At, Log!pruneVars
<1>5. CASE count = 0
  <2>1. writer' = [writer EXCEPT ![w] = Log!NoTask] /\ waiting' = waiting
    BY <1>2, <1>5 DEF Log!TakeBatch
  <2>2. writing' = FALSE
    BY <1>2, <1>5, Zenon DEF Log!TakeBatch
  <2>3. Len(waiting) = 0
    BY <1>1, <1>3, <1>5
  <2>4. LogState' /\ \A v \in Writers : writer'[v].at = "none"
    BY <1>4, <2>1, <2>3, LogTakesNothing
  <2>5. writing' \in BOOLEAN /\ ~ writing'
    BY <2>2, Zenon
  <2> QED BY <2>4, <2>5, Zenon DEF LogFull
<1>6. CASE count # 0
  <2>1. /\ writer' = [writer EXCEPT ![w] = [at |-> "took", batch |-> SubSeq(waiting, 1, count), level |-> 0]]
        /\ waiting' = SubSeq(waiting, count + 1, Len(waiting))
    BY <1>2, <1>6, Zenon DEF Log!TakeBatch
  <2>2. writing' = writing
    BY <1>2, <1>6, Zenon DEF Log!TakeBatch
  <2>3. count \in 1..Len(waiting)
    BY <1>1, <1>3, <1>6
  <2>4. LogState'
    <3>1. LogTakes(w, count)
      BY <1>4, <2>1 DEF LogTakes
    <3> QED BY <1>4, <2>3, <3>1, LogTakesBatch
  <2>5. writer'[w].at = "took"
    BY <1>1, <2>1 DEF LogTypes
  <2>7. "took" # "none" /\ "loop" # "none"
    OBVIOUS
  <2>8. writing
    BY <1>4, <2>7, Zenon
  <2>9. \E v \in Writers : writer'[v].at # "none"
    BY <2>5, <2>7, Zenon
  <2> QED BY <2>2, <2>4, <2>8, <2>9, Zenon DEF LogFull
<1> QED BY <1>5, <1>6

\* No step writes a row that does not follow, or under a level that is over.
LEMMA LogNext == LogFull /\ [Log!Next]_logVars => LogFull'
<1> SUFFICES ASSUME LogFull, [Log!Next]_logVars PROVE LogFull'
  OBVIOUS
<1>0. /\ LogState
      /\ writing \in BOOLEAN /\ (writing <=> \E w \in Writers : writer[w].at # "none")
  BY Zenon DEF LogFull
<1>1. CASE UNCHANGED logVars
  BY <1>1 DEF logVars, LogFull, LogState, LogTypes, LogOthers, LogQueue, LogRows, Log!BatchOK,
              Log!RowOK, Log!At
<1>2. ASSUME Log!record PROVE LogFull'
  <2>1. LogState' /\ \E w \in Writers : writer'[w].at # "none"
    BY <1>2, LogRecord
  <2>2. writing' = TRUE
    BY <1>2, Zenon DEF Log!record
  <2> QED BY <2>1, <2>2, Zenon DEF LogFull
<1>3. ASSUME NEW w \in Writers, Log!Write(w) PROVE LogFull'
  <2>1. CASE Log!TakeBatch(w)
    BY <1>0, <2>1, LogTakesAny
  <2>2. CASE Log!ReadLevel(w) \/ Log!Commit(w) \/ Log!Discount(w) \/ Log!Publish(w)
    <3>1. LogState'
      BY <1>0, <2>2, LogReads, LogCommits, LogDiscounts, LogPublishes
    <3>2. writing' = writing
      BY <2>2, Zenon DEF Log!ReadLevel, Log!Commit, Log!Discount, Log!Publish, Log!queueVars
    <3>3. writer[w].at # "none"
      BY <2>2 DEF Log!ReadLevel, Log!Commit, Log!Discount, Log!Publish, Log!At
    <3>4. writer'[w].at # "none"
      <4>1. writer[w] \in Log!Works /\ w \in DOMAIN writer
        BY <1>0 DEF LogState, LogTypes
      <4>2. CASE Log!ReadLevel(w)
        BY <4>1, <4>2 DEF Log!ReadLevel, Log!Works
      <4>3. CASE Log!Commit(w)
        BY <4>1, <4>3 DEF Log!Commit, Log!Works
      <4>4. CASE Log!Discount(w)
        BY <4>1, <4>4 DEF Log!Discount, Log!Works
      <4>5. CASE Log!Publish(w)
        BY <4>1, <4>5 DEF Log!Publish, Log!NoTask
      <4> QED BY <2>2, <4>2, <4>3, <4>4, <4>5
    <3> QED BY <1>0, <3>1, <3>2, <3>3, <3>4, Zenon DEF LogFull
  <2> QED BY <1>3, <2>1, <2>2 DEF Log!Write
<1>4. ASSUME \/ \E f \in Flushers : Log!Flush(f) \/ Log!Flushed(f)
             \/ \E level \in Log!Levels : Log!SaveLevel(level)
             \/ Log!prune_expired \/ Log!DeleteExpired \/ Log!Tick
      PROVE  LogFull'
  <2>1. LogState'
    BY <1>0, <1>4, LogFlushes, LogSavesLevel, LogPrunes, LogDeletes, LogTicks
  <2>2. writer' = writer
    BY <1>4 DEF Log!Flush, Log!Flushed, Log!SaveLevel, Log!prune_expired, Log!DeleteExpired,
                Log!Tick, Log!queueVars
  <2>3. writing' = writing
    BY <1>4, Zenon DEF Log!Flush, Log!Flushed, Log!SaveLevel, Log!prune_expired, Log!DeleteExpired,
                Log!Tick, Log!queueVars
  <2> QED BY <1>0, <2>1, <2>2, <2>3, Zenon DEF LogFull
<1> QED BY <1>1, <1>2, <1>3, <1>4, Zenon DEF Log!Next

\* The invariant says that the log can be relied on.
LEMMA LogTrue == Log!Inv => LogIsTrue
<1> SUFFICES ASSUME Log!Inv PROVE LogIsTrue
  OBVIOUS
<1> USE LogAssumption
<1>1. LogState
  BY LogInv, Zenon DEF LogFull
<1>2. LogTypes /\ LogQueue /\ LogRows
  BY <1>1 DEF LogState
<1>3. /\ waiting \in Seq(1..MaxRecords) /\ Len(waiting) \in Nat /\ DOMAIN waiting = 1..Len(waiting)
      /\ written \in Nat /\ queued \in Nat /\ unwritten \in Nat /\ written <= queued
  BY <1>2 DEF LogTypes
<1>4. /\ \A i, j \in DOMAIN table : i < j => table[i].record < table[j].record
      /\ \A i \in DOMAIN table :
           table[i].level >= since[table[i].record] /\ levels[table[i].level] # "off"
  <2>1. ASSUME NEW i \in DOMAIN table
        PROVE  table[i].level >= since[table[i].record] /\ levels[table[i].level] # "off"
    BY <1>1, LogRow
  <2> QED BY <1>2, <2>1 DEF LogRows
<1>5. ASSUME NEW i \in 1..Len(waiting)
      PROVE  waiting[i] > written /\ waiting[i] > queued - MAX_PENDING_WRITES
  <2>1. waiting[i] = queued - Len(waiting) + i
    BY <1>2, <1>3 DEF LogQueue
  <2>2. ~ \A w \in Writers : writer[w].at = "none"
    <3>1. CASE \A w \in Writers : writer[w].at = "none"
      <4>1. waiting = << >>
        BY <1>2, <3>1 DEF LogQueue
      <4> QED BY <4>1
    <3> QED BY <3>1
  <2>3. PICK w \in Writers : writer[w].at # "none"
    BY <2>2
  <2>4. /\ written + Len(writer[w].batch) + Len(waiting) = queued /\ Len(writer[w].batch) \in Nat
        /\ unwritten >= Len(waiting)
    <3>1. /\ written + Len(writer[w].batch) + Len(waiting) = queued /\ Len(writer[w].batch) \in Nat
          /\ unwritten = Len(waiting) \/ unwritten = Len(waiting) + Len(writer[w].batch)
      BY <1>1, <2>3, LogBatch
    <3>2. Len(waiting) \in Nat /\ unwritten \in Nat
      BY <1>3
    <3> QED BY <3>1, <3>2
  <2>5. unwritten <= MAX_PENDING_WRITES
    BY <1>2 DEF LogQueue
  <2>6. Len(waiting) \in Nat /\ written \in Nat /\ queued \in Nat /\ unwritten \in Nat
    BY <1>3
  <2>7. waiting[i] > written
    BY <2>1, <2>4, <2>6
  <2>8. waiting[i] > queued - MAX_PENDING_WRITES
    <3>1. MAX_PENDING_WRITES \in Nat
      OBVIOUS
    <3> QED BY <2>1, <2>4, <2>5, <2>6, <3>1
  <2> QED BY <2>7, <2>8
<1>6. ASSUME NEW w \in Writers, Log!InHand(w), NEW i \in 1..Len(writer[w].batch)
      PROVE  writer[w].batch[i] > written /\ writer[w].batch[i] > queued - MAX_PENDING_WRITES
  <2>1. writer[w].at \in {"took", "read"}
    BY <1>6 DEF Log!InHand, Log!At
  <2>2. /\ writer[w].batch[i] = written + i /\ Len(writer[w].batch) \in Nat
        /\ written + Len(writer[w].batch) + Len(waiting) = queued
        /\ unwritten = Len(waiting) + Len(writer[w].batch)
    BY <1>1, <2>1, LogBatch
  <2>3. unwritten <= MAX_PENDING_WRITES
    BY <1>2 DEF LogQueue
  <2>4. Len(waiting) \in Nat /\ written \in Nat /\ queued \in Nat /\ unwritten \in Nat
    BY <1>3
  <2>5. MAX_PENDING_WRITES \in Nat
    OBVIOUS
  <2> QED BY <2>2, <2>3, <2>4, <2>5
<1>7. ASSUME NEW n, Log!Outstanding(n) PROVE n > written /\ n > queued - MAX_PENDING_WRITES
  <2>1. CASE n \in Log!Range(waiting)
    BY <1>3, <1>5, <2>1 DEF Log!Range
  <2>2. ASSUME NEW w \in Writers, Log!InHand(w), n \in Log!Range(writer[w].batch)
        PROVE  n > written /\ n > queued - MAX_PENDING_WRITES
    <3>1. DOMAIN writer[w].batch = 1..Len(writer[w].batch)
      BY <1>1, LogBatch
    <3> QED BY <1>6, <2>2, <3>1 DEF Log!Range
  <2> QED BY <1>7, <2>1, <2>2 DEF Log!Outstanding
<1>8. \A n \in 1..written : ~ Log!Outstanding(n)
  BY <1>3, <1>7
<1>9. \A n \in 1..queued : Log!Outstanding(n) => n > queued - MAX_PENDING_WRITES
  BY <1>7
<1> QED BY <1>4, <1>8, <1>9 DEF LogIsTrue, Log!LogIsTrue

\* The queue, its task, the rows and the levels agree.
LEMMA LogInvariant == Spec => []Log!Inv
<1>1. Init => Log!Inv
  BY LogInit DEF Init
<1>2. LogFull /\ [Next]_allVars => LogFull'
  <2>1. [Next]_allVars => [Log!Next]_logVars
    BY DEF Next, Moves, allVars, logVars
  <2> QED BY <2>1, LogNext
<1> QED BY <1>1, <1>2, LogInv, PTL DEF Spec

\* The rows are in the order of the calls, each once, none under a level that
\* was over or off; what is counted as written is settled, and no more waits
\* than the limit allows, for any number of tasks, records and levels (`record`,
\* `write_queue`, `persist_batch`, `flush`).
THEOREM TheLogIsTrue == Spec => []LogIsTrue
BY LogInvariant, LogTrue, PTL
=============================================================================
