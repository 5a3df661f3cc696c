--------------------------- MODULE DaemonsProofs ---------------------------
(***************************************************************************)
(* Proofs about the tasks and processes the server starts: the timer of    *)
(* updates, the process of an npm MCP, its package, and the daemons of the *)
(* tailnets; and about what it sends to others: mails over SMTP, and the   *)
(* secrets of MCPs through a tailnet; for any number of requests, timers,  *)
(* supervisors, mails and secrets.                                         *)
(***************************************************************************)
EXTENDS Parts, FiniteSetTheorems, TLAPS

-----------------------------------------------------------------------------
(* AutoUpdate.                                                             *)

\* The server starts without a timer.
LEMMA UpdatesInit == Timer!Init => Timer!Inv
<1> SUFFICES ASSUME Timer!Init PROVE Timer!Inv
  OBVIOUS
<1>1. run \in BOOLEAN
  BY Zenon DEF Timer!Init
<1>2. \A j \in Jobs : timer[j] = None
  BY DEF Timer!Init
<1>3. /\ save \in [Saves -> [at : {"idle", "saved", "stopped", "read"}, read : Crons \cup {None}]]
      /\ timer \in [Jobs -> Crons \cup {None}] /\ tick \in [Jobs -> {"none", "waiting", "told"}]
  BY DEF Timer!Init
<1> QED BY <1>1, <1>2, <1>3 DEF Timer!Init, Timer!Inv, Timer!TypeOK, Timer!NoStrayTimer

\* `resync` stops the timer its handle names, and puts no other over it.
LEMMA UpdatesNext == Timer!Inv /\ [Timer!Next]_autoVars => Timer!Inv'
<1> SUFFICES ASSUME Timer!Inv, [Timer!Next]_autoVars PROVE Timer!Inv'
  OBVIOUS
<1> USE NoneAssumption DEF Timer!Inv, Timer!TypeOK, Timer!NoStrayTimer, Timer!At
<1>1. CASE UNCHANGED autoVars
  BY <1>1 DEF autoVars
<1>2. ASSUME NEW s \in Saves, NEW cron \in Crons \cup {None}, Timer!Save(s, cron) PROVE Timer!Inv'
  BY <1>2 DEF Timer!Save
<1>3. ASSUME NEW s \in Saves, Timer!Stop(s) PROVE Timer!Inv'
  BY <1>3 DEF Timer!Stop, Timer!replaced
<1>4. ASSUME NEW s \in Saves, Timer!ReadSettings(s) PROVE Timer!Inv'
  BY <1>4 DEF Timer!ReadSettings
<1>5. ASSUME NEW s \in Saves, Timer!Schedule(s) PROVE Timer!Inv'
  BY <1>5 DEF Timer!Schedule, Timer!replaced
<1>6. ASSUME NEW s \in Saves, Timer!GoAway(s) PROVE Timer!Inv'
  BY <1>6 DEF Timer!GoAway
<1>7. ASSUME NEW j \in Jobs, Timer!Tick(j) \/ Timer!Told(j) PROVE Timer!Inv'
  BY <1>7 DEF Timer!Tick, Timer!Told
<1>8. ASSUME NEW j \in Jobs, Timer!NeverAgain(j) PROVE Timer!Inv'
  BY <1>8 DEF Timer!NeverAgain
<1>9. CASE Timer!RunEnds
  BY <1>9 DEF Timer!RunEnds
<1> QED BY <1>1, <1>2, <1>3, <1>4, <1>5, <1>6, <1>7, <1>8, <1>9 DEF Timer!Next, Timer!SaveStep

\* The timer that runs is the one the scheduler holds.
LEMMA UpdatesInvariant == Spec => []Timer!Inv
<1>1. Init => Timer!Inv
  BY UpdatesInit DEF Init
<1>2. Timer!Inv /\ [Next]_allVars => Timer!Inv'
  <2>1. [Next]_allVars => [Timer!Next]_autoVars
    BY DEF Next, Moves, allVars, autoVars
  <2> QED BY <2>1, UpdatesNext
<1> QED BY <1>1, <1>2, PTL DEF Spec

\* However saves of the settings overlap, the scheduler has the handle of every
\* timer that runs (`replace_job`), for any number of them.
THEOREM EveryTimerIsHeld == Spec => []NoStrayTimer
<1>1. Timer!Inv => NoStrayTimer
  BY DEF Timer!Inv, NoStrayTimer
<1> QED BY <1>1, UpdatesInvariant, PTL

-----------------------------------------------------------------------------
(* StdioClient.                                                            *)

\* Nothing runs before `connect`.
LEMMA ChildInit == Child!Init => Child!Inv
  BY DEF Child!Init, Child!Inv, Child!TypeOK, Child!ChildEnded, Child!SupervisorKnows,
     Child!WatchedWhile, Child!Dead, Child!Active, Child!Asking, Child!Closers

\* `call_tool` and `list_tools`: a close that is not asked for is one nobody is
\* there to answer, and the child is gone by then.
LEMMA ChildCaller ==
  ASSUME Child!Inv, Child!Connect \/ Child!CallerStep \/ Child!GoAway
  PROVE  Child!Inv'
<1> USE DEF Child!Inv, Child!TypeOK, Child!ChildEnded, Child!SupervisorKnows, Child!WatchedWhile,
            Child!Dead, Child!Active, Child!Asking, Child!Closers, Child!childVars, Child!supVars,
            Child!clientVars, Child!Methods
<1>1. CASE Child!Connect
  <2>1. CASE use' = "initialize"
    BY <1>1, <2>1 DEF Child!Connect
  <2>2. CASE use' = "over"
    <3>1. /\ UNCHANGED << connected, requests, reply, alive, killed, heir, eof, lines, watch, exited,
                         output_read, closing, closer, kept >>
          /\ use = "idle"
      BY <1>1, <2>2 DEF Child!Connect
    <3> QED BY <2>2, <3>1
  <2> QED BY <1>1, <2>1, <2>2 DEF Child!Connect
<1>2. CASE Child!Greeted
  BY <1>2 DEF Child!Greeted, Child!Failed, Child!EndCall, Child!Ask
<1>3. CASE Child!RequestFails
  BY <1>3 DEF Child!RequestFails, Child!Failed, Child!EndCall, Child!Ask
<1>4. CASE Child!Answered
  BY <1>4 DEF Child!Answered, Child!EndCall, Child!Ask
<1>5. CASE Child!ReadStderr
  BY <1>5 DEF Child!ReadStderr, Child!Ask
<1>6. CASE Child!NextClose
  BY <1>6 DEF Child!NextClose, Child!Ask
<1>7. CASE Child!LetGo
  BY <1>7 DEF Child!LetGo
<1>8. CASE Child!GoAway
  BY <1>8 DEF Child!GoAway
<1> QED BY <1>1, <1>2, <1>3, <1>4, <1>5, <1>6, <1>7, <1>8 DEF Child!CallerStep

\* The child answers, exits, or lets go of its pipes: it does not come back.
LEMMA ChildItself ==
  ASSUME Child!Inv,
         (\E id \in Child!Methods : Child!Reply(id)) \/ Child!Exits \/ Child!OutputEnds
           \/ Child!HolderEnds
  PROVE  Child!Inv'
<1> USE DEF Child!Inv, Child!TypeOK, Child!ChildEnded, Child!SupervisorKnows, Child!WatchedWhile,
            Child!Dead, Child!Active, Child!Asking, Child!Closers, Child!childVars, Child!supVars,
            Child!clientVars, Child!Methods
<1>1. ASSUME NEW id \in Child!Methods, Child!Reply(id) PROVE Child!Inv'
  BY <1>1 DEF Child!Reply
<1>2. CASE Child!Exits
  BY <1>2 DEF Child!Exits
<1>3. CASE Child!OutputEnds
  BY <1>3 DEF Child!OutputEnds
<1>4. CASE Child!HolderEnds
  BY <1>4 DEF Child!HolderEnds
<1> QED BY <1>1, <1>2, <1>3, <1>4

\* `supervise` answers a close, and ends, once the child exited or was killed.
LEMMA ChildSupervised ==
  ASSUME Child!Inv, Child!Supervise \/ Child!Overflow
  PROVE  Child!Inv'
<1> USE DEF Child!Inv, Child!TypeOK, Child!ChildEnded, Child!SupervisorKnows, Child!WatchedWhile,
            Child!Dead, Child!Active, Child!Asking, Child!Closers, Child!childVars, Child!supVars,
            Child!clientVars, Child!Methods, Child!Supervising
<1>1. CASE Child!SeesExit
  BY <1>1 DEF Child!SeesExit
<1>2. CASE Child!SeesOutput
  BY <1>2 DEF Child!SeesOutput
<1>3. CASE Child!Abandoned
  BY <1>3 DEF Child!Abandoned, Child!Settled
<1>4. CASE Child!Deadline
  BY <1>4 DEF Child!Deadline, Child!Settled
<1>5. CASE Child!Ends
  BY <1>5 DEF Child!Ends
<1>6. ASSUME NEW c \in Child!Closers, Child!TakesClose(c) PROVE Child!Inv'
  BY <1>6 DEF Child!TakesClose, Child!BeginClosing, Child!Queued
<1>7. CASE Child!Overflow
  BY <1>7 DEF Child!Overflow, Child!BeginClosing
<1> QED BY <1>1, <1>2, <1>3, <1>4, <1>5, <1>6, <1>7 DEF Child!Supervise

\* A process lives only while somebody uses it or its supervisor watches it.
LEMMA ChildInvariant == Spec => []Child!Inv
<1>1. Init => Child!Inv
  BY ChildInit DEF Init
<1>2. Child!Inv /\ [Next]_allVars => Child!Inv'
  <2> SUFFICES ASSUME Child!Inv, [Next]_allVars PROVE Child!Inv'
    OBVIOUS
  <2>1. Child!Next \/ UNCHANGED childVars
    BY DEF Next, Moves, allVars, childVars
  <2>2. CASE UNCHANGED childVars
    BY <2>2 DEF childVars, Child!Inv, Child!TypeOK, Child!ChildEnded, Child!SupervisorKnows,
       Child!WatchedWhile, Child!Dead, Child!Active, Child!Asking
  <2>3. CASE Child!Next
    BY <2>3, ChildCaller, ChildItself, ChildSupervised DEF Child!Next
  <2> QED BY <2>1, <2>2, <2>3
<1> QED BY <1>1, <1>2, PTL DEF Spec

\* When a `close` has returned, or nobody watches the child any more, the child
\* has exited or was killed (`supervise`), whatever it does.
THEOREM ChildrenAreEnded == Spec => []ChildEnded
<1>1. Child!Inv => ChildEnded
  BY DEF Child!Inv, ChildEnded
<1> QED BY <1>1, ChildInvariant, PTL

-----------------------------------------------------------------------------
(* NpmPackages.                                                            *)

\* Nothing is installed at first.
LEMMA PackagesInit == Npm!Init => Npm!Inv
<1> SUFFICES ASSUME Npm!Init PROVE Npm!Inv
  OBVIOUS
<1> USE NoneAssumption, NpmAssumption
        DEF Npm!Init, Npm!NoCall, Npm!At
<1>1. \A c \in Requests : start[c] = Npm!NoCall
  OBVIOUS
<1>2. wiping \in BOOLEAN
  BY Zenon
<1>3. Npm!TypeOK
  BY <1>2 DEF Npm!TypeOK, Npm!CallStates, Npm!Steps
<1> QED BY <1>1, <1>3 DEF Npm!Inv, Npm!HoldsLock, Npm!HasInstall, Npm!Apart, Npm!Owns, Npm!MadeOK,
           Npm!CurrentOK, Npm!PreviousOK

\* What a step of one caller has to show, when the files are left alone.
LEMMA PackagesCaller ==
  ASSUME Npm!Inv, NEW c \in Requests,
         UNCHANGED << row, current, disk, wiping >>,
         start' \in [Requests -> Npm!CallStates],
         \A x \in Requests \ {c} : start'[x] = start[x],
         holder' \in {None, holder}, holder = c \/ holder' = holder,
         (start'[c].at \in {"installing", "made", "placed"}) <=> holder' = c,
         Npm!HasInstall(c)', Npm!Apart(c)', Npm!MadeOK(c)', Npm!CurrentOK(c)', Npm!PreviousOK(c)',
         start'[c].install \notin {start[x].install : x \in {y \in Requests : Npm!Owns(y)}},
         start'[c].at = "using" /\ start'[c].since = 1 => holder' = None
  PROVE  Npm!Inv'
<1> USE NoneAssumption, NpmAssumption DEF Npm!Inv, Npm!At
<1>1. Npm!TypeOK'
  BY DEF Npm!TypeOK
<1>2. \A x \in Requests : Npm!HoldsLock(x)'
  BY DEF Npm!HoldsLock, Npm!TypeOK
<1>3. \A x \in Requests : Npm!HasInstall(x)'
  BY DEF Npm!HasInstall
<1>4. \A x \in Requests : Npm!Apart(x)'
  BY DEF Npm!Apart, Npm!Owns
<1>5. \A x \in Requests : Npm!MadeOK(x)'
  BY DEF Npm!MadeOK
<1>6. \A x \in Requests : Npm!CurrentOK(x)'
  BY DEF Npm!CurrentOK
<1>7. \A x \in Requests : Npm!PreviousOK(x)'
  BY <1>2 DEF Npm!PreviousOK, Npm!HoldsLock
<1> QED BY <1>1, <1>2, <1>3, <1>4, <1>5, <1>6, <1>7

\* A caller that is answered has nothing.
LEMMA PackagesEnds ==
  ASSUME Npm!Inv, NEW c \in Requests, Npm!Answered(c)
  PROVE  /\ start' \in [Requests -> Npm!CallStates]
         /\ start'[c] = Npm!NoCall /\ \A x \in Requests \ {c} : start'[x] = start[x]
         /\ holder' \in {None, holder} /\ holder' # c /\ (holder = c \/ holder' = holder)
<1>1. Npm!NoCall \in Npm!CallStates
  BY DEF Npm!NoCall, Npm!CallStates, Npm!Steps
<1> QED BY <1>1, NoneAssumption DEF Npm!Inv, Npm!TypeOK, Npm!Answered, Npm!Released

\* A caller is asked, finds its package, or is answered and goes away.
LEMMA PackagesAsk ==
  ASSUME Npm!Inv, NEW c \in Requests,
         \/ \E op \in {"call", "update"} : Npm!Ask(c, op)
         \/ Npm!Read(c) \/ Npm!NoRoom(c) \/ Npm!Finish(c) \/ Npm!GoAway(c)
  PROVE  Npm!Inv'
<1> USE NoneAssumption, NpmAssumption DEF Npm!At
<1>1. \A x \in Requests : Npm!Owns(x) => start[x].install \in Installs
  BY DEF Npm!Inv, Npm!HasInstall, Npm!Owns
<1>2. CASE Npm!NoRoom(c) \/ Npm!Finish(c) \/ Npm!GoAway(c)
  <2>1. UNCHANGED << row, current, disk, wiping >> /\ Npm!Answered(c)
    BY <1>2 DEF Npm!NoRoom, Npm!Finish, Npm!GoAway
  <2>2. /\ start'[c].at = "idle" /\ start'[c].install = None /\ start'[c].since = 0
    BY <2>1, PackagesEnds DEF Npm!NoCall
  <2>3. /\ Npm!HasInstall(c)' /\ Npm!Apart(c)' /\ Npm!MadeOK(c)' /\ Npm!CurrentOK(c)'
        /\ Npm!PreviousOK(c)'
    BY <2>2 DEF Npm!HasInstall, Npm!Apart, Npm!Owns, Npm!MadeOK, Npm!CurrentOK, Npm!PreviousOK
  <2> QED BY <1>1, <2>1, <2>2, <2>3, PackagesEnds, PackagesCaller
<1>3. ASSUME NEW op \in {"call", "update"}, Npm!Ask(c, op) PROVE Npm!Inv'
  <2>1. Rows[row] \in Npm!Specs
    BY DEF Npm!Inv, Npm!TypeOK, Npm!Specs
  <2>2. /\ start' = [start EXCEPT ![c] = Npm!Asked(op, Rows[row])]
        /\ start[c].at = "idle" /\ UNCHANGED << row, current, disk, holder, wiping >>
    BY <1>3 DEF Npm!Ask
  <2>3. /\ start' \in [Requests -> Npm!CallStates] /\ \A x \in Requests \ {c} : start'[x] = start[x]
        /\ start'[c].at = "asked" /\ start'[c].install = None /\ start'[c].since = 0
        /\ start'[c].spec \in Npm!Specs
    BY <2>1, <2>2 DEF Npm!Inv, Npm!TypeOK, Npm!CallStates, Npm!Steps, Npm!Asked
  <2>4. /\ Npm!HasInstall(c)' /\ Npm!Apart(c)' /\ Npm!MadeOK(c)' /\ Npm!CurrentOK(c)'
        /\ Npm!PreviousOK(c)'
    BY <2>3 DEF Npm!HasInstall, Npm!Apart, Npm!Owns, Npm!MadeOK, Npm!CurrentOK, Npm!PreviousOK
  <2>5. holder # c
    BY <2>2 DEF Npm!Inv, Npm!HoldsLock
  <2> QED BY <1>1, <2>2, <2>3, <2>4, <2>5, PackagesCaller
<1>4. CASE Npm!Read(c)
  <2>1. /\ start' = [start EXCEPT ![c].at = "using", ![c].install = current.install]
        /\ start[c].at = "asked" /\ UNCHANGED << row, current, disk, holder, wiping >>
        /\ holder = None /\ current # None /\ current.spec = start[c].spec
        /\ disk[current.install] # None
    BY <1>4 DEF Npm!Read, Npm!InUse
  <2>2. current.install \in Installs /\ start[c] \in Npm!CallStates /\ start[c].spec \in Npm!Specs
        /\ start[c].since = 0
    BY <2>1 DEF Npm!Inv, Npm!TypeOK, Npm!HasInstall
  <2>3. /\ start' \in [Requests -> Npm!CallStates] /\ \A x \in Requests \ {c} : start'[x] = start[x]
        /\ start'[c].at = "using" /\ start'[c].install = current.install /\ start'[c].since = 0
        /\ start'[c].spec = start[c].spec
    BY <2>1, <2>2 DEF Npm!Inv, Npm!TypeOK, Npm!CallStates, Npm!Steps
  <2>4. /\ Npm!HasInstall(c)' /\ Npm!Apart(c)' /\ Npm!MadeOK(c)' /\ Npm!CurrentOK(c)'
        /\ Npm!PreviousOK(c)'
    BY <2>1, <2>2, <2>3 DEF Npm!Inv, Npm!HasInstall, Npm!Apart, Npm!Owns, Npm!MadeOK,
       Npm!CurrentOK, Npm!PreviousOK, Npm!Whole
  <2>5. \A x \in Requests : Npm!Owns(x) => start[x].install # current.install
    BY <2>1 DEF Npm!Inv, Npm!Apart
  <2> QED BY <2>1, <2>3, <2>4, <2>5, PackagesCaller
<1> QED BY <1>2, <1>3, <1>4

\* The lock is taken, a directory made for the install.
LEMMA PackagesBegin ==
  ASSUME Npm!Inv, NEW c \in Requests, Npm!BeginInstall(c)
  PROVE  Npm!Inv'
<1> USE NoneAssumption, NpmAssumption DEF Npm!At
<1>1. PICK i \in Installs :
        /\ Npm!Fresh(i)
        /\ disk' = [disk EXCEPT ![i] = [spec |-> start[c].spec, whole |-> FALSE]]
        /\ start' = [start EXCEPT ![c].at = "installing", ![c].install = i]
  BY DEF Npm!BeginInstall
<1>2. /\ start[c].at = "asked" /\ holder = None /\ holder' = c
      /\ UNCHANGED << row, current, wiping >>
  BY DEF Npm!BeginInstall
<1>3. start[c] \in Npm!CallStates /\ start[c].spec \in Npm!Specs /\ start[c].since = 0
  BY <1>2 DEF Npm!Inv, Npm!TypeOK, Npm!HasInstall
<1>4. /\ start' \in [Requests -> Npm!CallStates] /\ \A x \in Requests \ {c} : start'[x] = start[x]
      /\ start'[c].at = "installing" /\ start'[c].install = i /\ start'[c].since = 0
      /\ start'[c].spec = start[c].spec
  BY <1>1, <1>3 DEF Npm!Inv, Npm!TypeOK, Npm!CallStates, Npm!Steps
<1>5. /\ disk[i] = None /\ (current # None => current.install # i)
      /\ \A x \in Requests : start[x].install # i
  BY <1>1 DEF Npm!Fresh
<1>6. /\ \A j \in Installs \ {i} : disk'[j] = disk[j]
      /\ disk'[i] = [spec |-> start[c].spec, whole |-> FALSE]
  BY <1>1 DEF Npm!Inv, Npm!TypeOK
<1>7. disk' \in [Installs -> [spec : Npm!Specs, whole : BOOLEAN] \cup {None}]
  BY <1>1, <1>3 DEF Npm!Inv, Npm!TypeOK
<1>8. Npm!TypeOK'
  BY <1>2, <1>4, <1>7 DEF Npm!Inv, Npm!TypeOK
<1>9. \A x \in Requests : start[x].at \notin {"installing", "made", "placed"}
  BY <1>2 DEF Npm!Inv, Npm!HoldsLock
<1>10. \A x \in Requests : Npm!HoldsLock(x)' /\ Npm!HasInstall(x)' /\ Npm!Apart(x)'
  BY <1>2, <1>3, <1>4, <1>5, <1>9 DEF Npm!Inv, Npm!HoldsLock, Npm!HasInstall, Npm!Apart, Npm!Owns
<1>11. ASSUME NEW x \in Requests
       PROVE  Npm!MadeOK(x)' /\ Npm!CurrentOK(x)' /\ Npm!PreviousOK(x)'
  <2>1. CASE x = c
    BY <1>4, <1>6, <2>1 DEF Npm!MadeOK, Npm!CurrentOK, Npm!PreviousOK
  <2>2. CASE x # c
    <3>1. start'[x] = start[x] /\ start[x].at \in Npm!Steps
      BY <1>4, <2>2 DEF Npm!Inv, Npm!TypeOK, Npm!CallStates
    <3>2. start[x].at = "using" => start[x].install \in Installs \ {i}
      BY <1>5 DEF Npm!Inv, Npm!HasInstall
    <3>3. Npm!MadeOK(x)
      BY DEF Npm!Inv
    <3>4. Npm!MadeOK(x)'
      BY <1>6, <1>9, <3>1, <3>2, <3>3 DEF Npm!MadeOK
    <3> QED BY <1>2, <1>9, <3>1, <3>4 DEF Npm!Inv, Npm!CurrentOK, Npm!PreviousOK
  <2> QED BY <2>1, <2>2
<1>12. (current # None /\ disk[current.install] # None =>
         disk[current.install] = Npm!Whole(current.spec))'
  BY <1>2, <1>5, <1>6 DEF Npm!Inv, Npm!TypeOK
<1> QED BY <1>8, <1>10, <1>11, <1>12 DEF Npm!Inv

\* An install fails, and what it made is deleted: nobody else has it.
LEMMA PackagesFail ==
  ASSUME Npm!Inv, NEW c \in Requests, Npm!InstallFails(c)
  PROVE  Npm!Inv'
<1> USE NoneAssumption, NpmAssumption DEF Npm!At
<1> DEFINE i == start[c].install
<1>1. /\ start[c].at \in {"installing", "made"} /\ Npm!Answered(c)
      /\ UNCHANGED << row, current, wiping >>
      /\ disk' = [j \in Installs |-> IF j = i THEN None ELSE disk[j]]
  BY DEF Npm!InstallFails
<1>2. /\ holder = c /\ holder' = None
  BY <1>1, PackagesEnds DEF Npm!Inv, Npm!HoldsLock
<1>3. /\ i \in Installs /\ (current # None => current.install # i)
      /\ \A x \in Requests \ {c} : start[x].install # i
  BY <1>1 DEF Npm!Inv, Npm!HasInstall, Npm!Apart, Npm!Owns
<1>4. /\ start' \in [Requests -> Npm!CallStates] /\ \A x \in Requests \ {c} : start'[x] = start[x]
      /\ start'[c].at = "idle" /\ start'[c].install = None /\ start'[c].since = 0
  BY <1>1, PackagesEnds DEF Npm!NoCall
<1>5. \A j \in Installs \ {i} : disk'[j] = disk[j]
  BY <1>1
<1>6. Npm!TypeOK'
  BY <1>1, <1>2, <1>4 DEF Npm!Inv, Npm!TypeOK
<1>7. \A x \in Requests : start'[x].at \notin {"installing", "made", "placed"}
  BY <1>2, <1>4 DEF Npm!Inv, Npm!HoldsLock
<1>8. \A x \in Requests : Npm!HoldsLock(x)' /\ Npm!HasInstall(x)' /\ Npm!Apart(x)'
  BY <1>2, <1>4, <1>7 DEF Npm!Inv, Npm!HoldsLock, Npm!HasInstall, Npm!Apart, Npm!Owns
<1>9. \A x \in Requests : Npm!MadeOK(x)' /\ Npm!CurrentOK(x)' /\ Npm!PreviousOK(x)'
  <2>1. \A x \in Requests : Npm!MadeOK(x)'
    <3> SUFFICES ASSUME NEW x \in Requests PROVE Npm!MadeOK(x)'
      OBVIOUS
    <3>1. CASE x = c
      BY <1>4, <3>1 DEF Npm!MadeOK
    <3>2. CASE x # c
      <4>1. /\ start'[x] = start[x] /\ start[x].install # i
            /\ Npm!MadeOK(x) /\ Npm!HasInstall(x)
            /\ start[x].at \notin {"installing", "made", "placed"}
        BY <1>3, <1>4, <1>7, <3>2 DEF Npm!Inv
      <4>2. start[x].at = "using" => disk'[start[x].install] = disk[start[x].install]
        BY <1>5, <4>1 DEF Npm!HasInstall
      <4> QED BY <4>1, <4>2 DEF Npm!MadeOK, Npm!Whole
    <3> QED BY <3>1, <3>2
  <2>2. \A x \in Requests \ {c} : Npm!CurrentOK(x)'
    BY <1>1, <1>3, <1>4, <1>5 DEF Npm!Inv, Npm!CurrentOK, Npm!Whole
  <2>3. Npm!CurrentOK(c)'
    BY <1>4 DEF Npm!CurrentOK
  <2>4. \A x \in Requests : Npm!PreviousOK(x)'
    BY <1>1, <1>3, <1>4, <1>5 DEF Npm!Inv, Npm!PreviousOK, Npm!Whole
  <2> QED BY <2>1, <2>2, <2>3, <2>4
<1>10. (current # None /\ disk[current.install] # None =>
          disk[current.install] = Npm!Whole(current.spec))'
  BY <1>1, <1>3, <1>5 DEF Npm!Inv, Npm!TypeOK
<1> QED BY <1>6, <1>8, <1>9, <1>10 DEF Npm!Inv

\* `npm` is done: the install is whole, and replaces the one in use.
LEMMA PackagesDone ==
  ASSUME Npm!Inv, NEW c \in Requests, Npm!InstallDone(c)
  PROVE  Npm!Inv'
<1> USE NoneAssumption, NpmAssumption DEF Npm!At
<1> DEFINE i == start[c].install
           p == IF current = None THEN None ELSE current.install
<1>1. /\ start[c].at = "installing" /\ disk[i] # None
      /\ UNCHANGED << row, current, holder, wiping >>
      /\ disk' = [disk EXCEPT ![i] = Npm!Whole(start[c].spec)]
      /\ start' = [start EXCEPT ![c].at = "made", ![c].previous = p]
  BY DEF Npm!InstallDone
<1>2. /\ i \in Installs /\ (current # None => current.install # i)
      /\ \A x \in Requests \ {c} : start[x].install # i
      /\ start[c] \in Npm!CallStates /\ p \in Installs \cup {None} /\ start[c].since # 1
      /\ holder = c
  BY <1>1 DEF Npm!Inv, Npm!TypeOK, Npm!HasInstall, Npm!HoldsLock, Npm!Apart, Npm!Owns
<1>3. /\ start' \in [Requests -> Npm!CallStates] /\ \A x \in Requests \ {c} : start'[x] = start[x]
      /\ start'[c].at = "made" /\ start'[c].install = i /\ start'[c].since = start[c].since
      /\ start'[c].spec = start[c].spec /\ start'[c].previous = p
  BY <1>1, <1>2 DEF Npm!Inv, Npm!TypeOK, Npm!CallStates, Npm!Steps
<1>5. /\ \A j \in Installs \ {i} : disk'[j] = disk[j]
      /\ disk'[i] = Npm!Whole(start[c].spec)
  BY <1>1, <1>2 DEF Npm!Inv, Npm!TypeOK
<1> HIDE DEF i, p
<1>6. Npm!TypeOK'
  <2>1. disk' \in [Installs -> [spec : Npm!Specs, whole : BOOLEAN] \cup {None}]
    <3>1. start[c].spec \in Npm!Specs
      BY <1>1 DEF Npm!Inv, Npm!HasInstall
    <3> QED BY <1>1, <3>1 DEF Npm!Inv, Npm!TypeOK, Npm!Whole
  <2> QED BY <1>1, <1>3, <2>1 DEF Npm!Inv, Npm!TypeOK
<1>7. \A x \in Requests : Npm!HoldsLock(x)' /\ Npm!HasInstall(x)' /\ Npm!Apart(x)'
  BY <1>1, <1>2, <1>3 DEF Npm!Inv, Npm!HoldsLock, Npm!HasInstall, Npm!Apart, Npm!Owns
<1>8. \A x \in Requests : Npm!MadeOK(x)' /\ Npm!CurrentOK(x)' /\ Npm!PreviousOK(x)'
  <2> SUFFICES ASSUME NEW x \in Requests
               PROVE  Npm!MadeOK(x)' /\ Npm!CurrentOK(x)' /\ Npm!PreviousOK(x)'
    OBVIOUS
  <2>1. CASE x = c
    BY <1>1, <1>3, <1>5, <2>1 DEF Npm!MadeOK, Npm!CurrentOK, Npm!PreviousOK, p
  <2>2. CASE x # c
    <3>1. start'[x] = start[x] /\ start[x].at \notin {"installing", "made", "placed"}
      BY <1>2, <1>3, <2>2 DEF Npm!Inv, Npm!HoldsLock
    <3>2. start[x].at = "using" => start[x].install \in Installs \ {i}
      BY <1>2, <2>2 DEF Npm!Inv, Npm!HasInstall
    <3>3. Npm!MadeOK(x)'
      BY <1>5, <3>1, <3>2 DEF Npm!Inv, Npm!MadeOK
    <3> QED BY <1>1, <3>1, <3>3 DEF Npm!Inv, Npm!CurrentOK, Npm!PreviousOK
  <2> QED BY <2>1, <2>2
<1>9. (current # None /\ disk[current.install] # None =>
         disk[current.install] = Npm!Whole(current.spec))'
  BY <1>1, <1>2, <1>5 DEF Npm!Inv, Npm!TypeOK
<1> QED BY <1>6, <1>7, <1>8, <1>9 DEF Npm!Inv

\* `current.json` names the new install: calls under way are one update behind.
LEMMA PackagesPut ==
  ASSUME Npm!Inv, NEW c \in Requests, Npm!Put(c)
  PROVE  Npm!Inv'
<1> USE NoneAssumption, NpmAssumption DEF Npm!At
<1>1. /\ start[c].at = "made"
      /\ current' = [install |-> start[c].install, spec |-> start[c].spec]
      /\ start' = [x \in Requests |->
                     IF x = c THEN [start[c] EXCEPT !.at = "placed"]
                     ELSE IF start[x].at = "using" /\ start[x].since < 2
                       THEN [start[x] EXCEPT !.since = @ + 1] ELSE start[x]]
      /\ UNCHANGED << row, disk, holder, wiping >>
  BY DEF Npm!Put
<1>2. /\ start[c] \in Npm!CallStates /\ start[c].install \in Installs /\ start[c].spec \in Npm!Specs
      /\ start[c].since # 1 /\ holder = c
      /\ \A x \in Requests \ {c} : /\ start[x].install # start[c].install
                                   /\ start[x].at \notin {"installing", "made", "placed"}
  BY <1>1 DEF Npm!Inv, Npm!TypeOK, Npm!HasInstall, Npm!HoldsLock, Npm!Apart, Npm!Owns
<1>3. /\ start'[c] \in Npm!CallStates /\ start'[c].at = "placed"
      /\ start'[c].install = start[c].install /\ start'[c].spec = start[c].spec
      /\ start'[c].since = start[c].since /\ start'[c].previous = start[c].previous
  BY <1>1, <1>2 DEF Npm!CallStates, Npm!Steps
<1>4. ASSUME NEW x \in Requests \ {c}
      PROVE  /\ start'[x] \in Npm!CallStates /\ start'[x].at = start[x].at
             /\ start'[x].install = start[x].install /\ start'[x].spec = start[x].spec
             /\ IF start[x].at = "using" /\ start[x].since < 2
                  THEN start'[x].since = start[x].since + 1 ELSE start'[x].since = start[x].since
  <2>1. start[x] \in Npm!CallStates
    BY DEF Npm!Inv, Npm!TypeOK
  <2>2. CASE start[x].at = "using" /\ start[x].since < 2
    <3>1. start'[x] = [start[x] EXCEPT !.since = start[x].since + 1]
      BY <1>1, <2>2
    <3>2. start[x].since + 1 \in 0 .. 2
      BY <2>1, <2>2 DEF Npm!CallStates
    <3> QED BY <2>1, <2>2, <3>1, <3>2 DEF Npm!CallStates
  <2>3. CASE ~ (start[x].at = "using" /\ start[x].since < 2)
    BY <1>1, <2>1, <2>3
  <2> QED BY <2>2, <2>3
<1>5. start' \in [Requests -> Npm!CallStates]
  BY <1>1, <1>3, <1>4
<1>6. Npm!TypeOK'
  BY <1>1, <1>2, <1>5 DEF Npm!Inv, Npm!TypeOK
<1>7. /\ current' # None /\ current'.install = start[c].install /\ current'.spec = start[c].spec
  BY <1>1, <1>2
<1>8. \A x \in Requests : start[x].since \in 0 .. 2 /\ start[x] \in Npm!CallStates
  BY DEF Npm!Inv, Npm!TypeOK, Npm!CallStates
<1>9. ASSUME NEW x \in Requests PROVE Npm!HoldsLock(x)' /\ Npm!HasInstall(x)' /\ Npm!Apart(x)'
  <2>1. Npm!HoldsLock(x) /\ Npm!HasInstall(x)
    BY DEF Npm!Inv
  <2>2. CASE x = c
    BY <1>1, <1>2, <1>3, <2>2 DEF Npm!HoldsLock, Npm!HasInstall, Npm!Apart, Npm!Owns
  <2>3. CASE x # c
    BY <1>1, <1>2, <1>4, <2>1, <2>3 DEF Npm!HoldsLock, Npm!HasInstall, Npm!Apart, Npm!Owns
  <2> QED BY <2>2, <2>3
<1>10. ASSUME NEW x \in Requests PROVE Npm!MadeOK(x)' /\ Npm!CurrentOK(x)'
  <2>1. Npm!MadeOK(x) /\ Npm!CurrentOK(x) /\ Npm!HasInstall(x)
    BY DEF Npm!Inv
  <2>2. CASE x = c
    BY <1>1, <1>2, <1>3, <1>7, <2>1, <2>2 DEF Npm!MadeOK, Npm!CurrentOK
  <2>3. CASE x # c
    BY <1>1, <1>2, <1>4, <1>8, <2>1, <2>3 DEF Npm!MadeOK, Npm!CurrentOK
  <2> QED BY <2>2, <2>3
<1>11. ASSUME NEW x \in Requests PROVE Npm!PreviousOK(x)'
  <2>1. CASE x = c
    <3> SUFFICES ASSUME NEW y \in Requests, start'[y].at = "using", start'[y].since = 1
                 PROVE  start'[y].install = start'[c].previous
      BY <2>1 DEF Npm!PreviousOK
    <3>1. y # c /\ start[y].at = "using" /\ start[y].since = 0 /\ start'[y].install = start[y].install
      BY <1>3, <1>4, <1>8
    <3>2. current # None /\ current.install = start[y].install
      BY <3>1 DEF Npm!Inv, Npm!CurrentOK
    <3> QED BY <1>1, <1>3, <3>1, <3>2 DEF Npm!Inv, Npm!CurrentOK
  <2>2. CASE x # c
    BY <1>2, <1>4, <2>2 DEF Npm!PreviousOK
  <2> QED BY <2>1, <2>2
<1>12. (current # None /\ disk[current.install] # None =>
          disk[current.install] = Npm!Whole(current.spec))'
  BY <1>1, <1>7 DEF Npm!Inv, Npm!MadeOK
<1> QED BY <1>6, <1>9, <1>10, <1>11, <1>12 DEF Npm!Inv

\* The sweep keeps the new install and the one before it, so every call that is
\* at most one update behind.
LEMMA PackagesSweep ==
  ASSUME Npm!Inv, NEW c \in Requests, Npm!Sweep(c)
  PROVE  Npm!Inv'
<1> USE NoneAssumption, NpmAssumption DEF Npm!At
<1>1. PICK old \in {{}, Installs \ {start[c].install, start[c].previous}} :
        disk' = [i \in Installs |-> IF i \in old THEN None ELSE disk[i]]
  BY DEF Npm!Sweep
<1>2. /\ start[c].at = "placed" /\ UNCHANGED << row, current, wiping >>
      /\ start' = [start EXCEPT ![c] = IF start[c].op = "call"
                      THEN [start[c] EXCEPT !.at = "using", !.previous = None]
                      ELSE Npm!Asked("call", start[c].spec)]
      /\ holder' = IF holder = c THEN None ELSE holder
  BY DEF Npm!Sweep, Npm!Installed, Npm!Released
<1>3. /\ start[c] \in Npm!CallStates /\ start[c].install \in Installs /\ start[c].spec \in Npm!Specs
      /\ start[c].since # 1 /\ start[c].since \in 0 .. 2 /\ holder = c
      /\ \A x \in Requests \ {c} : start[x].at \notin {"installing", "made", "placed"}
  BY <1>2 DEF Npm!Inv, Npm!TypeOK, Npm!CallStates, Npm!HasInstall, Npm!HoldsLock
<1>4. /\ start'[c] \in Npm!CallStates /\ start'[c].spec = start[c].spec
      /\ \/ /\ start'[c].at = "using" /\ start'[c].install = start[c].install
            /\ start'[c].since = start[c].since
         \/ start'[c].at = "asked" /\ start'[c].install = None /\ start'[c].since = 0
  <2>1. CASE start[c].op = "call"
    <3>1. start' = [start EXCEPT ![c] = [start[c] EXCEPT !.at = "using", !.previous = None]]
      BY <1>2, <2>1
    <3>2. start'[c] = [start[c] EXCEPT !.at = "using", !.previous = None]
      BY <3>1 DEF Npm!Inv, Npm!TypeOK
    <3> QED BY <1>3, <3>2 DEF Npm!CallStates, Npm!Steps
  <2>2. CASE start[c].op # "call"
    <3>1. start' = [start EXCEPT ![c] = Npm!Asked("call", start[c].spec)]
      BY <1>2, <2>2
    <3> QED BY <1>3, <3>1 DEF Npm!Inv, Npm!TypeOK, Npm!CallStates, Npm!Steps, Npm!Asked
  <2> QED BY <2>1, <2>2
<1>5. \A x \in Requests \ {c} : start'[x] = start[x]
  BY <1>2 DEF Npm!Inv, Npm!TypeOK
<1>6. start' \in [Requests -> Npm!CallStates] /\ holder' = None
  BY <1>2, <1>3, <1>4 DEF Npm!Inv, Npm!TypeOK
<1>7. \A i \in Installs : disk'[i] \in {disk[i], None}
  BY <1>1
<1>8. \A i \in Installs : i \in {start[c].install, start[c].previous} => disk'[i] = disk[i]
  BY <1>1
<1>9. Npm!TypeOK'
  <2>1. disk' \in [Installs -> [spec : Npm!Specs, whole : BOOLEAN] \cup {None}]
    BY <1>1 DEF Npm!Inv, Npm!TypeOK
  <2> QED BY <1>2, <1>6, <2>1 DEF Npm!Inv, Npm!TypeOK
<1>10. \A x \in Requests : Npm!HoldsLock(x)' /\ Npm!HasInstall(x)' /\ Npm!Apart(x)'
  BY <1>3, <1>4, <1>5, <1>6 DEF Npm!Inv, Npm!HoldsLock, Npm!HasInstall, Npm!Apart, Npm!Owns
<1>11. ASSUME NEW x \in Requests PROVE Npm!MadeOK(x)' /\ Npm!CurrentOK(x)'
  <2>1. CASE x = c
    BY <1>2, <1>3, <1>4, <1>8, <2>1 DEF Npm!Inv, Npm!MadeOK, Npm!CurrentOK
  <2>2. CASE x # c
    <3>1. /\ start'[x] = start[x] /\ start[x].at \notin {"installing", "made", "placed"}
          /\ start[x].since \in 0 .. 2
          /\ start[x].at = "using" => start[x].install \in Installs
      BY <1>3, <1>5, <2>2 DEF Npm!Inv, Npm!TypeOK, Npm!CallStates, Npm!HasInstall
    <3>2. Npm!MadeOK(x)'
      <4> SUFFICES ASSUME start[x].at = "using", start[x].since < 2
                   PROVE  disk'[start[x].install] = Npm!Whole(start[x].spec)
        BY <3>1 DEF Npm!MadeOK
      <4>1. start[x].since \in {0, 1}
        BY <3>1
      <4>2. start[x].since = 0 => current # None /\ current.install = start[x].install
        BY DEF Npm!Inv, Npm!CurrentOK
      <4>3. start[x].install \in {start[c].install, start[c].previous}
        BY <1>2, <4>1, <4>2 DEF Npm!Inv, Npm!CurrentOK, Npm!PreviousOK
      <4> QED BY <1>8, <3>1, <4>3 DEF Npm!Inv, Npm!MadeOK
    <3> QED BY <1>2, <3>1, <3>2 DEF Npm!Inv, Npm!CurrentOK
  <2> QED BY <2>1, <2>2
<1>12. \A x \in Requests : Npm!PreviousOK(x)'
  BY <1>3, <1>4, <1>5 DEF Npm!PreviousOK
<1>13. (current # None /\ disk[current.install] # None =>
          disk[current.install] = Npm!Whole(current.spec))'
  BY <1>2, <1>7 DEF Npm!Inv, Npm!TypeOK
<1> QED BY <1>9, <1>10, <1>11, <1>12, <1>13 DEF Npm!Inv

\* `remove_sandbox` deletes, or is done: whoever has an install no longer counts
\* on it, and nothing else changes for a caller.
LEMMA PackagesGone ==
  ASSUME Npm!Inv, Npm!Wipe \/ Npm!WipeEnds
  PROVE  Npm!Inv'
<1> USE NoneAssumption, NpmAssumption DEF Npm!At
<1>1. /\ start' = [c \in Requests |->
                     IF start[c].install # None THEN [start[c] EXCEPT !.since = 2] ELSE start[c]]
      /\ current' \in {current, None} /\ UNCHANGED << row, holder >>
      /\ wiping' \in BOOLEAN
      /\ (disk' = disk \/ disk' = [i \in Installs |-> None])
  <2>1. CASE Npm!Wipe
    BY <2>1 DEF Npm!Inv, Npm!TypeOK, Npm!Wipe
  <2>2. CASE Npm!WipeEnds
    <3>1. wiping' \in BOOLEAN
      BY <2>2, Zenon DEF Npm!WipeEnds
    <3> QED BY <2>2, <3>1 DEF Npm!WipeEnds
  <2> QED BY <2>1, <2>2
<1>2. \A c \in Requests : start[c] \in Npm!CallStates
  BY DEF Npm!Inv, Npm!TypeOK
<1>3. ASSUME NEW c \in Requests
      PROVE  /\ start'[c] \in Npm!CallStates /\ start'[c].at = start[c].at
             /\ start'[c].install = start[c].install /\ start'[c].spec = start[c].spec
             /\ start'[c].previous = start[c].previous
             /\ IF start[c].install # None THEN start'[c].since = 2
                                           ELSE start'[c].since = start[c].since
  <2>1. CASE start[c].install # None
    <3>1. start'[c] = [start[c] EXCEPT !.since = 2]
      BY <1>1, <2>1
    <3> QED BY <1>2, <2>1, <3>1 DEF Npm!CallStates
  <2>2. CASE start[c].install = None
    BY <1>1, <1>2, <2>2
  <2> QED BY <2>1, <2>2
<1>4. start' \in [Requests -> Npm!CallStates]
  BY <1>1, <1>3
<1>5. Npm!TypeOK'
  BY <1>1, <1>4 DEF Npm!Inv, Npm!TypeOK
<1>6. ASSUME NEW c \in Requests
      PROVE  /\ Npm!HoldsLock(c)' /\ Npm!HasInstall(c)' /\ Npm!Apart(c)'
             /\ Npm!MadeOK(c)' /\ Npm!CurrentOK(c)' /\ Npm!PreviousOK(c)'
  <2>1. /\ Npm!HoldsLock(c) /\ Npm!HasInstall(c) /\ Npm!Apart(c)
        /\ Npm!MadeOK(c) /\ Npm!CurrentOK(c)
    BY DEF Npm!Inv
  <2>2. \A x \in Requests : start'[x].at = "using" => start'[x].since = 2
    BY <1>3 DEF Npm!Inv, Npm!HasInstall
  <2>3. Npm!HoldsLock(c)' /\ Npm!HasInstall(c)' /\ Npm!Apart(c)'
    BY <1>1, <1>3, <2>1 DEF Npm!HoldsLock, Npm!HasInstall, Npm!Apart, Npm!Owns
  <2>4. start[c].install \in Installs => disk'[start[c].install] \in {disk[start[c].install], None}
    BY <1>1
  <2>5. start'[c].at \in {"installing", "made", "placed", "using"} =>
          start[c].install \in Installs /\ start'[c].since = 2
    BY <1>3, <2>1 DEF Npm!HasInstall
  <2> QED BY <1>1, <1>3, <2>1, <2>2, <2>3, <2>4, <2>5 DEF Npm!MadeOK, Npm!CurrentOK, Npm!PreviousOK
<1>7. (current # None /\ disk[current.install] # None =>
         disk[current.install] = Npm!Whole(current.spec))'
  BY <1>1 DEF Npm!Inv, Npm!TypeOK
<1> QED BY <1>5, <1>6, <1>7 DEF Npm!Inv

\* The row is edited, or the process stops: the files stay as they are.
LEMMA PackagesOver ==
  ASSUME Npm!Inv, Npm!Edit \/ Npm!Crash
  PROVE  Npm!Inv'
<1> USE NoneAssumption, NpmAssumption DEF Npm!At
<1>1. CASE Npm!Edit
  <2>1. row' \in DOMAIN Rows /\ UNCHANGED << current, disk, holder, start >>
    BY <1>1 DEF Npm!Edit, Npm!Inv, Npm!TypeOK
  <2>2. wiping' \in BOOLEAN
    BY <1>1, Zenon DEF Npm!Edit
  <2>3. Npm!TypeOK'
    BY <2>1, <2>2 DEF Npm!Inv, Npm!TypeOK
  <2> QED BY <2>1, <2>3 DEF Npm!Inv, Npm!HoldsLock, Npm!HasInstall, Npm!Apart, Npm!Owns, Npm!MadeOK,
             Npm!CurrentOK, Npm!PreviousOK
<1>2. CASE Npm!Crash
  <2>1. /\ start' = [c \in Requests |-> Npm!NoCall] /\ holder' = None
        /\ UNCHANGED << row, current, disk >>
    BY <1>2 DEF Npm!Crash
  <2>2. wiping' \in BOOLEAN
    BY <1>2, Zenon DEF Npm!Crash
  <2>3. \A c \in Requests : start'[c] = Npm!NoCall
    BY <2>1
  <2>4. start' \in [Requests -> Npm!CallStates]
    BY <2>1 DEF Npm!CallStates, Npm!NoCall, Npm!Steps
  <2>5. Npm!TypeOK'
    BY <2>1, <2>2, <2>4 DEF Npm!Inv, Npm!TypeOK
  <2>6. \A c \in Requests : /\ start'[c].at = "idle" /\ start'[c].install = None
                            /\ start'[c].since = 0
    BY <2>3 DEF Npm!NoCall
  <2>7. \A c \in Requests : Npm!HoldsLock(c)' /\ Npm!HasInstall(c)' /\ Npm!Apart(c)'
    BY <2>1, <2>6 DEF Npm!HoldsLock, Npm!HasInstall, Npm!Apart, Npm!Owns
  <2>8. \A c \in Requests : Npm!MadeOK(c)' /\ Npm!CurrentOK(c)' /\ Npm!PreviousOK(c)'
    BY <2>6 DEF Npm!MadeOK, Npm!CurrentOK, Npm!PreviousOK
  <2> QED BY <2>1, <2>5, <2>7, <2>8 DEF Npm!Inv
<1> QED BY <1>1, <1>2

\* The installs, the lock and the calls stay as the invariant says.
LEMMA PackagesNext == Npm!Inv /\ [Npm!Next]_npmVars => Npm!Inv'
<1> SUFFICES ASSUME Npm!Inv, [Npm!Next]_npmVars PROVE Npm!Inv'
  OBVIOUS
<1>1. CASE UNCHANGED npmVars
  BY <1>1 DEF npmVars, Npm!Inv, Npm!TypeOK, Npm!HoldsLock, Npm!HasInstall, Npm!Apart, Npm!Owns,
     Npm!MadeOK, Npm!CurrentOK, Npm!PreviousOK, Npm!At
<1>2. CASE Npm!Next
  BY <1>2, PackagesAsk, PackagesBegin, PackagesFail, PackagesDone, PackagesPut, PackagesSweep,
     PackagesGone, PackagesOver DEF Npm!Next, Npm!Lock, Npm!CallerStep
<1> QED BY <1>1, <1>2

\* A call begins to use an install where it reads `current.json` and where its
\* own install is done.
LEMMA PackagesUsed ==
  ASSUME Npm!Inv, Npm!Next, NEW c \in Requests, start[c].at # "using", start'[c].at = "using"
  PROVE  Npm!Read(c) \/ Npm!Sweep(c)
<1> USE DEF Npm!At
<1>1. start \in [Requests -> Npm!CallStates]
  BY DEF Npm!Inv, Npm!TypeOK
<1>2. ASSUME NEW x \in Requests, NEW op \in {"call", "update"}, Npm!Ask(x, op) PROVE FALSE
  BY <1>1, <1>2 DEF Npm!Ask, Npm!Asked
<1>3. ASSUME NEW x \in Requests, Npm!NoRoom(x) \/ Npm!InstallFails(x) \/ Npm!Finish(x) \/ Npm!GoAway(x)
      PROVE  FALSE
  BY <1>1, <1>3 DEF Npm!NoRoom, Npm!InstallFails, Npm!Finish, Npm!GoAway, Npm!Answered, Npm!NoCall
<1>4. ASSUME NEW x \in Requests, Npm!Read(x) \/ Npm!Sweep(x) PROVE x = c
  BY <1>1, <1>4 DEF Npm!Read, Npm!Sweep, Npm!Installed
<1>5. ASSUME NEW x \in Requests, Npm!BeginInstall(x) PROVE FALSE
  BY <1>1, <1>5 DEF Npm!BeginInstall
<1>6. ASSUME NEW x \in Requests, Npm!InstallDone(x) PROVE FALSE
  BY <1>1, <1>6 DEF Npm!InstallDone
<1>7. ASSUME NEW x \in Requests, Npm!Put(x) PROVE FALSE
  BY <1>1, <1>7 DEF Npm!Put
<1>8. CASE Npm!Wipe \/ Npm!WipeEnds
  <2>1. start'[c] \in {start[c], [start[c] EXCEPT !.since = 2]} /\ start[c] \in Npm!CallStates
    BY <1>1, <1>8 DEF Npm!Wipe, Npm!WipeEnds
  <2> QED BY <2>1 DEF Npm!CallStates
<1>9. CASE Npm!Edit \/ Npm!Crash
  BY <1>9 DEF Npm!Edit, Npm!Crash, Npm!NoCall
<1> QED BY <1>2, <1>3, <1>4, <1>5, <1>6, <1>7, <1>8, <1>9 DEF Npm!Next, Npm!Lock, Npm!CallerStep

\* What it begins to use is what its row asked for, or was deleted meanwhile.
LEMMA PackagesRight ==
  ASSUME Npm!Inv, Npm!Next, NEW c \in Requests, start[c].at # "using", start'[c].at = "using"
  PROVE  disk'[start'[c].install] \in {None, Npm!Whole(start[c].spec)}
<1> USE NoneAssumption, NpmAssumption DEF Npm!At
<1>1. start[c] \in Npm!CallStates /\ start \in [Requests -> Npm!CallStates]
  BY DEF Npm!Inv, Npm!TypeOK
<1>2. CASE Npm!Read(c)
  <2>1. /\ start'[c].install = current.install /\ current # None
        /\ current.spec = start[c].spec /\ disk' = disk
    BY <1>1, <1>2 DEF Npm!Read, Npm!InUse
  <2> QED BY <2>1 DEF Npm!Inv
<1>3. CASE Npm!Sweep(c)
  <2>1. start[c].at = "placed" /\ start[c].install \in Installs
    BY <1>3 DEF Npm!Inv, Npm!HasInstall, Npm!Sweep
  <2>2. start'[c].install = start[c].install
    <3>1. start[c].op = "call"
      BY <1>1, <1>3 DEF Npm!Sweep, Npm!Installed, Npm!Asked
    <3>2. start' = [start EXCEPT ![c] = [start[c] EXCEPT !.at = "using", !.previous = None]]
      BY <1>3, <3>1 DEF Npm!Sweep, Npm!Installed
    <3>3. start'[c] = [start[c] EXCEPT !.at = "using", !.previous = None]
      BY <1>1, <3>2
    <3> QED BY <1>1, <3>3 DEF Npm!CallStates
  <2>3. disk'[start[c].install] \in {None, disk[start[c].install]}
    BY <1>3, <2>1 DEF Npm!Sweep
  <2> QED BY <2>1, <2>2, <2>3 DEF Npm!Inv, Npm!MadeOK
<1> QED BY <1>2, <1>3, PackagesUsed

\* Locks, installs and what is current agree, whatever calls overlap.
LEMMA PackagesInvariant == Spec => []Npm!Inv
<1>1. Init => Npm!Inv
  BY PackagesInit DEF Init
<1>2. Npm!Inv /\ [Next]_allVars => Npm!Inv'
  <2>1. [Next]_allVars => [Npm!Next]_npmVars
    BY DEF Next, Moves, allVars, npmVars
  <2> QED BY <2>1, PackagesNext
<1> QED BY <1>1, <1>2, PTL DEF Spec

\* A call starts the package its row asked for, whole, or nothing; and one
\* update later still has its files; for any number of calls, updates and edits
\* (`installed`, `make_current`).
THEOREM CallsRunTheirPackage == Spec => RunsItsPackage
<1> DEFINE Right ==
      /\ \A c \in Requests :
           start[c].at # "using" /\ start'[c].at = "using"
           => disk'[start'[c].install] \in {None, Npm!Whole(start[c].spec)}
      /\ Npm!OutlivesUpdate'
<1>1. [Next]_allVars => [Npm!Next]_npmVars
  BY DEF Next, Moves, allVars, npmVars
<1>2. Npm!Inv /\ Npm!Inv' /\ [Next]_allVars => [Right]_(Npm!vars)
  <2> SUFFICES ASSUME Npm!Inv, Npm!Inv', Npm!Next PROVE Right
    BY <1>1 DEF npmVars, Npm!vars
  <2>1. Npm!OutlivesUpdate'
    BY DEF Npm!Inv, Npm!MadeOK, Npm!OutlivesUpdate, Npm!At
  <2> QED BY <2>1, PackagesRight
<1>3. Spec => [][Right]_(Npm!vars)
  BY <1>2, PackagesInvariant, PTL DEF Spec
<1> QED BY <1>3 DEF RunsItsPackage, Npm!RunsItsPackage

-----------------------------------------------------------------------------
(* Tailnets.                                                               *)

\* No daemon runs when the server starts.
LEMMA DaemonsInit == Net!Init => Net!Inv
<1> SUFFICES ASSUME Net!Init PROVE Net!Inv
  OBVIOUS
<1> USE NoneAssumption DEF Net!Init, Net!At
<1>1. Net!NoCall \in Net!CallStates
  BY DEF Net!NoCall, Net!CallStates, Net!Ops, Net!Steps
<1>2. Net!NoSupervisor \in Net!TaskStates
  BY Zenon DEF Net!NoSupervisor, Net!TaskStates, Net!Phases
<1>3. Net!TypeOK
  BY <1>1, <1>2 DEF Net!TypeOK
<1>4. \A c \in Requests : ensure[c].at = "idle" /\ ensure[c].sup = None
  BY DEF Net!NoCall
<1>5. \A s \in Supervisors : ~ Net!Lives(s)
  BY DEF Net!Lives, Net!NoSupervisor
<1>6. \A c \in Requests : Net!HasTurn(c) /\ Net!Between(c) /\ Net!Waits(c) /\ Net!Means(c)
  BY <1>4 DEF Net!HasTurn, Net!Between, Net!Waits, Net!Means
<1> QED BY <1>3, <1>5, <1>6 DEF Net!Inv, Net!EntryOK, Net!Known

\* The turn is one caller's.
LEMMA DaemonsTurn ==
  ASSUME Net!Inv, NEW c \in Requests, NEW x \in Requests,
         ensure[c].at \notin {"idle", "queued"}, ensure[x].at \notin {"idle", "queued"},
         ensure[c].id = ensure[x].id
  PROVE  x = c
  BY DEF Net!Inv, Net!HasTurn

\* What a step of one caller has to show, when the map of supervisors stays; a
\* supervisor it waited for may be aborted.
LEMMA DaemonsCaller ==
  ASSUME Net!Inv, NEW c \in Requests,
         UNCHANGED entries,
         removed \subseteq removed', removed' \subseteq Ids, states' \subseteq states,
         gone' \subseteq Ids,
         sup' \in [Supervisors -> Net!TaskStates],
         \A s \in Supervisors :
           \/ sup'[s] = sup[s]
           \/ /\ sup'[s].phase = "aborted" /\ sup'[s].id = sup[s].id
              /\ sup[s].cancelled /\ sup'[s].cancelled /\ sup[s].phase # "free",
         ensure' \in [Requests -> Net!CallStates],
         \A x \in Requests \ {c} : ensure'[x] = ensure[x],
         turn' \in [Ids -> Requests \cup {None}],
         \A id \in Ids : turn'[id] = turn[id] \/ turn[id] \in {c, None},
         Net!HasTurn(c)', Net!Between(c)', Net!Waits(c)', Net!Means(c)',
         ensure[c].at = "ending" => sup'[ensure[c].sup].phase \in {"free", "aborted"},
         ensure'[c].at = "starting" => ensure'[c].id \notin gone',
         \A id \in gone' : id \in gone \/ Net!GoneOK(id)'
  PROVE  Net!Inv'
<1> USE NoneAssumption DEF Net!At
<1>1. Net!TypeOK'
  BY DEF Net!Inv, Net!TypeOK
<1>2. ASSUME NEW x \in Requests
      PROVE  Net!HasTurn(x)' /\ Net!Between(x)' /\ Net!Waits(x)' /\ Net!Means(x)'
  <2>1. CASE x = c
    BY <2>1
  <2>2. CASE x # c
    <3>1. Net!HasTurn(x)'
      BY <2>2 DEF Net!Inv, Net!HasTurn
    <3>2. Net!Waits(x)'
      BY <2>2 DEF Net!Inv, Net!Waits
    <3> QED BY <2>2, <3>1, <3>2 DEF Net!Inv, Net!Between, Net!Means
  <2> QED BY <2>1, <2>2
<1>3. \A s \in Supervisors : Net!Lives(s)' => sup'[s] = sup[s] /\ Net!Lives(s)
  BY DEF Net!Lives
<1>4. ASSUME NEW id \in Ids PROVE Net!EntryOK(id)'
  <2>1. entries[id] # None => entries[id] \in Supervisors /\ ~ sup[entries[id]].cancelled
    BY DEF Net!Inv, Net!TypeOK, Net!EntryOK
  <2>2. entries[id] # None => sup'[entries[id]] = sup[entries[id]]
    BY <2>1
  <2> QED BY <2>2 DEF Net!Inv, Net!EntryOK
<1>5. ASSUME NEW s \in Supervisors PROVE Net!Known(s)'
  <2> SUFFICES ASSUME Net!Lives(s)' PROVE Net!Known(s)'
    BY DEF Net!Known
  <2>1. sup'[s] = sup[s] /\ Net!Known(s) /\ Net!Lives(s)
    BY <1>3 DEF Net!Inv
  <2>2. ASSUME NEW x \in Requests, ensure[x].at = "ending", ensure[x].sup = s,
               ensure[x].id = sup[s].id
        PROVE  ensure'[x] = ensure[x]
    BY <2>2 DEF Net!Lives
  <2> QED BY <2>1, <2>2 DEF Net!Known
<1>6. ASSUME NEW id \in gone' PROVE Net!GoneOK(id)'
  <2>1. CASE id \in gone
    BY <1>3, <2>1 DEF Net!Inv, Net!GoneOK
  <2> QED BY <1>6, <2>1
<1> QED BY <1>1, <1>2, <1>4, <1>5, <1>6 DEF Net!Inv

\* The invariant of a caller that is not there.
LEMMA DaemonsNoCall ==
  ASSUME NEW c \in Requests, Net!Inv, Net!Answered(c)
  PROVE  /\ ensure' \in [Requests -> Net!CallStates] /\ \A x \in Requests \ {c} : ensure'[x] = ensure[x]
         /\ turn' \in [Ids -> Requests \cup {None}]
         /\ \A id \in Ids : turn'[id] = turn[id] \/ turn[id] \in {c, None}
         /\ ensure'[c].at = "idle"
         /\ Net!HasTurn(c)' /\ Net!Between(c)' /\ Net!Waits(c)' /\ Net!Means(c)'
<1>1. Net!NoCall \in Net!CallStates
  BY DEF Net!NoCall, Net!CallStates, Net!Ops, Net!Steps
<1>2. /\ ensure' \in [Requests -> Net!CallStates] /\ \A x \in Requests \ {c} : ensure'[x] = ensure[x]
      /\ ensure'[c] = Net!NoCall
  BY <1>1 DEF Net!Inv, Net!TypeOK, Net!Answered
<1>3. /\ turn' \in [Ids -> Requests \cup {None}]
      /\ \A id \in Ids : turn'[id] = turn[id] \/ turn[id] \in {c, None}
  BY DEF Net!Inv, Net!TypeOK, Net!Answered
<1>4. ensure'[c].at = "idle" /\ ensure'[c].sup = None
  BY <1>2 DEF Net!NoCall
<1> QED BY <1>2, <1>3, <1>4 DEF Net!HasTurn, Net!Between, Net!Waits, Net!Means, Net!At

\* A caller whose step changes goes on with what it began.
LEMMA DaemonsGoes ==
  ASSUME NEW c \in Requests, Net!Inv, NEW step \in Net!Steps, Net!Goes(c, step)
  PROVE  /\ ensure' \in [Requests -> Net!CallStates] /\ \A x \in Requests \ {c} : ensure'[x] = ensure[x]
         /\ ensure'[c].at = step /\ ensure'[c].op = ensure[c].op /\ ensure'[c].id = ensure[c].id
         /\ ensure'[c].sup = ensure[c].sup
<1>1. ensure[c] \in Net!CallStates
  BY DEF Net!Inv, Net!TypeOK
<1>2. ensure' = [ensure EXCEPT ![c] = [ensure[c] EXCEPT !.at = step]]
  BY DEF Net!Goes
<1>3. [ensure[c] EXCEPT !.at = step] \in Net!CallStates
  BY <1>1 DEF Net!CallStates
<1> QED BY <1>1, <1>2, <1>3 DEF Net!Inv, Net!TypeOK, Net!CallStates

\* A request comes.
LEMMA DaemonsBegin ==
  ASSUME Net!Inv, NEW c \in Requests, NEW op \in Net!Ops, NEW id \in Ids, Net!Begin(c, op, id)
  PROVE  Net!Inv'
<1> USE NoneAssumption DEF Net!At
<1>1. /\ ensure[c].at = "idle" /\ UNCHANGED << entries, sup, turn, states, gone >>
      /\ ensure' = [ensure EXCEPT ![c] = [op |-> op, id |-> id, at |-> "queued", sup |-> None]]
      /\ removed' = IF op \in {"remove", "discard"} THEN removed \cup {id} ELSE removed
  BY DEF Net!Begin
<1>2. /\ ensure' \in [Requests -> Net!CallStates] /\ \A x \in Requests \ {c} : ensure'[x] = ensure[x]
      /\ ensure'[c].at = "queued" /\ ensure'[c].op = op /\ ensure'[c].id = id
      /\ ensure'[c].sup = None
  BY <1>1 DEF Net!Inv, Net!TypeOK, Net!CallStates, Net!Steps
<1>3. Net!HasTurn(c)' /\ Net!Between(c)' /\ Net!Waits(c)' /\ Net!Means(c)'
  BY <1>1, <1>2 DEF Net!HasTurn, Net!Between, Net!Waits, Net!Means
<1>4. removed \subseteq removed' /\ removed' \subseteq Ids
  BY <1>1 DEF Net!Inv, Net!TypeOK
<1> QED BY <1>1, <1>2, <1>3, <1>4, DaemonsCaller DEF Net!Inv, Net!TypeOK

\* The steps of a caller that leave the supervisors alone.
LEMMA DaemonsHold ==
  ASSUME Net!Inv, NEW c \in Requests,
         Net!TakeTurn(c) \/ Net!Refuse(c) \/ Net!Ensure(c) \/ Net!Leave(c) \/ Net!StartFails(c)
           \/ Net!Logout(c)
  PROVE  Net!Inv'
<1> USE NoneAssumption DEF Net!At
<1>1. UNCHANGED << removed, entries, sup, states, gone >>
  BY DEF Net!TakeTurn, Net!Refuse, Net!Ensure, Net!Leave, Net!StartFails, Net!Logout
<1>2. ensure[c].at \notin {"idle", "ending"}
  BY DEF Net!TakeTurn, Net!Refuse, Net!Ensure, Net!Leave, Net!StartFails, Net!Logout
<1>3. CASE Net!Answered(c)
  BY <1>1, <1>2, <1>3, DaemonsNoCall, DaemonsCaller DEF Net!Inv, Net!TypeOK
<1>4. /\ ensure[c].id \in Ids /\ ensure[c].sup = None
      /\ ensure[c].at # "queued" => turn[ensure[c].id] = c
      /\ ensure[c].op \in {"remove", "discard"} => ensure[c].id \in removed
      /\ ensure[c].op \in Net!Ops
  BY <1>2 DEF Net!Inv, Net!HasTurn, Net!Waits, Net!Means, Net!TypeOK, Net!CallStates
<1>5. entries[ensure[c].id] # None => Net!is_supervised(ensure[c].id)
  BY <1>4 DEF Net!Inv, Net!EntryOK, Net!is_supervised
<1>6. CASE Net!TakeTurn(c)
  <2>1. /\ ensure[c].at = "queued" /\ Net!Goes(c, "holding") /\ turn[ensure[c].id] = None
        /\ turn' = [turn EXCEPT ![ensure[c].id] = c]
    BY <1>6 DEF Net!TakeTurn
  <2>2. /\ ensure' \in [Requests -> Net!CallStates] /\ \A x \in Requests \ {c} : ensure'[x] = ensure[x]
        /\ ensure'[c].at = "holding" /\ ensure'[c].op = ensure[c].op /\ ensure'[c].id = ensure[c].id
        /\ ensure'[c].sup = ensure[c].sup
    BY <2>1, DaemonsGoes DEF Net!Steps
  <2>3. /\ turn' \in [Ids -> Requests \cup {None}] /\ turn'[ensure[c].id] = c
        /\ \A id \in Ids : turn'[id] = turn[id] \/ turn[id] \in {c, None}
    BY <1>4, <2>1 DEF Net!Inv, Net!TypeOK
  <2>4. Net!HasTurn(c)' /\ Net!Between(c)' /\ Net!Waits(c)' /\ Net!Means(c)'
    BY <1>1, <1>4, <2>2, <2>3 DEF Net!HasTurn, Net!Between, Net!Waits, Net!Means
  <2> QED BY <1>1, <1>2, <2>2, <2>3, <2>4, DaemonsCaller DEF Net!Inv, Net!TypeOK
<1>7. ASSUME NEW step \in {"starting", "logout", "stopping"}, Net!Goes(c, step), UNCHANGED turn,
             ensure[c].at # "queued",
             step # "starting" => ensure[c].op # "ensure",
             step = "starting" => entries[ensure[c].id] = None /\ ensure[c].id \notin gone
      PROVE  Net!Inv'
  <2>1. /\ ensure' \in [Requests -> Net!CallStates] /\ \A x \in Requests \ {c} : ensure'[x] = ensure[x]
        /\ ensure'[c].at = step /\ ensure'[c].op = ensure[c].op /\ ensure'[c].id = ensure[c].id
        /\ ensure'[c].sup = ensure[c].sup
    BY <1>7, DaemonsGoes DEF Net!Steps
  <2>2. Net!HasTurn(c)' /\ Net!Between(c)' /\ Net!Waits(c)' /\ Net!Means(c)'
    BY <1>1, <1>4, <1>7, <2>1 DEF Net!HasTurn, Net!Between, Net!Waits, Net!Means
  <2> QED BY <1>1, <1>2, <1>7, <2>1, <2>2, DaemonsCaller DEF Net!Inv, Net!TypeOK
<1>8. CASE Net!Ensure(c)
  <2>1. ensure[c].id \notin gone
    BY <1>8 DEF Net!Ensure, Net!Inv, Net!GoneOK
  <2> QED BY <1>3, <1>5, <1>7, <1>8, <2>1 DEF Net!Ensure
<1>9. CASE Net!Leave(c)
  <2>1. UNCHANGED turn /\ ensure[c].at = "holding" /\ ensure[c].op # "ensure"
    BY <1>9 DEF Net!Leave
  <2>2. \/ Net!Goes(c, "starting") /\ ~ Net!is_supervised(ensure[c].id) /\ ensure[c].id \in states
        \/ Net!Goes(c, "logout") \/ Net!Goes(c, "stopping")
    BY <1>9 DEF Net!Leave
  <2>3. ensure[c].id \in states => ensure[c].id \notin gone
    BY DEF Net!Inv, Net!GoneOK
  <2> QED BY <1>5, <1>7, <2>1, <2>2, <2>3
<1>10. CASE Net!Logout(c)
  <2>1. ensure[c].op # "ensure" /\ UNCHANGED turn /\ Net!Goes(c, "stopping") /\ ensure[c].at = "logout"
    BY <1>10 DEF Net!Logout, Net!Inv, Net!Means
  <2> QED BY <1>7, <2>1
<1> QED BY <1>3, <1>6, <1>8, <1>9, <1>10 DEF Net!Refuse, Net!StartFails

\* `supervisor.stop()` is over, or `stop_daemon` found no supervisor: the caller
\* is answered or clears the directory.
LEMMA DaemonsAfter ==
  ASSUME Net!Inv, NEW c \in Requests, Net!Ended(c) \/ Net!EndTimesOut(c)
  PROVE  Net!Inv'
<1> USE NoneAssumption DEF Net!At
<1> DEFINE s == ensure[c].sup
<1>1. /\ ensure[c].at = "ending" /\ Net!AfterStop(c)
      /\ UNCHANGED << removed, entries, states, gone >>
  BY DEF Net!Ended, Net!EndTimesOut
<1>2. /\ s \in Supervisors /\ ensure[c].id \in Ids /\ ensure[c].op # "ensure"
      /\ turn[ensure[c].id] = c /\ entries[ensure[c].id] = None
      /\ ensure[c].op \in {"remove", "discard"} => ensure[c].id \in removed
      /\ ensure[c] \in Net!CallStates
  BY <1>1 DEF Net!Inv, Net!Waits, Net!HasTurn, Net!Means, Net!Between, Net!TypeOK
<1>3. /\ sup' \in [Supervisors -> Net!TaskStates]
      /\ \A x \in Supervisors :
           \/ sup'[x] = sup[x]
           \/ /\ sup'[x].phase = "aborted" /\ sup'[x].id = sup[x].id
              /\ sup[x].cancelled /\ sup'[x].cancelled /\ sup[x].phase # "free"
      /\ sup'[s].phase \in {"free", "aborted"}
  <2>1. CASE Net!Ended(c)
    BY <2>1 DEF Net!Ended, Net!Inv, Net!TypeOK
  <2>2. CASE Net!EndTimesOut(c)
    <3>1. /\ sup' = [sup EXCEPT ![s].phase = "aborted"] /\ sup[s].phase = "terminating"
      BY <2>2 DEF Net!EndTimesOut
    <3>2. sup[s].cancelled /\ sup[s] \in Net!TaskStates
      BY <1>1, <1>2, <3>1 DEF Net!Inv, Net!Waits, Net!TypeOK
    <3>3. /\ sup'[s].phase = "aborted" /\ sup'[s].id = sup[s].id
          /\ sup'[s].cancelled = sup[s].cancelled
          /\ \A x \in Supervisors \ {s} : sup'[x] = sup[x]
      BY <1>2, <3>1, <3>2 DEF Net!Inv, Net!TypeOK, Net!TaskStates
    <3>4. sup' = [sup EXCEPT ![s].phase = "aborted"]
      BY <3>1
    <3>5. sup' \in [Supervisors -> Net!TaskStates]
      BY <3>4 DEF Net!Inv, Net!TypeOK, Net!TaskStates, Net!Phases
    <3> QED BY <3>1, <3>2, <3>3, <3>5
  <2> QED BY <2>1, <2>2
<1>4. CASE ensure[c].op = "stop"
  BY <1>1, <1>3, <1>4, DaemonsNoCall, DaemonsCaller DEF Net!AfterStop, Net!Inv, Net!TypeOK
<1>5. CASE ensure[c].op # "stop"
  <2>1. ensure' = [ensure EXCEPT ![c].at = "clearing", ![c].sup = None] /\ UNCHANGED turn
    BY <1>1, <1>5 DEF Net!AfterStop
  <2>2. /\ ensure' \in [Requests -> Net!CallStates] /\ \A x \in Requests \ {c} : ensure'[x] = ensure[x]
        /\ ensure'[c].at = "clearing" /\ ensure'[c].op = ensure[c].op /\ ensure'[c].id = ensure[c].id
        /\ ensure'[c].sup = None
    BY <1>2, <2>1 DEF Net!Inv, Net!TypeOK, Net!CallStates, Net!Steps
  <2>3. Net!HasTurn(c)' /\ Net!Between(c)' /\ Net!Waits(c)' /\ Net!Means(c)'
    BY <1>1, <1>2, <1>5, <2>1, <2>2 DEF Net!HasTurn, Net!Between, Net!Waits, Net!Means
  <2> QED BY <1>1, <1>3, <2>1, <2>2, <2>3, DaemonsCaller DEF Net!Inv, Net!TypeOK
<1> QED BY <1>4, <1>5

\* A directory is deleted, under the turn, when its daemon has ended.
LEMMA DaemonsClear ==
  ASSUME Net!Inv, NEW c \in Requests, Net!Clear(c)
  PROVE  Net!Inv'
<1> USE NoneAssumption DEF Net!At
<1>0. PICK id : id = ensure[c].id
  OBVIOUS
<1>1. /\ ensure[c].at = "clearing" /\ Net!Answered(c) /\ UNCHANGED << removed, entries, sup >>
      /\ \/ states' = states \ {id} /\ gone' = gone \cup {id}
         \/ UNCHANGED << states, gone >>
  BY <1>0 DEF Net!Clear
<1>2. /\ id \in Ids /\ id \in removed /\ entries[id] = None /\ turn[id] = c
  <2>1. ensure[c].op \in {"remove", "discard"}
    BY <1>1 DEF Net!Inv, Net!Means, Net!TypeOK, Net!CallStates, Net!Ops
  <2> QED BY <1>0, <1>1, <2>1 DEF Net!Inv, Net!Means, Net!HasTurn, Net!Between
<1>3. gone' \subseteq Ids /\ states' \subseteq states
  BY <1>1, <1>2 DEF Net!Inv, Net!TypeOK
<1>4. \A s \in Supervisors : sup[s].id = id => ~ Net!Lives(s)
  <2> SUFFICES ASSUME NEW s \in Supervisors, sup[s].id = id, Net!Lives(s) PROVE FALSE
    OBVIOUS
  <2>1. PICK x \in Requests : ensure[x].at = "ending" /\ ensure[x].id = id
    BY <1>2 DEF Net!Inv, Net!Known
  <2> QED BY <1>0, <1>1, <2>1, DaemonsTurn
<1>5. ASSUME gone' # gone PROVE Net!GoneOK(id)'
  <2>1. id \notin states'
    BY <1>1, <1>5
  <2>2. ASSUME NEW x \in Requests, ensure'[x].id = id, ensure'[x].at = "starting" PROVE FALSE
    <3>1. x # c /\ ensure'[x] = ensure[x]
      BY <1>1, <2>2, DaemonsNoCall
    <3> QED BY <1>0, <1>1, <2>2, <3>1, DaemonsTurn
  <2>3. \A s \in Supervisors : Net!Lives(s)' <=> Net!Lives(s)
    BY <1>1 DEF Net!Lives
  <2> QED BY <1>1, <1>2, <1>4, <2>1, <2>2, <2>3 DEF Net!GoneOK
<1>6. \A i \in gone' : i \in gone \/ Net!GoneOK(i)'
  BY <1>1, <1>5
<1> QED BY <1>1, <1>3, <1>6, DaemonsNoCall, DaemonsCaller DEF Net!Inv, Net!TypeOK

\* A caller is dropped: its supervisor is aborted with it.
LEMMA DaemonsGoAway ==
  ASSUME Net!Inv, NEW c \in Requests, Net!GoAway(c)
  PROVE  Net!Inv'
<1> USE NoneAssumption DEF Net!At
<1> DEFINE s == ensure[c].sup
<1>1. /\ Net!Answered(c) /\ UNCHANGED << removed, entries, gone >> /\ states' \subseteq states
      /\ sup' = IF ensure[c].at = "ending" /\ sup[s].phase # "free"
                  THEN [sup EXCEPT ![s].phase = "aborted"] ELSE sup
  BY DEF Net!GoAway
<1>2. /\ sup' \in [Supervisors -> Net!TaskStates]
      /\ \A x \in Supervisors :
           \/ sup'[x] = sup[x]
           \/ /\ sup'[x].phase = "aborted" /\ sup'[x].id = sup[x].id
              /\ sup[x].cancelled /\ sup'[x].cancelled /\ sup[x].phase # "free"
      /\ ensure[c].at = "ending" => sup'[s].phase \in {"free", "aborted"}
  <2>1. CASE ensure[c].at = "ending" /\ sup[s].phase # "free"
    <3>1. /\ sup' = [sup EXCEPT ![s].phase = "aborted"] /\ s \in Supervisors
          /\ sup[s].cancelled /\ sup[s] \in Net!TaskStates
      BY <1>1, <2>1 DEF Net!Inv, Net!Waits, Net!TypeOK
    <3>2. /\ sup'[s].phase = "aborted" /\ sup'[s].id = sup[s].id
          /\ sup'[s].cancelled = sup[s].cancelled
          /\ \A x \in Supervisors \ {s} : sup'[x] = sup[x]
      BY <3>1 DEF Net!Inv, Net!TypeOK, Net!TaskStates
    <3>3. sup' = [sup EXCEPT ![s].phase = "aborted"]
      BY <3>1
    <3>4. sup' \in [Supervisors -> Net!TaskStates]
      BY <3>3 DEF Net!Inv, Net!TypeOK, Net!TaskStates, Net!Phases
    <3> QED BY <2>1, <3>1, <3>2, <3>4
  <2>2. CASE ~ (ensure[c].at = "ending" /\ sup[s].phase # "free")
    BY <1>1, <2>2 DEF Net!Inv, Net!TypeOK
  <2> QED BY <2>1, <2>2
<1> QED BY <1>1, <1>2, DaemonsNoCall, DaemonsCaller DEF Net!Inv, Net!TypeOK

\* `start` puts a new supervisor in the map, where there was none.
LEMMA DaemonsStart ==
  ASSUME Net!Inv, NEW c \in Requests, Net!Start(c)
  PROVE  Net!Inv'
<1> USE NoneAssumption DEF Net!At
<1> DEFINE id == ensure[c].id
<1>1. PICK s \in Supervisors :
        /\ sup[s].phase = "free" /\ \A k \in Requests : ensure[k].sup # s
        /\ sup' = [sup EXCEPT ![s] = [phase |-> "starting", id |-> id, cancelled |-> FALSE]]
        /\ entries' = [entries EXCEPT ![id] = s]
  BY DEF Net!Start
<1>2. /\ ensure[c].at = "starting" /\ UNCHANGED << removed, states, gone >>
      /\ IF ensure[c].op = "ensure" THEN Net!Answered(c) ELSE Net!Goes(c, "logout") /\ UNCHANGED turn
  BY DEF Net!Start
<1>3. /\ id \in Ids /\ turn[id] = c /\ entries[id] = None /\ ensure[c].sup = None
      /\ ensure[c].op \in {"remove", "discard"} => id \in removed
      /\ ensure[c].op \in Net!Ops /\ id \notin gone
  BY <1>2 DEF Net!Inv, Net!HasTurn, Net!Between, Net!Waits, Net!Means, Net!TypeOK, Net!CallStates,
     Net!GoneOK
<1>4. /\ ensure' \in [Requests -> Net!CallStates] /\ \A x \in Requests \ {c} : ensure'[x] = ensure[x]
      /\ turn' \in [Ids -> Requests \cup {None}]
      /\ \A i \in Ids : turn'[i] = turn[i] \/ turn[i] \in {c, None}
      /\ ensure'[c].at \in {"idle", "logout"}
      /\ Net!HasTurn(c)' /\ Net!Waits(c)' /\ Net!Means(c)'
  <2>1. CASE ensure[c].op = "ensure"
    BY <1>2, <2>1, DaemonsNoCall
  <2>2. CASE ensure[c].op # "ensure"
    <3>1. /\ ensure' \in [Requests -> Net!CallStates] /\ \A x \in Requests \ {c} : ensure'[x] = ensure[x]
          /\ ensure'[c].at = "logout" /\ ensure'[c].op = ensure[c].op /\ ensure'[c].id = id
          /\ ensure'[c].sup = None /\ turn' = turn
      BY <1>2, <1>3, <2>2, DaemonsGoes DEF Net!Steps
    <3> QED BY <1>2, <1>3, <2>2, <3>1 DEF Net!HasTurn, Net!Waits, Net!Means, Net!Inv, Net!TypeOK
  <2> QED BY <2>1, <2>2
<1>5. /\ sup'[s].phase = "starting" /\ sup'[s].id = id /\ ~ sup'[s].cancelled
      /\ \A x \in Supervisors \ {s} : sup'[x] = sup[x]
      /\ entries'[id] = s /\ \A i \in Ids \ {id} : entries'[i] = entries[i]
  BY <1>1, <1>3 DEF Net!Inv, Net!TypeOK
<1>6. Net!TypeOK'
  <2>1. [phase |-> "starting", id |-> id, cancelled |-> FALSE] \in Net!TaskStates
    BY <1>3, Zenon DEF Net!TaskStates, Net!Phases
  <2> QED BY <1>1, <1>2, <1>4, <2>1 DEF Net!Inv, Net!TypeOK
<1>7. ASSUME NEW x \in Requests
      PROVE  Net!HasTurn(x)' /\ Net!Between(x)' /\ Net!Waits(x)' /\ Net!Means(x)'
  <2>1. CASE x = c
    BY <1>4, <2>1 DEF Net!Between
  <2>2. CASE x # c
    <3>1. ensure'[x] = ensure[x] /\ ensure[x].sup # s
      BY <1>1, <1>4, <2>2
    <3>2. Net!HasTurn(x)'
      BY <1>4, <2>2, <3>1 DEF Net!Inv, Net!HasTurn
    <3>3. Net!Between(x)'
      <4> SUFFICES ASSUME ensure[x].at \in {"starting", "ending", "clearing"}
                   PROVE  entries'[ensure[x].id] = None
        BY <3>1 DEF Net!Between
      <4>1. ensure[x].id # id
        BY <1>2, <2>2, DaemonsTurn
      <4> QED BY <1>5, <4>1 DEF Net!Inv, Net!Between, Net!HasTurn
    <3>4. Net!Waits(x)'
      BY <1>5, <3>1 DEF Net!Inv, Net!Waits
    <3> QED BY <1>2, <3>1, <3>2, <3>3, <3>4 DEF Net!Inv, Net!Means
  <2> QED BY <2>1, <2>2
<1>8. ASSUME NEW i \in Ids PROVE Net!EntryOK(i)'
  <2>1. CASE i = id
    BY <1>5, <2>1 DEF Net!EntryOK
  <2>2. CASE i # id
    BY <1>1, <1>5, <2>2 DEF Net!Inv, Net!EntryOK, Net!TypeOK
  <2> QED BY <2>1, <2>2
<1>9. ASSUME NEW x \in Supervisors PROVE Net!Known(x)'
  <2>1. CASE x = s
    BY <1>3, <1>5, <2>1 DEF Net!Known
  <2>2. CASE x # s
    <3> SUFFICES ASSUME Net!Lives(x)' PROVE Net!Known(x)'
      BY DEF Net!Known
    <3>1. sup'[x] = sup[x] /\ Net!Lives(x) /\ Net!Known(x)
      BY <1>5, <2>2 DEF Net!Inv, Net!Lives
    <3>2. entries[sup[x].id] = x => entries'[sup[x].id] = x
      BY <1>3, <1>5, <3>1 DEF Net!Known
    <3>3. \A k \in Requests : ensure[k].at = "ending" => ensure'[k] = ensure[k]
      BY <1>2, <1>4
    <3> QED BY <3>1, <3>2, <3>3 DEF Net!Known
  <2> QED BY <2>1, <2>2
<1>10. ASSUME NEW i \in gone' PROVE Net!GoneOK(i)'
  <2>1. i \in gone /\ i # id /\ i \in Ids /\ Net!GoneOK(i)
    BY <1>2, <1>3 DEF Net!Inv, Net!TypeOK
  <2>2. \A x \in Supervisors : sup'[x].id = i => ~ Net!Lives(x)'
    BY <1>5, <2>1 DEF Net!GoneOK, Net!Lives
  <2> QED BY <1>2, <1>4, <1>5, <2>1, <2>2 DEF Net!GoneOK
<1> QED BY <1>6, <1>7, <1>8, <1>9, <1>10 DEF Net!Inv

\* `stop_daemon` takes the supervisor out of the map and tells it to end.
LEMMA DaemonsStop ==
  ASSUME Net!Inv, NEW c \in Requests, Net!StopDaemon(c)
  PROVE  Net!Inv'
<1> USE NoneAssumption DEF Net!At
<1>1. PICK id, s : id = ensure[c].id /\ s = entries[id]
  OBVIOUS
<1>2. /\ ensure[c].at = "stopping" /\ UNCHANGED << removed, states, gone >>
      /\ s = None => /\ IF ensure[c].op = "stop" THEN Net!Answered(c)
                          ELSE Net!Goes(c, "clearing") /\ UNCHANGED turn
                     /\ UNCHANGED << entries, sup >>
      /\ s # None => /\ entries' = [entries EXCEPT ![id] = None]
                     /\ sup' = [sup EXCEPT ![s].cancelled = TRUE]
                     /\ ensure' = [ensure EXCEPT ![c].at = "ending", ![c].sup = s]
                     /\ UNCHANGED turn
  BY <1>1 DEF Net!StopDaemon
<1>3. /\ id \in Ids /\ turn[id] = c /\ ensure[c].sup = None /\ ensure[c].op # "ensure"
      /\ ensure[c].op \in {"remove", "discard"} => id \in removed
      /\ ensure[c] \in Net!CallStates /\ s \in Supervisors \cup {None}
  BY <1>1, <1>2 DEF Net!Inv, Net!HasTurn, Net!Waits, Net!Means, Net!TypeOK
<1>4. CASE s = None
  <2>1. CASE ensure[c].op = "stop"
    BY <1>2, <1>4, <2>1, DaemonsNoCall, DaemonsCaller DEF Net!Inv, Net!TypeOK
  <2>2. CASE ensure[c].op # "stop"
    <3>1. /\ ensure' \in [Requests -> Net!CallStates] /\ \A x \in Requests \ {c} : ensure'[x] = ensure[x]
          /\ ensure'[c].at = "clearing" /\ ensure'[c].op = ensure[c].op /\ ensure'[c].id = id
          /\ ensure'[c].sup = None /\ turn' = turn /\ UNCHANGED << entries, sup >>
      BY <1>1, <1>2, <1>3, <1>4, <2>2, DaemonsGoes DEF Net!Steps
    <3>2. Net!HasTurn(c)' /\ Net!Between(c)' /\ Net!Waits(c)' /\ Net!Means(c)'
      BY <1>1, <1>2, <1>3, <1>4, <2>2, <3>1 DEF Net!HasTurn, Net!Between, Net!Waits, Net!Means
    <3> QED BY <1>2, <3>1, <3>2, DaemonsCaller DEF Net!Inv, Net!TypeOK
  <2> QED BY <2>1, <2>2
<1>5. CASE s # None
  <2>1. /\ entries' = [entries EXCEPT ![id] = None] /\ turn' = turn
        /\ sup' = [sup EXCEPT ![s].cancelled = TRUE]
        /\ ensure' = [ensure EXCEPT ![c].at = "ending", ![c].sup = s]
    BY <1>2, <1>5
  <2>2. /\ s \in Supervisors /\ sup[s] \in Net!TaskStates /\ sup[s].id = id
        /\ sup[s].phase \in {"starting", "running", "waiting"}
    BY <1>1, <1>3, <1>5 DEF Net!Inv, Net!TypeOK, Net!EntryOK
  <2>3. /\ ensure' \in [Requests -> Net!CallStates] /\ \A x \in Requests \ {c} : ensure'[x] = ensure[x]
        /\ ensure'[c].at = "ending" /\ ensure'[c].op = ensure[c].op /\ ensure'[c].id = id
        /\ ensure'[c].sup = s
    BY <1>1, <1>3, <2>1, <2>2 DEF Net!Inv, Net!TypeOK, Net!CallStates, Net!Steps
  <2>4. /\ sup'[s].phase = sup[s].phase /\ sup'[s].id = sup[s].id /\ sup'[s].cancelled
        /\ \A x \in Supervisors \ {s} : sup'[x] = sup[x]
    BY <2>1, <2>2 DEF Net!Inv, Net!TypeOK, Net!TaskStates
  <2>5. /\ entries'[id] = None /\ \A i \in Ids \ {id} : entries'[i] = entries[i]
        /\ entries' \in [Ids -> Supervisors \cup {None}]
    BY <1>3, <2>1 DEF Net!Inv, Net!TypeOK
  <2>6. Net!TypeOK'
    <3>1. sup' \in [Supervisors -> Net!TaskStates]
      BY <2>1 DEF Net!Inv, Net!TypeOK, Net!TaskStates
    <3> QED BY <1>2, <2>1, <2>3, <2>5, <3>1 DEF Net!Inv, Net!TypeOK
  <2>7. ASSUME NEW x \in Requests
        PROVE  Net!HasTurn(x)' /\ Net!Between(x)' /\ Net!Waits(x)' /\ Net!Means(x)'
    <3>1. CASE x = c
      BY <1>2, <1>3, <2>1, <2>2, <2>3, <2>4, <2>5, <3>1
         DEF Net!HasTurn, Net!Between, Net!Waits, Net!Means
    <3>2. CASE x # c
      <4>1. ensure'[x] = ensure[x]
        BY <2>3, <3>2
      <4>2. Net!HasTurn(x)' /\ Net!Means(x)'
        BY <1>2, <2>1, <4>1 DEF Net!Inv, Net!HasTurn, Net!Means
      <4>3. Net!Between(x)'
        BY <2>5, <4>1 DEF Net!Inv, Net!HasTurn, Net!Between
      <4>4. Net!Waits(x)'
        BY <2>4, <4>1 DEF Net!Inv, Net!Waits
      <4> QED BY <4>2, <4>3, <4>4
    <3> QED BY <3>1, <3>2
  <2>8. ASSUME NEW i \in Ids PROVE Net!EntryOK(i)'
    <3>1. CASE i = id
      BY <2>5, <3>1 DEF Net!EntryOK
    <3>2. CASE i # id
      <4>1. entries'[i] = entries[i] /\ entries[i] # s
        BY <2>2, <2>5, <3>2 DEF Net!Inv, Net!EntryOK
      <4> QED BY <2>4, <4>1 DEF Net!Inv, Net!EntryOK, Net!TypeOK
    <3> QED BY <3>1, <3>2
  <2>9. ASSUME NEW x \in Supervisors PROVE Net!Known(x)'
    <3>1. CASE x = s
      BY <1>3, <2>2, <2>3, <2>4, <3>1 DEF Net!Known
    <3>2. CASE x # s
      <4> SUFFICES ASSUME Net!Lives(x)' PROVE Net!Known(x)'
        BY DEF Net!Known
      <4>1. sup'[x] = sup[x] /\ Net!Lives(x) /\ Net!Known(x)
        BY <2>4, <3>2 DEF Net!Inv, Net!Lives
      <4>2. entries[sup[x].id] = x => entries'[sup[x].id] = x
        BY <1>1, <2>5, <3>2, <4>1 DEF Net!Known
      <4>3. \A k \in Requests : ensure[k].at = "ending" => ensure'[k] = ensure[k]
        BY <1>2, <2>3
      <4> QED BY <4>1, <4>2, <4>3 DEF Net!Known
    <3> QED BY <3>1, <3>2
  <2>10. ASSUME NEW i \in gone' PROVE Net!GoneOK(i)'
    <3>1. i \in gone /\ i \in Ids /\ Net!GoneOK(i)
      BY <1>2 DEF Net!Inv, Net!TypeOK
    <3>2. \A x \in Supervisors : sup'[x].id = i => ~ Net!Lives(x)'
      BY <2>4, <3>1 DEF Net!GoneOK, Net!Lives
    <3> QED BY <1>2, <2>3, <2>5, <3>1, <3>2 DEF Net!GoneOK
  <2> QED BY <2>6, <2>7, <2>8, <2>9, <2>10 DEF Net!Inv
<1> QED BY <1>4, <1>5

\* The loop of `supervise`: a supervisor that was not told to end keeps its
\* place, one that was comes to its end.
LEMMA DaemonsSupervise ==
  ASSUME Net!Inv, NEW s \in Supervisors, Net!SupervisorStep(s) \/ Net!Dies(s)
  PROVE  Net!Inv'
<1> USE NoneAssumption DEF Net!At
<1>1. UNCHANGED << removed, entries, turn, ensure, gone >>
  BY DEF Net!SupervisorStep, Net!Spawn, Net!Retry, Net!Cancel, Net!Exits, Net!Dies
<1>2. sup[s] \in Net!TaskStates /\ sup \in [Supervisors -> Net!TaskStates]
  BY DEF Net!Inv, Net!TypeOK
<1>3. \/ /\ \E p \in Net!Phases \ {"free", "aborted"} :
             /\ sup' = [sup EXCEPT ![s].phase = p]
             /\ p \in {"starting", "running", "waiting"} \/ sup[s].cancelled
          /\ Net!Lives(s)
      \/ /\ sup' = [sup EXCEPT ![s] = Net!NoSupervisor]
         /\ sup[s].cancelled \/ sup[s].phase \in {"terminating", "aborted"}
  BY DEF Net!SupervisorStep, Net!Spawn, Net!Retry, Net!Cancel, Net!Exits, Net!Dies, Net!Becomes,
     Net!Phases, Net!Lives
<1>4. Net!NoSupervisor \in Net!TaskStates /\ Net!NoSupervisor.phase = "free"
  BY Zenon DEF Net!NoSupervisor, Net!TaskStates, Net!Phases
<1>5. /\ \A x \in Supervisors \ {s} : sup'[x] = sup[x]
      /\ \/ /\ sup'[s].id = sup[s].id /\ sup'[s].cancelled = sup[s].cancelled
            /\ Net!Lives(s) /\ sup'[s].phase # "free"
            /\ sup'[s].phase \in {"starting", "running", "waiting"} \/ sup[s].cancelled
         \/ /\ sup'[s].phase = "free"
            /\ sup[s].cancelled \/ sup[s].phase \in {"terminating", "aborted"}
  <2>1. ASSUME NEW p \in Net!Phases \ {"free", "aborted"}, sup' = [sup EXCEPT ![s].phase = p]
        PROVE  /\ sup'[s].id = sup[s].id /\ sup'[s].cancelled = sup[s].cancelled
               /\ sup'[s].phase = p /\ \A x \in Supervisors \ {s} : sup'[x] = sup[x]
    BY <1>2, <2>1 DEF Net!TaskStates
  <2>2. CASE /\ sup' = [sup EXCEPT ![s] = Net!NoSupervisor]
             /\ sup[s].cancelled \/ sup[s].phase \in {"terminating", "aborted"}
    BY <1>2, <1>4, <2>2
  <2>3. CASE /\ \E p \in Net!Phases \ {"free", "aborted"} :
                   /\ sup' = [sup EXCEPT ![s].phase = p]
                   /\ p \in {"starting", "running", "waiting"} \/ sup[s].cancelled
             /\ Net!Lives(s)
    BY <2>1, <2>3
  <2> QED BY <1>3, <2>2, <2>3
<1>6. sup' \in [Supervisors -> Net!TaskStates]
  <2>1. ASSUME NEW p \in Net!Phases \ {"free", "aborted"}, sup' = [sup EXCEPT ![s].phase = p]
        PROVE  sup' \in [Supervisors -> Net!TaskStates]
    BY <1>2, <2>1 DEF Net!TaskStates, Net!Phases
  <2> QED BY <1>2, <1>3, <1>4, <2>1
<1>7. states' \in {states, states \cup {sup[s].id}} /\ (states' # states => Net!Lives(s))
  BY DEF Net!SupervisorStep, Net!Spawn, Net!Retry, Net!Cancel, Net!Exits, Net!Dies, Net!Lives
<1>8. Net!Lives(s) => sup[s].id \in Ids
  BY DEF Net!Inv, Net!Known
<1>9. Net!TypeOK'
  BY <1>1, <1>6, <1>7, <1>8 DEF Net!Inv, Net!TypeOK
<1>10. \A c \in Requests : Net!HasTurn(c)' /\ Net!Between(c)' /\ Net!Waits(c)' /\ Net!Means(c)'
  <2>1. \A c \in Requests : Net!HasTurn(c)' /\ Net!Between(c)' /\ Net!Means(c)'
    BY <1>1 DEF Net!Inv, Net!HasTurn, Net!Between, Net!Means
  <2>2. \A c \in Requests : Net!Waits(c)'
    BY <1>1, <1>5 DEF Net!Inv, Net!Waits, Net!Lives
  <2> QED BY <2>1, <2>2
<1>11. ASSUME NEW i \in Ids PROVE Net!EntryOK(i)'
  <2>1. Net!EntryOK(i) /\ (entries[i] # None => entries[i] \in Supervisors)
    BY DEF Net!Inv, Net!TypeOK
  <2> QED BY <1>1, <1>5, <2>1 DEF Net!EntryOK
<1>12. ASSUME NEW x \in Supervisors PROVE Net!Known(x)'
  <2> SUFFICES ASSUME Net!Lives(x)' PROVE Net!Known(x)'
    BY DEF Net!Known
  <2>1. Net!Lives(x) /\ Net!Known(x) /\ sup'[x].id = sup[x].id /\ sup'[x].cancelled = sup[x].cancelled
    BY <1>5 DEF Net!Inv, Net!Lives
  <2> QED BY <1>1, <2>1 DEF Net!Known
<1>13. ASSUME NEW i \in gone' PROVE Net!GoneOK(i)'
  <2>1. i \in gone /\ Net!GoneOK(i)
    BY <1>1 DEF Net!Inv
  <2>2. \A x \in Supervisors : sup'[x].id = i => ~ Net!Lives(x)'
    BY <1>5, <2>1 DEF Net!GoneOK, Net!Lives
  <2>3. i \notin states'
    BY <1>7, <2>1 DEF Net!GoneOK
  <2> QED BY <1>1, <2>1, <2>2, <2>3 DEF Net!GoneOK
<1> QED BY <1>9, <1>10, <1>11, <1>12, <1>13 DEF Net!Inv

\* `forget_removals`, when no request is under way.
LEMMA DaemonsForget ==
  ASSUME Net!Inv, Net!ForgetRemovals
  PROVE  Net!Inv'
<1>1. /\ UNCHANGED << entries, sup, turn, ensure, states >> /\ removed' = {} /\ gone' = {}
      /\ \A c \in Requests : ensure[c].at = "idle"
  BY DEF Net!ForgetRemovals, Net!At
<1>2. Net!TypeOK'
  BY <1>1 DEF Net!Inv, Net!TypeOK
<1>3. \A c \in Requests : Net!HasTurn(c)' /\ Net!Between(c)' /\ Net!Waits(c)' /\ Net!Means(c)'
  BY <1>1 DEF Net!Inv, Net!HasTurn, Net!Between, Net!Waits, Net!Means, Net!At
<1> QED BY <1>1, <1>2, <1>3 DEF Net!Inv, Net!EntryOK, Net!Known, Net!Lives, Net!At

\* The turns, the map and the supervisors stay as the invariant says.
LEMMA DaemonsNext == Net!Inv /\ [Net!Next]_netVars => Net!Inv'
<1> SUFFICES ASSUME Net!Inv, [Net!Next]_netVars PROVE Net!Inv'
  OBVIOUS
<1>1. CASE UNCHANGED netVars
  BY <1>1 DEF netVars, Net!Inv, Net!TypeOK, Net!HasTurn, Net!Between, Net!Waits, Net!Means,
     Net!EntryOK, Net!Known, Net!Lives, Net!GoneOK, Net!At
<1>2. CASE Net!Next
  BY <1>2, DaemonsBegin, DaemonsHold, DaemonsAfter, DaemonsClear, DaemonsGoAway, DaemonsStart,
     DaemonsStop, DaemonsSupervise, DaemonsForget DEF Net!Next, Net!CallerStep
<1> QED BY <1>1, <1>2

\* Turns, entries and supervisors of the tailnets agree, whatever requests overlap.
LEMMA DaemonsInvariant == Spec => []Net!Inv
<1>1. Init => Net!Inv
  BY DaemonsInit DEF Init
<1>2. Net!Inv /\ [Next]_allVars => Net!Inv'
  <2>1. [Next]_allVars => [Net!Next]_netVars
    BY DEF Next, Moves, allVars, netVars
  <2> QED BY <2>1, DaemonsNext
<1> QED BY <1>1, <1>2, PTL DEF Spec

\* A tailnet has one daemon, and none once its removal was answered, for any
\* number of tailnets, of requests that start, stop and remove them, and of
\* supervisors that are still ending (`ensure_running`, `stop`, `remove`).
THEOREM DaemonsAreAsAsked == Spec => []DaemonAsAsked
<1>1. Net!Inv => Net!OneDaemon
  <2> SUFFICES ASSUME Net!Inv, NEW s1 \in Supervisors, NEW s2 \in Supervisors, s1 # s2,
                      sup[s1].id = sup[s2].id, Net!Lives(s1), Net!Lives(s2)
               PROVE  FALSE
    BY DEF Net!OneDaemon, Net!Lives
  <2> DEFINE id == sup[s1].id
             Ending(s) == \E c \in Requests :
                            ensure[c].at = "ending" /\ ensure[c].sup = s /\ ensure[c].id = id
  <2>1. (entries[id] = s1 \/ Ending(s1)) /\ (entries[id] = s2 \/ Ending(s2))
    BY DEF Net!Inv, Net!Known, Net!At
  <2>2. \A s \in Supervisors : Ending(s) => entries[id] = None
    BY DEF Net!Inv, Net!Between
  <2>3. ~ (Ending(s1) /\ Ending(s2))
    BY DaemonsTurn
  <2> QED BY <2>1, <2>2, <2>3, NoneAssumption
<1>2. Net!Inv => Net!RemovedStaysDown
  BY DEF Net!Inv, Net!GoneOK, Net!RemovedStaysDown, Net!Lives
<1>3. Net!Inv => DaemonAsAsked
  BY <1>1, <1>2 DEF DaemonAsAsked
<1> QED BY <1>3, DaemonsInvariant, PTL

-----------------------------------------------------------------------------
(* SendMail.                                                               *)

\* The places that are counted are finitely many.
LEMMA MailCardinality == ASSUME NEW S PROVE Mail!Cardinality(S) = Cardinality(S)
  BY DEF Mail!Cardinality, Cardinality, Mail!IsFiniteSet, IsFiniteSet

\* Nothing was sent when the server starts.
LEMMA MailInit == Mail!Init => Mail!Inv
<1> SUFFICES ASSUME Mail!Init PROVE Mail!Inv
  OBVIOUS
<1> USE MailAssumption DEF Mail!Init, Mail!At
<1>1. Mail!NoCall \in Mail!CallStates
  BY Zenon DEF Mail!NoCall, Mail!CallStates, Mail!Steps, Mail!Names
<1>2. \A m \in Mails : call[m].at = "idle" /\ ~ call[m].place
  BY DEF Mail!NoCall
<1>3. Mail!TypeOK
  BY <1>1 DEF Mail!TypeOK
<1>4. Mail!Places = {}
  BY <1>2 DEF Mail!Places
<1>5. taken = Mail!Cardinality(Mail!Places)
  BY <1>4, MailCardinality, FS_EmptySet
<1> QED BY <1>2, <1>3, <1>5 DEF Mail!Inv, Mail!MailOK, Mail!PlaceOK

\* What a step of the call of one mail has to show: its place comes or goes with
\* the count.
LEMMA MailStep ==
  ASSUME Mail!Inv, NEW m \in Mails,
         Mail!TypeOK',
         \A x \in Mails \ {m} : /\ call'[x] = call[x] /\ told'[x] = told[x]
                               /\ calls'[x] = calls[x] /\ delivered'[x] = delivered[x],
         Mail!MailOK(m)', Mail!PlaceOK(m)',
         \/ (call'[m].place <=> call[m].place) /\ taken' = taken
         \/ ~ call[m].place /\ call'[m].place /\ taken' = taken + 1
         \/ call[m].place /\ ~ call'[m].place /\ taken' = IF taken > 1 THEN taken - 1 ELSE 0
  PROVE  Mail!Inv'
<1> USE MailAssumption
<1>1. IsFiniteSet(Mail!Places) /\ taken = Cardinality(Mail!Places)
  BY FS_Subset, MailCardinality DEF Mail!Inv, Mail!Places
<1>2. \A x \in Mails : Mail!MailOK(x)' /\ Mail!PlaceOK(x)'
  BY DEF Mail!Inv, Mail!MailOK, Mail!PlaceOK, Mail!At
<1>3. taken' = Cardinality(Mail!Places')
  <2>1. CASE (call'[m].place <=> call[m].place) /\ taken' = taken
    <3>1. Mail!Places' = Mail!Places
      BY <2>1 DEF Mail!Places
    <3> QED BY <1>1, <2>1, <3>1
  <2>2. CASE ~ call[m].place /\ call'[m].place /\ taken' = taken + 1
    <3>1. Mail!Places' = Mail!Places \cup {m} /\ m \notin Mail!Places
      BY <2>2 DEF Mail!Places
    <3>2. Cardinality(Mail!Places \cup {m}) = Cardinality(Mail!Places) + 1
      BY <1>1, <3>1, FS_AddElement, Zenon
    <3> QED BY <1>1, <2>2, <3>1, <3>2
  <2>3. CASE /\ call[m].place /\ ~ call'[m].place
             /\ taken' = IF taken > 1 THEN taken - 1 ELSE 0
    <3>1. Mail!Places' = Mail!Places \ {m} /\ m \in Mail!Places
      BY <2>3 DEF Mail!Places
    <3>2. Cardinality(Mail!Places \ {m}) = Cardinality(Mail!Places) - 1
      BY <1>1, <3>1, FS_RemoveElement, Zenon
    <3>3. Cardinality(Mail!Places) \in Nat /\ Cardinality(Mail!Places \ {m}) \in Nat
      BY <1>1, FS_CardinalityType, FS_Subset
    <3> QED BY <1>1, <2>3, <3>1, <3>2, <3>3
  <2> QED BY <2>1, <2>2, <2>3
<1>4. taken' = Mail!Cardinality(Mail!Places')
  BY <1>3, MailCardinality
<1> QED BY <1>2, <1>4 DEF Mail!Inv

\* The call returns, and what it tells the agent is true.
LEMMA MailTell ==
  ASSUME Mail!Inv, NEW m \in Mails, NEW what, Mail!Tell(m, what),
         UNCHANGED << calls, delivered >>, remembered' \in Mail!Names \cup {None},
         call[m].at # "idle",
         what \in {"nothing", "sent", "not_sent"} \cup Mail!Lost,
         what = "sent" => delivered[m] = 1, what = "not_sent" => delivered[m] = 0
  PROVE  Mail!Inv'
<1> USE MailAssumption
<1>1. Mail!NoCall \in Mail!CallStates
  BY Zenon DEF Mail!NoCall, Mail!CallStates, Mail!Steps, Mail!Names
<1>2. /\ call' = [call EXCEPT ![m] = Mail!NoCall] /\ told' = [told EXCEPT ![m] = what]
      /\ taken' = IF ~ call[m].place THEN taken ELSE IF taken > 1 THEN taken - 1 ELSE 0
  BY DEF Mail!Tell, Mail!Released
<1>3. /\ call'[m] = Mail!NoCall /\ told'[m] = what
      /\ \A x \in Mails \ {m} : call'[x] = call[x] /\ told'[x] = told[x]
  BY <1>2 DEF Mail!Inv, Mail!TypeOK
<1>4. call'[m].at = "idle" /\ ~ call'[m].place
  BY <1>3 DEF Mail!NoCall
<1>5. taken' \in 0 .. max
  BY <1>2 DEF Mail!Inv, Mail!TypeOK
<1>6. Mail!TypeOK'
  BY <1>1, <1>2, <1>5 DEF Mail!Inv, Mail!TypeOK
<1>7. Mail!MailOK(m)' /\ Mail!PlaceOK(m)'
  BY <1>3, <1>4 DEF Mail!Inv, Mail!MailOK, Mail!PlaceOK, Mail!At
<1> QED BY <1>2, <1>3, <1>4, <1>6, <1>7, MailStep

\* The call goes on, and keeps its place.
LEMMA MailGoes ==
  ASSUME Mail!Inv, NEW m \in Mails, UNCHANGED << told, calls, taken, delivered >>,
         remembered' \in Mail!Names \cup {None},
         call' \in [Mails -> Mail!CallStates], \A x \in Mails \ {m} : call'[x] = call[x],
         call[m].at # "idle", call'[m].place <=> call[m].place,
         call'[m].at \notin {"idle", "attach", "reply"},
         call'[m].at = "save" => call[m].at = "reply" /\ call[m].ok,
         call'[m].at # "save" => call[m].at # "reply" /\ call[m].at # "save"
  PROVE  Mail!Inv'
<1>1. Mail!TypeOK'
  BY DEF Mail!Inv, Mail!TypeOK
<1>2. Mail!MailOK(m)' /\ Mail!PlaceOK(m)'
  BY DEF Mail!Inv, Mail!MailOK, Mail!PlaceOK, Mail!At
<1> QED BY <1>1, <1>2, MailStep

\* A step that changes nothing of a call but where it is.
LEMMA MailGoto ==
  ASSUME Mail!Inv, NEW m \in Mails, NEW step \in Mail!Steps, Mail!Goto(m, step)
  PROVE  /\ call' \in [Mails -> Mail!CallStates] /\ \A x \in Mails \ {m} : call'[x] = call[x]
         /\ call'[m].at = step /\ call'[m].place = call[m].place /\ call'[m].ok = call[m].ok
<1>1. call \in [Mails -> Mail!CallStates]
  BY DEF Mail!Inv, Mail!TypeOK
<1>2. call' = [call EXCEPT ![m] = [call[m] EXCEPT !.at = step]]
  BY DEF Mail!Goto
<1>3. [call[m] EXCEPT !.at = step] \in Mail!CallStates
  BY <1>1 DEF Mail!CallStates
<1> QED BY <1>1, <1>2, <1>3 DEF Mail!CallStates

\* The sign-in begins.
LEMMA MailBeginSignIn ==
  ASSUME Mail!Inv, NEW m \in Mails, Mail!BeginSignIn(m), call[m].at \in {"attach", "files"},
         UNCHANGED << told, taken, calls, remembered, delivered >>
  PROVE  Mail!Inv'
<1>1. PICK left \in SUBSET Mail!Names :
        call' = [call EXCEPT ![m].at = "sign_in", ![m].left = left]
  BY DEF Mail!BeginSignIn, Mail!Inv, Mail!TypeOK
<1>2. call \in [Mails -> Mail!CallStates] /\ remembered' \in Mail!Names \cup {None}
  BY DEF Mail!Inv, Mail!TypeOK
<1>3. /\ call' \in [Mails -> Mail!CallStates] /\ \A x \in Mails \ {m} : call'[x] = call[x]
      /\ call'[m].at = "sign_in" /\ call'[m].place = call[m].place
  BY <1>1, <1>2 DEF Mail!CallStates, Mail!Steps
<1> QED BY <1>2, <1>3, MailGoes

\* An agent calls the tool, for a mail it believes not sent.
LEMMA MailCallTool ==
  ASSUME Mail!Inv, NEW m \in Mails, Mail!CallTool(m)
  PROVE  Mail!Inv'
<1> USE MailAssumption DEF Mail!At
<1>1. /\ call[m].at = "idle" /\ calls[m] < MaxCalls /\ (told[m] = "not_sent" \/ calls[m] = 0)
      /\ calls' = [calls EXCEPT ![m] = calls[m] + 1]
      /\ UNCHANGED << taken, remembered, delivered >>
      /\ \/ Mail!Goto(m, "attach") /\ told' = [told EXCEPT ![m] = "nothing"]
         \/ told' = [told EXCEPT ![m] = "not_sent"] /\ UNCHANGED call
  BY DEF Mail!CallTool
<1>2. /\ calls \in [Mails -> 0 .. MaxCalls] /\ told \in [Mails -> {"nothing", "sent", "not_sent"} \cup Mail!Lost]
      /\ call \in [Mails -> Mail!CallStates] /\ delivered \in [Mails -> 0 .. MaxCalls]
  BY DEF Mail!Inv, Mail!TypeOK
<1>3. /\ calls' \in [Mails -> 0 .. MaxCalls] /\ calls'[m] > 0
      /\ \A x \in Mails \ {m} : calls'[x] = calls[x] /\ told'[x] = told[x]
      /\ told' \in [Mails -> {"nothing", "sent", "not_sent"} \cup Mail!Lost]
  BY <1>1, <1>2
<1>4. delivered[m] = 0 /\ ~ call[m].place
  BY <1>1, <1>2 DEF Mail!Inv, Mail!MailOK, Mail!PlaceOK
<1>5. CASE Mail!Goto(m, "attach") /\ told' = [told EXCEPT ![m] = "nothing"]
  <2>1. /\ call' \in [Mails -> Mail!CallStates] /\ \A x \in Mails \ {m} : call'[x] = call[x]
        /\ call'[m].at = "attach" /\ call'[m].place = call[m].place /\ told'[m] = "nothing"
    BY <1>2, <1>5, MailGoto DEF Mail!Steps
  <2>2. Mail!TypeOK'
    BY <1>1, <1>3, <2>1 DEF Mail!Inv, Mail!TypeOK
  <2>3. Mail!MailOK(m)' /\ Mail!PlaceOK(m)'
    BY <1>1, <1>3, <1>4, <2>1 DEF Mail!MailOK, Mail!PlaceOK
  <2> QED BY <1>1, <1>3, <2>1, <2>2, <2>3, MailStep
<1>6. CASE told' = [told EXCEPT ![m] = "not_sent"] /\ UNCHANGED call
  <2>1. told'[m] = "not_sent"
    BY <1>2, <1>6
  <2>2. Mail!TypeOK'
    BY <1>1, <1>3, <1>6 DEF Mail!Inv, Mail!TypeOK
  <2>3. Mail!MailOK(m)' /\ Mail!PlaceOK(m)'
    BY <1>1, <1>3, <1>4, <1>6, <2>1 DEF Mail!MailOK, Mail!PlaceOK
  <2> QED BY <1>1, <1>3, <1>6, <2>2, <2>3, MailStep
<1> QED BY <1>1, <1>5, <1>6

\* `with_attachments` takes a place, when there is one.
LEMMA MailAttach ==
  ASSUME Mail!Inv, NEW m \in Mails, Mail!Attach(m) \/ Mail!ReadFiles(m)
  PROVE  Mail!Inv'
<1> USE MailAssumption DEF Mail!At
<1>1. /\ call[m].at \in {"attach", "files"} /\ UNCHANGED << calls, remembered, delivered >>
      /\ delivered[m] = 0 /\ remembered' \in Mail!Names \cup {None}
  BY DEF Mail!Attach, Mail!ReadFiles, Mail!Inv, Mail!MailOK, Mail!TypeOK
<1>2. CASE Mail!BeginSignIn(m) /\ UNCHANGED << told, taken >>
  BY <1>1, <1>2, MailBeginSignIn
<1>3. CASE Mail!Tell(m, "not_sent")
  BY <1>1, <1>3, MailTell
<1>4. CASE /\ taken < max /\ taken' = taken + 1 /\ call[m].at = "attach"
           /\ call' = [call EXCEPT ![m].at = "files", ![m].place = TRUE]
           /\ UNCHANGED told
  <2>1. call \in [Mails -> Mail!CallStates] /\ ~ call[m].place /\ taken' \in 0 .. max
    BY <1>4 DEF Mail!Inv, Mail!TypeOK, Mail!PlaceOK
  <2>2. call' = [call EXCEPT ![m].at = "files", ![m].place = TRUE]
    BY <1>4
  <2>3. /\ call' \in [Mails -> Mail!CallStates] /\ \A x \in Mails \ {m} : call'[x] = call[x]
        /\ call'[m].at = "files"
    BY <2>1, <2>2 DEF Mail!CallStates, Mail!Steps
  <2>4. call'[m].place
    BY <2>1, <2>2 DEF Mail!CallStates
  <2>5. Mail!TypeOK'
    BY <1>1, <1>4, <2>1, <2>3 DEF Mail!Inv, Mail!TypeOK
  <2>6. Mail!MailOK(m)' /\ Mail!PlaceOK(m)'
    BY <1>1, <1>4, <2>3 DEF Mail!Inv, Mail!MailOK, Mail!PlaceOK
  <2> QED BY <1>1, <1>4, <2>1, <2>3, <2>4, <2>5, <2>6, MailStep
<1> QED BY <1>2, <1>3, <1>4 DEF Mail!Attach, Mail!ReadFiles

\* What comes before the message is written may fail, and the mail is not out.
LEMMA MailBefore ==
  ASSUME Mail!Inv, NEW m \in Mails,
         \/ Mail!SignIn(m) \/ Mail!Compose(m) \/ Mail!OpenSmtp(m)
         \/ Mail!Envelope(m, "auth", "envelope") \/ Mail!Envelope(m, "envelope", "data")
  PROVE  Mail!Inv'
<1> USE MailAssumption DEF Mail!At
<1>1. /\ call[m].at \in {"sign_in", "compose", "open", "auth", "envelope"}
      /\ UNCHANGED << calls, delivered >> /\ remembered' \in Mail!Names \cup {None}
  BY DEF Mail!SignIn, Mail!Compose, Mail!OpenSmtp, Mail!Envelope, Mail!Inv, Mail!TypeOK, Mail!Names
<1>2. delivered[m] = 0
  BY <1>1 DEF Mail!Inv, Mail!MailOK
<1>3. ASSUME NEW what \in Mail!Lost \cup {"not_sent"}, Mail!Tell(m, what) PROVE Mail!Inv'
  BY <1>1, <1>2, <1>3, MailTell DEF Mail!Lost
<1>4. ASSUME NEW step \in {"compose", "open", "auth", "envelope", "data"}, Mail!Goto(m, step),
             UNCHANGED << told, taken >>
      PROVE  Mail!Inv'
  <2>1. /\ call' \in [Mails -> Mail!CallStates] /\ \A x \in Mails \ {m} : call'[x] = call[x]
        /\ call'[m].at = step /\ call'[m].place = call[m].place
    BY <1>4, MailGoto DEF Mail!Steps
  <2> QED BY <1>1, <1>4, <2>1, MailGoes
<1>5. CASE Mail!SignIn(m)
  <2>1. ASSUME NEW name, call' = [call EXCEPT ![m].left = call[m].left \ {name}],
               UNCHANGED << told, taken >>
        PROVE  Mail!Inv'
    <3>1. call \in [Mails -> Mail!CallStates] /\ call[m].at = "sign_in"
      BY <1>5 DEF Mail!Inv, Mail!TypeOK, Mail!SignIn
    <3>2. /\ call' \in [Mails -> Mail!CallStates] /\ \A x \in Mails \ {m} : call'[x] = call[x]
          /\ call'[m].at = "sign_in" /\ call'[m].place = call[m].place
      BY <2>1, <3>1 DEF Mail!CallStates
    <3> QED BY <1>1, <2>1, <3>1, <3>2, MailGoes
  <2> QED BY <1>3, <1>4, <1>5, <2>1 DEF Mail!SignIn, Mail!Lost
<1>6. CASE Mail!Compose(m)
  BY <1>3, <1>4, <1>6 DEF Mail!Compose, Mail!Lost
<1>7. CASE Mail!OpenSmtp(m)
  BY <1>3, <1>4, <1>7 DEF Mail!OpenSmtp
<1>8. CASE Mail!Envelope(m, "auth", "envelope") \/ Mail!Envelope(m, "envelope", "data")
  BY <1>3, <1>4, <1>8 DEF Mail!Envelope
<1> QED BY <1>5, <1>6, <1>7, <1>8

\* The message is written: the server has it or has not, and the call knows it
\* only with the answer.
LEMMA MailWrite ==
  ASSUME Mail!Inv, NEW m \in Mails, Mail!WriteMessage(m)
  PROVE  Mail!Inv'
<1> USE MailAssumption DEF Mail!At
<1>1. PICK ok \in BOOLEAN :
        /\ delivered' = [delivered EXCEPT ![m] = delivered[m] + (IF ok THEN 1 ELSE 0)]
        /\ call' = [call EXCEPT ![m].at = "reply", ![m].ok = ok]
  BY DEF Mail!WriteMessage
<1>2. call[m].at = "data" /\ UNCHANGED << told, calls, taken, remembered >>
  BY DEF Mail!WriteMessage
<1>3. /\ call \in [Mails -> Mail!CallStates] /\ delivered \in [Mails -> 0 .. MaxCalls]
      /\ delivered[m] = 0 /\ calls[m] > 0 /\ calls[m] \in 0 .. MaxCalls /\ told[m] = "nothing"
  BY <1>2 DEF Mail!Inv, Mail!TypeOK, Mail!MailOK
<1>4. /\ call' \in [Mails -> Mail!CallStates] /\ \A x \in Mails \ {m} : call'[x] = call[x]
      /\ call'[m].at = "reply" /\ call'[m].place = call[m].place
  BY <1>1, <1>3 DEF Mail!CallStates, Mail!Steps
<1>5. call'[m].ok = ok
  BY <1>1, <1>3 DEF Mail!CallStates
<1>6. /\ delivered'[m] = IF ok THEN 1 ELSE 0
      /\ \A x \in Mails \ {m} : delivered'[x] = delivered[x]
      /\ delivered' \in [Mails -> 0 .. MaxCalls]
  BY <1>1, <1>3
<1>7. Mail!TypeOK'
  BY <1>2, <1>4, <1>6 DEF Mail!Inv, Mail!TypeOK
<1>8. Mail!MailOK(m)' /\ Mail!PlaceOK(m)'
  BY <1>2, <1>3, <1>4, <1>5, <1>6 DEF Mail!MailOK, Mail!PlaceOK
<1> QED BY <1>2, <1>4, <1>6, <1>7, <1>8, MailStep

\* The answer is read, or lost; the copy is saved, or not.
LEMMA MailAfter ==
  ASSUME Mail!Inv, NEW m \in Mails, Mail!ReadReply(m) \/ Mail!SaveCopy(m) \/ Mail!DropCall(m)
  PROVE  Mail!Inv'
<1> USE MailAssumption DEF Mail!At
<1>1. /\ call[m].at # "idle" /\ UNCHANGED << calls, remembered, delivered >>
      /\ remembered' \in Mail!Names \cup {None}
  BY DEF Mail!ReadReply, Mail!SaveCopy, Mail!DropCall, Mail!Inv, Mail!TypeOK
<1>2. CASE Mail!DropCall(m)
  BY <1>1, <1>2, MailTell DEF Mail!DropCall
<1>3. CASE Mail!SaveCopy(m)
  BY <1>1, <1>3, MailTell DEF Mail!SaveCopy, Mail!Inv, Mail!MailOK
<1>4. CASE Mail!ReadReply(m)
  <2>1. call[m].at = "reply" /\ delivered[m] = IF call[m].ok THEN 1 ELSE 0
    BY <1>4 DEF Mail!ReadReply, Mail!Inv, Mail!MailOK
  <2>2. CASE call[m].ok /\ Mail!Goto(m, "save") /\ UNCHANGED << told, taken >>
    <3>1. /\ call' \in [Mails -> Mail!CallStates] /\ \A x \in Mails \ {m} : call'[x] = call[x]
          /\ call'[m].at = "save" /\ call'[m].place = call[m].place
      BY <2>2, MailGoto DEF Mail!Steps
    <3> QED BY <1>1, <2>1, <2>2, <3>1, MailGoes
  <2>3. CASE ~ call[m].ok /\ Mail!Tell(m, "not_sent")
    BY <1>1, <2>1, <2>3, MailTell
  <2>4. ASSUME NEW what \in Mail!Lost, Mail!Tell(m, what) PROVE Mail!Inv'
    BY <1>1, <2>4, MailTell DEF Mail!Lost
  <2> QED BY <1>4, <2>2, <2>3, <2>4 DEF Mail!ReadReply
<1> QED BY <1>2, <1>3, <1>4

\* The calls stay as the invariant says.
LEMMA MailNext == Mail!Inv /\ [Mail!Next]_mailVars => Mail!Inv'
<1> SUFFICES ASSUME Mail!Inv, [Mail!Next]_mailVars PROVE Mail!Inv'
  OBVIOUS
<1>1. CASE UNCHANGED mailVars
  BY <1>1, MailCardinality DEF mailVars, Mail!Inv, Mail!TypeOK, Mail!MailOK, Mail!PlaceOK, Mail!Places, Mail!At
<1>2. CASE Mail!Next
  BY <1>2, MailCallTool, MailAttach, MailBefore, MailWrite, MailAfter DEF Mail!Next, Mail!Step
<1> QED BY <1>1, <1>2

\* What a call of the mail tool says agrees with what the server took.
LEMMA MailInvariant == Spec => []Mail!Inv
<1>1. Init => Mail!Inv
  BY MailInit DEF Init
<1>2. Mail!Inv /\ [Next]_allVars => Mail!Inv'
  <2>1. [Next]_allVars => [Mail!Next]_mailVars
    BY DEF Next, Moves, allVars, mailVars
  <2> QED BY <2>1, MailNext
<1> QED BY <1>1, <1>2, PTL DEF Spec

\* What the agent is told of a mail is true, and nobody sends it twice on the
\* word of the tool, whatever fails and whenever; for any number of mails
\* (`smtp_failure`, `send_message`).
THEOREM MailsAreSentOnce == Spec => []MailSentOnce
<1>1. Mail!Inv => MailSentOnce
  BY DEF Mail!Inv, Mail!MailOK, MailSentOnce, Mail!MailSentOnce
<1> QED BY <1>1, MailInvariant, PTL

-----------------------------------------------------------------------------
(* TailnetRequests.                                                        *)

\* An MCP starts with the secret that was entered for its tailnet.
LEMMA RequestsInit == Req!Init => Req!Inv
<1> SUFFICES ASSUME Req!Init PROVE Req!Inv
  OBVIOUS
<1> USE TailnetsAssumption, TwoFactorAssumption DEF Req!Init, Req!At
<1>1. Req!Idle \in Req!Sent /\ Req!Idle.at = "idle" /\ Req!Idle.secret = 0 /\ Req!Idle.gen = 0
  BY DEF Req!Idle, Req!Copy, Req!Sent
<1>2. target \in [on : BOOLEAN, secret : 0 .. MaxSecrets, gen : 0 .. MaxGens]
  OBVIOUS
<1>3. target.on /\ target.secret = 1 /\ target.gen = 0
  OBVIOUS
<1>4. meant \in [Req!Secrets -> Req!Networks]
      /\ meant[1] = Req!Network
  <2>1. Req!Network \in Req!Networks
    BY <1>3 DEF Req!Network, Req!NetworkOf, Req!Networks
  <2> QED BY <2>1 DEF Req!Secrets, Req!Networks
<1>5. Req!TypeOK
  BY <1>1, <1>2, <1>4 DEF Req!TypeOK
<1>6. Req!For(target.secret, Req!Network)
  BY <1>3, <1>4 DEF Req!For, Req!Network, Req!NetworkOf
<1>7. \A r \in Requests : Req!CopyOK(r) /\ Req!PinOK(r) /\ Req!SureOK(r)
  BY <1>1, <1>3 DEF Req!CopyOK, Req!Stays, Req!PinOK, Req!SureOK, Req!Settling, Req!Pinned
<1> QED BY <1>5, <1>6, <1>7 DEF Req!Inv

\* What a step of one request has to show, when it leaves the rows and the node
\* alone.
LEMMA RequestsStep ==
  ASSUME Req!Inv, NEW r \in Requests,
         UNCHANGED << node, moves, saved, target, entered, meant, beside >>,
         cached' \in Suffixes \cup {None},
         send' \in [Requests -> Req!Sent], \A q \in Requests \ {r} : send'[q] = send[q],
         Req!CopyOK(r)', Req!PinOK(r)', Req!SureOK(r)',
         pool' \subseteq Req!Connections, \A c \in pool' : c.sure => c.to = c.pin
  PROVE  Req!Inv'
<1>1. Req!TypeOK'
  BY DEF Req!Inv, Req!TypeOK
<1>2. Req!Network' = Req!Network
  BY DEF Req!Network, Req!NetworkOf
<1>3. ASSUME NEW q \in Requests PROVE Req!CopyOK(q)' /\ Req!PinOK(q)' /\ Req!SureOK(q)'
  <2>1. CASE q = r
    BY <2>1
  <2>2. CASE q # r
    BY <1>2, <2>2 DEF Req!Inv, Req!CopyOK, Req!Stays, Req!PinOK, Req!SureOK, Req!For, Req!At
  <2> QED BY <2>1, <2>2
<1>4. Req!For(target.secret, Req!Network)'
  BY <1>2 DEF Req!Inv, Req!For
<1> QED BY <1>1, <1>3, <1>4 DEF Req!Inv

\* A request that is over has no secret.
LEMMA RequestsOver ==
  ASSUME Req!Inv, NEW r \in Requests, Req!Refuse(r)
  PROVE  /\ send' \in [Requests -> Req!Sent] /\ \A q \in Requests \ {r} : send'[q] = send[q]
         /\ send'[r].at = "idle" /\ send'[r].secret = 0 /\ send'[r].gen = 0
<1> USE TailnetsAssumption, TwoFactorAssumption
<1>1. Req!Idle \in Req!Sent /\ Req!Idle.at = "idle" /\ Req!Idle.secret = 0 /\ Req!Idle.gen = 0
  BY DEF Req!Idle, Req!Copy, Req!Sent
<1> QED BY <1>1 DEF Req!Inv, Req!TypeOK, Req!Refuse

\* It ends, or is refused before it is sent.
LEMMA RequestsRefused ==
  ASSUME Req!Inv, NEW r \in Requests, Req!Refuse(r), pool' = pool, cached' \in {cached, node},
         UNCHANGED << node, moves, saved, target, entered, meant, beside >>
  PROVE  Req!Inv'
<1> USE TailnetsAssumption, TwoFactorAssumption
<1>1. cached' \in Suffixes \cup {None} /\ pool' \subseteq Req!Connections
      /\ \A c \in pool' : c.sure => c.to = c.pin
  BY DEF Req!Inv, Req!TypeOK
<1>2. target.gen \in Nat /\ entered \in Nat
  BY DEF Req!Inv, Req!TypeOK
<1>3. Req!CopyOK(r)' /\ Req!PinOK(r)' /\ Req!SureOK(r)'
  BY <1>2, RequestsOver DEF Req!CopyOK, Req!Stays, Req!PinOK, Req!SureOK, Req!Settling, Req!Pinned, Req!At
<1> QED BY <1>1, <1>3, RequestsOver, RequestsStep

\* A step that changes nothing of a request but where it is.
LEMMA RequestsGoto ==
  ASSUME Req!Inv, NEW r \in Requests, NEW step \in {"generation", "again", "route", "send", "connect"},
         Req!Goto(r, step)
  PROVE  /\ send' \in [Requests -> Req!Sent] /\ \A q \in Requests \ {r} : send'[q] = send[q]
         /\ send'[r].at = step /\ send'[r].secret = send[r].secret /\ send'[r].gen = send[r].gen
         /\ send'[r].seen = send[r].seen /\ send'[r].pin = send[r].pin
<1>1. send \in [Requests -> Req!Sent]
  BY DEF Req!Inv, Req!TypeOK
<1>2. send' = [send EXCEPT ![r] = [send[r] EXCEPT !.at = step]]
  BY DEF Req!Goto
<1>3. [send[r] EXCEPT !.at = step] \in Req!Sent
  BY <1>1 DEF Req!Sent
<1> QED BY <1>1, <1>2, <1>3 DEF Req!Sent

\* `tailnet_fetcher` reads the row of the MCP, the row of the tailnet, the state
\* of the node.
LEMMA RequestsRead ==
  ASSUME Req!Inv, NEW r \in Requests, Req!ReadMcp(r) \/ Req!ReadTailnet(r) \/ Req!ReadState(r)
  PROVE  Req!Inv'
<1> USE TailnetsAssumption, TwoFactorAssumption DEF Req!At
<1>1. /\ send \in [Requests -> Req!Sent] /\ send[r] \in Req!Sent
      /\ target \in [on : BOOLEAN, secret : 0 .. MaxSecrets, gen : 0 .. MaxGens]
      /\ {node, cached, saved} \subseteq Suffixes \cup {None} /\ pool \subseteq Req!Connections
      /\ \A c \in pool : c.sure => c.to = c.pin
      /\ entered \in 0 .. MaxSecrets
  BY DEF Req!Inv, Req!TypeOK
<1>2. UNCHANGED << node, moves, saved, target, entered, meant, beside, pool >>
  BY DEF Req!ReadMcp, Req!ReadTailnet, Req!ReadState, Req!nodeVars, Req!rowVars, Req!history
<1>3. Req!CopyOK(r) /\ Req!For(target.secret, Req!Network) /\ Req!Network' = Req!Network
  BY <1>2 DEF Req!Inv, Req!Network, Req!NetworkOf
<1>4. CASE Req!ReadMcp(r)
  <2>0. PICK to : to = IF target.on THEN None ELSE Req!Elsewhere
    OBVIOUS
  <2>1. PICK mine : mine = Req!Fetch(target.secret, target.gen, to)
    OBVIOUS
  <2>4. /\ mine \in Req!Sent /\ mine.secret = target.secret /\ mine.gen = target.gen
        /\ target.on => mine.at = "tailnet"
        /\ ~ target.on => mine.at = "sent" /\ mine.to = Req!Elsewhere
    <3>1. to \in {None, Req!Elsewhere} /\ (target.on => to = None)
          /\ (~ target.on => to = Req!Elsewhere /\ to # None)
      BY <2>0
    <3> QED BY <1>1, <2>1, <3>1 DEF Req!Fetch, Req!Copy, Req!Sent
  <2>2. /\ send' \in [Requests -> Req!Sent] /\ \A q \in Requests \ {r} : send'[q] = send[q]
        /\ send'[r] = mine
    BY <1>1, <1>4, <2>0, <2>1, <2>4 DEF Req!ReadMcp
  <2>3. Req!CopyOK(r)' /\ Req!PinOK(r)' /\ Req!SureOK(r)'
    <3>1. target.secret <= entered /\ target.gen \in Nat
      BY <1>1, <1>3 DEF Req!For
    <3>2. ~ target.on => Req!Network = Req!Elsewhere
      BY DEF Req!Network, Req!NetworkOf
    <3>3. CASE target.on
      BY <1>1, <1>2, <1>3, <2>2, <2>4, <3>1, <3>3 DEF Req!CopyOK, Req!Stays, Req!PinOK, Req!SureOK,
         Req!Pinned, Req!Settling, Req!For
    <3>4. CASE ~ target.on
      BY <1>1, <1>2, <1>3, <2>2, <2>4, <3>1, <3>2, <3>4 DEF Req!CopyOK, Req!Stays, Req!PinOK,
         Req!SureOK, Req!Pinned, Req!Settling, Req!For
    <3> QED BY <3>3, <3>4
  <2> QED BY <1>1, <1>2, <1>4, <2>2, <2>3, RequestsStep DEF Req!ReadMcp
<1>5. CASE Req!ReadTailnet(r)
  <2>1. send' = [send EXCEPT ![r].at = "state", ![r].seen = saved] /\ send[r].at = "tailnet"
    BY <1>5 DEF Req!ReadTailnet
  <2>2. /\ send' \in [Requests -> Req!Sent] /\ \A q \in Requests \ {r} : send'[q] = send[q]
        /\ send'[r].at = "state" /\ send'[r].secret = send[r].secret /\ send'[r].gen = send[r].gen
        /\ send'[r].seen = saved
    BY <1>1, <2>1 DEF Req!Sent
  <2>3. Req!CopyOK(r)' /\ Req!PinOK(r)' /\ Req!SureOK(r)'
    BY <1>2, <1>3, <2>1, <2>2 DEF Req!CopyOK, Req!Stays, Req!PinOK, Req!SureOK, Req!Pinned, Req!Settling,
       Req!For
  <2> QED BY <1>1, <1>2, <1>5, <2>2, <2>3, RequestsStep DEF Req!ReadTailnet
<1>6. CASE Req!ReadState(r)
  <2>1. CASE node = None
    BY <1>2, <1>6, <2>1, RequestsRefused DEF Req!ReadState
  <2>2. CASE node # None
    <3>1. send' = [send EXCEPT ![r].at = "settle", ![r].pin = node] /\ send[r].at = "state"
      BY <1>6, <2>2 DEF Req!ReadState
    <3>2. /\ send' \in [Requests -> Req!Sent] /\ \A q \in Requests \ {r} : send'[q] = send[q]
          /\ send'[r].at = "settle" /\ send'[r].secret = send[r].secret /\ send'[r].gen = send[r].gen
          /\ send'[r].seen = send[r].seen /\ send'[r].pin = node
      BY <1>1, <3>1 DEF Req!Sent
    <3>3. Req!CopyOK(r)' /\ Req!PinOK(r)' /\ Req!SureOK(r)'
      BY <1>1, <1>2, <1>3, <2>2, <3>1, <3>2 DEF Req!CopyOK, Req!Stays, Req!PinOK, Req!SureOK, Req!Pinned,
         Req!Settling, Req!For
    <3>4. cached' \in Suffixes \cup {None}
      BY <1>1, <1>6 DEF Req!ReadState
    <3> QED BY <1>1, <1>2, <3>2, <3>3, <3>4, RequestsStep
  <2> QED BY <2>1, <2>2
<1> QED BY <1>4, <1>5, <1>6

\* What `settle_identity` does to the rows when nothing was saved yet: the
\* secrets that were bound to no tailnet are now bound to this one.
LEMMA RequestsBind ==
  ASSUME Req!Inv, NEW r \in Requests, send[r].at = "settle", send[r].seen = None,
         saved = None, saved' = send[r].pin,
         meant' = [s \in Req!Secrets |-> Req!Bound(meant[s], send[r].pin)],
         beside' = {<< w[1], Req!Bound(w[2], send[r].pin) >> : w \in beside},
         Req!Goto(r, "generation"), UNCHANGED << node, moves, cached, target, entered, pool >>
  PROVE  Req!Inv'
<1> USE TailnetsAssumption, TwoFactorAssumption DEF Req!At
<1> DEFINE pin == send[r].pin
<1>1. /\ send \in [Requests -> Req!Sent] /\ pin \in Suffixes /\ entered \in 0 .. MaxSecrets
      /\ target \in [on : BOOLEAN, secret : 0 .. MaxSecrets, gen : 0 .. MaxGens]
      /\ meant \in [Req!Secrets -> Req!Networks]
  BY DEF Req!Inv, Req!TypeOK, Req!PinOK
<1>2. /\ send' \in [Requests -> Req!Sent] /\ \A q \in Requests \ {r} : send'[q] = send[q]
      /\ send'[r].at = "generation" /\ send'[r].secret = send[r].secret
      /\ send'[r].gen = send[r].gen /\ send'[r].seen = send[r].seen /\ send'[r].pin = pin
  BY RequestsGoto
<1>3. PICK p \in Suffixes : p = pin
  BY <1>1
<1> HIDE DEF pin
<1>4. \A s \in 0 .. MaxSecrets, network \in Req!Networks :
        Req!For(s, network) => Req!For(s, Req!Bound(network, p))'
  <2> SUFFICES ASSUME NEW s \in 0 .. MaxSecrets, NEW network \in Req!Networks,
                      Req!For(s, network), s # 0
               PROVE  /\ s <= entered'
                      /\ \/ meant'[s] = Req!Bound(network, p)
                         \/ << s, Req!Bound(network, p) >> \in beside'
    BY DEF Req!For
  <2>1. CASE meant[s] = network
    <3>1. meant'[s] = Req!Bound(meant[s], p)
      BY <1>3, TailnetsAssumption DEF Req!Secrets, pin
    <3> QED BY <2>1, <3>1 DEF Req!For
  <2>2. CASE << s, network >> \in beside
    <3>1. << s, Req!Bound(network, p) >> \in beside'
      BY <1>3, <2>2 DEF pin
    <3> QED BY <3>1 DEF Req!For
  <2> QED BY <2>1, <2>2 DEF Req!For
<1>9. \A network \in Suffixes \cup {Req!Elsewhere} :
        Req!Bound(network, p) = network /\ network \in Req!Networks
  BY DEF Req!Bound, Req!Networks, Req!Unbound, Req!Elsewhere
<1>10. \A s \in 0 .. MaxSecrets, network \in Suffixes \cup {Req!Elsewhere} :
         Req!For(s, network) => Req!For(s, network)'
  BY <1>4, <1>9
<1>5. \A s \in 0 .. MaxSecrets : Req!For(s, Req!Network) => Req!For(s, Req!Network)'
  <2>1. CASE target.on
    <3>1. Req!Network = Req!Unbound /\ Req!Network' = p
      BY <1>3, <2>1 DEF Req!Network, Req!NetworkOf, pin
    <3>2. Req!Bound(Req!Unbound, p) = p /\ Req!Unbound \in Req!Networks
      BY DEF Req!Bound, Req!Networks
    <3> QED BY <1>4, <3>1, <3>2
  <2>2. CASE ~ target.on
    <3>1. Req!Network = Req!Elsewhere /\ Req!Network' = Req!Elsewhere
      BY <2>2 DEF Req!Network, Req!NetworkOf
    <3> QED BY <1>10, <3>1
  <2> QED BY <2>1, <2>2
<1>6. Req!TypeOK'
  <2>1. \A network \in Req!Networks : Req!Bound(network, p) \in Req!Networks
    BY DEF Req!Bound, Req!Networks
  <2>2. meant' \in [Req!Secrets -> Req!Networks]
    BY <1>1, <1>3, <2>1 DEF pin
  <2>3. beside' \subseteq Req!Secrets \X Req!Networks
    <3>1. beside \subseteq Req!Secrets \X Req!Networks
      BY DEF Req!Inv, Req!TypeOK
    <3>2. ASSUME NEW w \in beside
          PROVE  << w[1], Req!Bound(w[2], p) >> \in Req!Secrets \X Req!Networks
      BY <2>1, <3>1
    <3> QED BY <1>3, <3>2 DEF pin
  <2> QED BY <1>1, <1>2, <2>2, <2>3 DEF Req!Inv, Req!TypeOK, pin
<1>7. ASSUME NEW q \in Requests PROVE Req!CopyOK(q)' /\ Req!PinOK(q)' /\ Req!SureOK(q)'
  <2>1. /\ Req!CopyOK(q) /\ Req!PinOK(q) /\ Req!SureOK(q) /\ send[q] \in Req!Sent
        /\ send[q].secret \in 0 .. MaxSecrets
    BY <1>1 DEF Req!Inv, Req!Sent
  <2>2. CASE q = r
    <3>1. Req!CopyOK(q)'
      BY <1>2, <1>5, <2>1, <2>2 DEF Req!CopyOK, Req!Stays, Req!Settling, pin
    <3>2. Req!PinOK(q)' /\ Req!SureOK(q)'
      BY <1>1, <1>2, <2>2 DEF Req!PinOK, Req!SureOK, Req!Pinned
    <3> QED BY <3>1, <3>2
  <2>3. CASE q # r
    <3>1. send'[q] = send[q]
      BY <1>2, <2>3
    <3>2. Req!CopyOK(q)'
      BY <1>5, <2>1, <3>1 DEF Req!CopyOK, Req!Stays, Req!Settling, Req!PinOK
    <3>3. Req!PinOK(q)'
      BY <1>10, <2>1, <3>1 DEF Req!PinOK
    <3>4. Req!SureOK(q)'
      BY <2>1, <3>1 DEF Req!SureOK
    <3> QED BY <3>2, <3>3, <3>4
  <2> QED BY <2>2, <2>3
<1>8. Req!For(target.secret, Req!Network)'
  BY <1>1, <1>5 DEF Req!Inv
<1> QED BY <1>6, <1>7, <1>8 DEF Req!Inv

\* What it does when the node is in another tailnet than the row has: the MCP is
\* signed out, and whoever has a copy of its secret has an old generation.
LEMMA RequestsSignOut ==
  ASSUME Req!Inv, NEW r \in Requests, send[r].at = "settle",
         saved' = send[r].pin,
         target.on => target.gen < MaxGens,
         target' = IF target.on THEN [on |-> TRUE, secret |-> 0, gen |-> target.gen + 1] ELSE target,
         Req!Refuse(r), UNCHANGED << node, moves, cached, meant, beside, entered, pool >>
  PROVE  Req!Inv'
<1> USE TailnetsAssumption, TwoFactorAssumption DEF Req!At
<1>1. /\ send \in [Requests -> Req!Sent] /\ send[r].pin \in Suffixes /\ entered \in 0 .. MaxSecrets
      /\ target \in [on : BOOLEAN, secret : 0 .. MaxSecrets, gen : 0 .. MaxGens]
  BY DEF Req!Inv, Req!TypeOK, Req!PinOK
<1>2. /\ send' \in [Requests -> Req!Sent] /\ \A q \in Requests \ {r} : send'[q] = send[q]
      /\ send'[r].at = "idle" /\ send'[r].secret = 0 /\ send'[r].gen = 0
  BY RequestsOver
<1>3. /\ target' \in [on : BOOLEAN, secret : 0 .. MaxSecrets, gen : 0 .. MaxGens]
      /\ target.on => target'.gen = target.gen + 1 /\ target'.secret = 0
      /\ ~ target.on => target' = target
  <2>1. CASE target.on
    <3>1. target' = [on |-> TRUE, secret |-> 0, gen |-> target.gen + 1]
      BY <2>1
    <3> QED BY <1>1, <2>1, <3>1
  <2>2. CASE ~ target.on
    BY <1>1, <2>2
  <2> QED BY <2>1, <2>2
<1>4. Req!TypeOK'
  BY <1>1, <1>2, <1>3 DEF Req!Inv, Req!TypeOK
<1>5. Req!For(target.secret, Req!Network)'
  BY <1>3 DEF Req!Inv, Req!For, Req!Network, Req!NetworkOf
<1>6. ASSUME NEW q \in Requests PROVE Req!CopyOK(q)' /\ Req!PinOK(q)' /\ Req!SureOK(q)'
  <2>1. /\ Req!CopyOK(q) /\ Req!PinOK(q) /\ Req!SureOK(q)
        /\ send[q].gen \in Nat /\ target.gen \in Nat /\ entered \in Nat
    BY <1>1 DEF Req!Inv, Req!Sent
  <2>2. target'.gen \in Nat /\ target'.gen >= target.gen
    BY <1>3, <2>1
  <2>3. CASE q = r
    BY <1>2, <2>1, <2>2, <2>3 DEF Req!CopyOK, Req!Stays, Req!PinOK, Req!SureOK, Req!Settling, Req!Pinned
  <2>4. CASE q # r
    <3>1. send'[q] = send[q]
      BY <1>2, <2>4
    <3>2. Req!CopyOK(q)'
      BY <1>3, <2>1, <2>2, <3>1 DEF Req!CopyOK, Req!Stays
    <3>3. Req!PinOK(q)' /\ Req!SureOK(q)'
      BY <2>1, <3>1 DEF Req!PinOK, Req!SureOK, Req!For
    <3> QED BY <3>2, <3>3
  <2> QED BY <2>3, <2>4
<1> QED BY <1>4, <1>5, <1>6 DEF Req!Inv

\* `settle_identity` as a whole, and what follows when another request was first.
LEMMA RequestsSettle ==
  ASSUME Req!Inv, NEW r \in Requests, Req!Settle(r) \/ Req!SettleAgain(r)
  PROVE  Req!Inv'
<1> USE TailnetsAssumption, TwoFactorAssumption DEF Req!At
<1>1. /\ send \in [Requests -> Req!Sent] /\ send[r] \in Req!Sent
      /\ {node, cached, saved} \subseteq Suffixes \cup {None} /\ pool \subseteq Req!Connections
      /\ \A c \in pool : c.sure => c.to = c.pin
      /\ Req!CopyOK(r) /\ Req!PinOK(r)
  BY DEF Req!Inv, Req!TypeOK
<1>2. UNCHANGED << node, moves, cached, pool, entered >>
  BY DEF Req!Settle, Req!SettleAgain, Req!nodeVars, Req!rowVars, Req!history
<1>3. ASSUME NEW step \in {"generation", "again"}, Req!Goto(r, step), send[r].at = "settle",
             UNCHANGED << saved, target, entered, meant, beside >>,
             step = "generation" => send[r].seen = send[r].pin
      PROVE  Req!Inv'
  <2>1. /\ send' \in [Requests -> Req!Sent] /\ \A q \in Requests \ {r} : send'[q] = send[q]
        /\ send'[r].at = step /\ send'[r].secret = send[r].secret /\ send'[r].gen = send[r].gen
        /\ send'[r].seen = send[r].seen /\ send'[r].pin = send[r].pin
    BY <1>3, RequestsGoto
  <2>2. Req!Network' = Req!Network
    BY <1>3 DEF Req!Network, Req!NetworkOf
  <2>3. Req!CopyOK(r)' /\ Req!PinOK(r)' /\ Req!SureOK(r)'
    BY <1>1, <1>3, <2>1, <2>2 DEF Req!CopyOK, Req!Stays, Req!PinOK, Req!SureOK, Req!Settling, Req!Pinned,
       Req!For
  <2> QED BY <1>1, <1>2, <1>3, <2>1, <2>3, RequestsStep
<1>4. CASE Req!Settle(r)
  <2>1. send[r].at = "settle"
    BY <1>4 DEF Req!Settle
  <2>2. \/ /\ send[r].seen = send[r].pin /\ Req!Goto(r, "generation")
           /\ UNCHANGED << saved, target, entered, meant, beside >>
        \/ /\ send[r].seen # send[r].pin /\ Req!Goto(r, "again")
           /\ UNCHANGED << saved, target, entered, meant, beside >>
        \/ /\ saved = send[r].seen /\ saved' = send[r].pin /\ send[r].seen = None
           /\ meant' = [s \in Req!Secrets |-> Req!Bound(meant[s], send[r].pin)]
           /\ beside' = {<< w[1], Req!Bound(w[2], send[r].pin) >> : w \in beside}
           /\ Req!Goto(r, "generation") /\ UNCHANGED target
        \/ /\ saved' = send[r].pin /\ (target.on => target.gen < MaxGens)
           /\ target' = IF target.on THEN [on |-> TRUE, secret |-> 0, gen |-> target.gen + 1]
                                     ELSE target
           /\ Req!Refuse(r) /\ UNCHANGED << meant, beside >>
    BY <1>4 DEF Req!Settle, Req!rowVars, Req!history
  <2> QED BY <1>2, <1>3, <2>1, <2>2, RequestsBind, RequestsSignOut
<1>5. CASE Req!SettleAgain(r)
  <2>1. send[r].at = "again" /\ UNCHANGED << saved, target, entered, meant, beside >>
    BY <1>5 DEF Req!SettleAgain, Req!rowVars, Req!history
  <2>2. CASE send[r].tries = 2
    BY <1>2, <1>5, <2>1, <2>2, RequestsRefused DEF Req!SettleAgain
  <2>3. CASE send[r].tries # 2
    <3>1. send' = [send EXCEPT ![r].at = "settle", ![r].seen = saved, ![r].tries = send[r].tries + 1]
      BY <1>5, <2>3 DEF Req!SettleAgain
    <3>2. send[r].tries + 1 \in 0 .. 2
      BY <1>1, <2>3 DEF Req!Sent
    <3>3. /\ send' \in [Requests -> Req!Sent] /\ \A q \in Requests \ {r} : send'[q] = send[q]
          /\ send'[r].at = "settle" /\ send'[r].secret = send[r].secret
          /\ send'[r].gen = send[r].gen /\ send'[r].seen = saved /\ send'[r].pin = send[r].pin
      BY <1>1, <3>1, <3>2 DEF Req!Sent
    <3>4. Req!Network' = Req!Network
      BY <2>1 DEF Req!Network, Req!NetworkOf
    <3>5. Req!CopyOK(r)' /\ Req!PinOK(r)' /\ Req!SureOK(r)'
      BY <1>1, <2>1, <3>3, <3>4 DEF Req!CopyOK, Req!Stays, Req!PinOK, Req!SureOK, Req!Settling, Req!Pinned,
         Req!For
    <3> QED BY <1>1, <1>2, <2>1, <3>3, <3>5, RequestsStep
  <2> QED BY <2>2, <2>3
<1> QED BY <1>4, <1>5

\* The check of the generation: the row still has the secret of the copy, for
\* the tailnet the request is pinned to.
LEMMA RequestsGeneration ==
  ASSUME Req!Inv, NEW r \in Requests, Req!CheckGeneration(r)
  PROVE  Req!Inv'
<1> USE TailnetsAssumption, TwoFactorAssumption DEF Req!At
<1>1. /\ UNCHANGED << node, moves, cached, saved, target, entered, meant, beside, pool >>
      /\ send[r].at = "generation"
  BY DEF Req!CheckGeneration, Req!nodeVars, Req!rowVars, Req!history
<1>2. CASE target.gen # send[r].gen
  BY <1>1, <1>2, RequestsRefused DEF Req!CheckGeneration
<1>3. CASE target.gen = send[r].gen
  <2>1. /\ send' \in [Requests -> Req!Sent] /\ \A q \in Requests \ {r} : send'[q] = send[q]
        /\ send'[r].at = "route" /\ send'[r].secret = send[r].secret /\ send'[r].gen = 0
        /\ send'[r].pin = send[r].pin
    <3>1. send \in [Requests -> Req!Sent] /\ send[r] \in Req!Sent
      BY DEF Req!Inv, Req!TypeOK
    <3>2. PICK m : m = Req!Idle
      OBVIOUS
    <3>3. m \in Req!Sent /\ m.gen = 0
      BY <3>2 DEF Req!Idle, Req!Copy, Req!Sent
    <3>4. PICK n : n = [m EXCEPT !.at = "route", !.secret = send[r].secret]
      OBVIOUS
    <3>5. n \in Req!Sent /\ n.at = "route" /\ n.secret = send[r].secret /\ n.gen = 0
      BY <3>1, <3>3, <3>4 DEF Req!Sent
    <3>6. PICK o : o = [n EXCEPT !.pin = send[r].pin]
      OBVIOUS
    <3>7. /\ o \in Req!Sent /\ o.at = "route" /\ o.secret = send[r].secret /\ o.gen = 0
          /\ o.pin = send[r].pin
      BY <3>1, <3>5, <3>6 DEF Req!Sent
    <3>8. o = [m EXCEPT !.at = "route", !.secret = send[r].secret, !.pin = send[r].pin]
      BY <3>4, <3>6
    <3>9. send' = [send EXCEPT ![r] = o]
      BY <1>3, <3>2, <3>8 DEF Req!CheckGeneration
    <3> QED BY <3>1, <3>7, <3>9
  <2>2. /\ target.on /\ saved = send[r].pin /\ send[r].pin \in Suffixes
        /\ Req!For(send[r].secret, Req!Network)
    BY <1>1, <1>3 DEF Req!Inv, Req!CopyOK, Req!Stays, Req!PinOK, Req!Settling
  <2>3. Req!Network = send[r].pin
    BY <2>2 DEF Req!Network, Req!NetworkOf
  <2>4. Req!CopyOK(r)
    BY DEF Req!Inv
  <2>5. Req!CopyOK(r)' /\ Req!PinOK(r)' /\ Req!SureOK(r)'
    <3>1. target.gen \in Nat
      BY DEF Req!Inv, Req!TypeOK
    <3> QED BY <1>1, <2>1, <2>2, <2>3, <2>4, <3>1 DEF Req!CopyOK, Req!Stays, Req!PinOK, Req!SureOK,
       Req!Settling, Req!Pinned, Req!For
  <2> QED BY <1>1, <2>1, <2>5, RequestsStep DEF Req!Inv, Req!TypeOK
<1> QED BY <1>2, <1>3

\* Pinned to a tailnet, a request goes on until it is sent into it.
LEMMA RequestsPinned ==
  ASSUME Req!Inv, NEW r \in Requests, send[r].at \in Req!Pinned,
         UNCHANGED << node, moves, saved, target, entered, meant, beside >>, cached' \in {cached, node},
         send' \in [Requests -> Req!Sent], \A q \in Requests \ {r} : send'[q] = send[q],
         send'[r].secret = send[r].secret, send'[r].gen = send[r].gen, send'[r].pin = send[r].pin,
         \/ send'[r].at \in {"send", "connect"}
         \/ send'[r].at = "dialling" /\ node = send[r].pin
         \/ /\ send'[r].at = "sent" /\ send'[r].to \in Suffixes
            /\ send'[r].sure => send'[r].to = send[r].pin,
         pool' \subseteq pool
  PROVE  Req!Inv'
<1> USE TailnetsAssumption, TwoFactorAssumption DEF Req!At
<1>1. /\ Req!CopyOK(r) /\ send[r].pin \in Suffixes /\ Req!For(send[r].secret, send[r].pin)
  BY DEF Req!Inv, Req!PinOK
<1>2. Req!CopyOK(r)' /\ Req!PinOK(r)' /\ Req!SureOK(r)'
  BY <1>1 DEF Req!CopyOK, Req!Stays, Req!PinOK, Req!SureOK, Req!Settling, Req!Pinned, Req!For
<1>3. /\ pool' \subseteq Req!Connections /\ \A c \in pool' : c.sure => c.to = c.pin
      /\ cached' \in Suffixes \cup {None}
  BY DEF Req!Inv, Req!TypeOK
<1> QED BY <1>2, <1>3, RequestsStep

\* `route` and `dial`: what is checked is what the request is pinned to.
LEMMA RequestsDial ==
  ASSUME Req!Inv, NEW r \in Requests,
         \/ Req!Route(r, "route", "send") \/ Req!Route(r, "send", "connect")
         \/ Req!Reuse(r) \/ Req!Dial(r) \/ Req!Dialled(r) \/ Req!End(r)
  PROVE  Req!Inv'
<1> USE TailnetsAssumption, TwoFactorAssumption DEF Req!At
<1>1. /\ UNCHANGED << node, moves, saved, target, entered, meant, beside >> /\ cached' \in {cached, node}
  BY DEF Req!Route, Req!Reuse, Req!Dial, Req!Dialled, Req!End, Req!nodeVars, Req!rowVars, Req!history
<1>2. send \in [Requests -> Req!Sent] /\ send[r] \in Req!Sent
  BY DEF Req!Inv, Req!TypeOK
<1>3. CASE Req!Refuse(r) /\ pool' = pool
  BY <1>1, <1>3, RequestsRefused
<1>4. ASSUME NEW step \in {"send", "connect"}, Req!Goto(r, step), send[r].at \in {"route", "send"},
             pool' = pool
      PROVE  Req!Inv'
  <2>1. /\ send' \in [Requests -> Req!Sent] /\ \A q \in Requests \ {r} : send'[q] = send[q]
        /\ send'[r].at = step /\ send'[r].secret = send[r].secret /\ send'[r].gen = send[r].gen
        /\ send'[r].pin = send[r].pin
    BY <1>4, RequestsGoto
  <2> QED BY <1>1, <1>4, <2>1, RequestsPinned DEF Req!Pinned
<1>5. CASE Req!Route(r, "route", "send") \/ Req!Route(r, "send", "connect")
  BY <1>3, <1>4, <1>5 DEF Req!Route
<1>6. CASE Req!Reuse(r)
  <2>1. PICK c \in pool : /\ c.pin = send[r].pin /\ pool' = pool \ {c}
                          /\ send' = [send EXCEPT ![r].at = "sent", ![r].to = c.to, ![r].sure = c.sure]
    BY <1>6 DEF Req!Reuse
  <2>2. c \in Req!Connections /\ (c.sure => c.to = c.pin) /\ send[r].at = "connect"
    BY <1>6 DEF Req!Inv, Req!TypeOK, Req!Reuse
  <2>3. c.to \in Suffixes /\ c.sure \in BOOLEAN
    BY <2>2 DEF Req!Connections
  <2>4. send' = [send EXCEPT ![r].at = "sent", ![r].to = c.to, ![r].sure = c.sure]
    BY <2>1
  <2>5. /\ send' \in [Requests -> Req!Sent] /\ \A q \in Requests \ {r} : send'[q] = send[q]
        /\ send'[r].at = "sent" /\ send'[r].secret = send[r].secret /\ send'[r].gen = send[r].gen
        /\ send'[r].pin = send[r].pin /\ send'[r].to = c.to /\ send'[r].sure = c.sure
    BY <1>2, <2>3, <2>4 DEF Req!Sent
  <2> QED BY <1>1, <2>1, <2>2, <2>3, <2>5, RequestsPinned DEF Req!Pinned
<1>7. CASE Req!Dial(r)
  <2>1. CASE node = send[r].pin
    <3>1. send' = [send EXCEPT ![r].at = "dialling", ![r].sure = TRUE] /\ send[r].at = "connect"
          /\ pool' = pool
      BY <1>7, <2>1 DEF Req!Dial
    <3>2. /\ send' \in [Requests -> Req!Sent] /\ \A q \in Requests \ {r} : send'[q] = send[q]
          /\ send'[r].at = "dialling" /\ send'[r].secret = send[r].secret
          /\ send'[r].gen = send[r].gen /\ send'[r].pin = send[r].pin
      BY <1>2, <3>1 DEF Req!Sent
    <3> QED BY <1>1, <2>1, <3>1, <3>2, RequestsPinned DEF Req!Pinned
  <2>2. CASE node # send[r].pin
    BY <1>3, <1>7, <2>2 DEF Req!Dial
  <2> QED BY <2>1, <2>2
<1>8. CASE Req!Dialled(r)
  <2>1. /\ send' = [send EXCEPT ![r].at = "sent", ![r].to = node] /\ send[r].at = "dialling"
        /\ node \in Suffixes /\ pool' = pool /\ (send[r].sure => node = send[r].pin)
    BY <1>8 DEF Req!Dialled, Req!Inv, Req!TypeOK, Req!SureOK
  <2>2. /\ send' \in [Requests -> Req!Sent] /\ \A q \in Requests \ {r} : send'[q] = send[q]
        /\ send'[r].at = "sent" /\ send'[r].secret = send[r].secret /\ send'[r].gen = send[r].gen
        /\ send'[r].pin = send[r].pin /\ send'[r].to = node /\ send'[r].sure = send[r].sure
    BY <1>2, <2>1 DEF Req!Sent
  <2> QED BY <1>1, <2>1, <2>2, RequestsPinned DEF Req!Pinned
<1>9. CASE Req!End(r)
  BY <1>3, <1>9 DEF Req!End
<1> QED BY <1>5, <1>6, <1>7, <1>8, <1>9

\* A connection that is idle again is what it was; others close.
LEMMA RequestsPool ==
  ASSUME Req!Inv, Req!ConnectionsClose \/ \E r \in Requests : Req!NextHop(r)
  PROVE  Req!Inv'
<1> USE TailnetsAssumption, TwoFactorAssumption DEF Req!At
<1>1. UNCHANGED << node, moves, cached, saved, target, entered, meant, beside >>
  BY DEF Req!ConnectionsClose, Req!NextHop, Req!nodeVars, Req!rowVars, Req!history
<1>2. /\ send \in [Requests -> Req!Sent] /\ pool \subseteq Req!Connections
      /\ \A c \in pool : c.sure => c.to = c.pin
      /\ Req!For(target.secret, Req!Network) /\ Req!Network' = Req!Network
  BY <1>1 DEF Req!Inv, Req!TypeOK, Req!Network, Req!NetworkOf
<1>3. ASSUME send' = send, pool' \subseteq pool PROVE Req!Inv'
  BY <1>1, <1>2, <1>3 DEF Req!Inv, Req!TypeOK, Req!CopyOK, Req!Stays, Req!PinOK, Req!SureOK, Req!For
<1>4. ASSUME NEW r \in Requests, Req!NextHop(r) PROVE Req!Inv'
  <2>1. CASE send[r].to = Req!Elsewhere
    BY <1>3, <1>4, <2>1 DEF Req!NextHop
  <2>2. CASE send[r].to # Req!Elsewhere
    <3>1. /\ send[r].at = "sent"
          /\ pool' = pool \cup {[pin |-> send[r].pin, to |-> send[r].to, sure |-> send[r].sure]}
          /\ send' = [send EXCEPT ![r].at = "send", ![r].to = None, ![r].sure = FALSE]
      BY <1>4, <2>2 DEF Req!NextHop
    <3>2. /\ send[r].pin \in Suffixes /\ send[r].to \in Suffixes
          /\ Req!For(send[r].secret, send[r].pin) /\ Req!CopyOK(r)
          /\ send[r].sure => send[r].to = send[r].pin
          /\ send[r].sure \in BOOLEAN
      BY <1>2, <2>2, <3>1 DEF Req!Inv, Req!PinOK, Req!SureOK, Req!Sent
    <3>3. send' = [send EXCEPT ![r].at = "send", ![r].to = None, ![r].sure = FALSE]
      BY <3>1
    <3>7. /\ send'[r] = [send[r] EXCEPT !.at = "send", !.to = None, !.sure = FALSE]
          /\ \A q \in Requests \ {r} : send'[q] = send[q]
      BY <1>2, <3>3
    <3>8. [send[r] EXCEPT !.at = "send", !.to = None, !.sure = FALSE] \in Req!Sent
      <4>1. PICK m \in Req!Sent : m = send[r]
        BY <1>2
      <4>2. [m EXCEPT !.at = "send", !.to = None] \in Req!Sent
        BY <4>1 DEF Req!Sent
      <4>3. PICK n \in Req!Sent : n = [m EXCEPT !.at = "send", !.to = None]
        BY <4>2
      <4>4. [n EXCEPT !.sure = FALSE] \in Req!Sent
        BY <4>3 DEF Req!Sent
      <4>5. [n EXCEPT !.sure = FALSE] = [m EXCEPT !.at = "send", !.to = None, !.sure = FALSE]
        BY <4>3
      <4> QED BY <4>1, <4>4, <4>5
    <3>4. /\ send' \in [Requests -> Req!Sent] /\ \A q \in Requests \ {r} : send'[q] = send[q]
          /\ send'[r].at = "send" /\ send'[r].secret = send[r].secret
          /\ send'[r].gen = send[r].gen /\ send'[r].pin = send[r].pin
      BY <1>2, <3>3, <3>7, <3>8 DEF Req!Sent
    <3>5. Req!CopyOK(r)' /\ Req!PinOK(r)' /\ Req!SureOK(r)'
      BY <1>1, <3>2, <3>4 DEF Req!CopyOK, Req!Stays, Req!PinOK, Req!SureOK, Req!Settling, Req!Pinned, Req!For
    <3>6. pool' \subseteq Req!Connections /\ \A c \in pool' : c.sure => c.to = c.pin
      BY <1>2, <3>1, <3>2 DEF Req!Connections
    <3> QED BY <1>1, <3>4, <3>5, <3>6, RequestsStep DEF Req!Inv, Req!TypeOK
  <2> QED BY <2>1, <2>2
<1> QED BY <1>3, <1>4 DEF Req!ConnectionsClose

\* The node moves: no dial is sure any more.
LEMMA RequestsMoved ==
  ASSUME Req!Inv, NEW next \in Suffixes \cup {None}, Req!NodeMoves(next)
  PROVE  Req!Inv'
<1> USE TailnetsAssumption, TwoFactorAssumption DEF Req!At
<1>1. /\ moves < MaxMoves /\ node' = next /\ moves' = moves + 1
      /\ send' = [r \in Requests |-> IF send[r].at = "dialling" THEN [send[r] EXCEPT !.sure = FALSE]
                                    ELSE send[r]]
      /\ UNCHANGED << cached, saved, target, entered, meant, beside, pool >>
  BY DEF Req!NodeMoves, Req!rowVars, Req!history
<1>2. ASSUME NEW r \in Requests
      PROVE  /\ send'[r] \in Req!Sent /\ send'[r].at = send[r].at
             /\ send'[r].secret = send[r].secret /\ send'[r].gen = send[r].gen
             /\ send'[r].seen = send[r].seen /\ send'[r].pin = send[r].pin
             /\ send'[r].to = send[r].to
             /\ send[r].at = "dialling" => ~ send'[r].sure
             /\ send[r].at # "dialling" => send'[r] = send[r]
  <2>1. send[r] \in Req!Sent
    BY DEF Req!Inv, Req!TypeOK
  <2>2. CASE send[r].at = "dialling"
    <3>1. send'[r] = [send[r] EXCEPT !.sure = FALSE]
      BY <1>1, <2>2
    <3> QED BY <2>1, <2>2, <3>1 DEF Req!Sent
  <2>3. CASE send[r].at # "dialling"
    BY <1>1, <2>1, <2>3
  <2> QED BY <2>2, <2>3
<1>3. send' \in [Requests -> Req!Sent]
  BY <1>1, <1>2
<1>4. Req!TypeOK'
  BY <1>1, <1>3 DEF Req!Inv, Req!TypeOK
<1>5. Req!Network' = Req!Network
  BY <1>1 DEF Req!Network, Req!NetworkOf
<1>6. ASSUME NEW r \in Requests PROVE Req!CopyOK(r)' /\ Req!PinOK(r)' /\ Req!SureOK(r)'
  <2>1. Req!CopyOK(r) /\ Req!PinOK(r) /\ Req!SureOK(r)
    BY DEF Req!Inv
  <2> QED BY <1>1, <1>2, <1>5, <2>1 DEF Req!CopyOK, Req!Stays, Req!PinOK, Req!SureOK, Req!For
<1>7. Req!For(target.secret, Req!Network)'
  BY <1>1, <1>5 DEF Req!Inv, Req!For
<1> QED BY <1>1, <1>4, <1>6, <1>7 DEF Req!Inv

\* Secrets stay for what they are for as long as others are entered and saved.
LEMMA RequestsKeep ==
  ASSUME Req!Inv, entered' \in Nat, entered <= entered', beside \subseteq beside',
         \A s \in Req!Secrets : s <= entered => meant'[s] = meant[s],
         NEW s \in 0 .. MaxSecrets, NEW network, Req!For(s, network)
  PROVE  Req!For(s, network)'
<1>1. entered \in Nat
  BY TailnetsAssumption, TwoFactorAssumption DEF Req!Inv, Req!TypeOK
<1>2. s # 0 => s \in Req!Secrets /\ s <= entered
  BY DEF Req!For, Req!Secrets
<1> QED BY <1>1, <1>2 DEF Req!For

\* A form is sent: the new secret is for the network the form names, and the old
\* one is forgotten when that is another.
LEMMA RequestsEdit ==
  ASSUME Req!Inv, NEW r \in Requests, NEW on \in BOOLEAN, NEW new \in BOOLEAN,
         Req!Edit(r, on, new)
  PROVE  Req!Inv'
<1> USE TailnetsAssumption, TwoFactorAssumption DEF Req!At
<1>a. PICK fresh : fresh = IF new THEN entered + 1 ELSE IF on # target.on THEN 0 ELSE target.secret
  OBVIOUS
<1>b. PICK to : to = IF on THEN None ELSE Req!Elsewhere
  OBVIOUS
<1>c. PICK edit : edit = IF on # target.on THEN "network" ELSE IF new THEN "secret" ELSE "none"
  OBVIOUS
<1>d. PICK mine : mine = Req!Copy("editing", fresh, target.gen, to, edit)
  OBVIOUS
<1>e. PICK network : network = Req!NetworkOf(on)
  OBVIOUS
<1>1. /\ send \in [Requests -> Req!Sent] /\ entered \in 0 .. MaxSecrets
      /\ target \in [on : BOOLEAN, secret : 0 .. MaxSecrets, gen : 0 .. MaxGens]
      /\ meant \in [Req!Secrets -> Req!Networks]
      /\ network \in Req!Networks
      /\ Req!For(target.secret, Req!Network)
      /\ \A q \in Requests : Req!CopyOK(q) /\ Req!PinOK(q) /\ Req!SureOK(q)
  BY <1>e DEF Req!Inv, Req!TypeOK, Req!NetworkOf, Req!Networks
<1>2. /\ UNCHANGED << node, moves, cached, saved, target, beside, pool >>
      /\ send' = [send EXCEPT ![r] = mine]
      /\ new => /\ entered' = entered + 1 /\ entered < MaxSecrets
                /\ meant' = [meant EXCEPT ![entered + 1] = network]
      /\ ~ new => UNCHANGED << entered, meant >>
  BY <1>a, <1>b, <1>c, <1>d, <1>e DEF Req!Edit, Req!nodeVars
<1>3. /\ entered' \in 0 .. MaxSecrets /\ entered <= entered'
      /\ meant' \in [Req!Secrets -> Req!Networks]
      /\ \A s \in Req!Secrets : s <= entered => meant'[s] = meant[s]
      /\ new => entered + 1 \in Req!Secrets /\ meant'[entered + 1] = network
  BY <1>1, <1>2 DEF Req!Secrets
<1>4. \A s \in 0 .. MaxSecrets : \A n : Req!For(s, n) => Req!For(s, n)'
  BY <1>2, <1>3, RequestsKeep
<1>5. fresh \in 0 .. MaxSecrets /\ fresh <= entered'
  <2>1. target.secret \in 0 .. MaxSecrets /\ target.secret <= entered
    BY <1>1 DEF Req!For
  <2> QED BY <1>a, <1>1, <1>2, <1>3, <2>1
<1>6. /\ mine \in Req!Sent /\ mine.at = "editing" /\ mine.secret = fresh
      /\ mine.gen = target.gen /\ mine.to = to /\ mine.edit = edit
  <2>1. edit \in {"none", "secret", "network"} /\ to \in {None, Req!Elsewhere}
    BY <1>b, <1>c
  <2> QED BY <1>d, <1>1, <1>5, <2>1 DEF Req!Copy, Req!Sent
<1>7. /\ send' \in [Requests -> Req!Sent] /\ \A q \in Requests \ {r} : send'[q] = send[q]
      /\ send'[r] = mine
  BY <1>1, <1>2, <1>6
<1>8. Req!Network' = Req!Network
  BY <1>2 DEF Req!Network, Req!NetworkOf
<1>9. Req!For(fresh, network)'
  <2>1. CASE new
    BY <1>a, <1>1, <1>2, <1>3, <2>1 DEF Req!For
  <2>2. CASE ~ new /\ on = target.on
    <3>1. fresh = target.secret /\ Req!Network = network
      BY <1>a, <1>e, <2>2 DEF Req!Network
    <3> QED BY <1>1, <1>4, <1>5, <3>1
  <2>3. CASE ~ new /\ on # target.on
    BY <1>a, <2>3 DEF Req!For
  <2> QED BY <2>1, <2>2, <2>3
<1>11. ASSUME NEW q \in Requests PROVE Req!CopyOK(q)' /\ Req!PinOK(q)' /\ Req!SureOK(q)'
  <2>1. CASE q = r
    <3>1. edit # "network" /\ to = None => target.on /\ network = Req!Network
      BY <1>b, <1>c, <1>e, <1>1 DEF Req!Network, Req!Elsewhere
    <3>2. to \in {None, Req!Elsewhere}
      BY <1>b
    <3>3. to = Req!Elsewhere => Req!For(fresh, Req!Elsewhere)'
      BY <1>b, <1>e, <1>9 DEF Req!NetworkOf, Req!Elsewhere
    <3>4. Req!CopyOK(q)'
      <4>1. edit # "network" /\ to = None => target'.on /\ Req!For(fresh, Req!Network)'
        BY <1>2, <1>8, <1>9, <3>1
      <4>2. target'.gen = target.gen /\ target.gen \in Nat
        BY <1>1, <1>2
      <4> QED BY <1>5, <1>6, <1>7, <2>1, <4>1, <4>2 DEF Req!CopyOK, Req!Stays, Req!Settling
    <3>5. Req!PinOK(q)' /\ Req!SureOK(q)'
      BY <1>6, <1>7, <2>1, <3>2, <3>3 DEF Req!PinOK, Req!SureOK, Req!Pinned
    <3> QED BY <3>4, <3>5
  <2>2. CASE q # r
    <3>1. /\ send'[q] = send[q] /\ send[q].secret \in 0 .. MaxSecrets
          /\ send[q].secret <= entered
      BY <1>1, <1>7, <2>2 DEF Req!Sent, Req!CopyOK
    <3>2. Req!CopyOK(q)'
      BY <1>1, <1>2, <1>3, <1>4, <1>8, <3>1 DEF Req!CopyOK, Req!Stays
    <3>3. Req!PinOK(q)' /\ Req!SureOK(q)'
      BY <1>1, <1>2, <1>4, <3>1 DEF Req!PinOK, Req!SureOK
    <3> QED BY <3>2, <3>3
  <2> QED BY <2>1, <2>2
<1>12. Req!TypeOK'
  BY <1>2, <1>3, <1>7 DEF Req!Inv, Req!TypeOK
<1>13. Req!For(target.secret, Req!Network)'
  BY <1>1, <1>2, <1>4, <1>8
<1> QED BY <1>2, <1>11, <1>12, <1>13 DEF Req!Inv

\* It is saved: the secret of the row is now beside the network of the row, and
\* whoever has a copy from before a move has an old generation.
LEMMA RequestsSaved ==
  ASSUME Req!Inv, NEW r \in Requests, Req!Save(r)
  PROVE  Req!Inv'
<1> USE TailnetsAssumption, TwoFactorAssumption DEF Req!At
<1>a. PICK old : old = send[r]
  OBVIOUS
<1>b. PICK moved \in BOOLEAN : moved = (old.edit = "network")
  OBVIOUS
<1>c. PICK gen : gen = IF moved THEN target.gen + 1 ELSE target.gen
  OBVIOUS
<1>d. PICK fresh : fresh = IF old.edit = "none" THEN target.secret ELSE old.secret
  OBVIOUS
<1>e. PICK on : on = IF moved THEN old.to = None ELSE target.on
  OBVIOUS
<1>f. PICK next : next = IF moved THEN gen ELSE old.gen
  OBVIOUS
<1>g. PICK mine : mine = Req!Fetch(old.secret, next, old.to)
  OBVIOUS
<1>h. PICK network : network = Req!NetworkOf(on)
  OBVIOUS
<1>1. /\ send \in [Requests -> Req!Sent] /\ old \in Req!Sent /\ entered \in 0 .. MaxSecrets
      /\ target \in [on : BOOLEAN, secret : 0 .. MaxSecrets, gen : 0 .. MaxGens]
      /\ Req!For(target.secret, Req!Network) /\ saved \in Suffixes \cup {None}
      /\ \A q \in Requests : Req!CopyOK(q) /\ Req!PinOK(q) /\ Req!SureOK(q)
  BY <1>a DEF Req!Inv, Req!TypeOK
<1>2. /\ UNCHANGED << node, moves, cached, saved, entered, meant, pool >>
      /\ gen <= MaxGens /\ target' = [on |-> on, secret |-> fresh, gen |-> gen]
      /\ beside' = beside \cup (({fresh} \ {0}) \X {network})
      /\ send' = [send EXCEPT ![r] = mine] /\ old.at = "editing"
  <2>1. target' = [on |-> on, secret |-> fresh, gen |-> gen]
    BY <1>a, <1>b, <1>c, <1>d, <1>e DEF Req!Save
  <2>2. /\ UNCHANGED << node, moves, cached, saved, entered, meant, pool >>
        /\ gen <= MaxGens /\ old.at = "editing"
    BY <1>a, <1>b, <1>c DEF Req!Save, Req!nodeVars
  <2>3. beside' = beside \cup (({target'.secret} \ {0}) \X {Req!NetworkOf(target'.on)})
    BY DEF Req!Save
  <2>4. beside' = beside \cup (({fresh} \ {0}) \X {network})
    <3>1. target'.secret = fresh /\ target'.on = on
      BY <2>1
    <3> QED BY <1>h, <2>3, <3>1
  <2>5. send' = [send EXCEPT ![r] = mine]
    BY <1>a, <1>b, <1>c, <1>f, <1>g DEF Req!Save
  <2> QED BY <2>1, <2>2, <2>4, <2>5
<1>3. /\ old.to \in {None, Req!Elsewhere} /\ old.gen \in 0 .. MaxGens
      /\ old.secret \in 0 .. MaxSecrets /\ old.secret <= entered
      /\ old.gen <= target.gen /\ target.gen \in 0 .. MaxGens
      /\ old.to = Req!Elsewhere => Req!For(old.secret, Req!Elsewhere)
      /\ ~ moved /\ old.to = None /\ old.gen = target.gen =>
           target.on /\ Req!For(old.secret, Req!Network)
  BY <1>a, <1>b, <1>1, <1>2 DEF Req!Sent, Req!CopyOK, Req!PinOK, Req!Stays
<1>4. /\ fresh \in 0 .. MaxSecrets /\ fresh <= entered
      /\ on \in BOOLEAN /\ gen \in 0 .. MaxGens /\ next \in 0 .. MaxGens /\ next <= gen
      /\ moved => gen = target.gen + 1 /\ next = gen /\ on = (old.to = None)
      /\ ~ moved => gen = target.gen /\ next = old.gen /\ on = target.on
  <2>1. target.secret \in 0 .. MaxSecrets /\ target.secret <= entered
    BY <1>1 DEF Req!For
  <2>2. fresh \in 0 .. MaxSecrets /\ fresh <= entered
    BY <1>d, <1>3, <2>1
  <2>3. on \in BOOLEAN
    BY <1>e, <1>1
  <2>4. gen \in 0 .. MaxGens /\ next \in 0 .. MaxGens /\ next <= gen
    BY <1>c, <1>f, <1>2, <1>3
  <2> QED BY <1>c, <1>e, <1>f, <2>2, <2>3, <2>4
<1>5. /\ mine \in Req!Sent /\ mine.secret = old.secret /\ mine.to = old.to /\ mine.gen = next
      /\ old.to = None => mine.at = "tailnet"
      /\ old.to = Req!Elsewhere => mine.at = "sent"
  BY <1>g, <1>3, <1>4, TailnetsAssumption DEF Req!Fetch, Req!Copy, Req!Sent
<1>6. /\ target'.on = on /\ target'.secret = fresh /\ target'.gen = gen
      /\ target' \in [on : BOOLEAN, secret : 0 .. MaxSecrets, gen : 0 .. MaxGens]
  BY <1>2, <1>4
<1>7. /\ send' \in [Requests -> Req!Sent] /\ \A q \in Requests \ {r} : send'[q] = send[q]
      /\ send'[r] = mine
  BY <1>1, <1>2, <1>5
<1>8. \A s \in 0 .. MaxSecrets : \A n : Req!For(s, n) => Req!For(s, n)'
  <2>1. entered' \in Nat /\ entered <= entered' /\ beside \subseteq beside'
    BY <1>1, <1>2
  <2> QED BY <1>2, <2>1, RequestsKeep
<1>9. Req!For(target.secret, Req!Network)'
  <2>1. Req!Network' = network
    BY <1>h, <1>2, <1>6 DEF Req!Network, Req!NetworkOf
  <2>2. fresh # 0 => << fresh, network >> \in beside'
    BY <1>2
  <2> QED BY <1>2, <1>4, <1>6, <2>1, <2>2 DEF Req!For
<1>10. ~ moved => Req!Network' = Req!Network
  BY <1>2, <1>4, <1>6 DEF Req!Network, Req!NetworkOf
<1>11. Req!TypeOK'
  <2>1. network \in Req!Networks
    BY <1>h, <1>1 DEF Req!NetworkOf, Req!Networks
  <2>2. ({fresh} \ {0}) \subseteq Req!Secrets
    BY <1>4 DEF Req!Secrets
  <2>3. beside' \subseteq Req!Secrets \X Req!Networks
    <3>1. beside \subseteq Req!Secrets \X Req!Networks
      BY DEF Req!Inv, Req!TypeOK
    <3> QED BY <1>2, <2>1, <2>2, <3>1
  <2> QED BY <1>2, <1>6, <1>7, <2>3 DEF Req!Inv, Req!TypeOK
<1>12. ASSUME NEW q \in Requests PROVE Req!CopyOK(q)' /\ Req!PinOK(q)' /\ Req!SureOK(q)'
  <2>1. CASE q = r /\ old.to = None
    <3>1. /\ send'[q].at = "tailnet" /\ send'[q].secret = old.secret /\ send'[q].gen = next
          /\ next <= target'.gen /\ old.secret <= entered'
      BY <1>2, <1>3, <1>4, <1>5, <1>6, <1>7, <2>1
    <3>2. next = target'.gen => target'.on /\ Req!For(old.secret, Req!Network)'
      <4>1. CASE moved
        <5>1. fresh = old.secret
          BY <1>b, <1>d, <4>1
        <5> QED BY <1>4, <1>6, <1>9, <2>1, <4>1, <5>1
      <4>2. CASE ~ moved
        <5>1. next = target'.gen => target.on /\ Req!For(old.secret, Req!Network)
          BY <1>3, <1>4, <1>6, <2>1, <4>2
        <5>2. target'.on = target.on /\ Req!Network' = Req!Network
          BY <1>4, <1>6, <1>10, <4>2
        <5> QED BY <1>3, <1>8, <5>1, <5>2
      <4> QED BY <4>1, <4>2
    <3>3. Req!CopyOK(q)'
      BY <3>1, <3>2 DEF Req!CopyOK, Req!Stays
    <3> QED BY <3>1, <3>3 DEF Req!PinOK, Req!SureOK, Req!Pinned
  <2>2. CASE q = r /\ old.to = Req!Elsewhere
    <3>1. Req!For(old.secret, Req!Elsewhere)'
      BY <1>3, <1>8, <2>2
    <3>2. /\ send'[q].at = "sent" /\ send'[q].secret = old.secret
          /\ send'[q].to = Req!Elsewhere /\ send'[q].gen <= target'.gen
          /\ send'[q].secret <= entered'
      BY <1>2, <1>3, <1>4, <1>5, <1>6, <1>7, <2>2
    <3> QED BY <2>2, <3>1, <3>2
         DEF Req!CopyOK, Req!Stays, Req!PinOK, Req!SureOK, Req!Settling, Req!Pinned
  <2>3. CASE q # r
    <3>1. /\ send'[q] = send[q] /\ send[q].secret \in 0 .. MaxSecrets /\ send[q].gen \in Nat
          /\ Req!CopyOK(q) /\ Req!PinOK(q) /\ Req!SureOK(q)
      BY <1>1, <1>7, <2>3 DEF Req!Sent
    <3>2. Req!CopyOK(q)'
      <4>1. CASE moved
        BY <1>2, <1>3, <1>4, <1>6, <3>1, <4>1 DEF Req!CopyOK, Req!Stays
      <4>2. CASE ~ moved
        <5>1. target'.gen = target.gen /\ target'.on = target.on /\ Req!Network' = Req!Network
          BY <1>4, <1>6, <1>10, <4>2
        <5> QED BY <1>2, <1>8, <3>1, <5>1 DEF Req!CopyOK, Req!Stays
      <4> QED BY <4>1, <4>2
    <3>3. Req!PinOK(q)' /\ Req!SureOK(q)'
      BY <1>2, <1>8, <3>1 DEF Req!PinOK, Req!SureOK
    <3> QED BY <3>2, <3>3
  <2> QED BY <1>3, <2>1, <2>2, <2>3
<1> QED BY <1>2, <1>9, <1>11, <1>12 DEF Req!Inv

\* The copies of requests and the rows stay as the invariant says.
LEMMA RequestsNext == Req!Inv /\ [Req!Next]_reqVars => Req!Inv'
<1> SUFFICES ASSUME Req!Inv, [Req!Next]_reqVars PROVE Req!Inv'
  OBVIOUS
<1>1. CASE UNCHANGED reqVars
  BY <1>1 DEF reqVars, Req!Inv, Req!TypeOK, Req!CopyOK, Req!Stays, Req!PinOK, Req!SureOK, Req!For,
     Req!Network, Req!NetworkOf, Req!At
<1>2. CASE Req!Next
  BY <1>2, RequestsRead, RequestsSettle, RequestsGeneration, RequestsDial, RequestsPool,
     RequestsMoved, RequestsEdit, RequestsSaved DEF Req!Next, Req!Step
<1> QED BY <1>1, <1>2

\* What requests through a tailnet read, pinned and kept is right.
LEMMA RequestsInvariant == Spec => []Req!Inv
<1>1. Init => Req!Inv
  BY RequestsInit DEF Init
<1>2. Req!Inv /\ [Next]_allVars => Req!Inv'
  <2>1. [Next]_allVars => [Req!Next]_reqVars
    BY DEF Next, Moves, allVars, reqVars
  <2> QED BY <2>1, RequestsNext
<1> QED BY <1>1, <1>2, PTL DEF Spec

\* A secret is sent only into a network that its form named or that the MCP was on
\* when it was saved, whatever the node is signed in to meanwhile and however the MCP
\* is moved, for any number of tailnets, requests and secrets (`tailnet_fetcher`,
\* `settle_identity`, `pinned_to`, `dial`, `update`).
THEOREM SecretsGoHome == Spec => []SecretsGoAsSaved
<1>1. Req!Inv => SecretsGoAsSaved
  BY DEF Req!Inv, Req!PinOK, Req!SureOK, Req!For, Req!At, Req!Sends, SecretsGoAsSaved,
     Req!SecretsGoAsSaved
<1> QED BY <1>1, RequestsInvariant, PTL
=============================================================================
