------------------------------ MODULE CallLog ------------------------------
(***************************************************************************)
(* The log of tool calls (`gateway/src/call_log.rs`).  A call is recorded  *)
(* after it was answered: `record` queues it under a lock and starts a     *)
(* task, unless one is writing, that writes the queue down in batches.     *)
(* What a row keeps is decided by the level of the instance when it is     *)
(* written.  The queue is in memory: a process that stops loses it.        *)
(***************************************************************************)
EXTENDS Integers, Sequences, SequencesExt

CONSTANTS Writers,             \* `write_queue` tasks that may exist
          Flushers,            \* callers of `flush`
          MAX_PENDING_WRITES, WRITE_BATCH,
          Retention,           \* of the rows, in ticks
          MaxRecords,          \* bound of the records queued
          MaxLevels,           \* bound of the levels saved
          MaxClock,            \* bound of the clock
          None

\* Two of the four: the others keep more columns of the same row.
Levels == {"off", "metadata"}

VARIABLES waiting,   \* records in the queue, by the number they were queued under
          pending, queued, written, writing,
          since,     \* since[n]: how many levels had been saved when n was queued
          writer,    \* writer[w]: where a task is, its batch and the level it read
          rows,      \* the table: [record, level, at, there]; a row that was not stored
                     \* or is deleted is not there
          levels,    \* the levels saved so far; the last one is in force
          flush,     \* flush[f]: the number a caller waits for, or None
          clock, last_pruned_at,
          pruners    \* calls of `prune_expired` that are about to delete

queueVars == << waiting, pending, queued, written, writing, since >>
pruneVars == << clock, last_pruned_at, pruners >>
vars == << queueVars, writer, rows, levels, flush, pruneVars >>

NoTask == [at |-> "none", batch |-> << >>, level |-> 0]
At(w, step) == writer[w].at = step

\* What some task took from the queue and has not finished with.
InHand(w) == At(w, "took") \/ At(w, "read")
Outstanding(n) ==
  n \in Range(waiting) \/ \E w \in Writers : InHand(w) /\ n \in Range(writer[w].batch)

-----------------------------------------------------------------------------

Init ==
  /\ waiting = << >> /\ pending = 0 /\ queued = 0 /\ written = 0 /\ writing = FALSE
  /\ since = << >>
  /\ writer = [w \in Writers |-> NoTask]
  /\ rows = << >>
  /\ levels = << "metadata" >>
  /\ flush = [f \in Flushers |-> None]
  /\ clock = 0 /\ last_pruned_at = None /\ pruners = 0

\* A mutant of record: a task is spawned though one is writing.
recordSpawns ==
  /\ queued < MaxRecords
  /\ pending < MAX_PENDING_WRITES
  /\ pending' = pending + 1 /\ queued' = queued + 1
  /\ waiting' = Append(waiting, queued + 1)
  /\ since' = Append(since, Len(levels))
  /\ writing' = TRUE
  /\ \E w \in Writers : At(w, "none") /\ writer' = [writer EXCEPT ![w].at = "loop"]
  /\ UNCHANGED << written, rows, levels, flush, pruneVars >>

\* `record`: dropped when the queue is full; a task is spawned if none writes.
record ==
  /\ queued < MaxRecords
  /\ pending < MAX_PENDING_WRITES
  /\ pending' = pending + 1 /\ queued' = queued + 1
  /\ waiting' = Append(waiting, queued + 1)
  /\ since' = Append(since, Len(levels))
  /\ writing' = TRUE
  /\ IF writing THEN UNCHANGED writer
     ELSE \E w \in Writers : At(w, "none") /\ writer' = [writer EXCEPT ![w].at = "loop"]
  /\ UNCHANGED << written, rows, levels, flush, pruneVars >>

\* `write_queue` takes a batch, or sees the queue empty and ends, under the
\* lock that `record` spawns under.
TakeBatch(w) ==
  /\ At(w, "loop")
  /\ LET count == Min({Len(waiting), WRITE_BATCH}) IN
       IF count = 0
         THEN writer' = [writer EXCEPT ![w] = NoTask] /\ writing' = FALSE /\ UNCHANGED waiting
         ELSE /\ writer' = [writer EXCEPT ![w] = [at |-> "took", batch |-> SubSeq(waiting, 1, count), level |-> 0]]
              /\ waiting' = SubSeq(waiting, count + 1, Len(waiting))
              /\ UNCHANGED writing
  /\ UNCHANGED << pending, queued, written, since, rows, levels, flush, pruneVars >>

\* `persist_batch` reads the settings; logging that is off writes nothing, and
\* neither does a batch whose settings cannot be read.
ReadLevel(w) ==
  /\ At(w, "took")
  /\ \E next \in {"read", "settled"} :
       /\ levels[Len(levels)] = "off" => next = "settled"
       /\ writer' = [writer EXCEPT ![w].at = next, ![w].level = Len(levels)]
  /\ UNCHANGED << queueVars, rows, levels, flush, pruneVars >>

\* The batch is committed, without the records whose insert failed (their
\* token or MCP is gone): all of them when the transaction fails, or when the
\* task of the batch panics.
Commit(w) ==
  /\ At(w, "read")
  /\ \E stored \in SUBSET Range(writer[w].batch) :
       rows' = rows \o [i \in DOMAIN writer[w].batch |->
                         [record |-> writer[w].batch[i], level |-> writer[w].level, at |-> clock,
                          there |-> writer[w].batch[i] \in stored]]
  /\ writer' = [writer EXCEPT ![w].at = "settled"]
  /\ UNCHANGED << queueVars, levels, flush, pruneVars >>

\* Room for new records first, then whoever flushes is told.
Discount(w) ==
  /\ At(w, "settled")
  /\ pending' = IF pending < Len(writer[w].batch) THEN 0 ELSE pending - Len(writer[w].batch)
  /\ writer' = [writer EXCEPT ![w].at = "discounted"]
  /\ UNCHANGED << waiting, queued, written, writing, since, rows, levels, flush, pruneVars >>

Publish(w) ==
  /\ At(w, "discounted")
  /\ written' = written + Len(writer[w].batch)
  /\ writer' = [writer EXCEPT ![w] = [NoTask EXCEPT !.at = "loop"]]
  /\ UNCHANGED << waiting, pending, queued, writing, since, rows, levels, flush, pruneVars >>

\* `flush` notes how many were queued and waits until as many are written.
Flush(f) ==
  /\ flush[f] = None
  /\ flush' = [flush EXCEPT ![f] = queued]
  /\ UNCHANGED << queueVars, writer, rows, levels, pruneVars >>

Flushed(f) ==
  /\ flush[f] # None /\ written >= flush[f]
  /\ flush' = [flush EXCEPT ![f] = None]
  /\ UNCHANGED << queueVars, writer, rows, levels, pruneVars >>

\* A call of `prune_expired` marks its time before it deletes anything, and
\* whether that succeeds or not.
BeginPrune == last_pruned_at' = clock /\ pruners' = pruners + 1

\* The instance settings are saved, then the log is pruned (`force`).
SaveLevel(level) ==
  /\ Len(levels) < MaxLevels
  /\ levels' = Append(levels, level)
  /\ BeginPrune
  /\ UNCHANGED << queueVars, writer, rows, flush, clock >>

\* `prune_expired` with a request: at most once in an interval (here: a tick).
prune_expired ==
  /\ last_pruned_at # clock
  /\ BeginPrune
  /\ UNCHANGED << queueVars, writer, rows, levels, flush, clock >>

DeleteExpired ==
  /\ pruners > 0
  /\ pruners' = pruners - 1
  /\ \/ UNCHANGED rows
     \/ rows' = [i \in DOMAIN rows |->
                  [rows[i] EXCEPT !.there = rows[i].there /\ rows[i].at >= clock - Retention]]
  /\ UNCHANGED << queueVars, writer, levels, flush, clock, last_pruned_at >>

Tick ==
  /\ clock < MaxClock
  /\ clock' = clock + 1
  /\ UNCHANGED << queueVars, writer, rows, levels, flush, last_pruned_at, pruners >>

Write(w) == TakeBatch(w) \/ ReadLevel(w) \/ Commit(w) \/ Discount(w) \/ Publish(w)

Next ==
  \/ record
  \/ \E w \in Writers : Write(w)
  \/ \E f \in Flushers : Flush(f) \/ Flushed(f)
  \/ \E level \in Levels : SaveLevel(level)
  \/ prune_expired
  \/ DeleteExpired
  \/ Tick

\* Tasks that can go on do; a statement of the database ends, well or not.
Fairness ==
  /\ \A w \in Writers : WF_vars(Write(w))
  /\ \A f \in Flushers : WF_vars(Flushed(f))

Spec == Init /\ [][Next]_vars /\ Fairness

-----------------------------------------------------------------------------

Steps == {"none", "loop", "took", "read", "settled", "discounted"}
Works == [at : Steps, batch : Seq(1..MaxRecords), level : 0..MaxLevels]
LoggedRows == [record : 1..MaxRecords, level : 1..MaxLevels, at : 0..MaxClock, there : BOOLEAN]

\* Every variable has its type.
TypeOK ==
  /\ waiting \in Seq(1..MaxRecords)
  /\ pending \in 0..queued /\ queued \in 0..MaxRecords /\ written \in 0..queued
  /\ writing \in BOOLEAN
  /\ since \in Seq(1..MaxLevels) /\ Len(since) = queued
  /\ writer \in [Writers -> Works]
  /\ rows \in Seq(LoggedRows)
  /\ levels \in Seq(Levels) /\ Len(levels) \in 1..MaxLevels
  /\ flush \in [Flushers -> 0..MaxRecords \cup {None}]
  /\ clock \in 0..MaxClock /\ last_pruned_at \in 0..MaxClock \cup {None}
  /\ pruners \in 0..(MaxLevels + MaxClock)

\* The log can be relied on.  Rows come in the order their calls were
\* answered, each once.  A row was written under a level that was in force
\* after its call was queued, never under an older one, and not while logging
\* was off (`persist_batch`).  What `written` counts is settled, so `flush`
\* returns when every record before it is; and the memory the queue takes
\* stays within its limit (`record`, `write_queue`).
LogIsTrue ==
  /\ \A i, j \in DOMAIN rows : i < j => rows[i].record < rows[j].record
  /\ \A i \in DOMAIN rows :
       rows[i].level >= since[rows[i].record] /\ levels[rows[i].level] # "off"
  /\ \A n \in 1..written : ~ Outstanding(n)
  /\ \A n \in 1..queued : Outstanding(n) => n > queued - MAX_PENDING_WRITES

\* One task writes, while there is anything to write; what it took comes
\* before what waits, and after what is written.
OneWriter ==
  /\ \A v, w \in Writers : v = w \/ At(v, "none") \/ At(w, "none")
  /\ (\A w \in Writers : At(w, "none")) => written = queued /\ waiting = << >> /\ pending = 0

BatchOK(w) ==
  LET batch == writer[w].batch IN
    /\ At(w, "none") \/ At(w, "loop") => batch = << >>
    /\ ~ At(w, "none") => /\ written + Len(batch) + Len(waiting) = queued
                         /\ pending = Len(waiting) + IF At(w, "discounted") THEN 0 ELSE Len(batch)
    /\ \A i \in DOMAIN batch : batch[i] = written + i
    /\ At(w, "read") => /\ writer[w].level \in DOMAIN levels /\ levels[writer[w].level] # "off"
                       /\ \A i \in DOMAIN batch : since[batch[i]] <= writer[w].level

\* Rows are of records that some task has finished with.
RowOK(row) ==
  /\ row.level \in DOMAIN levels /\ levels[row.level] # "off"
  /\ row.record <= queued /\ since[row.record] <= row.level
  /\ row.record > written => \E w \in Writers : At(w, "settled") \/ At(w, "discounted")

\* The invariant.
Inv ==
  /\ TypeOK /\ OneWriter
  /\ writing <=> \E w \in Writers : ~ At(w, "none")
  /\ \A w \in Writers : BatchOK(w)
  /\ \A i \in DOMAIN waiting : waiting[i] = queued - Len(waiting) + i
  /\ pending <= MAX_PENDING_WRITES
  /\ \A n \in DOMAIN since : since[n] <= Len(levels)
  /\ \A i \in DOMAIN rows : RowOK(rows[i])
  /\ \A w \in Writers, i \in DOMAIN rows :
       ~ At(w, "none") => rows[i].record <= written + Len(writer[w].batch)
  /\ \A i, j \in DOMAIN rows : i < j => rows[i].record < rows[j].record
  /\ last_pruned_at = None => pruners < Len(levels)
  /\ last_pruned_at # None => last_pruned_at <= clock /\ pruners <= Len(levels) + last_pruned_at

\* Whoever flushes gets on: no record stays in the queue without a task that
\* writes it.
FlushEnds == \A f \in Flushers : flush[f] # None ~> flush[f] = None
=============================================================================
