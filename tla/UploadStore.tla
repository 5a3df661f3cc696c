---------------------------- MODULE UploadStore ----------------------------
(***************************************************************************)
(* The files agents send to the upload links of one built-in MCP           *)
(* (`builtin/src/upload_store.rs`, PUT /uploads).  A file and its metadata  *)
(* are two entries of a directory without any lock: uploads to the same    *)
(* link, the sweeper, the tools that read the files and the deletion of    *)
(* the MCP meet there.                                                     *)
(***************************************************************************)
EXTENDS Naturals, FiniteSets, FiniteSetsExt

CONSTANTS Ids,       \* the upload ids of the links, all made at time 0
          Uploads,   \* requests that send a file
          Sweeper,   \* `start_sweeper`
          Tool,      \* a tool that uses a file
          MAX_STORED_BYTES, MAX_STORED_FILES, MAX_CONCURRENT_UPLOADS,
          MaxBytes,  \* what a link takes
          LinkTime,  \* how long a link is valid
          WholeTime, \* `WHOLE_UPLOAD`: how long a request takes
          KeptTime,  \* KEPT_MS
          MaxClock,  \* bound of the clock
          None

VARIABLES clock,
          mcp,   \* "there", "deleted" while its files are, or "gone"
          dir,   \* the directory exists
          file,  \* file[id]: [by, size, modified], or None
          meta,  \* meta[id]: [by, size, expires], or None; size 0 while it is written
          work,  \* work[a]: what an upload, the sweeper or the tool is doing
          swept  \* history: the links of which something was discarded as expired

vars == << clock, mcp, dir, file, meta, work, swept >>

Actors == Uploads \union {Sweeper, Tool}

Rest(step) ==
  [at |-> step, id |-> None, by |-> None, since |-> 0, size |-> 0, todo |-> {},
   files |-> 0, bytes |-> 0, victim |-> None, back |-> "done"]

At(a, step) == work[a].at = step
Busy(a) == work[a].at \notin {"new", "done"}
Ends(a) == work' = [work EXCEPT ![a] = Rest("done")]

\* `read_metadata` finds metadata that was written whole.
Described(id) == meta[id] # None /\ meta[id].size > 0

\* `discard` of an upload begins: its file goes first, then its metadata.
Discards(a, id, back) ==
  work' = [work EXCEPT ![a].at = "remove_file", ![a].victim = id, ![a].back = back]

\* The uploads that hold a place: from `take` to the end of `save`.
Places == {t \in Uploads : Busy(t)}

-----------------------------------------------------------------------------

Init ==
  /\ clock = 0
  /\ mcp = "there"
  /\ dir = FALSE
  /\ file = [id \in Ids |-> None]
  /\ meta = [id \in Ids |-> None]
  /\ work = [a \in Actors |-> Rest(IF a \in Uploads THEN "new" ELSE "done")]
  /\ swept = {}

\* `admit_upload`: the signature has not expired, the MCP is there, and one of
\* its places is free (else the client is told to try again).  `save` makes
\* the directory and starts to sweep it.
Arrive(t, id) ==
  /\ At(t, "new")
  /\ clock < LinkTime /\ mcp = "there"
  /\ Cardinality(Places) < MAX_CONCURRENT_UPLOADS
  /\ work' = [work EXCEPT ![t] =
       [@ EXCEPT !.at = "sweeping", !.id = id, !.todo = Ids, !.since = clock]]
  /\ dir' = TRUE
  /\ UNCHANGED << clock, mcp, file, meta, swept >>

\* The sweeper starts to `prune`.
Prune ==
  /\ At(Sweeper, "done") /\ dir
  /\ work' = [work EXCEPT ![Sweeper] = [@ EXCEPT !.at = "sweeping", !.todo = Ids, !.since = clock]]
  /\ UNCHANGED << clock, mcp, dir, file, meta, swept >>

\* `sweep` looks at the next file of the directory: one that expired is
\* discarded, the others are counted (only `save` looks at the bytes).  One
\* without metadata is given as long as a finished one.
Sweep(a, id) ==
  /\ At(a, "sweeping") /\ work[a].todo # {} /\ id = Min(work[a].todo)
  /\ LET expires == IF Described(id) THEN meta[id].expires ELSE file[id].modified + KeptTime
         expired == file[id] # None /\ expires <= work[a].since
         bytes == IF a = Sweeper THEN 0 ELSE work[a].bytes + file[id].size
         seen == [work[a] EXCEPT !.todo = @ \ {id}]
     IN /\ work' = [work EXCEPT ![a] =
             IF file[id] = None THEN seen
             ELSE IF expired THEN [seen EXCEPT !.at = "remove_file", !.victim = id, !.back = "sweeping"]
             ELSE [seen EXCEPT !.files = work[a].files + 1, !.bytes = bytes]]
        /\ swept' = IF expired THEN swept \cup {id} ELSE swept
  /\ UNCHANGED << clock, mcp, dir, file, meta >>

\* `discard`, in two steps.
RemoveFile(a) ==
  /\ At(a, "remove_file")
  /\ file' = [file EXCEPT ![work[a].victim] = None]
  /\ work' = [work EXCEPT ![a].at = "remove_meta"]
  /\ UNCHANGED << clock, mcp, dir, meta, swept >>

RemoveMeta(a) ==
  /\ At(a, "remove_meta")
  /\ meta' = [meta EXCEPT ![work[a].victim] = None]
  /\ IF work[a].back = "done" THEN Ends(a)
     ELSE work' = [work EXCEPT ![a].at = work[a].back, ![a].victim = None, ![a].back = "done"]
  /\ UNCHANGED << clock, mcp, dir, file, swept >>

Empty == \A id \in Ids : file[id] = None /\ meta[id] = None

\* `prune_at` removes a directory in which it counted nothing, if it is empty.
PruneEnds ==
  /\ At(Sweeper, "sweeping") /\ work[Sweeper].todo = {}
  /\ dir' = (dir /\ ~ (work[Sweeper].files = 0 /\ Empty))
  /\ Ends(Sweeper)
  /\ UNCHANGED << clock, mcp, file, meta, swept >>

\* `save` refuses a file when what it counted is full, or keeps the rest as
\* the room it has (in `bytes`).
Admit(t) ==
  /\ At(t, "sweeping") /\ work[t].todo = {}
  /\ IF work[t].files >= MAX_STORED_FILES \/ work[t].bytes >= MAX_STORED_BYTES
       THEN Ends(t)
       ELSE work' = [work EXCEPT ![t] =
              [@ EXCEPT !.at = "open", !.bytes = MAX_STORED_BYTES - work[t].bytes, !.files = 0]]
  /\ UNCHANGED << clock, mcp, dir, file, meta, swept >>

\* A mutant of Open: a file that is there is written over.
OpenOver(t) ==
  /\ At(t, "open") /\ dir
  /\ file' = [file EXCEPT ![work[t].id] = [by |-> t, size |-> 0, modified |-> clock]]
  /\ work' = [work EXCEPT ![t].at = "writing"]
  /\ UNCHANGED << clock, mcp, dir, meta, swept >>

\* The file is created if nothing has its name yet (`Taken`); without the
\* directory that fails.
Open(t) ==
  /\ At(t, "open")
  /\ IF dir /\ file[work[t].id] = None
       THEN /\ file' = [file EXCEPT ![work[t].id] = [by |-> t, size |-> 0, modified |-> clock]]
            /\ work' = [work EXCEPT ![t].at = "writing"]
       ELSE Ends(t) /\ UNCHANGED file
  /\ UNCHANGED << clock, mcp, dir, meta, swept >>

\* A piece arrives and fits.  The file may have been deleted meanwhile.
Write(t) ==
  /\ At(t, "writing")
  /\ work[t].size < MaxBytes /\ work[t].size < work[t].bytes
  /\ work' = [work EXCEPT ![t].size = @ + 1]
  /\ LET id == work[t].id IN
       file' = IF file[id] # None /\ file[id].by = t
                 THEN [file EXCEPT ![id].size = @ + 1, ![id].modified = clock]
                 ELSE file
  /\ UNCHANGED << clock, mcp, dir, meta, swept >>

\* The body breaks off, is too slow, empty or too large, or a write fails:
\* nothing is kept of it.
Broken(t) ==
  /\ work[t].at \in {"writing", "describing"}
  /\ Discards(t, work[t].id, "done")
  /\ UNCHANGED << clock, mcp, dir, file, meta, swept >>

\* The file is there: its metadata is created, also only if there is none.
Describe(t) ==
  /\ At(t, "writing") /\ work[t].size > 0
  /\ LET id == work[t].id IN
       IF dir /\ meta[id] = None
         THEN /\ meta' = [meta EXCEPT ![id] = [by |-> t, size |-> 0, expires |-> clock + KeptTime]]
              /\ work' = [work EXCEPT ![t].at = "describing"]
         ELSE Discards(t, id, "done") /\ UNCHANGED meta
  /\ UNCHANGED << clock, mcp, dir, file, swept >>

\* The metadata is written, and the request answered with a receipt.
Receipt(t) ==
  /\ At(t, "describing")
  /\ LET id == work[t].id IN
       meta' = IF meta[id] # None /\ meta[id].by = t
                 THEN [meta EXCEPT ![id].size = work[t].size] ELSE meta
  /\ Ends(t)
  /\ UNCHANGED << clock, mcp, dir, file, swept >>

\* A tool finds an upload; one that expired is discarded.
Find(id) ==
  /\ At(Tool, "done") /\ Described(id)
  /\ IF meta[id].expires <= clock
       THEN /\ work' = [work EXCEPT ![Tool] = [@ EXCEPT !.at = "remove_file", !.victim = id, !.since = clock]]
            /\ swept' = swept \cup {id}
       ELSE /\ work' = [work EXCEPT ![Tool] =
                 [@ EXCEPT !.at = "found", !.id = id, !.by = meta[id].by, !.size = meta[id].size,
                           !.since = clock]]
            /\ UNCHANGED swept
  /\ UNCHANGED << clock, mcp, dir, file, meta >>

\* It reads the file, or is told that it was deleted.
Read ==
  /\ At(Tool, "found")
  /\ Ends(Tool)
  /\ UNCHANGED << clock, mcp, dir, file, meta, swept >>

\* `destroy` of the MCP: its row, then `remove_all`, entry by entry, which
\* fails when something new is in the directory at the end.
Delete ==
  /\ mcp = "there"
  /\ mcp' = "deleted"
  /\ UNCHANGED << clock, dir, file, meta, work, swept >>

RemoveAll ==
  /\ mcp = "deleted"
  /\ \/ /\ \E id \in Ids : file[id] # None /\ file' = [file EXCEPT ![id] = None]
        /\ UNCHANGED << mcp, dir, meta >>
     \/ /\ \E id \in Ids : meta[id] # None /\ meta' = [meta EXCEPT ![id] = None]
        /\ UNCHANGED << mcp, dir, file >>
     \/ mcp' = "gone" /\ dir' = (dir /\ ~Empty) /\ UNCHANGED << file, meta >>
  /\ UNCHANGED << clock, work, swept >>

\* The server stops and starts again.
Crash ==
  /\ \E a \in Actors : Busy(a)
  /\ work' = [a \in Actors |-> IF Busy(a) THEN Rest("done") ELSE work[a]]
  /\ UNCHANGED << clock, mcp, dir, file, meta, swept >>

\* Time passes.  Requests are given WHOLE_UPLOAD to send a file, and a sweep
\* or a read takes no longer.
Tick ==
  /\ clock < MaxClock
  /\ \A a \in Actors : Busy(a) => clock < work[a].since + WholeTime
  /\ clock' = clock + 1
  /\ UNCHANGED << mcp, dir, file, meta, work, swept >>

Next ==
  \/ \E t \in Uploads :
       \/ \E id \in Ids : Arrive(t, id)
       \/ Admit(t) \/ Open(t) \/ Write(t) \/ Broken(t) \/ Describe(t) \/ Receipt(t)
  \/ \E a \in Actors : RemoveFile(a) \/ RemoveMeta(a) \/ \E id \in Ids : Sweep(a, id)
  \/ \E id \in Ids : Find(id)
  \/ Prune \/ PruneEnds \/ Read \/ Delete \/ RemoveAll \/ Crash \/ Tick

Spec == Init /\ [][Next]_vars

-----------------------------------------------------------------------------

Stored == [by : Uploads, size : 0..MaxBytes, modified : 0..MaxClock]
Written == [by : Uploads, size : 0..MaxBytes, expires : KeptTime..(MaxClock + KeptTime)]
Works ==
  [at : {"new", "sweeping", "remove_file", "remove_meta", "open", "writing", "describing",
         "found", "done"},
   id : Ids \union {None}, by : Uploads \union {None}, since : 0..MaxClock, size : 0..MaxBytes,
   todo : SUBSET Ids, files : Nat, bytes : Nat, victim : Ids \union {None},
   back : {"sweeping", "done"}]

\* Every variable has its type.
TypeOK ==
  /\ clock \in 0..MaxClock
  /\ mcp \in {"there", "deleted", "gone"} /\ dir \in BOOLEAN
  /\ file \in [Ids -> Stored \union {None}]
  /\ meta \in [Ids -> Written \union {None}]
  /\ work \in [Actors -> Works]
  /\ swept \subseteq Ids

\* save: "A link takes one file: the name it is stored under is created only if
\* nothing has it yet".  A tool that found an upload reads the whole file its
\* metadata describes, or none: never what another request to the same link is
\* still sending, or what a failed one left (while the MCP is being deleted its
\* files change under a call).
ReadsWhole ==
  LET id == work[Tool].id IN
    mcp = "there" /\ At(Tool, "found") /\ file[id] # None =>
      file[id].size = work[Tool].size /\ file[id].by = work[Tool].by

\* So it is for a link of which nothing was swept away.  After that it is not: a
\* link may be used for as long as a file is kept, and a request that came in
\* time may create its file when the first one is gone.
ReadsWholeUntilSwept == work[Tool].id \notin swept => ReadsWhole

\* Nobody deletes the file of an upload but the upload itself.
Intact(id) == mcp = "there" /\ id \notin swept

Removes(a) == work[a].at \in {"remove_file", "remove_meta"}

\* An upload sees nothing that expires before it came, so it discards no file but
\* the one it made, which is its own as long as it works on it.
UploadOK(t) ==
  /\ ~ At(t, "found")
  /\ Busy(t) => work[t].id \in Ids /\ work[t].since < LinkTime
  /\ Removes(t) => work[t].victim = work[t].id /\ work[t].back = "done"
  /\ work[t].at \in {"writing", "describing", "remove_file"} =>
       LET f == file[work[t].id] IN
         /\ Intact(work[t].id) => f # None /\ f.by = t
         /\ f # None /\ f.by = t => f.size = work[t].size
  /\ At(t, "describing") => work[t].size > 0
  /\ work[t].at \in {"new", "sweeping", "open"} => work[t].size = 0

\* The sweeper and the tool remove what has expired.
OtherOK(a) ==
  /\ work[a].at \in {"sweeping", "remove_file", "remove_meta", "found", "done"}
  /\ Removes(a) => work[a].victim \in swept

\* The upload t, of so many bytes, is the whole file of the link id.
Whole(id, t, size) ==
  At(t, "done") /\ file[id] # None /\ file[id].by = t /\ file[id].size = size

\* The invariant.
Inv ==
  /\ TypeOK
  /\ \A t \in Uploads : UploadOK(t)
  /\ \A a \in {Sweeper, Tool} : OtherOK(a)
  /\ \A id \in Ids : Intact(id) /\ Described(id) => Whole(id, meta[id].by, meta[id].size)
  /\ At(Tool, "found") => work[Tool].id \in Ids /\ work[Tool].by \in Uploads
  /\ At(Tool, "found") /\ Intact(work[Tool].id) => Whole(work[Tool].id, work[Tool].by, work[Tool].size)
=============================================================================
