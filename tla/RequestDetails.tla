--------------------------- MODULE RequestDetails ---------------------------
(***************************************************************************)
(* The log of request details and the database file under it:              *)
(*   src/lib/db/repos/requestDetailsRepo.js  the write buffer, its flush   *)
(*   src/lib/db/adapters/*.js                when a commit reaches the     *)
(*                                           file, what a signal does      *)
(*   server/index.js                         the end of the process        *)
(*                                                                         *)
(* A streaming request saves its detail twice under one id, a placeholder  *)
(* when the stream opens and the answer when it is complete.  Details wait *)
(* in a buffer of the process until a batch is full or a timer fires; the  *)
(* drain awaits the adapter and the configuration, whose import goes       *)
(* through the resolver hook, so anything may happen between its steps.    *)
(* With sql.js the database itself is in memory and written out after a    *)
(* delay.  Pushes keep the order of the calls and timestamps do not tie.   *)
(***************************************************************************)
EXTENDS Integers, Sequences, SequencesExt

CONSTANTS
  Requests,
  BatchSize,      \* observabilityBatchSize
  MaxRecords,     \* observabilityMaxRecords
  FlushInterval,  \* observabilityFlushIntervalMs in ticks
  SaveDelay,      \* SAVE_DEBOUNCE_MS in ticks
  MaxOther        \* bound on the writes of other repositories

ASSUME DetailsAssumption ==
  /\ BatchSize \in Nat \ {0} /\ MaxRecords \in Nat \ {0}
  /\ FlushInterval \in Nat \ {0} /\ SaveDelay \in Nat \ {0} /\ MaxOther \in Nat

Off == -1   \* a timer that is not set

\* One save of a request: its placeholder (1) or its answer (2).
Detail == [id : Requests, stage : 1..2]

\* The tables: the details, oldest first, and how often others have written.
Tables == [details : Seq(Detail), other : 0..MaxOther]

VARIABLES
  driver,    \* "native" or "sql.js", what initAdapter found
  process,   \* "up", "stopping" (a signal, server.close waits), "exited", "crashed"
  conn,      \* conn[r]: "none", "open" or "closed"
  stage,     \* stage[r]: the details request r has saved
  buffer,    \* writeBuffer
  draining,  \* the items flushToDatabase has spliced off
  isFlushing,
  flushIn,   \* flushTimer
  mem,       \* the tables as the process reads them
  disk,      \* the tables in the file
  dirty,     \* of the sql.js adapter
  saveIn,    \* saveTimer of the sql.js adapter
  (* history *)
  excused,   \* details given up: trimmed, in a failed batch, or lost with the process
  failed     \* "batch": none was pushed since one failed; "file": the last write of the file failed

queue == <<buffer, draining, isFlushing, flushIn>>
store == <<mem, disk, dirty, saveIn>>
vars == <<driver, process, conn, stage, queue, store, excused, failed>>

Running == process \in {"up", "stopping"}

TypeOK ==
  /\ driver \in {"native", "sql.js"}
  /\ process \in {"up", "stopping", "exited", "crashed"}
  /\ conn \in [Requests -> {"none", "open", "closed"}]
  /\ stage \in [Requests -> 0..2]
  /\ buffer \in Seq(Detail) /\ draining \in Seq(Detail)
  /\ isFlushing \in BOOLEAN
  /\ flushIn \in Off..FlushInterval
  /\ mem \in Tables /\ disk \in Tables
  /\ Len(mem.details) <= MaxRecords
  /\ dirty \in BOOLEAN
  /\ saveIn \in Off..SaveDelay
  /\ excused \subseteq Detail
  /\ failed \subseteq {"batch", "file"}

NoRows == [details |-> <<>>, other |-> 0]

(* initAdapter takes the first driver that loads. *)
Init ==
  /\ driver \in {"native", "sql.js"}
  /\ process = "up"
  /\ conn = [r \in Requests |-> "none"]
  /\ stage = [r \in Requests |-> 0]
  /\ buffer = <<>> /\ draining = <<>> /\ isFlushing = FALSE /\ flushIn = Off
  /\ mem = NoRows /\ disk = NoRows /\ dirty = FALSE /\ saveIn = Off
  /\ excused = {} /\ failed = {}

-----------------------------------------------------------------------------
(* The database *)

(* Mutant: a pending save is cancelled, and none is scheduled. *)
CommitUnscheduled(tables) ==
  /\ mem' = tables
  /\ IF driver = "native" THEN disk' = tables /\ UNCHANGED <<dirty, saveIn>>
     ELSE dirty' = TRUE /\ saveIn' = Off /\ UNCHANGED disk

(* A statement or a transaction; that of sql.js changes memory only.       *)
Commit(tables) ==
  /\ mem' = tables
  /\ IF driver = "native" THEN disk' = tables /\ UNCHANGED <<dirty, saveIn>>
     ELSE dirty' = TRUE /\ saveIn' = SaveDelay /\ UNCHANGED disk

(* The statements of a batch that is rolled back have scheduled a save.    *)
RolledBack ==
  /\ UNCHANGED <<mem, disk>>
  /\ IF driver = "native" THEN UNCHANGED <<dirty, saveIn>>
     ELSE (dirty' = TRUE /\ saveIn' = SaveDelay) \/ UNCHANGED <<dirty, saveIn>>

(* persist in its try: the file is written whole or, on an error, not.     *)
Persist ==
  \/ disk' = mem /\ dirty' = FALSE /\ failed' = failed \ {"file"}
  \/ UNCHANGED <<disk, dirty>> /\ failed' = failed \cup {"file"}

SaveTimerFires ==
  /\ Running /\ saveIn = 0
  /\ saveIn' = Off
  /\ IF dirty THEN Persist ELSE UNCHANGED <<disk, dirty, failed>>
  /\ UNCHANGED <<driver, process, conn, stage, queue, mem, excused>>

(* Another repository writes, for a request if the server is stopping. *)
OtherWrite ==
  /\ process = "up" \/ (process = "stopping" /\ \E r \in Requests : conn[r] = "open")
  /\ mem.other < MaxOther
  /\ Commit([mem EXCEPT !.other = @ + 1])
  /\ UNCHANGED <<driver, process, conn, stage, queue, excused, failed>>

-----------------------------------------------------------------------------
(* The write buffer *)

(* Mutant: a second flush may start while one awaits. *)
StartFlushUnguarded(waiting) ==
  IF waiting = <<>> THEN buffer' = waiting /\ UNCHANGED <<draining, isFlushing>>
  ELSE buffer' = <<>> /\ draining' = waiting /\ isFlushing' = TRUE

(* flushToDatabase up to its first await. *)
StartFlush(waiting) ==
  IF isFlushing \/ waiting = <<>> THEN buffer' = waiting /\ UNCHANGED <<draining, isFlushing>>
  ELSE buffer' = <<>> /\ draining' = waiting /\ isFlushing' = TRUE

Push(d) ==
  LET waiting == Append(buffer, d) IN
  IF Len(waiting) >= BatchSize
  THEN flushIn' = Off /\ StartFlush(waiting)
  ELSE /\ buffer' = waiting
       /\ flushIn' = IF flushIn = Off THEN FlushInterval ELSE flushIn
       /\ UNCHANGED <<draining, isFlushing>>

(* saveRequestDetail, for the placeholder or the answer. *)
SaveRequestDetail(r) ==
  /\ Running /\ conn[r] = "open" /\ stage[r] < 2
  /\ stage' = [stage EXCEPT ![r] = @ + 1]
  /\ Push([id |-> r, stage |-> stage[r] + 1])
  /\ failed' = failed \ {"batch"}
  /\ UNCHANGED <<driver, process, conn, store, excused>>

FlushTimerFires ==
  /\ Running /\ flushIn = 0
  /\ flushIn' = Off
  /\ StartFlush(buffer)
  /\ UNCHANGED <<driver, process, conn, stage, store, excused, failed>>

(* The loop of flushToDatabase: it takes what was pushed meanwhile, or ends. *)
NextBatch ==
  /\ draining' = buffer /\ buffer' = <<>>
  /\ isFlushing' = (buffer # <<>>)
  /\ UNCHANGED flushIn

(* INSERT ... ON CONFLICT(id) DO UPDATE; the detail gets its new timestamp. *)
Upsert(rows, d) ==
  LET old == {i \in DOMAIN rows : rows[i].id = d.id} IN
  Append(IF old = {} THEN rows ELSE RemoveAt(rows, CHOOSE i \in old : TRUE), d)

(* The statements of a batch, one after the other.                         *)
Written(rows, batch) ==
  LET after[i \in 0..Len(batch)] == IF i = 0 THEN rows ELSE Upsert(after[i - 1], batch[i])
  IN after[Len(batch)]

(* The newest MaxRecords by timestamp. *)
Retained(rows) == LET n == Len(rows) IN IF n > MaxRecords THEN SubSeq(rows, n - MaxRecords + 1, n) ELSE rows

(* The details that trimming takes from rows, with what they superseded.   *)
Trimmed(rows) ==
  {d \in Detail : \E i \in 1..Len(rows) - Len(Retained(rows)) : rows[i].id = d.id /\ d.stage <= rows[i].stage}

WriteBatch ==
  /\ Running /\ isFlushing
  /\ LET rows == Written(mem.details, draining) IN
       /\ Commit([mem EXCEPT !.details = Retained(rows)])
       /\ excused' = excused \cup Trimmed(rows)
  /\ NextBatch
  /\ UNCHANGED <<driver, process, conn, stage, failed>>

(* The transaction throws: it is rolled back, its batch dropped, and the   *)
(* loop left, whatever has been pushed meanwhile.                          *)
BatchFails ==
  /\ Running /\ isFlushing
  /\ draining' = <<>> /\ isFlushing' = FALSE
  /\ excused' = excused \cup ToSet(draining)
  /\ failed' = failed \cup {"batch"}
  /\ RolledBack
  /\ UNCHANGED <<driver, process, conn, stage, buffer, flushIn>>

-----------------------------------------------------------------------------
(* The process *)

Connect(r) ==
  /\ process = "up" /\ conn[r] = "none"
  /\ conn' = [conn EXCEPT ![r] = "open"]
  /\ UNCHANGED <<driver, process, stage, queue, store, excused, failed>>

(* A response ends, or its client leaves before its answer is saved. *)
Close(r) ==
  /\ Running /\ conn[r] = "open"
  /\ conn' = [conn EXCEPT ![r] = "closed"]
  /\ UNCHANGED <<driver, process, stage, queue, store, excused, failed>>

(* What the process takes with it: all that is not in the file. *)
InFile(d) == \E i \in DOMAIN disk.details : disk.details[i].id = d.id /\ disk.details[i].stage >= d.stage
Dies(how) ==
  /\ process' = how
  /\ excused' = excused \cup {d \in Detail : d.stage <= stage[d.id] /\ ~InFile(d)}
  /\ UNCHANGED <<driver, conn, stage, queue, store, failed>>

Crash == Running /\ Dies("crashed")

(* SIGINT or SIGTERM.  Its listeners in the order they were registered:    *)
(* the repository starts a flush, which awaits; the server stops           *)
(* listening; the adapter.  A native adapter closes the file and exits;    *)
(* sql.js writes its file and lets the server finish.                      *)
SignalNative ==
  /\ process = "up" /\ driver = "native"
  /\ Dies("exited")

SignalSqlJs ==
  /\ process = "up" /\ driver = "sql.js"
  /\ process' = "stopping"
  /\ flushIn' = Off
  /\ StartFlush(buffer)
  /\ IF dirty THEN Persist ELSE UNCHANGED <<disk, dirty, failed>>
  /\ UNCHANGED <<driver, conn, stage, mem, saveIn, excused>>

(* The callback of server.close, once every connection has ended. *)
Exit ==
  /\ process = "stopping"
  /\ \A r \in Requests : conn[r] # "open"
  /\ Dies("exited")

Restart ==
  /\ ~Running
  /\ process' = "up"
  /\ conn' = [r \in Requests |-> IF conn[r] = "open" THEN "closed" ELSE conn[r]]
  /\ buffer' = <<>> /\ draining' = <<>> /\ isFlushing' = FALSE /\ flushIn' = Off
  /\ mem' = disk /\ dirty' = FALSE /\ saveIn' = Off
  /\ failed' = {}
  /\ UNCHANGED <<driver, stage, disk, excused>>

Down(n) == IF n > 0 THEN n - 1 ELSE n

Tick ==
  /\ Running
  /\ flushIn' = Down(flushIn) /\ saveIn' = Down(saveIn)
  /\ UNCHANGED <<driver, process, conn, stage, buffer, draining, isFlushing, mem, disk, dirty, excused, failed>>

Next ==
  \/ \E r \in Requests : Connect(r) \/ SaveRequestDetail(r) \/ Close(r)
  \/ FlushTimerFires \/ WriteBatch \/ BatchFails
  \/ SaveTimerFires \/ OtherWrite
  \/ Crash \/ SignalNative \/ SignalSqlJs \/ Exit \/ Restart
  \/ Tick

(* Timers run, the clock advances and what the drain awaits settles.       *)
Fairness ==
  /\ WF_vars(FlushTimerFires) /\ WF_vars(SaveTimerFires)
  /\ WF_vars(WriteBatch \/ BatchFails)
  /\ WF_vars(Tick)

Spec == Init /\ [][Next]_vars /\ Fairness

-----------------------------------------------------------------------------
Saved(d) == d.stage <= stage[d.id]
Waiting(d) == d \in ToSet(buffer) \cup ToSet(draining)
StoredIn(tables, d) == \E i \in DOMAIN tables.details : tables.details[i].id = d.id /\ tables.details[i].stage >= d.stage

(* No detail vanishes between the buffer, a flush and the table, nor does  *)
(* the placeholder of a request replace its answer: whatever was saved     *)
(* waits, is stored or superseded, or was given up for a known cause.      *)
NothingVanishes ==
  Running => \A d \in Detail : Saved(d) => Waiting(d) \/ StoredIn(mem, d) \/ d \in excused

(* Buffered details have a timer or a flush in progress.  Only after a     *)
(* failed batch they have none, until the next detail is pushed: a full    *)
(* batch that was pushed during the flush has stopped the timer.           *)
BufferHasAWriter == Running /\ buffer # <<>> => flushIn # Off \/ isFlushing \/ "batch" \in failed

(* A database that is not dirty is in the file as the process reads it,    *)
(* and a dirty one will be written, unless the last write failed.          *)
DirtyTracksTheFile ==
  Running => /\ ~dirty => disk = mem
             /\ dirty => saveIn # Off \/ "file" \in failed

(* An answer that was saved is in the file sooner or later, if no write    *)
(* fails and the process goes on.                                          *)
AnswerReachesDisk ==
  \A r \in Requests :
    LET answer == [id |-> r, stage |-> 2] IN
    Saved(answer) ~> (StoredIn(disk, answer) \/ answer \in excused \/ failed # {} \/ ~Running)

=============================================================================
