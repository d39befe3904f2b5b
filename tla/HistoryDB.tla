------------------------------ MODULE HistoryDB ------------------------------
(***************************************************************************)
(* The persistent copy of the history: the Tee that hands every recorded   *)
(* message to the database, the database's queue and writer, its full-text *)
(* index, and the setting that opens, changes and closes it while messages *)
(* arrive (src/go-server/internal/history: sqlite.go, fts.go, clear.go,    *)
(* persistence.go).                                                        *)
(*                                                                         *)
(* The workers of a connection call Tee.Append.  One writer goroutine      *)
(* moves messages from the queue into its batch and the batch into the     *)
(* file.  Settings are changed one at a time, under Persistence.mu, in     *)
(* steps the workers and the writer run between; clearing a connection     *)
(* takes no lock.  A crash keeps the file and the stored choice.           *)
(*                                                                         *)
(* Messages are numbered as they arrive and cost one unit of the queue's   *)
(* budget.  What SQLite does in one statement or transaction is one step.  *)
(* A row has a rowid, which SQLite gives again once the newest rows are    *)
(* gone, and the index keeps words by rowid: <<id, m>> says that the words *)
(* of the payload of m stand under id.  The words of the subject, which    *)
(* leave with the row, are not told apart.                                 *)
(***************************************************************************)
EXTENDS Integers, Sequences, FiniteSets, SequencesExt

CONSTANTS Workers,      \* goroutines that append messages
          Conns,        \* connections
          Excluded,     \* messages the persist filter excludes
          QueueBudget,  \* queueBudget
          QueueLength,  \* dbQueue, what the channel can hold
          BatchSize,    \* dbBatch
          Settings,     \* the settings that may be asked for
          MaxMessages,  \* bound of the model: messages that arrive
          StatementsFail  \* bound of the model: whether a statement on the index may fail

ASSUME SizesAssumption ==
    {QueueBudget, QueueLength, BatchSize, MaxMessages} \subseteq Nat \ {0}
ASSUME WorkersAssumption == IsFiniteSet(Workers)
ASSUME SettingsAssumption ==
    StatementsFail \in BOOLEAN /\ Settings \subseteq [enabled : BOOLEAN, fullText : BOOLEAN, purge : BOOLEAN]

VARIABLES
    file,       \* the database file: its rows by rowid, the index over them, and whether the
                \* insert trigger (fills) and the delete trigger (forgets) exist
    stored,     \* the choice in the settings store
    tee,        \* whether the Tee has a database
    writer,     \* the writer goroutine of the database opened last: run, drain or off
    fullText,   \* DB.fullText
    queue, batch, queueBytes,
    worker,     \* per worker, the message it appends and how far it is
    from,       \* the connection of every message that has arrived
    change,     \* the change of the setting in progress
    written, dropped,   \* messages counted as written and as dropped
    skipped,    \* history: messages whose row was there when the index was emptied, or was
                \* written without the insert trigger, before the index was rebuilt
    cleared     \* history: messages that waited for the writer when a clear was to remove them

durable == <<file, stored>>
db == <<writer, fullText, queue, batch, queueBytes, written, dropped>>
vars == <<file, stored, tee, writer, fullText, queue, batch, queueBytes,
          worker, from, change, written, dropped, skipped, cleared>>

NoFile == [rows |-> <<>>, index |-> {}, fills |-> FALSE, forgets |-> FALSE]
Free == [step |-> "idle", msg |-> 0, stale |-> FALSE]
Boot(choice) == [step |-> "apply", want |-> choice, boot |-> TRUE, failed |-> FALSE, held |-> {}]
\* What the settings store keeps of a choice.
Stored == {[c EXCEPT !.purge = FALSE] : c \in Settings}
Waiting == ToSet(queue) \cup ToSet(batch)

\* The highest rowid in use: a row that is written gets the next one.
Tops(f) == {n \in {0} \cup DOMAIN f.rows : \A id \in DOMAIN f.rows : id <= n}
\* Rows are written, and indexed while the insert trigger exists; what the index has
\* under their rowids already stays.
Inserted(f, msgs, top) ==
    LET new == [id \in top + 1 .. top + Len(msgs) |-> msgs[id - top]]
    IN [f EXCEPT !.rows = [id \in DOMAIN f.rows \cup DOMAIN new |->
                               IF id \in DOMAIN new THEN new[id] ELSE f.rows[id]],
                 !.index = IF f.fills THEN @ \cup {<<id, new[id]>> : id \in DOMAIN new} ELSE @]
\* Rows are deleted.  The delete trigger tells the index of an empty payload: the words
\* of the real one stay, whether it exists or not.
Deleted(f, msgs) == [f EXCEPT !.rows = Restrict(f.rows, {id \in DOMAIN f.rows : f.rows[id] \notin msgs})]
RowsOf(f) == {f.rows[id] : id \in DOMAIN f.rows}

Init ==
    /\ file = NoFile /\ stored \in Stored
    /\ tee = FALSE /\ writer = "off" /\ fullText = FALSE
    /\ queue = <<>> /\ batch = <<>> /\ queueBytes = 0
    /\ worker = [w \in Workers |-> Free] /\ from = <<>>
    /\ change = Boot(stored)
    /\ written = {} /\ dropped = {} /\ skipped = {} /\ cleared = {}

-----------------------------------------------------------------------------
(* Tee.Append and Enqueue. *)

\* Worker w is at a step of the code; its database is the one opened last.
At(w, step) == worker[w].step = step
Goes(w, step) == worker' = [worker EXCEPT ![w].step = step]
Ends(w) == worker' = [worker EXCEPT ![w] = Free]

\* A message arrives; the memory store has it from here on.
Arrive(w, c) ==
    /\ At(w, "idle") /\ Len(from) < MaxMessages
    /\ from' = Append(from, c)
    /\ worker' = [worker EXCEPT ![w] = [Free EXCEPT !.step = "load", !.msg = Len(from) + 1]]
    /\ UNCHANGED <<durable, tee, db, change, skipped, cleared>>

\* t.db.Load and the filter: without a database, or when it is excluded, that was all.
Load(w) ==
    /\ At(w, "load")
    /\ IF tee /\ worker[w].msg \notin Excluded THEN Goes(w, "add") ELSE Ends(w)
    /\ UNCHANGED <<durable, tee, db, from, change, skipped, cleared>>

(* Mutant: the budget is compared with what was taken before this message. *)
AddAfter(w) ==
    /\ At(w, "add") /\ ~worker[w].stale
    /\ queueBytes' = queueBytes + 1
    /\ Goes(w, IF queueBytes > QueueBudget THEN "undo" ELSE "send")
    /\ UNCHANGED <<durable, tee, writer, fullText, queue, batch, from, change, written, dropped, skipped, cleared>>
\* queueBytes.Add, and the comparison with the budget.
Add(w) ==
    /\ At(w, "add") /\ ~worker[w].stale
    /\ queueBytes' = queueBytes + 1
    /\ Goes(w, IF queueBytes' > QueueBudget THEN "undo" ELSE "send")
    /\ UNCHANGED <<durable, tee, writer, fullText, queue, batch, from, change, written, dropped, skipped, cleared>>

\* The message is dropped and gives its share of the budget back.
Undo(w) ==
    /\ At(w, "undo") /\ ~worker[w].stale
    /\ queueBytes' = queueBytes - 1 /\ dropped' = dropped \cup {worker[w].msg}
    /\ Ends(w)
    /\ UNCHANGED <<durable, tee, writer, fullText, queue, batch, from, change, written, skipped, cleared>>

(* Mutant: a message the channel refuses keeps its share of the budget. *)
SendOrLeak(w) ==
    /\ At(w, "send") /\ ~worker[w].stale
    /\ IF Len(queue) < QueueLength
       THEN queue' = Append(queue, worker[w].msg) /\ UNCHANGED dropped
       ELSE dropped' = dropped \cup {worker[w].msg} /\ UNCHANGED queue
    /\ Ends(w)
    /\ UNCHANGED <<durable, tee, writer, fullText, batch, queueBytes, from, change, written, skipped, cleared>>
\* The select on d.queue.
Send(w) ==
    /\ At(w, "send") /\ ~worker[w].stale
    /\ IF Len(queue) < QueueLength
       THEN queue' = Append(queue, worker[w].msg) /\ Ends(w)
       ELSE Goes(w, "undo") /\ UNCHANGED queue
    /\ UNCHANGED <<durable, tee, writer, fullText, batch, queueBytes, from, change, written, dropped, skipped, cleared>>

\* A worker that still holds a database which was closed and replaced since: its
\* message ends in a queue nobody reads.
Strand(w) ==
    /\ worker[w].stale /\ Ends(w)
    /\ UNCHANGED <<durable, tee, db, from, change, skipped, cleared>>

-----------------------------------------------------------------------------
(* The writer. *)

\* A message moves from the channel into the batch.
Take ==
    /\ writer # "off" /\ queue # <<>> /\ Len(batch) < BatchSize
    /\ batch' = Append(batch, Head(queue)) /\ queue' = Tail(queue)
    /\ UNCHANGED <<durable, tee, writer, fullText, queueBytes, worker, from, change, written, dropped, skipped, cleared>>

\* flush: the batch is inserted in one transaction, or counted as dropped.
Flushed(ok) ==
    /\ IF ok
       THEN /\ \E top \in Tops(file) : file' = Inserted(file, batch, top)
            /\ skipped' = IF file.fills THEN skipped ELSE skipped \cup ToSet(batch)
            /\ written' = written \cup ToSet(batch) /\ UNCHANGED dropped
       ELSE dropped' = dropped \cup ToSet(batch) /\ UNCHANGED <<file, skipped, written>>
    /\ queueBytes' = queueBytes - Len(batch) /\ batch' = <<>>

\* Flushed by the ticker, because the batch is full, or with the queue drained.
Flush(ok) ==
    /\ batch # <<>>
    /\ writer = "run" \/ (writer = "drain" /\ (queue = <<>> \/ Len(batch) = BatchSize))
    /\ Flushed(ok)
    /\ UNCHANGED <<stored, tee, writer, fullText, queue, worker, from, change, cleared>>

(* Mutant: an empty batch is not answered. *)
FlushAnswerIfAny(ok) ==
    /\ writer = "run" /\ change.step = "ack" /\ Len(batch) < BatchSize /\ batch # <<>>
    /\ Flushed(ok)
    /\ change' = [change EXCEPT !.step = "triggers"]
    /\ UNCHANGED <<stored, tee, writer, fullText, queue, worker, from, cleared>>
\* The answer to a flush request.
FlushAnswer(ok) ==
    /\ writer = "run" /\ change.step = "ack" /\ Len(batch) < BatchSize
    /\ Flushed(ok)
    /\ change' = [change EXCEPT !.step = "triggers"]
    /\ UNCHANGED <<stored, tee, writer, fullText, queue, worker, from, cleared>>

\* cleanup: what has aged out or does not fit goes, the oldest first.  A delete that the
\* index refuses, of a row it does not know, changes nothing.
Cleanup ==
    /\ writer = "run" /\ batch = <<>>
    /\ \E last \in RowsOf(file) : file' = Deleted(file, 1..last)
    /\ UNCHANGED <<stored, tee, db, worker, from, change, skipped, cleared>>

(* Mutant: the writer leaves as soon as it is told to. *)
LeaveAtOnce ==
    /\ writer = "drain" /\ writer' = "off"
    /\ UNCHANGED <<durable, tee, fullText, queue, batch, queueBytes, worker, from, change, written, dropped, skipped, cleared>>
Leave ==
    /\ writer = "drain" /\ queue = <<>> /\ batch = <<>>
    /\ writer' = "off"
    /\ UNCHANGED <<durable, tee, fullText, queue, batch, queueBytes, worker, from, change, written, dropped, skipped, cleared>>

-----------------------------------------------------------------------------
(* The setting: Persistence.Set and, after a start, NewPersistence.         *)

Step(step) == change' = [change EXCEPT !.step = step]

SetStart(want) ==
    /\ change.step = "idle"
    /\ change' = [Boot(want) EXCEPT !.boot = FALSE]
    /\ UNCHANGED <<durable, tee, db, worker, from, skipped, cleared>>

\* OpenDB: tables, index and triggers are created where they are missing; the index
\* counts as filled.  The counters and the queue are new.
Open ==
    /\ change.step = "apply" /\ change.want.enabled /\ ~tee
    /\ file' = [file EXCEPT !.fills = TRUE, !.forgets = TRUE]
    /\ writer' = "run" /\ fullText' = TRUE
    /\ queue' = <<>> /\ batch' = <<>> /\ queueBytes' = 0 /\ written' = {} /\ dropped' = {}
    /\ worker' = [w \in Workers |-> [worker[w] EXCEPT !.stale = worker[w].step \notin {"idle", "load"}]]
    /\ Step("index")
    /\ UNCHANGED <<stored, tee, from, skipped, cleared>>
(* Mutant: the database is detached only after it was closed. *)
DetachLate ==
    /\ change.step = "apply" /\ ~change.want.enabled
    /\ Step(IF tee THEN "close" ELSE "purge")
    /\ UNCHANGED <<durable, tee, db, worker, from, skipped, cleared>>
\* The database is open already; or is to be closed, and is detached first.
Reuse ==
    /\ change.step = "apply" /\ change.want.enabled /\ tee /\ Step("index")
    /\ UNCHANGED <<durable, tee, db, worker, from, skipped, cleared>>
Detach ==
    /\ change.step = "apply" /\ ~change.want.enabled
    /\ tee' = FALSE /\ Step(IF tee THEN "close" ELSE "purge")
    /\ UNCHANGED <<durable, db, worker, from, skipped, cleared>>

\* SetFullText: nothing to do, or the queue has to be written first.
IndexAsIs ==
    /\ change.step = "index" /\ fullText = change.want.fullText
    /\ Step("attach")
    /\ UNCHANGED <<durable, tee, db, worker, from, skipped, cleared>>
IndexChanges ==
    /\ change.step = "index" /\ fullText # change.want.fullText
    /\ change' = [change EXCEPT !.step = "flush", !.held = Waiting]
    /\ UNCHANGED <<durable, tee, db, worker, from, skipped, cleared>>
\* Flush waits until the channel is empty, then for the answer of the writer.
FlushQueue ==
    /\ change.step = "flush" /\ queue = <<>> /\ Step("ack")
    /\ UNCHANGED <<durable, tee, db, worker, from, skipped, cleared>>

\* A statement failed: the error goes back, after closing what was opened for it.
Fail ==
    /\ StatementsFail
    /\ change' = [change EXCEPT !.step = IF tee THEN "idle" ELSE "close", !.failed = ~tee]
    /\ UNCHANGED <<stored, tee, db, worker, from, skipped, cleared>>
\* setFTSTrigger: the insert trigger, then the delete trigger, is created or dropped.
Triggers ==
    /\ change.step = "triggers"
    /\ file' = [file EXCEPT !.fills = change.want.fullText] /\ Step("second")
    /\ UNCHANGED <<stored, tee, db, worker, from, skipped, cleared>>
SecondTrigger ==
    /\ change.step = "second"
    /\ file' = [file EXCEPT !.forgets = change.want.fullText] /\ Step("rebuild")
    /\ UNCHANGED <<stored, tee, db, worker, from, skipped, cleared>>
\* The first of them fails, or the second: then the first one stays done.
TriggersFail == change.step \in {"triggers", "second"} /\ Fail /\ UNCHANGED file
(* Mutant: the index is emptied and never filled again. *)
RebuildEmpty ==
    /\ change.step = "rebuild"
    /\ file' = [file EXCEPT !.index = {}]
    /\ skipped' = IF change.want.fullText THEN {} ELSE RowsOf(file)
    /\ fullText' = change.want.fullText /\ Step("attach")
    /\ UNCHANGED <<stored, tee, writer, queue, batch, queueBytes, worker, from, written, dropped, cleared>>
\* The index is rebuilt from the rows, or emptied.
Rebuild ==
    /\ change.step = "rebuild"
    /\ file' = [file EXCEPT !.index =
            IF change.want.fullText THEN {<<id, file.rows[id]>> : id \in DOMAIN file.rows} ELSE {}]
    /\ skipped' = IF change.want.fullText THEN {} ELSE RowsOf(file)
    /\ fullText' = change.want.fullText /\ Step("attach")
    /\ UNCHANGED <<stored, tee, writer, queue, batch, queueBytes, worker, from, written, dropped, cleared>>
RebuildFails == change.step = "rebuild" /\ Fail /\ UNCHANGED file

\* tee.SetDB; a start does not store the choice it started from.
Attach ==
    /\ change.step = "attach"
    /\ tee' = TRUE /\ Step(IF change.boot THEN "idle" ELSE "save")
    /\ UNCHANGED <<durable, db, worker, from, skipped, cleared>>

\* Close: the writer is told to stop, and waited for.
Close ==
    /\ change.step = "close"
    /\ writer' = "drain" /\ change' = [change EXCEPT !.step = "closing", !.held = Waiting]
    /\ UNCHANGED <<durable, tee, fullText, queue, batch, queueBytes, worker, from, written, dropped, skipped, cleared>>
Closed ==
    /\ change.step = "closing" /\ writer = "off"
    /\ Step(IF change.failed THEN "idle" ELSE "purge")
    /\ UNCHANGED <<durable, tee, db, worker, from, skipped, cleared>>
\* removeDB, when it was asked for; a start that leaves the database off is done.
Purge ==
    /\ change.step = "purge"
    /\ file' = IF change.want.purge THEN NoFile ELSE file
    /\ Step(IF change.boot THEN "idle" ELSE "save")
    /\ UNCHANGED <<stored, tee, db, worker, from, skipped, cleared>>
Save ==
    /\ change.step = "save"
    /\ stored' = [change.want EXCEPT !.purge = FALSE] /\ Step("idle")
    /\ UNCHANGED <<file, tee, db, worker, from, skipped, cleared>>

-----------------------------------------------------------------------------
\* DropRecorded: the connection is dropped from memory, then deleted from the file.  A
\* delete that the index refuses changes nothing there.
Clear(c) ==
    /\ tee
    /\ file' = Deleted(file, {r \in RowsOf(file) : from[r] = c})
    /\ cleared' = cleared \cup {m \in Waiting : from[m] = c}
    /\ UNCHANGED <<stored, tee, db, worker, from, change, skipped>>

\* The process dies and starts again.
Crash ==
    /\ change.step # "apply" \/ ~change.boot
    /\ tee' = FALSE /\ writer' = "off" /\ fullText' = FALSE
    /\ queue' = <<>> /\ batch' = <<>> /\ queueBytes' = 0 /\ written' = {} /\ dropped' = {}
    /\ worker' = [w \in Workers |-> Free]
    /\ change' = Boot(stored) /\ cleared' = {}
    /\ UNCHANGED <<durable, from, skipped>>

Worker(w) == Load(w) \/ Add(w) \/ Undo(w) \/ Send(w) \/ Strand(w)
Writer == Take \/ Leave \/ (\E ok \in BOOLEAN : Flush(ok) \/ FlushAnswer(ok))
Change ==
    \/ Open \/ Reuse \/ Detach \/ IndexAsIs \/ IndexChanges \/ FlushQueue
    \/ Triggers \/ SecondTrigger \/ TriggersFail \/ Rebuild \/ RebuildFails
    \/ Attach \/ Close \/ Closed \/ Purge \/ Save
Outside ==
    \/ \E w \in Workers, c \in Conns : Arrive(w, c)
    \/ \E want \in Settings : SetStart(want)
    \/ \E c \in Conns : Clear(c)
    \/ Cleanup \/ Crash
Next == (\E w \in Workers : Worker(w)) \/ Writer \/ Change \/ Outside

\* The writer's select takes every ready case in time, workers and requests run on.
Fairness ==
    /\ WF_vars(Take \/ Leave) /\ WF_vars(\E ok \in BOOLEAN : Flush(ok) \/ FlushAnswer(ok))
    /\ WF_vars(Change) /\ \A w \in Workers : WF_vars(Worker(w))
Spec == Init /\ [][Next]_vars /\ Fairness

-----------------------------------------------------------------------------
(* Properties. *)

Messages == 1..MaxMessages
Steps == {"idle", "apply", "index", "flush", "ack", "triggers", "second", "rebuild", "attach", "close", "closing", "purge", "save"}
TypeOK ==
    /\ DOMAIN file.rows \subseteq Nat /\ RowsOf(file) \subseteq DOMAIN from
    /\ file.index \subseteq Nat \X DOMAIN from /\ {file.fills, file.forgets} \subseteq BOOLEAN
    /\ stored \in Stored /\ tee \in BOOLEAN /\ writer \in {"run", "drain", "off"} /\ fullText \in BOOLEAN
    /\ queue \in Seq(DOMAIN from) /\ batch \in Seq(DOMAIN from) /\ Len(batch) <= BatchSize
    /\ worker \in [Workers -> [step : {"idle", "load", "add", "undo", "send"}, msg : 0..Len(from), stale : BOOLEAN]]
    /\ change.step \in Steps /\ change.want \in Settings \cup Stored
    \* the Tee never holds a database whose writer was told to leave
    /\ tee => writer = "run"

\* What waits to be written never takes more than the queue's budget, however many
\* workers compare and add at once (Enqueue adds first and compares what it got).
WithinQueueBudget == Len(queue) + Len(batch) <= QueueBudget

\* Every path gives back what it took of the budget: it is what waits and what the
\* workers hold, so an idle database has all of it.
BudgetAddsUp ==
    queueBytes = Len(queue) + Len(batch)
                   + Cardinality({w \in Workers : worker[w].step \in {"undo", "send"} /\ ~worker[w].stale})

\* The queue's budget over every path of Enqueue, the writer and Close.
BudgetIsKept == TypeOK /\ WithinQueueBudget /\ BudgetAddsUp

\* When a Flush returns, and when a Close does, every message that waited at its start
\* is in the database or counted as dropped.
WaitedForIsWritten ==
    change.step \in {"triggers", "second", "rebuild"} \/ (change.step = "closing" /\ writer = "off")
        => change.held \subseteq written \cup dropped

\* SearchPage for a word that the payloads of S contain: the index answers with the rows
\* it has the word for, and the scan when there are none or the index is off.
ByIndex(S) == {id \in DOMAIN file.rows : \E m \in S : <<id, m>> \in file.index}
ByScan(S) == {id \in DOMAIN file.rows : file.rows[id] \in S}
Found(S) == IF fullText /\ ByIndex(S) # {} THEN ByIndex(S) ELSE ByScan(S)

\* Whatever word is searched, whenever, no stored row that contains it is missed, while
\* messages, deletions, clears, changes of the setting and crashes go on and rowids are
\* given again; only rows stored when the index was switched off, or written while it
\* was off, may be missed, until it is rebuilt (SearchPage, setFTSTrigger, SetFullText).
IndexAnswersForAll ==
    \A S \in SUBSET DOMAIN from : ByScan(S \ skipped) \subseteq Found(S)

\* A change of the setting returns, unless the process dies first: it never waits for
\* a writer that has left or for an answer nobody gives.
ChangesReturn == change.step # "idle" /\ ~change.boot ~> change.step = "idle" \/ change.boot

\* sqlite.go:688 "turning it off empties it, because a half-filled index would answer
\* searches with a subset and call it the result".
IndexIsWhole ==
    tee /\ change.step = "idle" /\ fullText =>
        \A id \in DOMAIN file.rows : <<id, file.rows[id]>> \in file.index

\* sqlite.go:489 "Search finds recorded messages whose subject or payload matches q"
FoundContainIt == \A S \in SUBSET DOMAIN from : Found(S) \subseteq ByScan(S)

\* fts.go:33 "Both go together: an index that is not filled must not be told about
\* deletions either, because FTS5 rejects the removal of a row it never indexed"
TriggersGoTogether == tee /\ change.step = "idle" => file.fills = file.forgets

\* clear.go:69 "Clearing the history has to reach the disk: otherwise the next connect
\* restores the tree from it and the clear looks like it did nothing."
ClearedStaysCleared == RowsOf(file) \cap cleared = {}
=============================================================================
