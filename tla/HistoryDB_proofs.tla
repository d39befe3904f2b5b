-------------------------- MODULE HistoryDB_proofs --------------------------
(* Proofs about the persistent copy of the history: for any number of       *)
(* workers and messages, any budget, queue and batch, and any settings, with *)
(* crashes and failing statements anywhere. That a change of the setting    *)
(* returns is a liveness property and stays with TLC.                       *)
EXTENDS HistoryDB, FiniteSetTheorems, SequenceTheorems, TLAPS

(* Every variable has its type; in a step that holds a message there is one. *)
WorkerSteps == {"idle", "load", "add", "undo", "send"}

(* A file with its rows and index, over messages of D.                      *)
IsFile(f, D) ==
    /\ f = [rows |-> f.rows, index |-> f.index, fills |-> f.fills, forgets |-> f.forgets]
    /\ DOMAIN f.rows \subseteq Nat /\ RowsOf(f) \subseteq D
    /\ f.index \subseteq Nat \X D /\ f.fills \in BOOLEAN /\ f.forgets \in BOOLEAN

Types ==
    /\ IsFile(file, DOMAIN from)
    /\ stored \in Stored /\ tee \in BOOLEAN /\ writer \in {"run", "drain", "off"} /\ fullText \in BOOLEAN
    /\ from \in Seq(Conns)
    /\ queue \in Seq(DOMAIN from) /\ batch \in Seq(DOMAIN from) /\ Len(batch) <= BatchSize
    /\ worker \in [Workers -> [step : WorkerSteps, msg : 0..Len(from), stale : BOOLEAN]]
    /\ \A w \in Workers : worker[w].step # "idle" => worker[w].msg \in DOMAIN from
    /\ change \in [step : Steps, want : Settings \cup Stored, boot : BOOLEAN,
                   failed : BOOLEAN, held : SUBSET DOMAIN from]
    /\ written \subseteq DOMAIN from /\ dropped \subseteq DOMAIN from
    /\ queueBytes \in Int /\ skipped \subseteq DOMAIN from

(* The writer over the steps of a change: it runs while the database is     *)
(* opened or used, and has left when nothing is attached.                   *)
Using == {"index", "flush", "ack", "triggers", "second", "rebuild", "attach"}

WriterIsThere ==
    /\ tee \/ change.step \in Using \cup {"close"} => writer = "run"
    /\ change.step \in {"close", "closing", "purge"} => ~tee
    /\ ~tee /\ change.step \in {"idle", "apply", "purge", "save"} => writer = "off"

(* The workers that hold a part of the budget of the present database, and  *)
(* those of them that were admitted.                                        *)
Holding == {w \in Workers : worker[w].step \in {"undo", "send"} /\ ~worker[w].stale}

Admitted == {w \in Workers : worker[w].step = "send" /\ ~worker[w].stale}

BudgetInv ==
    /\ BudgetAddsUp
    /\ Len(queue) + Len(batch) + Cardinality(Admitted) <= QueueBudget

(* Where a message that a change waits for may still be.                    *)
HeldInv ==
    /\ change.step \in {"flush", "closing"} => change.held \subseteq Waiting \cup written \cup dropped
    /\ change.step = "ack" => change.held \subseteq ToSet(batch) \cup written \cup dropped
    /\ change.step \in {"triggers", "second", "rebuild"} \/ (change.step = "closing" /\ writer = "off")
         => change.held \subseteq written \cup dropped

(* A row that was not left out when the index was emptied or the insert     *)
(* trigger was gone is indexed under its rowid.                             *)
IndexInv ==
    \A id \in DOMAIN file.rows : file.rows[id] \notin skipped => <<id, file.rows[id]>> \in file.index

DBInv == Types /\ WriterIsThere /\ BudgetInv /\ HeldInv /\ IndexInv
-----------------------------------------------------------------------------
(* Sequences. *)
LEMMA EmptyToSet == ToSet(<<>>) = {} /\ Len(<<>>) = 0 /\ \A S : <<>> \in Seq(S)
  BY DEF ToSet

LEMMA AppendToSet ==
  ASSUME NEW S, NEW s \in Seq(S), NEW e \in S
  PROVE  /\ Append(s, e) \in Seq(S) /\ Len(Append(s, e)) = Len(s) + 1
         /\ ToSet(Append(s, e)) = ToSet(s) \cup {e}
  <1> DEFINE a == Append(s, e)
  <1>1. /\ a \in Seq(S) /\ Len(a) = Len(s) + 1 /\ Len(s) \in Nat
        /\ \A i \in 1..Len(s) : a[i] = s[i]
        /\ a[Len(s) + 1] = e
    BY AppendProperties, LenProperties
  <1>2. DOMAIN a = 1..Len(a) /\ DOMAIN s = 1..Len(s)
    BY <1>1, LenProperties
  <1> HIDE DEF a
  <1>3. DOMAIN a = DOMAIN s \cup {Len(s) + 1}
    BY <1>1, <1>2
  <1>4. ToSet(a) = ToSet(s) \cup {e}
    BY <1>1, <1>2, <1>3 DEF ToSet
  <1> QED BY <1>1, <1>4 DEF a

LEMMA TailToSet ==
  ASSUME NEW S, NEW s \in Seq(S), s # <<>>
  PROVE  /\ Head(s) \in S /\ Tail(s) \in Seq(S) /\ Len(Tail(s)) = Len(s) - 1
         /\ ToSet(s) = {Head(s)} \cup ToSet(Tail(s))
  <1> DEFINE t == Tail(s)
  <1>1. /\ Head(s) \in S /\ t \in Seq(S) /\ Len(t) = Len(s) - 1
        /\ \A i \in 1..Len(t) : t[i] = s[i + 1]
        /\ Len(s) \in Nat \ {0} /\ Head(s) = s[1]
    BY HeadTailProperties, EmptySeq
  <1>2. DOMAIN t = 1..Len(t) /\ DOMAIN s = 1..Len(s)
    BY <1>1, LenProperties
  <1> HIDE DEF t
  <1>3. ASSUME NEW i \in DOMAIN s, i # 1
        PROVE  i - 1 \in DOMAIN t /\ t[i - 1] = s[i]
    BY <1>1, <1>2, <1>3
  <1>4. ASSUME NEW i \in DOMAIN t
        PROVE  i + 1 \in DOMAIN s /\ t[i] = s[i + 1]
    BY <1>1, <1>2
  <1>5. 1 \in DOMAIN s
    BY <1>1, <1>2
  <1>6. ToSet(s) \subseteq {Head(s)} \cup ToSet(t)
    BY <1>1, <1>3 DEF ToSet
  <1>7. {Head(s)} \cup ToSet(t) \subseteq ToSet(s)
    BY <1>1, <1>4, <1>5 DEF ToSet
  <1> QED BY <1>1, <1>6, <1>7 DEF t

LEMMA ToSetType ==
  ASSUME NEW S, NEW s \in Seq(S)
  PROVE  ToSet(s) \subseteq S /\ Len(s) \in Nat /\ (Len(s) = 0 <=> s = <<>>)
  <1>1. DOMAIN s = 1..Len(s) /\ Len(s) \in Nat /\ \A i \in 1..Len(s) : s[i] \in S
    BY LenProperties, ElementOfSeq
  <1>2. Len(s) = 0 <=> s = <<>>
    BY EmptySeq
  <1> QED BY <1>1, <1>2 DEF ToSet
-----------------------------------------------------------------------------
(* The file. *)
LEMMA EmptyFile == \A D : IsFile(NoFile, D) /\ DOMAIN NoFile.rows = {}
  <1>1. DOMAIN <<>> = {}
    OBVIOUS
  <1> QED
    BY <1>1 DEF IsFile, NoFile, RowsOf

LEMMA MoreMessages ==
  ASSUME NEW D, NEW E, D \subseteq E, NEW f, IsFile(f, D)
  PROVE  IsFile(f, E)
  BY DEF IsFile

(* A row that is written is one of those that were there, or one of the     *)
(* batch, and then it is indexed while the insert trigger exists.           *)
LEMMA InsertedIs ==
  ASSUME NEW D, NEW f, IsFile(f, D), NEW msgs \in Seq(D), NEW top \in Tops(f), NEW g, g = Inserted(f, msgs, top)
  PROVE  /\ IsFile(g, D) /\ f.index \subseteq g.index
         /\ \A id \in DOMAIN g.rows :
                \/ id \in DOMAIN f.rows /\ g.rows[id] = f.rows[id]
                \/ g.rows[id] \in ToSet(msgs) /\ (f.fills => <<id, g.rows[id]>> \in g.index)
  <1> DEFINE N == top + 1 .. top + Len(msgs)
             new == [id \in N |-> msgs[id - top]]
             words == {<<id, new[id]>> : id \in DOMAIN new}
  <1>1. top \in Nat /\ Len(msgs) \in Nat /\ DOMAIN msgs = 1..Len(msgs)
    BY LenProperties DEF Tops, IsFile
  <1>2. \A id \in N : id \in Nat /\ id - top \in DOMAIN msgs
    BY <1>1
  <1>3. DOMAIN new = N /\ \A id \in N : new[id] \in ToSet(msgs)
    BY <1>2 DEF ToSet
  <1>4. ToSet(msgs) \subseteq D
    BY ToSetType
  <1> HIDE DEF N, new
  <1>5. words \subseteq Nat \X D /\ \A id \in N : <<id, new[id]>> \in words
    BY <1>2, <1>3, <1>4
  <1> HIDE DEF words
  <1> DEFINE rows == [id \in DOMAIN f.rows \cup DOMAIN new |-> IF id \in DOMAIN new THEN new[id] ELSE f.rows[id]]
             index == IF f.fills THEN f.index \cup words ELSE f.index
  <1>6. g = [f EXCEPT !.rows = rows, !.index = index]
    BY DEF Inserted, N, new, words
  <1>7. f = [rows |-> f.rows, index |-> f.index, fills |-> f.fills, forgets |-> f.forgets]
    BY DEF IsFile
  <1>8. DOMAIN rows = DOMAIN f.rows \cup N
    BY <1>3
  <1>9. \A id \in DOMAIN rows : rows[id] = IF id \in N THEN new[id] ELSE f.rows[id]
    BY <1>3
  <1> HIDE DEF rows, index
  <1>10. g = [rows |-> rows, index |-> index, fills |-> f.fills, forgets |-> f.forgets]
    BY <1>6, <1>7
  <1>11. g.rows = rows /\ g.index = index /\ g.fills = f.fills /\ g.forgets = f.forgets
    BY <1>10
  <1>12. f.index \subseteq index /\ index \subseteq Nat \X D
    BY <1>5 DEF index, IsFile
  <1>13. \A id \in DOMAIN rows : id \in Nat /\ rows[id] \in D
    BY <1>2, <1>3, <1>4, <1>8, <1>9 DEF IsFile, RowsOf
  <1>14. IsFile(g, D)
    BY <1>10, <1>11, <1>12, <1>13 DEF IsFile, RowsOf
  <1>15. ASSUME NEW id \in DOMAIN g.rows
         PROVE  \/ id \in DOMAIN f.rows /\ g.rows[id] = f.rows[id]
                \/ g.rows[id] \in ToSet(msgs) /\ (f.fills => <<id, g.rows[id]>> \in g.index)
    <2>1. CASE id \in N
      <3>1. g.rows[id] = new[id] /\ new[id] \in ToSet(msgs) /\ <<id, new[id]>> \in words
        BY <1>3, <1>5, <1>9, <1>11, <2>1
      <3>2. f.fills => <<id, new[id]>> \in index
        BY <3>1 DEF index
      <3> QED BY <1>11, <3>1, <3>2
    <2>2. CASE id \notin N
      BY <1>8, <1>9, <1>11, <2>2
    <2> QED BY <2>1, <2>2
  <1> QED BY <1>11, <1>12, <1>14, <1>15

(* A row that is left is one that was there; the index stays as it is.      *)
LEMMA DeletedIs ==
  ASSUME NEW D, NEW f, IsFile(f, D), NEW S, NEW g, g = Deleted(f, S)
  PROVE  /\ IsFile(g, D) /\ g.index = f.index
         /\ \A id \in DOMAIN g.rows : id \in DOMAIN f.rows /\ g.rows[id] = f.rows[id]
  <1> DEFINE left == {id \in DOMAIN f.rows : f.rows[id] \notin S}
             rows == Restrict(f.rows, left)
  <1>1. DOMAIN rows = left /\ \A id \in left : rows[id] = f.rows[id]
    BY DEF Restrict
  <1>2. left \subseteq DOMAIN f.rows
    OBVIOUS
  <1>3. g = [f EXCEPT !.rows = rows]
    BY DEF Deleted
  <1> HIDE DEF left, rows
  <1>4. g = [rows |-> rows, index |-> f.index, fills |-> f.fills, forgets |-> f.forgets]
    BY <1>3 DEF IsFile
  <1>5. g.rows = rows /\ g.index = f.index /\ g.fills = f.fills /\ g.forgets = f.forgets
    BY <1>4
  <1>6. IsFile(g, D)
    BY <1>1, <1>2, <1>4, <1>5 DEF IsFile, RowsOf
  <1> QED BY <1>1, <1>2, <1>5, <1>6
-----------------------------------------------------------------------------
(* The types. *)
LEMMA InitTypes == Init => Types
  <1> SUFFICES ASSUME Init PROVE Types
    OBVIOUS
  <1>1. from = <<>> /\ DOMAIN from = {} /\ Len(from) = 0 /\ from \in Seq(Conns)
    BY EmptyToSet DEF Init
  <1>3. change \in [step : Steps, want : Settings \cup Stored, boot : BOOLEAN,
                    failed : BOOLEAN, held : SUBSET DOMAIN from]
    BY <1>1 DEF Init, Boot, Steps
  <1>4. /\ worker \in [Workers -> [step : WorkerSteps, msg : 0..Len(from), stale : BOOLEAN]]
        /\ \A w \in Workers : worker[w].step = "idle"
    BY <1>1 DEF Init, Free, WorkerSteps
  <1>5. queue \in Seq(DOMAIN from) /\ batch \in Seq(DOMAIN from) /\ Len(batch) <= BatchSize
    BY EmptyToSet, SizesAssumption DEF Init
  <1>6. IsFile(file, DOMAIN from)
    BY EmptyFile DEF Init
  <1>7. stored \in Stored /\ tee \in BOOLEAN /\ writer \in {"run", "drain", "off"}
    BY DEF Init
  <1>8. fullText \in BOOLEAN /\ skipped \subseteq DOMAIN from
    BY DEF Init
  <1>9. written \subseteq DOMAIN from /\ dropped \subseteq DOMAIN from /\ queueBytes \in Int
    BY DEF Init
  <1> QED BY <1>1, <1>3, <1>4, <1>5, <1>6, <1>7, <1>8, <1>9 DEF Types

(* A worker moves on with the message it has, or is done with it. *)
LEMMA WorkerMoves ==
  ASSUME Types, NEW w \in Workers, UNCHANGED from,
         Ends(w) \/ \E s \in WorkerSteps : worker[w].step # "idle" /\ Goes(w, s)
  PROVE  /\ worker' \in [Workers -> [step : WorkerSteps, msg : 0..Len(from), stale : BOOLEAN]]
         /\ \A v \in Workers : worker'[v].step # "idle" => worker'[v].msg \in DOMAIN from
  <1> Free \in [step : WorkerSteps, msg : 0..Len(from), stale : BOOLEAN] /\ Free.step = "idle"
    <2> from \in Seq(Conns)
      BY DEF Types
    <2> Len(from) \in Nat
      BY LenProperties
    <2> QED BY DEF Free, WorkerSteps
  <1>1. CASE Ends(w)
    BY <1>1 DEF Ends, Types
  <1>2. ASSUME NEW s \in WorkerSteps, worker[w].step # "idle", Goes(w, s)
        PROVE  /\ worker' \in [Workers -> [step : WorkerSteps, msg : 0..Len(from), stale : BOOLEAN]]
               /\ \A v \in Workers : worker'[v].step # "idle" => worker'[v].msg \in DOMAIN from
    BY <1>2 DEF Goes, Types
  <1> QED BY <1>1, <1>2

LEMMA TypesWorker ==
  ASSUME Types, NEW w \in Workers, Worker(w)
  PROVE  Types'
  <1>1. UNCHANGED <<durable, tee, writer, fullText, batch, from, change, written, skipped>>
    BY DEF Worker, Load, Add, Undo, Send, Strand, db
  <1>2. Ends(w) \/ \E s \in WorkerSteps : worker[w].step # "idle" /\ Goes(w, s)
    <2>1. CASE Load(w)
      BY <2>1 DEF Load, At, WorkerSteps
    <2>2. CASE Add(w)
      BY <2>2 DEF Add, At, WorkerSteps
    <2>3. CASE Undo(w) \/ Strand(w)
      BY <2>3 DEF Undo, Strand
    <2>4. CASE Send(w)
      BY <2>4 DEF Send, At, WorkerSteps
    <2> QED BY <2>1, <2>2, <2>3, <2>4 DEF Worker
  <1>3. /\ worker' \in [Workers -> [step : WorkerSteps, msg : 0..Len(from), stale : BOOLEAN]]
        /\ \A v \in Workers : worker'[v].step # "idle" => worker'[v].msg \in DOMAIN from
    BY <1>1, <1>2, WorkerMoves
  <1>4. /\ queue' \in Seq(DOMAIN from) /\ dropped' \subseteq DOMAIN from /\ queueBytes' \in Int
    <2>1. CASE Load(w) \/ Strand(w)
      BY <2>1 DEF Load, Strand, db, Types
    <2>2. CASE Add(w)
      <3>1. queueBytes \in Int /\ queue \in Seq(DOMAIN from) /\ dropped \subseteq DOMAIN from
        BY DEF Types
      <3>2. queueBytes' = queueBytes + 1 /\ UNCHANGED <<queue, dropped, from>>
        BY <2>2 DEF Add
      <3> QED BY <3>1, <3>2
    <2>3. CASE Undo(w)
      <3>1. queueBytes \in Int /\ queue \in Seq(DOMAIN from) /\ worker[w].msg \in DOMAIN from
        BY <2>3 DEF Undo, At, Types
      <3>2. dropped \subseteq DOMAIN from
        BY DEF Types
      <3>3. queueBytes' = queueBytes - 1 /\ dropped' = dropped \cup {worker[w].msg} /\ UNCHANGED <<queue, from>>
        BY <2>3 DEF Undo
      <3> QED BY <3>1, <3>2, <3>3
    <2>4. CASE Send(w)
      <3>1. worker[w].msg \in DOMAIN from /\ queue \in Seq(DOMAIN from)
        BY <2>4 DEF Send, At, Types
      <3>2. Append(queue, worker[w].msg) \in Seq(DOMAIN from)
        BY <3>1, AppendToSet
      <3> QED BY <2>4, <3>1, <3>2 DEF Send, Types
    <2> QED BY <2>1, <2>2, <2>3, <2>4 DEF Worker
  <1> QED BY <1>1, <1>3, <1>4 DEF Types, durable

LEMMA TypesWriter ==
  ASSUME Types, Writer
  PROVE  Types'
  <1> from \in Seq(Conns) /\ queue \in Seq(DOMAIN from) /\ batch \in Seq(DOMAIN from)
    BY DEF Types
  <1>1. CASE Take
    <2>1. queue # <<>> /\ Len(batch) < BatchSize /\ batch' = Append(batch, Head(queue)) /\ queue' = Tail(queue)
      BY <1>1 DEF Take
    <2>2. Head(queue) \in DOMAIN from /\ queue' \in Seq(DOMAIN from)
      BY <2>1, TailToSet
    <2>3. batch' \in Seq(DOMAIN from) /\ Len(batch') = Len(batch) + 1 /\ Len(batch) \in Nat
      BY <2>1, <2>2, AppendToSet, ToSetType
    <2>4. Len(batch') <= BatchSize
      BY <2>1, <2>3, SizesAssumption
    <2> QED BY <1>1, <2>2, <2>3, <2>4 DEF Take, Types, durable
  <1>2. CASE Leave
    BY <1>2 DEF Leave, Types, durable
  <1>3. ASSUME NEW ok \in BOOLEAN, Flush(ok) \/ FlushAnswer(ok)
        PROVE  Types'
    <2>1. /\ UNCHANGED <<stored, tee, writer, fullText, queue, worker, from>>
          /\ Flushed(ok)
          /\ change' = change \/ change' = [change EXCEPT !.step = "triggers"]
      BY <1>3 DEF Flush, FlushAnswer
    <2>2. ToSet(batch) \subseteq DOMAIN from /\ Len(batch) \in Nat
      BY ToSetType
    <2>3. batch' \in Seq(DOMAIN from) /\ Len(batch') <= BatchSize
      BY <2>1, EmptyToSet, SizesAssumption DEF Flushed
    <2>4. IsFile(file', DOMAIN from)
      BY <2>1, InsertedIs DEF Flushed, Types
    <2>8. skipped' \subseteq DOMAIN from
      BY <2>1, <2>2 DEF Flushed, Types
    <2>6. written' \subseteq DOMAIN from /\ dropped' \subseteq DOMAIN from
      BY <2>1, <2>2 DEF Flushed, Types
    <2>7. queueBytes' \in Int
      BY <2>1, <2>2 DEF Flushed, Types
    <2>5. change' \in [step : Steps, want : Settings \cup Stored, boot : BOOLEAN,
                       failed : BOOLEAN, held : SUBSET DOMAIN from]
      BY <2>1 DEF Types, Steps
    <2> QED BY <2>1, <2>3, <2>4, <2>5, <2>6, <2>7, <2>8 DEF Types
  <1> QED BY <1>1, <1>2, <1>3 DEF Writer

(* What the settings store keeps of a choice is a choice without a purge.   *)
LEMMA StoredIsStored ==
  ASSUME NEW c \in Settings \cup Stored
  PROVE  [c EXCEPT !.purge = FALSE] \in Stored
  <1>1. CASE c \in Settings
    BY <1>1 DEF Stored
  <1>2. ASSUME NEW d \in Settings, c = [d EXCEPT !.purge = FALSE]
        PROVE  [c EXCEPT !.purge = FALSE] = c
    BY <1>2, SettingsAssumption
  <1> QED BY <1>1, <1>2 DEF Stored

LEMMA BootType ==
  ASSUME NEW c \in Settings \cup Stored, NEW b \in BOOLEAN, NEW S
  PROVE  [Boot(c) EXCEPT !.boot = b] \in [step : Steps, want : Settings \cup Stored, boot : BOOLEAN,
                                          failed : BOOLEAN, held : SUBSET S]
  BY DEF Boot, Steps

LEMMA TypesChange ==
  ASSUME Types, Change
  PROVE  Types'
  <1> DEFINE Changes == [step : Steps, want : Settings \cup Stored, boot : BOOLEAN,
                         failed : BOOLEAN, held : SUBSET DOMAIN from]
  <1> from \in Seq(Conns) /\ queue \in Seq(DOMAIN from) /\ batch \in Seq(DOMAIN from)
    BY DEF Types
  <1>s. \A s \in Steps : [change EXCEPT !.step = s] \in Changes
    BY DEF Types
  <1>1. CASE Open
    <2>1. IsFile(file', DOMAIN from)
      <3>1. file' = [file EXCEPT !.fills = TRUE, !.forgets = TRUE]
        BY <1>1 DEF Open
      <3> QED BY <3>1 DEF IsFile, RowsOf, Types
    <2>2. queue' \in Seq(DOMAIN from) /\ batch' \in Seq(DOMAIN from) /\ Len(batch') <= BatchSize
      BY <1>1, EmptyToSet, SizesAssumption DEF Open
    <2>3. /\ worker' \in [Workers -> [step : WorkerSteps, msg : 0..Len(from), stale : BOOLEAN]]
          /\ \A w \in Workers : worker'[w].step # "idle" => worker'[w].msg \in DOMAIN from
      <3>1. worker' = [w \in Workers |-> [worker[w] EXCEPT !.stale = worker[w].step \notin {"idle", "load"}]]
        BY <1>1 DEF Open
      <3>2. ASSUME NEW w \in Workers
            PROVE  /\ worker'[w] \in [step : WorkerSteps, msg : 0..Len(from), stale : BOOLEAN]
                   /\ worker'[w].step = worker[w].step /\ worker'[w].msg = worker[w].msg
        <4>1. worker[w] \in [step : WorkerSteps, msg : 0..Len(from), stale : BOOLEAN]
          BY DEF Types
        <4>2. PICK old \in BOOLEAN : old = (worker[w].step \notin {"idle", "load"})
          OBVIOUS
        <4>3. worker'[w] = [worker[w] EXCEPT !.stale = old]
          BY <3>1, <4>2
        <4> QED BY <4>1, <4>3
      <3>3. worker' \in [Workers -> [step : WorkerSteps, msg : 0..Len(from), stale : BOOLEAN]]
        BY <3>1, <3>2
      <3>4. \A w \in Workers : worker[w].step # "idle" => worker[w].msg \in DOMAIN from
        BY DEF Types
      <3> QED BY <3>2, <3>3, <3>4
    <2>4. change' \in Changes
      BY <1>1, <1>s DEF Open, Step, Steps
    <2>5. UNCHANGED <<stored, tee, from>> /\ writer' = "run" /\ queueBytes' = 0
      BY <1>1 DEF Open
    <2>6. fullText' \in BOOLEAN /\ skipped' \subseteq DOMAIN from
      BY <1>1 DEF Open, Types
    <2>7. written' \subseteq DOMAIN from /\ dropped' \subseteq DOMAIN from
      BY <1>1 DEF Open
    <2> QED BY <2>1, <2>2, <2>3, <2>4, <2>5, <2>6, <2>7 DEF Types
  <1>2. CASE Reuse \/ Detach \/ IndexAsIs \/ FlushQueue \/ Attach \/ Closed
    <2>1. UNCHANGED <<durable, db, worker, from, skipped>> /\ tee' \in BOOLEAN
      BY <1>2 DEF Reuse, Detach, IndexAsIs, FlushQueue, Attach, Closed, Types
    <2>2. change' \in Changes
      BY <1>2, <1>s DEF Reuse, Detach, IndexAsIs, FlushQueue, Attach, Closed, Step, Steps
    <2> QED BY <2>1, <2>2 DEF Types, durable, db
  <1>3. CASE IndexChanges \/ Close
    <2>1. UNCHANGED <<durable, tee, fullText, queue, batch, queueBytes, worker, from, written, dropped, skipped>>
          /\ writer' \in {"run", "drain", "off"}
      BY <1>3 DEF IndexChanges, Close, Types, db
    <2>2. Waiting \subseteq DOMAIN from
      BY ToSetType DEF Waiting
    <2>3. change' \in Changes
      BY <1>3, <2>2 DEF IndexChanges, Close, Types, Steps
    <2> QED BY <2>1, <2>3 DEF Types, durable
  <1>4. CASE Triggers \/ SecondTrigger \/ Rebuild \/ Purge
    <2>1. change.want \in Settings \cup Stored
      BY DEF Types
    <2>2. change.want.fullText \in BOOLEAN
      BY <2>1, SettingsAssumption DEF Stored
    <2>0. IsFile(file, DOMAIN from)
      BY DEF Types
    <2>3. IsFile(file', DOMAIN from)
      <3>1. CASE Triggers
        <4>1. file' = [file EXCEPT !.fills = change.want.fullText]
          BY <3>1 DEF Triggers
        <4> QED BY <2>0, <2>2, <4>1 DEF IsFile, RowsOf
      <3>2. CASE SecondTrigger
        <4>1. file' = [file EXCEPT !.forgets = change.want.fullText]
          BY <3>2 DEF SecondTrigger
        <4> QED BY <2>0, <2>2, <4>1 DEF IsFile, RowsOf
      <3>3. CASE Rebuild
        <4> DEFINE all == {<<id, file.rows[id]>> : id \in DOMAIN file.rows}
        <4>1. all \subseteq Nat \X DOMAIN from
          BY <2>0 DEF IsFile, RowsOf
        <4>2. PICK index \in SUBSET (Nat \X DOMAIN from) : file' = [file EXCEPT !.index = index]
          <5>1. file' = [file EXCEPT !.index = IF change.want.fullText THEN all ELSE {}]
            BY <3>3 DEF Rebuild
          <5> HIDE DEF all
          <5> QED BY <4>1, <5>1
        <4> QED BY <2>0, <4>2 DEF IsFile, RowsOf
      <3>4. CASE Purge
        BY <2>0, <3>4, EmptyFile DEF Purge
      <3> QED BY <1>4, <3>1, <3>2, <3>3, <3>4
    <2>4. /\ UNCHANGED <<stored, tee, writer, queue, batch, queueBytes, worker, from, written, dropped>>
          /\ fullText' \in BOOLEAN /\ skipped' \subseteq DOMAIN from
      BY <1>4, <2>0, <2>2 DEF Triggers, SecondTrigger, Rebuild, Purge, Types, db, IsFile
    <2>5. change' \in Changes
      BY <1>4, <1>s DEF Triggers, SecondTrigger, Rebuild, Purge, Step, Steps
    <2> QED BY <2>3, <2>4, <2>5 DEF Types
  <1>5. CASE TriggersFail \/ RebuildFails
    <2>1. UNCHANGED <<durable, tee, db, worker, from>> /\ skipped' \subseteq DOMAIN from
      BY <1>5 DEF TriggersFail, RebuildFails, Fail, Types, durable
    <2>2. change' \in Changes
      BY <1>5 DEF TriggersFail, RebuildFails, Fail, Types, Steps
    <2> QED BY <2>1, <2>2 DEF Types, durable, db
  <1>6. CASE Save
    <2>1. stored' \in Stored
      BY <1>6, StoredIsStored DEF Save, Types
    <2>2. change' \in Changes
      BY <1>6, <1>s DEF Save, Step, Steps
    <2> QED BY <1>6, <2>1, <2>2 DEF Save, Types, db
  <1> QED BY <1>1, <1>2, <1>3, <1>4, <1>5, <1>6 DEF Change

LEMMA TypesOutside ==
  ASSUME Types, Outside
  PROVE  Types'
  <1> from \in Seq(Conns) /\ queue \in Seq(DOMAIN from) /\ batch \in Seq(DOMAIN from)
    BY DEF Types
  <1> DOMAIN from = 1..Len(from) /\ Len(from) \in Nat
    BY LenProperties
  <1>1. ASSUME NEW w \in Workers, NEW c \in Conns, Arrive(w, c)
        PROVE  Types'
    <2>1. from' \in Seq(Conns) /\ Len(from') = Len(from) + 1
      BY <1>1, AppendToSet DEF Arrive
    <2>2. DOMAIN from' = 1..Len(from') /\ DOMAIN from \subseteq DOMAIN from' /\ Len(from) + 1 \in DOMAIN from'
      BY <2>1, LenProperties
    <2>3. queue' \in Seq(DOMAIN from') /\ batch' \in Seq(DOMAIN from') /\ Len(batch') <= BatchSize
      BY <1>1, <2>2, SeqMonotonic DEF Arrive, db, Types
    <2>4. /\ worker' \in [Workers -> [step : WorkerSteps, msg : 0..Len(from'), stale : BOOLEAN]]
          /\ \A v \in Workers : worker'[v].step # "idle" => worker'[v].msg \in DOMAIN from'
      <3>1. DOMAIN worker = Workers
        BY DEF Types
      <3>2. [Free EXCEPT !.step = "load", !.msg = Len(from) + 1]
               \in [step : WorkerSteps, msg : 0..Len(from'), stale : BOOLEAN]
        <4>1. Free = [step |-> "idle", msg |-> 0, stale |-> FALSE]
          BY DEF Free
        <4>2. "load" \in WorkerSteps /\ Len(from) + 1 \in 0..Len(from') /\ FALSE \in BOOLEAN
          BY <2>1 DEF WorkerSteps
        <4> HIDE DEF WorkerSteps
        <4> QED BY <4>1, <4>2
      <3>3. \A v \in Workers : worker[v] \in [step : WorkerSteps, msg : 0..Len(from'), stale : BOOLEAN]
        BY <2>1 DEF Types
      <3>4. [Free EXCEPT !.step = "load", !.msg = Len(from) + 1].msg = Len(from) + 1
        BY DEF Free
      <3> QED BY <1>1, <2>2, <3>1, <3>2, <3>3, <3>4 DEF Arrive, Types
    <2>5. change' \in [step : Steps, want : Settings \cup Stored, boot : BOOLEAN,
                       failed : BOOLEAN, held : SUBSET DOMAIN from']
      BY <1>1, <2>2 DEF Arrive, Types
    <2>6. IsFile(file', DOMAIN from') /\ skipped' \subseteq DOMAIN from'
      BY <1>1, <2>2, MoreMessages DEF Arrive, Types, durable
    <2> QED BY <1>1, <2>1, <2>2, <2>3, <2>4, <2>5, <2>6 DEF Arrive, Types, durable, db
  <1>2. ASSUME NEW want \in Settings, SetStart(want)
        PROVE  Types'
    <2>1. change' \in [step : Steps, want : Settings \cup Stored, boot : BOOLEAN,
                       failed : BOOLEAN, held : SUBSET DOMAIN from]
      BY <1>2, BootType DEF SetStart
    <2> QED BY <1>2, <2>1 DEF SetStart, Types, durable, db
  <1>3. ASSUME NEW c \in Conns, Clear(c) PROVE Types'
    <2>1. IsFile(file', DOMAIN from)
      <3>1. IsFile(file, DOMAIN from)
        BY DEF Types
      <3>2. PICK S : file' = Deleted(file, S)
        BY <1>3 DEF Clear
      <3> QED BY <3>1, <3>2, DeletedIs
    <2> QED BY <1>3, <2>1 DEF Clear, Types, db
  <1>4. CASE Cleanup
    <2>1. IsFile(file', DOMAIN from)
      <3>1. IsFile(file, DOMAIN from)
        BY DEF Types
      <3>2. PICK S : file' = Deleted(file, S)
        BY <1>4 DEF Cleanup
      <3> QED BY <3>1, <3>2, DeletedIs
    <2> QED BY <1>4, <2>1 DEF Cleanup, Types, db
  <1>5. CASE Crash
    <2>1. change' \in [step : Steps, want : Settings \cup Stored, boot : BOOLEAN,
                       failed : BOOLEAN, held : SUBSET DOMAIN from]
      BY <1>5 DEF Crash, Types, Boot, Steps
    <2>2. queue' \in Seq(DOMAIN from) /\ batch' \in Seq(DOMAIN from) /\ Len(batch') <= BatchSize
      BY <1>5, EmptyToSet, SizesAssumption DEF Crash
    <2>3. /\ worker' \in [Workers -> [step : WorkerSteps, msg : 0..Len(from), stale : BOOLEAN]]
          /\ \A w \in Workers : worker'[w].step # "idle" => worker'[w].msg \in DOMAIN from
      BY <1>5 DEF Crash, Free, WorkerSteps
    <2>4. UNCHANGED <<file, stored, from, skipped>> /\ writer' = "off" /\ queueBytes' = 0
      BY <1>5 DEF Crash, durable
    <2>5. tee' \in BOOLEAN /\ fullText' \in BOOLEAN
      BY <1>5 DEF Crash
    <2>6. written' \subseteq DOMAIN from /\ dropped' \subseteq DOMAIN from
      BY <1>5 DEF Crash
    <2> QED BY <2>1, <2>2, <2>3, <2>4, <2>5, <2>6 DEF Types
  <1> QED BY <1>1, <1>2, <1>3, <1>4, <1>5 DEF Outside

LEMMA TypesNext == Types /\ [Next]_vars => Types'
  <1> SUFFICES ASSUME Types, [Next]_vars PROVE Types'
    OBVIOUS
  <1>1. CASE UNCHANGED vars
    BY <1>1 DEF vars, Types
  <1> QED BY <1>1, TypesWorker, TypesWriter, TypesChange, TypesOutside DEF Next
-----------------------------------------------------------------------------
(* The writer and the change. What a step of the setting leaves in .step.   *)
LEMMA StepIs ==
  ASSUME Types, NEW s \in Steps, Step(s)
  PROVE  /\ change'.step = s /\ change'.want = change.want
         /\ change'.held = change.held /\ change'.boot = change.boot
  BY DEF Types, Step

LEMMA FailIs ==
  ASSUME Types, Fail
  PROVE  /\ change'.step = IF tee THEN "idle" ELSE "close"
         /\ UNCHANGED <<tee, writer, queue, batch, queueBytes, worker, written, dropped, fullText>>
  BY DEF Types, Fail, db

LEMMA FlushIs ==
  ASSUME Types, NEW ok \in BOOLEAN, Flush(ok) \/ FlushAnswer(ok)
  PROVE  /\ Flushed(ok) /\ writer # "off"
         /\ UNCHANGED <<stored, tee, writer, fullText, queue, worker, from>>
         /\ \/ UNCHANGED change
            \/ /\ change.step = "ack" /\ change'.step = "triggers"
               /\ change'.held = change.held /\ change'.want = change.want
  BY DEF Flush, FlushAnswer, Types

LEMMA InitWriter == Init => WriterIsThere
  BY DEF Init, WriterIsThere, Using, Boot

LEMMA WriterKept ==
  ASSUME Types, WriterIsThere, Next
  PROVE  WriterIsThere'
  <1> USE DEF WriterIsThere, Using
  <1>1. ASSUME NEW w \in Workers, Worker(w) PROVE WriterIsThere'
    <2>1. UNCHANGED <<tee, writer, change>>
      BY <1>1 DEF Worker, Load, Add, Undo, Send, Strand, db
    <2> QED BY <2>1
  <1>2. CASE Writer
    <2>1. CASE Take
      BY <2>1 DEF Take
    <2>2. CASE Leave
      <3>1. UNCHANGED <<tee, change>> /\ writer = "drain" /\ writer' = "off"
        BY <2>2 DEF Leave
      <3> QED BY <3>1
    <2>3. ASSUME NEW ok \in BOOLEAN, Flush(ok) \/ FlushAnswer(ok) PROVE WriterIsThere'
      BY <2>3, FlushIs
    <2> QED BY <1>2, <2>1, <2>2, <2>3 DEF Writer
  <1>3. CASE Change
    <2>1. CASE Open
      <3>1. change'.step = "index" /\ writer' = "run" /\ UNCHANGED tee
        BY <2>1, StepIs DEF Open, Steps
      <3> QED BY <3>1
    <2>2. CASE Reuse \/ IndexAsIs \/ FlushQueue
      <3>1. change'.step \in Using /\ UNCHANGED <<tee, writer>> /\ writer = "run"
        BY <2>2, StepIs DEF Reuse, IndexAsIs, FlushQueue, Steps, db
      <3> QED BY <3>1
    <2>3. CASE Detach
      <3>1. /\ tee' = FALSE /\ UNCHANGED writer /\ change.step = "apply"
            /\ change'.step = IF tee THEN "close" ELSE "purge"
        BY <2>3, StepIs DEF Detach, Steps, db
      <3> QED BY <3>1
    <2>4. CASE IndexChanges
      <3>1. change'.step = "flush" /\ UNCHANGED <<tee, writer>> /\ change.step = "index"
        BY <2>4 DEF IndexChanges, Types, db
      <3> QED BY <3>1
    <2>5. CASE Triggers \/ SecondTrigger \/ Rebuild
      <3>1. change'.step \in Using /\ UNCHANGED <<tee, writer>> /\ change.step \in Using
        BY <2>5, StepIs DEF Triggers, SecondTrigger, Rebuild, Steps, db
      <3> QED BY <3>1
    <2>6. CASE TriggersFail \/ RebuildFails
      <3>1. Fail /\ change.step \in Using
        BY <2>6 DEF TriggersFail, RebuildFails
      <3> QED BY <3>1, FailIs
    <2>7. CASE Attach
      <3>1. change'.step \in {"idle", "save"} /\ tee' = TRUE /\ UNCHANGED writer /\ change.step = "attach"
        BY <2>7, StepIs DEF Attach, Steps, db
      <3> QED BY <3>1
    <2>8. CASE Close
      <3>1. change'.step = "closing" /\ UNCHANGED tee /\ change.step = "close"
        BY <2>8 DEF Close, Types
      <3> QED BY <3>1
    <2>9. CASE Closed
      <3>1. /\ change'.step \in {"idle", "purge"} /\ UNCHANGED <<tee, writer>>
            /\ change.step = "closing" /\ writer = "off"
        BY <2>9, StepIs DEF Closed, Steps, db
      <3> QED BY <3>1
    <2>10. CASE Purge
      <3>1. change'.step \in {"idle", "save"} /\ UNCHANGED <<tee, writer>> /\ change.step = "purge"
        BY <2>10, StepIs DEF Purge, Steps, db
      <3> QED BY <3>1
    <2>11. CASE Save
      <3>1. change'.step = "idle" /\ UNCHANGED <<tee, writer>> /\ change.step = "save"
        BY <2>11, StepIs DEF Save, Steps, db
      <3> QED BY <3>1
    <2> QED BY <1>3, <2>1, <2>2, <2>3, <2>4, <2>5, <2>6, <2>7, <2>8, <2>9, <2>10, <2>11 DEF Change
  <1>4. CASE Outside
    <2>1. ASSUME NEW w \in Workers, NEW c \in Conns, Arrive(w, c) PROVE WriterIsThere'
      BY <2>1 DEF Arrive, db
    <2>2. ASSUME NEW want \in Settings, SetStart(want) PROVE WriterIsThere'
      <3>1. change'.step = "apply" /\ UNCHANGED <<tee, writer>> /\ change.step = "idle"
        BY <2>2 DEF SetStart, Boot, db
      <3> QED BY <3>1
    <2>3. CASE Crash
      BY <2>3 DEF Crash, Boot
    <2>4. ASSUME NEW c \in Conns, Clear(c) PROVE WriterIsThere'
      BY <2>4 DEF Clear, db
    <2>5. CASE Cleanup
      BY <2>5 DEF Cleanup, db
    <2> QED BY <1>4, <2>1, <2>2, <2>3, <2>4, <2>5 DEF Outside
  <1> QED BY <1>1, <1>2, <1>3, <1>4 DEF Next
-----------------------------------------------------------------------------
(* The budget. *)
LEMMA Counts ==
  /\ IsFiniteSet(Holding) /\ Cardinality(Holding) \in Nat
  /\ IsFiniteSet(Admitted) /\ Cardinality(Admitted) \in Nat
  /\ Cardinality(Admitted) <= Cardinality(Holding)
  <1>1. IsFiniteSet(Holding) /\ Holding \in SUBSET Workers
    BY WorkersAssumption, FS_Subset DEF Holding
  <1>2. Admitted \in SUBSET Holding
    BY DEF Admitted, Holding
  <1> QED BY <1>1, <1>2, FS_Subset, FS_CardinalityType

(* Who holds a part of the budget after a step of worker w. *)
LEMMA GoesHolding ==
  ASSUME Types, NEW w \in Workers, NEW s \in WorkerSteps, Goes(w, s),
         s \in {"undo", "send"} => ~worker[w].stale
  PROVE  /\ Holding' = IF s \in {"undo", "send"} THEN Holding \cup {w} ELSE Holding \ {w}
         /\ Admitted' = IF s = "send" THEN Admitted \cup {w} ELSE Admitted \ {w}
  <1>1. /\ worker'[w].step = s /\ worker'[w].stale = worker[w].stale
        /\ \A v \in Workers : v # w => worker'[v] = worker[v]
    BY DEF Types, Goes
  <1> QED BY <1>1 DEF Holding, Admitted

LEMMA EndsHolding ==
  ASSUME Types, NEW w \in Workers, Ends(w)
  PROVE  Holding' = Holding \ {w} /\ Admitted' = Admitted \ {w}
  <1>1. /\ worker'[w].step = "idle"
        /\ \A v \in Workers : v # w => worker'[v] = worker[v]
    BY DEF Types, Ends, Free
  <1> QED BY <1>1 DEF Holding, Admitted

(* The sums after such a step: w joins, leaves, or was and is not counted.  *)
LEMMA HoldingCount ==
  ASSUME NEW w
  PROVE  /\ Cardinality(Holding \cup {w}) = IF w \in Holding THEN Cardinality(Holding) ELSE Cardinality(Holding) + 1
         /\ Cardinality(Holding \ {w}) = IF w \in Holding THEN Cardinality(Holding) - 1 ELSE Cardinality(Holding)
         /\ Cardinality(Admitted \cup {w}) = IF w \in Admitted THEN Cardinality(Admitted) ELSE Cardinality(Admitted) + 1
         /\ Cardinality(Admitted \ {w}) = IF w \in Admitted THEN Cardinality(Admitted) - 1 ELSE Cardinality(Admitted)
  BY Counts, FS_AddElement, FS_RemoveElement

LEMMA InitBudget == Init => BudgetInv
  <1> SUFFICES ASSUME Init PROVE BudgetInv
    OBVIOUS
  <1>1. Holding = {} /\ Admitted = {}
    BY DEF Init, Free, Holding, Admitted
  <1>2. Len(queue) = 0 /\ Len(batch) = 0 /\ queueBytes = 0 /\ QueueBudget \in Nat
    BY EmptyToSet, SizesAssumption DEF Init
  <1> QED BY <1>1, <1>2, FS_EmptySet DEF BudgetInv, BudgetAddsUp, Holding

LEMMA BudgetWorker ==
  ASSUME Types, BudgetInv, NEW w \in Workers, Worker(w)
  PROVE  BudgetInv'
  <1> DEFINE waiting == Len(queue) + Len(batch)
  <1>0. /\ Len(queue) \in Nat /\ Len(batch) \in Nat /\ queueBytes \in Int /\ QueueBudget \in Nat
        /\ queueBytes = waiting + Cardinality(Holding)
        /\ waiting + Cardinality(Admitted) <= QueueBudget
    BY SizesAssumption, ToSetType DEF BudgetInv, BudgetAddsUp, Holding, Types
  <1>00. worker[w].step \in WorkerSteps
    BY DEF Types
  <1> SUFFICES /\ queueBytes' = Len(queue') + Len(batch') + Cardinality(Holding')
               /\ Len(queue') + Len(batch') + Cardinality(Admitted') <= QueueBudget
    BY DEF BudgetInv, BudgetAddsUp, Holding
  <1>1. CASE Load(w)
    <2>1. UNCHANGED <<queue, batch, queueBytes>> /\ w \notin Holding /\ w \notin Admitted
      BY <1>1 DEF Load, At, Holding, Admitted, db
    <2>2. Goes(w, "add") \/ Ends(w)
      BY <1>1 DEF Load
    <2>3. Holding' = Holding \ {w} /\ Admitted' = Admitted \ {w}
      BY <2>2, GoesHolding, EndsHolding DEF WorkerSteps
    <2>4. Holding' = Holding /\ Admitted' = Admitted
      BY <2>1, <2>3
    <2> QED BY <1>0, <2>1, <2>4
  <1>2. CASE Add(w)
    <2>1. /\ UNCHANGED <<queue, batch>> /\ queueBytes' = queueBytes + 1
          /\ w \notin Holding /\ w \notin Admitted /\ ~worker[w].stale
      BY <1>2 DEF Add, At, Holding, Admitted
    <2>2. CASE queueBytes' > QueueBudget
      <3>1. Goes(w, "undo")
        BY <1>2, <2>2 DEF Add
      <3>2. Holding' = Holding \cup {w} /\ Admitted' = Admitted \ {w}
        BY <3>1, <2>1, GoesHolding DEF WorkerSteps
      <3>3. Cardinality(Holding') = Cardinality(Holding) + 1 /\ Cardinality(Admitted') = Cardinality(Admitted)
        BY <3>2, <2>1, HoldingCount
      <3> QED BY <1>0, <2>1, <3>3, Counts
    <2>3. CASE ~(queueBytes' > QueueBudget)
      <3>1. Goes(w, "send")
        BY <1>2, <2>3 DEF Add
      <3>2. Holding' = Holding \cup {w} /\ Admitted' = Admitted \cup {w}
        BY <3>1, <2>1, GoesHolding DEF WorkerSteps
      <3>3. Cardinality(Holding') = Cardinality(Holding) + 1 /\ Cardinality(Admitted') = Cardinality(Admitted) + 1
        BY <3>2, <2>1, HoldingCount
      <3> QED BY <1>0, <2>1, <2>3, <3>3, Counts
    <2> QED BY <2>2, <2>3
  <1>3. CASE Undo(w)
    <2>1. /\ UNCHANGED <<queue, batch>> /\ queueBytes' = queueBytes - 1
          /\ w \in Holding /\ w \notin Admitted /\ Ends(w)
      BY <1>3 DEF Undo, At, Holding, Admitted
    <2>2. Cardinality(Holding') = Cardinality(Holding) - 1 /\ Cardinality(Admitted') = Cardinality(Admitted)
      BY <2>1, EndsHolding, HoldingCount
    <2> QED BY <1>0, <2>1, <2>2, Counts
  <1>4. CASE Send(w)
    <2>1. UNCHANGED <<batch, queueBytes>> /\ w \in Holding /\ w \in Admitted /\ ~worker[w].stale
      BY <1>4 DEF Send, At, Holding, Admitted
    <2>2. CASE Len(queue) < QueueLength
      <3>1. queue' = Append(queue, worker[w].msg) /\ Ends(w)
        BY <1>4, <2>2 DEF Send
      <3>2. worker[w].msg \in DOMAIN from /\ queue \in Seq(DOMAIN from)
        BY <1>4 DEF Send, At, Types
      <3>3. Len(queue') = Len(queue) + 1
        BY <3>1, <3>2, AppendToSet
      <3>4. Cardinality(Holding') = Cardinality(Holding) - 1 /\ Cardinality(Admitted') = Cardinality(Admitted) - 1
        BY <2>1, <3>1, EndsHolding, HoldingCount
      <3> QED BY <1>0, <2>1, <3>3, <3>4, Counts
    <2>3. CASE ~(Len(queue) < QueueLength)
      <3>1. queue' = queue /\ Goes(w, "undo")
        BY <1>4, <2>3 DEF Send
      <3>2. Holding' = Holding \cup {w} /\ Admitted' = Admitted \ {w}
        BY <3>1, <2>1, GoesHolding DEF WorkerSteps
      <3>3. Cardinality(Holding') = Cardinality(Holding) /\ Cardinality(Admitted') = Cardinality(Admitted) - 1
        BY <2>1, <3>2, HoldingCount
      <3> QED BY <1>0, <2>1, <3>1, <3>3, Counts
    <2> QED BY <2>2, <2>3
  <1>5. CASE Strand(w)
    <2>1. UNCHANGED <<queue, batch, queueBytes>> /\ w \notin Holding /\ w \notin Admitted /\ Ends(w)
      BY <1>5 DEF Strand, Holding, Admitted, db
    <2>2. Holding' = Holding /\ Admitted' = Admitted
      BY <2>1, EndsHolding
    <2> QED BY <1>0, <2>1, <2>2
  <1> QED BY <1>1, <1>2, <1>3, <1>4, <1>5 DEF Worker

(* A step that moves no worker: the holders stay. *)
LEMMA SameHolders ==
  ASSUME UNCHANGED worker PROVE UNCHANGED <<Holding, Admitted>>
  BY DEF Holding, Admitted

LEMMA BudgetSame ==
  ASSUME BudgetInv, UNCHANGED <<queue, batch, queueBytes, worker>>
  PROVE  BudgetInv'
  BY SameHolders DEF BudgetInv, BudgetAddsUp

(* Opening and a crash start over with an empty queue that nobody holds.    *)
LEMMA BudgetAnew ==
  ASSUME queue' = <<>>, batch' = <<>>, queueBytes' = 0, Holding' = {}, Admitted' = {}
  PROVE  BudgetInv'
  <1>1. Len(queue') = 0 /\ Len(batch') = 0 /\ QueueBudget \in Nat
    BY EmptyToSet, SizesAssumption
  <1> QED BY <1>1, FS_EmptySet DEF BudgetInv, BudgetAddsUp, Holding

LEMMA BudgetKept ==
  ASSUME Types, BudgetInv, Next
  PROVE  BudgetInv'
  <1>1. CASE Writer
    <2>0. /\ Len(queue) \in Nat /\ Len(batch) \in Nat /\ queueBytes \in Int /\ QueueBudget \in Nat
          /\ queue \in Seq(DOMAIN from) /\ batch \in Seq(DOMAIN from)
          /\ queueBytes = Len(queue) + Len(batch) + Cardinality(Holding)
          /\ Len(queue) + Len(batch) + Cardinality(Admitted) <= QueueBudget
      BY SizesAssumption, ToSetType DEF BudgetInv, BudgetAddsUp, Holding, Types
    <2>1. CASE Take
      <3>1. /\ queue # <<>> /\ batch' = Append(batch, Head(queue)) /\ queue' = Tail(queue)
            /\ UNCHANGED <<queueBytes, worker>>
        BY <2>1 DEF Take
      <3>2. Len(queue') = Len(queue) - 1 /\ Len(batch') = Len(batch) + 1
        BY <2>0, <3>1, AppendToSet, TailToSet
      <3>3. Holding' = Holding /\ Admitted' = Admitted
        BY <3>1, SameHolders
      <3>4. /\ queueBytes' = Len(queue') + Len(batch') + Cardinality(Holding')
            /\ Len(queue') + Len(batch') + Cardinality(Admitted') <= QueueBudget
        BY <2>0, <3>1, <3>2, <3>3, Counts
      <3> QED BY <3>4 DEF BudgetInv, BudgetAddsUp, Holding
    <2>2. CASE Leave
      BY <2>2, BudgetSame DEF Leave
    <2>3. ASSUME NEW ok \in BOOLEAN, Flush(ok) \/ FlushAnswer(ok) PROVE BudgetInv'
      <3>1. queueBytes' = queueBytes - Len(batch) /\ batch' = <<>> /\ UNCHANGED <<queue, worker>>
        BY <2>3, FlushIs DEF Flushed
      <3>2. Len(batch') = 0 /\ Len(queue') = Len(queue)
        BY <3>1, EmptyToSet
      <3>3. Holding' = Holding /\ Admitted' = Admitted
        BY <3>1, SameHolders
      <3>4. /\ queueBytes' = Len(queue') + Len(batch') + Cardinality(Holding')
            /\ Len(queue') + Len(batch') + Cardinality(Admitted') <= QueueBudget
        BY <2>0, <3>1, <3>2, <3>3, Counts
      <3> QED BY <3>4 DEF BudgetInv, BudgetAddsUp, Holding
    <2> QED BY <1>1, <2>1, <2>2, <2>3 DEF Writer
  <1>2. CASE Change
    <2>1. CASE Open
      <3>1. Holding' = {} /\ Admitted' = {}
        <4>1. worker' = [w \in Workers |-> [worker[w] EXCEPT !.stale = worker[w].step \notin {"idle", "load"}]]
          BY <2>1 DEF Open
        <4>2. \A w \in Workers : worker[w] \in [step : WorkerSteps, msg : 0..Len(from), stale : BOOLEAN]
          BY DEF Types
        <4>3. ASSUME NEW w \in Workers
              PROVE  worker'[w].step \in {"undo", "send"} => worker'[w].stale
          <5>1. PICK u : u = worker[w]
            OBVIOUS
          <5>2. worker'[w] = [u EXCEPT !.stale = u.step \notin {"idle", "load"}]
            BY <4>1, <5>1
          <5>3. worker'[w].step = u.step /\ worker'[w].stale = (u.step \notin {"idle", "load"})
            BY <4>2, <5>1, <5>2
          <5> QED BY <5>3
        <4> QED BY <4>3 DEF Holding, Admitted
      <3> QED BY <2>1, <3>1, BudgetAnew DEF Open
    <2>2. CASE ~Open
      <3>1. UNCHANGED <<queue, batch, queueBytes, worker>>
        BY <1>2, <2>2 DEF Change, Reuse, Detach, IndexAsIs, IndexChanges, FlushQueue, Triggers, SecondTrigger, TriggersFail,
           Rebuild, RebuildFails, Fail, Attach, Close, Closed, Purge, Save, db
      <3> QED BY <3>1, BudgetSame
    <2> QED BY <2>1, <2>2
  <1>3. CASE Outside
    <2>1. ASSUME NEW w \in Workers, NEW c \in Conns, Arrive(w, c) PROVE BudgetInv'
      <3>1. UNCHANGED <<queue, batch, queueBytes>>
        BY <2>1 DEF Arrive, db
      <3>2. /\ worker[w].step = "idle" /\ worker'[w].step = "load"
            /\ \A v \in Workers : v # w => worker'[v] = worker[v]
        BY <2>1 DEF Arrive, At, Free, Types
      <3>3. Holding' = Holding /\ Admitted' = Admitted
        BY <3>2 DEF Holding, Admitted
      <3> QED BY <3>1, <3>3 DEF BudgetInv, BudgetAddsUp, Holding
    <2>2. CASE Crash
      <3>1. Holding' = {} /\ Admitted' = {}
        BY <2>2 DEF Crash, Free, Holding, Admitted
      <3> QED BY <2>2, <3>1, BudgetAnew DEF Crash
    <2>3. ASSUME \/ \E want \in Settings : SetStart(want)
                 \/ \E c \in Conns : Clear(c)
                 \/ Cleanup
          PROVE  BudgetInv'
      BY <2>3, BudgetSame DEF SetStart, Clear, Cleanup, db
    <2> QED BY <1>3, <2>1, <2>2, <2>3 DEF Outside
  <1> QED BY <1>1, <1>2, <1>3, BudgetWorker DEF Next
-----------------------------------------------------------------------------
(* What a change waits for. *)
LEMMA InitHeld == Init => HeldInv
  BY DEF Init, HeldInv, Boot

(* A step that loses no waiting message and leaves the change alone. *)
LEMMA HeldGrows ==
  ASSUME HeldInv, UNCHANGED <<change, writer>>,
         Waiting \cup written \cup dropped \subseteq Waiting' \cup written' \cup dropped',
         ToSet(batch) \cup written \cup dropped \subseteq ToSet(batch') \cup written' \cup dropped',
         written \cup dropped \subseteq written' \cup dropped'
  PROVE  HeldInv'
  BY DEF HeldInv

LEMMA HeldWorker ==
  ASSUME Types, HeldInv, NEW w \in Workers, Worker(w)
  PROVE  HeldInv'
  <1>1. UNCHANGED <<change, writer, batch, written>>
    BY DEF Worker, Load, Add, Undo, Send, Strand, db
  <1>2. dropped \subseteq dropped' /\ ToSet(queue) \subseteq ToSet(queue')
    <2>1. CASE Send(w) /\ queue' # queue
      <3>1. worker[w].msg \in DOMAIN from /\ queue \in Seq(DOMAIN from)
        BY <2>1 DEF Send, At, Types
      <3>2. queue' = Append(queue, worker[w].msg) /\ UNCHANGED dropped
        BY <2>1 DEF Send
      <3> QED BY <3>1, <3>2, AppendToSet
    <2>2. CASE ~(Send(w) /\ queue' # queue)
      <3>1. queue' = queue /\ dropped \subseteq dropped'
        BY <2>2 DEF Worker, Load, Add, Undo, Send, Strand, db
      <3> QED BY <3>1
    <2> QED BY <2>1, <2>2
  <1>3. Waiting \subseteq Waiting' /\ ToSet(batch') = ToSet(batch)
    BY <1>1, <1>2 DEF Waiting
  <1> QED BY <1>1, <1>2, <1>3, HeldGrows

LEMMA HeldWriter ==
  ASSUME Types, HeldInv, Writer
  PROVE  HeldInv'
  <1> queue \in Seq(DOMAIN from) /\ batch \in Seq(DOMAIN from)
    BY DEF Types
  <1>1. CASE Take
    <2>1. /\ queue # <<>> /\ batch' = Append(batch, Head(queue)) /\ queue' = Tail(queue)
          /\ UNCHANGED <<change, writer, written, dropped>>
      BY <1>1 DEF Take
    <2>2. /\ ToSet(queue) = {Head(queue)} \cup ToSet(queue') /\ Head(queue) \in DOMAIN from
      BY <2>1, TailToSet
    <2>3. ToSet(batch') = ToSet(batch) \cup {Head(queue)}
      BY <2>1, <2>2, AppendToSet
    <2>4. Waiting' = Waiting
      BY <2>2, <2>3 DEF Waiting
    <2> QED BY <2>1, <2>3, <2>4, HeldGrows
  <1>2. CASE Leave
    <2>1. queue = <<>> /\ batch = <<>> /\ UNCHANGED <<change, queue, batch, written, dropped>>
      BY <1>2 DEF Leave
    <2>2. Waiting = {} /\ Waiting' = {} /\ ToSet(batch') = ToSet(batch)
      BY <2>1, EmptyToSet DEF Waiting
    <2> QED BY <2>1, <2>2 DEF HeldInv
  <1>3. ASSUME NEW ok \in BOOLEAN, Flush(ok) \/ FlushAnswer(ok) PROVE HeldInv'
    <2>1. /\ written' \cup dropped' = written \cup dropped \cup ToSet(batch)
          /\ batch' = <<>> /\ UNCHANGED <<queue, writer>> /\ writer # "off"
      BY <1>3, FlushIs DEF Flushed
    <2>2. Waiting' = ToSet(queue) /\ ToSet(batch') = {}
      BY <2>1, EmptyToSet DEF Waiting
    <2>3. CASE UNCHANGED change
      BY <2>1, <2>2, <2>3, HeldGrows DEF Waiting
    <2>4. CASE change.step = "ack" /\ change'.step = "triggers" /\ change'.held = change.held
      <3>1. change.held \subseteq ToSet(batch) \cup written \cup dropped
        BY <2>4 DEF HeldInv
      <3>2. change'.held \subseteq written' \cup dropped'
        BY <2>1, <2>4, <3>1
      <3> QED BY <2>4, <3>2 DEF HeldInv
    <2> QED BY <1>3, <2>3, <2>4, FlushIs
  <1> QED BY <1>1, <1>2, <1>3 DEF Writer

LEMMA HeldChange ==
  ASSUME Types, HeldInv, Change
  PROVE  HeldInv'
  <1> USE DEF HeldInv
  <1>1. CASE Open \/ Reuse \/ IndexAsIs \/ Attach \/ Purge \/ Save \/ Detach \/ Closed
    <2>1. change'.step \in {"index", "attach", "idle", "save", "close", "purge"}
      BY <1>1, StepIs DEF Open, Reuse, IndexAsIs, Attach, Purge, Save, Detach, Closed, Steps
    <2> QED BY <2>1
  <1>2. CASE IndexChanges
    <2>1. change'.step = "flush" /\ change'.held = Waiting /\ UNCHANGED <<queue, batch, written, dropped>>
      BY <1>2 DEF IndexChanges, Types, db
    <2> QED BY <2>1 DEF Waiting
  <1>3. CASE FlushQueue
    <2>1. /\ change'.step = "ack" /\ change'.held = change.held /\ change.step = "flush"
          /\ queue = <<>> /\ UNCHANGED <<batch, written, dropped>>
      BY <1>3, StepIs DEF FlushQueue, Steps, db
    <2>2. Waiting = ToSet(batch) /\ ToSet(batch') = ToSet(batch)
      BY <2>1, EmptyToSet DEF Waiting
    <2> QED BY <2>1, <2>2
  <1>4. CASE Triggers \/ SecondTrigger
    <2>1. /\ change'.step \in {"second", "rebuild"} /\ change.step \in {"triggers", "second"}
          /\ change'.held = change.held /\ UNCHANGED <<written, dropped>>
      BY <1>4, StepIs DEF Triggers, SecondTrigger, Steps, db
    <2> QED BY <2>1
  <1>5. CASE TriggersFail \/ RebuildFails
    <2>1. Fail
      BY <1>5 DEF TriggersFail, RebuildFails
    <2>2. change'.step \in {"idle", "close"}
      BY <2>1, FailIs
    <2> QED BY <2>2
  <1>6. CASE Rebuild
    <2>1. change'.step = "attach"
      BY <1>6, StepIs DEF Rebuild, Steps
    <2> QED BY <2>1
  <1>7. CASE Close
    <2>1. /\ change'.step = "closing" /\ change'.held = Waiting /\ writer' = "drain"
          /\ UNCHANGED <<queue, batch, written, dropped>>
      BY <1>7 DEF Close, Types
    <2> QED BY <2>1 DEF Waiting
  <1> QED BY <1>1, <1>2, <1>3, <1>4, <1>5, <1>6, <1>7 DEF Change

LEMMA HeldOutside ==
  ASSUME Types, HeldInv, Outside
  PROVE  HeldInv'
  <1>1. CASE UNCHANGED change
    <2>1. UNCHANGED <<writer, queue, batch, written, dropped>> \/ Crash
      BY DEF Outside, Arrive, SetStart, Clear, Cleanup, db
    <2>2. CASE Crash
      BY <2>2 DEF Crash, Boot, HeldInv
    <2>3. CASE UNCHANGED <<writer, queue, batch, written, dropped>>
      BY <1>1, <2>3, HeldGrows DEF Waiting
    <2> QED BY <2>1, <2>2, <2>3
  <1>2. CASE ~UNCHANGED change
    <2>1. ASSUME NEW want \in Settings, SetStart(want) PROVE change'.step = "apply"
      BY <2>1 DEF SetStart, Boot
    <2>2. CASE Crash
      BY <2>2 DEF Crash, Boot, HeldInv
    <2>3. Crash \/ \E want \in Settings : SetStart(want)
      BY <1>2 DEF Outside, Arrive, Clear, Cleanup
    <2> QED BY <2>1, <2>2, <2>3 DEF HeldInv
  <1> QED BY <1>1, <1>2

LEMMA HeldKept ==
  ASSUME Types, HeldInv, Next
  PROVE  HeldInv'
  BY HeldWorker, HeldWriter, HeldChange, HeldOutside DEF Next
-----------------------------------------------------------------------------
(* The index. *)
LEMMA InitIndex == Init => IndexInv
  BY EmptyFile DEF Init, IndexInv

LEMMA IndexSame ==
  ASSUME IndexInv, file' = file \/ (file'.rows = file.rows /\ file'.index = file.index), UNCHANGED skipped
  PROVE  IndexInv'
  BY DEF IndexInv

(* Rows that are written come into the index, or are noted as left out.     *)
LEMMA IndexWriter ==
  ASSUME Types, IndexInv, Writer
  PROVE  IndexInv'
  <1>1. CASE Take \/ Leave
    BY <1>1, IndexSame DEF Take, Leave, durable
  <1>2. ASSUME NEW ok \in BOOLEAN, Flush(ok) \/ FlushAnswer(ok) PROVE IndexInv'
    <2>1. Flushed(ok)
      BY <1>2, FlushIs
    <2>2. CASE ~ok
      BY <2>1, <2>2, IndexSame DEF Flushed
    <2>3. CASE ok
      <3>1. PICK top \in Tops(file) : file' = Inserted(file, batch, top)
        BY <2>1, <2>3 DEF Flushed
      <3>2. skipped' = IF file.fills THEN skipped ELSE skipped \cup ToSet(batch)
        BY <2>1, <2>3 DEF Flushed
      <3>3. IsFile(file, DOMAIN from) /\ batch \in Seq(DOMAIN from)
        BY DEF Types
      <3>4. /\ file.index \subseteq file'.index
            /\ \A id \in DOMAIN file'.rows :
                  \/ id \in DOMAIN file.rows /\ file'.rows[id] = file.rows[id]
                  \/ file'.rows[id] \in ToSet(batch) /\ (file.fills => <<id, file'.rows[id]>> \in file'.index)
        BY <3>1, <3>3, InsertedIs
      <3> QED BY <3>2, <3>4 DEF IndexInv
    <2> QED BY <2>2, <2>3
  <1> QED BY <1>1, <1>2 DEF Writer

(* A change of the setting leaves rows and index alone until it rebuilds    *)
(* the index from all rows, or empties it; an emptied file has no rows.     *)
LEMMA IndexChange ==
  ASSUME Types, IndexInv, Change
  PROVE  IndexInv'
  <1>0. file = [rows |-> file.rows, index |-> file.index, fills |-> file.fills, forgets |-> file.forgets]
    BY DEF Types, IsFile
  <1>1. CASE Open \/ Triggers \/ SecondTrigger
    <2>1. UNCHANGED skipped
      BY <1>1 DEF Open, Triggers, SecondTrigger
    <2>2. file'.rows = file.rows /\ file'.index = file.index
      <3>1. CASE Open
        BY <1>0, <3>1 DEF Open
      <3>2. CASE Triggers
        BY <1>0, <3>2 DEF Triggers
      <3>3. CASE SecondTrigger
        BY <1>0, <3>3 DEF SecondTrigger
      <3> QED BY <1>1, <3>1, <3>2, <3>3
    <2> QED BY <2>1, <2>2, IndexSame
  <1>2. CASE Rebuild
    <2>1. file'.rows = file.rows
      BY <1>0, <1>2 DEF Rebuild
    <2>2. CASE change.want.fullText
      <3>1. file'.index = {<<id, file.rows[id]>> : id \in DOMAIN file.rows}
        BY <1>0, <1>2, <2>2 DEF Rebuild
      <3> QED BY <2>1, <3>1 DEF IndexInv
    <2>3. CASE ~change.want.fullText
      <3>1. skipped' = RowsOf(file)
        BY <1>2, <2>3 DEF Rebuild
      <3> QED BY <2>1, <3>1 DEF IndexInv, RowsOf
    <2> QED BY <2>2, <2>3
  <1>3. CASE Purge
    <2>1. UNCHANGED skipped /\ (file' = NoFile \/ file' = file)
      BY <1>3 DEF Purge
    <2> QED BY <2>1, EmptyFile, IndexSame DEF IndexInv
  <1>4. CASE Reuse \/ Detach \/ IndexAsIs \/ IndexChanges \/ FlushQueue \/ TriggersFail \/ RebuildFails
             \/ Attach \/ Close \/ Closed \/ Save
    <2>1. UNCHANGED <<file, skipped>>
      BY <1>4 DEF Reuse, Detach, IndexAsIs, IndexChanges, FlushQueue, TriggersFail, RebuildFails, Fail,
                  Attach, Close, Closed, Save, durable
    <2> QED BY <2>1, IndexSame
  <1> QED BY <1>1, <1>2, <1>3, <1>4 DEF Change

LEMMA IndexOutside ==
  ASSUME Types, IndexInv, Outside
  PROVE  IndexInv'
  <1>1. CASE Cleanup \/ \E c \in Conns : Clear(c)
    <2>1. PICK S : file' = Deleted(file, S)
      BY <1>1 DEF Cleanup, Clear
    <2>2. UNCHANGED skipped
      BY <1>1 DEF Cleanup, Clear
    <2>3. IsFile(file, DOMAIN from)
      BY DEF Types
    <2>4. /\ file'.index = file.index
          /\ \A id \in DOMAIN file'.rows : id \in DOMAIN file.rows /\ file'.rows[id] = file.rows[id]
      BY <2>1, <2>3, DeletedIs
    <2> QED BY <2>2, <2>4 DEF IndexInv
  <1>2. CASE UNCHANGED <<file, skipped>>
    BY <1>2, IndexSame
  <1> QED BY <1>1, <1>2 DEF Outside, Arrive, SetStart, Crash, durable

LEMMA IndexKept ==
  ASSUME Types, IndexInv, Next
  PROVE  IndexInv'
  <1>1. ASSUME NEW w \in Workers, Worker(w) PROVE IndexInv'
    <2>1. UNCHANGED <<file, skipped>>
      BY <1>1 DEF Worker, Load, Add, Undo, Send, Strand, durable
    <2> QED BY <2>1, IndexSame
  <1> QED BY <1>1, IndexWriter, IndexChange, IndexOutside DEF Next
-----------------------------------------------------------------------------
(* The invariant of the component. *)
LEMMA DBInvariant == Spec => []DBInv
  <1>1. Init => DBInv
    BY InitTypes, InitWriter, InitBudget, InitHeld, InitIndex DEF DBInv
  <1>2. DBInv /\ [Next]_vars => DBInv'
    <2> SUFFICES ASSUME DBInv, [Next]_vars PROVE DBInv'
      OBVIOUS
    <2>1. CASE Next
      BY <2>1, TypesNext, WriterKept, BudgetKept, HeldKept, IndexKept DEF DBInv
    <2>2. CASE UNCHANGED vars
      <3>1. Types'
        BY <2>2, TypesNext DEF DBInv
      <3>2. WriterIsThere'
        BY <2>2 DEF DBInv, WriterIsThere, vars
      <3>3. BudgetInv'
        BY <2>2, BudgetSame DEF DBInv, vars
      <3>4. HeldInv' /\ IndexInv'
        BY <2>2, HeldGrows, IndexSame DEF DBInv, vars, Waiting
      <3> QED BY <3>1, <3>2, <3>3, <3>4 DEF DBInv
    <2> QED BY <2>1, <2>2
  <1> QED BY <1>1, <1>2, PTL DEF Spec

(* However many workers compare and add at once, and whatever the writer,   *)
(* the settings and a crash do meanwhile, what waits to be written fits the *)
(* budget, and the budget taken is what waits or is in a worker's hands     *)
(* (Enqueue, writeLoop, Close in sqlite.go).                                *)
THEOREM BudgetHolds == Spec => []BudgetIsKept
  <1>1. DBInv => BudgetIsKept
    <2> SUFFICES ASSUME DBInv PROVE BudgetIsKept
      OBVIOUS
    <2>1. TypeOK
      <3>1. /\ DOMAIN file.rows \subseteq Nat /\ RowsOf(file) \subseteq DOMAIN from
            /\ file.index \subseteq Nat \X DOMAIN from /\ {file.fills, file.forgets} \subseteq BOOLEAN
        BY DEF DBInv, Types, IsFile
      <3> QED BY <3>1 DEF DBInv, Types, WriterIsThere, TypeOK, WorkerSteps
    <2>2. WithinQueueBudget
      <3>1. Len(queue) \in Nat /\ Len(batch) \in Nat /\ QueueBudget \in Nat
        BY ToSetType, SizesAssumption DEF DBInv, Types
      <3> QED BY <3>1, Counts DEF DBInv, BudgetInv, WithinQueueBudget
    <2> QED BY <2>1, <2>2 DEF DBInv, BudgetInv, BudgetIsKept
  <1> QED BY <1>1, DBInvariant, PTL

(* A Flush or a Close that returns has left no message behind that waited   *)
(* when it began (Flush and Close in sqlite.go).                            *)
THEOREM FlushWaitsForAll == Spec => []WaitedForIsWritten
  <1>1. DBInv => WaitedForIsWritten
    BY DEF DBInv, HeldInv, WaitedForIsWritten
  <1> QED BY <1>1, DBInvariant, PTL

(* No search misses a stored row that contains the word, through writes,    *)
(* deletions, rowids given again, changes of the setting that succeed or    *)
(* fail, and crashes; but for rows left out while the index was switched    *)
(* off (SearchPage, SetFullText and the triggers in fts.go).                *)
THEOREM IndexIsComplete == Spec => []IndexAnswersForAll
  <1>1. DBInv => IndexAnswersForAll
    BY DEF DBInv, IndexInv, IndexAnswersForAll, Found, ByIndex, ByScan
  <1> QED BY <1>1, DBInvariant, PTL
=============================================================================
