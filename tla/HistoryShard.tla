---------------------------- MODULE HistoryShard ----------------------------
(* One shard of the in-memory history (shard and MemStore in                *)
(* internal/history/history.go). Every message is in two queues: the FIFO   *)
(* of the shard, which enforces the byte budget over all connections, and   *)
(* the ring of its subject, which is capped at MaxPerSubject. Nothing is    *)
(* ever taken out of the middle of the FIFO: a message that leaves its ring *)
(* is only marked dead, and the FIFO skips it later. The rings are the      *)
(* queues that SubjectRing implements.                                      *)
(*                                                                          *)
(* An entry is named by its arrival number in entry. Append, Drop and       *)
(* DropSubjects hold the shard's lock from their first step to their last;  *)
(* their loops take one step per iteration.                                 *)
EXTENDS Integers, Sequences, FiniteSets, FiniteSetsExt

CONSTANTS Conns,          \* connection IDs
          Subjects,       \* subjects whose hash lands on this shard
          Sizes,          \* what a record may weigh (Record.Bytes)
          MaxBytes,       \* byte budget of the shard
          MaxPerSubject,  \* messages kept per subject
          CompactAbove,   \* the FIFO is compacted past this head (4096)
          MaxArrivals     \* bound on the messages recorded, for TLC

ASSUME ShardAssumption ==
    /\ MaxBytes \in Nat
    /\ MaxPerSubject \in Nat \ {0}
    /\ CompactAbove \in Nat
    /\ MaxArrivals \in Nat
    /\ Sizes \subseteq Nat \ {0}

VARIABLES entry,       \* the entries made so far: connection, subject, size
          live,        \* those whose dead flag is not set
          fifo,        \* sh.fifo, 0 for a slot set to nil
          fifoHead,    \* sh.fifoHead
          held,        \* the keys of the conns and subjects maps
          buf,         \* the ring of each key
          bytes, count,            \* sh.bytes, sh.count
          connBytes, connCount,    \* the same per connHist
          lock,        \* who holds sh.mu: "free", "append" or "drop"
          dropping,    \* the keys a drop is deleting
          panicked     \* the two queues were found out of step

vars == <<entry, live, fifo, fifoHead, held, buf, bytes, count,
          connBytes, connCount, lock, dropping, panicked>>

Keys == Conns \X Subjects

KeyOf(i) == <<entry[i].conn, entry[i].subject>>

Init == /\ entry = <<>> /\ live = {}
        /\ fifo = <<>> /\ fifoHead = 0
        /\ held = {} /\ buf = [k \in Keys |-> <<>>]
        /\ bytes = 0 /\ count = 0
        /\ connBytes = [c \in Conns |-> 0] /\ connCount = [c \in Conns |-> 0]
        /\ lock = "free" /\ dropping = {}
        /\ panicked = FALSE

(* Counters of connection c moved by z bytes and d messages. *)
Account(c, z, d) ==
    /\ bytes' = bytes + z
    /\ count' = count + d
    /\ connBytes' = [connBytes EXCEPT ![c] = @ + z]
    /\ connCount' = [connCount EXCEPT ![c] = @ + d]

Room(k) == Len(buf[k]) < MaxPerSubject

(* Mutant: the entry popped at the cap is not killed. *)
PushRecordKeepsOld(k, z) ==
    LET i == Len(entry) + 1 IN
    /\ entry' = Append(entry, [conn |-> k[1], subject |-> k[2], size |-> z])
    /\ fifo' = Append(fifo, i)
    /\ held' = held \cup {k}
    /\ live' = live \cup {i}
    /\ buf' = [buf EXCEPT ![k] = IF Room(k) THEN Append(@, i) ELSE Tail(Append(@, i))]
    /\ Account(k[1], z, 1)

(* Mutant: at the cap the popped entry's bytes stay on the account. *)
PushRecordLeaksBytes(k, z) ==
    LET i == Len(entry) + 1 IN
    /\ entry' = Append(entry, [conn |-> k[1], subject |-> k[2], size |-> z])
    /\ fifo' = Append(fifo, i)
    /\ held' = held \cup {k}
    /\ live' = IF Room(k) THEN live \cup {i} ELSE (live \cup {i}) \ {Head(Append(buf[k], i))}
    /\ buf' = [buf EXCEPT ![k] = IF Room(k) THEN Append(@, i) ELSE Tail(Append(@, i))]
    /\ Account(k[1], z, IF Room(k) THEN 1 ELSE 0)

(* Mutant: a full subject refuses the new message. *)
PushRecordRefuses(k, z) ==
    LET i == Len(entry) + 1 IN
    /\ entry' = Append(entry, [conn |-> k[1], subject |-> k[2], size |-> z])
    /\ fifo' = Append(fifo, i)
    /\ held' = held \cup {k}
    /\ live' = IF Room(k) THEN live \cup {i} ELSE live
    /\ buf' = [buf EXCEPT ![k] = IF Room(k) THEN Append(@, i) ELSE @]
    /\ IF Room(k) THEN Account(k[1], z, 1) ELSE UNCHANGED <<bytes, count, connBytes, connCount>>

(* The record is pushed to both queues and the subject's own cap enforced;  *)
(* the byte budget follows in EvictOldest, under the same lock.             *)
PushRecord(k, z) ==
    LET i == Len(entry) + 1 IN
    /\ entry' = Append(entry, [conn |-> k[1], subject |-> k[2], size |-> z])
    /\ fifo' = Append(fifo, i)
    /\ held' = held \cup {k}
    /\ \/ /\ Room(k)
          /\ buf' = [buf EXCEPT ![k] = Append(@, i)]
          /\ live' = live \cup {i}
          /\ Account(k[1], z, 1)
       \/ /\ ~Room(k)
          /\ buf' = [buf EXCEPT ![k] = Tail(Append(@, i))]
          /\ LET old == Head(Append(buf[k], i)) IN
             /\ live' = (live \cup {i}) \ {old}
             /\ Account(k[1], z - entry'[old].size, 0)

AppendRecord ==
    /\ lock = "free" /\ ~panicked
    /\ Len(entry) < MaxArrivals
    /\ \E k \in Keys, z \in Sizes : PushRecord(k, z)
    /\ lock' = "append"
    /\ UNCHANGED <<fifoHead, dropping, panicked>>

(* Mutant: the loop spares the newest message. *)
OverBudgetSparing == bytes > MaxBytes /\ fifoHead + 1 < Len(fifo)

OverBudget == bytes > MaxBytes /\ fifoHead < Len(fifo)

(* One turn of the eviction loop. *)
EvictOldest ==
    /\ lock = "append" /\ OverBudget
    /\ LET old == fifo[fifoHead + 1]
           k   == KeyOf(old) IN
       /\ fifo' = [fifo EXCEPT ![fifoHead + 1] = 0]
       /\ fifoHead' = fifoHead + 1
       /\ \/ /\ old \notin live
             /\ UNCHANGED <<live, buf, bytes, count, connBytes, connCount, lock, panicked>>
          \/ /\ old \in live
             /\ buf[k] # <<>> /\ Head(buf[k]) = old
             /\ buf' = [buf EXCEPT ![k] = Tail(@)]
             /\ live' = live \ {old}
             /\ Account(k[1], -entry[old].size, -1)
             /\ UNCHANGED <<lock, panicked>>
          \/ /\ old \in live
             /\ buf[k] = <<>> \/ Head(buf[k]) # old
             /\ panicked' = TRUE
             /\ lock' = "free"
             /\ UNCHANGED <<live, buf, bytes, count, connBytes, connCount>>
    /\ UNCHANGED <<entry, held, dropping>>

(* Mutants: the head is not moved back, or the copy starts one late. *)
AppendDoneHeadStays ==
    /\ lock = "append" /\ ~OverBudget
    /\ IF fifoHead > CompactAbove /\ fifoHead > Len(fifo) \div 2
       THEN fifo' = SubSeq(fifo, fifoHead + 1, Len(fifo))
       ELSE UNCHANGED fifo
    /\ lock' = "free"
    /\ UNCHANGED <<fifoHead, entry, live, held, buf, bytes, count, connBytes, connCount, dropping, panicked>>

AppendDoneCopiesLate ==
    /\ lock = "append" /\ ~OverBudget
    /\ IF fifoHead > CompactAbove /\ fifoHead > Len(fifo) \div 2
       THEN /\ fifo' = SubSeq(fifo, fifoHead + 2, Len(fifo))
            /\ fifoHead' = 0
       ELSE UNCHANGED <<fifo, fifoHead>>
    /\ lock' = "free"
    /\ UNCHANGED <<entry, live, held, buf, bytes, count, connBytes, connCount, dropping, panicked>>

(* The loop is over; a FIFO that is mostly nil slots is compacted. *)
AppendDone ==
    /\ lock = "append" /\ ~OverBudget
    /\ IF fifoHead > CompactAbove /\ fifoHead > Len(fifo) \div 2
       THEN /\ fifo' = SubSeq(fifo, fifoHead + 1, Len(fifo))
            /\ fifoHead' = 0
       ELSE UNCHANGED <<fifo, fifoHead>>
    /\ lock' = "free"
    /\ UNCHANGED <<entry, live, held, buf, bytes, count, connBytes, connCount, dropping, panicked>>
-----------------------------------------------------------------------------
(* Drop takes every subject of a connection, DropSubjects those named. *)
StartDrop(K) ==
    /\ lock = "free" /\ ~panicked
    /\ K # {}
    /\ lock' = "drop"
    /\ dropping' = K
    /\ UNCHANGED <<entry, live, fifo, fifoHead, held, buf, bytes, count, connBytes, connCount, panicked>>

Drop == \E c \in Conns : StartDrop({k \in held : k[1] = c})

DropSubjects == \E c \in Conns, S \in SUBSET Subjects :
                    StartDrop({k \in held : k[1] = c /\ k[2] \in S})

(* What a drop in progress has yet to kill. *)
Doomed == {i \in live : KeyOf(i) \in dropping}

(* Mutant: the connection's own counters are forgotten. *)
KillDroppedShardOnly ==
    /\ lock = "drop"
    /\ \E i \in Doomed :
          /\ live' = live \ {i}
          /\ bytes' = bytes - entry[i].size
          /\ count' = count - 1
    /\ UNCHANGED <<connBytes, connCount, entry, fifo, fifoHead, held, buf, lock, dropping, panicked>>

(* The loop over the subjects' rings kills one entry per turn, in the order *)
(* the map gives.                                                           *)
KillDropped ==
    /\ lock = "drop"
    /\ \E k \in dropping : \E p \in 1..Len(buf[k]) :
          LET i == buf[k][p] IN
          /\ i \in live
          /\ live' = live \ {i}
          /\ Account(KeyOf(i)[1], -entry[i].size, -1)
    /\ UNCHANGED <<entry, fifo, fifoHead, held, buf, lock, dropping, panicked>>

(* Mutant: the rings go without their entries being killed. *)
DropDoneUnkilled ==
    /\ lock = "drop"
    /\ held' = held \ dropping
    /\ buf' = [k \in Keys |-> IF k \in dropping THEN <<>> ELSE buf[k]]
    /\ lock' = "free"
    /\ dropping' = {}
    /\ UNCHANGED <<entry, live, fifo, fifoHead, bytes, count, connBytes, connCount, panicked>>

(* The rings are deleted, and with the last one of a connection its         *)
(* connHist, counters and all.                                              *)
DropDone ==
    /\ lock = "drop"
    /\ \A k \in dropping : \A p \in 1..Len(buf[k]) : buf[k][p] \notin live
    /\ held' = held \ dropping
    /\ buf' = [k \in Keys |-> IF k \in dropping THEN <<>> ELSE buf[k]]
    /\ connBytes' = [c \in Conns |-> IF \E k \in held' : k[1] = c THEN connBytes[c] ELSE 0]
    /\ connCount' = [c \in Conns |-> IF \E k \in held' : k[1] = c THEN connCount[c] ELSE 0]
    /\ lock' = "free"
    /\ dropping' = {}
    /\ UNCHANGED <<entry, live, fifo, fifoHead, bytes, count, panicked>>

(* Clear forgets the maps and both queues without walking them. *)
Clear ==
    /\ lock = "free" /\ ~panicked
    /\ live' = {}
    /\ fifo' = <<>> /\ fifoHead' = 0
    /\ held' = {} /\ buf' = [k \in Keys |-> <<>>]
    /\ bytes' = 0 /\ count' = 0
    /\ connBytes' = [c \in Conns |-> 0] /\ connCount' = [c \in Conns |-> 0]
    /\ UNCHANGED <<entry, lock, dropping, panicked>>

Next == \/ AppendRecord \/ EvictOldest \/ AppendDone
        \/ Drop \/ DropSubjects \/ KillDropped \/ DropDone
        \/ Clear

Spec == Init /\ [][Next]_vars
-----------------------------------------------------------------------------
Entry == [conn : Conns, subject : Subjects, size : Sizes]

TypeOK == /\ entry \in Seq(Entry)
          /\ live \subseteq 1..Len(entry)
          /\ fifo \in Seq(0..Len(entry))
          /\ fifoHead \in 0..Len(fifo)
          /\ held \subseteq Keys
          /\ buf \in [Keys -> Seq(1..Len(entry))]
          /\ bytes \in Int /\ count \in Int
          /\ connBytes \in [Conns -> Int] /\ connCount \in [Conns -> Int]
          /\ lock \in {"free", "append", "drop"}
          /\ dropping \subseteq held
          /\ panicked \in BOOLEAN

(* The panic in Append, "global FIFO out of step with subject FIFO", is     *)
(* never reached, whatever mix of appends, evictions, full subjects, drops, *)
(* clears and compactions came before.                                      *)
NoPanic == ~panicked

(* A subject's ring holds exactly the live messages of the subject, oldest  *)
(* first: a message whose dead flag is set is in no ring, so no query can   *)
(* return one whose payload was released.                                   *)
LiveOf(k) == {i \in live : KeyOf(i) = k}

RingsHoldTheLive ==
    lock # "drop" =>
        \A k \in Keys :
            /\ {buf[k][p] : p \in 1..Len(buf[k])} = LiveOf(k)
            /\ \A p, q \in 1..Len(buf[k]) : p < q => buf[k][p] < buf[k][q]

(* Every live message waits in the part of the FIFO not yet consumed:       *)
(* otherwise it would never be evicted and the budget would leak.           *)
LiveAreQueued ==
    \A i \in live : \E p \in (fifoHead + 1)..Len(fifo) : fifo[p] = i

(* Stats answers from counters that every push, eviction and drop adjusts;  *)
(* they are the number of messages that can be read.                        *)
CountsExact ==
    /\ count = Cardinality(live)
    /\ \A c \in Conns : connCount[c] = Cardinality({i \in live : entry[i].conn = c})

(* The same for the bytes. *)
Weight(S) == MapThenSumSet(LAMBDA i : entry[i].size, S)

BytesExact ==
    /\ bytes = Weight(live)
    /\ \A c \in Conns : connBytes[c] = Weight({i \in live : entry[i].conn = c})

(* Once Append returns, the shard is within its byte budget and no subject  *)
(* over its cap, however many connections share the shard.                  *)
WithinBudget ==
    /\ lock = "free" => Weight(live) <= MaxBytes
    /\ \A k \in Keys : Len(buf[k]) <= MaxPerSubject

(* The bytes are both right and within their bounds (Append, dropOldest).   *)
BytesFit == BytesExact /\ WithinBudget

(* To outside observers a drop happens at once: see BoundedHistory. *)
Kept == IF lock = "drop" THEN live \ Doomed ELSE live

History == INSTANCE BoundedHistory WITH kept <- Kept

KeepsTheNewest == History!Spec
=============================================================================
