--------------------------- MODULE BoundedHistory ---------------------------
(* What one shard of the in-memory history promises (the Store interface of *)
(* internal/history/history.go): messages are kept in arrival order; to     *)
(* make room only the oldest message of the shard, or the oldest of the     *)
(* subject that got a new one, is given up; a connection or a list of       *)
(* subjects is forgotten at once and as a whole.                            *)
EXTENDS Integers, Sequences

CONSTANTS Conns,          \* connection IDs
          Subjects,       \* subjects of this shard
          Sizes,          \* what a record may weigh (Record.Bytes)
          MaxPerSubject   \* messages kept per subject

VARIABLES entry,   \* every message that arrived, by arrival number
          kept     \* the arrival numbers still held

vars == <<entry, kept>>

Keys == Conns \X Subjects

KeyOf(i) == <<entry[i].conn, entry[i].subject>>

Of(k) == {i \in kept : KeyOf(i) = k}

Oldest(S, i) == i \in S /\ \A j \in S : i <= j

Init == entry = <<>> /\ kept = {}

(* A message arrives; a subject that is full gives up its oldest. *)
Record(k, z) ==
    LET i == Len(entry) + 1 IN
    /\ entry' = Append(entry, [conn |-> k[1], subject |-> k[2], size |-> z])
    /\ \/ kept' = kept \cup {i}
       \/ \E j \in Of(k) \cup {i} :
              Oldest(Of(k) \cup {i}, j) /\ kept' = (kept \cup {i}) \ {j}

(* The shard makes room: the message that has been held longest goes. *)
Evict == /\ \E i \in kept : Oldest(kept, i) /\ kept' = kept \ {i}
         /\ UNCHANGED entry

(* Connections or subjects are forgotten. *)
Forget(K) == /\ kept' = {i \in kept : KeyOf(i) \notin K}
             /\ UNCHANGED entry

Next == \/ \E k \in Keys, z \in Sizes : Record(k, z)
        \/ Evict
        \/ \E K \in SUBSET Keys : Forget(K)

Spec == Init /\ [][Next]_vars
=============================================================================
