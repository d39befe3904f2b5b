----------------------------- MODULE FifoQueue -----------------------------
(* What a subject's message buffer promises its callers: a first-in        *)
(* first-out queue. out is the value the last pop handed back.             *)
EXTENDS Sequences

CONSTANTS Entry,        \* the values queued
          Nil           \* "nothing popped yet"

VARIABLES queue, out

vars == <<queue, out>>

Init == queue = <<>> /\ out = Nil

Push == \E e \in Entry : queue' = Append(queue, e) /\ UNCHANGED out

Pop == /\ queue # <<>>
       /\ out' = Head(queue)
       /\ queue' = Tail(queue)

Next == Push \/ Pop

Spec == Init /\ [][Next]_vars
=============================================================================
