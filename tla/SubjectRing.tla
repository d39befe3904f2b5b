---------------------------- MODULE SubjectRing ----------------------------
(* The ring buffer that holds one subject's messages (subjectBuf in         *)
(* internal/history/history.go): pushes and pops move only the indexes, the *)
(* slice doubles when it is full and halves when it is mostly empty.        *)
(*                                                                          *)
(* items is the slice, indexed from 0 as in Go, cap its length, head the    *)
(* slot of the oldest entry, n the number of entries.                       *)
EXTENDS Integers, Sequences

CONSTANTS Entry,         \* the entries stored
          Nil,           \* an empty slot
          MinCap,        \* capacity of the first allocation (8 in the code)
          ShrinkAbove,   \* never shrink at or below this capacity (64)
          MaxLen         \* bound on the entries held, for TLC

ASSUME RingAssumption ==
    /\ MinCap \in Nat \ {0}
    /\ ShrinkAbove \in Nat
    /\ MaxLen \in Nat
    /\ Nil \notin Entry

VARIABLES items, cap, head, n, out

vars == <<items, cap, head, n, out>>

(* Mutant: the index is not wrapped. *)
WrapNever(i, c) == i

(* The slot index i falls into in a ring of c slots. *)
Wrap(i, c) == i % c

(* The i-th entry, oldest first, of a ring its of c slots that starts at h. *)
At(its, h, c, i) == its[Wrap(h + i, c)]

(* The slice with v in slot i. *)
Put(its, i, v) == [its EXCEPT ![i] = v]

(* Mutant: the slice is copied as it lies. *)
ResizeAsItLies(its, h, c, k, c2) ==
    [i \in 0..(c2 - 1) |-> IF i < k THEN its[i] ELSE Nil]

(* The first k entries of such a ring moved to the front of a slice of c2. *)
Resize(its, h, c, k, c2) ==
    [i \in 0..(c2 - 1) |-> IF i < k THEN At(its, h, c, i) ELSE Nil]

Larger(a, b) == IF a > b THEN a ELSE b

Init == /\ items = [i \in {} |-> Nil]
        /\ cap = 0
        /\ head = 0
        /\ n = 0
        /\ out = Nil

PushInPlace(e) ==
    /\ n # cap
    /\ items' = Put(items, Wrap(head + n, cap), e)
    /\ UNCHANGED <<cap, head>>

PushGrowing(e) ==
    /\ n = cap
    /\ cap' = Larger(MinCap, 2 * cap)
    /\ items' = Put(Resize(items, head, cap, n, cap'), Wrap(0 + n, cap'), e)
    /\ head' = 0

Push == /\ n < MaxLen
        /\ \E e \in Entry : PushInPlace(e) \/ PushGrowing(e)
        /\ n' = n + 1
        /\ UNCHANGED out

(* Mutant: the slot of the popped entry keeps its pointer. *)
PoppedKept == items

(* The slice once the oldest entry is taken, and whether it is then mostly *)
(* empty.                                                                  *)
Popped == Put(items, head, Nil)

Shrinks == cap > ShrinkAbove /\ n - 1 < cap \div 4

PopInPlace == /\ ~Shrinks
              /\ items' = Popped
              /\ head' = Wrap(head + 1, cap)
              /\ UNCHANGED cap

PopShrinking ==
    /\ Shrinks
    /\ cap' = cap \div 2
    /\ items' = Resize(Popped, Wrap(head + 1, cap), cap, n - 1, cap')
    /\ head' = 0

(* Callers pop only a buffer that holds something. *)
PopHead == /\ n > 0
           /\ out' = items[head]
           /\ PopInPlace \/ PopShrinking
           /\ n' = n - 1

Next == Push \/ PopHead

Spec == Init /\ [][Next]_vars
-----------------------------------------------------------------------------
TypeOK == /\ cap \in Nat
          /\ n \in 0..cap
          /\ head \in 0..Larger(0, cap - 1)
          /\ items \in [0..(cap - 1) -> Entry \cup {Nil}]
          /\ out \in Entry \cup {Nil}

(* A slot holds an entry exactly when it is one of the n slots from head   *)
(* on: no live message is overwritten by a wrap-around or lost by a resize, *)
(* and a slot that was popped does not keep its message in memory (popHead  *)
(* sets it to nil).                                                         *)
Filled(its, h, c, k) ==
    \A i \in 0..(c - 1) : its[i] # Nil <=> \E j \in 0..(k - 1) : Wrap(h + j, c) = i

LiveSlotsOnly == Filled(items, head, cap, n)

(* The ring is a queue: every push and pop, whether or not the slice is     *)
(* reallocated on the way, does what the same operation does to a sequence. *)
Listed(its, h, c, k) == [i \in 1..k |-> At(its, h, c, i - 1)]

Contents == Listed(items, head, cap, n)

Queue == INSTANCE FifoQueue WITH queue <- Contents

RingIsQueue == Queue!Spec
=============================================================================
