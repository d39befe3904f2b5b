---------------------------- MODULE AlertWindow ----------------------------
(* The sliding window an alert rule counts over (window in                  *)
(* internal/alerts/window.go): a fixed number of buckets, reused in a ring. *)
(* A window value is the array of buckets; times are milliseconds.          *)
EXTENDS Integers, FiniteSetsExt

CONSTANTS NumBuckets,   \* winBuckets (60)
          WindowMs      \* the rule's window

(* A window is whole seconds and has 60 buckets: none is narrower than 1 ms. *)
ASSUME WindowAssumption == NumBuckets \in Nat \ {0} /\ WindowMs \in Nat /\ WindowMs >= NumBuckets

NoValue == -1    \* a message without the numeric field; values are naturals

Size == IF WindowMs \div NumBuckets < 1 THEN 1 ELSE WindowMs \div NumBuckets

SlotOf(t) == t \div Size

Bucket(slot) == [start |-> slot, count |-> 0, n |-> 0, sum |-> 0, low |-> 0, high |-> 0]

NewWindow == [i \in 0..(NumBuckets - 1) |-> Bucket(0)]

(* The bucket of the present slot, started over when it is from an earlier *)
(* turn of the ring.                                                       *)
Current(w, now) ==
    LET b == w[SlotOf(now) % NumBuckets] IN
    IF b.start # SlotOf(now) THEN Bucket(SlotOf(now)) ELSE b

(* Mutant: a message without the field counts as a value. *)
CountedAlways(b, v) == [b EXCEPT !.count = @ + 1, !.low = v, !.high = v, !.sum = @ + v, !.n = @ + 1]

(* Mutant: the first value of a bucket is compared with the zero it starts with. *)
CountedFromZero(b, v) ==
    IF v = NoValue THEN [b EXCEPT !.count = @ + 1]
    ELSE [b EXCEPT !.count = @ + 1, !.low = IF v < @ THEN v ELSE @, !.high = IF v > @ THEN v ELSE @,
                   !.sum = @ + v, !.n = @ + 1]

(* A message counted in its bucket; the first value sets minimum and maximum. *)
Counted(b, v) ==
    LET first == b.n = 0
        c     == [b EXCEPT !.count = @ + 1] IN
    IF v = NoValue THEN c
    ELSE [c EXCEPT !.low  = IF first \/ v < @ THEN v ELSE @,
                   !.high = IF first \/ v > @ THEN v ELSE @,
                   !.sum  = @ + v,
                   !.n    = @ + 1]

Add(w, now, v) == [w EXCEPT ![SlotOf(now) % NumBuckets] = Counted(Current(w, now), v)]

(* Mutant: buckets are not checked for being too old. *)
InWindowAny(w, now) == {i \in DOMAIN w : w[i].start <= SlotOf(now) /\ w[i].count > 0}

(* The buckets that fall inside the window ending now. *)
InWindow(w, now) ==
    {i \in DOMAIN w : /\ w[i].start >= SlotOf(now - WindowMs)
                      /\ w[i].start <= SlotOf(now)
                      /\ w[i].count > 0}

Totals(w, now) ==
    LET in == InWindow(w, now)
        valued == {i \in in : w[i].n > 0} IN
    [count |-> MapThenSumSet(LAMBDA i : w[i].count, in),
     n     |-> MapThenSumSet(LAMBDA i : w[i].n, valued),
     sum   |-> MapThenSumSet(LAMBDA i : w[i].sum, valued),
     low   |-> IF valued = {} THEN 0 ELSE Min({w[i].low : i \in valued}),
     high  |-> IF valued = {} THEN 0 ELSE Max({w[i].high : i \in valued})]
=============================================================================
