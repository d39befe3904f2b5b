----------------------------- MODULE ChartPoints -----------------------------
(* The points of a chart (ValueChart.tsx): what the server reduced a field   *)
(* to (handler/aggregate.go), what the browser appends of the messages that  *)
(* arrived since, and how many of them are drawn; and the pointer on the     *)
(* chart, which picks a point with a click and a window with a drag. Values  *)
(* are fractions <<n, d>>. The minute aggregates are left out.               *)
EXTENDS Integers, Sequences, FiniteSets, SequencesExt, FiniteSetsExt

CONSTANTS None,
          Values,     \* what the field carries
          Aggs,       \* aggregations, of "minmax", "min", "max", "sum", "count", "avg", "rate"
          Points,     \* how many points are asked for
          Pixels,     \* how many are drawn
          MaxSamples, \* bound on the messages
          MaxOps      \* bound on what the pointer does and on refreshes

VARIABLES samples,  \* the field's values with their times, oldest first
          agg,
          asked,    \* a request under way: its aggregation
          series,   \* the last answer
          points,   \* what there is to draw
          drawn,    \* and what is drawn of it
          window,   \* the time range, None while live
          pointer,  \* where a press began and where it is (dragFrom, band), and swallowClick
          did,      \* ghost: what the last press ended in, and its click
          spent

vars == <<samples, agg, asked, series, points, drawn, window, pointer, did, spent>>

Value(p) == p.v[1]
Smaller(a, b) == IF a < b THEN a ELSE b
Larger(a, b) == IF a > b THEN a ELSE b

-----------------------------------------------------------------------------
(* aggregate.go. *)

(* buckets: about n groups of consecutive samples, none empty. *)
Buckets(s, n) ==
    LET at(b) == IF Len(s) < n THEN b ELSE (b * Len(s)) \div n
        count == Smaller(n, Len(s))
    IN  [b \in 1..count |-> SubSeq(s, at(b - 1) + 1, at(b))]

SumOf(s) == LET sum[i \in 0..Len(s)] == IF i = 0 THEN 0 ELSE sum[i - 1] + Value(s[i]) IN sum[Len(s)]
LowestAt(s) == CHOOSE i \in 1..Len(s) : \A j \in 1..Len(s) : Value(s[i]) < Value(s[j]) \/ (Value(s[i]) = Value(s[j]) /\ i <= j)
HighestAt(s) == CHOOSE i \in 1..Len(s) : \A j \in 1..Len(s) : Value(s[i]) > Value(s[j]) \/ (Value(s[i]) = Value(s[j]) /\ i <= j)
End(s) == s[Len(s)].t

(* Mutant: only the peak. *)
Peak(s) == <<s[HighestAt(s)]>>

(* Both extremes of a group, in the order in which they occurred. *)
Extremes(s) == LET lo == LowestAt(s) hi == HighestAt(s)
               IN  IF lo = hi THEN <<s[lo]>> ELSE <<s[Smaller(lo, hi)], s[Larger(lo, hi)]>>

Reduce(s, a) ==
    CASE a = "min"   -> <<s[LowestAt(s)]>>
      [] a = "max"   -> <<s[HighestAt(s)]>>
      [] a = "sum"   -> <<[t |-> End(s), v |-> <<SumOf(s), 1>>]>>
      [] a = "count" -> <<[t |-> End(s), v |-> <<Len(s), 1>>]>>
      [] a = "avg"   -> <<[t |-> End(s), v |-> <<SumOf(s), Len(s)>>]>>
      [] OTHER       -> Extremes(s)

(* The change per unit of time between neighbours, none below zero. *)
RateOf(s) ==
    LET step(i) == [t |-> s[i].t, v |-> <<Larger(0, Value(s[i]) - Value(s[i - 1])), s[i].t - s[i - 1].t>>]
    IN  SelectSeq([i \in 1..Larger(0, Len(s) - 1) |-> step(i + 1)], LAMBDA p : p.v[2] > 0)

Aggregate(s, a) ==
    LET groups == Buckets(s, Points)
    IN  IF a = "rate" THEN RateOf([b \in 1..Len(groups) |-> groups[b][Len(groups[b])]])
        ELSE FlattenSeq([b \in 1..Len(groups) |-> Reduce(groups[b], a)])

-----------------------------------------------------------------------------
(* What the browser makes of it. *)

Chunks(s, size) == [i \in 1..Len(s) \div size |-> SubSeq(s, (i - 1) * size + 1, i * size)]

(* extendSeries: whole groups of the size the server's had. A minimum and a *)
(* maximum are noted at the end of the group here.                          *)
ExtendSeries(answer, live, a) ==
    LET n == Larger(1, Len(answer.points))
        size == Larger(1, (2 * answer.samples + n) \div (2 * n))
        chunks == Chunks(live, size)
        one(c) == [t |-> End(c), v |-> Reduce(c, IF a = "minmax" THEN "avg" ELSE a)[1].v]
    IN  IF a = "rate" THEN RateOf([i \in 1..Len(chunks) |-> chunks[i][size]])
        ELSE [i \in 1..Len(chunks) |-> one(chunks[i])]

Follows(p, after) == p.t > after

(* mergePoints: the answer, and the messages after its last point. *)
MergePoints(answer, msgs, a) ==
    IF answer = None THEN msgs
    ELSE LET after == IF answer.points = <<>> THEN 0 ELSE End(answer.points)
             live == SelectSeq(msgs, LAMBDA p : Follows(p, after))
         IN  answer.points \o (IF a = "minmax" THEN live ELSE ExtendSeries(answer, live, a))

(* decimate: both extremes of each of the groups there are pixels for. *)
Decimate(s) ==
    LET groups == Buckets(s, Pixels)
    IN  IF Len(s) <= Pixels THEN s ELSE FlattenSeq([b \in 1..Len(groups) |-> Extremes(groups[b])])

Shown == IF window = None THEN samples
         ELSE SelectSeq(samples, LAMBDA p : window.from <= p.t /\ p.t <= window.to)

(* From the first to the last point: a chart of fewer than two points, or   *)
(* of one instant, is not drawn.                                            *)
Axis == IF Len(drawn) < 2 \/ drawn[1].t = End(drawn) THEN None ELSE [t0 |-> drawn[1].t, t1 |-> End(drawn)]
Within(axis, by) == IF axis = None THEN {} ELSE axis.t0 - by..axis.t1 + by

-----------------------------------------------------------------------------
Init ==
    /\ samples = <<>> /\ agg \in Aggs /\ asked = None /\ series = None /\ points = <<>> /\ drawn = <<>> /\ window = None
    /\ pointer = [a |-> None, b |-> None, swallow |-> FALSE]
    /\ did = [press |-> "none", click |-> "none"] /\ spent = 0

(* The memos of the chart follow what they are made of. *)
Redraws == points' = MergePoints(series', Shown', agg') /\ drawn' = Decimate(points')

Op == spent < MaxOps /\ spent' = spent + 1

(* A message with the field, in the same millisecond as the last or later. *)
Arrives ==
    /\ Len(samples) < MaxSamples
    /\ \E v \in Values, dt \in {0, 1} :
         samples' = Append(samples, [t |-> dt + (IF samples = <<>> THEN 1 ELSE End(samples)), v |-> <<v, 1>>])
    /\ UNCHANGED <<agg, asked, series, window, pointer, did, spent>> /\ Redraws

(* The field is charted, refreshed, or reduced another way. The answer of   *)
(* before stays until the next one.                                         *)
Asks ==
    /\ Op /\ \/ asked' = agg /\ UNCHANGED agg
             \/ \E a \in Aggs \ {agg} : agg' = a /\ asked' = a
    /\ UNCHANGED <<samples, series, window, pointer, did>> /\ Redraws

Answered ==
    /\ asked # None /\ asked' = None
    /\ series' = [points |-> Aggregate(Shown, asked), samples |-> Len(Shown)]
    /\ UNCHANGED <<samples, agg, window, pointer, did, spent>> /\ Redraws

(* onDown, where there is a database to zoom into. *)
Down == /\ Op
        /\ \E x \in Within(Axis, 0) : pointer' = [pointer EXCEPT !.a = x, !.b = x]
        /\ UNCHANGED <<samples, agg, asked, series, points, drawn, window, did>>

(* onDrag: as far as the pointer goes, the edge of the chart included. *)
Drag == /\ pointer.a # None
        /\ \E x \in Within(Axis, 1) : x # pointer.b /\ pointer' = [pointer EXCEPT !.b = x]
        /\ UNCHANGED <<samples, agg, asked, series, points, drawn, window, did, spent>>

(* Mutant: the click of a drag is a click. *)
SwallowsNothing(p) == FALSE

(* onUp and the onClick after it. Far enough from where it began it is a    *)
(* window, over the data only, and the click is not to pick anything. A     *)
(* window is another question, and a click reaches only a chart that is     *)
(* still drawn.                                                             *)
Swallows(p) == p

Far == pointer.a # pointer.b
ClickOf(swallow) == IF Swallows(swallow) THEN "swallowed" ELSE "picked"

Up ==
    /\ pointer.a # None
    /\ LET axis == Axis
           from == Larger(axis.t0, Smaller(pointer.a, pointer.b))
           to == Smaller(axis.t1, Larger(pointer.a, pointer.b))
       IN  /\ axis # None
           /\ IF Far THEN window' = [from |-> from, to |-> Larger(to, from + 1)] /\ asked' = agg
                     ELSE UNCHANGED <<window, asked>>
    /\ UNCHANGED <<samples, agg, series, spent>> /\ Redraws
    /\ LET swallow == pointer.swallow \/ Far
           there == Axis' # None
       IN  /\ did' = [press |-> IF Far THEN "zoomed" ELSE "released", click |-> IF there THEN ClickOf(swallow) ELSE "lost"]
           /\ pointer' = [a |-> None, b |-> None, swallow |-> swallow /\ ~there]

(* cancelDrag: the pointer is taken away, by the system or another gesture. *)
CancelDrag == /\ pointer.a # None /\ Axis # None /\ pointer' = [pointer EXCEPT !.a = None, !.b = None]
              /\ UNCHANGED <<samples, agg, asked, series, points, drawn, window, did, spent>>

Next == Arrives \/ Asks \/ Answered \/ Down \/ Drag \/ Up \/ CancelDrag
Spec == Init /\ [][Next]_vars

-----------------------------------------------------------------------------
(* Properties. *)

Distinct == \A i \in 1..Len(samples) - 1 : samples[i].t < samples[i + 1].t
Settled == series # None /\ asked = None

(* Counted and added up, the points of a chart stand for the first messages *)
(* there are, each of them once: what the server reduced and what the       *)
(* browser appends meet without a gap and without an overlap, if no two     *)
(* messages share a millisecond.                                            *)
EachMessageOnce ==
    Settled /\ agg \in {"count", "sum"} /\ Distinct =>
      LET shown == Shown
          total == SumOf(points)
      IN  \E n \in Smaller(series.samples, Len(shown))..Len(shown) :
            total = IF agg = "count" THEN n ELSE SumOf(SubSeq(shown, 1, n))

(* What is drawn goes forward in time, is no more than the pixels hold, and *)
(* still has the highest and the lowest value there is (decimate).          *)
PeaksAreDrawn ==
    /\ \A i \in 1..Len(drawn) - 1 : drawn[i].t <= drawn[i + 1].t
    /\ Len(drawn) <= 2 * Pixels
    /\ agg = "minmax" /\ points # <<>> =>
         {Value(points[LowestAt(points)]), Value(points[HighestAt(points)])} \subseteq {Value(p) : p \in ToSet(drawn)}

(* "A drag ends in a click as well; that click belongs to the drag." *)
DragPicksNothing == ~(did.press = "zoomed" /\ did.click = "picked")

(* A click that is none of a drag picks the point it points at. *)
ClickPicks == ~(did.press = "released" /\ did.click = "swallowed")

(* "the live messages the series does not cover yet" (mergePoints): the     *)
(* lowest points of the groups stand for each message once as well.         *)
NoneCountedTwice ==
    Settled /\ Distinct /\ agg \in {"min", "max"} /\ Shown # <<>> =>
      LET after == IF series.points = <<>> THEN 0 ELSE End(series.points) IN \A i \in 1..Len(Shown) : i <= series.samples => Shown[i].t <= after
=============================================================================
