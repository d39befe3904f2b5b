-------------------------- MODULE AlertConditions --------------------------
(* What the alert engine remembers of one subject under one rule, and what  *)
(* its active alert shows (Observe, Tick and the checks in                  *)
(* internal/alerts/alerts.go). The five conditions -- an expression, a      *)
(* window's aggregate, its message count, a value that does not move, a     *)
(* silence -- hold and stop holding on their own; there is one alert for    *)
(* all of them. Everything here runs under the lock of the subjectState, so *)
(* a handler is one step; handlers of different states, rule changes and    *)
(* the sending of events are AlertEngine's.                                 *)
EXTENDS AlertWindow, Sequences

CONSTANTS Expr,            \* whether the rule has an expression
          StaleAfter,      \* silence in ms, 0 for none
          StaleAuto,       \* whether the silence is learned
          Off,             \* a bound the rule does not have
          MinCount, MaxCount,   \* message counts, or Off
          Above,           \* the average is too high above this, or Off
          UnchangedFor,    \* in ms, 0 for none
          EvalEvery,       \* evalEvery
          StaleWindow, StaleMinGaps, StaleFactor,   \* 16, 8 and 10
          Values,          \* what the field may hold
          Epoch, MaxTime, MaxMessages               \* bounds, for TLC

ASSUME ConditionAssumption ==
    /\ StaleAfter \in Nat /\ UnchangedFor \in Nat /\ EvalEvery \in Nat
    /\ StaleWindow \in Nat \ {0} /\ StaleFactor \in Nat \ {0}
    /\ MinCount \in Nat \cup {Off} /\ MaxCount \in Nat \cup {Off}
    /\ StaleMinGaps \in 1..StaleWindow
    /\ Values \subseteq Nat
    /\ Epoch \in Nat /\ Epoch > WindowMs /\ Epoch >= EvalEvery
    /\ MaxTime \in Nat /\ MaxTime >= Epoch /\ MaxMessages \in Nat

VARIABLES st,        \* the subjectState
          alert,     \* the entry of the active map, or NoAlert
          now,       \* e.Now()
          arrived    \* the messages observed

vars == <<st, alert, now, arrived>>

Nothing == <<"nothing", 0, 0>>   \* an empty preview

NoAlert == [state |-> "none", preview |-> Nothing, acked |-> FALSE]

HasWindow == MinCount # Off \/ MaxCount # Off \/ Above # Off

NewState ==
    [lastSeen |-> 0, lastEval |-> 0, firstSeen |-> 0, seen |-> 0,
     preview |-> Nothing, levelPreview |-> Nothing, ratePreview |-> Nothing, stuckPreview |-> Nothing,
     firing |-> FALSE, level |-> FALSE, rate |-> FALSE, stuck |-> FALSE, stale |-> FALSE,
     gaps |-> [i \in 0..(StaleWindow - 1) |-> 0], gapsN |-> 0,
     win |-> NewWindow, lastValue |-> NoValue, lastChange |-> 0]

Init == st = NewState /\ alert = NoAlert /\ now = Epoch /\ arrived = <<>>

(* What a message reads like in an alert, and what a condition does. *)
Shown(m) == <<"message", m.id, m.value>>
-----------------------------------------------------------------------------
(* The handlers thread the pair of the subject's state and its alert.       *)

(* The state the alert shows when a condition ends: the one that matters    *)
(* most of those that still hold.                                           *)
CurrentOf(s) ==
    IF s.firing THEN [state |-> "firing", preview |-> s.preview]
    ELSE IF s.level THEN [state |-> "level", preview |-> s.levelPreview]
    ELSE IF s.rate THEN [state |-> "rate", preview |-> s.ratePreview]
    ELSE IF s.stuck THEN [state |-> "stuck", preview |-> s.stuckPreview]
    ELSE IF s.stale THEN [state |-> "stale", preview |-> s.preview]
    ELSE [state |-> "none", preview |-> Nothing]

(* change: a condition began (or the last one ended): a new alert. *)
Begin(x, state, pv) ==
    [x EXCEPT !.alert = [state |-> state, preview |-> pv, acked |-> FALSE]]

(* Mutant: the end of a condition always ends the alert. *)
ClearedAlways(x) == [x EXCEPT !.alert = NoAlert]

(* cleared: a condition ended. *)
Cleared(x) ==
    LET left == CurrentOf(x.st) IN
    IF left.state = "none" THEN [x EXCEPT !.alert = NoAlert]
    ELSE IF x.alert = NoAlert THEN x
    ELSE [x EXCEPT !.alert.state = left.state, !.alert.preview = left.preview]

(* Mutant: the preview is rewritten whatever the alert shows. *)
UpdateAny(x, state, pv) == IF x.alert # NoAlert THEN [x EXCEPT !.alert.preview = pv] ELSE x

(* update: a condition still holds but reads differently. *)
Update(x, state, pv) ==
    IF x.alert # NoAlert /\ x.alert.state = state THEN [x EXCEPT !.alert.preview = pv] ELSE x

(* Mutant: the first message has a gap too. *)
NoteGapFirst(s, t) ==
    IF t > s.lastSeen
    THEN [s EXCEPT !.gaps[s.gapsN % StaleWindow] = t - s.lastSeen, !.gapsN = @ + 1]
    ELSE s

(* The pause before this message goes into the ring of pauses. *)
NoteGap(s, t) ==
    IF s.lastSeen > 0 /\ t > s.lastSeen
    THEN [s EXCEPT !.gaps[s.gapsN % StaleWindow] = t - s.lastSeen, !.gapsN = @ + 1]
    ELSE s

(* The upper quartile of the gaps, 0 while there are too few. *)
TypicalGap(s) ==
    LET n == IF s.gapsN > StaleWindow THEN StaleWindow ELSE s.gapsN
        below(g) == Cardinality({i \in 0..(n - 1) : s.gaps[i] < g})
        upto(g)  == Cardinality({i \in 0..(n - 1) : s.gaps[i] <= g})
        k == (n * 3) \div 4 IN
    IF n < StaleMinGaps THEN 0
    ELSE CHOOSE g \in {s.gaps[i] : i \in 0..(n - 1)} : below(g) <= k /\ k < upto(g)
-----------------------------------------------------------------------------
(* Observe, in its parts. *)
SeenNow(x, m) ==
    LET s == NoteGap(x.st, now) IN
    [x EXCEPT !.st = [s EXCEPT !.lastSeen = now,
                               !.seen = @ + 1,
                               !.firstSeen = IF @ = 0 THEN now ELSE @]]

(* Mutant: a message does not end a silence. *)
EndSilenceNever(x) == x

EndSilence(x) == IF x.st.stale THEN Cleared([x EXCEPT !.st.stale = FALSE]) ELSE x

CountInWindow(x, m) ==
    IF HasWindow THEN [x EXCEPT !.st.win = Add(@, now, IF Above = Off THEN NoValue ELSE m.value)] ELSE x

(* Mutant: only the first value is noted. *)
NoteValueOnce(x, m) ==
    IF UnchangedFor > 0 /\ x.st.lastChange = 0
    THEN [x EXCEPT !.st.lastValue = m.value, !.st.lastChange = now]
    ELSE x

(* A new value starts the time it is unchanged for, and ends a stuck one. *)
NoteValue(x, m) ==
    IF UnchangedFor > 0 /\ (x.st.lastChange = 0 \/ m.value # x.st.lastValue)
    THEN LET y == [x EXCEPT !.st.lastValue = m.value, !.st.lastChange = now] IN
         IF y.st.stuck THEN Cleared([y EXCEPT !.st.stuck = FALSE]) ELSE y
    ELSE x

(* Mutant: a message that is not evaluated pushes the next evaluation back. *)
EvaluateSliding(x, m) ==
    LET y == [x EXCEPT !.st.lastEval = now] IN
    IF Expr /\ now - x.st.lastEval >= EvalEvery
    THEN IF m.hit /\ ~y.st.firing
         THEN Begin([y EXCEPT !.st.firing = TRUE, !.st.preview = Shown(m)], "firing", Shown(m))
         ELSE IF ~m.hit /\ y.st.firing THEN Cleared([y EXCEPT !.st.firing = FALSE])
         ELSE y
    ELSE y

(* The expression is evaluated at most once in EvalEvery. *)
Evaluate(x, m) ==
    IF Expr /\ now - x.st.lastEval >= EvalEvery
    THEN LET y == [x EXCEPT !.st.lastEval = now] IN
         IF m.hit /\ ~y.st.firing
         THEN Begin([y EXCEPT !.st.firing = TRUE, !.st.preview = Shown(m)], "firing", Shown(m))
         ELSE IF ~m.hit /\ y.st.firing THEN Cleared([y EXCEPT !.st.firing = FALSE])
         ELSE y
    ELSE IF x.st.preview = Nothing THEN [x EXCEPT !.st.preview = Shown(m)]
    ELSE x

Becomes(x) == st' = x.st /\ alert' = x.alert

Both == [st |-> st, alert |-> alert]

Observe ==
    /\ Len(arrived) < MaxMessages
    /\ \E v \in Values \cup {NoValue}, hit \in (IF Expr THEN BOOLEAN ELSE {FALSE}) :
          LET m == [id |-> Len(arrived) + 1, at |-> now, value |-> v, hit |-> hit] IN
          /\ Becomes(Evaluate(NoteValue(CountInWindow(EndSilence(SeenNow(Both, m)), m), m), m))
          /\ arrived' = Append(arrived, m)
    /\ UNCHANGED now
-----------------------------------------------------------------------------
(* Tick, in its parts. *)
SilenceLimit(s) ==
    LET learned == TypicalGap(s) * StaleFactor IN
    IF StaleAuto /\ learned > StaleAfter THEN learned ELSE StaleAfter

CheckStale(x) ==
    IF /\ StaleAfter > 0 \/ StaleAuto
       /\ StaleAuto => TypicalGap(x.st) * StaleFactor # 0
       /\ ~x.st.stale /\ x.st.lastSeen > 0
       /\ now - x.st.lastSeen > SilenceLimit(x.st)
    THEN Begin([x EXCEPT !.st.stale = TRUE], "stale", x.st.preview)
    ELSE x

(* Mutant: a count is judged from the first message on. *)
RateHitEarly(s, count) ==
    (MinCount # Off /\ count < MinCount) \/ (MaxCount # Off /\ count > MaxCount)

(* Too few messages only count once the subject was watched for a window. *)
RateHit(s, count) ==
    \/ MinCount # Off /\ count < MinCount /\ now - s.firstSeen >= WindowMs
    \/ MaxCount # Off /\ count > MaxCount /\ (MinCount # Off => count >= MinCount)

(* A window condition with its flag and its preview. *)
Judge(x, on, hit, state, pv) ==
    CASE hit /\ ~on -> Begin(x, state, pv)
      [] hit /\ on  -> Update(x, state, pv)
      [] ~hit /\ on -> Cleared(x)
      [] OTHER      -> x

CheckRate(x, total) ==
    LET hit == RateHit(x.st, total.count)
        pv  == <<"count", total.count, 0>>
        s   == [x.st EXCEPT !.rate = hit, !.ratePreview = IF hit THEN pv ELSE @] IN
    IF MinCount = Off /\ MaxCount = Off THEN x
    ELSE Judge([x EXCEPT !.st = s], x.st.rate, hit, "rate", pv)

CheckLevel(x, total) ==
    LET hit == total.n > 0 /\ total.sum > Above * total.n
        pv  == <<"average", total.sum, total.n>>
        s   == [x.st EXCEPT !.level = hit, !.levelPreview = IF hit THEN pv ELSE @] IN
    IF Above = Off THEN x
    ELSE Judge([x EXCEPT !.st = s], x.st.level, hit, "level", pv)

CheckWindow(x) ==
    IF ~HasWindow THEN x
    ELSE LET total == Totals(x.st.win, now) IN CheckLevel(CheckRate(x, total), total)

CheckStuck(x) ==
    IF /\ UnchangedFor > 0 /\ ~x.st.stuck
       /\ x.st.seen >= 2 /\ x.st.lastChange # 0
       /\ now - x.st.lastChange > UnchangedFor
    THEN LET pv == <<"unchanged", x.st.lastValue, now - x.st.lastChange>> IN
         Begin([x EXCEPT !.st.stuck = TRUE, !.st.stuckPreview = pv], "stuck", pv)
    ELSE x

(* The state is in the map from the first message on. *)
Tick == /\ st.seen > 0
        /\ Becomes(CheckStuck(CheckWindow(CheckStale(Both))))
        /\ UNCHANGED <<now, arrived>>

Ack == /\ alert # NoAlert
       /\ \E acked \in BOOLEAN : alert' = [alert EXCEPT !.acked = acked]
       /\ UNCHANGED <<st, now, arrived>>

Pass == /\ now < MaxTime
        /\ now' = now + 1
        /\ UNCHANGED <<st, alert, arrived>>

Next == Observe \/ Tick \/ Ack \/ Pass

Spec == Init /\ [][Next]_vars
-----------------------------------------------------------------------------
Larger(a, b) == IF a > b THEN a ELSE b

Preview == {"nothing", "message", "count", "average", "unchanged"} \X (Nat \cup {NoValue}) \X (Nat \cup {NoValue})

States == {"none", "firing", "level", "rate", "stuck", "stale"}

Holds(s, state) == CASE state = "firing" -> s.firing
                     [] state = "level"  -> s.level
                     [] state = "rate"   -> s.rate
                     [] state = "stuck"  -> s.stuck
                     [] state = "stale"  -> s.stale
                     [] OTHER            -> FALSE

PreviewOf(s, state) == CASE state = "level" -> s.levelPreview
                         [] state = "rate"  -> s.ratePreview
                         [] state = "stuck" -> s.stuckPreview
                         [] OTHER           -> s.preview

TypeOK ==
    /\ \A f \in {"lastSeen", "lastEval", "firstSeen", "lastChange"} : st[f] \in {0} \cup Epoch..MaxTime
    /\ \A f \in {"firing", "level", "rate", "stuck", "stale"} : st[f] \in BOOLEAN
    /\ \A f \in {"preview", "levelPreview", "ratePreview", "stuckPreview"} : st[f] \in Preview
    /\ st.seen = Len(arrived) /\ st.gapsN \in 0..Larger(0, st.seen - 1)
    /\ st.gaps \in [0..(StaleWindow - 1) -> Nat]
    /\ st.lastValue \in Values \cup {NoValue}
    /\ alert.state \in States /\ alert.preview \in Preview /\ alert.acked \in BOOLEAN
    /\ now \in Epoch..MaxTime
    /\ Len(arrived) <= MaxMessages

(* There is an alert exactly while one of the conditions holds: ending one  *)
(* condition neither ends the alert of another nor leaves an alert behind.  *)
AlertWhileSomethingHolds ==
    alert # NoAlert <=> \E state \in States : Holds(st, state)

(* What an alert shows is a condition that holds, with that condition's own *)
(* text (the comment on update: "The alert must show the state, or the      *)
(* preview belongs to a condition the reader is not looking at").           *)
AlertShowsACondition ==
    alert # NoAlert => /\ Holds(st, alert.state)
                       /\ alert.preview = PreviewOf(st, alert.state)

(* The alert of a subject and its conditions tell the same story, in states  *)
(* that have their types.                                                   *)
AlertIsOfTheConditions == TypeOK /\ AlertWhileSomethingHolds /\ AlertShowsACondition

Last == arrived[Len(arrived)].at

Silence == now - Last

(* The messages that came after a pause, the pause, and the newest of them:  *)
(* as many as are remembered.                                               *)
Changes == {i \in 2..Len(arrived) : arrived[i].at > arrived[i - 1].at}

PauseBefore(i) == arrived[i].at - arrived[i - 1].at

Newest == {i \in Changes : Cardinality({j \in Changes : j > i}) < StaleWindow}

Late == /\ StaleAfter > 0 \/ StaleAuto
        /\ Silence > StaleAfter
        /\ StaleAuto =>
              /\ Cardinality(Newest) >= StaleMinGaps
              /\ Cardinality({i \in Newest : PauseBefore(i) * StaleFactor < Silence})
                    > (Cardinality(Newest) * 3) \div 4

(* A subject is reported silent by the first tick at which its silence is   *)
(* longer than its timeout or than StaleFactor times three quarters of its  *)
(* last pauses, and never before.                                           *)
SilenceIsReported == [][Tick => (st'.stale <=> Late)]_vars

(* What is surely inside the window, and what may be: up to a bucket more.  *)
Certain == {i \in 1..Len(arrived) : SlotOf(arrived[i].at) > SlotOf(now) - NumBuckets}
Possible == {i \in 1..Len(arrived) : arrived[i].at > now - WindowMs - Size}

TooFew(n) == MinCount # Off /\ n < MinCount /\ now - arrived[1].at >= WindowMs

TooMany(n) == MaxCount # Off /\ n > MaxCount /\ (MinCount # Off => n >= MinCount)

(* A count is reported when it is out of bounds and only then, up to the    *)
(* width of a bucket, and "too few" never before the subject was watched    *)
(* for a whole window.                                                      *)
CountsAreReported ==
    [][Tick =>
        /\ st'.rate => \/ TooFew(Cardinality(Certain))
                       \/ MaxCount # Off /\ Cardinality(Possible) > MaxCount
        /\ TooFew(Cardinality(Possible)) \/ TooMany(Cardinality(Certain)) => st'.rate]_vars

(* Both windows of a rule are judged at every tick (updateStale, judgeRate). *)
WindowsAreReported == SilenceIsReported /\ CountsAreReported

(* The value of the last message has been the only one for longer than the  *)
(* rule allows, and there were two messages at all.                         *)
Unchanged ==
    /\ UnchangedFor > 0 /\ Len(arrived) >= 2
    /\ \E i \in 1..Len(arrived) :
          /\ now - arrived[i].at > UnchangedFor
          /\ \A j \in i..Len(arrived) : arrived[j].value = arrived[i].value

(* A tick calls a subject stuck exactly when the value of its last messages *)
(* has stood for longer than the rule allows, and never when nothing but    *)
(* one message was there to tell it (checkStuck). That the value was sent   *)
(* more than once is not said: see StuckWasReportedAgain.                   *)
StuckFollowsTheValue == [][Tick => (st'.stuck <=> Unchanged)]_vars

(* Refuted. alerts.go:66 "has been reported again without changing for this *)
(* many seconds" and alerts.go:861 "a value that was reported again": two   *)
(* messages carried the value of a stuck subject. checkStuck counts all     *)
(* messages of the subject, those before the last change as well.           *)
StuckWasReportedAgain ==
    st.stuck => \E i \in 1..(Len(arrived) - 1) :
                   \A j \in i..Len(arrived) : arrived[j].value = arrived[Len(arrived)].value

(* The throttle on evaluations costs at most EvalEvery: once every message  *)
(* of the last EvalEvery agrees, the alert agrees with them.                *)
ExpressionFollowsTheTraffic ==
    [][Observe /\ Expr =>
         LET m == arrived'[Len(arrived')] IN
         (\A i \in 1..Len(arrived) : arrived[i].at > now - EvalEvery => arrived[i].hit = m.hit)
            => st'.firing = m.hit]_vars
=============================================================================
