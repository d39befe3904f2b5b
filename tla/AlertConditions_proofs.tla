---------------------- MODULE AlertConditions_proofs ----------------------
(* For every rule, every value and any number of messages: the alert of a   *)
(* subject and its conditions tell the same story. Every handler is a       *)
(* composition of parts that take a state with its alert and leave one      *)
(* (Good); a lemma per part says what it keeps, and which of the fields the *)
(* histories are about (Counters, Motion, Judged, Windows) it changes. The  *)
(* windows then stand on what arrived (TrafficInv): the ring of buckets has *)
(* counted the messages, the ring of pauses has the newest ones.            *)
EXTENDS AlertConditions, FiniteSums, TLAPS

Time == {0} \cup Epoch..MaxTime

Buckets == [start : Int, count : Nat, n : Nat, sum : Nat, low : Int, high : Int]

Slots == 0..(NumBuckets - 1)

St == [lastSeen : Time, lastEval : Time, firstSeen : Time, seen : Nat,
       preview : Preview, levelPreview : Preview, ratePreview : Preview, stuckPreview : Preview,
       firing : BOOLEAN, level : BOOLEAN, rate : BOOLEAN, stuck : BOOLEAN, stale : BOOLEAN,
       gaps : [0..(StaleWindow - 1) -> Nat], gapsN : Nat,
       win : [Slots -> Buckets], lastValue : Values \cup {NoValue}, lastChange : Time]

Alerts == [state : States, preview : Preview, acked : BOOLEAN]

Pair == [st : St, alert : Alerts]

(* The alert that goes with a state. *)
Matches(s, a) ==
    /\ a # NoAlert <=> s.firing \/ s.level \/ s.rate \/ s.stuck \/ s.stale
    /\ a # NoAlert => Holds(s, a.state) /\ a.preview = PreviewOf(s, a.state)

(* A state and its alert as a handler takes and leaves them: an expression  *)
(* that holds has been seen to hold on some message.                        *)
Good(x) == /\ x \in Pair
           /\ Matches(x.st, x.alert)
           /\ x.st.firing => x.st.preview # Nothing

(* The parts of a state that a handler leaves alone or not. *)
Counters(s) == <<s.lastSeen, s.firstSeen, s.seen, s.gaps, s.gapsN>>
Motion(s) == <<s.lastValue, s.lastChange, s.stuck>>
Judged(s) == <<s.firing, s.lastEval>>
Windows(s) == <<s.win, s.rate, s.stale>>

(* The ring of pauses of r is that of s with the pause before a message at t. *)
Noted(s, t, r) ==
    IF s.lastSeen > 0 /\ t > s.lastSeen
    THEN /\ r.gaps = [s.gaps EXCEPT ![s.gapsN % StaleWindow] = t - s.lastSeen]
         /\ r.gapsN = s.gapsN + 1
    ELSE r.gaps = s.gaps /\ r.gapsN = s.gapsN

(* What checkStale asks before it calls a subject silent. *)
Overdue(s) ==
    /\ StaleAfter > 0 \/ StaleAuto
    /\ StaleAuto => TypicalGap(s) * StaleFactor # 0
    /\ s.lastSeen > 0
    /\ now - s.lastSeen > SilenceLimit(s)

(* r is s after a message m, and after a tick, as far as the windows go. *)
Follows(s, m, r) ==
    /\ Noted(s, m.at, r)
    /\ r.lastSeen = m.at /\ r.firstSeen = IF s.firstSeen = 0 THEN m.at ELSE s.firstSeen
    /\ ~r.stale /\ r.rate = s.rate
    /\ IF HasWindow THEN \E v : r.win = Add(s.win, m.at, v) ELSE r.win = s.win

Reports(s, r) ==
    /\ Counters(r) = Counters(s) /\ r.win = s.win
    /\ r.stale <=> s.stale \/ Overdue(s)
    /\ r.rate = IF MinCount = Off /\ MaxCount = Off THEN s.rate ELSE RateHit(s, Totals(s.win, now).count)

LEMMA ClearedMatches ==
  ASSUME NEW x \in Pair, x.alert # NoAlert
  PROVE  /\ Cleared(x) \in Pair
         /\ Cleared(x).st = x.st
         /\ Matches(Cleared(x).st, Cleared(x).alert)
  <1>1. x.st \in St /\ x.alert \in Alerts
    BY DEF Pair
  <1>2. PICK left : left = CurrentOf(x.st)
    OBVIOUS
  <1>3. /\ left.state \in States /\ left.preview \in Preview
        /\ left.state = "none" => ~(x.st.firing \/ x.st.level \/ x.st.rate \/ x.st.stuck \/ x.st.stale)
        /\ left.state # "none" => Holds(x.st, left.state) /\ left.preview = PreviewOf(x.st, left.state)
    BY <1>1, <1>2 DEF CurrentOf, Holds, PreviewOf, States, Nothing, Preview, St
  <1>4. CASE left.state = "none"
    <2>1. Cleared(x) = [x EXCEPT !.alert = NoAlert]
      BY <1>2, <1>4 DEF Cleared
    <2>2. NoAlert \in Alerts
      BY DEF NoAlert, Alerts, States, Preview, Nothing
    <2>3. Cleared(x) \in Pair /\ Cleared(x).st = x.st /\ Cleared(x).alert = NoAlert
      BY <2>1, <2>2 DEF Pair
    <2> QED
      BY <2>3, <1>3, <1>4 DEF Matches
  <1>5. CASE left.state # "none"
    <2>1. Cleared(x) = [x EXCEPT !.alert.state = left.state, !.alert.preview = left.preview]
      BY <1>2, <1>5 DEF Cleared
    <2>2. /\ Cleared(x) \in Pair /\ Cleared(x).st = x.st
          /\ Cleared(x).alert.state = left.state /\ Cleared(x).alert.preview = left.preview
      BY <2>1, <1>1, <1>3 DEF Pair, Alerts
    <2>3. Cleared(x).alert # NoAlert
      BY <2>2, <1>5 DEF NoAlert
    <2>4. x.st.firing \/ x.st.level \/ x.st.rate \/ x.st.stuck \/ x.st.stale
      BY <1>3, <1>5 DEF Holds
    <2> QED
      BY <2>2, <2>3, <2>4, <1>3, <1>5 DEF Matches
  <1> QED
    BY <1>4, <1>5

LEMMA ClearedGood ==
  ASSUME NEW x \in Pair, x.alert # NoAlert, x.st.firing => x.st.preview # Nothing
  PROVE  Good(Cleared(x)) /\ Cleared(x).st = x.st
  BY ClearedMatches DEF Good

LEMMA BeginGood ==
  ASSUME NEW x \in Pair, x.st.firing => x.st.preview # Nothing,
         NEW state \in States, NEW pv \in Preview,
         Holds(x.st, state), pv = PreviewOf(x.st, state)
  PROVE  Good(Begin(x, state, pv)) /\ Begin(x, state, pv).st = x.st
  <1>1. x.st \in St /\ x.alert \in Alerts
    BY DEF Pair
  <1>2. PICK a : a = [state |-> state, preview |-> pv, acked |-> FALSE]
    OBVIOUS
  <1>3. a \in Alerts /\ a.state = state /\ a.preview = pv
    BY <1>2 DEF Alerts
  <1>4. /\ Begin(x, state, pv) \in Pair /\ Begin(x, state, pv).st = x.st
        /\ Begin(x, state, pv).alert = a
    BY <1>2, <1>3 DEF Begin, Pair
  <1>5. state # "none"
    BY DEF Holds
  <1>6. a # NoAlert
    BY <1>3, <1>5 DEF NoAlert
  <1>7. x.st.firing \/ x.st.level \/ x.st.rate \/ x.st.stuck \/ x.st.stale
    BY DEF Holds
  <1> QED
    BY <1>3, <1>4, <1>6, <1>7 DEF Good, Matches

LEMMA SeenNowGood ==
  ASSUME NEW x, Good(x), NEW m, now \in Epoch..MaxTime,
         x.st.gapsN <= Larger(0, x.st.seen - 1), x.st.lastSeen # 0 => x.st.seen > 0
  PROVE  /\ Good(SeenNow(x, m))
         /\ SeenNow(x, m).st.seen = x.st.seen + 1
         /\ SeenNow(x, m).st.gapsN <= Larger(0, SeenNow(x, m).st.seen - 1)
         /\ Noted(x.st, now, SeenNow(x, m).st)
         /\ SeenNow(x, m).st.lastSeen = now
         /\ SeenNow(x, m).st.firstSeen = IF x.st.firstSeen = 0 THEN now ELSE x.st.firstSeen
         /\ Windows(SeenNow(x, m).st) = Windows(x.st)
         /\ Motion(SeenNow(x, m).st) = Motion(x.st)
         /\ Judged(SeenNow(x, m).st) = Judged(x.st)
  <1>1. x \in Pair /\ x.st \in St /\ x.alert \in Alerts
    BY DEF Good, Pair
  <1>2. PICK s : s = NoteGap(x.st, now)
    OBVIOUS
  <1>3. Epoch \in Nat /\ MaxTime \in Nat /\ StaleWindow \in Nat \ {0} /\ Epoch > 0
    BY ConditionAssumption, WindowAssumption
  <1>4. /\ s \in St
        /\ s.gapsN <= Larger(0, x.st.seen) /\ Noted(x.st, now, s)
        /\ s.win = x.st.win /\ s.firstSeen = x.st.firstSeen
        /\ s.seen = x.st.seen /\ s.preview = x.st.preview /\ s.levelPreview = x.st.levelPreview
        /\ s.ratePreview = x.st.ratePreview /\ s.stuckPreview = x.st.stuckPreview
        /\ s.firing = x.st.firing /\ s.level = x.st.level /\ s.rate = x.st.rate
        /\ s.stuck = x.st.stuck /\ s.stale = x.st.stale
        /\ s.lastValue = x.st.lastValue /\ s.lastChange = x.st.lastChange /\ s.lastEval = x.st.lastEval
    <2>1. CASE x.st.lastSeen > 0 /\ now > x.st.lastSeen
      <3>1. now - x.st.lastSeen \in Nat
        BY <1>1, <1>3, <2>1 DEF St, Time
      <3>2. PICK g : g = [x.st.gaps EXCEPT ![x.st.gapsN % StaleWindow] = now - x.st.lastSeen]
        OBVIOUS
      <3>3. g \in [0..(StaleWindow - 1) -> Nat]
        BY <1>1, <3>1, <3>2 DEF St
      <3>4. s = [[x.st EXCEPT !.gaps = g] EXCEPT !.gapsN = x.st.gapsN + 1]
        BY <1>1, <1>2, <2>1, <3>2 DEF NoteGap, St
      <3>5. s.gapsN = x.st.gapsN + 1
        BY <1>1, <3>4 DEF St
      <3>6. x.st.gapsN \in Nat /\ x.st.seen \in Nat /\ x.st.seen > 0
        BY <1>1, <1>3, <2>1 DEF St, Time
      <3>7. s.gapsN <= Larger(0, x.st.seen)
        BY <3>5, <3>6 DEF Larger
      <3>8. [x.st EXCEPT !.gaps = g] \in St
        BY <1>1, <3>3 DEF St
      <3>9. x.st.gapsN + 1 \in Nat
        BY <3>6
      <3>10. s \in St
        BY <3>4, <3>8, <3>9 DEF St
      <3>11. \A f \in DOMAIN x.st : f # "gaps" /\ f # "gapsN" => s[f] = x.st[f]
        BY <1>1, <3>4 DEF St
      <3>12. s.gaps = g
        BY <1>1, <3>4 DEF St
      <3>13. Noted(x.st, now, s)
        BY <2>1, <3>2, <3>5, <3>12 DEF Noted
      <3> QED
        BY <1>1, <3>7, <3>10, <3>11, <3>13 DEF St
    <2>2. CASE ~(x.st.lastSeen > 0 /\ now > x.st.lastSeen)
      <3>1. s = x.st
        BY <1>2, <2>2 DEF NoteGap
      <3> QED
        BY <1>1, <2>2, <3>1 DEF St, Larger, Noted
    <2> QED
      BY <2>1, <2>2
  <1>5. PICK r : r = [s EXCEPT !.lastSeen = now, !.seen = @ + 1,
                               !.firstSeen = IF @ = 0 THEN now ELSE @]
    OBVIOUS
  <1>6. PICK f \in Time : f = IF s.firstSeen = 0 THEN now ELSE s.firstSeen
    BY <1>4 DEF Time, St
  <1>11. now \in Time /\ r = [[[s EXCEPT !.lastSeen = now] EXCEPT !.seen = s.seen + 1] EXCEPT !.firstSeen = f]
    BY <1>4, <1>5, <1>6 DEF Time, St
  <1>7. /\ r \in St /\ r.gapsN = s.gapsN /\ r.seen = s.seen + 1
        /\ r.gaps = s.gaps /\ r.win = x.st.win /\ r.lastSeen = now
        /\ r.firstSeen = IF x.st.firstSeen = 0 THEN now ELSE x.st.firstSeen
        /\ r.preview = x.st.preview /\ r.levelPreview = x.st.levelPreview
        /\ r.ratePreview = x.st.ratePreview /\ r.stuckPreview = x.st.stuckPreview
        /\ r.firing = x.st.firing /\ r.level = x.st.level /\ r.rate = x.st.rate
        /\ r.stuck = x.st.stuck /\ r.stale = x.st.stale
        /\ r.lastValue = x.st.lastValue /\ r.lastChange = x.st.lastChange /\ r.lastEval = x.st.lastEval
    <2>1. PICK s1 : s1 = [s EXCEPT !.lastSeen = now]
      OBVIOUS
    <2>2. PICK s2 : s2 = [s1 EXCEPT !.seen = s.seen + 1]
      OBVIOUS
    <2>3. r \in St
      <3>1. s1 \in St
        BY <1>4, <1>11, <2>1 DEF St
      <3>2. s.seen + 1 \in Nat
        BY <1>4 DEF St
      <3>3. s2 \in St
        BY <2>2, <3>1, <3>2 DEF St
      <3>4. r = [s2 EXCEPT !.firstSeen = f]
        BY <1>11, <2>1, <2>2
      <3> QED
        BY <1>6, <3>3, <3>4 DEF St
    <2>4. \A g \in DOMAIN s : g \notin {"lastSeen", "seen", "firstSeen"} => r[g] = s[g]
      BY <1>4, <1>5 DEF St
    <2>5. r.seen = s.seen + 1 /\ r.lastSeen = now /\ r.firstSeen = IF s.firstSeen = 0 THEN now ELSE s.firstSeen
      BY <1>4, <1>5 DEF St
    <2> QED
      BY <1>4, <2>3, <2>4, <2>5 DEF St
  <1>8. SeenNow(x, m) \in Pair /\ SeenNow(x, m).st = r /\ SeenNow(x, m).alert = x.alert
    BY <1>1, <1>2, <1>5, <1>7 DEF SeenNow, Pair
  <1>9. Matches(r, x.alert)
    BY <1>7 DEF Good, Matches, Holds, PreviewOf
  <1>10. r.gapsN <= Larger(0, r.seen - 1)
    BY <1>1, <1>4, <1>7 DEF St
  <1>12. Noted(x.st, now, r)
    BY <1>4, <1>7 DEF Noted
  <1> QED
    BY <1>4, <1>7, <1>8, <1>9, <1>10, <1>12 DEF Good, Motion, Judged, Windows

LEMMA EndSilenceGood ==
  ASSUME NEW x, Good(x)
  PROVE  /\ Good(EndSilence(x)) /\ ~EndSilence(x).st.stale
         /\ Counters(EndSilence(x).st) = Counters(x.st)
         /\ EndSilence(x).st.win = x.st.win /\ EndSilence(x).st.rate = x.st.rate
         /\ Motion(EndSilence(x).st) = Motion(x.st)
         /\ Judged(EndSilence(x).st) = Judged(x.st)
  <1>1. x \in Pair /\ x.st \in St /\ x.alert \in Alerts
    BY DEF Good, Pair
  <1>2. CASE x.st.stale
    <2>1. PICK y : y = [x EXCEPT !.st.stale = FALSE]
      OBVIOUS
    <2>2. /\ y \in Pair /\ y.alert = x.alert /\ y.st.stale = FALSE
          /\ y.st.firing = x.st.firing /\ y.st.preview = x.st.preview
          /\ y.st.win = x.st.win /\ y.st.rate = x.st.rate
          /\ Counters(y.st) = Counters(x.st)
          /\ Motion(y.st) = Motion(x.st)
          /\ Judged(y.st) = Judged(x.st)
      BY <1>1, <2>1 DEF Pair, St, Counters, Motion, Judged
    <2>3. y.alert # NoAlert
      BY <1>2, <2>2 DEF Good, Matches
    <2>4. Good(Cleared(y)) /\ Cleared(y).st = y.st
      BY <2>2, <2>3, ClearedGood DEF Good
    <2>5. EndSilence(x) = Cleared(y)
      BY <1>2, <2>1 DEF EndSilence
    <2> QED
      BY <2>2, <2>4, <2>5
  <1>3. CASE ~x.st.stale
    BY <1>3 DEF EndSilence
  <1> QED
    BY <1>2, <1>3
(* What CheckWindow adds up. *)
LEMMA TotalsType ==
  ASSUME NEW w \in [Slots -> Buckets], NEW t
  PROVE  Totals(w, t).count \in Nat /\ Totals(w, t).n \in Nat /\ Totals(w, t).sum \in Nat
  <1> DEFINE S == InWindow(w, t)
             V == {i \in S : w[i].n > 0}
  <1>1. S \subseteq Slots /\ V \subseteq Slots
    BY DEF InWindow
  <1>2. IsFiniteSet(S) /\ IsFiniteSet(V)
    <2>1. 0 \in Int /\ NumBuckets - 1 \in Int
      BY WindowAssumption
    <2>2. IsFiniteSet(Slots)
      BY <2>1, FS_Interval DEF Slots
    <2> HIDE DEF S, V
    <2> QED
      BY <1>1, <2>2, FS_Subset
  <1>3. \A i \in Slots : w[i]["count"] \in Nat /\ w[i]["n"] \in Nat /\ w[i]["sum"] \in Nat
    BY DEF Buckets
  <1>4. FieldSum(w, "count", S) \in Nat /\ FieldSum(w, "n", V) \in Nat /\ FieldSum(w, "sum", V) \in Nat
    BY <1>1, <1>2, <1>3, FieldSumType
  <1>5. /\ Totals(w, t).count = FieldSum(w, "count", S)
        /\ Totals(w, t).n = FieldSum(w, "n", V)
        /\ Totals(w, t).sum = FieldSum(w, "sum", V)
    BY DEF Totals, FieldSum, MapThenSumSet, MapThenFoldSet
  <1> QED
    BY <1>4, <1>5

LEMMA AddType ==
  ASSUME NEW w \in [Slots -> Buckets], NEW t \in Int, NEW v \in Nat \cup {NoValue}
  PROVE  Add(w, t, v) \in [Slots -> Buckets]
  <1>1. SlotOf(t) \in Int /\ SlotOf(t) % NumBuckets \in Slots
    BY WindowAssumption DEF SlotOf, Size, Slots
  <1>2. Bucket(SlotOf(t)) \in Buckets
    BY <1>1 DEF Bucket, Buckets
  <1>3. PICK b : b = Current(w, t)
    OBVIOUS
  <1>4. b \in Buckets
    BY <1>1, <1>2, <1>3 DEF Current
  <1>5. PICK c : c = [b EXCEPT !.count = @ + 1]
    OBVIOUS
  <1>6. c \in Buckets /\ c.low = b.low /\ c.high = b.high /\ c.sum = b.sum /\ c.n = b.n
    BY <1>4, <1>5 DEF Buckets
  <1>7. Counted(b, v) \in Buckets
    <2>1. CASE v = NoValue
      BY <2>1, <1>5, <1>6 DEF Counted
    <2>2. CASE v # NoValue
      <3>1. PICK l \in Int, h \in Int : /\ l = IF b.n = 0 \/ v < b.low THEN v ELSE b.low
                                        /\ h = IF b.n = 0 \/ v > b.high THEN v ELSE b.high
        BY <1>4, <2>2 DEF Buckets
      <3>2. Counted(b, v) = [c EXCEPT !.low = l, !.high = h, !.sum = @ + v, !.n = @ + 1]
        BY <1>5, <1>6, <2>2, <3>1 DEF Counted, Buckets
      <3>3. PICK y \in Nat, k \in Nat : y = c.sum + v /\ k = c.n + 1
        BY <1>6, <2>2 DEF Buckets
      <3>4. Counted(b, v) = [start |-> c.start, count |-> c.count, n |-> k, sum |-> y, low |-> l, high |-> h]
        BY <1>6, <3>2, <3>3 DEF Buckets
      <3> QED
        BY <1>6, <3>1, <3>3, <3>4 DEF Buckets
    <2> QED
      BY <2>1, <2>2
  <1> QED
    BY <1>1, <1>3, <1>7 DEF Add

LEMMA CountInWindowGood ==
  ASSUME NEW x, Good(x), NEW m, m.value \in Values \cup {NoValue}, now \in Epoch..MaxTime
  PROVE  /\ Good(CountInWindow(x, m))
         /\ CountInWindow(x, m).st.stale = x.st.stale
         /\ CountInWindow(x, m).st.rate = x.st.rate
         /\ CountInWindow(x, m).st.win =
              IF HasWindow THEN Add(x.st.win, now, IF Above = Off THEN NoValue ELSE m.value) ELSE x.st.win
         /\ Counters(CountInWindow(x, m).st) = Counters(x.st)
         /\ Motion(CountInWindow(x, m).st) = Motion(x.st)
         /\ Judged(CountInWindow(x, m).st) = Judged(x.st)
  <1>1. x \in Pair /\ x.st \in St /\ x.alert \in Alerts
    BY DEF Good, Pair
  <1>2. CASE HasWindow
    <2>1. PICK v : v = IF Above = Off THEN NoValue ELSE m.value
      OBVIOUS
    <2>2. v \in Nat \cup {NoValue} /\ now \in Int
      <3>1. Values \subseteq Nat
        BY ConditionAssumption
      <3>2. Epoch \in Nat /\ MaxTime \in Nat
        BY ConditionAssumption
      <3>3. now \in Int
        BY <3>2
      <3>4. v \in Nat \cup {NoValue}
        BY <2>1, <3>1
      <3> QED
        BY <3>3, <3>4
    <2>3. PICK w : w = Add(x.st.win, now, v)
      OBVIOUS
    <2>4. w \in [Slots -> Buckets]
      BY <1>1, <2>2, <2>3, AddType DEF St
    <2>5. CountInWindow(x, m) = [x EXCEPT !.st.win = w]
      BY <1>1, <1>2, <2>1, <2>3 DEF CountInWindow, Pair, St
    <2>6. PICK y : y = CountInWindow(x, m)
      OBVIOUS
    <2>7. y \in Pair /\ y.alert = x.alert
      BY <1>1, <2>4, <2>5, <2>6 DEF Pair, St
    <2>8. \A f \in DOMAIN x.st : f # "win" => y.st[f] = x.st[f]
      BY <1>1, <2>5, <2>6 DEF Pair, St
    <2>9. /\ y.st.preview = x.st.preview /\ y.st.levelPreview = x.st.levelPreview
          /\ y.st.ratePreview = x.st.ratePreview /\ y.st.stuckPreview = x.st.stuckPreview
          /\ y.st.firing = x.st.firing /\ y.st.level = x.st.level /\ y.st.rate = x.st.rate
          /\ y.st.stuck = x.st.stuck /\ y.st.stale = x.st.stale
          /\ Counters(y.st) = Counters(x.st) /\ Motion(y.st) = Motion(x.st)
          /\ Judged(y.st) = Judged(x.st)
      BY <1>1, <2>8 DEF St, Counters, Motion, Judged
    <2>11. y.st.win = w
      BY <1>1, <2>4, <2>5, <2>6 DEF Pair, St
    <2>10. Good(y)
      BY <2>7, <2>9 DEF Good, Matches, Holds, PreviewOf
    <2> QED
      BY <1>2, <2>1, <2>3, <2>6, <2>9, <2>10, <2>11
  <1>3. CASE ~HasWindow
    BY <1>3 DEF CountInWindow
  <1> QED
    BY <1>2, <1>3

LEMMA NoteValueGood ==
  ASSUME NEW x, Good(x), NEW m, m.value \in Values \cup {NoValue}, now \in Epoch..MaxTime
  PROVE  /\ Good(NoteValue(x, m))
         /\ ~x.st.stale => ~NoteValue(x, m).st.stale
         /\ Counters(NoteValue(x, m).st) = Counters(x.st)
         /\ Motion(NoteValue(x, m).st) =
              IF UnchangedFor > 0 /\ (x.st.lastChange = 0 \/ m.value # x.st.lastValue)
              THEN <<m.value, now, FALSE>> ELSE Motion(x.st)
         /\ Windows(NoteValue(x, m).st) = Windows(x.st)
         /\ Judged(NoteValue(x, m).st) = Judged(x.st)
  <1>1. x \in Pair /\ x.st \in St /\ x.alert \in Alerts /\ now \in Time
    BY DEF Good, Pair, Time
  <1>2. CASE UnchangedFor > 0 /\ (x.st.lastChange = 0 \/ m.value # x.st.lastValue)
    <2>1. PICK y : y = [x EXCEPT !.st.lastValue = m.value, !.st.lastChange = now]
      OBVIOUS
    <2>2. y \in Pair /\ y.alert = x.alert
      BY <1>1, <2>1 DEF Pair, St
    <2>3. \A f \in DOMAIN x.st : f \notin {"lastValue", "lastChange"} => y.st[f] = x.st[f]
      BY <1>1, <2>1 DEF Pair, St
    <2>4. y.st.lastValue = m.value /\ y.st.lastChange = now
      BY <1>1, <2>1 DEF Pair, St
    <2>5. /\ y.st.preview = x.st.preview /\ y.st.levelPreview = x.st.levelPreview
          /\ y.st.ratePreview = x.st.ratePreview /\ y.st.stuckPreview = x.st.stuckPreview
          /\ y.st.firing = x.st.firing /\ y.st.level = x.st.level /\ y.st.rate = x.st.rate
          /\ y.st.stuck = x.st.stuck /\ y.st.stale = x.st.stale
          /\ Counters(y.st) = Counters(x.st)
          /\ Judged(y.st) = Judged(x.st)
          /\ Windows(y.st) = Windows(x.st)
      BY <1>1, <2>3 DEF St, Counters, Judged, Windows
    <2>6. Good(y)
      BY <2>2, <2>5 DEF Good, Matches, Holds, PreviewOf
    <2>7. NoteValue(x, m) = IF y.st.stuck THEN Cleared([y EXCEPT !.st.stuck = FALSE]) ELSE y
      BY <1>2, <2>1 DEF NoteValue
    <2>8. CASE y.st.stuck
      <3>1. PICK z : z = [y EXCEPT !.st.stuck = FALSE]
        OBVIOUS
      <3>2. y.st \in St /\ y.alert \in Alerts
        BY <2>2 DEF Pair
      <3>3. z \in Pair /\ z.alert = y.alert /\ z.st = [y.st EXCEPT !.stuck = FALSE]
        <4>1. PICK u : u = [y.st EXCEPT !.stuck = FALSE]
          OBVIOUS
        <4>2. u \in St
          BY <3>2, <4>1 DEF St
        <4>3. z = [y EXCEPT !.st = u]
          BY <2>2, <3>1, <4>1 DEF Pair
        <4> QED
          BY <2>2, <4>1, <4>2, <4>3 DEF Pair
      <3>4. \A f \in DOMAIN y.st : f # "stuck" => z.st[f] = y.st[f]
        BY <3>2, <3>3
      <3>5. /\ z.st.firing = y.st.firing /\ z.st.preview = y.st.preview /\ z.st.stale = y.st.stale
            /\ z.st.lastValue = y.st.lastValue /\ z.st.lastChange = y.st.lastChange
            /\ Counters(z.st) = Counters(y.st) /\ Judged(z.st) = Judged(y.st)
            /\ Windows(z.st) = Windows(y.st)
        BY <3>2, <3>4 DEF St, Counters, Judged, Windows
      <3>6. z.st.stuck = FALSE
        BY <2>2, <3>1, <3>2 DEF Pair, St
      <3>7. z.alert # NoAlert
        BY <2>6, <2>8, <3>3 DEF Good, Matches
      <3>8. Good(Cleared(z)) /\ Cleared(z).st = z.st
        BY <2>6, <3>3, <3>5, <3>7, ClearedGood DEF Good
      <3>9. NoteValue(x, m) = Cleared(z)
        BY <2>7, <2>8, <3>1
      <3>10. Motion(z.st) = <<m.value, now, FALSE>>
        BY <2>4, <3>5, <3>6 DEF Motion
      <3> QED
        BY <1>2, <2>5, <3>5, <3>8, <3>9, <3>10
    <2>9. CASE ~y.st.stuck
      <3>1. y.st.stuck = FALSE
        BY <2>2, <2>9 DEF Pair, St
      <3>2. Motion(y.st) = <<m.value, now, FALSE>>
        BY <2>4, <3>1 DEF Motion
      <3> QED
        BY <1>2, <2>5, <2>6, <2>7, <2>9, <3>2
    <2> QED
      BY <2>8, <2>9
  <1>3. CASE ~(UnchangedFor > 0 /\ (x.st.lastChange = 0 \/ m.value # x.st.lastValue))
    <2>1. NoteValue(x, m) = x
      BY <1>3 DEF NoteValue
    <2> QED
      BY <1>3, <2>1
  <1> QED
    BY <1>2, <1>3

LEMMA EvaluateGood ==
  ASSUME NEW x, Good(x), ~x.st.stale, NEW m, m.id \in Nat, m.value \in Values \cup {NoValue},
         m.hit \in BOOLEAN, now \in Epoch..MaxTime
  PROVE  /\ Good(Evaluate(x, m))
         /\ Counters(Evaluate(x, m).st) = Counters(x.st)
         /\ Motion(Evaluate(x, m).st) = Motion(x.st)
         /\ Windows(Evaluate(x, m).st) = Windows(x.st)
         /\ Judged(Evaluate(x, m).st) =
              IF Expr /\ now - x.st.lastEval >= EvalEvery THEN <<m.hit, now>> ELSE Judged(x.st)
  <1>1. x \in Pair /\ x.st \in St /\ x.alert \in Alerts /\ now \in Time
    BY DEF Good, Pair, Time
  <1>2. Shown(m) \in Preview /\ Shown(m) # Nothing
    <2>1. Values \subseteq Nat
      BY ConditionAssumption
    <2> QED
      BY <2>1 DEF Shown, Preview, Nothing
  <1>3. CASE Expr /\ now - x.st.lastEval >= EvalEvery
    <2>1. PICK y : y = [x EXCEPT !.st.lastEval = now]
      OBVIOUS
    <2>2. y \in Pair /\ y.alert = x.alert /\ y.st.lastEval = now
      BY <1>1, <2>1 DEF Pair, St
    <2>3. \A f \in DOMAIN x.st : f # "lastEval" => y.st[f] = x.st[f]
      BY <1>1, <2>1 DEF Pair, St
    <2>4. /\ y.st.preview = x.st.preview /\ y.st.levelPreview = x.st.levelPreview
          /\ y.st.ratePreview = x.st.ratePreview /\ y.st.stuckPreview = x.st.stuckPreview
          /\ y.st.firing = x.st.firing /\ y.st.level = x.st.level /\ y.st.rate = x.st.rate
          /\ y.st.stuck = x.st.stuck /\ y.st.stale = x.st.stale
          /\ Counters(y.st) = Counters(x.st)
          /\ Motion(y.st) = Motion(x.st) /\ Windows(y.st) = Windows(x.st)
      BY <1>1, <2>3 DEF St, Counters, Motion, Windows
    <2>5. Good(y)
      BY <2>2, <2>4 DEF Good, Matches, Holds, PreviewOf
    <2>6. y.st \in St /\ y.alert \in Alerts /\ y.st.firing \in BOOLEAN
      BY <2>2 DEF Pair, St
    <2>7. Evaluate(x, m) =
            IF m.hit /\ ~y.st.firing
            THEN Begin([y EXCEPT !.st.firing = TRUE, !.st.preview = Shown(m)], "firing", Shown(m))
            ELSE IF ~m.hit /\ y.st.firing THEN Cleared([y EXCEPT !.st.firing = FALSE])
            ELSE y
      BY <1>3, <2>1 DEF Evaluate
    <2>8. CASE m.hit /\ ~y.st.firing
      <3>1. PICK z : z = [y EXCEPT !.st.firing = TRUE, !.st.preview = Shown(m)]
        OBVIOUS
      <3>2. z \in Pair
        BY <1>2, <2>2, <2>6, <3>1 DEF Pair, St
      <3>3. \A f \in DOMAIN y.st : f \notin {"firing", "preview"} => z.st[f] = y.st[f]
        BY <2>2, <2>6, <3>1 DEF Pair, St
      <3>4. z.st.firing = TRUE /\ z.st.preview = Shown(m)
        BY <2>2, <2>6, <3>1 DEF Pair, St
      <3>5. z.st.lastEval = now /\ Counters(z.st) = Counters(y.st) /\ Motion(z.st) = Motion(y.st)
            /\ Windows(z.st) = Windows(y.st)
        BY <2>2, <2>6, <3>3 DEF St, Counters, Motion, Windows
      <3>6. Holds(z.st, "firing") /\ Shown(m) = PreviewOf(z.st, "firing") /\ "firing" \in States
        BY <3>4 DEF Holds, PreviewOf, States
      <3>7. Good(Begin(z, "firing", Shown(m))) /\ Begin(z, "firing", Shown(m)).st = z.st
        BY <1>2, <3>2, <3>4, <3>6, BeginGood
      <3>8. Judged(z.st) = <<m.hit, now>>
        BY <2>8, <3>4, <3>5 DEF Judged
      <3>9. Evaluate(x, m) = Begin(z, "firing", Shown(m))
        BY <2>7, <2>8, <3>1
      <3> QED
        BY <1>3, <2>4, <3>5, <3>7, <3>8, <3>9
    <2>9. CASE ~m.hit /\ y.st.firing
      <3>1. PICK z : z = [y EXCEPT !.st.firing = FALSE]
        OBVIOUS
      <3>2. z \in Pair /\ z.alert = y.alert /\ z.st = [y.st EXCEPT !.firing = FALSE]
        <4>1. PICK u : u = [y.st EXCEPT !.firing = FALSE]
          OBVIOUS
        <4>2. u \in St
          BY <2>6, <4>1 DEF St
        <4>3. z = [y EXCEPT !.st = u]
          BY <2>2, <3>1, <4>1 DEF Pair
        <4> QED
          BY <2>2, <4>1, <4>2, <4>3 DEF Pair
      <3>3. \A f \in DOMAIN y.st : f # "firing" => z.st[f] = y.st[f]
        BY <2>6, <3>2
      <3>4. z.st.firing = FALSE
        BY <2>2, <2>6, <3>1 DEF Pair, St
      <3>5. z.st.lastEval = now /\ Counters(z.st) = Counters(y.st) /\ Motion(z.st) = Motion(y.st)
            /\ Windows(z.st) = Windows(y.st)
        BY <2>2, <2>6, <3>3 DEF St, Counters, Motion, Windows
      <3>6. z.alert # NoAlert
        BY <2>5, <2>9, <3>2 DEF Good, Matches
      <3>7. Good(Cleared(z)) /\ Cleared(z).st = z.st
        BY <3>2, <3>4, <3>6, ClearedGood
      <3>8. Judged(z.st) = <<m.hit, now>>
        BY <2>9, <3>4, <3>5 DEF Judged
      <3>9. Evaluate(x, m) = Cleared(z)
        BY <2>7, <2>9, <3>1
      <3> QED
        BY <1>3, <2>4, <3>5, <3>7, <3>8, <3>9
    <2>10. CASE m.hit = y.st.firing
      <3>1. Evaluate(x, m) = y
        BY <2>6, <2>7, <2>10
      <3>2. Judged(y.st) = <<m.hit, now>>
        BY <2>2, <2>10 DEF Judged
      <3> QED
        BY <1>3, <2>4, <2>5, <3>1, <3>2
    <2> QED
      BY <2>6, <2>8, <2>9, <2>10
  <1>4. CASE ~(Expr /\ now - x.st.lastEval >= EvalEvery)
    <2>1. CASE x.st.preview = Nothing
      <3>1. PICK z : z = [x EXCEPT !.st.preview = Shown(m)]
        OBVIOUS
      <3>2. z \in Pair /\ z.alert = x.alert
        BY <1>1, <1>2, <3>1 DEF Pair, St
      <3>3. \A f \in DOMAIN x.st : f # "preview" => z.st[f] = x.st[f]
        BY <1>1, <3>1 DEF Pair, St
      <3>4. /\ z.st.levelPreview = x.st.levelPreview
            /\ z.st.ratePreview = x.st.ratePreview /\ z.st.stuckPreview = x.st.stuckPreview
            /\ z.st.firing = x.st.firing /\ z.st.level = x.st.level /\ z.st.rate = x.st.rate
            /\ z.st.stuck = x.st.stuck /\ z.st.stale = x.st.stale
            /\ Counters(z.st) = Counters(x.st) /\ Motion(z.st) = Motion(x.st)
            /\ Judged(z.st) = Judged(x.st) /\ Windows(z.st) = Windows(x.st)
        BY <1>1, <3>3 DEF St, Counters, Motion, Judged, Windows
      <3>5. ~x.st.firing /\ ~x.st.stale
        BY <2>1 DEF Good
      <3>6. Good(z)
        BY <3>2, <3>4, <3>5 DEF Good, Matches, Holds, PreviewOf
      <3>7. Evaluate(x, m) = z
        BY <1>4, <2>1, <3>1 DEF Evaluate
      <3> QED
        BY <1>4, <3>4, <3>6, <3>7
    <2>2. CASE x.st.preview # Nothing
      <3>1. Evaluate(x, m) = x
        BY <1>4, <2>2 DEF Evaluate
      <3> QED
        BY <1>4, <3>1
    <2> QED
      BY <2>1, <2>2
  <1> QED
    BY <1>3, <1>4
(* CheckRate: its flag, its preview and the alert change together. *)
Rated(x, hit, pv) == [x EXCEPT !.st = [x.st EXCEPT !.rate = hit, !.ratePreview = IF hit THEN pv ELSE @]]

LEMMA JudgeCheckRate ==
  ASSUME NEW x, Good(x), NEW hit \in BOOLEAN, NEW pv \in Preview, NEW y, y = Rated(x, hit, pv)
  PROVE  LET r == Judge(y, x.st.rate, hit, "rate", pv) IN
         /\ Good(r)
         /\ Counters(r.st) = Counters(x.st)
         /\ Motion(r.st) = Motion(x.st)
         /\ Judged(r.st) = Judged(x.st)
         /\ r.st.win = x.st.win /\ r.st.stale = x.st.stale /\ r.st.rate = hit
  <1>1. x \in Pair /\ x.st \in St /\ x.alert \in Alerts /\ x.st.rate \in BOOLEAN
    BY DEF Good, Pair, St
  <1>2. PICK s : s = [x.st EXCEPT !.rate = hit, !.ratePreview = IF hit THEN pv ELSE @]
    OBVIOUS
  <1>3. y = [x EXCEPT !.st = s]
    BY <1>2 DEF Rated
  <1>4. s \in St
    <2>1. PICK p \in Preview : p = IF hit THEN pv ELSE x.st.ratePreview
      BY <1>1 DEF St
    <2>2. s = [x.st EXCEPT !.rate = hit, !.ratePreview = p]
      BY <1>1, <1>2, <2>1 DEF St
    <2> QED
      BY <1>1, <2>1, <2>2 DEF St
  <1>5. y \in Pair /\ y.st = s /\ y.alert = x.alert
    BY <1>1, <1>4, <1>3 DEF Pair
  <1>6. \A f \in DOMAIN x.st : f \notin {"rate", "ratePreview"} => s[f] = x.st[f]
    BY <1>1, <1>2 DEF St
  <1>7. s.rate = hit /\ s.ratePreview = IF hit THEN pv ELSE x.st.ratePreview
    BY <1>1, <1>2 DEF St
  <1>8. /\ s.preview = x.st.preview /\ s.levelPreview = x.st.levelPreview /\ s.stuckPreview = x.st.stuckPreview
        /\ s.firing = x.st.firing /\ s.level = x.st.level /\ s.stuck = x.st.stuck /\ s.stale = x.st.stale
        /\ Counters(s) = Counters(x.st) /\ Motion(s) = Motion(x.st) /\ Judged(s) = Judged(x.st)
        /\ s.win = x.st.win
    BY <1>1, <1>6 DEF St, Counters, Motion, Judged
  <1>9. PICK r : r = Judge(y, x.st.rate, hit, "rate", pv)
    OBVIOUS
  <1>10. s.firing => s.preview # Nothing
    BY <1>8 DEF Good
  <1>11. Good(r) /\ r.st = s
    <2>1. CASE hit /\ ~x.st.rate
      <3>1. Holds(y.st, "rate") /\ pv = PreviewOf(y.st, "rate") /\ "rate" \in States
        BY <1>5, <1>7, <2>1 DEF Holds, PreviewOf, States
      <3>2. r = Begin(y, "rate", pv)
        BY <1>9, <2>1 DEF Judge
      <3> QED
        BY <1>5, <1>10, <3>1, <3>2, BeginGood
    <2>2. CASE hit /\ x.st.rate
      <3>1. r = Update(y, "rate", pv)
        BY <1>9, <2>2 DEF Judge
      <3>2. x.alert # NoAlert
        BY <2>2 DEF Good, Matches
      <3>3. CASE x.alert.state = "rate"
        <4>1. r = [y EXCEPT !.alert.preview = pv]
          BY <1>5, <3>1, <3>2, <3>3 DEF Update
        <4>2. r \in Pair /\ r.st = s /\ r.alert.state = "rate" /\ r.alert.preview = pv
          BY <1>1, <1>5, <3>3, <4>1 DEF Pair, Alerts
        <4>3. r.alert # NoAlert
          BY <4>2 DEF NoAlert
        <4> QED
          BY <1>7, <1>10, <2>2, <4>2, <4>3 DEF Good, Matches, Holds, PreviewOf
      <3>4. CASE x.alert.state # "rate"
        <4>1. r = y
          BY <1>5, <3>1, <3>4 DEF Update
        <4>2. Matches(s, x.alert)
          BY <1>7, <1>8, <2>2, <3>2, <3>4 DEF Good, Matches, Holds, PreviewOf
        <4> QED
          BY <1>5, <1>10, <4>1, <4>2 DEF Good
      <3> QED
        BY <3>3, <3>4
    <2>3. CASE ~hit /\ x.st.rate
      <3>1. y.alert # NoAlert
        BY <1>5, <2>3 DEF Good, Matches
      <3>2. r = Cleared(y)
        BY <1>9, <2>3 DEF Judge
      <3> QED
        BY <1>5, <1>10, <3>1, <3>2, ClearedGood
    <2>4. CASE ~hit /\ ~x.st.rate
      <3>1. r = y
        BY <1>9, <2>4 DEF Judge
      <3>2. s.rate = x.st.rate /\ s.ratePreview = x.st.ratePreview
        BY <1>1, <1>7, <2>4
      <3>3. Matches(s, x.alert)
        BY <1>8, <3>2 DEF Good, Matches, Holds, PreviewOf
      <3> QED
        BY <1>5, <1>10, <3>1, <3>3 DEF Good
    <2> QED
      BY <1>1, <2>1, <2>2, <2>3, <2>4
  <1> QED
    BY <1>7, <1>8, <1>9, <1>11

LEMMA CheckRateGood ==
  ASSUME NEW x, Good(x), NEW total, total.count \in Nat, total.n \in Nat, total.sum \in Nat
  PROVE  /\ Good(CheckRate(x, total))
         /\ Counters(CheckRate(x, total).st) = Counters(x.st)
         /\ Motion(CheckRate(x, total).st) = Motion(x.st)
         /\ Judged(CheckRate(x, total).st) = Judged(x.st)
         /\ CheckRate(x, total).st.win = x.st.win /\ CheckRate(x, total).st.stale = x.st.stale
         /\ CheckRate(x, total).st.rate =
              IF MinCount = Off /\ MaxCount = Off THEN x.st.rate ELSE RateHit(x.st, total.count)
  <1>1. CASE MinCount = Off /\ MaxCount = Off
    BY <1>1 DEF CheckRate
  <1>2. CASE ~(MinCount = Off /\ MaxCount = Off)
    <2>1. PICK hit \in BOOLEAN : hit = RateHit(x.st, total.count)
      BY DEF RateHit
    <2>2. PICK pv : pv = <<"count", total.count, 0>>
      OBVIOUS
    <2>3. pv \in Preview
      BY <2>2 DEF Preview
    <2>4. PICK y : y = Rated(x, hit, pv)
      OBVIOUS
    <2>5. CheckRate(x, total) = Judge(y, x.st.rate, hit, "rate", pv)
      BY <1>2, <2>1, <2>2, <2>4 DEF CheckRate, Rated
    <2>6. PICK r : r = Judge(y, x.st.rate, hit, "rate", pv)
      OBVIOUS
    <2>7. /\ Good(r)
          /\ Counters(r.st) = Counters(x.st)
          /\ Motion(r.st) = Motion(x.st)
          /\ Judged(r.st) = Judged(x.st)
          /\ r.st.win = x.st.win /\ r.st.stale = x.st.stale /\ r.st.rate = hit
      <3>1. /\ Good(Judge(y, x.st.rate, hit, "rate", pv))
            /\ Counters(Judge(y, x.st.rate, hit, "rate", pv).st) = Counters(x.st)
            /\ Motion(Judge(y, x.st.rate, hit, "rate", pv).st) = Motion(x.st)
            /\ Judged(Judge(y, x.st.rate, hit, "rate", pv).st) = Judged(x.st)
            /\ Judge(y, x.st.rate, hit, "rate", pv).st.win = x.st.win
            /\ Judge(y, x.st.rate, hit, "rate", pv).st.stale = x.st.stale
            /\ Judge(y, x.st.rate, hit, "rate", pv).st.rate = hit
        BY <2>3, <2>4, JudgeCheckRate
      <3> QED
        BY <2>6, <3>1
    <2> QED
      BY <1>2, <2>1, <2>5, <2>6, <2>7
  <1> QED
    BY <1>1, <1>2

(* CheckLevel: its flag, its preview and the alert change together. *)
Leveled(x, hit, pv) == [x EXCEPT !.st = [x.st EXCEPT !.level = hit, !.levelPreview = IF hit THEN pv ELSE @]]

LEMMA JudgeCheckLevel ==
  ASSUME NEW x, Good(x), NEW hit \in BOOLEAN, NEW pv \in Preview, NEW y, y = Leveled(x, hit, pv)
  PROVE  LET r == Judge(y, x.st.level, hit, "level", pv) IN
         /\ Good(r)
         /\ Counters(r.st) = Counters(x.st)
         /\ Motion(r.st) = Motion(x.st)
         /\ Judged(r.st) = Judged(x.st)
         /\ Windows(r.st) = Windows(x.st)
  <1>1. x \in Pair /\ x.st \in St /\ x.alert \in Alerts /\ x.st.level \in BOOLEAN
    BY DEF Good, Pair, St
  <1>2. PICK s : s = [x.st EXCEPT !.level = hit, !.levelPreview = IF hit THEN pv ELSE @]
    OBVIOUS
  <1>3. y = [x EXCEPT !.st = s]
    BY <1>2 DEF Leveled
  <1>4. s \in St
    <2>1. PICK p \in Preview : p = IF hit THEN pv ELSE x.st.levelPreview
      BY <1>1 DEF St
    <2>2. s = [x.st EXCEPT !.level = hit, !.levelPreview = p]
      BY <1>1, <1>2, <2>1 DEF St
    <2> QED
      BY <1>1, <2>1, <2>2 DEF St
  <1>5. y \in Pair /\ y.st = s /\ y.alert = x.alert
    BY <1>1, <1>4, <1>3 DEF Pair
  <1>6. \A f \in DOMAIN x.st : f \notin {"level", "levelPreview"} => s[f] = x.st[f]
    BY <1>1, <1>2 DEF St
  <1>7. s.level = hit /\ s.levelPreview = IF hit THEN pv ELSE x.st.levelPreview
    BY <1>1, <1>2 DEF St
  <1>8. /\ s.preview = x.st.preview /\ s.ratePreview = x.st.ratePreview /\ s.stuckPreview = x.st.stuckPreview
        /\ s.firing = x.st.firing /\ s.rate = x.st.rate /\ s.stuck = x.st.stuck /\ s.stale = x.st.stale
        /\ Counters(s) = Counters(x.st) /\ Motion(s) = Motion(x.st) /\ Judged(s) = Judged(x.st)
        /\ Windows(s) = Windows(x.st)
    BY <1>1, <1>6 DEF St, Counters, Motion, Judged, Windows
  <1>9. PICK r : r = Judge(y, x.st.level, hit, "level", pv)
    OBVIOUS
  <1>10. s.firing => s.preview # Nothing
    BY <1>8 DEF Good
  <1>11. Good(r) /\ r.st = s
    <2>1. CASE hit /\ ~x.st.level
      <3>1. Holds(y.st, "level") /\ pv = PreviewOf(y.st, "level") /\ "level" \in States
        BY <1>5, <1>7, <2>1 DEF Holds, PreviewOf, States
      <3>2. r = Begin(y, "level", pv)
        BY <1>9, <2>1 DEF Judge
      <3> QED
        BY <1>5, <1>10, <3>1, <3>2, BeginGood
    <2>2. CASE hit /\ x.st.level
      <3>1. r = Update(y, "level", pv)
        BY <1>9, <2>2 DEF Judge
      <3>2. x.alert # NoAlert
        BY <2>2 DEF Good, Matches
      <3>3. CASE x.alert.state = "level"
        <4>1. r = [y EXCEPT !.alert.preview = pv]
          BY <1>5, <3>1, <3>2, <3>3 DEF Update
        <4>2. r \in Pair /\ r.st = s /\ r.alert.state = "level" /\ r.alert.preview = pv
          BY <1>1, <1>5, <3>3, <4>1 DEF Pair, Alerts
        <4>3. r.alert # NoAlert
          BY <4>2 DEF NoAlert
        <4> QED
          BY <1>7, <1>10, <2>2, <4>2, <4>3 DEF Good, Matches, Holds, PreviewOf
      <3>4. CASE x.alert.state # "level"
        <4>1. r = y
          BY <1>5, <3>1, <3>4 DEF Update
        <4>2. Matches(s, x.alert)
          BY <1>7, <1>8, <2>2, <3>2, <3>4 DEF Good, Matches, Holds, PreviewOf
        <4> QED
          BY <1>5, <1>10, <4>1, <4>2 DEF Good
      <3> QED
        BY <3>3, <3>4
    <2>3. CASE ~hit /\ x.st.level
      <3>1. y.alert # NoAlert
        BY <1>5, <2>3 DEF Good, Matches
      <3>2. r = Cleared(y)
        BY <1>9, <2>3 DEF Judge
      <3> QED
        BY <1>5, <1>10, <3>1, <3>2, ClearedGood
    <2>4. CASE ~hit /\ ~x.st.level
      <3>1. r = y
        BY <1>9, <2>4 DEF Judge
      <3>2. s.level = x.st.level /\ s.levelPreview = x.st.levelPreview
        BY <1>1, <1>7, <2>4
      <3>3. Matches(s, x.alert)
        BY <1>8, <3>2 DEF Good, Matches, Holds, PreviewOf
      <3> QED
        BY <1>5, <1>10, <3>1, <3>3 DEF Good
    <2> QED
      BY <1>1, <2>1, <2>2, <2>3, <2>4
  <1> QED
    BY <1>7, <1>8, <1>9, <1>11

LEMMA CheckLevelGood ==
  ASSUME NEW x, Good(x), NEW total, total.count \in Nat, total.n \in Nat, total.sum \in Nat
  PROVE  /\ Good(CheckLevel(x, total))
         /\ Counters(CheckLevel(x, total).st) = Counters(x.st)
         /\ Motion(CheckLevel(x, total).st) = Motion(x.st)
         /\ Judged(CheckLevel(x, total).st) = Judged(x.st)
         /\ Windows(CheckLevel(x, total).st) = Windows(x.st)
  <1>1. CASE Above = Off
    BY <1>1 DEF CheckLevel
  <1>2. CASE ~(Above = Off)
    <2>1. PICK hit \in BOOLEAN : hit = (total.n > 0 /\ total.sum > Above * total.n)
      BY DEF RateHit
    <2>2. PICK pv : pv = <<"average", total.sum, total.n>>
      OBVIOUS
    <2>3. pv \in Preview
      BY <2>2 DEF Preview
    <2>4. PICK y : y = Leveled(x, hit, pv)
      OBVIOUS
    <2>5. CheckLevel(x, total) = Judge(y, x.st.level, hit, "level", pv)
      BY <1>2, <2>1, <2>2, <2>4 DEF CheckLevel, Leveled
    <2>6. PICK r : r = Judge(y, x.st.level, hit, "level", pv)
      OBVIOUS
    <2>7. /\ Good(r)
          /\ Counters(r.st) = Counters(x.st)
          /\ Motion(r.st) = Motion(x.st)
          /\ Judged(r.st) = Judged(x.st)
          /\ Windows(r.st) = Windows(x.st)
      <3>1. /\ Good(Judge(y, x.st.level, hit, "level", pv))
            /\ Counters(Judge(y, x.st.level, hit, "level", pv).st) = Counters(x.st)
            /\ Motion(Judge(y, x.st.level, hit, "level", pv).st) = Motion(x.st)
            /\ Judged(Judge(y, x.st.level, hit, "level", pv).st) = Judged(x.st)
            /\ Windows(Judge(y, x.st.level, hit, "level", pv).st) = Windows(x.st)
        BY <2>3, <2>4, JudgeCheckLevel
      <3> QED
        BY <2>6, <3>1
    <2> QED
      BY <2>5, <2>6, <2>7
  <1> QED
    BY <1>1, <1>2

LEMMA CheckStaleGood ==
  ASSUME NEW x, Good(x)
  PROVE  /\ Good(CheckStale(x))
         /\ Counters(CheckStale(x).st) = Counters(x.st)
         /\ Motion(CheckStale(x).st) = Motion(x.st)
         /\ Judged(CheckStale(x).st) = Judged(x.st)
         /\ CheckStale(x).st.win = x.st.win /\ CheckStale(x).st.rate = x.st.rate
         /\ CheckStale(x).st.stale <=> x.st.stale \/ Overdue(x.st)
  <1>1. x \in Pair /\ x.st \in St /\ x.alert \in Alerts
    BY DEF Good, Pair
  <1>2. PICK y : y = [x EXCEPT !.st.stale = TRUE]
    OBVIOUS
  <1>3. /\ y \in Pair /\ y.st.stale = TRUE
        /\ y.st.firing = x.st.firing /\ y.st.preview = x.st.preview
        /\ Counters(y.st) = Counters(x.st)
        /\ Motion(y.st) = Motion(x.st)
        /\ Judged(y.st) = Judged(x.st)
        /\ y.st.win = x.st.win /\ y.st.rate = x.st.rate
    BY <1>1, <1>2 DEF Pair, St, Counters, Motion, Judged
  <1>4. Holds(y.st, "stale") /\ x.st.preview = PreviewOf(y.st, "stale") /\ "stale" \in States
    BY <1>3 DEF Holds, PreviewOf, States
  <1>5. x.st.preview \in Preview /\ (y.st.firing => y.st.preview # Nothing)
    BY <1>1, <1>3 DEF St, Good
  <1>6. Good(Begin(y, "stale", x.st.preview)) /\ Begin(y, "stale", x.st.preview).st = y.st
    BY <1>3, <1>4, <1>5, BeginGood
  <1>7. CheckStale(x) = IF ~x.st.stale /\ Overdue(x.st) THEN Begin(y, "stale", x.st.preview) ELSE x
    BY <1>2 DEF CheckStale, Overdue
  <1> QED
    BY <1>3, <1>6, <1>7

LEMMA CheckWindowGood ==
  ASSUME NEW x, Good(x)
  PROVE  /\ Good(CheckWindow(x))
         /\ Counters(CheckWindow(x).st) = Counters(x.st)
         /\ Motion(CheckWindow(x).st) = Motion(x.st)
         /\ Judged(CheckWindow(x).st) = Judged(x.st)
         /\ CheckWindow(x).st.win = x.st.win /\ CheckWindow(x).st.stale = x.st.stale
         /\ CheckWindow(x).st.rate =
              IF MinCount = Off /\ MaxCount = Off THEN x.st.rate
              ELSE RateHit(x.st, Totals(x.st.win, now).count)
  <1>1. x.st.win \in [Slots -> Buckets]
    BY DEF Good, Pair, St
  <1>2. PICK total : total = Totals(x.st.win, now)
    OBVIOUS
  <1>3. total.count \in Nat /\ total.n \in Nat /\ total.sum \in Nat
    BY <1>1, <1>2, TotalsType
  <1>4. PICK y : y = CheckRate(x, total)
    OBVIOUS
  <1>5. /\ Good(y) /\ Counters(y.st) = Counters(x.st)
        /\ Motion(y.st) = Motion(x.st) /\ Judged(y.st) = Judged(x.st)
        /\ y.st.win = x.st.win /\ y.st.stale = x.st.stale
        /\ y.st.rate = IF MinCount = Off /\ MaxCount = Off THEN x.st.rate ELSE RateHit(x.st, total.count)
    BY <1>3, <1>4, CheckRateGood
  <1>6. PICK z : z = CheckLevel(y, total)
    OBVIOUS
  <1>7. /\ Good(z) /\ Counters(z.st) = Counters(y.st)
        /\ Motion(z.st) = Motion(y.st) /\ Judged(z.st) = Judged(y.st)
        /\ z.st.win = y.st.win /\ z.st.stale = y.st.stale /\ z.st.rate = y.st.rate
    BY <1>3, <1>5, <1>6, CheckLevelGood DEF Windows
  <1>8. CASE HasWindow
    <2>1. CheckWindow(x) = z
      BY <1>2, <1>4, <1>6, <1>8 DEF CheckWindow
    <2> QED
      BY <1>2, <1>5, <1>7, <2>1
  <1>9. CASE ~HasWindow
    <2>1. CheckWindow(x) = x /\ MinCount = Off /\ MaxCount = Off
      BY <1>9 DEF CheckWindow, HasWindow
    <2> QED
      BY <2>1
  <1> QED
    BY <1>8, <1>9

LEMMA CheckStuckGood ==
  ASSUME NEW x, Good(x), now \in Epoch..MaxTime
  PROVE  /\ Good(CheckStuck(x))
         /\ Counters(CheckStuck(x).st) = Counters(x.st)
         /\ CheckStuck(x).st.lastValue = x.st.lastValue
         /\ CheckStuck(x).st.lastChange = x.st.lastChange
         /\ CheckStuck(x).st.stuck <=>
              \/ x.st.stuck
              \/ /\ UnchangedFor > 0 /\ x.st.seen >= 2 /\ x.st.lastChange # 0
                 /\ now - x.st.lastChange > UnchangedFor
         /\ Judged(CheckStuck(x).st) = Judged(x.st)
         /\ Windows(CheckStuck(x).st) = Windows(x.st)
  <1>1. x \in Pair /\ x.st \in St /\ x.alert \in Alerts
    BY DEF Good, Pair
  <1>2. CASE /\ UnchangedFor > 0 /\ ~x.st.stuck
             /\ x.st.seen >= 2 /\ x.st.lastChange # 0
             /\ now - x.st.lastChange > UnchangedFor
    <2>1. PICK pv : pv = <<"unchanged", x.st.lastValue, now - x.st.lastChange>>
      OBVIOUS
    <2>2. pv \in Preview
      <3>1. Values \subseteq Nat /\ UnchangedFor \in Nat
        BY ConditionAssumption
      <3>2. Epoch \in Nat /\ MaxTime \in Nat
        BY ConditionAssumption
      <3>3. x.st.lastChange \in Nat /\ now \in Nat /\ x.st.lastValue \in Values \cup {NoValue}
        BY <1>1, <3>2 DEF St, Time
      <3>4. now - x.st.lastChange \in Nat
        BY <1>2, <3>1, <3>3
      <3>5. x.st.lastValue \in Nat \cup {NoValue}
        BY <3>1, <3>3
      <3> QED
        BY <2>1, <3>4, <3>5 DEF Preview
    <2>3. PICK y : y = [x EXCEPT !.st.stuck = TRUE, !.st.stuckPreview = pv]
      OBVIOUS
    <2>4. y \in Pair
      BY <1>1, <2>2, <2>3 DEF Pair, St
    <2>5. y.st.stuck = TRUE /\ y.st.stuckPreview = pv
      BY <1>1, <2>3 DEF Pair, St
    <2>6. \A f \in DOMAIN x.st : f \notin {"stuck", "stuckPreview"} => y.st[f] = x.st[f]
      BY <1>1, <2>3 DEF Pair, St
    <2>7. /\ y.st.firing = x.st.firing /\ y.st.preview = x.st.preview
          /\ y.st.lastValue = x.st.lastValue /\ y.st.lastChange = x.st.lastChange
          /\ Counters(y.st) = Counters(x.st) /\ Judged(y.st) = Judged(x.st)
          /\ Windows(y.st) = Windows(x.st)
      BY <1>1, <2>6 DEF St, Counters, Judged, Windows
    <2>8. Holds(y.st, "stuck") /\ pv = PreviewOf(y.st, "stuck") /\ "stuck" \in States
      BY <2>5 DEF Holds, PreviewOf, States
    <2>9. y.st.firing => y.st.preview # Nothing
      BY <2>7 DEF Good
    <2>10. Good(Begin(y, "stuck", pv)) /\ Begin(y, "stuck", pv).st = y.st
      BY <2>2, <2>4, <2>8, <2>9, BeginGood
    <2>11. CheckStuck(x) = Begin(y, "stuck", pv)
      BY <1>2, <2>1, <2>3 DEF CheckStuck
    <2>12. CheckStuck(x).st.stuck
      BY <2>5, <2>10, <2>11
    <2> QED
      BY <1>2, <2>7, <2>10, <2>11, <2>12
  <1>3. CASE ~ (/\ UnchangedFor > 0 /\ ~x.st.stuck
                /\ x.st.seen >= 2 /\ x.st.lastChange # 0
                /\ now - x.st.lastChange > UnchangedFor)
    <2>1. CheckStuck(x) = x
      BY <1>3 DEF CheckStuck
    <2>2. CheckStuck(x).st.stuck <=> x.st.stuck
      BY <2>1
    <2> QED
      BY <1>3, <2>1, <2>2
  <1> QED
    BY <1>2, <1>3
-----------------------------------------------------------------------------
Message == [id : Nat, at : Epoch..MaxTime, value : Values \cup {NoValue}, hit : BOOLEAN]

(* The messages of a from the i-th on are those since the value s remembers *)
(* came: the message before them had another.                               *)
RunFrom(s, a, i) ==
    /\ a[i].at = s.lastChange
    /\ \A j \in i..Len(a) : a[j].value = s.lastValue /\ a[j].at >= s.lastChange
    /\ i > 1 => a[i - 1].value # s.lastValue

(* lastChange is the time of the message that brought lastValue, once there *)
(* is one; a stuck subject has had it for longer than UnchangedFor.         *)
StuckInv ==
    /\ st.lastChange # 0 => \E i \in 1..Len(arrived) : RunFrom(st, arrived, i)
    /\ st.lastChange <= now
    /\ UnchangedFor = 0 => st.lastChange = 0
    /\ UnchangedFor > 0 /\ Len(arrived) > 0 => st.lastChange # 0
    /\ st.stuck => st.lastChange # 0 /\ now - st.lastChange > UnchangedFor /\ Len(arrived) >= 2

(* The expression stands as it was evaluated on some message at lastEval;   *)
(* the first message is always evaluated.                                   *)
EvalInv ==
    Expr => \/ st.lastEval = 0 /\ arrived = <<>>
            \/ \E i \in 1..Len(arrived) :
                  arrived[i].at = st.lastEval /\ arrived[i].hit = st.firing

ConditionsInv ==
    /\ Good(Both)
    /\ now \in Epoch..MaxTime
    /\ arrived \in Seq(Message) /\ Len(arrived) <= MaxMessages
    /\ st.seen = Len(arrived)
    /\ st.gapsN <= Larger(0, st.seen - 1)
    /\ st.lastSeen # 0 => st.seen > 0
    /\ StuckInv
    /\ EvalInv

LEMMA Numbers ==
  /\ Epoch \in Nat /\ MaxTime \in Nat /\ MaxTime >= Epoch /\ MaxMessages \in Nat
  /\ Epoch > 0 /\ Epoch >= EvalEvery /\ EvalEvery \in Nat /\ UnchangedFor \in Nat
  /\ Values \subseteq Nat /\ StaleWindow \in Nat \ {0}
  BY ConditionAssumption, WindowAssumption

-----------------------------------------------------------------------------
(* The division behind SlotOf and the remainder behind a ring. *)
LEMMA Division ==
  ASSUME NEW n \in Nat, NEW d \in Nat, d > 0
  PROVE  \E q \in Nat, r \in 0..(d - 1) : q = n \div d /\ r = n % d /\ n = q * d + r
  <1>1. n \div d \in Nat /\ n % d \in 0..(d - 1)
    OBVIOUS
  <1>2. PICK q \in Nat, r \in 0..(d - 1) : q = n \div d /\ r = n % d
    BY <1>1
  <1>3. n = q * d + r
    BY <1>2, SMTT(30)
  <1> QED
    BY <1>2, <1>3

LEMMA TimesMonotone ==
  ASSUME NEW a \in Int, NEW b \in Int, NEW d \in Nat, a <= b
  PROVE  a * d <= b * d
  <1>1. (b - a) * d >= 0
    OBVIOUS
  <1>2. (b - a) * d = b * d - a * d
    OBVIOUS
  <1> QED
    BY <1>1, <1>2

LEMMA Remainders ==
  ASSUME NEW a \in Nat, NEW b \in Nat, NEW d \in Nat, d > 0, a <= b, b - a < d, a % d = b % d
  PROVE  a = b
  <1>p. PICK p \in Nat, r \in 0..(d - 1) : p = a \div d /\ r = a % d /\ a = p * d + r
    BY Division
  <1>q. PICK q \in Nat, s \in 0..(d - 1) : q = b \div d /\ s = b % d /\ b = q * d + s
    BY Division
  <1>1. a = p * d + r /\ b = q * d + r
    BY <1>p, <1>q
  <1>2. b - a = q * d - p * d /\ p * d <= q * d
    BY <1>1
  <1>3. p <= q
    <2>1. CASE q + 1 <= p
      <3>1. (q + 1) * d <= p * d /\ (q + 1) * d = q * d + d
        BY <2>1, TimesMonotone
      <3> QED
        BY <1>2, <3>1
    <2> QED
      BY <2>1
  <1>4. CASE p + 1 <= q
    <2>1. (p + 1) * d <= q * d /\ (p + 1) * d = p * d + d
      BY <1>4, TimesMonotone
    <2> QED
      BY <1>2, <2>1
  <1> QED
    BY <1>1, <1>3, <1>4

LEMMA SizeFits == Size \in Nat /\ Size > 0 /\ Size * NumBuckets <= WindowMs
  <1>1. PICK q \in Nat, r \in 0..(NumBuckets - 1) : q = WindowMs \div NumBuckets /\ WindowMs = q * NumBuckets + r
    BY WindowAssumption, Division
  <1>2. CASE q = 0
    BY <1>1, <1>2, WindowAssumption
  <1>3. CASE q > 0
    <2>1. Size = q
      BY <1>1, <1>3 DEF Size
    <2>2. PICK p \in Int : p = q * NumBuckets
      BY <1>1, WindowAssumption
    <2>3. p <= WindowMs
      BY <1>1, <2>2, WindowAssumption
    <2> QED
      BY <1>1, <1>3, <2>1, <2>2, <2>3
  <1> QED
    BY <1>1, <1>2, <1>3

(* A slot begins at start * Size and is Size wide. *)
LEMMA SlotBounds ==
  ASSUME NEW t \in Nat
  PROVE  SlotOf(t) \in Nat /\ SlotOf(t) * Size <= t /\ t < SlotOf(t) * Size + Size
  <1>1. PICK q \in Nat, r \in 0..(Size - 1) : q = t \div Size /\ t = q * Size + r
    BY SizeFits, Division
  <1>2. PICK p \in Int : p = q * Size
    BY <1>1, SizeFits
  <1> QED
    BY <1>1, <1>2, SizeFits DEF SlotOf

LEMMA SlotsInOrder ==
  ASSUME NEW s \in Nat, NEW t \in Nat, s <= t
  PROVE  SlotOf(s) <= SlotOf(t)
  <1>1. CASE SlotOf(t) + 1 <= SlotOf(s)
    <2>1. SlotOf(s) \in Nat /\ SlotOf(t) \in Nat
      BY SlotBounds
    <2>2. PICK a \in Nat, b \in Nat : a = SlotOf(s) /\ b = SlotOf(t)
      BY <2>1
    <2>3. (b + 1) * Size <= a * Size /\ (b + 1) * Size = b * Size + Size
      BY <1>1, <2>2, TimesMonotone, SizeFits
    <2>4. a * Size <= s /\ t < b * Size + Size
      BY <2>2, SlotBounds
    <2>5. PICK x \in Int, y \in Int : x = a * Size /\ y = b * Size
      BY <2>2, SizeFits
    <2> QED
      BY <2>3, <2>4, <2>5, SizeFits
  <1> QED
    BY <1>1, SlotBounds

(* What is a whole window older than t is in a slot that comes around again. *)
LEMMA SlotsOfTheWindow ==
  ASSUME NEW t \in Nat, t >= WindowMs
  PROVE  SlotOf(t - WindowMs) + NumBuckets <= SlotOf(t)
  <1>1. t - WindowMs \in Nat /\ NumBuckets \in Nat /\ WindowMs \in Nat
    BY WindowAssumption
  <1>2. PICK a \in Nat, b \in Nat : a = SlotOf(t - WindowMs) /\ b = SlotOf(t)
    BY <1>1, SlotBounds
  <1>3. CASE b + 1 <= a + NumBuckets
    <2>1. (b + 1) * Size <= (a + NumBuckets) * Size
      BY <1>1, <1>3, TimesMonotone, SizeFits
    <2>2. (b + 1) * Size = b * Size + Size /\ (a + NumBuckets) * Size = a * Size + Size * NumBuckets
      BY <1>1, SizeFits
    <2>3. PICK x \in Int, y \in Int, z \in Int : x = a * Size /\ y = b * Size /\ z = Size * NumBuckets
      BY <1>1, <1>2, SizeFits
    <2>4. x <= t - WindowMs /\ t < y + Size /\ z <= WindowMs
      BY <1>1, <1>2, <2>3, SlotBounds, SizeFits
    <2> QED
      BY <1>1, <2>1, <2>2, <2>3, <2>4, SizeFits
  <1> QED
    BY <1>1, <1>2, <1>3

LEMMA SmallRemainder ==
  ASSUME NEW a \in Nat, NEW d \in Nat, a < d
  PROVE  a % d = a
  <1>1. PICK q \in Nat, r \in 0..(d - 1) : q = a \div d /\ r = a % d /\ a = q * d + r
    BY Division
  <1>2. CASE q >= 1
    <2>1. 1 * d <= q * d
      BY <1>2, TimesMonotone
    <2>2. PICK p \in Int : p = q * d
      OBVIOUS
    <2> QED
      BY <1>1, <2>1, <2>2
  <1>3. CASE q = 0
    BY <1>1, <1>3
  <1> QED
    BY <1>2, <1>3
-----------------------------------------------------------------------------
(* The messages of one slot. *)
OfSlot(a, slot) == {k \in 1..Len(a) : SlotOf(a[k].at) = slot}

(* The window w at time t after the messages a: a bucket that is in use has *)
(* counted all messages of its slot, and no message fell into a bucket that *)
(* is not in use or is of an earlier slot.                                  *)
Filled(w, a, t) ==
    /\ \A b \in Slots : w[b].count > 0 =>
          /\ w[b].start \in 0..SlotOf(t) /\ w[b].start % NumBuckets = b
          /\ w[b].count = Cardinality(OfSlot(a, w[b].start))
    /\ \A k \in 1..Len(a) :
          LET b == SlotOf(a[k].at) % NumBuckets IN
          w[b].count > 0 /\ w[b].start >= SlotOf(a[k].at)

LEMMA OfSlotFinite ==
  ASSUME NEW a \in Seq(Message), NEW slot
  PROVE  IsFiniteSet(OfSlot(a, slot)) /\ Cardinality(OfSlot(a, slot)) \in Nat
  <1>1. IsFiniteSet(1..Len(a))
    BY FS_Interval
  <1> QED
    BY <1>1, FS_Subset, FS_CardinalityType DEF OfSlot

LEMMA SlotInRing ==
  ASSUME NEW t \in Nat
  PROVE  SlotOf(t) \in Nat /\ SlotOf(t) % NumBuckets \in Slots
  <1>1. SlotOf(t) \in Nat
    BY SlotBounds
  <1>2. NumBuckets \in Nat /\ NumBuckets > 0
    BY WindowAssumption
  <1>3. PICK s \in Nat : s = SlotOf(t)
    BY <1>1
  <1>4. s % NumBuckets \in 0..(NumBuckets - 1)
    BY <1>2, Division
  <1> QED
    BY <1>3, <1>4 DEF Slots

LEMMA CountedCount ==
  ASSUME NEW b \in Buckets, NEW v
  PROVE  Counted(b, v).start = b.start /\ Counted(b, v).count = b.count + 1
  <1>1. PICK c : c = [b EXCEPT !.count = @ + 1]
    OBVIOUS
  <1>2. c.start = b.start /\ c.count = b.count + 1 /\ DOMAIN c = {"start", "count", "n", "sum", "low", "high"}
    BY <1>1 DEF Buckets
  <1>3. CASE v = NoValue
    BY <1>1, <1>2, <1>3 DEF Counted
  <1>4. CASE v # NoValue
    <2>1. PICK l, h, y, n : Counted(b, v) = [c EXCEPT !.low = l, !.high = h, !.sum = y, !.n = n]
      BY <1>1, <1>4 DEF Counted
    <2> QED
      BY <1>2, <2>1
  <1> QED
    BY <1>3, <1>4

(* A message is counted in the bucket of its slot, which starts over when it *)
(* is of another.                                                           *)
LEMMA AddIs ==
  ASSUME NEW w \in [Slots -> Buckets], NEW t \in Nat, NEW v
  PROVE  LET b == SlotOf(t) % NumBuckets IN
         /\ Add(w, t, v)[b].start = SlotOf(t)
         /\ Add(w, t, v)[b].count = (IF w[b].start = SlotOf(t) THEN w[b].count ELSE 0) + 1
         /\ \A c \in Slots : c # b => Add(w, t, v)[c] = w[c]
  <1>1. PICK b \in Slots, s \in Nat : b = SlotOf(t) % NumBuckets /\ s = SlotOf(t)
    BY SlotInRing
  <1>2. Bucket(s) \in Buckets /\ Bucket(s).start = s /\ Bucket(s).count = 0
    BY <1>1 DEF Bucket, Buckets
  <1>3. PICK u : u = Current(w, t)
    OBVIOUS
  <1>4. /\ u \in Buckets /\ u.start = s
        /\ u.count = IF w[b].start = s THEN w[b].count ELSE 0
    BY <1>1, <1>2, <1>3 DEF Current
  <1>5. PICK z : z = Counted(u, v)
    OBVIOUS
  <1>6. z.start = s /\ z.count = u.count + 1
    BY <1>4, <1>5, CountedCount
  <1>7. Add(w, t, v) = [w EXCEPT ![b] = z]
    BY <1>1, <1>3, <1>5 DEF Add
  <1>8. Add(w, t, v)[b] = z /\ \A c \in Slots : c # b => Add(w, t, v)[c] = w[c]
    BY <1>1, <1>7
  <1> QED
    BY <1>1, <1>4, <1>6, <1>8

LEMMA AddKeepsFilled ==
  ASSUME NEW w \in [Slots -> Buckets], NEW a \in Seq(Message), NEW t \in Nat, NEW m \in Message,
         m.at = t, \A k \in 1..Len(a) : a[k].at \in 0..t, NEW v, Filled(w, a, t)
  PROVE  Filled(Add(w, t, v), Append(a, m), t)
  <1>1. PICK b \in Slots, s \in Nat : b = SlotOf(t) % NumBuckets /\ s = SlotOf(t)
    BY SlotInRing
  <1>2. PICK z : z = Add(w, t, v)
    OBVIOUS
  <1>3. /\ z[b].start = s /\ z[b].count = (IF w[b].start = s THEN w[b].count ELSE 0) + 1
        /\ \A c \in Slots : c # b => z[c] = w[c]
    BY <1>1, <1>2, AddIs
  <1>4. PICK d : d = Append(a, m)
    OBVIOUS
  <1>5. /\ d \in Seq(Message) /\ Len(a) \in Nat /\ Len(d) = Len(a) + 1 /\ d[Len(a) + 1] = m
        /\ \A k \in 1..Len(a) : d[k] = a[k]
    BY <1>4
  <1>6. \A c \in Slots : w[c].count \in Nat
    BY DEF Buckets
  <1>7. \A k \in 1..Len(a) : SlotOf(a[k].at) \in Nat /\ SlotOf(a[k].at) <= s
                             /\ SlotOf(a[k].at) % NumBuckets \in Slots
    <2> TAKE k \in 1..Len(a)
    <2>1. a[k].at \in Nat /\ a[k].at <= t
      OBVIOUS
    <2> QED
      BY <1>1, <2>1, SlotInRing, SlotsInOrder
  <1>8. (IF w[b].start = s THEN w[b].count ELSE 0) = Cardinality(OfSlot(a, s))
    <2>1. CASE w[b].start = s /\ w[b].count > 0
      BY <2>1 DEF Filled
    <2>2. CASE ~(w[b].start = s /\ w[b].count > 0)
      <3>1. ASSUME NEW k \in 1..Len(a), SlotOf(a[k].at) = s PROVE FALSE
        <4>1. w[b].count > 0 /\ w[b].start >= s
          BY <1>1, <3>1 DEF Filled
        <4>2. w[b].start \in 0..s
          BY <1>1, <4>1 DEF Filled
        <4> QED
          BY <2>2, <4>1, <4>2
      <3>2. OfSlot(a, s) = {}
        BY <3>1 DEF OfSlot
      <3>3. (IF w[b].start = s THEN w[b].count ELSE 0) = 0
        BY <1>6, <2>2
      <3> QED
        BY <3>2, <3>3, FS_EmptySet
    <2> QED
      BY <2>1, <2>2
  <1>9. OfSlot(d, s) = OfSlot(a, s) \cup {Len(a) + 1} /\ Len(a) + 1 \notin OfSlot(a, s)
    BY <1>1, <1>5 DEF OfSlot
  <1>10. Cardinality(OfSlot(d, s)) = Cardinality(OfSlot(a, s)) + 1
    BY <1>9, OfSlotFinite, FS_AddElement
  <1>11. \A x : x # s => OfSlot(d, x) = OfSlot(a, x)
    BY <1>1, <1>5 DEF OfSlot
  <1>12. ASSUME NEW c \in Slots, z[c].count > 0
         PROVE  /\ z[c].start \in 0..s /\ z[c].start % NumBuckets = c
                /\ z[c].count = Cardinality(OfSlot(d, z[c].start))
    <2>1. CASE c = b
      BY <1>1, <1>3, <1>8, <1>10, <2>1
    <2>2. CASE c # b
      <3>1. z[c] = w[c]
        BY <1>3, <2>2
      <3>2. /\ w[c].start \in 0..s /\ w[c].start % NumBuckets = c
            /\ w[c].count = Cardinality(OfSlot(a, w[c].start))
        BY <1>1, <1>12, <3>1 DEF Filled
      <3>3. w[c].start # s
        BY <1>1, <2>2, <3>2
      <3> QED
        BY <1>11, <3>1, <3>2, <3>3
    <2> QED
      BY <2>1, <2>2
  <1>13. ASSUME NEW k \in 1..Len(d), NEW c, c = SlotOf(d[k].at) % NumBuckets
         PROVE  z[c].count > 0 /\ z[c].start >= SlotOf(d[k].at)
    <2>0. z[b].count > 0
      BY <1>3, <1>6
    <2>1. CASE k = Len(a) + 1
      <3>1. SlotOf(d[k].at) = s /\ c = b
        BY <1>1, <1>5, <1>13, <2>1
      <3> QED
        BY <1>3, <2>0, <3>1
    <2>2. CASE k \in 1..Len(a)
      <3>1. d[k] = a[k] /\ c \in Slots /\ SlotOf(a[k].at) \in Nat /\ SlotOf(a[k].at) <= s
        BY <1>5, <1>7, <1>13, <2>2
      <3>2. w[c].count > 0 /\ w[c].start >= SlotOf(a[k].at)
        BY <1>13, <2>2, <3>1 DEF Filled
      <3>3. c # b => z[c] = w[c]
        BY <1>3, <3>1
      <3> QED
        BY <1>3, <2>0, <3>1, <3>2, <3>3
    <2> QED
      BY <1>5, <2>1, <2>2
  <1>14. Filled(z, d, t)
    BY <1>1, <1>12, <1>13 DEF Filled
  <1> QED
    BY <1>2, <1>4, <1>14

LEMMA FilledLater ==
  ASSUME NEW w \in [Slots -> Buckets], NEW a \in Seq(Message), NEW s \in Nat, NEW t \in Nat, s <= t,
         Filled(w, a, s)
  PROVE  Filled(w, a, t)
  <1>1. SlotOf(s) \in Nat /\ SlotOf(t) \in Nat /\ SlotOf(s) <= SlotOf(t)
    BY SlotBounds, SlotsInOrder
  <1>2. 0..SlotOf(s) \subseteq 0..SlotOf(t)
    BY <1>1
  <1> QED
    BY <1>2 DEF Filled

(* What the window counts is at least what is certainly inside it and at    *)
(* most what may be.                                                        *)
LEMMA CountBetween ==
  ASSUME st.win \in [Slots -> Buckets], arrived \in Seq(Message), now \in Nat, now >= WindowMs,
         \A k \in 1..Len(arrived) : arrived[k].at \in 0..now, Filled(st.win, arrived, now)
  PROVE  /\ Totals(st.win, now).count \in Nat
         /\ Cardinality(Certain) \in Nat /\ Cardinality(Possible) \in Nat
         /\ Cardinality(Certain) <= Totals(st.win, now).count
         /\ Totals(st.win, now).count <= Cardinality(Possible)
  <1> DEFINE S == InWindow(st.win, now)
             P == [b \in Slots |-> OfSlot(arrived, st.win[b].start)]
             f == [b \in Slots |-> st.win[b].count]
             U == UNION {P[b] : b \in S}
  <1>1. IsFiniteSet(1..Len(arrived))
    BY FS_Interval
  <1>2. IsFiniteSet(S) /\ S \subseteq Slots
    <2>1. 0 \in Int /\ NumBuckets - 1 \in Int
      BY WindowAssumption
    <2>2. IsFiniteSet(Slots)
      BY <2>1, FS_Interval DEF Slots
    <2>3. S \subseteq Slots
      BY DEF InWindow
    <2> HIDE DEF S
    <2> QED
      BY <2>2, <2>3, FS_Subset
  <1>3. \A b \in S : /\ st.win[b].count > 0
                     /\ st.win[b].start >= SlotOf(now - WindowMs) /\ st.win[b].start <= SlotOf(now)
    BY DEF InWindow
  <1>4. \A b \in S : IsFiniteSet(P[b]) /\ f[b] = Cardinality(P[b])
    BY <1>2, <1>3, OfSlotFinite DEF Filled
  <1>5. \A b, c \in S : b # c => P[b] \cap P[c] = {}
    <2> SUFFICES ASSUME NEW b \in S, NEW c \in S, NEW k \in P[b] \cap P[c] PROVE b = c
      OBVIOUS
    <2>1. st.win[b].start = st.win[c].start
      BY <1>2 DEF OfSlot
    <2>2. st.win[b].start % NumBuckets = b /\ st.win[c].start % NumBuckets = c
      BY <1>2, <1>3 DEF Filled
    <2> QED
      BY <2>1, <2>2
  <1>6. Totals(st.win, now).count = SumOver(f, S)
    <2>1. Totals(st.win, now).count = FieldSum(st.win, "count", S)
      BY DEF Totals, FieldSum, MapThenSumSet, MapThenFoldSet
    <2>2. \A b \in S : f[b] = st.win[b]["count"]
      BY <1>2
    <2> HIDE DEF S, f
    <2> QED
      BY <1>2, <2>1, <2>2, FieldSumIs
  <1>7. IsFiniteSet(U) /\ SumOver(f, S) = Cardinality(U)
    <2>1. \A k : k \in U <=> \E b \in S : k \in P[b]
      OBVIOUS
    <2> HIDE DEF S, f, P, U
    <2>2. Partitions(f, P, S, U)
      BY <1>2, <1>4, <1>5, <2>1 DEF Partitions
    <2> QED
      BY <2>2, SumOfSizes
  <1>8. U \subseteq Possible
    <2> SUFFICES ASSUME NEW b \in S, NEW k \in P[b] PROVE k \in Possible
      OBVIOUS
    <2>1. k \in 1..Len(arrived) /\ SlotOf(arrived[k].at) = st.win[b].start
      BY <1>2 DEF OfSlot
    <2>2. PICK p \in Nat, q \in Nat : p = SlotOf(now - WindowMs) /\ q = SlotOf(arrived[k].at)
      <3>1. now - WindowMs \in Nat /\ arrived[k].at \in Nat
        BY <2>1, WindowAssumption
      <3> QED
        BY <3>1, SlotBounds
    <2>3. p <= q
      BY <1>3, <2>1, <2>2
    <2>4. p * Size <= q * Size
      BY <2>2, <2>3, TimesMonotone, SizeFits
    <2>5. now - WindowMs \in Nat /\ arrived[k].at \in Nat
      BY <2>1, WindowAssumption
    <2>6. now - WindowMs < p * Size + Size /\ q * Size <= arrived[k].at
      BY <2>2, <2>5, SlotBounds
    <2>7. PICK x \in Int, y \in Int : x = p * Size /\ y = q * Size
      BY <2>2, SizeFits
    <2>8. arrived[k].at > now - WindowMs - Size
      <3>1. x <= y /\ now - WindowMs < x + Size /\ y <= arrived[k].at
        BY <2>4, <2>6, <2>7
      <3>2. Size \in Nat /\ WindowMs \in Nat
        BY SizeFits, WindowAssumption
      <3> QED
        BY <2>5, <3>1, <3>2
    <2> QED
      BY <2>1, <2>8 DEF Possible
  <1>9. Certain \subseteq U
    <2> SUFFICES ASSUME NEW k \in Certain PROVE \E b \in S : k \in P[b]
      OBVIOUS
    <2>1. k \in 1..Len(arrived) /\ SlotOf(arrived[k].at) > SlotOf(now) - NumBuckets
      BY DEF Certain
    <2>2. arrived[k].at \in Nat /\ arrived[k].at <= now
      BY <2>1
    <2>3. PICK q \in Nat, s \in Nat : q = SlotOf(arrived[k].at) /\ s = SlotOf(now) /\ q <= s
      BY <2>2, SlotBounds, SlotsInOrder
    <2>4. PICK b \in Slots : b = q % NumBuckets
      BY <2>2, <2>3, SlotInRing
    <2>5. st.win[b].count > 0 /\ st.win[b].start >= q
      BY <2>1, <2>3, <2>4 DEF Filled
    <2>6. PICK u \in 0..s : u = st.win[b].start /\ u % NumBuckets = b
      BY <2>3, <2>5 DEF Filled
    <2>7. NumBuckets \in Nat /\ NumBuckets > 0
      BY WindowAssumption
    <2>8. u = q
      <3>1. u \in Nat /\ q <= u /\ u - q < NumBuckets /\ u % NumBuckets = q % NumBuckets
        BY <2>1, <2>3, <2>4, <2>5, <2>6, <2>7
      <3> QED
        BY <2>7, <3>1, Remainders
    <2>9. now - WindowMs \in Nat /\ SlotOf(now - WindowMs) \in Nat
      <3>1. now - WindowMs \in Nat
        BY WindowAssumption
      <3> QED
        BY <3>1, SlotBounds
    <2>10. SlotOf(now - WindowMs) + NumBuckets <= s
      BY <2>3, SlotsOfTheWindow
    <2>11. u >= SlotOf(now - WindowMs) /\ u <= s
      BY <2>1, <2>3, <2>7, <2>8, <2>9, <2>10
    <2>12. b \in S
      BY <2>3, <2>5, <2>6, <2>11 DEF InWindow
    <2>13. k \in P[b]
      BY <2>1, <2>3, <2>6, <2>8 DEF OfSlot
    <2> QED
      BY <2>12, <2>13
  <1>10. IsFiniteSet(Certain) /\ IsFiniteSet(Possible)
    <2>1. Certain \subseteq 1..Len(arrived) /\ Possible \subseteq 1..Len(arrived)
      BY DEF Certain, Possible
    <2> QED
      BY <1>1, <2>1, FS_Subset
  <1> HIDE DEF U
  <1>11. Cardinality(Certain) <= Cardinality(U) /\ Cardinality(U) <= Cardinality(Possible)
    BY <1>7, <1>8, <1>9, <1>10, FS_Subset
  <1>12. Cardinality(U) \in Nat /\ Cardinality(Certain) \in Nat /\ Cardinality(Possible) \in Nat
    BY <1>7, <1>10, FS_CardinalityType
  <1> QED
    BY <1>6, <1>7, <1>11, <1>12
-----------------------------------------------------------------------------
(* The messages of a that came after a pause. *)
ChangesOf(a) == {i \in 2..Len(a) : a[i].at > a[i - 1].at}

(* e numbers the messages of a that came after a pause, in order; the last  *)
(* pauses are where the ring of s has them.                                 *)
Numbering(e, s, a) ==
    /\ e \in [1..s.gapsN -> ChangesOf(a)]
    /\ \A p, q \in 1..s.gapsN : p < q => e[p] < e[q]
    /\ \A i \in ChangesOf(a) : \E p \in 1..s.gapsN : e[p] = i
    /\ \A p \in 1..s.gapsN :
          p + StaleWindow > s.gapsN =>
             s.gaps[(p - 1) % StaleWindow] = a[e[p]].at - a[e[p] - 1].at

Remembers(s, a) == \E e : Numbering(e, s, a)

(* Noting a pause keeps the ring the newest pauses. *)
LEMMA NotedRemembers ==
  ASSUME NEW s \in St, NEW r \in St, NEW a \in Seq(Message), NEW m \in Message,
         Remembers(s, a), Noted(s, m.at, r),
         s.lastSeen = IF Len(a) = 0 THEN 0 ELSE a[Len(a)].at
  PROVE  Remembers(r, Append(a, m))
  <1>1. PICK e : Numbering(e, s, a)
    BY DEF Remembers
  <1>2. PICK d : d = Append(a, m)
    OBVIOUS
  <1>3. /\ d \in Seq(Message) /\ Len(a) \in Nat /\ Len(d) = Len(a) + 1 /\ d[Len(a) + 1] = m
        /\ \A k \in 1..Len(a) : d[k] = a[k]
    BY <1>2
  <1>4. m.at \in Nat /\ m.at > 0 /\ \A k \in 1..Len(a) : a[k].at \in Nat /\ a[k].at > 0
    <2>1. \A x \in Message : x.at \in Nat /\ x.at > 0
      BY Numbers DEF Message
    <2>2. \A k \in 1..Len(a) : a[k] \in Message
      OBVIOUS
    <2> QED
      BY <2>1, <2>2
  <1>5. PICK N \in Nat : N = s.gapsN
    BY DEF St
  <1>6. StaleWindow \in Nat /\ StaleWindow > 0
    BY Numbers
  <1>7. \A i \in ChangesOf(a) : i \in 2..Len(a) /\ i - 1 \in 1..Len(a) /\ d[i] = a[i] /\ d[i - 1] = a[i - 1]
    BY <1>3 DEF ChangesOf
  <1>8. ChangesOf(a) = ChangesOf(d) \cap 1..Len(a)
    BY <1>3 DEF ChangesOf
  <1>9. CASE s.lastSeen > 0 /\ m.at > s.lastSeen
    <2>1. Len(a) > 0 /\ s.lastSeen = a[Len(a)].at
      BY <1>3, <1>9
    <2>2. ChangesOf(d) = ChangesOf(a) \cup {Len(a) + 1}
      BY <1>3, <1>9, <2>1 DEF ChangesOf
    <2>3. /\ r.gapsN = N + 1
          /\ r.gaps = [s.gaps EXCEPT ![N % StaleWindow] = m.at - s.lastSeen]
      BY <1>5, <1>9 DEF Noted
    <2>4. PICK g : g = [p \in 1..(N + 1) |-> IF p = N + 1 THEN Len(a) + 1 ELSE e[p]]
      OBVIOUS
    <2>5. g[N + 1] = Len(a) + 1 /\ \A p \in 1..N : g[p] = e[p] /\ e[p] \in ChangesOf(a)
      <3>1. N + 1 \in 1..(N + 1) /\ \A p \in 1..N : p \in 1..(N + 1) /\ p # N + 1
        OBVIOUS
      <3>2. g[N + 1] = Len(a) + 1 /\ \A p \in 1..N : g[p] = e[p]
        BY <2>4, <3>1
      <3>3. \A p \in 1..N : e[p] \in ChangesOf(a)
        BY <1>1, <1>5 DEF Numbering
      <3> QED
        BY <3>2, <3>3
    <2>6. g \in [1..(N + 1) -> ChangesOf(d)]
      BY <2>2, <2>4, <2>5
    <2>7. ASSUME NEW p \in 1..(N + 1), NEW q \in 1..(N + 1), p < q PROVE g[p] < g[q]
      <3>1. CASE q = N + 1
        <4>1. p \in 1..N
          BY <2>7, <3>1
        <4>2. g[p] \in 2..Len(a)
          BY <1>7, <2>5, <4>1
        <4> QED
          BY <1>3, <2>5, <3>1, <4>2
      <3>2. CASE q \in 1..N
        <4>1. p \in 1..N
          BY <2>7, <3>2
        <4> QED
          BY <1>1, <1>5, <2>5, <2>7, <3>2, <4>1 DEF Numbering
      <3> QED
        BY <3>1, <3>2
    <2>8. \A i \in ChangesOf(d) : \E p \in 1..(N + 1) : g[p] = i
      <3> TAKE i \in ChangesOf(d)
      <3>1. CASE i = Len(a) + 1
        BY <2>5, <3>1
      <3>2. CASE i \in ChangesOf(a)
        <4>1. PICK p \in 1..N : e[p] = i
          BY <1>1, <1>5, <3>2 DEF Numbering
        <4> QED
          BY <2>5, <4>1
      <3> QED
        BY <2>2, <3>1, <3>2
    <2>9. s.gaps \in [0..(StaleWindow - 1) -> Nat]
      BY DEF St
    <2>10. ASSUME NEW p \in 1..(N + 1), p + StaleWindow > N + 1
           PROVE  r.gaps[(p - 1) % StaleWindow] = d[g[p]].at - d[g[p] - 1].at
      <3>0. N % StaleWindow \in 0..(StaleWindow - 1)
        BY <1>6, Division
      <3>1. CASE p = N + 1
        <4>1. (p - 1) % StaleWindow = N % StaleWindow
          BY <3>1
        <4>2. r.gaps[N % StaleWindow] = m.at - s.lastSeen
          BY <2>3, <2>9, <3>0
        <4>3. g[p] = Len(a) + 1 /\ g[p] - 1 = Len(a)
          BY <1>3, <2>5, <3>1
        <4>4. d[g[p]] = m /\ d[g[p] - 1] = a[Len(a)]
          BY <1>3, <2>1, <4>3
        <4> QED
          BY <2>1, <4>1, <4>2, <4>4
      <3>2. CASE p \in 1..N
        <4>1. PICK c \in Nat : c = p - 1 /\ c < N /\ N - c < StaleWindow
          BY <1>6, <2>10, <3>2
        <4>2. c % StaleWindow # N % StaleWindow
          BY <1>6, <4>1, Remainders
        <4>3. r.gaps[c % StaleWindow] = s.gaps[c % StaleWindow]
          <5>1. c % StaleWindow \in 0..(StaleWindow - 1)
            BY <1>6, <4>1, Division
          <5> QED
            BY <2>3, <2>9, <4>2, <5>1
        <4>4. p + StaleWindow > N
          BY <1>6, <2>10
        <4>5. s.gaps[c % StaleWindow] = a[e[p]].at - a[e[p] - 1].at
          BY <1>1, <1>5, <3>2, <4>1, <4>4 DEF Numbering
        <4>6. g[p] = e[p] /\ d[e[p]] = a[e[p]] /\ d[e[p] - 1] = a[e[p] - 1]
          BY <1>7, <2>5, <3>2
        <4> QED
          BY <4>1, <4>3, <4>5, <4>6
      <3> QED
        BY <3>1, <3>2
    <2>11. Numbering(g, r, d)
      BY <2>3, <2>6, <2>7, <2>8, <2>10 DEF Numbering
    <2> QED
      BY <1>2, <2>11 DEF Remembers
  <1>10. CASE ~(s.lastSeen > 0 /\ m.at > s.lastSeen)
    <2>1. r.gapsN = N /\ r.gaps = s.gaps
      BY <1>5, <1>10 DEF Noted
    <2>2. ChangesOf(d) = ChangesOf(a)
      <3>1. Len(a) + 1 \notin ChangesOf(d)
        <4>1. CASE Len(a) = 0
          BY <1>3, <4>1 DEF ChangesOf
        <4>2. CASE Len(a) > 0
          <5>1. d[Len(a) + 1] = m /\ d[(Len(a) + 1) - 1] = a[Len(a)] /\ s.lastSeen = a[Len(a)].at /\ s.lastSeen > 0
            BY <1>3, <1>4, <4>2
          <5> QED
            BY <1>10, <5>1 DEF ChangesOf
        <4> QED
          BY <1>3, <4>1, <4>2
      <3>2. ChangesOf(d) \subseteq 1..(Len(a) + 1)
        BY <1>3 DEF ChangesOf
      <3> QED
        BY <1>3, <1>8, <3>1, <3>2
    <2>3. \A p \in 1..N : e[p] \in ChangesOf(a)
      BY <1>1, <1>5 DEF Numbering
    <2>4. Numbering(e, r, d)
      BY <1>1, <1>5, <1>7, <2>1, <2>2, <2>3 DEF Numbering
    <2> QED
      BY <1>2, <2>4 DEF Remembers
  <1> QED
    BY <1>9, <1>10

(* The newest pauses, one for each slot of the ring that is in use. *)
LEMMA RingOfTheNewest ==
  ASSUME st \in St, arrived \in Seq(Message), Remembers(st, arrived), NEW n \in Nat,
         n = IF st.gapsN > StaleWindow THEN StaleWindow ELSE st.gapsN
  PROVE  /\ IsFiniteSet(Newest) /\ Cardinality(Newest) = n
         /\ \E f \in [Newest -> 0..(n - 1)] :
               /\ \A i, j \in Newest : f[i] = f[j] => i = j
               /\ \A i \in Newest : st.gaps[f[i]] = PauseBefore(i)
  <1>1. PICK N \in Nat : N = st.gapsN
    BY DEF St
  <1>2. PICK e : Numbering(e, st, arrived)
    BY DEF Remembers
  <1>3. Changes = ChangesOf(arrived)
    BY DEF Changes, ChangesOf
  <1>4. /\ e \in [1..N -> Changes] /\ \A p, q \in 1..N : p < q => e[p] < e[q]
        /\ \A i \in Changes : \E p \in 1..N : e[p] = i
        /\ \A p \in 1..N : p + StaleWindow > N =>
              st.gaps[(p - 1) % StaleWindow] = arrived[e[p]].at - arrived[e[p] - 1].at
    BY <1>1, <1>2, <1>3 DEF Numbering
  <1>5. StaleWindow \in Nat /\ StaleWindow > 0
    BY Numbers
  <1>6. \A i \in Changes : i \in Int
    BY DEF Changes
  <1>7. \A p \in 1..N : e[p] \in Changes /\ e[p] \in Int
    BY <1>4, <1>6
  <1>8. \A p, q \in 1..N : e[p] = e[q] => p = q
    <2> SUFFICES ASSUME NEW p \in 1..N, NEW q \in 1..N, e[p] = e[q], p < q \/ q < p PROVE FALSE
      OBVIOUS
    <2>1. e[p] < e[q] \/ e[q] < e[p]
      BY <1>4
    <2> QED
      BY <1>7, <2>1
  <1>9. ASSUME NEW p \in 1..N PROVE Cardinality({j \in Changes : j > e[p]}) = N - p
    <2> DEFINE T == {j \in Changes : j > e[p]}
    <2>1. PICK g : g = [q \in (p + 1)..N |-> e[q]]
      OBVIOUS
    <2>2. \A q \in (p + 1)..N : q \in 1..N /\ p < q
      OBVIOUS
    <2>3. \A q \in (p + 1)..N : g[q] = e[q] /\ e[q] \in T
      BY <1>4, <1>7, <2>1, <2>2
    <2>4. \A j \in T : \E q \in (p + 1)..N : g[q] = j
      <3> TAKE j \in T
      <3>1. PICK q \in 1..N : e[q] = j
        BY <1>4
      <3>2. e[q] > e[p]
        BY <3>1
      <3>3. q = p \/ q < p \/ q \in (p + 1)..N
        OBVIOUS
      <3>4. q < p => e[q] < e[p]
        BY <1>4
      <3>5. q \in (p + 1)..N
        BY <1>7, <3>2, <3>3, <3>4
      <3> QED
        BY <2>3, <3>1, <3>5
    <2>5. \A x, y \in (p + 1)..N : g[x] = g[y] => x = y
      BY <1>8, <2>2, <2>3
    <2>6. g \in Bijection((p + 1)..N, T)
      <3>1. g \in [(p + 1)..N -> T]
        BY <2>1, <2>3
      <3> HIDE DEF T
      <3> QED
        BY <2>4, <2>5, <3>1 DEF Bijection, Injection, IsInjective, Surjection
    <2>7. IsFiniteSet((p + 1)..N) /\ Cardinality((p + 1)..N) = N - p
      BY FS_Interval
    <2> HIDE DEF T
    <2>8. Cardinality(T) = N - p
      BY <2>6, <2>7, FS_Bijection DEF ExistsBijection
    <2> QED
      BY <2>8 DEF T
  <1>10. PICK lo \in Nat : lo = N - n /\ (lo = 0 \/ n = StaleWindow) /\ n <= StaleWindow
    BY <1>1, <1>5
  <1>11. \A p \in 1..N : e[p] \in Newest <=> p > lo
    <2> TAKE p \in 1..N
    <2>1. e[p] \in Newest <=> N - p < StaleWindow
      BY <1>7, <1>9 DEF Newest
    <2> QED
      BY <1>1, <1>5, <1>10, <2>1
  <1>12. Newest \subseteq Changes
    BY DEF Newest
  <1>13. PICK g : g = [p \in (lo + 1)..N |-> e[p]]
    OBVIOUS
  <1>14. \A p \in (lo + 1)..N : p \in 1..N /\ p > lo /\ g[p] = e[p]
    BY <1>13
  <1>15. g \in Bijection((lo + 1)..N, Newest)
    <2>1. g \in [(lo + 1)..N -> Newest]
      BY <1>11, <1>13, <1>14
    <2>2. \A p, q \in (lo + 1)..N : g[p] = g[q] => p = q
      BY <1>8, <1>14
    <2>3. \A i \in Newest : \E p \in (lo + 1)..N : g[p] = i
      <3> TAKE i \in Newest
      <3>1. PICK p \in 1..N : e[p] = i
        BY <1>4, <1>12
      <3>2. p \in (lo + 1)..N
        BY <1>11, <3>1
      <3> QED
        BY <1>14, <3>1, <3>2
    <2> QED
      BY <2>1, <2>2, <2>3 DEF Bijection, Injection, IsInjective, Surjection
  <1>16. IsFiniteSet((lo + 1)..N) /\ Cardinality((lo + 1)..N) = n
    <2>1. lo + 1 \in Int /\ N \in Int /\ (IF lo + 1 > N THEN 0 ELSE N - (lo + 1) + 1) = n
      BY <1>10
    <2> QED
      BY <2>1, FS_Interval
  <1>17. IsFiniteSet(Newest) /\ Cardinality(Newest) = n
    BY <1>15, <1>16, FS_Bijection DEF ExistsBijection
  <1>18. PICK h : h = [i \in Newest |-> CHOOSE p \in (lo + 1)..N : e[p] = i]
    OBVIOUS
  <1>19. \A i \in Newest : h[i] \in (lo + 1)..N /\ e[h[i]] = i
    <2> TAKE i \in Newest
    <2>1. \E p \in (lo + 1)..N : e[p] = i
      BY <1>14, <1>15 DEF Bijection, Surjection
    <2> QED
      BY <1>18, <2>1
  <1>20. PICK f : f = [i \in Newest |-> (h[i] - 1) % StaleWindow]
    OBVIOUS
  <1>21. \A i \in Newest : f[i] \in 0..(n - 1)
    <2> TAKE i \in Newest
    <2>1. PICK c \in Nat : c = h[i] - 1 /\ c < N /\ f[i] = c % StaleWindow
      BY <1>19, <1>20
    <2>2. CASE lo = 0
      <3>1. c < StaleWindow /\ c \in 0..(n - 1)
        BY <1>5, <1>10, <2>1, <2>2
      <3> QED
        BY <1>5, <2>1, <3>1, SmallRemainder
    <2>3. CASE n = StaleWindow
      BY <1>5, <2>1, <2>3, Division
    <2> QED
      BY <1>10, <2>2, <2>3
  <1>22. \A i, j \in Newest : f[i] = f[j] => i = j
    <2> SUFFICES ASSUME NEW i \in Newest, NEW j \in Newest, f[i] = f[j], h[i] <= h[j] PROVE i = j
      BY <1>19
    <2>1. PICK c \in Nat, d \in Nat : c = h[i] - 1 /\ d = h[j] - 1
      BY <1>19
    <2>2. c <= d /\ d - c < StaleWindow
      <3>1. h[i] \in (lo + 1)..N /\ h[j] \in (lo + 1)..N
        BY <1>19
      <3>2. c >= lo /\ d < N /\ c <= d
        BY <2>1, <3>1
      <3>3. N - lo <= StaleWindow
        BY <1>10
      <3> QED
        BY <1>5, <3>2, <3>3
    <2>3. c % StaleWindow = d % StaleWindow
      BY <1>20, <2>1
    <2>4. c = d
      BY <1>5, <2>2, <2>3, Remainders
    <2> QED
      BY <1>19, <2>1, <2>4
  <1>23. \A i \in Newest : st.gaps[f[i]] = PauseBefore(i)
    <2> TAKE i \in Newest
    <2>1. PICK y \in (lo + 1)..N : y = h[i] /\ e[y] = i
      BY <1>19
    <2>2. y \in 1..N /\ y + StaleWindow > N
      <3>1. y > lo /\ lo >= N - StaleWindow
        BY <1>5, <1>10
      <3> QED
        BY <1>5, <3>1
    <2>3. st.gaps[(y - 1) % StaleWindow] = arrived[i].at - arrived[i - 1].at
      BY <1>4, <2>1, <2>2
    <2> QED
      BY <1>20, <2>1, <2>3 DEF PauseBefore
  <1>24. f \in [Newest -> 0..(n - 1)]
    BY <1>20, <1>21
  <1> QED
    BY <1>17, <1>22, <1>23, <1>24

(* At most k of the first n numbers are below g, and more than k not above. *)
Quartile(gaps, n, k, g) ==
    /\ Cardinality({i \in 0..(n - 1) : gaps[i] < g}) <= k
    /\ k < Cardinality({i \in 0..(n - 1) : gaps[i] <= g})

Shorter(gaps, n, F, x) == {i \in 0..(n - 1) : gaps[i] * F < x}

Within(gaps, n, M) == \A i \in 0..(n - 1) : gaps[i] \in 1..M

(* Of finitely many positive numbers there is one with at most k below it   *)
(* and more than k not above it: the least that has more than k not above.  *)
LEMMA QuartileExists ==
  ASSUME NEW gaps, NEW n \in Nat, NEW M \in Nat, Within(gaps, n, M), NEW k \in Nat, k < n
  PROVE  \E g \in {gaps[i] : i \in 0..(n - 1)} : Quartile(gaps, n, k, g)
  <1> DEFINE Upto(v) == {i \in 0..(n - 1) : gaps[i] <= v}
             T == {v \in Nat : Cardinality(Upto(v)) > k}
  <1>0. \A i \in 0..(n - 1) : gaps[i] \in 1..M
    BY DEF Within
  <1>1. IsFiniteSet(0..(n - 1)) /\ Cardinality(0..(n - 1)) = n
    BY FS_Interval
  <1>2. Upto(M) = 0..(n - 1)
    BY <1>0
  <1>3. M \in T
    BY <1>1, <1>2
  <1>4. PICK g \in T : \A v \in T : g <= v
    <2>1. T \in SUBSET Nat /\ T # {}
      BY <1>3
    <2> HIDE DEF T
    <2> QED
      BY <2>1, LeastNumber
  <1>5. g \in Nat /\ Cardinality(Upto(g)) > k
    OBVIOUS
  <1>6. g # 0
    <2>1. CASE g = 0
      <3>1. Upto(g) = {}
        BY <1>0, <2>1
      <3> QED
        BY <1>5, <3>1, FS_EmptySet
    <2> QED
      BY <2>1
  <1>7. g - 1 \in Nat /\ g - 1 \notin T
    BY <1>4, <1>5, <1>6
  <1>8. IsFiniteSet(Upto(g - 1)) /\ Cardinality(Upto(g - 1)) \in Nat
    <2>1. Upto(g - 1) \subseteq 0..(n - 1)
      OBVIOUS
    <2> HIDE DEF Upto
    <2> QED
      BY <1>1, <2>1, FS_Subset, FS_CardinalityType
  <1>9. Cardinality(Upto(g - 1)) <= k
    <2>1. ~ (Cardinality(Upto(g - 1)) > k)
      BY <1>7
    <2> HIDE DEF Upto
    <2> QED
      BY <1>8, <2>1
  <1>10. Upto(g - 1) = {i \in 0..(n - 1) : gaps[i] < g}
    BY <1>0, <1>5
  <1>11. \E i \in 0..(n - 1) : gaps[i] = g
    <2>1. CASE \A i \in 0..(n - 1) : gaps[i] # g
      <3>1. Upto(g) = Upto(g - 1)
        BY <1>0, <1>5, <2>1
      <3>2. Cardinality(Upto(g - 1)) > k
        BY <1>5, <3>1
      <3> HIDE DEF Upto
      <3> QED
        BY <1>8, <1>9, <3>2
    <2> QED
      BY <2>1
  <1>12. g \in {gaps[i] : i \in 0..(n - 1)}
    BY <1>11
  <1> QED
    BY <1>5, <1>9, <1>10, <1>12 DEF Quartile

(* To be longer than F times such a number is to be longer than F times     *)
(* more than k of the numbers.                                              *)
LEMMA QuartileDecides ==
  ASSUME NEW gaps, NEW n \in Nat, NEW M \in Nat, Within(gaps, n, M), NEW k \in Nat,
         NEW g \in Nat, Quartile(gaps, n, k, g), NEW F \in Nat, NEW x \in Int
  PROVE  g * F < x <=> Cardinality(Shorter(gaps, n, F, x)) > k
  <1> DEFINE Below == {i \in 0..(n - 1) : gaps[i] < g}
             Upto == {i \in 0..(n - 1) : gaps[i] <= g}
             Short == Shorter(gaps, n, F, x)
  <1>0. \A i \in 0..(n - 1) : gaps[i] \in Nat
    BY DEF Within
  <1>1. IsFiniteSet(0..(n - 1))
    BY FS_Interval
  <1>2. /\ IsFiniteSet(Below) /\ Cardinality(Below) \in Nat
        /\ IsFiniteSet(Upto) /\ Cardinality(Upto) \in Nat
        /\ IsFiniteSet(Short) /\ Cardinality(Short) \in Nat
    <2>1. Below \subseteq 0..(n - 1) /\ Upto \subseteq 0..(n - 1) /\ Short \subseteq 0..(n - 1)
      BY DEF Shorter
    <2> HIDE DEF Below, Upto, Short
    <2> QED
      BY <1>1, <2>1, FS_Subset, FS_CardinalityType
  <1>3. PICK y \in Int : y = g * F
    OBVIOUS
  <1>4. \A i \in 0..(n - 1) : gaps[i] * F \in Int
    BY <1>0
  <1>5. CASE y < x
    <2>1. Upto \subseteq Short
      <3> SUFFICES ASSUME NEW i \in Upto PROVE gaps[i] * F < x
        BY DEF Shorter
      <3>1. gaps[i] \in Nat /\ gaps[i] <= g
        BY <1>0
      <3>2. gaps[i] * F <= g * F
        BY <3>1, TimesMonotone
      <3>3. PICK z \in Int : z = gaps[i] * F
        BY <1>4
      <3> QED
        BY <1>3, <1>5, <3>2, <3>3
    <2>2. Cardinality(Upto) <= Cardinality(Short)
      <3> HIDE DEF Upto, Short
      <3> QED
        BY <1>2, <2>1, FS_Subset
    <2>3. Cardinality(Upto) > k
      BY DEF Quartile
    <2>4. Cardinality(Short) > k
      <3> HIDE DEF Upto, Short
      <3> QED
        BY <1>2, <2>2, <2>3
    <2> QED
      BY <1>3, <1>5, <2>4
  <1>6. CASE ~(y < x)
    <2>1. Short \subseteq Below
      <3> SUFFICES ASSUME NEW i \in 0..(n - 1), gaps[i] * F < x, ~(gaps[i] < g) PROVE FALSE
        BY DEF Shorter
      <3>1. gaps[i] \in Nat /\ g <= gaps[i]
        BY <1>0
      <3>2. g * F <= gaps[i] * F
        BY <3>1, TimesMonotone
      <3>3. PICK z \in Int : z = gaps[i] * F
        BY <1>4
      <3> QED
        BY <1>3, <1>6, <3>2, <3>3
    <2>2. Cardinality(Short) <= Cardinality(Below)
      <3> HIDE DEF Below, Short
      <3> QED
        BY <1>2, <2>1, FS_Subset
    <2>3. Cardinality(Below) <= k
      BY DEF Quartile
    <2>4. ~ (Cardinality(Short) > k)
      <3> HIDE DEF Below, Short
      <3> QED
        BY <1>2, <2>2, <2>3
    <2> QED
      BY <1>3, <1>6, <2>4
  <1> QED
    BY <1>3, <1>5, <1>6

(* checkStale asks for a silence that is late, as the messages say. *)
LEMMA OverdueIsLate ==
  ASSUME st \in St, arrived \in Seq(Message), now \in Nat, Remembers(st, arrived),
         Len(arrived) > 0, st.lastSeen = arrived[Len(arrived)].at
  PROVE  Overdue(st) <=> Late
  <1>1. PICK n \in Nat : n = IF st.gapsN > StaleWindow THEN StaleWindow ELSE st.gapsN
    BY Numbers DEF St
  <1>2. PICK f \in [Newest -> 0..(n - 1)] :
          /\ \A i, j \in Newest : f[i] = f[j] => i = j
          /\ \A i \in Newest : st.gaps[f[i]] = PauseBefore(i)
    BY <1>1, RingOfTheNewest
  <1>3. IsFiniteSet(Newest) /\ Cardinality(Newest) = n
    BY <1>1, RingOfTheNewest
  <1>4. IsFiniteSet(0..(n - 1)) /\ Cardinality(0..(n - 1)) = n
    <2>1. 0 \in Int /\ n - 1 \in Int /\ (IF 0 > n - 1 THEN 0 ELSE (n - 1) - 0 + 1) = n
      OBVIOUS
    <2> QED
      BY <2>1, FS_Interval
  <1>5. \A i \in Newest : PauseBefore(i) \in 1..MaxTime
    <2> SUFFICES ASSUME NEW i \in Newest PROVE PauseBefore(i) \in 1..MaxTime
      OBVIOUS
    <2>1. i \in 2..Len(arrived) /\ arrived[i].at > arrived[i - 1].at
      BY DEF Newest, Changes
    <2>2. arrived[i] \in Message /\ arrived[i - 1] \in Message
      BY <2>1
    <2>3. arrived[i].at \in Epoch..MaxTime /\ arrived[i - 1].at \in Epoch..MaxTime
      BY <2>2 DEF Message
    <2> QED
      BY <2>1, <2>3, Numbers DEF PauseBefore
  <1>6. ASSUME NEW A \in SUBSET Newest, NEW B \in SUBSET (0..(n - 1)), \A i \in Newest : i \in A <=> f[i] \in B
        PROVE  (\A s \in 0..(n - 1) : \E i \in Newest : f[i] = s) /\ Cardinality(A) = Cardinality(B)
    <2>1. PICK R : R = 0..(n - 1)
      OBVIOUS
    <2>2. Pairs(f, Newest, R, A, B)
      BY <1>2, <1>3, <1>4, <1>6, <2>1 DEF Pairs
    <2>3. (\A s \in R : \E i \in Newest : f[i] = s) /\ Cardinality(A) = Cardinality(B)
      BY <2>2, CountedAlike
    <2> QED
      BY <2>1, <2>3
  <1>7. \A s \in 0..(n - 1) : st.gaps[s] \in 1..MaxTime
    <2>1. \A s \in 0..(n - 1) : \E i \in Newest : f[i] = s
      <3>1. {} \in SUBSET Newest /\ {} \in SUBSET (0..(n - 1)) /\ \A i \in Newest : i \in {} <=> f[i] \in {}
        OBVIOUS
      <3> QED
        BY <1>6, <3>1
    <2> QED
      BY <1>2, <1>5, <2>1
  <1>8. StaleFactor \in Nat \ {0} /\ StaleMinGaps \in Nat /\ StaleMinGaps > 0 /\ StaleAfter \in Nat
    BY ConditionAssumption
  <1>9. st.lastSeen \in Nat /\ st.lastSeen > 0 /\ Silence = now - st.lastSeen /\ Silence \in Int
    <2>1. arrived[Len(arrived)] \in Message
      OBVIOUS
    <2>2. st.lastSeen \in Epoch..MaxTime
      BY <2>1 DEF Message
    <2> QED
      BY <2>2, Numbers DEF Silence, Last
  <1>10. PICK k \in Nat : k = (n * 3) \div 4 /\ (n > 0 => k < n)
    OBVIOUS
  <1>11. PICK T : T = TypicalGap(st)
    OBVIOUS
  <1>12. Cardinality({i \in Newest : PauseBefore(i) * StaleFactor < Silence})
           = Cardinality(Shorter(st.gaps, n, StaleFactor, Silence))
    <2> DEFINE A == {i \in Newest : PauseBefore(i) * StaleFactor < Silence}
               B == Shorter(st.gaps, n, StaleFactor, Silence)
    <2>1. \A i \in Newest : i \in A <=> f[i] \in B
      BY <1>2 DEF Shorter
    <2>2. A \in SUBSET Newest /\ B \in SUBSET (0..(n - 1))
      BY DEF Shorter
    <2> HIDE DEF A, B
    <2>3. Cardinality(A) = Cardinality(B)
      BY <1>6, <2>1, <2>2
    <2> QED
      BY <2>3 DEF A, B
  <1>16. Within(st.gaps, n, MaxTime)
    BY <1>7 DEF Within
  <1>13. CASE ~StaleAuto
    BY <1>8, <1>9, <1>13 DEF Overdue, SilenceLimit, Late
  <1>14. CASE StaleAuto /\ n < StaleMinGaps
    <2>1. T = 0
      BY <1>1, <1>11, <1>14 DEF TypicalGap
    <2>2. T * StaleFactor = 0
      BY <1>8, <2>1
    <2>3. ~Overdue(st)
      BY <1>11, <1>14, <2>2 DEF Overdue
    <2>4. ~Late
      BY <1>3, <1>8, <1>14 DEF Late
    <2> QED
      BY <2>3, <2>4
  <1>15. CASE StaleAuto /\ ~(n < StaleMinGaps)
    <2>1. n > 0 /\ k < n
      BY <1>8, <1>10, <1>15
    <2>2. T = CHOOSE g \in {st.gaps[i] : i \in 0..(n - 1)} : Quartile(st.gaps, n, k, g)
      BY <1>1, <1>10, <1>11, <1>15 DEF TypicalGap, Quartile
    <2>3. \E g \in {st.gaps[i] : i \in 0..(n - 1)} : Quartile(st.gaps, n, k, g)
      BY <1>10, <1>16, <2>1, QuartileExists, Numbers
    <2>4. T \in {st.gaps[i] : i \in 0..(n - 1)} /\ Quartile(st.gaps, n, k, T)
      BY <2>2, <2>3
    <2>5. T \in Nat /\ T > 0
      BY <1>7, <2>4
    <2>6. T * StaleFactor < Silence <=>
            Cardinality(Shorter(st.gaps, n, StaleFactor, Silence)) > k
      BY <1>8, <1>9, <1>10, <1>16, <2>4, <2>5, QuartileDecides, Numbers
    <2>7. PICK y \in Nat : y = T * StaleFactor /\ y > 0
      BY <1>8, <2>5
    <2>8. Overdue(st) <=> Silence > StaleAfter /\ y < Silence
      BY <1>8, <1>9, <1>11, <1>15, <2>7 DEF Overdue, SilenceLimit
    <2>9. Late <=> Silence > StaleAfter /\ Cardinality({i \in Newest : PauseBefore(i) * StaleFactor < Silence}) > k
      BY <1>3, <1>8, <1>10, <1>15 DEF Late
    <2> QED
      BY <1>12, <2>6, <2>7, <2>8, <2>9
  <1> QED
    BY <1>13, <1>14, <1>15
-----------------------------------------------------------------------------
LEMMA BothIs ==
  /\ Both.st = st /\ Both.alert = alert
  /\ Good(Both) => st \in St /\ alert \in Alerts
  BY DEF Both, Good, Pair

LEMMA InitGood == Init => ConditionsInv
  <1> SUFFICES ASSUME Init PROVE ConditionsInv
    OBVIOUS
  <1>1. NewWindow \in [Slots -> Buckets]
    BY DEF NewWindow, Slots, Bucket, Buckets
  <1>2. Nothing \in Preview /\ "none" \in States
    BY DEF Nothing, Preview, States
  <1>3. st \in St
    BY <1>1, <1>2, Numbers DEF Init, NewState, St, Time
  <1>4. alert \in Alerts
    BY <1>2 DEF Init, NoAlert, Alerts
  <1>5. Matches(st, alert)
    BY DEF Init, NewState, Matches
  <1>6. Good(Both)
    BY <1>3, <1>4, <1>5 DEF Good, Both, Pair, Init, NewState
  <1>7. /\ now \in Epoch..MaxTime /\ arrived \in Seq(Message) /\ Len(arrived) = 0
        /\ st.seen = 0 /\ st.gapsN = 0 /\ st.lastSeen = 0 /\ st.lastChange = 0 /\ st.stuck = FALSE
        /\ st.lastEval = 0 /\ arrived = <<>>
    BY Numbers DEF Init, NewState
  <1> QED
    BY <1>6, <1>7, Numbers DEF ConditionsInv, StuckInv, EvalInv, Larger

LEMMA GoodNext ==
  ASSUME NEW e, Good(e), Becomes(e)
  PROVE  Good(Both)'
  <1>1. /\ e.st \in St /\ e.alert \in Alerts /\ Matches(e.st, e.alert)
        /\ e.st.firing => e.st.preview # Nothing
    BY DEF Good, Pair
  <1>2. PICK b : b = [st |-> e.st, alert |-> e.alert]
    OBVIOUS
  <1>3. Both' = b /\ b.st = e.st /\ b.alert = e.alert
    BY <1>2 DEF Both, Becomes
  <1>4. b \in Pair
    BY <1>1, <1>2 DEF Pair
  <1>5. Good(b)
    BY <1>1, <1>3, <1>4 DEF Good
  <1>6. Good(Both') = Good(Both)'
    OBVIOUS
  <1> QED
    BY <1>3, <1>5, <1>6

(* What Observe makes of a state, from its parts. *)
LEMMA ObserveParts ==
  ASSUME ConditionsInv, Observe
  PROVE  \E m \in Message : \E e :
           /\ m.at = now /\ arrived' = Append(arrived, m) /\ Len(arrived) < MaxMessages
           /\ Becomes(e) /\ Good(e) /\ now' = now
           /\ e.st.seen = st.seen + 1 /\ e.st.gapsN <= Larger(0, e.st.seen - 1)
           /\ Motion(e.st) =
                IF UnchangedFor > 0 /\ (st.lastChange = 0 \/ m.value # st.lastValue)
                THEN <<m.value, now, FALSE>> ELSE Motion(st)
           /\ Judged(e.st) =
                IF Expr /\ now - st.lastEval >= EvalEvery THEN <<m.hit, now>> ELSE Judged(st)
           /\ Follows(st, m, e.st)
  <1>1. PICK v \in Values \cup {NoValue}, hit \in BOOLEAN : \E m, e :
          /\ m = [id |-> Len(arrived) + 1, at |-> now, value |-> v, hit |-> hit]
          /\ e = Evaluate(NoteValue(CountInWindow(EndSilence(SeenNow(Both, m)), m), m), m)
          /\ Becomes(e) /\ arrived' = Append(arrived, m)
    BY DEF Observe
  <1>e. PICK m, e :
          /\ m = [id |-> Len(arrived) + 1, at |-> now, value |-> v, hit |-> hit]
          /\ e = Evaluate(NoteValue(CountInWindow(EndSilence(SeenNow(Both, m)), m), m), m)
          /\ Becomes(e) /\ arrived' = Append(arrived, m)
    BY <1>1
  <1>2. m \in Message /\ m.at = now /\ m.id \in Nat /\ m.value \in Values \cup {NoValue} /\ m.hit \in BOOLEAN
    <2>1. Len(arrived) + 1 \in Nat /\ now \in Epoch..MaxTime
      BY DEF ConditionsInv
    <2> QED
      BY <1>e, <2>1 DEF Message
  <1>3. /\ Good(Both) /\ now \in Epoch..MaxTime
        /\ Both.st.gapsN <= Larger(0, Both.st.seen - 1)
        /\ Both.st.lastSeen # 0 => Both.st.seen > 0
    BY BothIs DEF ConditionsInv
  <1>4. PICK a : a = SeenNow(Both, m)
    OBVIOUS
  <1>5. /\ Good(a) /\ a.st.seen = st.seen + 1 /\ a.st.gapsN <= Larger(0, a.st.seen - 1)
        /\ Motion(a.st) = Motion(st) /\ Judged(a.st) = Judged(st)
        /\ Noted(st, now, a.st) /\ a.st.lastSeen = now
        /\ a.st.firstSeen = IF st.firstSeen = 0 THEN now ELSE st.firstSeen
        /\ Windows(a.st) = Windows(st)
    BY <1>3, <1>4, SeenNowGood, BothIs
  <1>6. PICK b : b = EndSilence(a)
    OBVIOUS
  <1>7. /\ Good(b) /\ ~b.st.stale /\ Counters(b.st) = Counters(a.st)
        /\ Motion(b.st) = Motion(st) /\ Judged(b.st) = Judged(st)
        /\ b.st.win = a.st.win /\ b.st.rate = a.st.rate
    BY <1>5, <1>6, EndSilenceGood
  <1>8. PICK c : c = CountInWindow(b, m)
    OBVIOUS
  <1>9. /\ Good(c) /\ ~c.st.stale /\ Counters(c.st) = Counters(a.st)
        /\ Motion(c.st) = Motion(st) /\ Judged(c.st) = Judged(st) /\ c.st.rate = a.st.rate
        /\ c.st.win = IF HasWindow THEN Add(a.st.win, now, IF Above = Off THEN NoValue ELSE m.value) ELSE a.st.win
    BY <1>2, <1>3, <1>7, <1>8, CountInWindowGood
  <1>10. PICK d : d = NoteValue(c, m)
    OBVIOUS
  <1>11. /\ Good(d) /\ ~d.st.stale /\ Counters(d.st) = Counters(a.st)
         /\ Motion(d.st) =
              IF UnchangedFor > 0 /\ (c.st.lastChange = 0 \/ m.value # c.st.lastValue)
              THEN <<m.value, now, FALSE>> ELSE Motion(c.st)
         /\ Judged(d.st) = Judged(st) /\ Windows(d.st) = Windows(c.st)
    BY <1>2, <1>3, <1>9, <1>10, NoteValueGood
  <1>12. e = Evaluate(d, m)
    BY <1>e, <1>4, <1>6, <1>8, <1>10
  <1>13. /\ Good(e) /\ Counters(e.st) = Counters(a.st) /\ Motion(e.st) = Motion(d.st)
         /\ Judged(e.st) =
              IF Expr /\ now - d.st.lastEval >= EvalEvery THEN <<m.hit, now>> ELSE Judged(d.st)
         /\ Windows(e.st) = Windows(d.st)
    BY <1>2, <1>3, <1>11, <1>12, EvaluateGood
  <1>14. c.st.lastChange = st.lastChange /\ c.st.lastValue = st.lastValue
    BY <1>9 DEF Motion
  <1>15. d.st.lastEval = st.lastEval
    BY <1>11 DEF Judged
  <1>16. e.st.seen = a.st.seen /\ e.st.gapsN = a.st.gapsN
    BY <1>13 DEF Counters
  <1>17. Len(arrived) < MaxMessages /\ now' = now
    BY DEF Observe
  <1>18. Motion(e.st) =
           IF UnchangedFor > 0 /\ (st.lastChange = 0 \/ m.value # st.lastValue)
           THEN <<m.value, now, FALSE>> ELSE Motion(st)
    BY <1>9, <1>11, <1>13, <1>14
  <1>19. Judged(e.st) =
           IF Expr /\ now - st.lastEval >= EvalEvery THEN <<m.hit, now>> ELSE Judged(st)
    BY <1>11, <1>13, <1>15
  <1>20. Follows(st, m, e.st)
    <2>1. e.st.gaps = a.st.gaps /\ e.st.gapsN = a.st.gapsN /\ e.st.lastSeen = now
          /\ e.st.firstSeen = IF st.firstSeen = 0 THEN now ELSE st.firstSeen
      BY <1>5, <1>13 DEF Counters
    <2>2. Noted(st, m.at, e.st)
      BY <1>2, <1>5, <2>1 DEF Noted
    <2>3. a.st.win = st.win /\ a.st.rate = st.rate
      BY <1>5 DEF Windows
    <2>4. e.st.win = c.st.win /\ e.st.rate = c.st.rate /\ e.st.stale = d.st.stale
      BY <1>11, <1>13 DEF Windows
    <2>5. ~e.st.stale /\ e.st.rate = st.rate
      BY <1>9, <1>11, <2>3, <2>4
    <2>6. IF HasWindow THEN \E v1 : e.st.win = Add(st.win, m.at, v1) ELSE e.st.win = st.win
      BY <1>2, <1>9, <2>3, <2>4
    <2> QED
      BY <1>2, <2>1, <2>2, <2>5, <2>6 DEF Follows
  <1> QED
    BY <1>e, <1>2, <1>5, <1>13, <1>16, <1>17, <1>18, <1>19, <1>20

LEMMA ObserveGood ==
  ASSUME ConditionsInv, Observe
  PROVE  /\ ConditionsInv'
         /\ Expr => LET m == arrived'[Len(arrived')] IN
              (\A i \in 1..Len(arrived) : arrived[i].at > now - EvalEvery => arrived[i].hit = m.hit)
                => st'.firing = m.hit
         /\ \E m \in Message :
              m.at = now /\ arrived' = Append(arrived, m) /\ now' = now /\ Follows(st, m, st')
  <1>1. PICK m \in Message : \E e :
           /\ m.at = now /\ arrived' = Append(arrived, m) /\ Len(arrived) < MaxMessages
           /\ Becomes(e) /\ Good(e) /\ now' = now
           /\ e.st.seen = st.seen + 1 /\ e.st.gapsN <= Larger(0, e.st.seen - 1)
           /\ Motion(e.st) =
                IF UnchangedFor > 0 /\ (st.lastChange = 0 \/ m.value # st.lastValue)
                THEN <<m.value, now, FALSE>> ELSE Motion(st)
           /\ Judged(e.st) =
                IF Expr /\ now - st.lastEval >= EvalEvery THEN <<m.hit, now>> ELSE Judged(st)
           /\ Follows(st, m, e.st)
    BY ObserveParts
  <1>e. PICK e :
           /\ m.at = now /\ arrived' = Append(arrived, m) /\ Len(arrived) < MaxMessages
           /\ Becomes(e) /\ Good(e) /\ now' = now
           /\ e.st.seen = st.seen + 1 /\ e.st.gapsN <= Larger(0, e.st.seen - 1)
           /\ Motion(e.st) =
                IF UnchangedFor > 0 /\ (st.lastChange = 0 \/ m.value # st.lastValue)
                THEN <<m.value, now, FALSE>> ELSE Motion(st)
           /\ Judged(e.st) =
                IF Expr /\ now - st.lastEval >= EvalEvery THEN <<m.hit, now>> ELSE Judged(st)
           /\ Follows(st, m, e.st)
    BY <1>1
  <1>2. arrived \in Seq(Message) /\ Len(arrived) \in Nat /\ now \in Epoch..MaxTime /\ now \in Nat
    BY Numbers DEF ConditionsInv
  <1>3. /\ arrived' \in Seq(Message) /\ Len(arrived') = Len(arrived) + 1
        /\ arrived'[Len(arrived) + 1] = m
        /\ \A i \in 1..Len(arrived) : arrived'[i] = arrived[i]
    BY <1>e, <1>2
  <1>4. Good(Both)' /\ st' = e.st /\ st' \in St
    BY <1>e, GoodNext DEF Becomes, Good, Pair
  <1>5. /\ now' \in Epoch..MaxTime /\ Len(arrived') <= MaxMessages
        /\ st'.seen = Len(arrived') /\ st'.gapsN <= Larger(0, st'.seen - 1) /\ st'.seen > 0
    <2>1. st.seen = Len(arrived)
      BY DEF ConditionsInv
    <2> QED
      BY <1>e, <1>2, <1>3, <1>4, <2>1, Numbers
  <1>6. st \in St
    BY BothIs DEF ConditionsInv
  <1>f. \E n \in Message :
          n.at = now /\ arrived' = Append(arrived, n) /\ now' = now /\ Follows(st, n, st')
    BY <1>e, <1>4
  <1>7. StuckInv'
    <2>0. /\ Len(arrived') > 0 /\ now' = now /\ now \in Nat /\ now # 0
          /\ m.at = now /\ arrived'[Len(arrived')] = m
      BY <1>e, <1>2, <1>3, Numbers
    <2>1. CASE UnchangedFor > 0 /\ (st.lastChange = 0 \/ m.value # st.lastValue)
      <3>1. st'.lastValue = m.value /\ st'.lastChange = now /\ st'.stuck = FALSE
        BY <1>e, <1>4, <2>1 DEF Motion
      <3>2. \E i \in 1..Len(arrived') : RunFrom(st', arrived', i)
        <4>1. \A j \in (Len(arrived) + 1)..Len(arrived') :
                arrived'[j].value = st'.lastValue /\ arrived'[j].at >= st'.lastChange
          BY <1>2, <1>3, <2>0, <3>1
        <4>2. Len(arrived) + 1 \in 1..Len(arrived') /\ arrived'[Len(arrived) + 1].at = st'.lastChange
          BY <1>2, <1>3, <2>0, <3>1
        <4>3. ASSUME Len(arrived) + 1 > 1 PROVE arrived'[Len(arrived)].value # st'.lastValue
          <5>1. Len(arrived) \in 1..Len(arrived) /\ Len(arrived) > 0
            BY <1>2, <4>3
          <5>2. st.lastChange # 0
            BY <2>1, <5>1 DEF ConditionsInv, StuckInv
          <5>3. arrived[Len(arrived)].value = st.lastValue
            <6>1. PICK i \in 1..Len(arrived) : RunFrom(st, arrived, i)
              BY <5>2 DEF ConditionsInv, StuckInv
            <6>2. Len(arrived) \in i..Len(arrived)
              BY <1>2
            <6> QED
              BY <6>1, <6>2 DEF RunFrom
          <5> QED
            BY <1>3, <2>1, <3>1, <5>1, <5>2, <5>3
        <4>4. Len(arrived) + 1 - 1 = Len(arrived)
          BY <1>2
        <4> QED
          BY <4>1, <4>2, <4>3, <4>4 DEF RunFrom
      <3> QED
        BY <2>0, <2>1, <3>1, <3>2, Numbers DEF StuckInv
    <2>2. CASE ~(UnchangedFor > 0 /\ (st.lastChange = 0 \/ m.value # st.lastValue))
      <3>1. st'.lastValue = st.lastValue /\ st'.lastChange = st.lastChange /\ st'.stuck = st.stuck
        BY <1>e, <1>4, <2>2 DEF Motion
      <3>0. st.lastChange <= now
        BY DEF ConditionsInv, StuckInv
      <3>2. ASSUME st.lastChange # 0
            PROVE  \E i \in 1..Len(arrived') : RunFrom(st', arrived', i)
        <4>1. m.value = st.lastValue
          BY <2>2, <3>2, Numbers DEF ConditionsInv, StuckInv
        <4>2. PICK i \in 1..Len(arrived) : RunFrom(st, arrived, i)
          BY <3>2 DEF ConditionsInv, StuckInv
        <4>3. \A j \in i..Len(arrived') :
                arrived'[j].value = st'.lastValue /\ arrived'[j].at >= st'.lastChange
          <5> TAKE j \in i..Len(arrived')
          <5>1. j \in i..Len(arrived) \/ j = Len(arrived) + 1
            BY <1>2, <1>3
          <5>2. j \in i..Len(arrived) => j \in 1..Len(arrived)
            BY <1>2
          <5>3. CASE j \in i..Len(arrived)
            BY <1>3, <3>1, <4>2, <5>2, <5>3 DEF RunFrom
          <5>4. CASE j = Len(arrived) + 1
            BY <1>3, <2>0, <3>0, <3>1, <4>1, <5>4
          <5> QED
            BY <5>1, <5>3, <5>4
        <4>4. i \in 1..Len(arrived') /\ arrived'[i].at = st'.lastChange
          BY <1>2, <1>3, <3>1, <4>2 DEF RunFrom
        <4>5. ASSUME i > 1 PROVE arrived'[i - 1].value # st'.lastValue
          <5>1. i - 1 \in 1..Len(arrived)
            BY <1>2, <4>5
          <5> QED
            BY <1>3, <3>1, <4>2, <4>5, <5>1 DEF RunFrom
        <4> QED
          BY <4>3, <4>4, <4>5 DEF RunFrom
      <3>3. UnchangedFor = 0 => st'.lastChange = 0
        BY <3>1 DEF ConditionsInv, StuckInv
      <3>4. st'.stuck => st'.lastChange # 0 /\ now' - st'.lastChange > UnchangedFor /\ Len(arrived') >= 2
        BY <1>2, <1>3, <2>0, <3>1 DEF ConditionsInv, StuckInv
      <3>5. UnchangedFor > 0 => st'.lastChange # 0
        BY <2>2, <3>1
      <3>6. st'.lastChange <= now'
        BY <2>0, <3>0, <3>1
      <3> QED
        BY <3>1, <3>2, <3>3, <3>4, <3>5, <3>6 DEF StuckInv
    <2> QED
      BY <2>1, <2>2
  <1>8. CASE ~Expr
    <2>1. EvalInv'
      BY <1>8 DEF EvalInv
    <2> QED
      BY <1>f, <1>3, <1>4, <1>5, <1>7, <1>8, <2>1 DEF ConditionsInv
  <1>9. CASE Expr /\ now - st.lastEval >= EvalEvery
    <2>1. st'.firing = m.hit /\ st'.lastEval = now
      BY <1>e, <1>4, <1>9 DEF Judged
    <2>2. EvalInv'
      <3>1. Len(arrived) + 1 \in 1..Len(arrived')
        BY <1>2, <1>3
      <3>2. arrived'[Len(arrived) + 1].at = st'.lastEval /\ arrived'[Len(arrived) + 1].hit = st'.firing
        BY <1>e, <1>3, <2>1
      <3> QED
        BY <3>1, <3>2 DEF EvalInv
    <2> QED
      BY <1>f, <1>3, <1>4, <1>5, <1>7, <2>1, <2>2 DEF ConditionsInv
  <1>10. CASE Expr /\ ~(now - st.lastEval >= EvalEvery)
    <2>1. st'.firing = st.firing /\ st'.lastEval = st.lastEval
      BY <1>e, <1>4, <1>10 DEF Judged
    <2>2. st.lastEval # 0
      BY <1>2, <1>10, Numbers
    <2>3. PICK i \in 1..Len(arrived) : arrived[i].at = st.lastEval /\ arrived[i].hit = st.firing
      BY <1>10, <2>2 DEF ConditionsInv, EvalInv
    <2>4. EvalInv'
      <3>1. i \in 1..Len(arrived')
        BY <1>2, <1>3
      <3>2. arrived'[i].at = st'.lastEval /\ arrived'[i].hit = st'.firing
        BY <1>3, <2>1, <2>3
      <3> QED
        BY <3>1, <3>2 DEF EvalInv
    <2>5. arrived[i].at > now - EvalEvery
      <3>1. st.lastEval \in Int
        BY <1>6, Numbers DEF St, Time
      <3> QED
        BY <1>2, <1>10, <2>3, <3>1, Numbers
    <2>6. arrived'[Len(arrived')] = m
      BY <1>3
    <2>7. (\A k \in 1..Len(arrived) : arrived[k].at > now - EvalEvery => arrived[k].hit = m.hit)
            => st'.firing = m.hit
      BY <2>1, <2>3, <2>5
    <2> QED
      BY <1>f, <1>3, <1>4, <1>5, <1>7, <2>4, <2>6, <2>7 DEF ConditionsInv
  <1> QED
    BY <1>8, <1>9, <1>10

(* What checkStuck goes by is what the messages say. *)
LEMMA LongUnchanged ==
  ASSUME ConditionsInv
  PROVE  (\/ st.stuck
          \/ /\ UnchangedFor > 0 /\ st.seen >= 2 /\ st.lastChange # 0
             /\ now - st.lastChange > UnchangedFor) <=> Unchanged
  <1>1. /\ arrived \in Seq(Message) /\ Len(arrived) \in Nat /\ st.seen = Len(arrived)
        /\ now \in Nat /\ UnchangedFor \in Nat /\ st.lastChange \in Nat
    <2>1. st \in St /\ now \in Epoch..MaxTime
      BY BothIs DEF ConditionsInv
    <2> QED
      BY <2>1, Numbers DEF ConditionsInv, St, Time
  <1>2. \A k \in 1..Len(arrived) : arrived[k].at \in Nat
    <2> TAKE k \in 1..Len(arrived)
    <2>1. arrived[k] \in Message
      BY <1>1
    <2> QED
      BY <2>1, Numbers DEF Message
  <1>3. ASSUME \/ st.stuck
               \/ /\ UnchangedFor > 0 /\ st.seen >= 2 /\ st.lastChange # 0
                  /\ now - st.lastChange > UnchangedFor
        PROVE  Unchanged
    <2>1. /\ UnchangedFor > 0 /\ Len(arrived) >= 2 /\ st.lastChange # 0
          /\ now - st.lastChange > UnchangedFor
      BY <1>1, <1>3 DEF ConditionsInv, StuckInv
    <2>2. PICK i \in 1..Len(arrived) : RunFrom(st, arrived, i)
      BY <2>1 DEF ConditionsInv, StuckInv
    <2>3. i \in i..Len(arrived)
      BY <1>1
    <2>4. now - arrived[i].at > UnchangedFor
      BY <2>1, <2>2 DEF RunFrom
    <2>5. \A j \in i..Len(arrived) : arrived[j].value = arrived[i].value
      BY <2>2, <2>3 DEF RunFrom
    <2> QED
      BY <2>1, <2>4, <2>5 DEF Unchanged
  <1>4. ASSUME Unchanged
        PROVE  /\ UnchangedFor > 0 /\ st.seen >= 2 /\ st.lastChange # 0
               /\ now - st.lastChange > UnchangedFor
    <2>1. UnchangedFor > 0 /\ Len(arrived) >= 2
      BY <1>4 DEF Unchanged
    <2>2. PICK i \in 1..Len(arrived) :
            /\ now - arrived[i].at > UnchangedFor
            /\ \A j \in i..Len(arrived) : arrived[j].value = arrived[i].value
      BY <1>4 DEF Unchanged
    <2>3. st.lastChange # 0
      BY <1>1, <2>1 DEF ConditionsInv, StuckInv
    <2>4. PICK k \in 1..Len(arrived) : RunFrom(st, arrived, k)
      BY <2>3 DEF ConditionsInv, StuckInv
    <2>5. k <= i
      <3> SUFFICES ASSUME i < k PROVE FALSE
        BY <1>1
      <3>1. k > 1 /\ k - 1 \in i..Len(arrived) /\ k \in i..Len(arrived) /\ k \in k..Len(arrived)
        BY <1>1
      <3>2. arrived[k - 1].value = arrived[k].value
        BY <2>2, <3>1
      <3> QED
        BY <2>4, <3>1, <3>2 DEF RunFrom
    <2>6. i \in k..Len(arrived)
      BY <1>1, <2>5
    <2>7. arrived[i].at >= st.lastChange
      BY <2>4, <2>6 DEF RunFrom
    <2>8. now - st.lastChange > UnchangedFor
      BY <1>1, <1>2, <2>2, <2>7
    <2> QED
      BY <1>1, <2>1, <2>3, <2>8
  <1> QED
    BY <1>3, <1>4

LEMMA TickGood ==
  ASSUME ConditionsInv, Tick
  PROVE  ConditionsInv' /\ Reports(st, st') /\ (st'.stuck <=> Unchanged)
  <1>1. PICK a : a = CheckStale(Both)
    OBVIOUS
  <1>2. PICK b : b = CheckWindow(a)
    OBVIOUS
  <1>3. PICK e : e = CheckStuck(b)
    OBVIOUS
  <1>4. Good(Both) /\ now \in Epoch..MaxTime
    BY DEF ConditionsInv
  <1>5. /\ Good(a) /\ Counters(a.st) = Counters(st)
        /\ Motion(a.st) = Motion(st) /\ Judged(a.st) = Judged(st)
        /\ a.st.win = st.win /\ a.st.rate = st.rate
        /\ a.st.stale <=> st.stale \/ Overdue(st)
    BY <1>1, <1>4, CheckStaleGood, BothIs
  <1>6. /\ Good(b) /\ Counters(b.st) = Counters(st)
        /\ Motion(b.st) = Motion(st) /\ Judged(b.st) = Judged(st)
        /\ b.st.win = a.st.win /\ b.st.stale = a.st.stale
        /\ b.st.rate = IF MinCount = Off /\ MaxCount = Off THEN a.st.rate
                       ELSE RateHit(a.st, Totals(a.st.win, now).count)
    BY <1>2, <1>5, CheckWindowGood
  <1>7. b.st.lastValue = st.lastValue /\ b.st.lastChange = st.lastChange /\ b.st.stuck = st.stuck
    BY <1>6 DEF Motion
  <1>8. /\ Good(e) /\ Counters(e.st) = Counters(st) /\ Judged(e.st) = Judged(st)
        /\ e.st.lastValue = st.lastValue /\ e.st.lastChange = st.lastChange
        /\ e.st.stuck <=> \/ st.stuck
                          \/ /\ UnchangedFor > 0 /\ st.seen >= 2 /\ st.lastChange # 0
                             /\ now - st.lastChange > UnchangedFor
        /\ Windows(e.st) = Windows(b.st)
    <2>1. b.st.seen = st.seen
      BY <1>6 DEF Counters
    <2> QED
      BY <1>3, <1>4, <1>6, <1>7, <2>1, CheckStuckGood
  <1>9. Becomes(e) /\ now' = now /\ arrived' = arrived
    BY <1>1, <1>2, <1>3 DEF Tick
  <1>10. Good(Both)' /\ st' = e.st
    BY <1>8, <1>9, GoodNext DEF Becomes
  <1>11. st'.seen = st.seen /\ st'.gapsN = st.gapsN /\ st'.lastSeen = st.lastSeen
    BY <1>8, <1>10 DEF Counters
  <1>12. StuckInv'
    <2>1. st'.lastChange = st.lastChange /\ st'.lastValue = st.lastValue
      BY <1>8, <1>10
    <2>2. \A i : RunFrom(st, arrived, i) => RunFrom(st', arrived', i)
      BY <1>9, <2>1 DEF RunFrom
    <2>3. st'.stuck => st'.lastChange # 0 /\ now' - st'.lastChange > UnchangedFor /\ Len(arrived') >= 2
      BY <1>8, <1>9, <1>10, <2>1 DEF ConditionsInv, StuckInv
    <2>4. st'.lastChange # 0 => \E i \in 1..Len(arrived') : RunFrom(st', arrived', i)
      BY <1>9, <2>1, <2>2 DEF ConditionsInv, StuckInv
    <2>5. /\ st'.lastChange <= now'
          /\ UnchangedFor = 0 => st'.lastChange = 0
          /\ UnchangedFor > 0 /\ Len(arrived') > 0 => st'.lastChange # 0
      BY <1>9, <2>1 DEF ConditionsInv, StuckInv
    <2> QED
      BY <2>3, <2>4, <2>5 DEF StuckInv
  <1>13. st'.firing = st.firing /\ st'.lastEval = st.lastEval
    BY <1>8, <1>10 DEF Judged
  <1>14. EvalInv'
    BY <1>9, <1>13 DEF ConditionsInv, EvalInv
  <1>15. Reports(st, st')
    <2>1. a.st.firstSeen = st.firstSeen
      BY <1>5 DEF Counters
    <2>2. RateHit(a.st, Totals(a.st.win, now).count) = RateHit(st, Totals(st.win, now).count)
      BY <1>5, <2>1 DEF RateHit
    <2>3. st'.win = st.win /\ st'.rate = b.st.rate /\ (st'.stale <=> st.stale \/ Overdue(st))
      BY <1>5, <1>6, <1>8, <1>10 DEF Windows
    <2>4. Counters(st') = Counters(st)
      BY <1>8, <1>10
    <2> QED
      BY <1>5, <1>6, <2>2, <2>3, <2>4 DEF Reports
  <1>16. st'.stuck <=> Unchanged
    BY <1>8, <1>10, LongUnchanged
  <1> QED
    BY <1>9, <1>10, <1>11, <1>12, <1>14, <1>15, <1>16 DEF ConditionsInv

LEMMA AckGood ==
  ASSUME ConditionsInv, Ack
  PROVE  ConditionsInv'
  <1>1. PICK acked \in BOOLEAN : alert' = [alert EXCEPT !.acked = acked]
    BY DEF Ack
  <1>2. st \in St /\ alert \in Alerts /\ Matches(st, alert)
    BY BothIs DEF ConditionsInv, Good
  <1>3. alert' \in Alerts /\ alert'.state = alert.state /\ alert'.preview = alert.preview
    BY <1>1, <1>2 DEF Alerts
  <1>4. alert # NoAlert
    BY DEF Ack
  <1>5. alert.state # "none"
    BY <1>2, <1>4 DEF Matches, Holds
  <1>6. alert' # NoAlert
    BY <1>3, <1>5 DEF NoAlert
  <1>7. Matches(st, alert')
    BY <1>2, <1>3, <1>4, <1>6 DEF Matches
  <1>8. /\ st' = st /\ now' = now /\ arrived' = arrived
    BY DEF Ack
  <1>9. PICK e : e = [st |-> st, alert |-> alert']
    OBVIOUS
  <1>10. e \in Pair /\ e.st = st /\ e.alert = alert'
    BY <1>2, <1>3, <1>9 DEF Pair
  <1>11. st.firing => st.preview # Nothing
    BY BothIs DEF ConditionsInv, Good
  <1>12. Good(e) /\ Becomes(e)
    BY <1>7, <1>8, <1>10, <1>11 DEF Good, Becomes
  <1>13. Good(Both)'
    BY <1>12, GoodNext
  <1>14. StuckInv' /\ EvalInv'
    BY <1>8 DEF ConditionsInv, StuckInv, EvalInv, RunFrom
  <1> QED
    BY <1>8, <1>13, <1>14 DEF ConditionsInv

LEMMA PassGood ==
  ASSUME ConditionsInv, Pass
  PROVE  ConditionsInv'
  <1>1. st' = st /\ alert' = alert /\ arrived' = arrived /\ now' = now + 1 /\ now < MaxTime
    BY DEF Pass
  <1>2. now \in Epoch..MaxTime /\ now \in Nat
    BY Numbers DEF ConditionsInv
  <1>3. now' \in Epoch..MaxTime
    BY <1>1, <1>2, Numbers
  <1>4. Good(Both)'
    BY <1>1 DEF ConditionsInv, Both
  <1>5. StuckInv'
    <2>1. st.lastChange \in Nat
      <3>1. st \in St
        BY BothIs DEF ConditionsInv
      <3> QED
        BY <3>1, Numbers DEF St, Time
    <2>2. /\ st.stuck => st.lastChange # 0 /\ now + 1 - st.lastChange > UnchangedFor /\ Len(arrived) >= 2
          /\ st.lastChange <= now + 1
      BY <1>2, <2>1, Numbers DEF ConditionsInv, StuckInv
    <2>3. ASSUME st'.stuck
          PROVE  st'.lastChange # 0 /\ now' - st'.lastChange > UnchangedFor /\ Len(arrived') >= 2
      <3>1. st.stuck
        BY <1>1, <2>3
      <3> QED
        BY <1>1, <1>2, <2>1, <2>2, <3>1
    <2>4. /\ UnchangedFor = 0 => st'.lastChange = 0
          /\ UnchangedFor > 0 /\ Len(arrived') > 0 => st'.lastChange # 0
          /\ st'.lastChange # 0 => \E i \in 1..Len(arrived') : RunFrom(st', arrived', i)
      BY <1>1 DEF ConditionsInv, StuckInv, RunFrom
    <2>5. st'.lastChange <= now'
      BY <1>1, <2>2
    <2> QED
      BY <2>3, <2>4, <2>5 DEF StuckInv
  <1>6. EvalInv'
    BY <1>1 DEF ConditionsInv, EvalInv
  <1> QED
    BY <1>1, <1>3, <1>4, <1>5, <1>6 DEF ConditionsInv

LEMMA ConditionsNext == ConditionsInv /\ [Next]_vars => ConditionsInv'
  <1> SUFFICES ASSUME ConditionsInv, [Next]_vars PROVE ConditionsInv'
    OBVIOUS
  <1>1. CASE Observe
    BY <1>1, ObserveGood
  <1>2. CASE Tick
    BY <1>2, TickGood
  <1>3. CASE Ack
    BY <1>3, AckGood
  <1>4. CASE Pass
    BY <1>4, PassGood
  <1>5. CASE UNCHANGED vars
    BY <1>5 DEF vars, ConditionsInv, Both, StuckInv, EvalInv, RunFrom
  <1> QED
    BY <1>1, <1>2, <1>3, <1>4, <1>5 DEF Next

LEMMA ConditionsInvariant == Spec => []ConditionsInv
  BY InitGood, ConditionsNext, PTL DEF Spec

-----------------------------------------------------------------------------
(* What the windows stand on: the counters of the state are about the       *)
(* messages that arrived, the window has counted them, the ring has their   *)
(* newest pauses, and a subject is called silent only while it is late.     *)
TrafficInv ==
    /\ \A k \in 1..Len(arrived) : arrived[k].at <= now
    /\ Len(arrived) = 0 => st.lastSeen = 0 /\ st.firstSeen = 0
    /\ Len(arrived) > 0 => st.lastSeen = arrived[Len(arrived)].at /\ st.firstSeen = arrived[1].at
    /\ HasWindow => Filled(st.win, arrived, now)
    /\ MinCount = Off /\ MaxCount = Off => ~st.rate
    /\ Remembers(st, arrived)
    /\ st.stale => Len(arrived) > 0 /\ Late

LEMMA Arrivals ==
  ASSUME ConditionsInv
  PROVE  /\ st \in St /\ arrived \in Seq(Message) /\ Len(arrived) \in Nat /\ st.seen = Len(arrived)
         /\ st.win \in [Slots -> Buckets] /\ now \in Nat /\ now \in Epoch..MaxTime /\ now >= WindowMs
         /\ \A k \in 1..Len(arrived) : arrived[k].at \in Epoch..MaxTime /\ arrived[k].at \in Nat
  <1>1. st \in St /\ arrived \in Seq(Message) /\ st.seen = Len(arrived) /\ now \in Epoch..MaxTime
    BY BothIs DEF ConditionsInv
  <1>2. st.win \in [Slots -> Buckets]
    BY <1>1 DEF St
  <1>3. Epoch > WindowMs /\ WindowMs \in Nat
    BY ConditionAssumption, WindowAssumption
  <1>4. ASSUME NEW k \in 1..Len(arrived)
        PROVE  arrived[k].at \in Epoch..MaxTime
    <2>1. arrived[k] \in Message
      BY <1>1, <1>4
    <2> QED
      BY <2>1 DEF Message
  <1> QED
    BY <1>1, <1>2, <1>3, <1>4, Numbers

(* Remembers is about the ring of a state alone. *)
LEMMA SameCounters ==
  ASSUME NEW s, NEW r, NEW a, s.gaps = r.gaps, s.gapsN = r.gapsN, Remembers(s, a)
  PROVE  Remembers(r, a)
  <1>1. PICK e : Numbering(e, s, a)
    BY DEF Remembers
  <1>2. Numbering(e, r, a)
    BY <1>1 DEF Numbering
  <1> QED
    BY <1>2 DEF Remembers

LEMMA InitTraffic == Init => TrafficInv
  <1> SUFFICES ASSUME Init PROVE TrafficInv
    OBVIOUS
  <1>1. /\ arrived = <<>> /\ Len(arrived) = 0 /\ st.lastSeen = 0 /\ st.firstSeen = 0 /\ st.gapsN = 0
        /\ ~st.stale /\ ~st.rate /\ st.win = NewWindow
    BY DEF Init, NewState
  <1>2. \A b \in Slots : st.win[b].count = 0
    BY <1>1 DEF NewWindow, Slots, Bucket
  <1>3. Filled(st.win, arrived, now)
    BY <1>1, <1>2 DEF Filled
  <1>4. ChangesOf(arrived) = {}
    BY <1>1 DEF ChangesOf
  <1>5. 1..st.gapsN = {}
    BY <1>1
  <1>6. PICK e : e = [p \in 1..st.gapsN |-> p]
    OBVIOUS
  <1>7. Numbering(e, st, arrived)
    BY <1>4, <1>5, <1>6 DEF Numbering
  <1> QED
    BY <1>1, <1>3, <1>7 DEF TrafficInv, Remembers

LEMMA ObserveTraffic ==
  ASSUME ConditionsInv, TrafficInv, Observe
  PROVE  TrafficInv'
  <1>1. PICK m \in Message :
          m.at = now /\ arrived' = Append(arrived, m) /\ now' = now /\ Follows(st, m, st')
    BY ObserveGood
  <1>2. st' \in St
    <2>1. ConditionsInv'
      BY ObserveGood
    <2> QED
      BY <2>1 DEF ConditionsInv, Good, Both, Pair
  <1>3. /\ arrived' \in Seq(Message) /\ Len(arrived') = Len(arrived) + 1 /\ Len(arrived) \in Nat
        /\ arrived'[Len(arrived) + 1] = m
        /\ \A k \in 1..Len(arrived) : arrived'[k] = arrived[k]
    BY <1>1, Arrivals
  <1>4. \A k \in 1..Len(arrived') : arrived'[k].at <= now'
    <2> TAKE k \in 1..Len(arrived')
    <2>1. k \in 1..Len(arrived) \/ k = Len(arrived) + 1
      BY <1>3
    <2>2. CASE k \in 1..Len(arrived)
      BY <1>1, <1>3, <2>2 DEF TrafficInv
    <2>3. CASE k = Len(arrived) + 1
      BY <1>1, <1>3, <2>3, Arrivals
    <2> QED
      BY <2>1, <2>2, <2>3
  <1>5. st'.lastSeen = arrived'[Len(arrived')].at
    BY <1>1, <1>3 DEF Follows
  <1>6. st'.firstSeen = arrived'[1].at
    <2>1. CASE Len(arrived) = 0
      <3>1. st.firstSeen = 0 /\ arrived'[1] = m
        BY <1>3, <2>1 DEF TrafficInv
      <3> QED
        BY <1>1, <3>1 DEF Follows
    <2>2. CASE Len(arrived) > 0
      <3>1. 1 \in 1..Len(arrived)
        BY <1>3, <2>2
      <3>2. st.firstSeen = arrived[1].at /\ arrived[1].at \in Epoch..MaxTime
        BY <2>2, <3>1, Arrivals DEF TrafficInv
      <3>3. st.firstSeen # 0
        BY <3>2, Numbers
      <3> QED
        BY <1>1, <1>3, <3>1, <3>2, <3>3 DEF Follows
    <2> QED
      BY <1>3, <2>1, <2>2
  <1>7. HasWindow => Filled(st'.win, arrived', now')
    <2> SUFFICES ASSUME HasWindow PROVE Filled(st'.win, arrived', now')
      OBVIOUS
    <2>1. PICK v : st'.win = Add(st.win, now, v)
      BY <1>1 DEF Follows
    <2>2. \A k \in 1..Len(arrived) : arrived[k].at \in 0..now
      BY Arrivals DEF TrafficInv
    <2>3. Filled(st.win, arrived, now)
      BY DEF TrafficInv
    <2>4. Filled(Add(st.win, now, v), Append(arrived, m), now)
      BY <1>1, <2>2, <2>3, AddKeepsFilled, Arrivals
    <2> QED
      BY <1>1, <2>1, <2>4
  <1>8. MinCount = Off /\ MaxCount = Off => ~st'.rate
    BY <1>1 DEF Follows, TrafficInv
  <1>9. Remembers(st', arrived')
    <2>1. st.lastSeen = IF Len(arrived) = 0 THEN 0 ELSE arrived[Len(arrived)].at
      BY <1>3 DEF TrafficInv
    <2>2. Remembers(st, arrived) /\ Noted(st, m.at, st')
      BY <1>1 DEF TrafficInv, Follows
    <2>3. Remembers(st', Append(arrived, m))
      BY <1>2, <2>1, <2>2, NotedRemembers, Arrivals
    <2> QED
      BY <1>1, <2>3
  <1>10. ~st'.stale
    BY <1>1 DEF Follows
  <1> QED
    BY <1>3, <1>4, <1>5, <1>6, <1>7, <1>8, <1>9, <1>10 DEF TrafficInv

(* Whether a subject is late is what checkStale finds out. *)
LEMMA TickTraffic ==
  ASSUME ConditionsInv, TrafficInv, Tick
  PROVE  TrafficInv' /\ (st'.stale <=> Late)
  <1>1. Reports(st, st') /\ now' = now /\ arrived' = arrived /\ st.seen > 0
    BY TickGood DEF Tick
  <1>2. Len(arrived) > 0
    BY <1>1, Arrivals
  <1>3. Overdue(st) <=> Late
    BY <1>2, OverdueIsLate, Arrivals DEF TrafficInv
  <1>4. st'.stale <=> Late
    BY <1>1, <1>3 DEF Reports, TrafficInv
  <1>5. Late' <=> Late
    BY <1>1 DEF Late, Silence, Last, Newest, Changes, PauseBefore
  <1>6. /\ st'.lastSeen = st.lastSeen /\ st'.firstSeen = st.firstSeen
        /\ st'.gaps = st.gaps /\ st'.gapsN = st.gapsN /\ st'.win = st.win
    BY <1>1 DEF Reports, Counters
  <1>7. Remembers(st', arrived')
    BY <1>1, <1>6, SameCounters DEF TrafficInv
  <1>8. MinCount = Off /\ MaxCount = Off => ~st'.rate
    BY <1>1 DEF Reports, TrafficInv
  <1> QED
    BY <1>1, <1>2, <1>4, <1>5, <1>6, <1>7, <1>8 DEF TrafficInv

LEMMA PassTraffic ==
  ASSUME ConditionsInv, TrafficInv, Pass
  PROVE  TrafficInv'
  <1>1. st' = st /\ arrived' = arrived /\ now' = now + 1 /\ now \in Nat /\ now' \in Nat
    BY Arrivals DEF Pass
  <1>2. \A k \in 1..Len(arrived') : arrived'[k].at <= now'
    BY <1>1, Arrivals DEF TrafficInv
  <1>3. HasWindow => Filled(st'.win, arrived', now')
    BY <1>1, FilledLater, Arrivals DEF TrafficInv
  <1>4. st'.stale => Len(arrived') > 0 /\ Late'
    <2> SUFFICES ASSUME st.stale PROVE Len(arrived) > 0 /\ Late'
      BY <1>1
    <2> DEFINE Under(x) == {i \in Newest : PauseBefore(i) * StaleFactor < x}
    <2>1. Len(arrived) > 0 /\ Late
      BY DEF TrafficInv
    <2>2. Silence \in Int /\ Silence' = Silence + 1
      <3>1. Len(arrived) \in 1..Len(arrived)
        BY <2>1, Arrivals
      <3>2. Last \in Nat /\ Last' = Last
        BY <1>1, <3>1, Arrivals DEF Last
      <3> QED
        BY <1>1, <3>2 DEF Silence
    <2>3. \A i \in Newest : PauseBefore(i) \in Int
      <3> TAKE i \in Newest
      <3>1. i \in 1..Len(arrived) /\ i - 1 \in 1..Len(arrived)
        BY Arrivals DEF Newest, Changes
      <3> QED
        BY <3>1, Arrivals DEF PauseBefore
    <2>4. Under(Silence) \subseteq Under(Silence + 1)
      <3> SUFFICES ASSUME NEW i \in Newest, PauseBefore(i) * StaleFactor < Silence
                   PROVE  PauseBefore(i) * StaleFactor < Silence + 1
        OBVIOUS
      <3>1. PICK y \in Int : y = PauseBefore(i) * StaleFactor
        BY <2>3, ConditionAssumption
      <3> QED
        BY <2>2, <3>1
    <2>5. IsFiniteSet(Newest)
      <3>1. PICK n \in Nat : n = IF st.gapsN > StaleWindow THEN StaleWindow ELSE st.gapsN
        BY Arrivals, Numbers DEF St
      <3> QED
        BY <3>1, RingOfTheNewest, Arrivals DEF TrafficInv
    <2>6. IsFiniteSet(Under(Silence + 1))
      BY <2>5, FS_Subset
    <2>7. /\ Cardinality(Under(Silence)) <= Cardinality(Under(Silence + 1))
          /\ Cardinality(Under(Silence)) \in Nat /\ Cardinality(Under(Silence + 1)) \in Nat
          /\ Cardinality(Newest) \in Nat
      BY <2>4, <2>5, <2>6, FS_Subset, FS_CardinalityType
    <2>8. Newest' = Newest /\ \A i \in Newest : PauseBefore(i)' = PauseBefore(i)
      BY <1>1 DEF Newest, Changes, PauseBefore
    <2>9. Late' <=> /\ StaleAfter > 0 \/ StaleAuto
                    /\ Silence + 1 > StaleAfter
                    /\ StaleAuto =>
                         /\ Cardinality(Newest) >= StaleMinGaps
                         /\ Cardinality(Under(Silence + 1)) > (Cardinality(Newest) * 3) \div 4
      BY <2>2, <2>8 DEF Late
    <2>10. PICK q \in Int : q = (Cardinality(Newest) * 3) \div 4
      BY <2>7
    <2>11. StaleAuto => Cardinality(Under(Silence)) > q /\ Cardinality(Newest) >= StaleMinGaps
      BY <2>1, <2>10 DEF Late
    <2>12. StaleAuto => Cardinality(Under(Silence + 1)) > q
      BY <2>7, <2>10, <2>11
    <2>13. (StaleAfter > 0 \/ StaleAuto) /\ Silence + 1 > StaleAfter
      BY <2>1, <2>2, ConditionAssumption DEF Late
    <2> QED
      BY <2>1, <2>9, <2>10, <2>11, <2>12, <2>13
  <1> QED
    BY <1>1, <1>2, <1>3, <1>4 DEF TrafficInv

LEMMA TrafficNext == ConditionsInv /\ TrafficInv /\ [Next]_vars => TrafficInv'
  <1> SUFFICES ASSUME ConditionsInv, TrafficInv, [Next]_vars PROVE TrafficInv'
    OBVIOUS
  <1>1. CASE Observe
    BY <1>1, ObserveTraffic
  <1>2. CASE Tick
    BY <1>2, TickTraffic
  <1>3. CASE Pass
    BY <1>3, PassTraffic
  <1>4. CASE Ack \/ UNCHANGED vars
    <2>1. st' = st /\ now' = now /\ arrived' = arrived
      BY <1>4 DEF Ack, vars
    <2>2. Late' <=> Late
      BY <2>1 DEF Late, Silence, Last, Newest, Changes, PauseBefore
    <2> QED
      BY <2>1, <2>2 DEF TrafficInv
  <1> QED
    BY <1>1, <1>2, <1>3, <1>4 DEF Next

LEMMA TrafficInvariant == Spec => []TrafficInv
  BY ConditionsInvariant, InitTraffic, TrafficNext, PTL DEF Spec

(* What a tick says of the count, from the two bounds on it. *)
LEMMA TickCounts ==
  ASSUME ConditionsInv, TrafficInv, Tick
  PROVE  /\ st'.rate => \/ TooFew(Cardinality(Certain))
                        \/ MaxCount # Off /\ Cardinality(Possible) > MaxCount
         /\ TooFew(Cardinality(Possible)) \/ TooMany(Cardinality(Certain)) => st'.rate
  <1>1. Reports(st, st') /\ st.seen > 0
    BY TickGood DEF Tick
  <1>2. CASE MinCount = Off /\ MaxCount = Off
    BY <1>1, <1>2 DEF Reports, TrafficInv, TooFew, TooMany
  <1>3. CASE ~(MinCount = Off /\ MaxCount = Off)
    <2>1. HasWindow
      BY <1>3 DEF HasWindow
    <2>2. \A k \in 1..Len(arrived) : arrived[k].at \in 0..now
      BY Arrivals DEF TrafficInv
    <2>3. PICK c \in Nat, lo \in Nat, hi \in Nat :
            /\ c = Totals(st.win, now).count /\ lo = Cardinality(Certain) /\ hi = Cardinality(Possible)
            /\ lo <= c /\ c <= hi
      BY <2>1, <2>2, CountBetween, Arrivals DEF TrafficInv
    <2>4. st'.rate = RateHit(st, c)
      BY <1>1, <1>3, <2>3 DEF Reports
    <2>5. st.firstSeen = arrived[1].at
      BY <1>1, Arrivals DEF TrafficInv
    <2>6. (MinCount # Off => MinCount \in Nat) /\ (MaxCount # Off => MaxCount \in Nat)
      BY ConditionAssumption
    <2>7. st'.rate <=> \/ MinCount # Off /\ c < MinCount /\ now - arrived[1].at >= WindowMs
                       \/ MaxCount # Off /\ c > MaxCount /\ (MinCount # Off => c >= MinCount)
      BY <2>4, <2>5 DEF RateHit
    <2>8. st'.rate => TooFew(lo) \/ (MaxCount # Off /\ hi > MaxCount)
      BY <2>3, <2>6, <2>7 DEF TooFew
    <2>9. TooFew(hi) \/ TooMany(lo) => st'.rate
      BY <2>3, <2>6, <2>7 DEF TooFew, TooMany
    <2> QED
      BY <2>3, <2>8, <2>9
  <1> QED
    BY <1>2, <1>3

LEMMA GoodIsTheConditions == ConditionsInv => AlertIsOfTheConditions
  <1> SUFFICES ASSUME ConditionsInv PROVE AlertIsOfTheConditions
    OBVIOUS
  <1>1. st \in St /\ alert \in Alerts /\ Matches(st, alert)
    BY BothIs DEF ConditionsInv, Good
  <1>2. TypeOK
    <2>1. \A f \in {"lastSeen", "lastEval", "firstSeen", "lastChange"} : st[f] \in {0} \cup Epoch..MaxTime
      BY <1>1 DEF St, Time
    <2>2. \A f \in {"firing", "level", "rate", "stuck", "stale"} : st[f] \in BOOLEAN
      BY <1>1 DEF St
    <2>3. \A f \in {"preview", "levelPreview", "ratePreview", "stuckPreview"} : st[f] \in Preview
      BY <1>1 DEF St
    <2>4. /\ st.gaps \in [0..(StaleWindow - 1) -> Nat] /\ st.lastValue \in Values \cup {NoValue}
          /\ st.gapsN \in Nat /\ st.seen \in Nat
      BY <1>1 DEF St
    <2>5. alert.state \in States /\ alert.preview \in Preview /\ alert.acked \in BOOLEAN
      BY <1>1 DEF Alerts
    <2>6. st.gapsN \in 0..Larger(0, st.seen - 1)
      BY <2>4 DEF ConditionsInv, Larger
    <2> QED
      BY <2>1, <2>2, <2>3, <2>4, <2>5, <2>6 DEF TypeOK, ConditionsInv
  <1>3. (\E state \in States : Holds(st, state)) <=> st.firing \/ st.level \/ st.rate \/ st.stuck \/ st.stale
    BY DEF States, Holds
  <1>4. AlertWhileSomethingHolds
    BY <1>1, <1>3 DEF Matches, AlertWhileSomethingHolds
  <1>5. AlertShowsACondition
    BY <1>1 DEF Matches, AlertShowsACondition
  <1> QED
    BY <1>2, <1>4, <1>5 DEF AlertIsOfTheConditions

(* change, update and cleared: whatever order the conditions of a subject   *)
(* begin and end in, there is an alert exactly while one of them holds, and *)
(* it shows one that does, with that condition's own text.                  *)
THEOREM AlertFits == Spec => []AlertIsOfTheConditions
  BY ConditionsInvariant, GoodIsTheConditions, PTL

(* noteValue and checkStuck: at every tick a subject is called stuck        *)
(* exactly when its messages have had one value since a moment more than    *)
(* UnchangedFor ago, however values came and went before.                   *)
THEOREM StuckIsUnchanged == Spec => StuckFollowsTheValue
  <1>1. ConditionsInv /\ [Next]_vars => [Tick => (st'.stuck <=> Unchanged)]_vars
    BY TickGood
  <1> QED
    BY <1>1, ConditionsInvariant, PTL DEF Spec, StuckFollowsTheValue

(* The throttle on evaluations in Observe: a message that agrees with all   *)
(* messages of the last EvalEvery leaves the state firing as it says,       *)
(* evaluated or not.                                                        *)
THEOREM ThrottleIsBounded == Spec => ExpressionFollowsTheTraffic
  <1>1. ConditionsInv /\ [Next]_vars
          => [Observe /\ Expr =>
               LET m == arrived'[Len(arrived')] IN
               (\A i \in 1..Len(arrived) : arrived[i].at > now - EvalEvery => arrived[i].hit = m.hit)
                  => st'.firing = m.hit]_vars
    BY ObserveGood
  <1> QED
    BY <1>1, ConditionsInvariant, PTL DEF Spec, ExpressionFollowsTheTraffic

(* checkStale with noteGap and typicalGap, and checkWindow with add, totals *)
(* and judgeRate: at every tick a subject is called silent exactly when it  *)
(* is late by its timeout and by its own pauses, and a count is reported    *)
(* exactly when it is out of bounds, up to the width of a bucket.           *)
THEOREM WindowsReported == Spec => WindowsAreReported
  <1>1. ConditionsInv /\ TrafficInv /\ [Next]_vars => [Tick => (st'.stale <=> Late)]_vars
    BY TickTraffic
  <1>2. ConditionsInv /\ TrafficInv /\ [Next]_vars
          => [Tick =>
               /\ st'.rate => \/ TooFew(Cardinality(Certain))
                              \/ MaxCount # Off /\ Cardinality(Possible) > MaxCount
               /\ TooFew(Cardinality(Possible)) \/ TooMany(Cardinality(Certain)) => st'.rate]_vars
    BY TickCounts
  <1> QED
    BY <1>1, <1>2, ConditionsInvariant, TrafficInvariant,
       PTL DEF Spec, WindowsAreReported, SilenceIsReported, CountsAreReported
===========================================================================
