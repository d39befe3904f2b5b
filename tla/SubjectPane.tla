----------------------------- MODULE SubjectPane -----------------------------
(* The pane of one subject (SubjectDetail.tsx): the messages of a time range *)
(* of the recorded history, which fill in page by page, the chart and the    *)
(* schema beside them, the message that is held while the reader looks back, *)
(* and the export. LiveView models the messages of the feed; here they only  *)
(* arrive. What of a range is loaded, and how, is loadOlderRange and the     *)
(* effect that calls it as long as there is more.                            *)
(*                                                                           *)
(* The effects of a render are taken to run with it, and the pane to stay    *)
(* mounted.                                                                  *)
EXTENDS UseAsync, Integers, FiniteSets, SequencesExt, FiniteSetsExt

CONSTANTS Subjects,
          Under,      \* a subject and those below it
          Recorded,   \* the history: [conn, subj, at], newest with the highest at
          Span,       \* per range, the times it covers
          Page,       \* RANGE_PAGE, and PAGE of an export
          AutoMax,    \* RANGE_AUTOLOAD_MAX
          ExportMax,  \* EXPORT_MAX_MESSAGES
          Fields, MaxFields,
          Aggs,
          MaxOps,     \* bound on what the reader does
          MaxEvents   \* bound on failures, polls and messages

VARIABLES tab,      \* what the reader chose
          uses,     \* the three uses of useAsync: range, series, schema
          asked,    \* per use, what its last load is for
          older,    \* the older page under way: the range and its cursors
          cache,    \* what useAsync remembers of them
          held,     \* selectedMessage
          auto,     \* autoHeld: the message the scroll holds
          away,     \* VirtualRows: scrolled away from the newest rows
          calls,    \* pins and points of the chart under way
          export,   \* the export that gathers its messages
          file,     \* the last file written
          world,    \* messages on the feed, the database, schemas pinned
          hurried,  \* ghost: left a range before it was in
          picked,   \* ghost: the message the reader picked himself
          spent

vars == <<tab, uses, asked, older, cache, held, auto, away, calls, export, file,
          world, hurried, picked, spent>>
look == <<held, auto, away, picked>>

-----------------------------------------------------------------------------
(* The history, as the server pages it. *)

InRange(k) == {m \in Recorded : m.subj \in Under[k.subject] /\ m.at \in Span[k.range]}
Newest(ms, n) == LET all == SetToSortSeq(ms, LAMBDA a, b : a.at > b.at)
                 IN  SubSeq(all, 1, IF Len(all) < n THEN Len(all) ELSE n)
OfConn(ms, c) == {m \in ms : m.conn = c}
ConnsOf(ms) == {m.conn : m \in ms}

(* The first page is the newest of all connections together. *)
FirstPage(k) ==
    [msgs |-> Newest(InRange(k), Page), total |-> Cardinality(InRange(k)),
     more |-> \/ \E c \in ConnsOf(InRange(k)) : Cardinality(OfConn(InRange(k), c)) >= Page
              \/ Cardinality(ConnsOf(Recorded)) > 1 /\ Cardinality(InRange(k)) > Page]

(* Mutant: one cursor for the oldest message of all. *)
OneCursor(msgs) == LET o == CHOOSE i \in 1..Len(msgs) : \A j \in 1..Len(msgs) : msgs[i].at <= msgs[j].at
                   IN  [c \in ConnsOf(ToSet(msgs)) |-> msgs[o].at - 1]

(* A cursor per connection that is among the messages: its last one. *)
Cursors(msgs) ==
    [c \in ConnsOf(ToSet(msgs)) |->
       msgs[CHOOSE i \in 1..Len(msgs) : msgs[i].conn = c /\ \A j \in i + 1..Len(msgs) : msgs[j].conn # c].at]

Before(k, c, at) == Newest({m \in OfConn(InRange(k), c) : m.at < at}, Page)
OlderPages(o) ==
    LET cs == DOMAIN o.from
        pages == [c \in cs |-> Before(o.key, c, o.from[c])]
    IN  [msgs |-> FlattenSeq([i \in 1..Cardinality(cs) |-> pages[SetToSeq(cs)[i]]]),
         more |-> \E c \in cs : Len(pages[c]) = Page]

-----------------------------------------------------------------------------
(* What the three uses load, and under which key it is remembered: of a     *)
(* range, the chart and the schema only take the start.                     *)

RangeOf(t) == IF world.db THEN t.range ELSE None
StartOf(r) == IF r = None THEN None ELSE Min(Span[r])

Dep(u, t, r) ==
    IF t.subject = None THEN None
    ELSE CASE u = "range"  -> IF r = None THEN None ELSE [subject |-> t.subject, range |-> r]
           [] u = "schema" -> IF t.open THEN [subject |-> t.subject, range |-> r] ELSE None
           [] OTHER        -> [subject |-> t.subject, fields |-> t.fields, range |-> r, agg |-> t.agg]

Key(u, d) ==
    IF d = None \/ (u = "series" /\ d.fields = <<>>) THEN None
    ELSE IF u = "range" THEN <<u, d>> ELSE <<u, [d EXCEPT !.range = StartOf(d.range)]>>
Cached(k) == IF k \in DOMAIN cache THEN cache[k] ELSE None
Remembers(k, d) == IF k = None \/ d = None THEN cache ELSE [x \in DOMAIN cache \cup {k} |-> IF x = k THEN d ELSE cache[x]]

Loads(u, d) == CASE u = "range"  -> FirstPage(d)
                 [] u = "schema" -> [of |-> d, pinned |-> d.subject \in world.pinned]
                 [] OTHER        -> [of |-> d]

Changed(v, u, d) == IF d = None THEN Skips(v) ELSE Asks(Renders(v, Cached(Key(u, d))))

(* loadOlderRange, called by an effect as long as it may do something. *)
MayLoadOlder(v, o) == /\ o = None /\ v.data # None /\ v.data.more
                      /\ Len(v.data.msgs) < AutoMax /\ v.data.msgs # <<>>
Filled(t, r, v, o) ==
    IF r # None /\ t.subject # None /\ MayLoadOlder(v, o)
    THEN [key |-> [subject |-> t.subject, range |-> r], from |-> Cursors(v.data.msgs)] ELSE o

-----------------------------------------------------------------------------
(* What is shown. *)

Live(t) == IF t.subject = None THEN {} ELSE {[conn |-> None, subj |-> t.subject, at |-> i] : i \in 1..world.live[t.subject]}
Ranged(v) == IF v.data = None THEN {} ELSE ToSet(v.data.msgs)
Own(t, r, v) == IF r = None THEN Live(t) ELSE {m \in Ranged(v) : m.subj = t.subject}
Below(t, r, v) == IF r = None THEN {} ELSE {m \in Ranged(v) : m.subj # t.subject}
IsBranch(t, r, v) == Own(t, r, v) = {} /\ Below(t, r, v) # {}
NewestOf(ms) == IF ms = {} THEN None ELSE CHOOSE m \in ms : \A x \in ms : x.at <= m.at

Shown == Own(tab, RangeOf(tab), uses["range"])
Pinned == IF held # None /\ held.subj = tab.subject THEN held ELSE None
Display == IF Pinned # None THEN Pinned ELSE NewestOf(Shown)
RailShown(t, r, v) == t.rail /\ Own(t, r, v) # {}

RangeBar == LET v == uses["range"]
            IN  IF v.loading /\ v.data = None THEN "loading"
                ELSE IF v.error THEN "error"
                ELSE IF v.data = None THEN "nothing"
                ELSE IF Len(v.data.msgs) < v.data.total THEN "part of the total" ELSE "the total"

NoTab == [subject |-> None, range |-> None, fields |-> <<>>, agg |-> CHOOSE a \in Aggs : TRUE,
          open |-> FALSE, rail |-> TRUE, diff |-> FALSE, reference |-> None, tool |-> None]

Init ==
    /\ tab = NoTab /\ uses = [u \in {"range", "series", "schema"} |-> Fresh(None)]
    /\ asked = [u \in {"range", "series", "schema"} |-> None]
    /\ older = None /\ cache = [k \in {} |-> None]
    /\ held = None /\ auto = None /\ away = FALSE /\ picked = None
    /\ calls = {} /\ export = None /\ file = None
    /\ world = [live |-> [s \in Subjects |-> 1], db |-> TRUE, pinned |-> {}]
    /\ hurried = FALSE /\ spent = [ops |-> 0, events |-> 0]

Op == spent.ops < MaxOps /\ spent' = [spent EXCEPT !.ops = @ + 1]
Event == spent.events < MaxEvents /\ spent' = [spent EXCEPT !.events = @ + 1]
Goes == UNCHANGED spent

(* A rail that leaves the screen forgets where it was scrolled to. *)
StaysAway(t, r, v) == away' = (away /\ RailShown(t, r, v))

(* The range is left while it is not in yet. *)
StillFilling == \/ older # None \/ asked["range"] # None
                \/ uses["range"].data # None /\ uses["range"].data.more /\ Len(uses["range"].data.msgs) < AutoMax

(* A render with other choices: every use whose dependencies changed loads, *)
(* and the range goes on filling in with what it shows before and after.    *)
Render(t, r) ==
    LET d == [u \in DOMAIN uses |-> Dep(u, t, r)]
        same == [u \in DOMAIN uses |-> d[u] = Dep(u, tab, RangeOf(tab))]
        next == [u \in DOMAIN uses |-> IF same[u] THEN uses[u] ELSE Changed(uses[u], u, d[u])]
    IN  /\ tab' = t /\ uses' = next
        /\ asked' = [u \in DOMAIN uses |-> IF same[u] THEN asked[u] ELSE d[u]]
        /\ older' = Filled(t, r, next["range"], Filled(t, r, uses["range"], older))
        /\ hurried' = (hurried \/ (~same["range"] /\ StillFilling))
        /\ StaysAway(t, r, next["range"])
        /\ UNCHANGED cache
Chooses(t) == Render(t, RangeOf(t))
Beside == UNCHANGED <<calls, export, file, world>>

-----------------------------------------------------------------------------
(* What the reader does. *)

(* setSelectedSubject: the range goes with the subject, and so do the chart *)
(* and the diff; the reference stays.                                       *)
Select ==
    /\ Op /\ \E s \in Subjects \ {tab.subject} :
         Chooses([tab EXCEPT !.subject = s, !.range = None, !.fields = <<>>, !.diff = FALSE])
    /\ held' = None /\ picked' = None /\ UNCHANGED auto /\ Beside

(* setRange: the picker, or a drag across a chart. *)
PickRange ==
    /\ Op /\ world.db /\ tab.subject # None
    /\ \E r \in DOMAIN Span \cup {None} : r # tab.range /\ Chooses([tab EXCEPT !.range = r])
    /\ UNCHANGED <<held, auto, picked>> /\ Beside

(* toggleChartField keeps the last six. *)
Toggled(fs, f) ==
    IF \E i \in 1..Len(fs) : fs[i] = f THEN SelectSeq(fs, LAMBDA x : x # f)
    ELSE IF Len(fs) < MaxFields THEN fs \o <<f>> ELSE Tail(fs) \o <<f>>

Chart ==
    /\ Op /\ Display # None
    /\ \/ \E f \in Fields : Chooses([tab EXCEPT !.fields = Toggled(@, f)])
       \/ tab.fields # <<>> /\ Chooses([tab EXCEPT !.fields = <<>>])
       \/ tab.fields # <<>> /\ \E a \in Aggs \ {tab.agg} : Chooses([tab EXCEPT !.agg = a])
    /\ UNCHANGED <<held, auto, picked>> /\ Beside

ToggleSchema ==
    /\ Op /\ Display # None /\ Chooses([tab EXCEPT !.open = ~@])
    /\ UNCHANGED <<held, auto, picked>> /\ Beside

(* The rail, the diff and the message the others are compared to. *)
Arrange ==
    /\ Op /\ Display # None
    /\ \/ Chooses([tab EXCEPT !.rail = ~@])
       \/ Chooses([tab EXCEPT !.reference = IF @ = None THEN Display ELSE None])
       \/ (tab.reference # None \/ Cardinality(Shown) > 1) /\ Chooses([tab EXCEPT !.diff = ~@])
    /\ UNCHANGED <<held, auto, picked>> /\ Beside

(* What is behind the header (matches, a trace, a step, an alert) opens for *)
(* the subject of that moment.                                              *)
Tool ==
    /\ Op /\ tab.subject # None /\ Chooses([tab EXCEPT !.tool = IF @ = None THEN tab.subject ELSE None])
    /\ UNCHANGED <<held, auto, picked>> /\ Beside

Unrendered == UNCHANGED <<tab, uses, asked, older, cache, hurried>>

(* onPick: the newest row means following again. *)
PickRow ==
    /\ Op /\ RailShown(tab, RangeOf(tab), uses["range"])
    /\ \E m \in Shown :
         LET h == IF m = NewestOf(Shown) THEN None ELSE m
         IN  held' = h /\ picked' = IF m = held /\ h # None THEN picked ELSE h
    /\ UNCHANGED <<auto, away>> /\ Unrendered /\ Beside

BackToLive ==
    /\ Op /\ Pinned # None /\ held' = None /\ picked' = None
    /\ UNCHANGED <<auto, away>> /\ Unrendered /\ Beside

(* Mutant: the way back to the top lets go of whatever is held. *)
ReleasesAll(m) == TRUE
Releases(m) == auto # None /\ m = auto

(* holdWhileReadingBack, on each crossing. *)
Scroll ==
    /\ Op /\ RailShown(tab, RangeOf(tab), uses["range"]) /\ away' = ~away
    /\ IF RangeOf(tab) # None THEN UNCHANGED <<held, auto, picked>>
       ELSE IF ~away
            THEN /\ IF Pinned = None THEN auto' = NewestOf(Shown) /\ held' = NewestOf(Shown)
                                     ELSE UNCHANGED <<auto, held>>
                 /\ UNCHANGED picked
            ELSE IF Releases(held) THEN auto' = None /\ held' = None /\ UNCHANGED picked
                                   ELSE UNCHANGED <<auto, held, picked>>
    /\ Unrendered /\ Beside

(* pickPoint: the message behind a point, here or in the database. *)
PickPoint ==
    /\ Op /\ tab.fields # <<>> /\ Display # None
    /\ \/ /\ \E m \in Shown : held' = m /\ picked' = m
          /\ UNCHANGED calls
       \/ world.db /\ calls' = calls \cup {[kind |-> "point", subject |-> tab.subject]} /\ UNCHANGED <<held, picked>>
    /\ UNCHANGED <<auto, away, export, file, world>> /\ Unrendered

(* Pin and Unpin of the schema, one at a time. *)
PinSchema ==
    /\ Op /\ Display # None /\ tab.open /\ uses["schema"].data # None /\ ~uses["schema"].error
    /\ \A c \in calls : c.kind = "point"
    /\ calls' = calls \cup {[kind |-> IF uses["schema"].data.pinned THEN "unpin" ELSE "pin", subject |-> tab.subject]}
    /\ Unrendered /\ UNCHANGED look /\ UNCHANGED <<export, file, world>>

(* run and loadAllForExport: what is loaded is the start. *)
StartExport ==
    /\ Op /\ export = None /\ RangeOf(tab) # None /\ uses["range"].data # None
    /\ Ranged(uses["range"]) # {}
    /\ export' = [key |-> Dep("range", tab, RangeOf(tab)), msgs |-> uses["range"].data.msgs,
                  more |-> uses["range"].data.more, branch |-> IsBranch(tab, RangeOf(tab), uses["range"]),
                  hurried |-> hurried \/ asked["range"] # None \/ uses["range"].error]
    /\ Unrendered /\ UNCHANGED look /\ UNCHANGED <<calls, file, world>>

-----------------------------------------------------------------------------
(* What comes back. *)

(* The last load of a use, or its failure; a range goes on filling in. *)
Answer(u, v) ==
    /\ uses' = [uses EXCEPT ![u] = v] /\ asked' = [asked EXCEPT ![u] = None]
    /\ older' = IF u = "range" THEN Filled(tab, RangeOf(tab), v, older) ELSE older
    /\ StaysAway(tab, RangeOf(tab), uses'["range"])
    /\ UNCHANGED <<tab, held, auto, picked, hurried>> /\ Beside

Answered ==
    \E u \in DOMAIN uses :
      /\ asked[u] # None
      /\ \/ /\ Goes /\ Answer(u, Succeeds(Loads(u, asked[u])))
            /\ cache' = Remembers(Key(u, asked[u]), Loads(u, asked[u]))
         \/ Event /\ Answer(u, Ends(uses[u])) /\ UNCHANGED cache

(* The next pages are appended to what is there by then, and remembered as  *)
(* that; a failure is asked again at once.                                  *)
OlderAnswered ==
    /\ older # None
    /\ \/ LET a == OlderPages(older)
              v == uses["range"]
              d == IF v.data = None THEN None
                   ELSE [v.data EXCEPT !.msgs = @ \o a.msgs, !.more = a.msgs # <<>> /\ a.more]
          IN  /\ Goes /\ uses' = [uses EXCEPT !["range"] = Sets(v, d)]
              /\ cache' = Remembers(Key("range", Dep("range", tab, RangeOf(tab))), d)
              /\ older' = Filled(tab, RangeOf(tab), Sets(v, d), None)
       \/ /\ Event /\ older' = Filled(tab, RangeOf(tab), uses["range"], None)
          /\ UNCHANGED <<uses, cache>>
    /\ UNCHANGED <<tab, asked, hurried>> /\ UNCHANGED look /\ Beside

(* fetchWholeRange, a round at a time. *)
ExportAnswered ==
    /\ export # None
    /\ IF export.more /\ Len(export.msgs) < ExportMax
       THEN \/ LET a == OlderPages([key |-> export.key, from |-> Cursors(export.msgs)])
               IN  /\ Goes
                   /\ export' = IF a.msgs = <<>> THEN [export EXCEPT !.more = FALSE]
                                ELSE [export EXCEPT !.msgs = @ \o a.msgs, !.more = a.more]
                   /\ UNCHANGED file
            \/ Event /\ export' = None /\ UNCHANGED file
       ELSE /\ Goes /\ export' = None
            /\ file' = [key |-> export.key, truncated |-> export.more, branch |-> export.branch, hurried |-> export.hurried,
                        msgs |-> SelectSeq(export.msgs, LAMBDA m : export.branch = (m.subj # export.key.subject))]
    /\ Unrendered /\ UNCHANGED look /\ UNCHANGED <<calls, world>>

CallAnswered ==
    \E c \in calls :
      /\ calls' = calls \ {c} /\ UNCHANGED <<tab, older, cache, hurried, auto, away, export, file>>
      /\ \/ /\ c.kind = "point" /\ Goes /\ UNCHANGED <<uses, asked, world>>
            /\ \E m \in Recorded : m.subj = c.subject /\ held' = m /\ picked' = m
         \/ /\ c.kind # "point" /\ Goes /\ UNCHANGED <<held, picked>>
            /\ world' = [world EXCEPT !.pinned = IF c.kind = "pin" THEN @ \cup {c.subject} ELSE @ \ {c.subject}]
            /\ IF Dep("schema", tab, RangeOf(tab)) # None /\ Display # None
               THEN /\ uses' = [uses EXCEPT !["schema"] = Asks(@)]
                    /\ asked' = [asked EXCEPT !["schema"] = Dep("schema", tab, RangeOf(tab))]
               ELSE UNCHANGED <<uses, asked>>
         \/ Event /\ UNCHANGED <<uses, asked, world, held, picked>>

-----------------------------------------------------------------------------
(* What happens meanwhile. *)

(* The chart and the schema of a live subject are refreshed now and then. *)
Poll ==
    /\ Event /\ RangeOf(tab) = None
    /\ \E u \in {"series", "schema"} :
         /\ Dep(u, tab, None) # None
         /\ uses' = [uses EXCEPT ![u] = Asks(@)] /\ asked' = [asked EXCEPT ![u] = Dep(u, tab, None)]
    /\ UNCHANGED <<tab, older, cache, hurried>> /\ UNCHANGED look /\ Beside

Arrives ==
    /\ Event /\ \E s \in Subjects : world' = [world EXCEPT !.live[s] = @ + 1]
    /\ Unrendered /\ UNCHANGED look /\ UNCHANGED <<calls, export, file>>

(* The persistent history is switched: the range counts only with it. *)
SwitchHistory ==
    /\ Event /\ world' = [world EXCEPT !.db = ~@]
    /\ Render(tab, IF world.db THEN None ELSE tab.range)
    /\ UNCHANGED <<held, auto, picked, calls, export, file>>

Next ==
    \/ Select \/ PickRange \/ Chart \/ ToggleSchema \/ Arrange \/ Tool
    \/ PickRow \/ BackToLive \/ Scroll \/ PickPoint \/ PinSchema \/ StartExport
    \/ Answered \/ OlderAnswered \/ ExportAnswered \/ CallAnswered
    \/ Poll \/ Arrives \/ SwitchHistory
Spec == Init /\ [][Next]_vars

-----------------------------------------------------------------------------
(* Properties. *)

Settled == /\ RangeOf(tab) # None /\ tab.subject # None /\ asked["range"] = None /\ older = None
           /\ uses["range"].data # None /\ ~uses["range"].error

(* Of each connection that is among them, the messages are the newest ones  *)
(* of the range, each once.                                                 *)
WithoutHoles(msgs, of) ==
    /\ Cardinality(ToSet(msgs)) = Len(msgs) /\ ToSet(msgs) \subseteq of
    /\ \A m \in ToSet(msgs), x \in of : x.conn = m.conn /\ x.at > m.at => x \in ToSet(msgs)

(* A range that came in undisturbed has no holes, shows nothing twice and   *)
(* nothing that is not of it, whatever failed on the way, and an export     *)
(* goes on from there to the same effect.                                   *)
RangeHasNoHoles ==
    /\ Settled /\ ~hurried =>
         WithoutHoles(uses["range"].data.msgs, InRange(Dep("range", tab, RangeOf(tab))))
    /\ file # None /\ ~file.hurried =>
         WithoutHoles(file.msgs, {m \in InRange(file.key) : file.branch = (m.subj # file.key.subject)})

(* "A message the reader picked stays picked" (holdWhileReadingBack), if it *)
(* is not the one the scroll held already.                                  *)
PickedStays == picked # None /\ picked # auto => held = picked

(* "Picking a range means asking for that range, not for its first page":   *)
(* a range that is not loading and not full says it shows its total.        *)
FilledIsWhole == Settled /\ ~hurried /\ ~uses["range"].data.more => RangeBar = "the total"

(* "Scrolling back to the top follows again": nothing the scroll held is    *)
(* held at the top.                                                         *)
TopFollows == RangeOf(tab) = None /\ ~away /\ picked = None => Pinned = None

(* The messages under a range are of that range. *)
RangeHoldsItsOwn == Settled => ToSet(uses["range"].data.msgs) \subseteq InRange(Dep("range", tab, RangeOf(tab)))
=============================================================================
