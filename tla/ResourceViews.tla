---------------------------- MODULE ResourceViews ----------------------------
(* The modules of the tab that show what a server holds and change it:      *)
(* streams, buckets, object stores. Each is a list, a detail of what is     *)
(* selected and a part below that, all of them loaded with useAsync, cached *)
(* by key and reloaded by the handlers of the pages. The server is shared   *)
(* with others, answers come late or not at all, and meanwhile the reader   *)
(* selects, leaves the module, or changes the connection or its domain.     *)
(*                                                                          *)
(* The effects of a render are taken to run with it. A load that another    *)
(* one of the same view overtook is stale; the load of a view that is gone  *)
(* still ends up in the cache.                                              *)
EXTENDS BucketPages, Integers, FiniteSetsExt

CONSTANTS Conns, Domains,   \* connections, and the JetStream domains behind them
          Names,            \* streams, buckets or stores
          Existing,         \* those there at first: <<conn, domain, name>>
          MaxOps,           \* bound on what the reader does
          MaxEvents         \* bound on polls, losses and what others do

VARIABLES family,   \* the module of the tab: "jetstream", "kv" or "objects"
          world,    \* what each place holds under each name
          ui,       \* the state of the tab
          asked,    \* loads under way
          calls,    \* requests of handlers under way
          dialog,   \* the confirmation or the form that is open
          owed,     \* writes the server acknowledged and who has to show them
          mixed,    \* setData put an answer in place since the detail was loaded
          spent     \* the bounded counters

vars == <<family, world, ui, asked, calls, dialog, owed, mixed, spent>>

Places == Conns \X Domains
Views == {"list", "detail", "part"}
Gone == [there |-> FALSE, cfg |-> 0, in |-> 0, sealed |-> FALSE]

Place(s) == <<s.conn, s.domain[s.conn]>>

-----------------------------------------------------------------------------
(* What each view loads. *)

Target(place, name, tab) == [place |-> place, name |-> name, tab |-> tab]
Off == Target(None, None, "off")

(* The detail of a stream shows the parts of the stream it shows, not of    *)
(* the one selected.                                                        *)
PartTarget(s) ==
    LET shown == s.view.detail.data
    IN  CASE family = "jetstream" ->
               IF s.sel # None /\ StreamPart(s.tab) /\ StreamDetailShows(s.view.detail) = "data"
               THEN Target(Place(s), shown.name, s.tab) ELSE Off
          [] family = "kv" ->
               Target(Place(s), IF s.tab = "key" THEN s.sel ELSE None, "key")
          [] OTHER -> Target(Place(s), s.sel, "stores")

Targets(s, v) == IF ~s.open THEN Off
                 ELSE CASE v = "list" -> Target(Place(s), "all", "list")
                        [] v = "detail" -> Target(Place(s), s.sel, "detail")
                        [] OTHER -> PartTarget(s)

(* The key a result is cached under says nothing of the domain; the stores  *)
(* of the object page are cached by connection alone.                       *)
KeyOf(v, t) == <<v, t.tab, t.place[1], IF t.tab = "stores" THEN "all" ELSE t.name>>
CachedFor(s, v, t) == LET k == KeyOf(v, t) IN IF k \in DOMAIN s.cache THEN s.cache[k] ELSE None
Remember(s, k, d) == [s EXCEPT !.cache = [x \in DOMAIN @ \cup {k} |-> IF x = k THEN d ELSE @[x]]]

(* What the server answers: for the lists the configuration under each      *)
(* name, for a stream its own and its state, else what is in one.           *)
Lists(v, t) == v = "list" \/ t.tab = "stores"
Shown(v, t) == IF Lists(v, t) THEN {"cfg"}
               ELSE IF v = "detail" /\ family = "jetstream" THEN {"cfg", "in"} ELSE {"in"}
Snapshot(v, t) ==
    [place |-> t.place, name |-> t.name,
     items |-> [n \in IF Lists(v, t) THEN Names ELSE {t.name} |->
                  [f \in {"there", "sealed"} \cup Shown(v, t) |-> world[t.place][n][f]]]]
CanRead(v, t) == Lists(v, t) \/ world[t.place][t.name].there

-----------------------------------------------------------------------------
(* A render of the tab: each view whose dependencies changed, and each one  *)
(* told to reload, runs its loader.                                         *)

Stales(loads, v) == {l \in loads : l.view # v \/ l.gone} \cup
                    {[l EXCEPT !.stale = TRUE] : l \in {x \in loads : x.view = v /\ ~x.gone /\ x.read /\ ~x.failed}}
Goes(loads, v) == {IF l.view = v /\ ~l.gone THEN [l EXCEPT !.gone = TRUE] ELSE l : l \in loads}
Load(v, t) == [view |-> v, of |-> t, data |-> None, read |-> FALSE, failed |-> FALSE,
               stale |-> FALSE, gone |-> FALSE]

HasLoader(v, t) == t.tab # "off" /\ (t.name # None \/ t.tab = "stores")

(* The dependencies of a load: not the domain, whose change bumps the tick  *)
(* of the lists and clears the selection.                                   *)
Deps(t) == IF t = Off THEN <<>> ELSE <<t.tab, t.place[1], t.name>>

(* The tab and the loads under way after view v was rendered. *)
RunView(s, loads, v, again) ==
    LET t == Targets(s, v)
        was == s.deps[v]
        cached == IF HasLoader(v, t) THEN CachedFor(s, v, t) ELSE None
        mounted == t.tab # "off" /\ was.tab = "off"
        moved == Deps(t) # Deps(was) \/ (v = "list" /\ v \in again)
        base == IF mounted THEN Fresh(cached)
                ELSE IF moved THEN Renders(s.view[v], cached) ELSE s.view[v]
        left == IF t.tab = "off" \/ mounted THEN Goes(loads, v) ELSE Stales(loads, v)
    IN  IF t.tab = "off" THEN <<[s EXCEPT !.deps[v] = Off, !.view[v] = Fresh(None)], left>>
        ELSE IF ~moved /\ v \notin again THEN <<s, loads>>
        ELSE IF ~HasLoader(v, t) THEN <<[s EXCEPT !.deps[v] = t, !.view[v] = Skips(@)], left>>
        ELSE <<[s EXCEPT !.deps[v] = t, !.view[v] = Asks(base)], left \cup {Load(v, t)}>>

(* The part is rendered once the detail is: the one outcome there is. *)
RunViews(s, loads, again) ==
    {RunView(b[1], b[2], "part", again) :
       b \in {RunView(a[1], a[2], "detail", again) : a \in {RunView(s, loads, "list", again)}}}

Becomes(s, loads, again) == \E r \in RunViews(s, loads, again) : ui' = r[1] /\ asked' = r[2]

(* Mutant: the answer of a load that was overtaken is shown as well. *)
AnyLoaded(s, l) ==
    IF l.failed THEN [s EXCEPT !.view[l.view] = Ends(@)]
    ELSE [Remember(s, KeyOf(l.view, l.of), l.data) EXCEPT !.view[l.view] = Succeeds(l.data)]

(* The end of run: a stale answer counts for nothing, that of a page which  *)
(* is gone is remembered only.                                              *)
Loaded(s, l) ==
    LET kept == IF l.failed THEN s ELSE Remember(s, KeyOf(l.view, l.of), l.data)
    IN  IF l.stale THEN s
        ELSE IF l.gone THEN kept
        ELSE [kept EXCEPT !.view[l.view] = IF l.failed THEN Ends(@) ELSE Succeeds(l.data)]

(* Every load answered from what is there now. *)
Answered(s, loads) ==
    FoldSet(LAMBDA l, x : Loaded(x, [l EXCEPT !.data = Snapshot(l.view, l.of)]), s, loads)

-----------------------------------------------------------------------------
Tabs == CASE family = "jetstream" -> StreamTabs
          [] family = "kv" -> {"none", "key"}
          [] OTHER -> {"objects"}
FirstTab == CASE family = "jetstream" -> "overview" [] family = "kv" -> "none" [] OTHER -> "objects"

Closed == [open |-> FALSE, conn |-> CHOOSE c \in Conns : TRUE, domain |-> [c \in Conns |-> CHOOSE d \in Domains : TRUE],
           sel |-> None, tab |-> "overview", mayWrite |-> TRUE,
           view |-> [v \in Views |-> Fresh(None)], deps |-> [v \in Views |-> Off],
           cache |-> [k \in {} |-> None]]

(* The module was opened, on nothing or on a link, and has loaded. *)
Init ==
    /\ family \in {"jetstream", "kv", "objects"}
    /\ world = [p \in Places |-> [n \in Names |->
                  IF <<p[1], p[2], n>> \in Existing THEN [Gone EXCEPT !.there = TRUE] ELSE Gone]]
    /\ \E n \in {None, CHOOSE x \in Names : TRUE} :
         \E r \in RunViews([Closed EXCEPT !.open = TRUE, !.tab = FirstTab, !.sel = n], {}, {}) :
            ui = Answered(r[1], r[2]) /\ asked = {}
    /\ calls = {} /\ dialog = None /\ owed = {} /\ mixed = FALSE
    /\ spent = [ops |-> 0, events |-> 0]

Spend(what, max) == spent[what] < max /\ spent' = [spent EXCEPT ![what] = @ + 1]
Idle == dialog = None

-----------------------------------------------------------------------------
(* The reader looks around. A dialog is modal.                              *)

(* setSelectedStream, setSelectedObjStore; setSelectedKvBucket, which also  *)
(* closes the key.                                                          *)
Selects(s, n) == [s EXCEPT !.sel = n, !.tab = IF family = "kv" /\ n # s.sel THEN "none" ELSE @]

Select ==
    /\ Idle /\ Spend("ops", MaxOps) /\ ui.open
    /\ LET shown == ui.view.list.data
       IN  \/ shown # None /\ \E n \in Names : shown.items[n].there /\ Becomes(Selects(ui, n), asked, {})
           \/ ui.sel # None /\ family = "jetstream" /\ Becomes(Selects(ui, None), asked, {})
    /\ UNCHANGED <<family, world, calls, dialog, owed, mixed>>

OpenTab ==
    /\ Idle /\ Spend("ops", MaxOps) /\ ui.open /\ ui.sel # None
    /\ family = "jetstream" => StreamDetailShows(ui.view.detail) = "data"
    /\ \E t \in Tabs \ {ui.tab} : Becomes([ui EXCEPT !.tab = t], asked, {})
    /\ UNCHANGED <<family, world, calls, dialog, owed, mixed>>

(* Another module of the tab and back: the pages go, the selection stays;   *)
(* the tab of a stream is its page's own.                                   *)
SwitchModule ==
    /\ Idle /\ Spend("ops", MaxOps)
    /\ Becomes([ui EXCEPT !.open = ~@, !.tab = IF family = "jetstream" THEN "overview" ELSE @], asked, {})
    /\ UNCHANGED <<family, world, calls, dialog, owed, mixed>>

(* setActiveConnId: nothing is selected there. *)
SetActiveConn ==
    /\ Idle /\ Spend("ops", MaxOps)
    /\ \E c \in Conns \ {ui.conn} : Becomes(Selects([ui EXCEPT !.conn = c], None), asked, {})
    /\ UNCHANGED <<family, world, calls, dialog, owed, mixed>>

(* setJsDomainOverride: the cache is of the other domain, and the lists are *)
(* told to load again.                                                      *)
SetDomain ==
    /\ Idle /\ Spend("ops", MaxOps) /\ ui.open
    /\ \E d \in Domains \ {ui.domain[ui.conn]} :
         Becomes(Selects([ui EXCEPT !.domain[ui.conn] = d, !.cache = [k \in {} |-> None]], None), asked, {"list"})
    /\ UNCHANGED <<family, world, calls, dialog, owed, mixed>>

Refresh ==
    /\ Idle /\ Spend("ops", MaxOps)
    /\ \E v \in Views : /\ HasLoader(v, ui.deps[v])
                        /\ Becomes(ui, asked, IF v = "detail" /\ family = "kv" THEN {"detail", "part"} ELSE {v})
    /\ UNCHANGED <<family, world, calls, dialog, owed, mixed>>

(* The intervals: the lists, and a stream and its consumers. *)
Polls(v) == v = "list" \/ (family = "jetstream" /\ (v = "detail" \/ ui.tab = "consumers"))
Poll ==
    /\ Spend("events", MaxEvents)
    /\ \E v \in Views : Polls(v) /\ HasLoader(v, ui.deps[v]) /\ Becomes(ui, asked, {v})
    /\ UNCHANGED <<family, world, calls, dialog, owed, mixed>>

-----------------------------------------------------------------------------
(* What the pages offer, and the resource a handler is about: of the list   *)
(* the name the reader types, of a stream what its page shows, of a bucket  *)
(* or a store what is selected.                                             *)
Subject == IF family # "jetstream" THEN ui.sel
           ELSE IF ui.view.detail.data = None THEN None ELSE ui.view.detail.data.name

SealedStore == ui.view.part.data # None /\ ui.view.part.data.items[ui.sel].sealed

Offered ==
    IF ~ui.open THEN {} ELSE
    CASE family = "jetstream" ->
           StreamListOffers(ui.view.list, ui.mayWrite) \cup
           IF ui.sel = None \/ StreamDetailShows(ui.view.detail) # "data" THEN {}
           ELSE StreamActions(ui.view.detail.data.items[Subject], ui.mayWrite) \cup
                (IF ui.tab = "overview" THEN StreamClusterActions(ui.view.detail.data, ui.mayWrite) ELSE {}) \cup
                PartOffers(ui.tab, ui.view.part, ui.mayWrite)
      [] family = "kv" ->
           KvBucketListOffers(ui.mayWrite) \cup
           IF ui.sel = None THEN {}
           ELSE KvHeaderOffers(ui.mayWrite) \cup KvKeyListOffers(ui.view.detail, ui.mayWrite) \cup
                IF ui.tab = "key" THEN KvEntryPanelOffers(ui.view.part, ui.mayWrite) ELSE {}
      [] OTHER ->
           ObjStoreListOffers(ui.mayWrite) \cup
           IF ui.sel = None THEN {}
           ELSE ObjStoreHeaderOffers(ui.mayWrite, SealedStore) \cup
                ObjectRowsOffer(ui.view.detail, ui.mayWrite, SealedStore)

Makes(h) == h.does = "create"
Call(h, n) == [h |-> h, place |-> Place(ui), name |-> n, of |-> ui.sel,
               state |-> "sent", answer |-> Gone]

Click ==
    /\ Idle /\ Spend("ops", MaxOps)
    /\ \E h \in Offered, n \in Names :
         /\ Makes(h) \/ n = Subject
         /\ IF h.how = "click" THEN calls' = calls \cup {Call(h, n)} /\ UNCHANGED dialog
            ELSE dialog' = Call(h, n) /\ UNCHANGED calls
    /\ UNCHANGED <<family, world, ui, asked, owed, mixed>>

(* Confirmed, or the form sent: a form stays open until its answer.         *)
Confirm ==
    /\ ~Idle /\ dialog.state = "sent"
    /\ calls' = calls \cup {dialog}
    /\ dialog' = IF dialog.h.how = "form" THEN [dialog EXCEPT !.state = "busy"] ELSE None
    /\ UNCHANGED <<family, world, ui, asked, owed, mixed, spent>>

(* A form can be closed while its request is under way. *)
Cancel ==
    /\ ~Idle
    /\ dialog' = None
    /\ UNCHANGED <<family, world, ui, asked, calls, owed, mixed, spent>>

-----------------------------------------------------------------------------
(* The server. *)

Refuses(h, r) == \/ Makes(h) /\ r.there
                 \/ ~Makes(h) /\ ~r.there
                 \/ h.does \in {"fill", "seal"} /\ r.sealed

Written(h, r, n) ==
    CASE h.does = "create" -> [there |-> TRUE, cfg |-> n, in |-> n, sealed |-> FALSE]
      [] h.does = "change" -> [r EXCEPT !.cfg = n]
      [] h.does = "seal" -> [r EXCEPT !.cfg = n, !.sealed = TRUE]
      [] h.does = "delete" -> [Gone EXCEPT !.cfg = n, !.in = n]
      [] h.does = "fill" -> [r EXCEPT !.in = n]
      [] OTHER -> r

(* Versions only rise, so that a later one can be told from an earlier. *)
NextVersion == 1 + Max({0} \cup UNION {{world[p][n].cfg, world[p][n].in} : p \in Places, n \in Names})

Serve ==
    /\ \E c \in calls :
         LET r == world[c.place][c.name]
             w == Written(c.h, r, NextVersion)
         IN  /\ c.state = "sent"
             /\ IF Refuses(c.h, r)
                THEN /\ calls' = (calls \ {c}) \cup {[c EXCEPT !.state = "refused"]}
                     /\ UNCHANGED world
                ELSE /\ calls' = (calls \ {c}) \cup {[c EXCEPT !.state = "done", !.answer = w]}
                     /\ world' = [world EXCEPT ![c.place][c.name] = w]
    /\ UNCHANGED <<family, ui, asked, dialog, owed, mixed, spent>>

(* Somebody else creates or deletes. *)
Elsewhere ==
    /\ Spend("events", MaxEvents)
    /\ \E n \in Names, h \in {CreateStream, DeleteStream} :
         /\ ~Refuses(h, world[Place(ui)][n])
         /\ world' = [world EXCEPT ![Place(ui)][n] = Written(h, @, NextVersion)]
    /\ UNCHANGED <<family, ui, asked, calls, dialog, owed, mixed>>

Read ==
    /\ \E l \in asked :
         /\ ~l.read /\ ~l.stale
         /\ asked' = (asked \ {l}) \cup
                     {IF CanRead(l.view, l.of) THEN [l EXCEPT !.read = TRUE, !.data = Snapshot(l.view, l.of)]
                      ELSE [l EXCEPT !.read = TRUE, !.failed = TRUE]}
    /\ UNCHANGED <<family, world, ui, calls, dialog, owed, mixed, spent>>

-----------------------------------------------------------------------------
(* Answers reach the tab. *)

Arrive ==
    /\ \E l \in asked : /\ l.read /\ Becomes(Loaded(ui, l), asked \ {l}, {})
                        /\ mixed' = (mixed /\ (l.view # "detail" \/ l.stale \/ l.gone \/ l.failed))
    /\ UNCHANGED <<family, world, calls, dialog, owed, spent>>

(* A load fails on the way, or the connection is refused. *)
LoseLoad ==
    /\ Spend("events", MaxEvents)
    /\ \E l \in asked : ~l.gone /\ ~l.stale /\ Becomes(Loaded(ui, [l EXCEPT !.failed = TRUE]), asked \ {l}, {})
    /\ UNCHANGED <<family, world, calls, dialog, owed, mixed>>

(* The views a reader expects to follow a write. A purge leaves the page of *)
(* messages below the stream as it is.                                      *)
Follows(h) ==
    CASE h.does \in {"create", "delete"} -> {"list"}
      [] h = EditBucket \/ h = SealStore -> {"list"}
      [] h.does \in {"change", "seal"} -> IF "set detail" \in h.next THEN {"list", "detail"} ELSE {"detail"}
      [] h.does = "fill" -> IF family = "jetstream" /\ h.page = "part" /\ "reload detail" \in h.next THEN {"detail", "part"}
                            ELSE IF h = FetchNext \/ h = Decide THEN {"part"} ELSE {"detail"}
      [] OTHER -> {}

(* What a page does with a success: the pages of a module that was left     *)
(* are gone, but the selection is the store's.                              *)
Told(c) == {v \in Views : \/ v = "list" /\ {"reload list", "bump"} \cap c.h.next # {}
                          \/ v = "detail" /\ "reload detail" \in c.h.next
                          \/ v = "part" /\ "reload part" \in c.h.next}

SetDetail(s, c) ==
    IF "set detail" \in c.h.next /\ s.deps["detail"].tab # "off" /\ s.sel # None
    THEN LET d == [place |-> c.place, name |-> c.name, items |-> [n \in {c.name} |-> c.answer]]
         IN  [Remember(s, KeyOf("detail", s.deps["detail"]), d) EXCEPT !.view.detail = Sets(@, d)]
    ELSE s

Selected(s, c) ==
    CASE "select" \in c.h.next -> Selects(s, c.name)
      [] "deselect" \in c.h.next -> Selects(s, None)
      [] "open part" \in c.h.next /\ s.sel # None -> [s EXCEPT !.tab = "key"]
      [] "close part" \in c.h.next -> [s EXCEPT !.tab = "none"]
      [] OTHER -> s

Done ==
    /\ \E c \in calls :
         /\ c.state = "done"
         /\ LET live == {v \in Told(c) : HasLoader(v, ui.deps[v])}
            IN  Becomes(Selected(SetDetail(ui, c), c), asked, live)
         /\ calls' = IF "reload detail later" \in c.h.next
                     THEN (calls \ {c}) \cup {[c EXCEPT !.state = "later"]} ELSE calls \ {c}
         /\ dialog' = IF ~Idle /\ dialog.state = "busy" THEN None ELSE dialog
         /\ owed' = owed \cup {[view |-> v, set |-> v = "detail" /\ "set detail" \in c.h.next, place |-> c.place,
                                 name |-> c.name, is |-> c.answer] : v \in Follows(c.h)}
         /\ mixed' = (mixed \/ "set detail" \in c.h.next)
    /\ UNCHANGED <<family, world, spent>>

(* setTimeout(reload, 1500). *)
Later ==
    /\ \E c \in calls :
         /\ c.state = "later"
         /\ calls' = calls \ {c}
         /\ Becomes(ui, asked, {v \in {"detail"} : HasLoader(v, ui.deps[v])})
    /\ UNCHANGED <<family, world, dialog, owed, mixed, spent>>

(* Refused, or lost before or after the server got to it: a message, and a  *)
(* form stays open.                                                         *)
Failed ==
    /\ \E c \in calls :
         /\ \/ c.state = "refused" /\ UNCHANGED spent
            \/ c.state \in {"sent", "done"} /\ Spend("events", MaxEvents)
         /\ calls' = calls \ {c}
    /\ dialog' = IF ~Idle /\ dialog.state = "busy" THEN [dialog EXCEPT !.state = "sent"] ELSE dialog
    /\ UNCHANGED <<family, world, ui, asked, owed, mixed>>

Next == \/ Select \/ OpenTab \/ SwitchModule \/ SetActiveConn \/ SetDomain \/ Refresh \/ Poll
        \/ Click \/ Confirm \/ Cancel \/ Serve \/ Elsewhere \/ Read
        \/ Arrive \/ LoseLoad \/ Done \/ Later \/ Failed

Spec == Init /\ [][Next]_vars
-----------------------------------------------------------------------------
Quiet(v) == ui.deps[v].tab # "off" /\ ~\E l \in asked : l.view = v /\ ~l.stale /\ ~l.gone
Settled == calls = {} /\ \A v \in Views : \A l \in asked : l.view = v => l.stale \/ l.gone

(* A view that has a page and no error, and is about the resource written,  *)
(* shows it as of that write or later.                                      *)
ShowsWrite(w) ==
    LET u == ui.view[w.view]
        t == ui.deps[w.view]
    IN  (/\ t.tab # "off" /\ ~u.error /\ u.data # None
         /\ u.data.place = w.place /\ (Lists(w.view, t) \/ u.data.name = w.name)) =>
            \A f \in Shown(w.view, t) : u.data.items[w.name][f] >= w.is[f]

(* What this tab wrote is what it shows: once the requests of the tab are   *)
(* answered, every view that follows a write shows it, whatever was loaded  *)
(* before, cached, or overtaken by it. What setData put in place is apart.  *)
OwnWritesShown ==
    Settled => \A w \in owed : (w.view = "list" \/ ~(mixed \/ w.set)) => ShowsWrite(w)

(* The same of what setData puts in place of a load (useAsync.ts: stale     *)
(* responses are discarded).                                                *)
StaleAnswersDiscarded == Settled => \A w \in owed : (w.set /\ ~mixed) => ShowsWrite(w)

(* What is shown is what is selected: once a view has its answer and shows  *)
(* no error, that is of the connection, the domain and the name selected.   *)
ShownIsSelected ==
    \A v \in Views :
        (/\ Quiet(v) /\ ~ui.view[v].error /\ ui.view[v].data # None
         /\ v = "list" \/ (~mixed /\ ui.sel # None)) =>
            /\ ui.view[v].data.place = Place(ui)
            /\ v = "detail" => ui.view[v].data.name = ui.sel

(* A view that says it loads has a load under way whose answer counts. *)
LoadsSomething ==
    \A v \in Views : ui.view[v].loading => \E l \in asked : l.view = v /\ ~l.stale /\ ~l.gone
=============================================================================
