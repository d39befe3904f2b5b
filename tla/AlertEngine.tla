---------------------------- MODULE AlertEngine ----------------------------
(* The alert engine as its goroutines run it (Engine in                     *)
(* internal/alerts/alerts.go, its HTTP handlers in feature_alerts.go): an   *)
(* observer per subject, the ticker, the broadcaster, the requests that     *)
(* change rules or maintenance windows, and a goroutine per webhook. They   *)
(* share the rule list, the rule map, the map of subject states, the active *)
(* alerts and the log. A step is what one of them does between two locks or *)
(* atomic operations. What the conditions of one subject do is              *)
(* AlertConditions; here they are one flag.                                 *)
EXTENDS Integers, Sequences, FiniteSets

CONSTANTS Rules,         \* rule IDs
          Targets,       \* subjects, each of one connection
          Admins,        \* HTTP requests that may run at the same time
          Ticker, Broadcaster,   \* the engine's own goroutines
          Hooked,        \* the rules that have a webhook or recipients
          Watches,       \* what a rule may watch (its watch string)
          Gone,          \* for a rule that is not there or not enabled
          MaxMessages, MaxEdits, MaxWindows    \* bounds, for TLC

ASSUME EngineAssumption ==
    /\ Hooked \subseteq Rules
    /\ Gone \notin Watches
    /\ MaxMessages \in Nat /\ MaxEdits \in Nat /\ MaxWindows \in Nat

VARIABLES rules, byID,   \* e.rules and e.byID: what each rule watches
          maintenance,   \* a maintenance window is in force
          stateOf,       \* e.states: the subjectState of a key, 0 for none
          bad,           \* of each subjectState: a condition holds
          locked,        \* the subjectStates whose mutex is held
          active,        \* e.active
          log,           \* e.events, oldest first
          sending,       \* events whose webhook is being called
          dirty,         \* e.dirty holds a token
          tab,           \* the active alerts of the last broadcast
          th,            \* the goroutines
          clock,         \* e.Now(), counted in state changes
          messages, edits, windows    \* counters of the bounds

engine == <<rules, byID, maintenance, stateOf, bad, locked, active, log, sending, dirty, tab, clock>>

vars == <<engine, th, messages, edits, windows>>

Keys == Rules \X Targets

Threads == Targets \cup Admins \cup {Ticker, Broadcaster}

NoAlert == [on |-> FALSE, muted |-> FALSE, since |-> 0]

NoEvent == [key |-> <<>>, kind |-> "none", muted |-> FALSE, at |-> 0]

Idle == [pc |-> "idle", snap |-> [r \in Rules |-> Gone], old |-> [r \in Rules |-> Gone],
         todo |-> {}, obj |-> 0, hit |-> FALSE, event |-> NoEvent, events |-> {}, view |-> {}]

Init == /\ rules \in [Rules -> Watches] /\ byID = rules
        /\ maintenance \in BOOLEAN
        /\ stateOf = [k \in Keys |-> 0] /\ bad = <<>> /\ locked = {}
        /\ active = [k \in Keys |-> NoAlert]
        /\ log = <<>> /\ sending = {}
        /\ dirty = FALSE /\ tab = {}
        /\ th = [x \in Threads |-> Idle]
        /\ clock = 0
        /\ messages = 0 /\ edits = 0 /\ windows = 0

Goes(x, rec) == th' = [th EXCEPT ![x] = rec]

Unbounded == UNCHANGED <<messages, edits, windows>>

(* muted: maintenance keeps every rule out of the channels. *)
Muted == maintenance

(* notify: sent by a goroutine of its own, or only logged. *)
Emit(e) == IF e.muted \/ e.key[1] \notin Hooked
           THEN log' = Append(log, e) /\ dirty' = TRUE /\ UNCHANGED sending
           ELSE sending' = sending \cup {e} /\ UNCHANGED <<log, dirty>>
-----------------------------------------------------------------------------
(* Observe. The rule list is read once; a state is looked up or made before *)
(* its lock is taken.                                                       *)
ObserveStart(t) ==
    /\ th[t].pc = "idle" /\ messages < MaxMessages
    /\ \E hit \in BOOLEAN :
          Goes(t, [Idle EXCEPT !.pc = "pick", !.snap = rules, !.hit = hit,
                               !.todo = {<<r, t>> : r \in {q \in Rules : rules[q] # Gone}}])
    /\ messages' = messages + 1
    /\ UNCHANGED <<engine, edits, windows>>

(* Mutant: the state a subject gets is not the one that is kept. *)
LoadStateUnkept(t) ==
    /\ th[t].pc = "pick"
    /\ \E k \in th[t].todo :
          /\ stateOf' = [stateOf EXCEPT ![k] = Len(bad) + 1]
          /\ Goes(t, [th[t] EXCEPT !.pc = "lock", !.obj = Len(bad) + 1, !.event.key = k, !.todo = @ \ {k}])
    /\ Unbounded
    /\ UNCHANGED <<rules, byID, maintenance, bad, locked, active, log, sending, dirty, tab, clock>>

(* LoadOrStore of the subjectState. *)
LoadState(t) ==
    /\ th[t].pc = "pick"
    /\ \E k \in th[t].todo :
          /\ IF stateOf[k] = 0
             THEN bad' = Append(bad, FALSE) /\ stateOf' = [stateOf EXCEPT ![k] = Len(bad) + 1]
             ELSE UNCHANGED <<bad, stateOf>>
          /\ Goes(t, [th[t] EXCEPT !.pc = "lock", !.obj = stateOf'[k],
                                   !.event.key = k, !.todo = @ \ {k}])
    /\ Unbounded
    /\ UNCHANGED <<rules, byID, maintenance, locked, active, log, sending, dirty, tab, clock>>

ObserveDone(t) ==
    /\ th[t].pc = "pick" /\ th[t].todo = {}
    /\ Goes(t, Idle)
    /\ Unbounded /\ UNCHANGED engine

(* Mutant: the verdict does not wait for the lock. *)
JudgeUnlocked(x) ==
    /\ th[x].pc = "lock"
    /\ IF bad[th[x].obj] = th[x].hit
       THEN /\ Goes(x, [th[x] EXCEPT !.pc = "pick"])
            /\ UNCHANGED <<bad, locked, clock>>
       ELSE /\ bad' = [bad EXCEPT ![th[x].obj] = th[x].hit]
            /\ locked' = locked \cup {th[x].obj}
            /\ clock' = clock + 1
            /\ Goes(x, [th[x] EXCEPT !.pc = "change",
                          !.event.kind = IF th[x].hit THEN "bad" ELSE "resolved",
                          !.event.muted = Muted, !.event.at = clock + 1])
    /\ Unbounded
    /\ UNCHANGED <<rules, byID, maintenance, stateOf, active, log, sending, dirty, tab>>

(* Under the lock of the state: a condition begins or ends, and change      *)
(* computes whether the event is muted before it takes e.mu.                *)
Judge(x) ==
    /\ th[x].pc = "lock" /\ th[x].obj \notin locked
    /\ IF bad[th[x].obj] = th[x].hit
       THEN /\ Goes(x, [th[x] EXCEPT !.pc = "pick"])
            /\ UNCHANGED <<bad, locked, clock>>
       ELSE /\ bad' = [bad EXCEPT ![th[x].obj] = th[x].hit]
            /\ locked' = locked \cup {th[x].obj}
            /\ clock' = clock + 1
            /\ Goes(x, [th[x] EXCEPT !.pc = "change",
                          !.event.kind = IF th[x].hit THEN "bad" ELSE "resolved",
                          !.event.muted = Muted, !.event.at = clock + 1])
    /\ Unbounded
    /\ UNCHANGED <<rules, byID, maintenance, stateOf, active, log, sending, dirty, tab>>

Change(x) ==
    /\ th[x].pc = "change"
    /\ LET e == th[x].event IN
       active' = [active EXCEPT ![e.key] =
                     IF e.kind = "resolved" THEN NoAlert
                     ELSE [on |-> TRUE, muted |-> e.muted, since |-> e.at]]
    /\ Goes(x, [th[x] EXCEPT !.pc = "notify"])
    /\ Unbounded
    /\ UNCHANGED <<rules, byID, maintenance, stateOf, bad, locked, log, sending, dirty, tab, clock>>

Notify(x) ==
    /\ th[x].pc = "notify"
    /\ Emit(th[x].event)
    /\ locked' = locked \ {th[x].obj}
    /\ Goes(x, [th[x] EXCEPT !.pc = "pick"])
    /\ Unbounded
    /\ UNCHANGED <<rules, byID, maintenance, stateOf, bad, active, tab, clock>>

(* Mutant: the event is logged without waking the broadcaster. *)
SentSilently ==
    /\ \E e \in sending : log' = Append(log, e) /\ sending' = sending \ {e}
    /\ Unbounded
    /\ UNCHANGED <<dirty, rules, byID, maintenance, stateOf, bad, locked, active, tab, th, clock>>

(* The webhook was called; the event is logged now. *)
Sent == /\ \E e \in sending : log' = Append(log, e) /\ sending' = sending \ {e}
        /\ dirty' = TRUE
        /\ Unbounded
        /\ UNCHANGED <<rules, byID, maintenance, stateOf, bad, locked, active, tab, th, clock>>
-----------------------------------------------------------------------------
(* Tick. Of the states it passes, some have become silent; a silence can    *)
(* only begin here, never end.                                              *)
TickStart ==
    /\ th[Ticker].pc = "idle"
    /\ Goes(Ticker, [Idle EXCEPT !.pc = "pick", !.snap = byID, !.todo = Keys, !.hit = TRUE])
    /\ Unbounded /\ UNCHANGED engine

TickVisit ==
    /\ th[Ticker].pc = "pick"
    /\ \E k \in th[Ticker].todo :
          /\ stateOf[k] # 0 /\ th[Ticker].snap[k[1]] # Gone
          /\ Goes(Ticker, [th[Ticker] EXCEPT !.pc = "lock", !.obj = stateOf[k],
                                             !.event.key = k, !.todo = @ \ {k}])
    /\ Unbounded /\ UNCHANGED engine

(* Mutant: the ticker does not look at the mutes. *)
TickVisitedOnly ==
    /\ th[Ticker].pc = "pick"
    /\ Goes(Ticker, [Idle EXCEPT !.pc = "send", !.snap = byID])
    /\ Unbounded /\ UNCHANGED engine

TickVisited ==
    /\ th[Ticker].pc = "pick"
    /\ Goes(Ticker, [Idle EXCEPT !.pc = "refresh", !.snap = byID])
    /\ Unbounded /\ UNCHANGED engine

(* Mutant: an alert that comes out of its mute is not sent. *)
DueNever(x) == {}

(* The alerts that come out of a mute and are still true. *)
Due(x) == {k \in Keys : active[k].on /\ th[x].snap[k[1]] # Gone /\ active[k].muted /\ ~Muted}

(* refreshMuted, once it holds e.mu. *)
Refresh(x) ==
    /\ th[x].pc = "refresh"
    /\ active' = [k \in Keys |->
                     IF active[k].on /\ th[x].snap[k[1]] # Gone
                     THEN [active[k] EXCEPT !.muted = Muted] ELSE active[k]]
    /\ Goes(x, [th[x] EXCEPT !.pc = "send",
                  !.events = {[key |-> k, kind |-> "bad", muted |-> FALSE, at |-> clock] : k \in Due(x)}])
    /\ Unbounded
    /\ UNCHANGED <<rules, byID, maintenance, stateOf, bad, locked, log, sending, dirty, tab, clock>>

SendHeldBack(x) ==
    /\ th[x].pc = "send"
    /\ \E e \in th[x].events :
          /\ Emit(e)
          /\ Goes(x, [th[x] EXCEPT !.events = @ \ {e}])
    /\ Unbounded
    /\ UNCHANGED <<rules, byID, maintenance, stateOf, bad, locked, active, tab, clock>>

TickDone ==
    /\ th[Ticker].pc = "send" /\ th[Ticker].events = {}
    /\ Goes(Ticker, Idle)
    /\ Unbounded /\ UNCHANGED engine

(* A maintenance window begins or ends because its time has come. *)
WindowTurns ==
    /\ windows < MaxWindows
    /\ maintenance' = ~maintenance
    /\ windows' = windows + 1
    /\ UNCHANGED <<rules, byID, stateOf, bad, locked, active, log, sending, dirty, tab, th, clock, messages, edits>>
-----------------------------------------------------------------------------
(* The requests. One that changes or removes a rule reads the list, changes *)
(* its rule and stores the whole list again, the list and the map one after *)
(* the other.                                                               *)
EditStart(a) ==
    /\ th[a].pc = "idle" /\ edits < MaxEdits
    /\ \E r \in Rules, w \in Watches \cup {Gone} :
          /\ w # rules[r]
          /\ Goes(a, [Idle EXCEPT !.pc = "store", !.snap = [rules EXCEPT ![r] = w], !.hit = TRUE])
    /\ edits' = edits + 1
    /\ UNCHANGED <<rules, byID, maintenance, stateOf, bad, locked, active, log, sending, dirty, tab, clock, messages, windows>>

StoreRules(a) ==
    /\ th[a].pc = "store"
    /\ rules' = th[a].snap
    /\ Goes(a, [th[a] EXCEPT !.pc = "storeMap", !.old = byID])
    /\ Unbounded
    /\ UNCHANGED <<byID, maintenance, stateOf, bad, locked, active, log, sending, dirty, tab, clock>>

StoreMap(a) ==
    /\ th[a].pc = "storeMap"
    /\ byID' = th[a].snap
    /\ Goes(a, [th[a] EXCEPT !.pc = "range", !.todo = {k \in Keys : stateOf[k] # 0}])
    /\ Unbounded
    /\ UNCHANGED <<rules, maintenance, stateOf, bad, locked, active, log, sending, dirty, tab, clock>>

(* The rule is gone, or watches something else than before. *)
Obsolete(a, k) == LET r == k[1] IN
                  \/ th[a].snap[r] = Gone
                  \/ th[a].old[r] = Gone
                  \/ th[a].snap[r] # th[a].old[r]

ForgetState(a) ==
    /\ th[a].pc = "range"
    /\ \E k \in th[a].todo :
          /\ stateOf[k] # 0 /\ Obsolete(a, k)
          /\ stateOf' = [stateOf EXCEPT ![k] = 0]
          /\ Goes(a, [th[a] EXCEPT !.pc = "forget", !.event.key = k, !.todo = @ \ {k}])
    /\ Unbounded
    /\ UNCHANGED <<rules, byID, maintenance, bad, locked, active, log, sending, dirty, tab, clock>>

ForgetAlert(a) ==
    /\ th[a].pc = "forget"
    /\ active' = [active EXCEPT ![th[a].event.key] = NoAlert]
    /\ Goes(a, [th[a] EXCEPT !.pc = "range"])
    /\ Unbounded
    /\ UNCHANGED <<rules, byID, maintenance, stateOf, bad, locked, log, sending, dirty, tab, clock>>

ForgotAll(a) ==
    /\ th[a].pc = "range"
    /\ \A k \in th[a].todo : stateOf[k] = 0 \/ ~Obsolete(a, k)
    /\ Goes(a, [th[a] EXCEPT !.pc = "refresh", !.snap = byID])
    /\ Unbounded /\ UNCHANGED engine

(* A request that replaces the maintenance windows. *)
SetMaintenance(a) ==
    /\ th[a].pc = "idle" /\ windows < MaxWindows
    /\ maintenance' = ~maintenance
    /\ windows' = windows + 1
    /\ Goes(a, [Idle EXCEPT !.pc = "refresh", !.snap = byID])
    /\ UNCHANGED <<rules, byID, stateOf, bad, locked, active, log, sending, dirty, tab, clock, messages, edits>>

(* SetRules ends with a signal; then the request flushes. *)
Refreshed(a) ==
    /\ th[a].pc = "send" /\ th[a].events = {}
    /\ dirty' = (dirty \/ th[a].hit)
    /\ Goes(a, [th[a] EXCEPT !.pc = "flush"])
    /\ Unbounded
    /\ UNCHANGED <<rules, byID, maintenance, stateOf, bad, locked, active, log, sending, tab, clock>>
-----------------------------------------------------------------------------
(* Flush: the alerts are read under e.mu and broadcast after it. *)
Showing == {k \in Keys : active[k].on}

Wake == /\ th[Broadcaster].pc = "idle" /\ dirty
        /\ dirty' = FALSE
        /\ Goes(Broadcaster, [Idle EXCEPT !.pc = "flush"])
        /\ Unbounded
        /\ UNCHANGED <<rules, byID, maintenance, stateOf, bad, locked, active, log, sending, tab, clock>>

FlushRead(x) ==
    /\ th[x].pc = "flush"
    /\ Goes(x, [Idle EXCEPT !.pc = "deliver", !.view = Showing])
    /\ Unbounded /\ UNCHANGED engine

Deliver(x) ==
    /\ th[x].pc = "deliver"
    /\ tab' = th[x].view
    /\ Goes(x, Idle)
    /\ Unbounded
    /\ UNCHANGED <<rules, byID, maintenance, stateOf, bad, locked, active, log, sending, dirty, clock>>

Request(a) == \/ StoreRules(a) \/ StoreMap(a) \/ ForgetState(a) \/ ForgetAlert(a) \/ ForgotAll(a)
              \/ Refresh(a) \/ SendHeldBack(a) \/ Refreshed(a) \/ FlushRead(a) \/ Deliver(a)

Observer(t) == LoadState(t) \/ Judge(t) \/ Change(t) \/ Notify(t) \/ ObserveDone(t)

Tick == \/ TickStart \/ TickVisited \/ TickDone
        \/ Judge(Ticker) \/ Change(Ticker) \/ Notify(Ticker)
        \/ Refresh(Ticker) \/ SendHeldBack(Ticker)

Broadcast == Wake \/ FlushRead(Broadcaster) \/ Deliver(Broadcaster)

Next == \/ \E t \in Targets : ObserveStart(t) \/ Observer(t)
        \/ Tick \/ TickVisit
        \/ Sent
        \/ WindowTurns
        \/ \E a \in Admins : EditStart(a) \/ SetMaintenance(a) \/ Request(a)
        \/ Broadcast

(* Goroutines run; a webhook call ends, at the latest with its timeout.     *)
Fairness == /\ \A t \in Targets : WF_vars(Observer(t))
            /\ \A a \in Admins : WF_vars(Request(a))
            /\ WF_vars(Tick) /\ WF_vars(Sent) /\ WF_vars(Broadcast)

Spec == Init /\ [][Next]_vars /\ Fairness
-----------------------------------------------------------------------------
Event == [key : Keys, kind : {"bad", "resolved"}, muted : BOOLEAN, at : Nat]

TypeOK == /\ rules \in [Rules -> Watches \cup {Gone}] /\ byID \in [Rules -> Watches \cup {Gone}]
          /\ maintenance \in BOOLEAN /\ dirty \in BOOLEAN
          /\ stateOf \in [Keys -> 0..Len(bad)]
          /\ \A i \in 1..Len(bad) : bad[i] \in BOOLEAN
          /\ locked \subseteq 1..Len(bad)
          /\ active \in [Keys -> [on : BOOLEAN, muted : BOOLEAN, since : Nat]]
          /\ \A i \in 1..Len(log) : log[i] \in Event
          /\ sending \subseteq Event
          /\ tab \subseteq Keys

(* As long as no rule changes, an alert is active exactly while the state   *)
(* of its subject is bad, whatever observers and the ticker do meanwhile.   *)
AlertsFollowTheStates ==
    edits = 0 =>
        \A k \in Keys : stateOf[k] \notin locked =>
            (active[k].on <=> stateOf[k] # 0 /\ bad[stateOf[k]])

(* The engine's tables have their types and its alerts are its states'.     *)
AlertsAreTheStates == TypeOK /\ AlertsFollowTheStates

(* A maintenance window holds alerts back and never loses one ("the ones    *)
(* still true when it ends are sent then"): an alert that counts as not     *)
(* muted has been sent, is being sent, or is about to be, since it began.   *)
Underway == sending \cup (UNION {th[x].events : x \in Threads})
                    \cup {th[x].event : x \in {y \in Threads : th[y].pc = "notify"}}
                    \cup {log[i] : i \in 1..Len(log)}

NothingHeldBackIsLost ==
    \A k \in Keys : active[k].on /\ ~active[k].muted =>
        \E e \in Underway : e.key = k /\ e.kind = "bad" /\ ~e.muted /\ e.at >= active[k].since

(* An alert held back by a window that is over is sent by the ticker, or    *)
(* ends first, or another window begins; while no rule changes, since the   *)
(* alert of a vanished rule stays as it is.                                 *)
HeldBackIsSent ==
    [](edits = 0) =>
        \A k \in Keys : (active[k].on /\ active[k].muted /\ ~maintenance)
                            ~> (~active[k].on \/ ~active[k].muted \/ maintenance)

(* Flush reads the active alerts under the lock and broadcasts them after   *)
(* it, for the engine's goroutine and for the requests that changed rules   *)
(* or windows. Whatever these do meanwhile, the tabs end up with the alerts *)
(* that are active -- as long as no request broadcasts a list that changed  *)
(* since it read it.                                                        *)
RequestsAreCurrent == \A a \in Admins : th[a].pc = "deliver" => th[a].view = Showing

TabsCatchUp == []RequestsAreCurrent => <>[](tab = Showing)

(* Refuted: a request that was overtaken between its read and its broadcast *)
(* leaves the tabs with the older list, and nothing marks it dirty.         *)
TabsCatchUpAnyway == <>[](tab = Showing)
-----------------------------------------------------------------------------
(* alerts.go, on SetRules: "Alerts of rules that vanished are dropped." An  *)
(* Observe or a Tick that already holds the state adds its alert afterwards *)
(* and nothing ever removes it: MCAlertVanished.cfg finds the violation.    *)
Settled == /\ \A x \in Threads : th[x].pc = "idle"
           /\ sending = {} /\ ~dirty

VanishedRulesHaveNoAlerts == Settled => \A k \in Showing : rules[k[1]] # Gone
=============================================================================
