------------------------- MODULE AlertEngine_proofs -------------------------
(* Proofs about the alert engine, for any number of rules, subjects,        *)
(* requests and messages and any interleaving of its goroutines. That a     *)
(* held back alert is sent and that the tabs catch up are liveness          *)
(* properties and stay with TLC.                                            *)
EXTENDS AlertEngine, SequenceTheorems, TLAPS

(* What a goroutine may hold, with n subject states made so far.            *)
PCs == {"idle", "pick", "lock", "change", "notify", "refresh", "send",
        "store", "storeMap", "range", "forget", "flush", "deliver"}

RuleMap == [Rules -> Watches \cup {Gone}]

AnyEvent == [key : Keys \cup {<<>>}, kind : {"none", "bad", "resolved"}, muted : BOOLEAN, at : Nat]

Records(n) == [pc : PCs, snap : RuleMap, old : RuleMap, todo : SUBSET Keys, obj : 0..n, hit : BOOLEAN,
               event : AnyEvent, events : SUBSET Event, view : SUBSET Keys]

AtState == {"lock", "change", "notify"}   \* it is at a state that it looked up

InState == {"change", "notify"}           \* it holds the lock of that state

Editing == {"store", "storeMap", "range", "forget"}

(* The record of a goroutine, at time c: it has a state and a key where it  *)
(* needs them, and events to send only while it sends.                      *)
Sound(r, n, c) ==
    /\ r \in Records(n)
    /\ r.pc \in AtState => r.obj \in 1..n
    /\ r.pc \in AtState \cup {"forget"} => r.event.key \in Keys
    /\ r.pc \in InState => r.event.kind \in {"bad", "resolved"} /\ r.event.at <= c
    /\ r.pc # "send" => r.events = {}

Types ==
    /\ rules \in RuleMap /\ byID \in RuleMap
    /\ maintenance \in BOOLEAN /\ dirty \in BOOLEAN
    /\ bad \in Seq(BOOLEAN)
    /\ stateOf \in [Keys -> 0..Len(bad)]
    /\ locked \subseteq 1..Len(bad)
    /\ active \in [Keys -> [on : BOOLEAN, muted : BOOLEAN, since : Nat]]
    /\ log \in Seq(Event) /\ sending \subseteq Event /\ tab \subseteq Keys
    /\ clock \in Nat /\ edits \in Nat
    /\ DOMAIN th = Threads /\ \A x \in Threads : Sound(th[x], Len(bad), clock)

(* A subjectState is of one key, and its lock is held by one goroutine.     *)
StatesAreOfOneKey ==
    \A j, k \in Keys : stateOf[j] = stateOf[k] /\ stateOf[j] # 0 => j = k

LocksExclude ==
    \A x \in Threads : th[x].pc \in InState =>
        /\ th[x].obj \in locked
        /\ \A y \in Threads : th[y].pc \in InState /\ th[y].obj = th[x].obj => y = x

(* As long as no rule changes, what a goroutine looked up is still the      *)
(* state of its key; under the lock the event, and then the alert, are what *)
(* the state says.                                                          *)
HolderAgrees(x) ==
    /\ th[x].pc \notin Editing
    /\ th[x].pc \in AtState => stateOf[th[x].event.key] = th[x].obj
    /\ th[x].pc = "change" => (th[x].event.kind = "bad" <=> bad[th[x].obj])
    /\ th[x].pc = "notify" => (active[th[x].event.key].on <=> bad[th[x].obj])

HoldersAgree == edits = 0 => \A x \in Threads : HolderAgrees(x)

StateInv == StatesAreOfOneKey /\ LocksExclude /\ HoldersAgree /\ AlertsFollowTheStates

(* No alert is from the future.                                             *)
AlertsHaveBegun == \A k \in Keys : active[k].since <= clock

EngineInv == Types /\ StateInv /\ AlertsHaveBegun /\ NothingHeldBackIsLost
-----------------------------------------------------------------------------
(* The types of what goroutines hold. *)
LEMMA IdleSound == \A n, c \in Nat : Sound(Idle, n, c) /\ Idle.pc = "idle"
  <1> SUFFICES ASSUME NEW n \in Nat, NEW c \in Nat PROVE Sound(Idle, n, c) /\ Idle.pc = "idle"
    OBVIOUS
  <1>1. NoEvent \in AnyEvent
    BY DEF NoEvent, AnyEvent
  <1>2. [r \in Rules |-> Gone] \in RuleMap
    BY DEF RuleMap
  <1>3. Idle \in Records(n)
    BY <1>1, <1>2 DEF Idle, Records, PCs
  <1> QED BY <1>3 DEF Idle, Sound, AtState, InState

LEMMA SoundLater ==
  ASSUME NEW n \in Nat, NEW m \in Nat, n <= m, NEW c \in Nat, NEW d \in Nat, c <= d,
         NEW r, Sound(r, n, c)
  PROVE  Sound(r, m, d)
  <1>1. r \in Records(m)
    BY DEF Sound, Records
  <1>2. r.event.at \in Nat
    BY DEF Sound, Records, AnyEvent
  <1> QED BY <1>1, <1>2 DEF Sound

(* One goroutine moves. *)
LEMMA OneMoves ==
  ASSUME Types, NEW x \in Threads, NEW r, Goes(x, r), Len(bad') \in Nat, Len(bad) <= Len(bad'),
         clock' \in Nat, clock <= clock', Sound(r, Len(bad'), clock')
  PROVE  /\ DOMAIN th' = Threads
         /\ th'[x] = r /\ \A y \in Threads : y # x => th'[y] = th[y]
         /\ \A y \in Threads : Sound(th'[y], Len(bad'), clock')
  <1>1. /\ DOMAIN th' = Threads
        /\ th'[x] = r /\ \A y \in Threads : y # x => th'[y] = th[y]
    BY DEF Types, Goes
  <1>2. Len(bad) \in Nat /\ clock \in Nat
    BY LenProperties DEF Types
  <1>3. \A y \in Threads : y # x => Sound(th[y], Len(bad'), clock')
    BY <1>2, SoundLater DEF Types
  <1> QED BY <1>1, <1>3

(* The parts of the engine, for a step that changes none of the states.     *)
LEMMA TypesMove ==
  ASSUME Types, NEW x \in Threads, NEW r, Goes(x, r), Sound(r, Len(bad), clock),
         UNCHANGED <<bad, stateOf, locked, clock>>,
         rules' \in RuleMap, byID' \in RuleMap, maintenance' \in BOOLEAN, dirty' \in BOOLEAN,
         active' \in [Keys -> [on : BOOLEAN, muted : BOOLEAN, since : Nat]],
         log' \in Seq(Event), sending' \subseteq Event, tab' \subseteq Keys, edits' \in Nat
  PROVE  Types'
  <1>1. Len(bad) \in Nat /\ clock \in Nat
    BY LenProperties DEF Types
  <1>2. DOMAIN th' = Threads /\ \A y \in Threads : Sound(th'[y], Len(bad'), clock')
    BY <1>1, OneMoves
  <1> QED BY <1>2 DEF Types

(* What a goroutine has, by its step. *)
LEMMA HasType ==
  ASSUME Types, NEW x \in Threads
  PROVE  /\ Len(bad) \in Nat /\ clock \in Nat /\ edits \in Nat
         /\ th[x].pc \in PCs /\ th[x].snap \in RuleMap /\ th[x].old \in RuleMap /\ th[x].todo \subseteq Keys
         /\ th[x].hit \in BOOLEAN /\ th[x].event \in AnyEvent /\ th[x].events \subseteq Event
         /\ th[x].view \subseteq Keys /\ th[x].obj \in 0..Len(bad)
         /\ th[x].pc \in AtState => th[x].obj \in 1..Len(bad)
         /\ th[x].pc \in AtState \cup {"forget"} => th[x].event.key \in Keys
         /\ th[x].pc \in InState => th[x].event.kind \in {"bad", "resolved"} /\ th[x].event.at <= clock
         /\ th[x].pc # "send" => th[x].events = {}
  <1>1. Sound(th[x], Len(bad), clock) /\ Len(bad) \in Nat /\ clock \in Nat /\ edits \in Nat
    BY LenProperties DEF Types
  <1> QED BY <1>1 DEF Sound, Records

LEMMA EmitType ==
  ASSUME Types, NEW e \in Event, Emit(e)
  PROVE  log' \in Seq(Event) /\ sending' \subseteq Event /\ dirty' \in BOOLEAN
  <1>1. log \in Seq(Event)
    BY DEF Types
  <1>2. Append(log, e) \in Seq(Event)
    BY <1>1, AppendProperties
  <1> QED BY <1>1, <1>2 DEF Types, Emit

(* Where a goroutine goes without a state: what it then holds.              *)
LEMMA SoundPlain ==
  ASSUME Types, NEW x \in Threads, NEW pc \in PCs \ (AtState \cup {"forget"}),
         th[x].pc # "send" \/ th[x].events = {} \/ pc = "send"
  PROVE  /\ Sound([th[x] EXCEPT !.pc = pc], Len(bad), clock)
         /\ \A b \in RuleMap : Sound([th[x] EXCEPT !.pc = pc, !.old = b], Len(bad), clock)
         /\ \A b \in RuleMap : Sound([th[x] EXCEPT !.pc = pc, !.snap = b], Len(bad), clock)
         /\ \A ks \in SUBSET Keys : Sound([th[x] EXCEPT !.pc = pc, !.todo = ks], Len(bad), clock)
  <1>1. th[x] \in Records(Len(bad)) /\ (th[x].pc # "send" => th[x].events = {})
    BY DEF Types, Sound
  <1>2. pc \in PCs /\ pc \notin AtState /\ pc # "forget" /\ pc \notin InState
    BY DEF AtState, InState
  <1>3. pc # "send" => th[x].events = {}
    BY <1>1
  <1>4. Sound([th[x] EXCEPT !.pc = pc], Len(bad), clock)
    BY <1>1, <1>2, <1>3 DEF Sound, Records
  <1>5. ASSUME NEW b \in RuleMap
        PROVE  /\ Sound([th[x] EXCEPT !.pc = pc, !.old = b], Len(bad), clock)
               /\ Sound([th[x] EXCEPT !.pc = pc, !.snap = b], Len(bad), clock)
    BY <1>1, <1>2, <1>3 DEF Sound, Records
  <1>6. ASSUME NEW ks \in SUBSET Keys
        PROVE  Sound([th[x] EXCEPT !.pc = pc, !.todo = ks], Len(bad), clock)
    BY <1>1, <1>2, <1>3 DEF Sound, Records
  <1> QED BY <1>4, <1>5, <1>6

LEMMA SoundFresh ==
  ASSUME NEW n \in Nat, NEW c \in Nat, NEW pc \in PCs \ (AtState \cup {"forget"}),
         NEW snap \in RuleMap, NEW todo \in SUBSET Keys, NEW hit \in BOOLEAN, NEW view \in SUBSET Keys
  PROVE  /\ Sound([Idle EXCEPT !.pc = pc, !.snap = snap, !.hit = hit, !.todo = todo], n, c)
         /\ Sound([Idle EXCEPT !.pc = pc, !.snap = snap, !.todo = todo, !.hit = hit], n, c)
         /\ Sound([Idle EXCEPT !.pc = pc, !.snap = snap, !.hit = hit], n, c)
         /\ Sound([Idle EXCEPT !.pc = pc, !.snap = snap], n, c)
         /\ Sound([Idle EXCEPT !.pc = pc, !.view = view], n, c)
         /\ Sound([Idle EXCEPT !.pc = pc], n, c)
  <1>1. Idle \in Records(n) /\ Idle.events = {}
    BY IdleSound DEF Sound, Idle
  <1>2. pc \in PCs /\ pc \notin AtState /\ pc # "forget" /\ pc \notin InState
    BY DEF AtState, InState
  <1> HIDE DEF Idle
  <1>3. /\ Sound([Idle EXCEPT !.pc = pc, !.snap = snap, !.hit = hit, !.todo = todo], n, c)
        /\ Sound([Idle EXCEPT !.pc = pc, !.snap = snap, !.todo = todo, !.hit = hit], n, c)
    BY <1>1, <1>2 DEF Sound, Records
  <1>4. /\ Sound([Idle EXCEPT !.pc = pc, !.snap = snap, !.hit = hit], n, c)
        /\ Sound([Idle EXCEPT !.pc = pc, !.snap = snap], n, c)
    BY <1>1, <1>2 DEF Sound, Records
  <1>5. /\ Sound([Idle EXCEPT !.pc = pc, !.view = view], n, c)
        /\ Sound([Idle EXCEPT !.pc = pc], n, c)
    BY <1>1, <1>2 DEF Sound, Records
  <1> QED BY <1>3, <1>4, <1>5
-----------------------------------------------------------------------------
(* What is underway, event by event. *)
LEMMA UnderwayIs ==
  /\ \A f : f \in Underway <=> \/ f \in sending
                               \/ \E y \in Threads : f \in th[y].events
                               \/ \E y \in Threads : th[y].pc = "notify" /\ f = th[y].event
                               \/ \E i \in 1..Len(log) : f = log[i]
  /\ \A f : f \in Underway' <=> \/ f \in sending'
                                \/ \E y \in Threads : f \in th'[y].events
                                \/ \E y \in Threads : th'[y].pc = "notify" /\ f = th'[y].event
                                \/ \E i \in 1..Len(log') : f = log'[i]
  <1> DEFINE held == UNION {th[x].events : x \in Threads}
             told == {th[x].event : x \in {y \in Threads : th[y].pc = "notify"}}
             logged == {log[i] : i \in 1..Len(log)}
  <1>1. \A f : f \in held <=> \E y \in Threads : f \in th[y].events
    OBVIOUS
  <1>2. \A f : f \in told <=> \E y \in Threads : th[y].pc = "notify" /\ f = th[y].event
    OBVIOUS
  <1>3. \A f : f \in logged <=> \E i \in 1..Len(log) : f = log[i]
    OBVIOUS
  <1>4. \A f : f \in held' <=> \E y \in Threads : f \in th'[y].events
    OBVIOUS
  <1>5. \A f : f \in told' <=> \E y \in Threads : th'[y].pc = "notify" /\ f = th'[y].event
    OBVIOUS
  <1>6. \A f : f \in logged' <=> \E i \in 1..Len(log') : f = log'[i]
    OBVIOUS
  <1>7. Underway = sending \cup held \cup told \cup logged
    BY DEF Underway
  <1>8. Underway' = sending' \cup held' \cup told' \cup logged'
    BY DEF Underway
  <1> HIDE DEF held, told, logged
  <1> QED BY <1>1, <1>2, <1>3, <1>4, <1>5, <1>6, <1>7, <1>8

(* The beginning. *)
LEMMA NotGone == \A f \in [Rules -> Watches] : f \in RuleMap
  BY DEF RuleMap

LEMMA InitTypes == Init => Types
  <1> SUFFICES ASSUME Init PROVE Types
    OBVIOUS
  <1>1. rules \in RuleMap /\ byID \in RuleMap
    BY NotGone DEF Init
  <1>2. bad \in Seq(BOOLEAN) /\ Len(bad) = 0 /\ log \in Seq(Event)
    BY EmptySeq DEF Init
  <1>3. maintenance \in BOOLEAN /\ dirty \in BOOLEAN
    BY DEF Init
  <1>4. stateOf \in [Keys -> 0..Len(bad)] /\ locked \subseteq 1..Len(bad)
    BY <1>2 DEF Init
  <1>5. active \in [Keys -> [on : BOOLEAN, muted : BOOLEAN, since : Nat]]
    BY DEF Init, NoAlert
  <1>6. sending \subseteq Event /\ tab \subseteq Keys /\ clock \in Nat /\ edits \in Nat
    BY DEF Init
  <1>7. DOMAIN th = Threads /\ \A x \in Threads : th[x] = Idle
    BY DEF Init
  <1>8. \A x \in Threads : Sound(th[x], Len(bad), clock)
    BY <1>2, <1>6, <1>7, IdleSound
  <1> QED BY <1>1, <1>2, <1>3, <1>4, <1>5, <1>6, <1>7, <1>8 DEF Types

LEMMA InitRest == Init => StateInv /\ AlertsHaveBegun /\ NothingHeldBackIsLost
  <1> SUFFICES ASSUME Init PROVE StateInv /\ AlertsHaveBegun /\ NothingHeldBackIsLost
    OBVIOUS
  <1>1. /\ \A x \in Threads : th[x].pc = "idle"
        /\ \A k \in Keys : stateOf[k] = 0 /\ ~active[k].on /\ active[k].since = 0
        /\ clock = 0
    BY IdleSound DEF Init, NoAlert
  <1>2. StatesAreOfOneKey /\ LocksExclude
    BY <1>1 DEF StatesAreOfOneKey, LocksExclude, InState
  <1>3. HoldersAgree
    BY <1>1 DEF HoldersAgree, HolderAgrees, AtState, Editing
  <1>4. AlertsFollowTheStates
    BY <1>1 DEF AlertsFollowTheStates
  <1>5. AlertsHaveBegun /\ NothingHeldBackIsLost
    BY <1>1 DEF AlertsHaveBegun, NothingHeldBackIsLost
  <1> QED BY <1>2, <1>3, <1>4, <1>5 DEF StateInv
-----------------------------------------------------------------------------
(* Most steps touch neither a state, nor an alert, nor an event: a          *)
(* goroutine goes from one plain step to another.                           *)
Plain(x, r) ==
    /\ Goes(x, r) /\ Sound(r, Len(bad), clock)
    /\ th[x].pc \notin InState /\ th[x].events = {}
    /\ r.pc \notin AtState \cup {"forget"} /\ r.events = {}
    /\ r.pc \in Editing => th[x].pc \in Editing \/ edits' # 0
    /\ edits' \in Nat /\ edits' >= edits
    /\ UNCHANGED <<stateOf, bad, locked, active, log, sending, clock>>
    /\ rules' \in RuleMap /\ byID' \in RuleMap /\ maintenance' \in BOOLEAN
    /\ dirty' \in BOOLEAN /\ tab' \subseteq Keys

LEMMA PlainKeeps ==
  ASSUME EngineInv, NEW x \in Threads, NEW r, Plain(x, r)
  PROVE  EngineInv'
  <1>0. Types /\ StateInv /\ AlertsHaveBegun /\ NothingHeldBackIsLost
    BY DEF EngineInv
  <1>1. th'[x] = r /\ \A y \in Threads : y # x => th'[y] = th[y]
    BY <1>0 DEF Types, Goes, Plain
  <1>2. Types'
    <2>1. /\ log' \in Seq(Event) /\ sending' \subseteq Event
          /\ active' \in [Keys -> [on : BOOLEAN, muted : BOOLEAN, since : Nat]]
      BY <1>0 DEF Types, Plain
    <2> QED BY <1>0, <2>1, TypesMove DEF Plain
  <1>3. th[x].pc \notin InState /\ r.pc \notin InState /\ r.pc \notin AtState /\ edits \in Nat
    BY <1>0 DEF Plain, InState, AtState, Types
  <1>4. StatesAreOfOneKey'
    BY <1>0 DEF StateInv, StatesAreOfOneKey, Plain
  <1>5. LocksExclude'
    BY <1>0, <1>1, <1>3 DEF StateInv, LocksExclude, Plain
  <1>6. HoldersAgree'
    <2> SUFFICES ASSUME edits' = 0, NEW y \in Threads PROVE HolderAgrees(y)'
      BY DEF HoldersAgree
    <2>1. edits = 0
      BY <1>3 DEF Plain
    <2>2. HolderAgrees(x) /\ HolderAgrees(y)
      BY <1>0, <2>1 DEF StateInv, HoldersAgree
    <2>3. CASE y = x
      <3>1. r.pc \notin Editing /\ r.pc \notin {"change", "notify"}
        BY <1>3, <2>2 DEF HolderAgrees, Plain, InState
      <3> QED BY <1>1, <1>3, <2>3, <3>1 DEF HolderAgrees
    <2>4. CASE y # x
      BY <1>1, <2>2, <2>4 DEF HolderAgrees, Plain
    <2> QED BY <2>3, <2>4
  <1>7. AlertsFollowTheStates'
    BY <1>0, <1>3 DEF StateInv, AlertsFollowTheStates, Plain
  <1>8. AlertsHaveBegun'
    BY <1>0 DEF AlertsHaveBegun, Plain
  <1>9. Underway \subseteq Underway'
    <2>1. \A y \in Threads : th[y].pc = "notify" => th'[y] = th[y]
      BY <1>1, <1>3 DEF InState
    <2>2. \A y \in Threads : th[y].events \subseteq th'[y].events
      BY <1>1 DEF Plain
    <2>3. UNCHANGED <<log, sending>>
      BY DEF Plain
    <2> QED BY <2>1, <2>2, <2>3 DEF Underway
  <1>10. NothingHeldBackIsLost'
    BY <1>0, <1>9 DEF NothingHeldBackIsLost, Plain
  <1> QED BY <1>2, <1>4, <1>5, <1>6, <1>7, <1>8, <1>10 DEF EngineInv, StateInv

(* The steps that are plain. *)
LEMMA TablesStay ==
  ASSUME Types
  PROVE  /\ rules \in RuleMap /\ byID \in RuleMap /\ maintenance \in BOOLEAN /\ dirty \in BOOLEAN
         /\ tab \subseteq Keys /\ edits \in Nat /\ Len(bad) \in Nat /\ clock \in Nat
  BY LenProperties DEF Types

LEMMA PlainPCs ==
  /\ {"idle", "pick", "refresh", "send", "store", "storeMap", "range", "flush", "deliver"} \subseteq PCs \ (AtState \cup {"forget"})
  /\ {"idle", "pick", "refresh", "send", "flush", "deliver"} \cap Editing = {}
  /\ InState \cap {"idle", "pick", "send", "store", "storeMap", "range", "flush", "deliver"} = {}
  BY DEF PCs, AtState, Editing, InState

LEMMA PlainObserver ==
  ASSUME EngineInv, NEW t \in Targets, ObserveStart(t) \/ ObserveDone(t)
  PROVE  EngineInv'
  <1>0. Types /\ t \in Threads
    BY DEF EngineInv, Threads
  <1>1. CASE ObserveStart(t)
    <2>1. PICK hit \in BOOLEAN :
             Goes(t, [Idle EXCEPT !.pc = "pick", !.snap = rules, !.hit = hit,
                                  !.todo = {<<r, t>> : r \in {q \in Rules : rules[q] # Gone}}])
      BY <1>1 DEF ObserveStart
    <2> DEFINE todo == {<<r, t>> : r \in {q \in Rules : rules[q] # Gone}}
               rec == [Idle EXCEPT !.pc = "pick", !.snap = rules, !.hit = hit, !.todo = todo]
    <2>2. todo \in SUBSET Keys
      BY DEF Keys
    <2> HIDE DEF todo
    <2>3. Sound(rec, Len(bad), clock)
      BY <1>0, <2>2, TablesStay, SoundFresh, PlainPCs
    <2>4. rec.pc = "pick" /\ rec.events = {}
      BY DEF Idle
    <2>5. th[t].pc = "idle" /\ th[t].events = {} /\ UNCHANGED <<engine, edits>>
      BY <1>0, <1>1, HasType DEF ObserveStart
    <2>6. Goes(t, rec)
      BY <2>1 DEF todo
    <2> HIDE DEF rec
    <2>7. Plain(t, rec)
      BY <1>0, <2>3, <2>4, <2>5, <2>6, TablesStay, PlainPCs DEF Plain, engine
    <2> QED BY <1>0, <2>7, PlainKeeps
  <1>2. CASE ObserveDone(t)
    <2>1. Goes(t, Idle) /\ th[t].pc = "pick" /\ th[t].events = {} /\ UNCHANGED <<engine, edits>>
      BY <1>0, <1>2, HasType DEF ObserveDone, Unbounded
    <2>2. Sound(Idle, Len(bad), clock) /\ Idle.pc = "idle" /\ Idle.events = {}
      BY <1>0, TablesStay, IdleSound DEF Idle
    <2>3. Plain(t, Idle)
      BY <1>0, <2>1, <2>2, TablesStay, PlainPCs DEF Plain, engine
    <2> QED BY <1>0, <2>3, PlainKeeps
  <1> QED BY <1>1, <1>2

LEMMA PlainTicker ==
  ASSUME EngineInv, TickStart \/ TickVisited \/ TickDone
  PROVE  EngineInv'
  <1>0. Types /\ Ticker \in Threads
    BY DEF EngineInv, Threads
  <1>1. CASE TickStart
    <2> DEFINE rec == [Idle EXCEPT !.pc = "pick", !.snap = byID, !.todo = Keys, !.hit = TRUE]
    <2>1. Goes(Ticker, rec) /\ th[Ticker].pc = "idle" /\ th[Ticker].events = {} /\ UNCHANGED <<engine, edits>>
      BY <1>0, <1>1, HasType DEF TickStart, Unbounded
    <2>2. Sound(rec, Len(bad), clock)
      BY <1>0, TablesStay, SoundFresh, PlainPCs
    <2>3. rec.pc = "pick" /\ rec.events = {}
      BY DEF Idle
    <2> HIDE DEF rec
    <2>4. Plain(Ticker, rec)
      BY <1>0, <2>1, <2>2, <2>3, TablesStay, PlainPCs DEF Plain, engine
    <2> QED BY <1>0, <2>4, PlainKeeps
  <1>2. CASE TickVisited
    <2> DEFINE rec == [Idle EXCEPT !.pc = "refresh", !.snap = byID]
    <2>1. Goes(Ticker, rec) /\ th[Ticker].pc = "pick" /\ th[Ticker].events = {} /\ UNCHANGED <<engine, edits>>
      BY <1>0, <1>2, HasType DEF TickVisited, Unbounded
    <2>2. Sound(rec, Len(bad), clock)
      BY <1>0, TablesStay, SoundFresh, PlainPCs
    <2>3. rec.pc = "refresh" /\ rec.events = {}
      BY DEF Idle
    <2> HIDE DEF rec
    <2>4. Plain(Ticker, rec)
      BY <1>0, <2>1, <2>2, <2>3, TablesStay, PlainPCs DEF Plain, engine
    <2> QED BY <1>0, <2>4, PlainKeeps
  <1>3. CASE TickDone
    <2>1. Goes(Ticker, Idle) /\ th[Ticker].pc = "send" /\ th[Ticker].events = {} /\ UNCHANGED <<engine, edits>>
      BY <1>0, <1>3, HasType DEF TickDone, Unbounded
    <2>2. Sound(Idle, Len(bad), clock) /\ Idle.pc = "idle" /\ Idle.events = {}
      BY <1>0, TablesStay, IdleSound DEF Idle
    <2>3. Plain(Ticker, Idle)
      BY <1>0, <2>1, <2>2, TablesStay, PlainPCs DEF Plain, engine
    <2> QED BY <1>0, <2>3, PlainKeeps
  <1> QED BY <1>1, <1>2, <1>3

LEMMA PlainBegins ==
  ASSUME EngineInv, NEW a \in Admins, EditStart(a) \/ SetMaintenance(a)
  PROVE  EngineInv'
  <1>0. Types /\ a \in Threads
    BY DEF EngineInv, Threads
  <1>1. CASE EditStart(a)
    <2>1. PICK r \in Rules, w \in Watches \cup {Gone} :
             Goes(a, [Idle EXCEPT !.pc = "store", !.snap = [rules EXCEPT ![r] = w], !.hit = TRUE])
      BY <1>1 DEF EditStart
    <2> DEFINE snap == [rules EXCEPT ![r] = w]
               rec == [Idle EXCEPT !.pc = "store", !.snap = snap, !.hit = TRUE]
    <2>2. snap \in RuleMap
      BY <1>0 DEF Types, RuleMap
    <2>6. Goes(a, rec)
      BY <2>1
    <2> HIDE DEF snap
    <2>3. Sound(rec, Len(bad), clock)
      BY <1>0, <2>2, TablesStay, SoundFresh, PlainPCs
    <2>4. rec.pc = "store" /\ rec.events = {}
      BY DEF Idle
    <2> HIDE DEF rec
    <2>5. /\ th[a].pc = "idle" /\ th[a].events = {} /\ edits' = edits + 1
          /\ UNCHANGED <<rules, byID, maintenance, stateOf, bad, locked, active, log, sending, dirty, tab, clock>>
      BY <1>0, <1>1, HasType DEF EditStart
    <2>7. edits' \in Nat /\ edits' >= edits /\ edits' # 0
      BY <1>0, <2>5, TablesStay
    <2>8. Plain(a, rec)
      BY <1>0, <2>3, <2>4, <2>5, <2>6, <2>7, TablesStay, PlainPCs DEF Plain
    <2> QED BY <1>0, <2>8, PlainKeeps
  <1>2. CASE SetMaintenance(a)
    <2> DEFINE rec == [Idle EXCEPT !.pc = "refresh", !.snap = byID]
    <2>1. /\ Goes(a, rec) /\ th[a].pc = "idle" /\ th[a].events = {} /\ maintenance' = ~maintenance
          /\ UNCHANGED <<rules, byID, stateOf, bad, locked, active, log, sending, dirty, tab, clock, edits>>
      BY <1>0, <1>2, HasType DEF SetMaintenance
    <2>2. Sound(rec, Len(bad), clock)
      BY <1>0, TablesStay, SoundFresh, PlainPCs
    <2>3. rec.pc = "refresh" /\ rec.events = {}
      BY DEF Idle
    <2> HIDE DEF rec
    <2>5. maintenance' \in BOOLEAN
      BY <2>1
    <2>4. Plain(a, rec)
      BY <1>0, <2>1, <2>2, <2>3, <2>5, TablesStay, PlainPCs DEF Plain
    <2> QED BY <1>0, <2>4, PlainKeeps
  <1> QED BY <1>1, <1>2

LEMMA PlainStores ==
  ASSUME EngineInv, NEW a \in Admins, StoreRules(a) \/ StoreMap(a) \/ ForgotAll(a) \/ Refreshed(a)
  PROVE  EngineInv'
  <1>0. Types /\ a \in Threads
    BY DEF EngineInv, Threads
  <1>00. th[a].snap \in RuleMap /\ (th[a].pc # "send" => th[a].events = {})
    BY <1>0, HasType
  <1>01. th[a] \in Records(Len(bad))
    BY <1>0 DEF Types, Sound
  <1>1. CASE StoreRules(a)
    <2> DEFINE rec == [th[a] EXCEPT !.pc = "storeMap", !.old = byID]
    <2>1. /\ Goes(a, rec) /\ th[a].pc = "store" /\ rules' = th[a].snap
          /\ UNCHANGED <<byID, maintenance, stateOf, bad, locked, active, log, sending, dirty, tab, clock, edits>>
      BY <1>1 DEF StoreRules, Unbounded
    <2>2. Sound(rec, Len(bad), clock)
      BY <1>0, <2>1, TablesStay, SoundPlain, PlainPCs
    <2>3. rec.pc = "storeMap" /\ rec.events = {}
      BY <1>00, <1>01, <2>1 DEF Records
    <2> HIDE DEF rec
    <2>5. th[a].pc \in Editing /\ rec.pc \notin AtState \cup {"forget"} /\ th[a].events = {}
      BY <1>00, <2>1, <2>3, PlainPCs DEF Editing
    <2>4. Plain(a, rec)
      BY <1>0, <1>00, <2>1, <2>2, <2>3, <2>5, TablesStay, PlainPCs DEF Plain
    <2> QED BY <1>0, <2>4, PlainKeeps
  <1>2. CASE StoreMap(a)
    <2> DEFINE todo == {k \in Keys : stateOf[k] # 0}
               rec == [th[a] EXCEPT !.pc = "range", !.todo = todo]
    <2>1. /\ Goes(a, rec) /\ th[a].pc = "storeMap" /\ byID' = th[a].snap
          /\ UNCHANGED <<rules, maintenance, stateOf, bad, locked, active, log, sending, dirty, tab, clock, edits>>
      BY <1>2 DEF StoreMap, Unbounded
    <2>2. todo \in SUBSET Keys
      OBVIOUS
    <2> HIDE DEF todo
    <2>5. Sound(rec, Len(bad), clock)
      BY <1>0, <2>1, <2>2, TablesStay, SoundPlain, PlainPCs
    <2>3. rec.pc = "range" /\ rec.events = {}
      BY <1>00, <1>01, <2>1 DEF Records
    <2> HIDE DEF rec
    <2>6. th[a].pc \in Editing /\ rec.pc \notin AtState \cup {"forget"} /\ th[a].events = {}
      BY <1>00, <2>1, <2>3, PlainPCs DEF Editing
    <2>4. Plain(a, rec)
      BY <1>0, <1>00, <2>1, <2>5, <2>3, <2>6, TablesStay, PlainPCs DEF Plain
    <2> QED BY <1>0, <2>4, PlainKeeps
  <1>3. CASE ForgotAll(a)
    <2> DEFINE rec == [th[a] EXCEPT !.pc = "refresh", !.snap = byID]
    <2>1. Goes(a, rec) /\ th[a].pc = "range" /\ UNCHANGED <<engine, edits>>
      BY <1>3 DEF ForgotAll, Unbounded
    <2>2. Sound(rec, Len(bad), clock)
      BY <1>0, <2>1, TablesStay, SoundPlain, PlainPCs
    <2>3. rec.pc = "refresh" /\ rec.events = {}
      BY <1>00, <1>01, <2>1 DEF Records
    <2> HIDE DEF rec
    <2>5. rec.pc \notin AtState \cup {"forget"} /\ rec.pc \notin Editing /\ th[a].events = {}
      BY <1>00, <2>1, <2>3, PlainPCs
    <2>4. Plain(a, rec)
      BY <1>0, <2>1, <2>2, <2>3, <2>5, TablesStay, PlainPCs DEF Plain, engine
    <2> QED BY <1>0, <2>4, PlainKeeps
  <1>4. CASE Refreshed(a)
    <2> DEFINE rec == [th[a] EXCEPT !.pc = "flush"]
    <2>1. /\ Goes(a, rec) /\ th[a].pc = "send" /\ th[a].events = {} /\ dirty' = (dirty \/ th[a].hit)
          /\ UNCHANGED <<rules, byID, maintenance, stateOf, bad, locked, active, log, sending, tab, clock, edits>>
      BY <1>4 DEF Refreshed, Unbounded
    <2>2. Sound(rec, Len(bad), clock)
      BY <1>0, <2>1, TablesStay, SoundPlain, PlainPCs
    <2>3. rec.pc = "flush" /\ rec.events = {}
      BY <1>00, <1>01, <2>1 DEF Records
    <2> HIDE DEF rec
    <2>5. dirty' \in BOOLEAN
      BY <2>1
    <2>4. Plain(a, rec)
      BY <1>0, <2>1, <2>2, <2>3, <2>5, TablesStay, PlainPCs DEF Plain
    <2> QED BY <1>0, <2>4, PlainKeeps
  <1> QED BY <1>1, <1>2, <1>3, <1>4

LEMMA PlainFlush ==
  ASSUME EngineInv, NEW x \in Threads, FlushRead(x) \/ Deliver(x) \/ (x = Broadcaster /\ Wake)
  PROVE  EngineInv'
  <1>0. Types
    BY DEF EngineInv
  <1>1. CASE FlushRead(x)
    <2> DEFINE rec == [Idle EXCEPT !.pc = "deliver", !.view = Showing]
    <2>1. Goes(x, rec) /\ th[x].pc = "flush" /\ th[x].events = {} /\ UNCHANGED <<engine, edits>>
      BY <1>0, <1>1, HasType DEF FlushRead, Unbounded
    <2>5. Showing \in SUBSET Keys
      BY DEF Showing
    <2>2. Sound(rec, Len(bad), clock)
      BY <1>0, <2>5, TablesStay, SoundFresh, PlainPCs
    <2>3. rec.pc = "deliver" /\ rec.events = {}
      BY DEF Idle
    <2> HIDE DEF rec
    <2>4. Plain(x, rec)
      BY <1>0, <2>1, <2>2, <2>3, TablesStay, PlainPCs DEF Plain, engine
    <2> QED BY <1>0, <2>4, PlainKeeps
  <1>2. CASE Deliver(x)
    <2>1. /\ Goes(x, Idle) /\ th[x].pc = "deliver" /\ th[x].events = {} /\ tab' = th[x].view
          /\ UNCHANGED <<rules, byID, maintenance, stateOf, bad, locked, active, log, sending, dirty, clock, edits>>
      BY <1>0, <1>2, HasType DEF Deliver, Unbounded
    <2>2. Sound(Idle, Len(bad), clock) /\ Idle.pc = "idle" /\ Idle.events = {}
      BY <1>0, TablesStay, IdleSound DEF Idle
    <2>3. tab' \subseteq Keys
      BY <1>0, <2>1, HasType
    <2>4. Plain(x, Idle)
      BY <1>0, <2>1, <2>2, <2>3, TablesStay, PlainPCs DEF Plain
    <2> QED BY <1>0, <2>4, PlainKeeps
  <1>3. CASE x = Broadcaster /\ Wake
    <2> DEFINE rec == [Idle EXCEPT !.pc = "flush"]
    <2>1. /\ Goes(x, rec) /\ th[x].pc = "idle" /\ th[x].events = {} /\ dirty' = FALSE
          /\ UNCHANGED <<rules, byID, maintenance, stateOf, bad, locked, active, log, sending, tab, clock, edits>>
      BY <1>0, <1>3, HasType DEF Wake, Unbounded
    <2>2. Sound(rec, Len(bad), clock)
      BY <1>0, TablesStay, SoundFresh, PlainPCs
    <2>3. rec.pc = "flush" /\ rec.events = {}
      BY DEF Idle
    <2> HIDE DEF rec
    <2>5. dirty' \in BOOLEAN
      BY <2>1
    <2>4. Plain(x, rec)
      BY <1>0, <2>1, <2>2, <2>3, <2>5, TablesStay, PlainPCs DEF Plain
    <2> QED BY <1>0, <2>4, PlainKeeps
  <1> QED BY <1>1, <1>2, <1>3
-----------------------------------------------------------------------------
(* A state is looked up, or made. *)
LEMMA LookedUp ==
  ASSUME EngineInv, NEW x \in Threads, NEW k \in Keys, NEW ks \in SUBSET Keys,
         th[x].pc = "pick",
         Goes(x, [th[x] EXCEPT !.pc = "lock", !.obj = stateOf'[k], !.event.key = k, !.todo = ks]),
         \/ stateOf[k] # 0 /\ UNCHANGED <<stateOf, bad>>
         \/ stateOf[k] = 0 /\ bad' = Append(bad, FALSE) /\ stateOf' = [stateOf EXCEPT ![k] = Len(bad) + 1],
         UNCHANGED <<rules, byID, maintenance, locked, active, log, sending, dirty, tab, clock, edits>>
  PROVE  EngineInv'
  <1> DEFINE r == [th[x] EXCEPT !.pc = "lock", !.obj = stateOf'[k], !.event.key = k, !.todo = ks]
             n == Len(bad)
  <1>0. Types /\ StateInv /\ AlertsHaveBegun /\ NothingHeldBackIsLost
    BY DEF EngineInv
  <1>1. /\ bad \in Seq(BOOLEAN) /\ n \in Nat /\ clock \in Nat
        /\ stateOf \in [Keys -> 0..n] /\ locked \subseteq 1..n
    BY <1>0, TablesStay DEF Types
  <1>2. /\ bad' \in Seq(BOOLEAN) /\ Len(bad') \in Nat /\ n <= Len(bad') /\ \A i \in 1..n : bad'[i] = bad[i]
        /\ stateOf' \in [Keys -> 0..Len(bad')] /\ stateOf'[k] \in 1..Len(bad')
        /\ \A j \in Keys : j # k => stateOf'[j] = stateOf[j]
    <2>1. CASE stateOf[k] # 0 /\ UNCHANGED <<stateOf, bad>>
      BY <1>1, <2>1
    <2>2. CASE stateOf[k] = 0 /\ bad' = Append(bad, FALSE) /\ stateOf' = [stateOf EXCEPT ![k] = n + 1]
      <3>1. bad' \in Seq(BOOLEAN) /\ Len(bad') = n + 1 /\ \A i \in 1..n : bad'[i] = bad[i]
        BY <1>1, <2>2, AppendProperties
      <3> QED BY <1>1, <2>2, <3>1
    <2> QED BY <2>1, <2>2
  <1>3. Sound(r, Len(bad'), clock')
    <2>1. th[x] \in Records(n) /\ th[x].event \in AnyEvent /\ th[x].events = {}
      BY <1>0, HasType DEF Types, Sound
    <2>2. [th[x].event EXCEPT !.key = k] \in AnyEvent
      BY <2>1 DEF AnyEvent
    <2>3. /\ r \in Records(Len(bad')) /\ r.pc = "lock" /\ r.obj = stateOf'[k]
          /\ r.event = [th[x].event EXCEPT !.key = k] /\ r.events = {}
      BY <1>1, <1>2, <2>1, <2>2 DEF Records, PCs
    <2>4. r.event.key = k
      BY <2>1, <2>3 DEF AnyEvent
    <2> HIDE DEF r
    <2> QED BY <1>2, <2>3, <2>4 DEF Sound, AtState, InState
  <1>4. r.pc = "lock" /\ r.obj = stateOf'[k] /\ r.event.key = k /\ r.events = {}
    <2>1. th[x] \in Records(n) /\ th[x].event \in AnyEvent /\ th[x].events = {}
      BY <1>0, HasType DEF Types, Sound
    <2> QED BY <2>1 DEF Records, AnyEvent
  <1> HIDE DEF r
  <1>5. /\ DOMAIN th' = Threads
        /\ th'[x] = r /\ \A y \in Threads : y # x => th'[y] = th[y]
        /\ \A y \in Threads : Sound(th'[y], Len(bad'), clock')
    BY <1>0, <1>1, <1>2, <1>3, OneMoves DEF r
  <1>6. Types'
    BY <1>0, <1>1, <1>2, <1>5 DEF Types
  <1>7. StatesAreOfOneKey'
    <2>1. CASE UNCHANGED stateOf
      BY <1>0, <2>1 DEF StateInv, StatesAreOfOneKey
    <2>2. CASE stateOf' = [stateOf EXCEPT ![k] = n + 1]
      BY <1>0, <1>1, <2>2 DEF StateInv, StatesAreOfOneKey
    <2> QED BY <2>1, <2>2
  <1>8. LocksExclude'
    <2>1. th[x].pc \notin InState /\ th'[x].pc \notin InState
      BY <1>4, <1>5 DEF InState
    <2> QED BY <1>0, <1>5, <2>1 DEF StateInv, LocksExclude
  <1>9. HoldersAgree'
    <2> SUFFICES ASSUME edits' = 0, NEW y \in Threads PROVE HolderAgrees(y)'
      BY DEF HoldersAgree
    <2>1. HolderAgrees(y)
      BY <1>0 DEF StateInv, HoldersAgree
    <2>2. CASE y = x
      BY <1>4, <1>5, <2>2 DEF HolderAgrees, Editing
    <2>3. CASE y # x
      <3>1. th'[y] = th[y]
        BY <1>5, <2>3
      <3>2. ASSUME th[y].pc \in AtState
            PROVE  stateOf'[th[y].event.key] = th[y].obj /\ bad'[th[y].obj] = bad[th[y].obj]
        <4>1. th[y].obj \in 1..n /\ th[y].event.key \in Keys /\ stateOf[th[y].event.key] = th[y].obj
          BY <1>0, <2>1, <3>2, HasType DEF HolderAgrees
        <4>2. stateOf'[th[y].event.key] = stateOf[th[y].event.key]
          <5>1. stateOf'[k] = stateOf[k] \/ stateOf[k] = 0
            OBVIOUS
          <5>2. stateOf[th[y].event.key] # 0
            BY <1>1, <4>1
          <5> QED BY <1>2, <4>1, <5>1, <5>2
        <4> QED BY <1>2, <4>1, <4>2
      <3> QED BY <2>1, <3>1, <3>2 DEF HolderAgrees, AtState
    <2> QED BY <2>2, <2>3
  <1>10. AlertsFollowTheStates'
    <2> SUFFICES ASSUME edits' = 0, NEW j \in Keys, stateOf'[j] \notin locked'
                 PROVE  active'[j].on <=> stateOf'[j] # 0 /\ bad'[stateOf'[j]]
      BY DEF AlertsFollowTheStates
    <2>1. stateOf[j] \notin locked => (active[j].on <=> stateOf[j] # 0 /\ bad[stateOf[j]])
      BY <1>0 DEF StateInv, AlertsFollowTheStates
    <2>2. CASE stateOf'[j] = stateOf[j]
      BY <1>1, <1>2, <2>1, <2>2
    <2>3. CASE stateOf'[j] # stateOf[j]
      <3>1. j = k /\ stateOf[k] = 0 /\ stateOf'[k] = n + 1 /\ bad' = Append(bad, FALSE)
        BY <1>1, <1>2, <2>3
      <3>2. bad'[n + 1] = FALSE
        BY <1>1, <3>1, AppendProperties
      <3>3. 0 \notin locked /\ n + 1 # 0
        BY <1>1
      <3> QED BY <2>1, <3>1, <3>2, <3>3
    <2> QED BY <2>2, <2>3
  <1>11. AlertsHaveBegun'
    BY <1>0 DEF AlertsHaveBegun
  <1>12. Underway \subseteq Underway'
    <2>1. \A y \in Threads : th[y].pc = "notify" => th'[y] = th[y]
      BY <1>5
    <2>2. \A y \in Threads : th[y].events \subseteq th'[y].events
      BY <1>0, <1>4, <1>5, HasType
    <2> QED BY <2>1, <2>2 DEF Underway
  <1>13. NothingHeldBackIsLost'
    BY <1>0, <1>12 DEF NothingHeldBackIsLost
  <1> QED BY <1>6, <1>7, <1>8, <1>9, <1>10, <1>11, <1>13 DEF EngineInv, StateInv

LEMMA LookUpKeeps ==
  ASSUME EngineInv, (\E t \in Targets : LoadState(t)) \/ TickVisit
  PROVE  EngineInv'
  <1>1. ASSUME NEW t \in Targets, LoadState(t) PROVE EngineInv'
    <2>1. t \in Threads
      BY DEF Threads
    <2>2. PICK k \in th[t].todo :
             /\ IF stateOf[k] = 0
                THEN bad' = Append(bad, FALSE) /\ stateOf' = [stateOf EXCEPT ![k] = Len(bad) + 1]
                ELSE UNCHANGED <<bad, stateOf>>
             /\ Goes(t, [th[t] EXCEPT !.pc = "lock", !.obj = stateOf'[k],
                                      !.event.key = k, !.todo = @ \ {k}])
      BY <1>1 DEF LoadState
    <2>3. th[t].todo \subseteq Keys
      BY <2>1, HasType DEF EngineInv
    <2>4. th[t].pc = "pick" /\ UNCHANGED <<rules, byID, maintenance, locked, active, log, sending, dirty, tab, clock, edits>>
      BY <1>1 DEF LoadState, Unbounded
    <2>5. k \in Keys /\ th[t].todo \ {k} \in SUBSET Keys
      BY <2>3
    <2> QED BY <2>1, <2>2, <2>4, <2>5, LookedUp
  <1>2. CASE TickVisit
    <2>1. Ticker \in Threads
      BY DEF Threads
    <2>2. PICK k \in th[Ticker].todo :
             /\ stateOf[k] # 0
             /\ Goes(Ticker, [th[Ticker] EXCEPT !.pc = "lock", !.obj = stateOf[k],
                                                !.event.key = k, !.todo = @ \ {k}])
      BY <1>2 DEF TickVisit
    <2>3. th[Ticker].todo \subseteq Keys
      BY <2>1, HasType DEF EngineInv
    <2>4. /\ th[Ticker].pc = "pick"
          /\ UNCHANGED <<rules, byID, maintenance, stateOf, bad, locked, active, log, sending, dirty, tab, clock, edits>>
      BY <1>2 DEF TickVisit, Unbounded, engine
    <2>5. k \in Keys /\ th[Ticker].todo \ {k} \in SUBSET Keys
      BY <2>3
    <2> QED BY <2>1, <2>2, <2>4, <2>5, LookedUp
  <1> QED BY <1>1, <1>2
-----------------------------------------------------------------------------
(* Under the lock of a state. *)
Judged(r, kind, m, c) == [r EXCEPT !.pc = "change", !.event.kind = kind, !.event.muted = m, !.event.at = c]

LEMMA JudgedRecord ==
  ASSUME NEW n, NEW r \in Records(n), NEW kind \in {"bad", "resolved"}, NEW m \in BOOLEAN, NEW c \in Nat
  PROVE  LET q == Judged(r, kind, m, c) IN
         /\ q \in Records(n) /\ q.pc = "change" /\ q.obj = r.obj /\ q.events = r.events
         /\ q.event.key = r.event.key /\ q.event.kind = kind /\ q.event.at = c
  <1> DEFINE e == [key |-> r.event.key, kind |-> kind, muted |-> m, at |-> c]
             q1 == [r EXCEPT !.pc = "change"]
             q2 == [q1 EXCEPT !.event.kind = kind]
             q3 == [q2 EXCEPT !.event.muted = m]
             q4 == [q3 EXCEPT !.event.at = c]
  <1>1. r.event \in AnyEvent
    BY DEF Records
  <1>2. q1 \in Records(n) /\ q1.pc = "change" /\ q1.event = r.event /\ q1.obj = r.obj /\ q1.events = r.events
    BY DEF Records, PCs
  <1> HIDE DEF q1
  <1>3. [r.event EXCEPT !.kind = kind] \in AnyEvent
    BY <1>1 DEF AnyEvent
  <1>4. /\ q2 \in Records(n) /\ q2.event = [r.event EXCEPT !.kind = kind]
        /\ q2.pc = "change" /\ q2.obj = r.obj /\ q2.events = r.events
    BY <1>2, <1>3 DEF Records
  <1> HIDE DEF q2
  <1>5. [[r.event EXCEPT !.kind = kind] EXCEPT !.muted = m] \in AnyEvent
    BY <1>3 DEF AnyEvent
  <1>6. /\ q3 \in Records(n) /\ q3.event = [[r.event EXCEPT !.kind = kind] EXCEPT !.muted = m]
        /\ q3.pc = "change" /\ q3.obj = r.obj /\ q3.events = r.events
    BY <1>4, <1>5 DEF Records
  <1> HIDE DEF q3
  <1>7. [[[r.event EXCEPT !.kind = kind] EXCEPT !.muted = m] EXCEPT !.at = c] \in AnyEvent
    BY <1>5 DEF AnyEvent
  <1>8. /\ q4 \in Records(n) /\ q4.event = [[[r.event EXCEPT !.kind = kind] EXCEPT !.muted = m] EXCEPT !.at = c]
        /\ q4.pc = "change" /\ q4.obj = r.obj /\ q4.events = r.events
    BY <1>6, <1>7 DEF Records
  <1>9. q4.event.key = r.event.key /\ q4.event.kind = kind /\ q4.event.at = c
    <2> HIDE DEF q4
    <2> QED BY <1>1, <1>8 DEF AnyEvent
  <1>10. q4 = Judged(r, kind, m, c)
    BY DEF Judged, q1, q2, q3
  <1> HIDE DEF q4
  <1> QED BY <1>8, <1>9, <1>10

LEMMA JudgeKeeps ==
  ASSUME EngineInv, NEW x \in Threads, Judge(x)
  PROVE  EngineInv'
  <1> DEFINE n == Len(bad)
             o == th[x].obj
  <1>0. Types /\ StateInv /\ AlertsHaveBegun /\ NothingHeldBackIsLost
    BY DEF EngineInv
  <1>1. /\ th[x].pc = "lock" /\ o \notin locked /\ o \in 1..n /\ n \in Nat /\ clock \in Nat
        /\ th[x].events = {} /\ th[x].event.key \in Keys /\ th[x].event \in AnyEvent
        /\ th[x] \in Records(n) /\ th[x].hit \in BOOLEAN /\ bad \in Seq(BOOLEAN)
        /\ th[x].pc \notin InState
    BY <1>0, HasType DEF Judge, AtState, InState, Types, Sound
  <1>2. CASE bad[o] = th[x].hit
    <2> DEFINE r == [th[x] EXCEPT !.pc = "pick"]
    <2>1. Goes(x, r) /\ UNCHANGED <<rules, byID, maintenance, stateOf, bad, locked, active, log, sending, dirty, tab, clock, edits>>
      BY <1>2 DEF Judge, Unbounded
    <2>2. Sound(r, n, clock)
      BY <1>0, <1>1, SoundPlain, PlainPCs
    <2>3. r.pc = "pick" /\ r.events = {}
      BY <1>1 DEF Records
    <2> HIDE DEF r
    <2>4. Plain(x, r)
      BY <1>0, <1>1, <2>1, <2>2, <2>3, TablesStay, PlainPCs DEF Plain
    <2> QED BY <2>4, PlainKeeps
  <1>3. CASE bad[o] # th[x].hit
    <2> DEFINE kind == IF th[x].hit THEN "bad" ELSE "resolved"
               r == [th[x] EXCEPT !.pc = "change", !.event.kind = kind,
                                  !.event.muted = Muted, !.event.at = clock + 1]
    <2>1. /\ Goes(x, r) /\ bad' = [bad EXCEPT ![o] = th[x].hit] /\ locked' = locked \cup {o}
          /\ clock' = clock + 1
          /\ UNCHANGED <<rules, byID, maintenance, stateOf, active, log, sending, dirty, tab, edits>>
      BY <1>3 DEF Judge, Unbounded
    <2>2. /\ bad' \in Seq(BOOLEAN) /\ Len(bad') = n /\ bad'[o] = th[x].hit
          /\ \A i \in 1..n : i # o => bad'[i] = bad[i]
      BY <1>1, <2>1
    <2>3. /\ r \in Records(n) /\ r.pc = "change" /\ r.obj = o /\ r.events = {}
          /\ r.event.key = th[x].event.key /\ r.event.kind = kind /\ r.event.at = clock + 1
      <3>1. Muted \in BOOLEAN /\ kind \in {"bad", "resolved"} /\ clock + 1 \in Nat
        BY <1>0, <1>1 DEF Muted, Types
      <3> DEFINE m == Muted
                 c == clock + 1
                 s == th[x]
                 q == Judged(s, kind, m, c)
      <3>2. m \in BOOLEAN /\ c \in Nat /\ s \in Records(n) /\ kind \in {"bad", "resolved"}
        BY <1>1, <3>1
      <3> HIDE DEF kind, m, c, n, s
      <3>3. /\ q \in Records(n) /\ q.pc = "change" /\ q.obj = s.obj /\ q.events = s.events
            /\ q.event.key = s.event.key /\ q.event.kind = kind /\ q.event.at = c
        BY <3>2, JudgedRecord
      <3>4. r = q
        BY DEF Judged, m, c, s
      <3> HIDE DEF q, r
      <3> QED BY <1>1, <3>3, <3>4 DEF c, s
    <2>4. Sound(r, Len(bad'), clock')
      <3>1. kind \in {"bad", "resolved"}
        OBVIOUS
      <3> HIDE DEF r, kind
      <3> QED BY <1>1, <2>1, <2>2, <2>3, <3>1 DEF Sound, InState
    <2>40. kind = "bad" <=> th[x].hit
      BY <1>1
    <2> HIDE DEF r, kind
    <2>5. /\ DOMAIN th' = Threads
          /\ th'[x] = r /\ \A y \in Threads : y # x => th'[y] = th[y]
          /\ \A y \in Threads : Sound(th'[y], Len(bad'), clock')
      BY <1>0, <1>1, <2>1, <2>2, <2>4, OneMoves
    <2>6. Types'
      <3>0. stateOf \in [Keys -> 0..n] /\ locked \subseteq 1..n
        BY <1>0 DEF Types
      <3>1. locked' \subseteq 1..Len(bad') /\ clock' \in Nat /\ stateOf' \in [Keys -> 0..Len(bad')]
        <4>1. locked' \subseteq 1..Len(bad')
          BY <1>1, <2>1, <2>2, <3>0
        <4>2. clock' \in Nat
          BY <1>1, <2>1
        <4> QED BY <2>1, <2>2, <3>0, <4>1, <4>2
      <3>2. /\ rules' \in RuleMap /\ byID' \in RuleMap /\ maintenance' \in BOOLEAN /\ dirty' \in BOOLEAN
            /\ active' \in [Keys -> [on : BOOLEAN, muted : BOOLEAN, since : Nat]]
            /\ log' \in Seq(Event) /\ sending' \subseteq Event /\ tab' \subseteq Keys /\ edits' \in Nat
        BY <1>0, <2>1 DEF Types
      <3> QED BY <2>2, <2>5, <3>1, <3>2 DEF Types
    <2>7. StatesAreOfOneKey'
      BY <1>0, <2>1 DEF StateInv, StatesAreOfOneKey
    <2>8. LocksExclude'
      <3>1. \A y \in Threads : y # x /\ th[y].pc \in InState => th[y].obj \in locked
        BY <1>0 DEF StateInv, LocksExclude
      <3>2. \A y \in Threads : y # x /\ th[y].pc \in InState => th[y].obj # o
        BY <1>1, <3>1
      <3> QED BY <1>0, <2>1, <2>3, <2>5, <3>1, <3>2 DEF StateInv, LocksExclude
    <2>9. HoldersAgree'
      <3> SUFFICES ASSUME edits' = 0, NEW y \in Threads PROVE HolderAgrees(y)'
        BY DEF HoldersAgree
      <3>1. HolderAgrees(x) /\ HolderAgrees(y)
        BY <1>0, <2>1 DEF StateInv, HoldersAgree
      <3>2. CASE y = x
        <4>1. stateOf[th[x].event.key] = o
          BY <1>1, <3>1 DEF HolderAgrees, AtState
        <4> QED BY <2>1, <2>2, <2>3, <2>40, <2>5, <3>2, <4>1 DEF HolderAgrees, Editing
      <3>3. CASE y # x
        <4>1. th'[y] = th[y]
          BY <2>5, <3>3
        <4>2. th[y].pc \in InState => bad'[th[y].obj] = bad[th[y].obj]
          <5>1. th[y].pc \in InState => th[y].obj \in locked /\ th[y].obj \in 1..n
            BY <1>0, HasType DEF StateInv, LocksExclude, InState, AtState
          <5> QED BY <1>1, <2>2, <5>1
        <4> QED BY <2>1, <3>1, <4>1, <4>2 DEF HolderAgrees, InState
      <3> QED BY <3>2, <3>3
    <2>10. AlertsFollowTheStates'
      <3> SUFFICES ASSUME edits' = 0, NEW j \in Keys, stateOf'[j] \notin locked'
                   PROVE  active'[j].on <=> stateOf'[j] # 0 /\ bad'[stateOf'[j]]
        BY DEF AlertsFollowTheStates
      <3>1. active[j].on <=> stateOf[j] # 0 /\ bad[stateOf[j]]
        BY <1>0, <2>1 DEF StateInv, AlertsFollowTheStates
      <3>2. stateOf[j] \in 0..n /\ stateOf[j] # o
        BY <1>0, <2>1 DEF Types
      <3> QED BY <1>1, <2>1, <2>2, <3>1, <3>2
    <2>11. AlertsHaveBegun'
      <3>1. \A k \in Keys : active[k].since \in Nat
        BY <1>0 DEF Types
      <3> QED BY <1>0, <1>1, <2>1, <3>1 DEF AlertsHaveBegun
    <2>12. Underway \subseteq Underway'
      <3>1. \A y \in Threads : th[y].pc = "notify" => th'[y] = th[y]
        BY <1>1, <2>5
      <3>2. \A y \in Threads : th[y].events \subseteq th'[y].events
        BY <1>1, <2>5
      <3> QED BY <2>1, <3>1, <3>2 DEF Underway
    <2>13. NothingHeldBackIsLost'
      BY <1>0, <2>1, <2>12 DEF NothingHeldBackIsLost
    <2> QED BY <2>6, <2>7, <2>8, <2>9, <2>10, <2>11, <2>13 DEF EngineInv, StateInv
  <1> QED BY <1>2, <1>3

(* A goroutine that goes on with what it has. *)
LEMMA SamePlace ==
  ASSUME Types, NEW x \in Threads, NEW pc
  PROVE  LET r == [th[x] EXCEPT !.pc = pc] IN
         r.pc = pc /\ r.obj = th[x].obj /\ r.event = th[x].event /\ r.events = th[x].events
  BY DEF Types, Sound, Records

LEMMA ChangeKeeps ==
  ASSUME EngineInv, NEW x \in Threads, Change(x)
  PROVE  EngineInv'
  <1> DEFINE e == th[x].event
             o == th[x].obj
             a == IF e.kind = "resolved" THEN NoAlert ELSE [on |-> TRUE, muted |-> e.muted, since |-> e.at]
             r == [th[x] EXCEPT !.pc = "notify"]
  <1>0. Types /\ StateInv /\ AlertsHaveBegun /\ NothingHeldBackIsLost
    BY DEF EngineInv
  <1>1. /\ th[x].pc = "change" /\ Goes(x, r) /\ active' = [active EXCEPT ![e.key] = a]
        /\ UNCHANGED <<rules, byID, maintenance, stateOf, bad, locked, log, sending, dirty, tab, clock, edits>>
    BY DEF Change, Unbounded
  <1>2. /\ e \in AnyEvent /\ e.key \in Keys /\ e.kind \in {"bad", "resolved"} /\ e.at <= clock
        /\ th[x].events = {} /\ o \in 1..Len(bad) /\ th[x] \in Records(Len(bad)) /\ clock \in Nat
    BY <1>0, <1>1, HasType DEF AtState, InState, Types, Sound
  <1>20. e.muted \in BOOLEAN /\ e.at \in Nat
    BY <1>2 DEF AnyEvent
  <1>3. r.pc = "notify" /\ r.obj = o /\ r.event = e /\ r.events = {}
    BY <1>0, <1>2, SamePlace
  <1>4. Sound(r, Len(bad), clock)
    <2>1. r \in Records(Len(bad))
      BY <1>2 DEF Records, PCs
    <2> HIDE DEF r, e
    <2> QED BY <1>2, <1>3, <2>1 DEF Sound, InState
  <1>5. /\ a \in [on : BOOLEAN, muted : BOOLEAN, since : Nat] /\ a.since <= clock
        /\ a.on <=> e.kind = "bad"
        /\ a.on => a.muted = e.muted /\ a.since = e.at
    BY <1>2, <1>20 DEF NoAlert
  <1> HIDE DEF r, a
  <1>6. /\ DOMAIN th' = Threads /\ th'[x] = r /\ \A y \in Threads : y # x => th'[y] = th[y]
        /\ active' \in [Keys -> [on : BOOLEAN, muted : BOOLEAN, since : Nat]]
        /\ active'[e.key] = a /\ \A k \in Keys : k # e.key => active'[k] = active[k]
    BY <1>0, <1>1, <1>2, <1>5 DEF Types, Goes
  <1>7. Types'
    <2>1. /\ rules \in RuleMap /\ byID \in RuleMap /\ maintenance \in BOOLEAN /\ dirty \in BOOLEAN
          /\ log \in Seq(Event) /\ sending \subseteq Event /\ tab \subseteq Keys /\ edits \in Nat
      BY <1>0 DEF Types
    <2> QED BY <1>0, <1>1, <1>4, <1>6, <2>1, TypesMove
  <1>8. StatesAreOfOneKey' /\ LocksExclude'
    BY <1>0, <1>1, <1>3, <1>6 DEF StateInv, StatesAreOfOneKey, LocksExclude, InState
  <1>9. o \in locked /\ (edits = 0 => stateOf[e.key] = o)
    BY <1>0, <1>1 DEF StateInv, LocksExclude, HoldersAgree, HolderAgrees, InState, AtState
  <1>10. HoldersAgree'
    <2> SUFFICES ASSUME edits' = 0, NEW y \in Threads PROVE HolderAgrees(y)'
      BY DEF HoldersAgree
    <2>1. HolderAgrees(x) /\ HolderAgrees(y)
      BY <1>0, <1>1 DEF StateInv, HoldersAgree
    <2>2. CASE y = x
      <3>1. bad[o] <=> e.kind = "bad"
        BY <1>1, <2>1 DEF HolderAgrees
      <3> QED BY <1>1, <1>3, <1>5, <1>6, <1>9, <2>2, <3>1 DEF HolderAgrees, Editing
    <2>3. CASE y # x
      <3>1. th'[y] = th[y]
        BY <1>6, <2>3
      <3>2. th[y].pc = "notify" => active'[th[y].event.key] = active[th[y].event.key]
        <4> SUFFICES ASSUME th[y].pc = "notify" PROVE active'[th[y].event.key] = active[th[y].event.key]
          OBVIOUS
        <4>1. th[y].event.key \in Keys /\ stateOf[th[y].event.key] = th[y].obj
          BY <1>0, <2>1, HasType DEF AtState, HolderAgrees
        <4>2. th[y].obj # o
          BY <1>0, <1>1, <2>3 DEF StateInv, LocksExclude, InState
        <4>3. stateOf[e.key] = o
          BY <1>1, <1>9
        <4> QED BY <1>6, <4>1, <4>2, <4>3
      <3> QED BY <1>1, <2>1, <3>1, <3>2 DEF HolderAgrees
    <2> QED BY <2>2, <2>3
  <1>11. AlertsFollowTheStates'
    <2> SUFFICES ASSUME edits' = 0, NEW j \in Keys, stateOf'[j] \notin locked'
                 PROVE  active'[j].on <=> stateOf'[j] # 0 /\ bad'[stateOf'[j]]
      BY DEF AlertsFollowTheStates
    <2>1. active[j].on <=> stateOf[j] # 0 /\ bad[stateOf[j]]
      BY <1>0, <1>1 DEF StateInv, AlertsFollowTheStates
    <2>2. j # e.key
      BY <1>1, <1>9
    <2> QED BY <1>1, <1>6, <2>1, <2>2
  <1>12. AlertsHaveBegun'
    BY <1>0, <1>1, <1>5, <1>6 DEF AlertsHaveBegun
  <1>13. Underway \cup {e} \subseteq Underway'
    <2>1. \A y \in Threads : th[y].pc = "notify" => th'[y] = th[y]
      BY <1>1, <1>6
    <2>2. \A y \in Threads : th[y].events \subseteq th'[y].events
      BY <1>2, <1>6
    <2>3. x \in Threads /\ th'[x].pc = "notify" /\ th'[x].event = e
      BY <1>3, <1>6
    <2> HIDE DEF e
    <2>4. e \in Underway'
      BY <2>3, UnderwayIs
    <2> QED BY <1>1, <2>1, <2>2, <2>4 DEF Underway
  <1>14. NothingHeldBackIsLost'
    <2> SUFFICES ASSUME NEW k \in Keys, active'[k].on, ~active'[k].muted
                 PROVE  \E f \in Underway' : f.key = k /\ f.kind = "bad" /\ ~f.muted /\ f.at >= active'[k].since
      BY DEF NothingHeldBackIsLost
    <2>1. CASE k = e.key
      <3>1. e.kind = "bad" /\ ~e.muted /\ e.at >= active'[k].since
        BY <1>20, <1>5, <1>6, <2>1
      <3> QED BY <1>13, <2>1, <3>1
    <2>2. CASE k # e.key
      BY <1>0, <1>6, <1>13, <2>2 DEF NothingHeldBackIsLost
    <2> QED BY <2>1, <2>2
  <1> QED BY <1>7, <1>8, <1>10, <1>11, <1>12, <1>14 DEF EngineInv, StateInv

LEMMA EmitKeeps ==
  ASSUME Types, NEW e \in Event, Emit(e)
  PROVE  /\ e \in sending' \/ \E i \in 1..Len(log') : e = log'[i]
         /\ sending \subseteq sending'
         /\ \A i \in 1..Len(log) : i \in 1..Len(log') /\ log'[i] = log[i]
  <1>1. log \in Seq(Event) /\ Len(log) \in Nat
    BY LenProperties DEF Types
  <1>2. CASE e.muted \/ e.key[1] \notin Hooked
    <2>1. log' = Append(log, e) /\ UNCHANGED sending
      BY <1>2 DEF Emit
    <2>2. Len(log') = Len(log) + 1 /\ log'[Len(log) + 1] = e /\ \A i \in 1..Len(log) : log'[i] = log[i]
      BY <1>1, <2>1, AppendProperties
    <2> QED BY <1>1, <2>1, <2>2
  <1>3. CASE ~(e.muted \/ e.key[1] \notin Hooked)
    BY <1>1, <1>3 DEF Emit
  <1> QED BY <1>2, <1>3

(* It lets the state go: an observer or the ticker is done with a key.      *)
LEMMA NotifyKeeps ==
  ASSUME EngineInv, NEW x \in Threads, Notify(x)
  PROVE  EngineInv'
  <1> DEFINE e == th[x].event
             o == th[x].obj
             r == [th[x] EXCEPT !.pc = "pick"]
  <1>0. Types /\ StateInv /\ AlertsHaveBegun /\ NothingHeldBackIsLost
    BY DEF EngineInv
  <1>1. /\ th[x].pc = "notify" /\ Goes(x, r) /\ Emit(e) /\ locked' = locked \ {o}
        /\ UNCHANGED <<rules, byID, maintenance, stateOf, bad, active, tab, clock, edits>>
    BY DEF Notify, Unbounded
  <1>2. /\ e \in AnyEvent /\ e.key \in Keys /\ e.kind \in {"bad", "resolved"}
        /\ th[x].events = {} /\ o \in 1..Len(bad) /\ clock \in Nat /\ Len(bad) \in Nat
    BY <1>0, <1>1, HasType DEF AtState, InState
  <1>3. e \in Event
    BY <1>2 DEF AnyEvent, Event
  <1>4. r.pc = "pick" /\ r.obj = o /\ r.event = e /\ r.events = {}
    BY <1>0, <1>2, SamePlace
  <1>5. Sound(r, Len(bad), clock)
    BY <1>0, <1>1, SoundPlain, PlainPCs
  <1> HIDE DEF r
  <1>6. /\ DOMAIN th' = Threads /\ th'[x] = r /\ \A y \in Threads : y # x => th'[y] = th[y]
        /\ \A y \in Threads : Sound(th'[y], Len(bad'), clock')
    BY <1>0, <1>1, <1>2, <1>5, OneMoves
  <1>7. log' \in Seq(Event) /\ sending' \subseteq Event /\ dirty' \in BOOLEAN
    BY <1>0, <1>1, <1>3, EmitType
  <1>8. Types'
    <2>1. locked' \subseteq 1..Len(bad')
      BY <1>0, <1>1 DEF Types
    <2>2. /\ rules' \in RuleMap /\ byID' \in RuleMap /\ maintenance' \in BOOLEAN /\ bad' \in Seq(BOOLEAN)
          /\ active' \in [Keys -> [on : BOOLEAN, muted : BOOLEAN, since : Nat]]
          /\ tab' \subseteq Keys /\ clock' \in Nat /\ edits' \in Nat
      BY <1>0, <1>1 DEF Types
    <2>3. stateOf' \in [Keys -> 0..Len(bad')]
      BY <1>0, <1>1 DEF Types
    <2> QED BY <1>6, <1>7, <2>1, <2>2, <2>3 DEF Types
  <1>9. StatesAreOfOneKey'
    BY <1>0, <1>1 DEF StateInv, StatesAreOfOneKey
  <1>10. LocksExclude'
    <2>1. \A y \in Threads : y # x /\ th[y].pc \in InState => th[y].obj \in locked /\ th[y].obj # o
      BY <1>0, <1>1 DEF StateInv, LocksExclude, InState
    <2>2. r.pc \notin InState
      BY <1>4 DEF InState
    <2> QED BY <1>0, <1>1, <1>6, <2>1, <2>2 DEF StateInv, LocksExclude
  <1>11. HoldersAgree'
    <2> SUFFICES ASSUME edits' = 0, NEW y \in Threads PROVE HolderAgrees(y)'
      BY DEF HoldersAgree
    <2>1. HolderAgrees(y)
      BY <1>0, <1>1 DEF StateInv, HoldersAgree
    <2>2. CASE y = x
      BY <1>4, <1>6, <2>2 DEF HolderAgrees, Editing, AtState
    <2>3. CASE y # x
      BY <1>1, <1>6, <2>1, <2>3 DEF HolderAgrees
    <2> QED BY <2>2, <2>3
  <1>12. AlertsFollowTheStates'
    <2> SUFFICES ASSUME edits' = 0, NEW j \in Keys, stateOf'[j] \notin locked'
                 PROVE  active'[j].on <=> stateOf'[j] # 0 /\ bad'[stateOf'[j]]
      BY DEF AlertsFollowTheStates
    <2>1. CASE stateOf[j] = o
      <3>1. HolderAgrees(x)
        BY <1>0, <1>1 DEF StateInv, HoldersAgree
      <3>2. stateOf[e.key] = o /\ (active[e.key].on <=> bad[o])
        BY <1>1, <3>1 DEF HolderAgrees, AtState
      <3>3. o # 0
        BY <1>2
      <3>4. j = e.key
        BY <1>0, <1>2, <2>1, <3>2, <3>3 DEF StateInv, StatesAreOfOneKey
      <3> QED BY <1>1, <2>1, <3>2, <3>3, <3>4
    <2>2. CASE stateOf[j] # o
      BY <1>0, <1>1, <2>2 DEF StateInv, AlertsFollowTheStates
    <2> QED BY <2>1, <2>2
  <1>13. AlertsHaveBegun'
    BY <1>0, <1>1 DEF AlertsHaveBegun
  <1>14. Underway \subseteq Underway'
    <2> SUFFICES ASSUME NEW f \in Underway PROVE f \in Underway'
      OBVIOUS
    <2>1. CASE f \in sending
      BY <1>0, <1>1, <1>3, <2>1, EmitKeeps, UnderwayIs
    <2>2. ASSUME NEW y \in Threads, f \in th[y].events PROVE f \in Underway'
      BY <1>2, <1>6, <2>2, UnderwayIs
    <2>3. ASSUME NEW y \in Threads, th[y].pc = "notify", f = th[y].event PROVE f \in Underway'
      <3>1. CASE y = x
        BY <1>0, <1>1, <1>3, <2>3, <3>1, EmitKeeps, UnderwayIs
      <3>2. CASE y # x
        BY <1>6, <2>3, <3>2, UnderwayIs
      <3> QED BY <3>1, <3>2
    <2>4. ASSUME NEW i \in 1..Len(log), f = log[i] PROVE f \in Underway'
      BY <1>0, <1>1, <1>3, <2>4, EmitKeeps, UnderwayIs
    <2> QED BY <2>1, <2>2, <2>3, <2>4, UnderwayIs
  <1>15. NothingHeldBackIsLost'
    BY <1>0, <1>1, <1>14 DEF NothingHeldBackIsLost
  <1> QED BY <1>8, <1>9, <1>10, <1>11, <1>12, <1>13, <1>15 DEF EngineInv, StateInv

(* A webhook was called. *)
LEMMA SentKeeps ==
  ASSUME EngineInv, Sent
  PROVE  EngineInv'
  <1>0. Types /\ StateInv /\ AlertsHaveBegun /\ NothingHeldBackIsLost
    BY DEF EngineInv
  <1>1. PICK e \in sending : log' = Append(log, e) /\ sending' = sending \ {e}
    BY DEF Sent
  <1>2. /\ dirty' = TRUE
        /\ UNCHANGED <<rules, byID, maintenance, stateOf, bad, locked, active, tab, th, clock, edits>>
    BY DEF Sent, Unbounded
  <1>3. log \in Seq(Event) /\ e \in Event /\ Len(log) \in Nat
    BY <1>0, LenProperties DEF Types
  <1>4. /\ log' \in Seq(Event) /\ Len(log') = Len(log) + 1 /\ log'[Len(log) + 1] = e
        /\ \A i \in 1..Len(log) : log'[i] = log[i]
    BY <1>1, <1>3, AppendProperties
  <1>5. Types'
    <2>1. /\ rules' \in RuleMap /\ byID' \in RuleMap /\ maintenance' \in BOOLEAN /\ dirty' \in BOOLEAN
          /\ bad' \in Seq(BOOLEAN) /\ stateOf' \in [Keys -> 0..Len(bad')] /\ locked' \subseteq 1..Len(bad')
      BY <1>0, <1>2 DEF Types
    <2>2. /\ active' \in [Keys -> [on : BOOLEAN, muted : BOOLEAN, since : Nat]]
          /\ sending' \subseteq Event /\ tab' \subseteq Keys /\ clock' \in Nat /\ edits' \in Nat
      BY <1>0, <1>1, <1>2 DEF Types
    <2>3. DOMAIN th' = Threads /\ \A y \in Threads : Sound(th'[y], Len(bad'), clock')
      BY <1>0, <1>2 DEF Types
    <2> QED BY <1>4, <2>1, <2>2, <2>3 DEF Types
  <1>6. StateInv'
    BY <1>0, <1>2 DEF StateInv, StatesAreOfOneKey, LocksExclude, HoldersAgree, HolderAgrees, AlertsFollowTheStates
  <1>7. AlertsHaveBegun'
    BY <1>0, <1>2 DEF AlertsHaveBegun
  <1>8. Underway \subseteq Underway'
    <2> SUFFICES ASSUME NEW f \in Underway PROVE f \in Underway'
      OBVIOUS
    <2>1. CASE f = e
      <3>1. Len(log') \in 1..Len(log')
        BY <1>3, <1>4
      <3> QED BY <1>4, <2>1, <3>1, UnderwayIs
    <2>2. CASE f \in sending \ {e}
      BY <1>1, <2>2, UnderwayIs
    <2>3. ASSUME NEW y \in Threads, f \in th[y].events \/ (th[y].pc = "notify" /\ f = th[y].event)
          PROVE  f \in Underway'
      BY <1>2, <2>3, UnderwayIs
    <2>4. ASSUME NEW i \in 1..Len(log), f = log[i] PROVE f \in Underway'
      <3>1. i \in 1..Len(log') /\ log'[i] = f
        BY <1>3, <1>4, <2>4
      <3> QED BY <3>1, UnderwayIs
    <2> QED BY <2>1, <2>2, <2>3, <2>4, UnderwayIs
  <1>9. NothingHeldBackIsLost'
    BY <1>0, <1>2, <1>8 DEF NothingHeldBackIsLost
  <1> QED BY <1>5, <1>6, <1>7, <1>9 DEF EngineInv

LEMMA WindowTurnsKeeps ==
  ASSUME EngineInv, WindowTurns
  PROVE  EngineInv'
  <1>0. Types /\ StateInv /\ AlertsHaveBegun /\ NothingHeldBackIsLost
    BY DEF EngineInv
  <1>1. /\ maintenance' = ~maintenance
        /\ UNCHANGED <<rules, byID, stateOf, bad, locked, active, log, sending, dirty, tab, th, clock, edits>>
    BY DEF WindowTurns
  <1>2. Types'
    <2>1. maintenance' \in BOOLEAN
      BY <1>0, <1>1 DEF Types
    <2> QED BY <1>0, <1>1, <2>1 DEF Types
  <1>3. StateInv'
    BY <1>0, <1>1 DEF StateInv, StatesAreOfOneKey, LocksExclude, HoldersAgree, HolderAgrees, AlertsFollowTheStates
  <1>4. AlertsHaveBegun'
    BY <1>0, <1>1 DEF AlertsHaveBegun
  <1>5. NothingHeldBackIsLost'
    BY <1>0, <1>1 DEF NothingHeldBackIsLost, Underway
  <1> QED BY <1>2, <1>3, <1>4, <1>5 DEF EngineInv
-----------------------------------------------------------------------------
(* refreshMuted: what an alert was is kept, and those that come out of a    *)
(* mute are events of this goroutine from now on.                           *)
LEMMA DueEvents ==
  ASSUME Types, NEW x \in Threads
  PROVE  LET due == {[key |-> k, kind |-> "bad", muted |-> FALSE, at |-> clock] : k \in Due(x)} IN
         /\ due \subseteq Event
         /\ \A k \in Due(x) : \E e \in due : e.key = k /\ e.kind = "bad" /\ ~e.muted /\ e.at = clock
  <1> DEFINE event(k) == [key |-> k, kind |-> "bad", muted |-> FALSE, at |-> clock]
  <1>1. \A k \in Due(x) : event(k) \in Event
    BY DEF Types, Due, Event
  <1>2. \A k : event(k).key = k /\ event(k).kind = "bad" /\ ~event(k).muted /\ event(k).at = clock
    OBVIOUS
  <1>3. {event(k) : k \in Due(x)} \subseteq Event
    BY <1>1
  <1>4. ASSUME NEW k \in Due(x)
        PROVE  \E e \in {event(j) : j \in Due(x)} : e.key = k /\ e.kind = "bad" /\ ~e.muted /\ e.at = clock
    <2>1. event(k) \in {event(j) : j \in Due(x)}
      OBVIOUS
    <2> QED BY <1>2, <2>1
  <1> QED BY <1>3, <1>4

LEMMA RefreshKeeps ==
  ASSUME EngineInv, NEW x \in Threads, Refresh(x)
  PROVE  EngineInv'
  <1> DEFINE due == {[key |-> k, kind |-> "bad", muted |-> FALSE, at |-> clock] : k \in Due(x)}
             r == [th[x] EXCEPT !.pc = "send", !.events = due]
  <1>0. Types /\ StateInv /\ AlertsHaveBegun /\ NothingHeldBackIsLost
    BY DEF EngineInv
  <1>1. /\ th[x].pc = "refresh" /\ Goes(x, r)
        /\ active' = [k \in Keys |->
                         IF active[k].on /\ th[x].snap[k[1]] # Gone
                         THEN [active[k] EXCEPT !.muted = Muted] ELSE active[k]]
        /\ UNCHANGED <<rules, byID, maintenance, stateOf, bad, locked, log, sending, dirty, tab, clock, edits>>
    BY DEF Refresh, Unbounded
  <1>2. due \subseteq Event
    BY <1>0, DueEvents
  <1>20. \A k \in Due(x) : \E e \in due : e.key = k /\ e.kind = "bad" /\ ~e.muted /\ e.at = clock
    BY <1>0, DueEvents
  <1> HIDE DEF due
  <1>3. th[x] \in Records(Len(bad)) /\ Len(bad) \in Nat /\ clock \in Nat /\ th[x].events = {}
    BY <1>0, <1>1, HasType DEF Types, Sound
  <1>4. r \in Records(Len(bad)) /\ r.pc = "send" /\ r.events = due
    BY <1>2, <1>3 DEF Records, PCs
  <1> HIDE DEF r
  <1>5. Sound(r, Len(bad), clock)
    BY <1>4 DEF Sound, AtState, InState
  <1>6. th'[x] = r /\ \A y \in Threads : y # x => th'[y] = th[y]
    BY <1>0, <1>1 DEF Types, Goes
  <1>7. /\ Muted \in BOOLEAN
        /\ \A k \in Keys : active[k] \in [on : BOOLEAN, muted : BOOLEAN, since : Nat]
    BY <1>0 DEF Types, Muted
  <1>8. \A k \in Keys : /\ active'[k].on = active[k].on /\ active'[k].since = active[k].since
                        /\ active'[k] \in [on : BOOLEAN, muted : BOOLEAN, since : Nat]
    BY <1>1, <1>7
  <1>9. Types'
    <2>1. active' \in [Keys -> [on : BOOLEAN, muted : BOOLEAN, since : Nat]]
      BY <1>1, <1>7
    <2>2. /\ rules \in RuleMap /\ byID \in RuleMap /\ maintenance \in BOOLEAN /\ dirty \in BOOLEAN
          /\ log \in Seq(Event) /\ sending \subseteq Event /\ tab \subseteq Keys /\ edits \in Nat
      BY <1>0 DEF Types
    <2> QED BY <1>0, <1>1, <1>5, <2>1, <2>2, TypesMove
  <1>10. StatesAreOfOneKey'
    BY <1>0, <1>1 DEF StateInv, StatesAreOfOneKey
  <1>11. LocksExclude'
    BY <1>0, <1>1, <1>4, <1>6 DEF StateInv, LocksExclude, InState
  <1>12. HoldersAgree'
    <2> SUFFICES ASSUME edits' = 0, NEW y \in Threads PROVE HolderAgrees(y)'
      BY DEF HoldersAgree
    <2>1. HolderAgrees(y)
      BY <1>0, <1>1 DEF StateInv, HoldersAgree
    <2>2. CASE y = x
      BY <1>4, <1>6, <2>2 DEF HolderAgrees, Editing, AtState
    <2>3. CASE y # x
      <3>1. th[y].pc = "notify" => active'[th[y].event.key].on = active[th[y].event.key].on
        BY <1>0, <1>8, HasType DEF AtState
      <3> QED BY <1>1, <1>6, <2>1, <2>3, <3>1 DEF HolderAgrees
    <2> QED BY <2>2, <2>3
  <1>13. AlertsFollowTheStates'
    BY <1>0, <1>1, <1>8 DEF StateInv, AlertsFollowTheStates
  <1>14. AlertsHaveBegun'
    BY <1>0, <1>1, <1>8 DEF AlertsHaveBegun
  <1>15. Underway \subseteq Underway' /\ due \subseteq Underway'
    <2>1. \A y \in Threads : th[y].pc = "notify" => th'[y] = th[y]
      BY <1>1, <1>6
    <2>2. \A y \in Threads : th[y].events \subseteq th'[y].events
      BY <1>3, <1>6
    <2>3. due \subseteq th'[x].events
      BY <1>4, <1>6
    <2>4. Underway \subseteq Underway'
      BY <1>1, <2>1, <2>2, UnderwayIs
    <2>5. due \subseteq Underway'
      BY <2>3, UnderwayIs
    <2> QED BY <2>4, <2>5
  <1>16. NothingHeldBackIsLost'
    <2> SUFFICES ASSUME NEW k \in Keys, active'[k].on, ~active'[k].muted
                 PROVE  \E e \in Underway' : e.key = k /\ e.kind = "bad" /\ ~e.muted /\ e.at >= active'[k].since
      BY DEF NothingHeldBackIsLost
    <2>1. CASE ~active[k].muted
      <3>1. \E e \in Underway : e.key = k /\ e.kind = "bad" /\ ~e.muted /\ e.at >= active[k].since
        BY <1>0, <1>8, <2>1 DEF NothingHeldBackIsLost
      <3> QED BY <1>8, <1>15, <3>1
    <2>2. CASE active[k].muted
      <3>1. active[k].on /\ th[x].snap[k[1]] # Gone /\ ~Muted
        BY <1>1, <1>7, <1>8, <2>2
      <3>2. k \in Due(x)
        BY <2>2, <3>1 DEF Due
      <3>3. clock >= active'[k].since
        BY <1>0, <1>3, <1>7, <1>8 DEF AlertsHaveBegun
      <3> QED BY <1>15, <1>20, <3>2, <3>3
    <2> QED BY <2>1, <2>2
  <1> QED BY <1>9, <1>10, <1>11, <1>12, <1>13, <1>14, <1>16 DEF EngineInv, StateInv

(* One of these events after the other. *)
LEMMA SendHeldBackKeeps ==
  ASSUME EngineInv, NEW x \in Threads, SendHeldBack(x)
  PROVE  EngineInv'
  <1>0. Types /\ StateInv /\ AlertsHaveBegun /\ NothingHeldBackIsLost
    BY DEF EngineInv
  <1>1. PICK e \in th[x].events : Emit(e) /\ Goes(x, [th[x] EXCEPT !.events = th[x].events \ {e}])
    BY DEF SendHeldBack
  <1> DEFINE r == [th[x] EXCEPT !.events = th[x].events \ {e}]
  <1>2. /\ th[x].pc = "send"
        /\ UNCHANGED <<rules, byID, maintenance, stateOf, bad, locked, active, tab, clock, edits>>
    BY DEF SendHeldBack, Unbounded
  <1>3. th[x] \in Records(Len(bad)) /\ th[x].events \subseteq Event
    BY <1>0, HasType DEF Types, Sound
  <1>4. r \in Records(Len(bad)) /\ r.pc = "send" /\ r.events = th[x].events \ {e}
    BY <1>2, <1>3 DEF Records
  <1> HIDE DEF r
  <1>5. Sound(r, Len(bad), clock)
    BY <1>4 DEF Sound, AtState, InState
  <1>6. th'[x] = r /\ \A y \in Threads : y # x => th'[y] = th[y]
    BY <1>0, <1>1 DEF Types, Goes, r
  <1>7. log' \in Seq(Event) /\ sending' \subseteq Event /\ dirty' \in BOOLEAN
    BY <1>0, <1>1, <1>3, EmitType
  <1>8. Types'
    <2>1. /\ rules \in RuleMap /\ byID \in RuleMap /\ maintenance \in BOOLEAN
          /\ active \in [Keys -> [on : BOOLEAN, muted : BOOLEAN, since : Nat]]
          /\ tab \subseteq Keys /\ edits \in Nat
      BY <1>0 DEF Types
    <2>2. Goes(x, r)
      BY <1>1 DEF r
    <2> QED BY <1>0, <1>2, <1>5, <1>7, <2>1, <2>2, TypesMove
  <1>9. StatesAreOfOneKey' /\ AlertsFollowTheStates'
    BY <1>0, <1>2 DEF StateInv, StatesAreOfOneKey, AlertsFollowTheStates
  <1>10. LocksExclude'
    BY <1>0, <1>2, <1>4, <1>6 DEF StateInv, LocksExclude, InState
  <1>11. HoldersAgree'
    <2> SUFFICES ASSUME edits' = 0, NEW y \in Threads PROVE HolderAgrees(y)'
      BY DEF HoldersAgree
    <2>1. HolderAgrees(y)
      BY <1>0, <1>2 DEF StateInv, HoldersAgree
    <2>2. CASE y = x
      BY <1>4, <1>6, <2>2 DEF HolderAgrees, Editing, AtState
    <2>3. CASE y # x
      BY <1>2, <1>6, <2>1, <2>3 DEF HolderAgrees
    <2> QED BY <2>2, <2>3
  <1>12. AlertsHaveBegun'
    BY <1>0, <1>2 DEF AlertsHaveBegun
  <1>13. Underway \subseteq Underway'
    <2> SUFFICES ASSUME NEW f \in Underway PROVE f \in Underway'
      OBVIOUS
    <2>0. e \in Event
      BY <1>3
    <2>1. CASE f \in sending \/ f = e
      BY <1>0, <1>1, <2>0, <2>1, EmitKeeps, UnderwayIs
    <2>2. ASSUME NEW y \in Threads, f \in th[y].events, f # e PROVE f \in Underway'
      BY <1>4, <1>6, <2>2, UnderwayIs
    <2>3. ASSUME NEW y \in Threads, th[y].pc = "notify", f = th[y].event PROVE f \in Underway'
      BY <1>2, <1>6, <2>3, UnderwayIs
    <2>4. ASSUME NEW i \in 1..Len(log), f = log[i] PROVE f \in Underway'
      BY <1>0, <1>1, <2>0, <2>4, EmitKeeps, UnderwayIs
    <2> QED BY <2>1, <2>2, <2>3, <2>4, UnderwayIs
  <1>14. NothingHeldBackIsLost'
    BY <1>0, <1>2, <1>13 DEF NothingHeldBackIsLost
  <1> QED BY <1>8, <1>9, <1>10, <1>11, <1>12, <1>14 DEF EngineInv, StateInv

(* A request that changes the rules forgets states and their alerts. *)
LEMMA ForgetStateKeeps ==
  ASSUME EngineInv, NEW x \in Threads, ForgetState(x)
  PROVE  EngineInv'
  <1>0. Types /\ StateInv /\ AlertsHaveBegun /\ NothingHeldBackIsLost
    BY DEF EngineInv
  <1>1. PICK k \in th[x].todo :
           /\ stateOf' = [stateOf EXCEPT ![k] = 0]
           /\ Goes(x, [th[x] EXCEPT !.pc = "forget", !.event.key = k, !.todo = th[x].todo \ {k}])
    BY DEF ForgetState
  <1> DEFINE r == [th[x] EXCEPT !.pc = "forget", !.event.key = k, !.todo = th[x].todo \ {k}]
  <1>2. /\ th[x].pc = "range"
        /\ UNCHANGED <<rules, byID, maintenance, bad, locked, active, log, sending, dirty, tab, clock, edits>>
    BY DEF ForgetState, Unbounded
  <1>3. /\ th[x] \in Records(Len(bad)) /\ th[x].event \in AnyEvent /\ k \in Keys
        /\ th[x].todo \ {k} \in SUBSET Keys /\ th[x].events = {}
        /\ Len(bad) \in Nat /\ clock \in Nat /\ edits \in Nat
    BY <1>0, <1>2, HasType DEF Types, Sound
  <1>4. Sound(r, Len(bad), clock) /\ r.pc = "forget" /\ r.events = {}
    <2>1. [th[x].event EXCEPT !.key = k] \in AnyEvent
      BY <1>3 DEF AnyEvent
    <2>2. /\ r \in Records(Len(bad)) /\ r.pc = "forget"
          /\ r.event = [th[x].event EXCEPT !.key = k] /\ r.events = {}
      BY <1>3, <2>1 DEF Records, PCs
    <2>3. r.event.key = k
      BY <1>3, <2>2 DEF AnyEvent
    <2> HIDE DEF r
    <2> QED BY <1>3, <2>2, <2>3 DEF Sound, AtState, InState
  <1> HIDE DEF r
  <1>5. /\ DOMAIN th' = Threads /\ th'[x] = r /\ \A y \in Threads : y # x => th'[y] = th[y]
        /\ \A y \in Threads : Sound(th'[y], Len(bad'), clock')
    BY <1>0, <1>1, <1>2, <1>3, <1>4, OneMoves DEF r
  <1>6. edits # 0
    BY <1>0, <1>2 DEF StateInv, HoldersAgree, HolderAgrees, Editing
  <1>7. Types'
    <2>1. stateOf' \in [Keys -> 0..Len(bad')]
      BY <1>0, <1>1, <1>2, <1>3 DEF Types
    <2> QED BY <1>0, <1>2, <1>5, <2>1 DEF Types
  <1>8. StatesAreOfOneKey'
    BY <1>0, <1>1, <1>3 DEF StateInv, StatesAreOfOneKey, Types
  <1>9. LocksExclude'
    BY <1>0, <1>2, <1>4, <1>5 DEF StateInv, LocksExclude, InState
  <1>10. HoldersAgree' /\ AlertsFollowTheStates'
    BY <1>2, <1>6 DEF HoldersAgree, AlertsFollowTheStates
  <1>11. AlertsHaveBegun'
    BY <1>0, <1>2 DEF AlertsHaveBegun
  <1>12. Underway \subseteq Underway'
    <2>1. \A y \in Threads : th[y].pc = "notify" => th'[y] = th[y]
      BY <1>2, <1>5
    <2>2. \A y \in Threads : th[y].events \subseteq th'[y].events
      BY <1>3, <1>5
    <2> QED BY <1>2, <2>1, <2>2, UnderwayIs
  <1>13. NothingHeldBackIsLost'
    BY <1>0, <1>2, <1>12 DEF NothingHeldBackIsLost
  <1> QED BY <1>7, <1>8, <1>9, <1>10, <1>11, <1>13 DEF EngineInv, StateInv

LEMMA ForgetAlertKeeps ==
  ASSUME EngineInv, NEW x \in Threads, ForgetAlert(x)
  PROVE  EngineInv'
  <1> DEFINE r == [th[x] EXCEPT !.pc = "range"]
             k == th[x].event.key
  <1>0. Types /\ StateInv /\ AlertsHaveBegun /\ NothingHeldBackIsLost
    BY DEF EngineInv
  <1>1. /\ th[x].pc = "forget" /\ Goes(x, r) /\ active' = [active EXCEPT ![k] = NoAlert]
        /\ UNCHANGED <<rules, byID, maintenance, stateOf, bad, locked, log, sending, dirty, tab, clock, edits>>
    BY DEF ForgetAlert, Unbounded
  <1>2. k \in Keys /\ th[x].events = {} /\ clock \in Nat
    BY <1>0, <1>1, HasType
  <1>3. Sound(r, Len(bad), clock) /\ r.pc = "range" /\ r.events = {}
    BY <1>0, <1>1, <1>2, SoundPlain, SamePlace, PlainPCs
  <1> HIDE DEF r, k
  <1>4. th'[x] = r /\ \A y \in Threads : y # x => th'[y] = th[y]
    BY <1>0, <1>1 DEF Types, Goes
  <1>5. /\ active' \in [Keys -> [on : BOOLEAN, muted : BOOLEAN, since : Nat]]
        /\ \A j \in Keys : j # k => active'[j] = active[j]
        /\ ~active'[k].on /\ active'[k].since = 0
    BY <1>0, <1>1, <1>2 DEF Types, NoAlert
  <1>6. edits # 0
    BY <1>0, <1>1 DEF StateInv, HoldersAgree, HolderAgrees, Editing
  <1>7. Types'
    <2>1. /\ rules \in RuleMap /\ byID \in RuleMap /\ maintenance \in BOOLEAN /\ dirty \in BOOLEAN
          /\ log \in Seq(Event) /\ sending \subseteq Event /\ tab \subseteq Keys /\ edits \in Nat
      BY <1>0 DEF Types
    <2> QED BY <1>0, <1>1, <1>3, <1>5, <2>1, TypesMove
  <1>8. StatesAreOfOneKey'
    BY <1>0, <1>1 DEF StateInv, StatesAreOfOneKey
  <1>9. LocksExclude'
    BY <1>0, <1>1, <1>3, <1>4 DEF StateInv, LocksExclude, InState
  <1>10. HoldersAgree' /\ AlertsFollowTheStates'
    BY <1>1, <1>6 DEF HoldersAgree, AlertsFollowTheStates
  <1>11. AlertsHaveBegun'
    BY <1>0, <1>1, <1>2, <1>5 DEF AlertsHaveBegun
  <1>12. Underway \subseteq Underway'
    <2>1. \A y \in Threads : th[y].pc = "notify" => th'[y] = th[y]
      BY <1>1, <1>4
    <2>2. \A y \in Threads : th[y].events \subseteq th'[y].events
      BY <1>2, <1>4
    <2> QED BY <1>1, <2>1, <2>2, UnderwayIs
  <1>13. NothingHeldBackIsLost'
    BY <1>0, <1>5, <1>12 DEF NothingHeldBackIsLost
  <1> QED BY <1>7, <1>8, <1>9, <1>10, <1>11, <1>13 DEF EngineInv, StateInv
-----------------------------------------------------------------------------
(* Every step of the engine. *)
LEMMA StepKeeps ==
  ASSUME EngineInv, [Next]_vars
  PROVE  EngineInv'
  <1>1. ASSUME NEW t \in Targets, ObserveStart(t) \/ Observer(t) PROVE EngineInv'
    <2>1. t \in Threads
      BY DEF Threads
    <2> QED BY <1>1, <2>1, PlainObserver, LookUpKeeps, JudgeKeeps, ChangeKeeps, NotifyKeeps DEF Observer
  <1>2. CASE Tick \/ TickVisit
    <2>1. Ticker \in Threads
      BY DEF Threads
    <2> QED BY <1>2, <2>1, PlainTicker, LookUpKeeps, JudgeKeeps, ChangeKeeps, NotifyKeeps,
               RefreshKeeps, SendHeldBackKeeps DEF Tick
  <1>3. CASE Sent \/ WindowTurns
    BY <1>3, SentKeeps, WindowTurnsKeeps
  <1>4. ASSUME NEW a \in Admins, EditStart(a) \/ SetMaintenance(a) \/ Request(a) PROVE EngineInv'
    <2>1. a \in Threads
      BY DEF Threads
    <2> QED BY <1>4, <2>1, PlainBegins, PlainStores, PlainFlush, ForgetStateKeeps, ForgetAlertKeeps,
               RefreshKeeps, SendHeldBackKeeps DEF Request
  <1>5. CASE Broadcast
    <2>1. Broadcaster \in Threads
      BY DEF Threads
    <2> QED BY <1>5, <2>1, PlainFlush DEF Broadcast
  <1>6. CASE UNCHANGED vars
    <2>1. /\ UNCHANGED <<rules, byID, maintenance, stateOf, bad, locked>>
          /\ UNCHANGED <<active, log, sending, dirty, tab, th, clock, edits>>
      BY <1>6 DEF vars, engine
    <2>2. Types' /\ AlertsHaveBegun'
      BY <2>1 DEF EngineInv, Types, AlertsHaveBegun
    <2>3. StateInv'
      BY <2>1 DEF EngineInv, StateInv, StatesAreOfOneKey, LocksExclude, HoldersAgree, HolderAgrees, AlertsFollowTheStates
    <2>4. NothingHeldBackIsLost'
      <3>1. Underway' = Underway
        BY <2>1 DEF Underway
      <3> QED BY <2>1, <3>1 DEF EngineInv, NothingHeldBackIsLost
    <2> QED BY <2>2, <2>3, <2>4 DEF EngineInv
  <1> QED BY <1>1, <1>2, <1>3, <1>4, <1>5, <1>6 DEF Next

(* What the engine keeps true at every step: no goroutine loses the state   *)
(* it looked up as long as no rule changes, the mutex of a state has one    *)
(* holder, and no alert counts as told that is not.                         *)
THEOREM EngineInvariant == Spec => []EngineInv
  <1>1. Init => EngineInv
    BY InitTypes, InitRest DEF EngineInv
  <1>2. EngineInv /\ [Next]_vars => EngineInv'
    BY StepKeeps
  <1> QED BY <1>1, <1>2, PTL DEF Spec

(* Observe, Tick and change (alerts.go): as long as no rule changes, an     *)
(* alert is active exactly while its subject's state is bad, unless a       *)
(* goroutine is between the two with the state's lock; and the engine's     *)
(* tables have their types.                                                 *)
THEOREM AlertsFollow == Spec => []AlertsAreTheStates
  <1>1. Types => TypeOK
    <2> SUFFICES ASSUME Types PROVE TypeOK
      OBVIOUS
    <2>1. \A i \in 1..Len(bad) : bad[i] \in BOOLEAN
      BY DEF Types
    <2>2. \A i \in 1..Len(log) : log[i] \in Event
      BY DEF Types
    <2> QED BY <2>1, <2>2 DEF Types, TypeOK, RuleMap
  <1>2. EngineInv => AlertsAreTheStates
    BY <1>1 DEF EngineInv, StateInv, AlertsAreTheStates
  <1> QED BY <1>2, EngineInvariant, PTL

(* refreshMuted and notify: however windows, requests, observers and the    *)
(* ticker interleave, an alert that is active and not muted has an event    *)
(* of its own that is in the log, at its webhook, or in the hands of a      *)
(* goroutine that is about to send it.                                      *)
THEOREM HeldBackIsKept == Spec => []NothingHeldBackIsLost
  <1>1. EngineInv => NothingHeldBackIsLost
    BY DEF EngineInv
  <1> QED BY <1>1, EngineInvariant, PTL
=============================================================================
