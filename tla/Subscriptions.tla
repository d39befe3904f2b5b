--------------------------- MODULE Subscriptions ---------------------------
(* The subscriptions of one connection: the NATS connections the store      *)
(* keeps for it (connection/store.go, live.go), the subscription managers   *)
(* that run on them (subscription/manager.go, resubscribe.go), and the      *)
(* requests and the move that change both (server.go). Goroutines run       *)
(* between the locks of the code; whatever lies in one critical section is  *)
(* one step. Messages, counters and the tree are not part of it (TreeFeed). *)
EXTENDS Naturals, FiniteSets

CONSTANTS Requests,     \* goroutines that serve requests
          Mover,        \* the goroutine of moveLive
          Patterns,     \* subject patterns
          All,          \* the pattern of a connection that names none
          MaxConnects,  \* bound: nothing connects with so many dialled
          MaxRuns,      \* bound: requests and moves begun, and
                        \* connections nats.go gave up
          MaxOverlaps   \* bound: requests and moves begun while another
                        \* runs; nothing begins or is given up after them

ASSUME ThreadsAssumption == Mover \notin Requests /\ IsFiniteSet(Requests)
ASSUME PatternsAssumption == All \in Patterns /\ IsFiniteSet(Patterns)
ASSUME RunsAssumption == MaxRuns \in Nat /\ MaxOverlaps \in Nat /\ MaxConnects \in Nat

Threads  == Requests \cup {Mover}
Managed  == 1..MaxRuns              \* a Managed per Connect
Managers == 1..MaxRuns              \* a Manager per start
Dials    == 1..(2 * MaxRuns)        \* the live connections of a Managed
Links    == Managed \X ({0} \cup Dials)
None     == 0

VARIABLES store,      \* Store.connections: the Managed, or None
          want,       \* Config.Subscriptions of each Managed
          net,        \* each NATS connection: "none", "up", "away", "closed"
          live,       \* LiveNC of each Managed: its dial, or None
          refused,    \* whether LiveError is set
          opened,     \* link.opened: the first dial is over
          moving,     \* link.moving
          current,    \* subManagers: the Manager the tabs see, or None
          running,    \* Manager.running
          held,       \* Manager.subs
          subs,       \* the subscriptions that deliver, or will when their
                      \* connection is back
          th,         \* the goroutines
          runs,       \* requests and moves begun, connections given up
          overlaps,   \* requests and moves begun while another ran
          asked,      \* the patterns the user last chose
          missed      \* the last change was given up halfway

conn    == <<store, want, net, live, refused, opened, moving>>
feed    == <<current, running, held, subs>>
history == <<runs, overlaps, asked, missed>>
vars    == <<conn, feed, th, history>>

Sub  == [run : Managed, mgr : Managers, link : Links, pattern : Patterns]
Idle == [pc |-> "idle", then |-> "idle", run |-> 0, m |-> None, g |-> None,
         link |-> <<None, None>>, patterns |-> {}, again |-> FALSE]

Api(m)   == <<m, 0>>
Own(m)   == <<m, live[m]>>
Open(l)  == net[l] \in {"up", "away"}
Goes(t, rec) == th' = [th EXCEPT ![t] = rec]

(* nats.Conn.Close ends the subscriptions of a connection with it. *)
Closing(ls) == /\ net' = [l \in Links |-> IF l \in ls THEN "closed" ELSE net[l]]
               /\ subs' = {s \in subs : s.link \notin ls}

Init == /\ store = None /\ want = [m \in Managed |-> {}]
        /\ net = [l \in Links |-> "none"]
        /\ live = [m \in Managed |-> None]
        /\ refused = [m \in Managed |-> FALSE] /\ opened = [m \in Managed |-> FALSE]
        /\ moving = [m \in Managed |-> FALSE]
        /\ current = None /\ running = [g \in Managers |-> FALSE]
        /\ held = [g \in Managers |-> {}] /\ subs = {}
        /\ th = [t \in Threads |-> Idle]
        /\ runs = 0 /\ overlaps = 0 /\ asked = {} /\ missed = FALSE
-----------------------------------------------------------------------------
(* The requests. *)
Quiet == \A t \in Threads : th[t].pc = "idle"

Begins(t) == /\ th[t].pc = "idle" /\ runs < MaxRuns
             /\ runs' = runs + 1
             /\ \/ Quiet /\ overlaps = 0 /\ UNCHANGED overlaps
                \/ ~Quiet /\ overlaps < MaxOverlaps /\ overlaps' = overlaps + 1

(* POST /connect: the manager of a connection that is replaced stops first, *)
(* then the connection is closed. Config.Retry says whether a server that   *)
(* is away is waited for.                                                   *)
Connect(t) ==
    /\ Begins(t) /\ Cardinality({m \in Managed : net[Api(m)] # "none"}) < MaxConnects
    /\ \E ps \in SUBSET Patterns, retry \in BOOLEAN :
          Goes(t, [Idle EXCEPT !.run = runs', !.patterns = ps, !.again = retry, !.then = "replace",
                               !.pc = IF store = None THEN "replace" ELSE "unmap"])
    /\ UNCHANGED <<conn, feed, asked, missed>>

(* POST /disconnect. *)
Disconnect(t) ==
    /\ Begins(t)
    /\ Goes(t, [Idle EXCEPT !.run = runs', !.pc = "unmap", !.then = "remove"])
    /\ UNCHANGED <<conn, feed, asked, missed>>

(* PUT /connections/{connId}/subscriptions. *)
SetSubscriptions(t) ==
    /\ Begins(t) /\ store # None
    /\ \E ps \in SUBSET Patterns :
          /\ want' = [want EXCEPT ![store] = ps] /\ asked' = ps
          /\ Goes(t, [Idle EXCEPT !.run = runs', !.pc = "change", !.patterns = ps])
    /\ UNCHANGED <<store, net, live, refused, opened, moving, feed, missed>>
-----------------------------------------------------------------------------
(* stopManager: out of the map, then Stop. *)
Unmap(t) ==
    /\ th[t].pc = "unmap"
    /\ current' = None
    /\ Goes(t, [th[t] EXCEPT !.g = current, !.pc = IF current = None THEN th[t].then ELSE "stop"])
    /\ UNCHANGED <<conn, running, held, subs, history>>

(* Manager.Stop does nothing to a manager that does not run. *)
Halt(g) == /\ running' = [running EXCEPT ![g] = FALSE]
           /\ held' = [held EXCEPT ![g] = IF running[g] THEN {} ELSE @]
           /\ subs' = IF running[g] THEN subs \ held[g] ELSE subs

Stop(t) ==
    /\ th[t].pc = "stop"
    /\ Halt(th[t].g)
    /\ Goes(t, [th[t] EXCEPT !.pc = th[t].then])
    /\ UNCHANGED <<conn, current, history>>

(* Store.Disconnect: out of the map, then the live and the API connection.  *)
Remove(t) ==
    /\ th[t].pc \in {"remove", "replace"}
    /\ store' = None
    /\ LET after == IF th[t].pc = "replace" THEN "dial" ELSE "idle" IN
       Goes(t, IF store # None THEN [th[t] EXCEPT !.pc = "closeLive", !.m = store, !.then = after]
               ELSE IF after = "dial" THEN [th[t] EXCEPT !.pc = after] ELSE Idle)
    /\ UNCHANGED <<want, net, live, refused, opened, moving, feed, history>>

(* closeLive takes LiveNC under its lock and closes it after. Disconnect    *)
(* closes the API's connection as well.                                       *)
CloseLive(t) ==
    /\ th[t].pc = "closeLive"
    /\ live' = [live EXCEPT ![th[t].m] = None]
    /\ Goes(t, [th[t] EXCEPT !.pc = "close", !.link = Own(th[t].m)])
    /\ UNCHANGED <<store, want, net, refused, opened, moving, feed, history>>

(* Mutant: Disconnect forgets the API's connection. *)
CloseLiveOnly(t) ==
    /\ th[t].pc = "close"
    /\ Closing({l \in {th[t].link} : l[2] # None})
    /\ Goes(t, IF th[t].then \in {"dial", "moved"} THEN [th[t] EXCEPT !.pc = th[t].then] ELSE Idle)
    /\ UNCHANGED <<store, want, live, refused, opened, moving, current, running, held, history>>

Close(t) ==
    /\ th[t].pc = "close"
    /\ Closing({l \in {th[t].link} : l[2] # None}
               \cup {l \in {Api(th[t].m)} : th[t].then \in {"dial", "idle"}})
    /\ Goes(t, IF th[t].then \in {"dial", "moved"} THEN [th[t] EXCEPT !.pc = th[t].then] ELSE Idle)
    /\ UNCHANGED <<store, want, live, refused, opened, moving, current, running, held, history>>

(* The API's connection: refused, up, or waited for.                        *)
DialFails(t) ==
    /\ th[t].pc = "dial" /\ ~th[t].again
    /\ Goes(t, Idle)
    /\ UNCHANGED <<conn, feed, history>>

Dial(t) ==
    /\ th[t].pc = "dial"
    /\ LET m == th[t].run IN
       /\ \E state \in {"up"} \cup {s \in {"away"} : th[t].again} :
             net' = [net EXCEPT ![Api(m)] = state]
       /\ want' = [want EXCEPT ![m] = th[t].patterns]
       /\ Goes(t, [th[t] EXCEPT !.pc = "open", !.then = "register", !.m = m])
    /\ UNCHANGED <<store, live, refused, opened, moving, feed, history>>

(* The connection is listed; then startManager, with what a connection      *)
(* without patterns gets.                                                   *)
Register(t) ==
    /\ th[t].pc = "register"
    /\ store' = th[t].m
    /\ asked' = IF th[t].patterns = {} THEN {All} ELSE th[t].patterns
    /\ Goes(t, [th[t] EXCEPT !.pc = "restart", !.patterns = asked'])
    /\ UNCHANGED <<want, net, live, refused, opened, moving, feed, runs, overlaps, missed>>
-----------------------------------------------------------------------------
(* GetLiveNC: openLive on the connection that is listed, else GetNC.        *)
Lookup(t) ==
    /\ th[t].pc \in {"lookup", "restart"}
    /\ Goes(t, [th[t] EXCEPT !.m = store, !.pc = IF store = None THEN "api" ELSE "open",
                             !.then = IF th[t].pc = "lookup" THEN "swap" ELSE "start"])
    /\ UNCHANGED <<conn, feed, history>>

(* Without a manager the request starts one. *)
With(r, l) == IF r.then = "swap" /\ r.g = None
              THEN [r EXCEPT !.pc = "unmap", !.then = "restart"]
              ELSE [r EXCEPT !.pc = r.then, !.link = l]

Without(r) == [r EXCEPT !.pc = IF r.then = "register" THEN "register" ELSE "api"]

OpenLive(t) ==
    /\ th[t].pc = "open"
    /\ LET m == th[t].m IN
       \/ /\ live[m] # None /\ Open(Own(m))
          /\ Goes(t, With(th[t], Own(m)))
          /\ UNCHANGED <<opened, moving>>
       \/ /\ ~(live[m] # None /\ Open(Own(m))) /\ refused[m]
          /\ Goes(t, Without(th[t]))
          /\ UNCHANGED <<opened, moving>>
       \/ /\ ~(live[m] # None /\ Open(Own(m))) /\ ~refused[m]
          /\ opened' = [opened EXCEPT ![m] = TRUE]
          /\ moving' = [moving EXCEPT ![m] = FALSE]
          /\ Goes(t, [th[t] EXCEPT !.pc = "dialLive", !.again = @ \/ opened[m]])
    /\ UNCHANGED <<store, want, net, live, refused, feed, history>>

(* Dialled outside the lock; once the live connection was open, a server    *)
(* that is away is waited for.                                              *)
DialLive(t) ==
    /\ th[t].pc = "dialLive"
    /\ LET k == 1 + Cardinality({d \in Dials : net[<<th[t].m, d>>] # "none"}) IN
       \E state \in {"up", IF th[t].again THEN "away" ELSE "none"} :
          /\ net' = [net EXCEPT ![<<th[t].m, k>>] = state]
          /\ Goes(t, [th[t] EXCEPT !.pc = "dialled", !.again = FALSE,
                                   !.link = <<th[t].m, IF state = "none" THEN None ELSE k>>])
    /\ UNCHANGED <<store, want, live, refused, opened, moving, feed, history>>

(* Mutant: the connection that came second stays open. *)
QuickerLeaks(t) ==
    /\ th[t].pc = "dialled" /\ live[th[t].m] # None /\ Open(Own(th[t].m))
    /\ Goes(t, With(th[t], Own(th[t].m)))
    /\ UNCHANGED <<conn, feed, history>>

(* Someone else was quicker, the server refused, or it is LiveNC now.       *)
Quicker(t) ==
    /\ th[t].pc = "dialled" /\ live[th[t].m] # None /\ Open(Own(th[t].m))
    /\ Closing({l \in {th[t].link} : l[2] # None})
    /\ Goes(t, With(th[t], Own(th[t].m)))
    /\ UNCHANGED <<store, want, live, refused, opened, moving, current, running, held, history>>

Refused(t) ==
    /\ th[t].pc = "dialled" /\ ~(live[th[t].m] # None /\ Open(Own(th[t].m)))
    /\ th[t].link[2] = None
    /\ refused' = [refused EXCEPT ![th[t].m] = TRUE]
    /\ Goes(t, Without(th[t]))
    /\ UNCHANGED <<store, want, net, live, opened, moving, feed, history>>

Dialled(t) ==
    /\ th[t].pc = "dialled" /\ ~(live[th[t].m] # None /\ Open(Own(th[t].m)))
    /\ th[t].link[2] # None
    /\ live' = [live EXCEPT ![th[t].m] = th[t].link[2]]
    /\ Goes(t, With(th[t], th[t].link))
    /\ UNCHANGED <<store, want, net, refused, opened, moving, feed, history>>

(* GetNC: the API's connection of what is listed, if it is connected.       *)
ApiUp == store # None /\ net[Api(store)] = "up"

ShareApi(t) ==
    /\ th[t].pc = "api"
    /\ IF ApiUp THEN Goes(t, With(th[t], Api(store))) /\ UNCHANGED missed
       ELSE IF th[t].then = "swap"
       THEN Goes(t, [th[t] EXCEPT !.pc = "unmap", !.then = "restart"]) /\ UNCHANGED missed
       ELSE Goes(t, Idle) /\ missed' = TRUE
    /\ UNCHANGED <<conn, feed, runs, overlaps, asked>>
-----------------------------------------------------------------------------
(* startManager: a new Manager, which no one else knows yet, subscribes, or *)
(* stops again when the connection is closed by now; then it is listed.     *)
New(t, g) == {[run |-> th[t].run, mgr |-> g, link |-> th[t].link, pattern |-> p] : p \in th[t].patterns}

StartManager(t) ==
    /\ th[t].pc = "start"
    /\ LET g == th[t].run IN
       IF Open(th[t].link)
       THEN /\ running' = [running EXCEPT ![g] = TRUE]
            /\ subs' = subs \cup New(t, g) /\ held' = [held EXCEPT ![g] = New(t, g)]
            /\ missed' = FALSE
            /\ Goes(t, [th[t] EXCEPT !.pc = "add", !.g = g])
       ELSE missed' = TRUE /\ Goes(t, Idle) /\ UNCHANGED <<running, held, subs>>
    /\ UNCHANGED <<conn, current, runs, overlaps, asked>>

AddManager(t) ==
    /\ th[t].pc = "add"
    /\ current' = th[t].g
    /\ Goes(t, Idle)
    /\ UNCHANGED <<conn, running, held, subs, history>>

(* A request whose SetSubjects failed starts a manager anew; the move only  *)
(* logs it.                                                                 *)
GiveUp(t) == IF t = Mover
             THEN Goes(t, Idle) /\ missed' = TRUE
             ELSE Goes(t, [th[t] EXCEPT !.pc = "unmap", !.then = "restart"]) /\ UNCHANGED missed

(* After the patterns the live connection goes, if there are none left.     *)
Done(t) == IF t # Mover /\ th[t].patterns = {} THEN [th[t] EXCEPT !.pc = "release"] ELSE Idle

(* Mutant: the old subscriptions stay. *)
SwapKeepsOld(t) ==
    /\ th[t].pc = "swap"
    /\ LET g == th[t].g IN
       IF running[g]
       THEN /\ held' = [held EXCEPT ![g] = {}]
            /\ Goes(t, [th[t] EXCEPT !.pc = "subscribe"])
            /\ UNCHANGED subs
       ELSE /\ Goes(t, [th[t] EXCEPT !.pc = "restarting"])
            /\ UNCHANGED <<held, subs>>
    /\ UNCHANGED <<conn, current, running, history>>

(* Manager.SetSubjects: the old subscriptions are taken under m.mu and      *)
(* ended, the new ones made, and stored under m.mu again. A manager that    *)
(* was stopped meanwhile starts, after a Stop of its own.                   *)
Swap(t) ==
    /\ th[t].pc = "swap"
    /\ LET g == th[t].g IN
       IF running[g]
       THEN /\ held' = [held EXCEPT ![g] = {}]
            /\ subs' = subs \ held[g]
            /\ Goes(t, [th[t] EXCEPT !.pc = "subscribe"])
       ELSE /\ Goes(t, [th[t] EXCEPT !.pc = "restarting"])
            /\ UNCHANGED <<held, subs>>
    /\ UNCHANGED <<conn, current, running, history>>

Restart(t) ==
    /\ th[t].pc = "restarting"
    /\ LET g == th[t].g IN
       /\ running' = [running EXCEPT ![g] = TRUE]
       /\ held' = [held EXCEPT ![g] = IF running[g] THEN {} ELSE @]
       /\ subs' = IF running[g] THEN subs \ held[g] ELSE subs
    /\ Goes(t, [th[t] EXCEPT !.pc = "starting"])
    /\ UNCHANGED <<conn, current, history>>

Started(t) ==
    /\ th[t].pc = "starting"
    /\ IF Open(th[t].link) \/ th[t].patterns = {}
       THEN /\ subs' = subs \cup New(t, th[t].g)
            /\ held' = [held EXCEPT ![th[t].g] = @ \cup New(t, th[t].g)]
            /\ missed' = FALSE
            /\ Goes(t, Done(t))
            /\ UNCHANGED running
       ELSE Halt(th[t].g) /\ GiveUp(t)
    /\ UNCHANGED <<conn, current, runs, overlaps, asked>>

Subscribe(t) ==
    /\ th[t].pc = "subscribe"
    /\ IF Open(th[t].link) \/ th[t].patterns = {}
       THEN /\ subs' = subs \cup New(t, th[t].g)
            /\ Goes(t, [th[t] EXCEPT !.pc = "keep"])
            /\ missed' = FALSE
       ELSE GiveUp(t) /\ UNCHANGED subs
    /\ UNCHANGED <<conn, current, running, held, runs, overlaps, asked>>

(* Mutant: what is kept is the patterns. *)
KeepPatterns(t) ==
    /\ th[t].pc = "keep"
    /\ held' = [held EXCEPT ![th[t].g] = th[t].patterns]
    /\ Goes(t, Done(t))
    /\ UNCHANGED <<conn, current, running, subs, history>>

Keep(t) ==
    /\ th[t].pc = "keep"
    /\ held' = [held EXCEPT ![th[t].g] = New(t, th[t].g)]
    /\ Goes(t, Done(t))
    /\ UNCHANGED <<conn, current, running, subs, history>>
-----------------------------------------------------------------------------
(* OnSubscriptionsChanged. *)
Changed(t) ==
    /\ th[t].pc = "change" /\ th[t].patterns # {}
    /\ Goes(t, [th[t] EXCEPT !.g = current, !.pc = "lookup"])
    /\ UNCHANGED <<conn, feed, history>>

(* No patterns: they go if the API's connection stands, then LiveNC does.   *)
ChangedToNone(t) ==
    /\ th[t].pc = "change" /\ th[t].patterns = {}
    /\ IF ApiUp /\ current # None
       THEN /\ Goes(t, [th[t] EXCEPT !.pc = "swap", !.g = current, !.link = Api(store)])
            /\ UNCHANGED missed
       ELSE Goes(t, [th[t] EXCEPT !.pc = "release"]) /\ missed' = TRUE
    /\ UNCHANGED <<conn, feed, runs, overlaps, asked>>

Release(t) ==
    /\ th[t].pc = "release"
    /\ IF store = None THEN Goes(t, Idle) /\ UNCHANGED live
       ELSE /\ live' = [live EXCEPT ![store] = None]
            /\ Goes(t, [th[t] EXCEPT !.pc = "close", !.m = store, !.link = Own(store), !.then = "released"])
    /\ UNCHANGED <<store, want, net, refused, opened, moving, feed, history>>
-----------------------------------------------------------------------------
(* nextLiveServer: the live connection is not taken back while the API's    *)
(* stands. How many attempts that takes is left open.                       *)
MoveLive ==
    /\ Begins(Mover)
    /\ \E m \in Managed, k \in Dials :
          /\ net[<<m, k>>] = "away" /\ net[Api(m)] = "up" /\ ~moving[m]
          /\ moving' = [moving EXCEPT ![m] = TRUE]
          /\ Goes(Mover, [Idle EXCEPT !.run = runs', !.pc = "give up", !.m = m])
    /\ UNCHANGED <<store, want, net, live, refused, opened, feed, asked, missed>>

NoteRefusal ==
    /\ th[Mover].pc = "give up"
    /\ refused' = [refused EXCEPT ![th[Mover].m] = TRUE]
    /\ Goes(Mover, [th[Mover] EXCEPT !.pc = "closeLive", !.then = "moved"])
    /\ UNCHANGED <<store, want, net, live, opened, moving, feed, history>>

(* OnLiveMoved: the manager, then the API's connection and the patterns.    *)
Moved ==
    /\ th[Mover].pc = "moved"
    /\ IF ApiUp /\ current # None
       THEN /\ Goes(Mover, [th[Mover] EXCEPT !.pc = "swap", !.g = current, !.link = Api(store),
                                 !.patterns = IF want[store] = {} THEN {All} ELSE want[store]])
            /\ UNCHANGED missed
       ELSE Goes(Mover, Idle) /\ missed' = TRUE
    /\ UNCHANGED <<conn, feed, runs, overlaps, asked>>

(* A NATS connection is lost, and comes back with its subscriptions.        *)
Drop(l) == /\ net[l] = "up"
           /\ net' = [net EXCEPT ![l] = "away"]
           /\ UNCHANGED <<store, want, live, refused, opened, moving, feed, th, history>>

Back(l) == /\ net[l] = "away"
           /\ net' = [net EXCEPT ![l] = "up"]
           /\ UNCHANGED <<store, want, live, refused, opened, moving, feed, th, history>>

(* After refused credentials nats.go gives a connection up for good. What   *)
(* ran on it is silent until the next change.                               *)
Expire(l) == /\ net[l] = "away" /\ runs < MaxRuns /\ overlaps < MaxOverlaps
             /\ runs' = runs + 1
             /\ Closing({l})
             /\ missed' = (missed \/ \E s \in subs : s.link = l)
             /\ UNCHANGED <<store, want, live, refused, opened, moving, current, running, held, th,
                            overlaps, asked>>

Request(t) == Connect(t) \/ Disconnect(t) \/ SetSubscriptions(t)

Step(t) == \/ Unmap(t) \/ Stop(t) \/ Remove(t) \/ CloseLive(t) \/ Close(t)
           \/ DialFails(t) \/ Dial(t) \/ Register(t)
           \/ Lookup(t) \/ OpenLive(t) \/ DialLive(t) \/ Quicker(t) \/ Refused(t) \/ Dialled(t) \/ ShareApi(t)
           \/ StartManager(t) \/ AddManager(t) \/ Swap(t) \/ Restart(t) \/ Started(t) \/ Subscribe(t) \/ Keep(t)
           \/ Changed(t) \/ ChangedToNone(t) \/ Release(t)

Next == \/ \E t \in Requests : Request(t)
        \/ \E t \in Threads : Step(t)
        \/ MoveLive \/ NoteRefusal \/ Moved
        \/ \E l \in Links : Drop(l) \/ Back(l) \/ Expire(l)

Spec == Init /\ [][Next]_vars
-----------------------------------------------------------------------------
Thread == [pc : {"idle", "unmap", "stop", "remove", "replace", "closeLive", "close", "dial", "register",
                 "lookup", "restart", "open", "dialLive", "dialled", "api", "start", "restarting", "starting", "add",
                 "swap", "subscribe", "keep", "change", "release", "give up", "moved"},
           then : {"idle", "remove", "replace", "restart", "dial", "released", "moved", "register",
                   "swap", "start"},
           run : 0..MaxRuns, m : 0..MaxRuns, g : 0..MaxRuns,
           link : (0..MaxRuns) \X (0..(2 * MaxRuns)), patterns : SUBSET Patterns, again : BOOLEAN]

TypeOK == /\ store \in {None} \cup Managed /\ want \in [Managed -> SUBSET Patterns]
          /\ net \in [Links -> {"none", "up", "away", "closed"}]
          /\ live \in [Managed -> {None} \cup Dials]
          /\ refused \in [Managed -> BOOLEAN] /\ opened \in [Managed -> BOOLEAN]
          /\ moving \in [Managed -> BOOLEAN]
          /\ current \in {None} \cup Managers /\ running \in [Managers -> BOOLEAN]
          /\ subs \subseteq Sub /\ \A g \in Managers : held[g] \subseteq Sub
          /\ DOMAIN held = Managers
          /\ DOMAIN th = Threads /\ \A t \in Threads : th[t] \in Thread
          /\ runs \in 0..MaxRuns /\ overlaps \in 0..MaxOverlaps /\ asked \subseteq Patterns /\ missed \in BOOLEAN

(* A connection has one live connection, whoever dials, releases, moves and *)
(* disconnects meanwhile: every other one that is still open is in the      *)
(* hands of a goroutine that is about to store or to close it (openLive,    *)
(* closeLive).                                                              *)
OneLiveConnection ==
    \A m \in Managed, k \in Dials :
        Open(<<m, k>>) /\ live[m] # k =>
            \E t \in Threads : th[t].pc \in {"dialled", "close"} /\ th[t].link = <<m, k>>

(* What the tabs are promised holds when nothing is under way, and of       *)
(* requests and moves that did not run at the same time.                    *)
Settled == Quiet /\ overlaps = 0

Carrier == IF live[store] # None THEN Own(store) ELSE Api(store)

(* After every change the manager of the connection holds one subscription  *)
(* for each pattern, and these run on the live connection or, without one,  *)
(* on the API's; also after the live connection was released, opened again, *)
(* refused and moved. When a change found the API's connection away and was *)
(* given up, or nats.go gave up the connection that carries the feed, this  *)
(* does not hold until the next change.                                     *)
FeedFollowsThePatterns ==
    Settled /\ store # None /\ ~missed =>
        /\ current # None /\ running[current]
        /\ {s.pattern : s \in subs} = asked
        /\ Cardinality(subs) = Cardinality(asked)
        /\ \A s \in subs : s \in held[current] /\ s.link = Carrier

(* A connection that was replaced or closed leaves nothing behind: no NATS  *)
(* connection, no running manager, no subscription.                         *)
NothingIsLeftOpen ==
    Settled => /\ \A l \in Links : Open(l) => l[1] = store
               /\ \A g \in Managers : running[g] => g = current
               /\ \A s \in subs : s.mgr = current /\ s.link[1] = store
               /\ store = None => current = None

(* Whatever was done, the tables are in order and nothing outlives its      *)
(* connection.                                                              *)
ClosedIsClosed == TypeOK /\ NothingIsLeftOpen
-----------------------------------------------------------------------------
(* docs/features.md: "Every pattern can be removed, `>` included: a         *)
(* connection then receives nothing and says so". OnSubscriptionsChanged    *)
(* leaves the subscriptions alone when the API's connection is away, and    *)
(* where they share it they are back with it: MCSubscriptionsNone.cfg finds *)
(* the violation.                                                           *)
RemovedMeansNothing ==
    Settled /\ store # None /\ asked = {} => \A s \in subs : net[s.link] # "up"
=============================================================================
