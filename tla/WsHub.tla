-------------------------------- MODULE WsHub --------------------------------
(* The server's end of the tabs: the hub with its two pumps per tab         *)
(* (ws/hub.go), the live watches (handler/live.go), and what server.go      *)
(* keeps of each tab and tells the managers. Each of the two pumps may be   *)
(* the one that removes a tab, while the reader is still handling what it   *)
(* read. What is sent to a tab is TreeFeed's and LiveView's.                *)
EXTENDS Naturals, FiniteSets

CONSTANTS None,
          Tabs,
          Keys,         \* a kind of watch, a connection and a bucket or stream
          Subjects,     \* what a tab may focus on
          Views,        \* what a tab may show of the tree
          MaxManagers,  \* bound on the managers started
          MaxCommands,  \* bound on the commands, which bounds the watches
          MaxBuffered   \* frames already read off a socket that is closed

Pumps == {"reader", "writer"}
Managers == 1..MaxManagers
Ids == 1..MaxCommands

VARIABLES hub,       \* Hub.clients
          closed,    \* the tabs whose done channel and socket are closed
          pump,      \* the goroutines of each tab
          watchers,  \* LiveHandler.watchers: the id under a key, 0 for none
          watch,     \* the watches ever begun, by id
          wants,     \* clientFocus and clientView
          serving,   \* subManagers
          knows,     \* Manager.clients: focus and view of each tab
          late,      \* what was done for a tab that had left the hub
          spent      \* the bounded counters and LiveHandler.seq

vars == <<hub, closed, pump, watchers, watch, wants, serving, knows, late, spent>>

Nothing == [focus |-> None, view |-> None]
Idle == [at |-> "none", cmd |-> None, tell |-> {}]

Init ==
    /\ hub = {} /\ closed = {}
    /\ pump = [t \in Tabs |-> [p \in Pumps |-> Idle]]
    /\ watchers = [t \in Tabs |-> [k \in Keys |-> 0]]
    /\ watch = [i \in Ids |-> None]
    /\ wants = [t \in Tabs |-> Nothing]
    /\ serving = {} /\ knows = [m \in Managers |-> [t \in Tabs |-> Nothing]]
    /\ late = [t \in Tabs |-> {}]
    /\ spent = [commands |-> 0, watches |-> 0, managers |-> 0, buffered |-> [t \in Tabs |-> 0]]

At(t, p) == pump[t][p].at
Goes(t, p, to) == pump' = [pump EXCEPT ![t][p] = to]
Moves(t, p, at) == Goes(t, p, [Idle EXCEPT !.at = at])

(* Something is done for a tab: it is late once the hub has let the tab go. *)
Notes(t, what) == late' = IF t \in hub THEN late ELSE [late EXCEPT ![t] = @ \cup {what}]

-----------------------------------------------------------------------------
(* The hub. *)

(* AddClient: visible first, then the two pumps. *)
AddClient(t) ==
    /\ t \notin hub /\ At(t, "reader") = "none"
    /\ hub' = hub \cup {t}
    /\ pump' = [pump EXCEPT ![t] = [p \in Pumps |-> [Idle EXCEPT !.at = "loop"]]]
    /\ UNCHANGED <<closed, watchers, watch, wants, serving, knows, late, spent>>

(* ReadMessage fails, a write fails or times out, or done is closed.        *)
PumpEnds(t, p) ==
    /\ At(t, p) = "loop"
    /\ Moves(t, p, "remove")
    /\ UNCHANGED <<hub, closed, watchers, watch, wants, serving, knows, late, spent>>

(* remove: out of the map, then the socket is closed; whoever found the tab *)
(* in the map goes on with OnDisconnect.                                    *)
Remove(t, p) ==
    /\ At(t, p) = "remove"
    /\ hub' = hub \ {t} /\ closed' = closed \cup {t}
    /\ Moves(t, p, IF t \in hub THEN "stopAll" ELSE "ended")
    /\ UNCHANGED <<watchers, watch, wants, serving, knows, late, spent>>

(* OnDisconnect, its first half: LiveHandler.StopAll. *)
StopAll(t, p) ==
    /\ At(t, p) = "stopAll"
    /\ watchers' = [watchers EXCEPT ![t] = [k \in Keys |-> 0]]
    /\ watch' = [i \in Ids |-> IF \E k \in Keys : watchers[t][k] = i
                               THEN [watch[i] EXCEPT !.canceled = TRUE] ELSE watch[i]]
    /\ Moves(t, p, "forget")
    /\ UNCHANGED <<hub, closed, wants, serving, knows, late, spent>>

(* RemoveClient of a manager. *)
Without(of, t) == [of EXCEPT ![t] = Nothing]

(* Mutant: the managers are not told. *)
ForgetHere(t, p) ==
    /\ At(t, p) = "forget"
    /\ wants' = Without(wants, t) /\ UNCHANGED knows
    /\ Moves(t, p, "ended")
    /\ UNCHANGED <<hub, closed, watchers, watch, serving, late, spent>>

(* Its second half, under subMu: the managers the server has are told.      *)
Forget(t, p) ==
    /\ At(t, p) = "forget"
    /\ wants' = Without(wants, t)
    /\ knows' = [m \in Managers |-> IF m \in serving THEN Without(knows[m], t) ELSE knows[m]]
    /\ Moves(t, p, "ended")
    /\ UNCHANGED <<hub, closed, watchers, watch, serving, late, spent>>

-----------------------------------------------------------------------------
(* The reader and what OnMessage does. *)

Command(type, arg) == [type |-> type, arg |-> arg]
Commands == {Command("focus", s) : s \in Subjects} \cup {Command("view", v) : v \in Views}
            \cup {Command(w, k) : w \in {"watch", "unwatch"}, k \in Keys}

(* A frame is read; of a closed socket, one that was buffered before.       *)
Read(t) ==
    /\ At(t, "reader") = "loop" /\ spent.commands < MaxCommands
    /\ t \in closed => spent.buffered[t] < MaxBuffered
    /\ spent' = [spent EXCEPT !.commands = @ + 1, !.buffered[t] = IF t \in closed THEN @ + 1 ELSE @]
    /\ \E c \in Commands : Goes(t, "reader", [Idle EXCEPT !.at = "handle", !.cmd = c])
    /\ UNCHANGED <<hub, closed, watchers, watch, wants, serving, knows, late>>

Handles(t, type) == At(t, "reader") = "handle" /\ pump[t]["reader"].cmd.type = type
Arg(t) == pump[t]["reader"].cmd.arg

(* focus, all of it under subMu. *)
HandleFocus(t) ==
    /\ Handles(t, "focus")
    /\ wants' = [wants EXCEPT ![t].focus = Arg(t)]
    /\ knows' = [m \in Managers |-> IF m \in serving THEN [knows[m] EXCEPT ![t].focus = Arg(t)] ELSE knows[m]]
    /\ Notes(t, "focus") /\ Moves(t, "reader", "loop")
    /\ UNCHANGED <<hub, closed, watchers, watch, serving, spent>>

(* view: noted under subMu, with the managers of that moment ... *)
HandleView(t) ==
    /\ Handles(t, "view")
    /\ wants' = [wants EXCEPT ![t].view = Arg(t)]
    /\ Notes(t, "view")
    /\ Goes(t, "reader", [pump[t]["reader"] EXCEPT !.at = "tell", !.tell = serving])
    /\ UNCHANGED <<hub, closed, watchers, watch, serving, knows, spent>>

(* ... which are told one by one after it. *)
SetView(t) ==
    /\ At(t, "reader") = "tell"
    /\ \E m \in pump[t]["reader"].tell :
          /\ knows' = [knows EXCEPT ![m][t].view = Arg(t)]
          /\ Goes(t, "reader", [pump[t]["reader"] EXCEPT !.tell = @ \ {m}])
    /\ Notes(t, "view")
    /\ UNCHANGED <<hub, closed, watchers, watch, wants, serving, spent>>

ViewIsSet(t) ==
    /\ At(t, "reader") = "tell" /\ pump[t]["reader"].tell = {}
    /\ Moves(t, "reader", "loop")
    /\ UNCHANGED <<hub, closed, watchers, watch, wants, serving, knows, late, spent>>

Canceled(i) == IF i = 0 THEN watch ELSE [watch EXCEPT ![i].canceled = TRUE]

(* LiveHandler.start: the watch that has the key is canceled. *)
StartWatch(t) ==
    /\ Handles(t, "watch")
    /\ spent' = [spent EXCEPT !.watches = @ + 1]
    /\ LET id == spent'.watches IN
         /\ watch' = [Canceled(watchers[t][Arg(t)]) EXCEPT
                        ![id] = [tab |-> t, key |-> Arg(t), canceled |-> FALSE, over |-> FALSE]]
         /\ watchers' = [watchers EXCEPT ![t][Arg(t)] = id]
    /\ Notes(t, "watch") /\ Moves(t, "reader", "loop")
    /\ UNCHANGED <<hub, closed, wants, serving, knows>>

(* LiveHandler.stop. *)
StopWatch(t) ==
    /\ Handles(t, "unwatch")
    /\ watch' = Canceled(watchers[t][Arg(t)])
    /\ watchers' = [watchers EXCEPT ![t][Arg(t)] = 0]
    /\ Moves(t, "reader", "loop")
    /\ UNCHANGED <<hub, closed, wants, serving, knows, late, spent>>

(* A watch gives its key back unless a later one has it. *)
Unkey(w, i) == [watchers EXCEPT ![w.tab][w.key] = IF @ = i THEN 0 ELSE @]

(* A watch ends: canceled, refused, or its bucket is gone. *)
WatchEnds(i) ==
    /\ watch[i] # None /\ ~watch[i].over
    /\ watch' = [watch EXCEPT ![i].over = TRUE]
    /\ watchers' = Unkey(watch[i], i)
    /\ UNCHANGED <<hub, closed, pump, wants, serving, knows, late, spent>>

-----------------------------------------------------------------------------
(* The managers. *)

(* addManager, under subMu: a new manager is told what the tabs want. *)
AddManager ==
    /\ spent.managers < MaxManagers
    /\ spent' = [spent EXCEPT !.managers = @ + 1]
    /\ serving' = serving \cup {spent'.managers}
    /\ knows' = [knows EXCEPT ![spent'.managers] = wants]
    /\ UNCHANGED <<hub, closed, pump, watchers, watch, wants, late>>

(* stopManager takes it out of the map. *)
StopManager ==
    /\ \E m \in serving : serving' = serving \ {m}
    /\ UNCHANGED <<hub, closed, pump, watchers, watch, wants, knows, late, spent>>

Handle(t) == \/ Read(t) \/ HandleFocus(t) \/ HandleView(t) \/ SetView(t) \/ ViewIsSet(t)
             \/ StartWatch(t) \/ StopWatch(t)

Next == \/ \E t \in Tabs : AddClient(t) \/ Handle(t)
        \/ \E t \in Tabs, p \in Pumps : PumpEnds(t, p) \/ Remove(t, p) \/ StopAll(t, p) \/ Forget(t, p)
        \/ \E i \in Ids : WatchEnds(i)
        \/ AddManager \/ StopManager

Spec == Init /\ [][Next]_vars
-----------------------------------------------------------------------------
Runs(i) == watch[i] # None /\ ~watch[i].canceled /\ ~watch[i].over
Gone(t) == \A p \in Pumps : At(t, p) = "ended"

(* What the server still does or holds for a tab. *)
Left(t) ==
    {"watch" : i \in {i \in Ids : Runs(i) /\ watch[i].tab = t}}
    \cup {"focus" : x \in {x \in {wants} \cup {knows[m] : m \in serving} : x[t].focus # None}}
    \cup {"view" : x \in {x \in {wants} \cup {knows[m] : m \in serving} : x[t].view # None}}

(* Of a tab that is gone nothing is left, but for what its reader did after *)
(* the tab had left the hub (hub.go remove, server.go OnDisconnect).        *)
GoneLeavesTheLate == \A t \in Tabs : Gone(t) => Left(t) \subseteq late[t]

(* What runs for a tab can be ended by it: a watch that was not canceled    *)
(* has its key, however old and new watches of the key end (live.go start). *)
WatchesHaveTheirKey == \A i \in Ids : Runs(i) => watchers[watch[i].tab][watch[i].key] = i

(* While its reader has nothing in hand, a tab in the hub has the feed and  *)
(* the tree it asked for from every manager, those that were started since  *)
(* it asked too (server.go OnMessage, addManager).                          *)
ManagersFollow ==
    \A t \in hub, m \in serving : At(t, "reader") \in {"loop", "remove"} => knows[m][t] = wants[t]

(* Refuted: "torn down when the client disconnects" (handler/live.go).      *)
TornDown == \A t \in Tabs : Gone(t) => "watch" \notin Left(t)
=============================================================================
