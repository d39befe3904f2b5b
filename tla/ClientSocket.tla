---------------------------- MODULE ClientSocket ----------------------------
(* The browser's websocket: the tab (lib/ws.ts, the wiring of lib/feed.ts,  *)
(* lib/live.ts), the worker that owns the socket (worker/feed.worker.ts) and *)
(* as much of the server as answers them. What the events carry is in       *)
(* LiveView and ClientTree.                                                 *)
(*                                                                          *)
(* Tab and worker talk through two FIFO queues (postMessage), worker and    *)
(* server through the two directions of the current socket. A command the   *)
(* tab or the worker cannot send is dropped, so everything rests on what is *)
(* sent again when a socket opens.                                          *)
EXTENDS Integers, Sequences

CONSTANTS MaxSockets,   \* bound on the sockets that fail or drop
          MaxTabOps,    \* bound on what the user does
          MaxSessions,  \* bound on the sessions that run out
          MaxLag        \* bound on what is unread when a reconnect is due

ASSUME SocketAssumption ==
    MaxSockets \in Nat /\ MaxTabOps \in Nat /\ MaxSessions \in Nat /\ MaxLag \in Nat

VARIABLES tab,       \* the main thread
          worker,    \* the worker and its FeedCore
          toWorker,  \* posted by the tab
          toTab,     \* posted by the worker
          server,    \* what the server holds for the current socket
          up,        \* commands on the socket
          spent      \* the bounded counters

vars == <<tab, worker, toWorker, toTab, server, up, spent>>


NoView == [filter |-> 0, paths |-> {}]

(* What the hub holds for a socket that has sent nothing yet. *)
Nothing == [focus |-> 0, view |-> NoView, watch |-> FALSE]

(* The tab sets its view and connects; the server may want a login. *)
Init ==
    /\ tab = [status |-> "closed", focus |-> 0, view |-> NoView, watch |-> FALSE,
              required |-> FALSE]
    /\ worker = [sock |-> "none", status |-> "closed", manual |-> FALSE, timer |-> FALSE,
                 view |-> NoView, viewTimer |-> FALSE, asking |-> FALSE]
    /\ toWorker = <<[type |-> "view", view |-> NoView], [type |-> "connect"]>>
    /\ toTab = <<>> /\ up = <<>>
    /\ server = [held |-> Nothing, auth |-> TRUE]
    /\ spent = [sockets |-> 0, tab |-> 0, sessions |-> 0]

Count(what) == spent' = [spent EXCEPT ![what] = @ + 1]

-----------------------------------------------------------------------------
(* The tab. *)

Command(c) == [type |-> "send", cmd |-> c]
Focus(f) == Command([type |-> "focus", arg |-> f])
Watch(b) == Command([type |-> IF b THEN "watch" ELSE "unwatch"])

(* WsClient.send: nothing leaves a tab that does not see the socket open. *)
Sent(status, msgs) == IF status = "open" THEN msgs ELSE <<>>

(* Another selection: the tab tells the server which subjects to stream. *)
Select ==
    /\ spent.tab < MaxTabOps /\ Count("tab")
    /\ tab' = [tab EXCEPT !.focus = @ + 1]
    /\ toWorker' = toWorker \o Sent(tab.status, <<Focus(tab'.focus)>>)
    /\ UNCHANGED <<worker, toTab, server, up>>

(* A branch is opened or closed, or the filter of the tree changes. *)
ChangeView ==
    /\ spent.tab < MaxTabOps /\ Count("tab")
    /\ \E v \in {[tab.view EXCEPT !.paths = {1} \ @], [tab.view EXCEPT !.filter = 1 - @]} :
         /\ tab' = [tab EXCEPT !.view = v]
         /\ toWorker' = Append(toWorker, [type |-> "view", view |-> v])
    /\ UNCHANGED <<worker, toTab, server, up>>

(* A view with a live watch is mounted or unmounted. *)
ToggleWatch ==
    /\ spent.tab < MaxTabOps /\ Count("tab")
    /\ tab' = [tab EXCEPT !.watch = ~@]
    /\ toWorker' = toWorker \o Sent(tab.status, <<Watch(tab'.watch)>>)
    /\ UNCHANGED <<worker, toTab, server, up>>

(* The login dialog: the session is there and the socket starts over. *)
Login ==
    /\ tab.required
    /\ tab' = [tab EXCEPT !.required = FALSE, !.status = "closed"]
    /\ server' = [server EXCEPT !.auth = TRUE]
    /\ toWorker' = toWorker \o <<[type |-> "disconnect"], [type |-> "connect"]>>
    /\ UNCHANGED <<worker, toTab, up, spent>>

(* Mutant: nothing is repeated when the socket opens. *)
AskNothing == <<>>

(* What the listeners of the status send on every open socket. *)
AskAgain == <<Focus(tab.focus)>> \o IF tab.watch THEN <<Watch(TRUE)>> ELSE <<>>

TabHandles ==
    /\ toTab # <<>>
    /\ toTab' = Tail(toTab)
    /\ LET m == Head(toTab) IN
         CASE m.type = "status" ->
                /\ tab' = [tab EXCEPT !.status = m.status]
                /\ toWorker' = toWorker \o IF m.status = "open" /\ tab.status # "open"
                                           THEN AskAgain ELSE <<>>
           [] m.type = "auth-required" ->
                tab' = [tab EXCEPT !.required = TRUE] /\ UNCHANGED toWorker
    /\ UNCHANGED <<worker, server, up, spent>>

-----------------------------------------------------------------------------
(* The worker. *)

Posts(old, new) ==
    IF old.status = new.status THEN <<>> ELSE <<[type |-> "status", status |-> new.status]>>

(* Becomes w, posting the new status after msgs. *)
Becomes(w, msgs) ==
    /\ worker' = w
    /\ toTab' = toTab \o msgs \o Posts(worker, w)

ViewCommand(w) == [type |-> "view", arg |-> w.view]

(* Puts a command on the socket, or drops it. *)
PutUp(w, c) == up' = IF w.sock = "open" THEN Append(up, c) ELSE up

(* connect(): a socket that is open or opening stays. *)
Connect(w) ==
    IF w.sock = "none" THEN [w EXCEPT !.manual = FALSE, !.sock = "connecting", !.status = "connecting"]
    ELSE [w EXCEPT !.manual = FALSE]

(* The socket is gone, with what was under way on it. *)
LoseSocket ==
    /\ up' = <<>>
    /\ server' = [server EXCEPT !.held = Nothing]

WorkerConnects ==
    /\ Becomes(Connect(worker), <<>>)
    /\ UNCHANGED <<server, up>>

WorkerDisconnects ==
    /\ Becomes([worker EXCEPT !.manual = TRUE, !.timer = FALSE, !.sock = "none", !.status = "closed"], <<>>)
    /\ LoseSocket

WorkerSends(c) ==
    /\ PutUp(worker, c)
    /\ UNCHANGED <<worker, toTab, server>>

(* What is typed into the filter is sent a little later.                    *)
WorkerTakesView(v) ==
    LET typed == v.filter # worker.view.filter
        w == [worker EXCEPT !.view = v, !.viewTimer = typed]
    IN  /\ Becomes(w, <<>>)
        /\ IF typed THEN UNCHANGED up ELSE PutUp(w, ViewCommand(w))
        /\ UNCHANGED <<server>>

WorkerHandles ==
    /\ toWorker # <<>>
    /\ toWorker' = Tail(toWorker)
    /\ LET m == Head(toWorker) IN
         \/ m.type = "connect" /\ WorkerConnects
         \/ m.type = "disconnect" /\ WorkerDisconnects
         \/ m.type = "send" /\ WorkerSends(m.cmd)
         \/ m.type = "view" /\ WorkerTakesView(m.view)
    /\ UNCHANGED <<tab, spent>>

ViewTimerFires ==
    /\ worker.viewTimer
    /\ Becomes([worker EXCEPT !.viewTimer = FALSE], <<>>)
    /\ PutUp(worker, ViewCommand(worker))
    /\ UNCHANGED <<tab, toWorker, server, spent>>

(* The delay is a second at least: of what was posted before, MaxLag is left. *)
ReconnectTimerFires ==
    /\ worker.timer
    /\ Len(toTab) <= MaxLag /\ Len(toWorker) <= MaxLag
    /\ Becomes(Connect([worker EXCEPT !.timer = FALSE]), <<>>)
    /\ UNCHANGED <<tab, toWorker, server, up, spent>>

(* onopen: the view is sent, then the tab is told. *)
SocketOpens ==
    /\ worker.sock = "connecting" /\ server.auth
    /\ LET w == [worker EXCEPT !.sock = "open", !.status = "open"]
       IN  Becomes(w, <<>>) /\ up' = <<ViewCommand(w)>>
    /\ UNCHANGED <<tab, toWorker, server, spent>>

(* Mutant: a socket that closes is not opened again. *)
ClosedForGood == [worker EXCEPT !.sock = "none", !.status = "closed", !.asking = TRUE]

(* onclose: ask whether it was the login, and try again later. *)
Closed == [worker EXCEPT !.sock = "none", !.status = "closed", !.asking = TRUE, !.timer = ~worker.manual]

SocketRejected ==
    /\ worker.sock = "connecting" /\ ~server.auth
    /\ Becomes(Closed, <<>>)
    /\ UNCHANGED <<tab, toWorker, server, up, spent>>

SocketFails ==
    /\ worker.sock = "connecting" /\ server.auth
    /\ spent.sockets < MaxSockets /\ Count("sockets")
    /\ Becomes(Closed, <<>>)
    /\ UNCHANGED <<tab, toWorker, server, up>>

SocketDrops ==
    /\ worker.sock = "open"
    /\ spent.sockets < MaxSockets /\ Count("sockets")
    /\ Becomes(Closed, <<>>)
    /\ LoseSocket
    /\ UNCHANGED <<tab, toWorker>>

AuthAnswers ==
    /\ worker.asking
    /\ Becomes([worker EXCEPT !.asking = FALSE],
               IF server.auth THEN <<>> ELSE <<[type |-> "auth-required"]>>)
    /\ UNCHANGED <<tab, toWorker, server, up, spent>>

-----------------------------------------------------------------------------
(* The server. *)

(* What handleCommand keeps per tab. *)
ServerHandles ==
    /\ up # <<>>
    /\ up' = Tail(up)
    /\ LET c == Head(up)
       IN  server' = CASE c.type = "focus" -> [server EXCEPT !.held.focus = c.arg]
                       [] c.type = "view" -> [server EXCEPT !.held.view = c.arg]
                       [] OTHER -> [server EXCEPT !.held.watch = c.type = "watch"]
    /\ UNCHANGED <<tab, worker, toWorker, toTab, spent>>

(* The session runs out; a socket that is open stays. *)
SessionEnds ==
    /\ server.auth /\ spent.sessions < MaxSessions /\ Count("sessions")
    /\ server' = [server EXCEPT !.auth = FALSE]
    /\ UNCHANGED <<tab, worker, toWorker, toTab, up>>

-----------------------------------------------------------------------------
Internal == \/ TabHandles \/ WorkerHandles \/ ServerHandles
            \/ ViewTimerFires \/ ReconnectTimerFires \/ AuthAnswers \/ SocketOpens

Next == \/ Internal
        \/ Select \/ ChangeView \/ ToggleWatch \/ Login
        \/ SocketRejected \/ SocketFails \/ SocketDrops
        \/ SessionEnds

Spec == Init /\ [][Next]_vars

(* What the browser, the worker and the server do of their own accord they  *)
(* go on doing; the user, the network's failures and the end of a session   *)
(* need never happen.                                                       *)
Fairness == /\ WF_vars(TabHandles) /\ WF_vars(WorkerHandles) /\ WF_vars(ServerHandles)
            /\ WF_vars(ViewTimerFires) /\ WF_vars(ReconnectTimerFires) /\ WF_vars(AuthAnswers)
            /\ WF_vars(SocketRejected)
            /\ WF_vars(SocketOpens)

FairSpec == Spec /\ Fairness
-----------------------------------------------------------------------------
Settled == /\ toWorker = <<>> /\ toTab = <<>> /\ up = <<>>
           /\ worker.sock = "open" /\ ~worker.viewTimer

(* The server streams the selected subjects, shows the part of the tree the *)
(* tab shows and watches for what is mounted. It may watch for more: a stop *)
(* sent while the tab is behind its worker is dropped.                      *)
Serves == /\ server.held.focus = tab.focus
          /\ server.held.view = tab.view
          /\ tab.watch => server.held.watch

(* Whenever the queues are empty over an open socket, the tab is served:    *)
(* commands dropped while a socket was closing, or sent to the one before,  *)
(* are made good, since feed.ts sends the focus, live.ts the watch and the  *)
(* worker the view on every open.                                           *)
ServerServesTheTab == Settled => Serves

(* However sockets fail, a tab ends up being served or asking for a login.  *)
ServedOrAsked == <>[](tab.required \/ (worker.sock = "open" /\ Serves))
=============================================================================
