----------------------------- MODULE Navigation -----------------------------
(* Where the tab is: the module, the connection and what is selected (the   *)
(* shell of store/index.ts), the address bar that follows it and is followed *)
(* (lib/urlSync.ts, lib/deepLink.ts), the pane beside the main one, the list *)
(* of connections the server broadcasts, and the command palette.           *)
(*                                                                          *)
(* A name is a pair of the connection that holds it and a word, so that a   *)
(* selection tells where it is from; the address carries the same name. A   *)
(* change of the store runs its subscribers at once.                        *)
EXTENDS Integers, Sequences, FiniteSets

CONSTANTS None,
          Conns, Unknown,   \* connections, and an id nobody has
          Saved,            \* connections this browser could open
          Modules,          \* the modules in use
          Words,            \* names within a connection
          MaxOps,           \* bound on what the reader does
          MaxEvents         \* bound on what the server does of its own

VARIABLES tab,      \* the stores of the tab and its address bar
          up,       \* the connections of the server
          frames,   \* broadcasts on their way to the tab
          calls,    \* connects under way
          asks,     \* searches of the palette under way
          phantom,  \* the address named a place the tab did not show then
          strayed,  \* a hit of one connection was opened under another
          spent

vars == <<tab, up, frames, calls, asks, phantom, strayed, spent>>

Names == (Conns \cup {Unknown}) \X Words
Kinds == {"subject", "range", "stream", "bucket", "key", "store", "service", "template"}
OfConnection == {"stream", "bucket", "key", "store", "service"}
Nothing == [k \in Kinds |-> None]

(* What is selected in a module, first the one its list selects. *)
Shows(m) == CASE m = "subjects" -> <<"subject", "range">> [] m = "jetstream" -> <<"stream">>
              [] m = "kv" -> <<"bucket", "key">> [] m = "objects" -> <<"store">>
              [] m = "services" -> <<"service">> [] m = "requests" -> <<"template">> [] OTHER -> <<>>
SplitModules == {"jetstream", "kv", "objects"}
Carried(m) == {Shows(m)[i] : i \in DOMAIN Shows(m)}

-----------------------------------------------------------------------------
(* Links: what is on screen, without what the other modules have selected.  *)

Link(m, c, sel) == [module |-> m, conn |-> c, sel |-> [k \in Kinds |-> IF k \in Carried(m) THEN sel[k] ELSE None]]
LinkFromState(t) == Link(t.module, t.conn, t.sel)
LinkTarget(l) == [l EXCEPT !.sel["range"] = None]

(* A window that starts at zero is no window to the parser. *)
ParseLink(l) == IF l.sel["range"] = "all" THEN [l EXCEPT !.sel["range"] = None] ELSE l

Hash(t) == t.entries[t.at]

(* A new place is an entry of its own, which cuts what lay ahead.           *)
WriteHash(t) ==
    LET l == LinkFromState(t)
        kept == IF LinkTarget(l) # t.last THEN Append(SubSeq(t.entries, 1, t.at), l)
                ELSE [t.entries EXCEPT ![t.at] = l]
    IN  IF t.pending # None \/ t.applying THEN t
        ELSE IF l = Hash(t) THEN [t EXCEPT !.last = LinkTarget(l)]
        ELSE [t EXCEPT !.entries = kept, !.at = IF LinkTarget(l) # t.last THEN @ + 1 ELSE @, !.last = LinkTarget(l)]

(* A narrow window turns to what was chosen, and a new module to its list.  *)
Turn(old, t) ==
    IF old.module # t.module THEN [t EXCEPT !.pane = "list"]
    ELSE IF \E k \in Kinds \ {"range", "key"} : old.sel[k] # t.sel[k] THEN [t EXCEPT !.pane = "detail"] ELSE t

(* A set of the store, with its subscribers, which get the states as values. *)
Set(old, new) == CHOOSE t \in {WriteHash(Turn(o, n)) : o \in {old}, n \in {new}} : TRUE

-----------------------------------------------------------------------------
(* The setters.                                                             *)

SetModule(t, m) == Set(t, [t EXCEPT !.module = m])

(* Mutant: the services are forgotten. *)
ClearsMost(t) == [t EXCEPT !.sel = [k \in Kinds |-> IF k \in OfConnection \ {"service"} THEN None ELSE @[k]],
                           !.beside = None]
Cleared(t) == [t EXCEPT !.sel = [k \in Kinds |-> IF k \in OfConnection THEN None ELSE @[k]], !.beside = None]

SetActiveConn(t, c) == IF t.conn = c THEN t ELSE Set(t, [Cleared(t) EXCEPT !.conn = c])

(* Another subject, and the range is gone; another bucket, and the key is.  *)
Chosen(sel, k, n) ==
    IF sel[k] = n THEN sel
    ELSE CASE k = "subject" -> [sel EXCEPT !.subject = n, !.range = None]
           [] k = "bucket" -> [sel EXCEPT !.bucket = n, !.key = None]
           [] OTHER -> [sel EXCEPT ![k] = n]
SetSelected(t, k, n) == Set(t, [t EXCEPT !.sel = Chosen(@, k, n)])

(* setConnections: an active connection that is gone gives way to another.  *)
SetConnections(t, cs) ==
    LET other == IF cs = {} THEN None ELSE CHOOSE c \in cs : TRUE
        t1 == [t EXCEPT !.conns = cs, !.loaded = TRUE]
    IN  IF t.conn \in cs THEN Set(t, t1)
        ELSE IF t.conn = other THEN Set(t, t1)
        ELSE Set(t, [Cleared(t1) EXCEPT !.conn = other])

-----------------------------------------------------------------------------
(* Following a link. *)

SelectAllOf(t, l) ==
    LET m == l.module
        a == SetModule([t EXCEPT !.applying = TRUE], m)
        b == IF Shows(m) = <<>> THEN a ELSE SetSelected(a, Shows(m)[1], l.sel[Shows(m)[1]])
        c == IF m = "subjects" /\ l.sel["range"] # None THEN SetSelected(b, "range", l.sel["range"]) ELSE b
    IN  [c EXCEPT !.applying = FALSE]

ApplySelection(t, l) ==
    LET a == SelectAllOf([t EXCEPT !.applying = TRUE], l)
        b == IF l.module = "kv" /\ l.sel["bucket"] # None
             THEN SetSelected([a EXCEPT !.applying = TRUE], "key", l.sel["key"]) ELSE a
    IN  [b EXCEPT !.applying = FALSE]

(* What resolvePending makes of the tab, and the link it connects for.      *)
ResolvePending(t) ==
    LET l == t.pending
        t1 == [t EXCEPT !.pending = None]
    IN  CASE l = None \/ (l.conn # None /\ ~t.loaded) -> <<t, None>>
          [] l # None /\ l.conn = None -> <<ApplySelection(t1, l), None>>
          [] l # None /\ t.loaded /\ l.conn \in t.conns -> <<ApplySelection(SetActiveConn(t1, l.conn), l), None>>
          [] l # None /\ t.loaded /\ l.conn \in Saved \ t.conns -> <<SetModule(t1, l.module), l>>
          [] OTHER -> <<ApplySelection(t1, l), None>>

Misnamed(t) == t.entries # tab.entries /\ Hash(t) # LinkFromState(t)

(* The tab follows what is pending in a state, if it can. *)
Follow(new) ==
    \E t \in {new} : \E r \in {ResolvePending(t)} :
        /\ tab' = r[1]
        /\ calls' = IF r[2] = None THEN calls ELSE calls \cup {[conn |-> r[2].conn, link |-> r[2], state |-> "sent"]}
        /\ phantom' = (phantom \/ Misnamed(r[1]))

Goes(new) == \E t \in {new} : tab' = t /\ phantom' = (phantom \/ Misnamed(t))

-----------------------------------------------------------------------------
(* A tab is opened: on nothing, or on an address it will follow.            *)
Opened(entries, at) ==
    LET l == entries[at]
        start == [module |-> "subjects", conn |-> None, sel |-> Nothing, beside |-> None, pane |-> "list",
                  conns |-> {}, loaded |-> FALSE, entries |-> entries, at |-> at, last |-> None,
                  pending |-> IF l = None THEN None ELSE ParseLink(l), applying |-> FALSE,
                  palette |-> [open |-> FALSE, q |-> None, found |-> None]]
    IN  ResolvePending([start EXCEPT !.last = LinkTarget(LinkFromState(start))])[1]

Addresses == {None} \cup {Link("kv", c, [Nothing EXCEPT !["bucket"] = <<c, w>>, !["key"] = <<c, w>>]) :
                          c \in Conns \cup {Unknown}, w \in Words}

Init ==
    /\ up \in SUBSET Conns
    /\ \E a \in Addresses : tab = Opened(<<a>>, 1)
    /\ frames = <<up>> /\ calls = {} /\ asks = {} /\ phantom = FALSE /\ strayed = FALSE
    /\ spent = [ops |-> 0, events |-> 0]

Spend(what, max) == spent[what] < max /\ spent' = [spent EXCEPT ![what] = @ + 1]
Op == Spend("ops", MaxOps) /\ UNCHANGED strayed
Quietly == UNCHANGED <<up, frames, asks>>

-----------------------------------------------------------------------------
(* The reader. *)

OpenModule ==
    /\ Op /\ \E m \in Modules \ {tab.module} : Goes(SetModule(tab, m))
    /\ Quietly /\ UNCHANGED calls

(* A row of the list, or what is below it; the lists show the connection's. *)
OpenItem ==
    /\ Op /\ tab.conn \in tab.conns /\ \E k \in Carried(tab.module) \ {"range"}, w \in Words :
         /\ k = "key" => tab.sel["bucket"] # None
         /\ Goes(SetSelected(tab, k, <<tab.conn, w>>))
    /\ Quietly /\ UNCHANGED calls

(* The preset "All" starts at zero. *)
PickRange ==
    /\ Op /\ tab.module = "subjects" /\ tab.sel["subject"] # None
    /\ \E r \in {None, "window", "all"} \ {tab.sel["range"]} : Goes(SetSelected(tab, "range", r))
    /\ Quietly /\ UNCHANGED calls

OpenBeside ==
    /\ Op /\ tab.module \in SplitModules /\ tab.conn \in tab.conns
    /\ \E w \in Words : Goes(Set(tab, [tab EXCEPT !.beside = [module |-> tab.module, name |-> <<tab.conn, w>>]]))
    /\ Quietly /\ UNCHANGED calls

Swap ==
    /\ Op /\ tab.beside # None /\ tab.beside.module = tab.module
    /\ LET k == Shows(tab.module)[1]
           opened == Set(tab, [tab EXCEPT !.beside = [module |-> tab.module, name |-> tab.sel[k]]])
       IN  tab.sel[k] # None /\ Goes(SetSelected(opened, k, tab.beside.name))
    /\ Quietly /\ UNCHANGED calls

CloseBeside ==
    /\ Op /\ tab.beside # None /\ Goes(Set(tab, [tab EXCEPT !.beside = None]))
    /\ Quietly /\ UNCHANGED calls

SwitchConn ==
    /\ Op /\ \E c \in tab.conns \ {tab.conn} : Goes(SetActiveConn(tab, c))
    /\ Quietly /\ UNCHANGED calls

(* The switcher, the dialog or the page without a connection. *)
ConnectSaved ==
    /\ Op /\ \E c \in Saved \ tab.conns : calls' = calls \cup {[conn |-> c, link |-> None, state |-> "sent"]}
    /\ Quietly /\ UNCHANGED <<tab, phantom>>

Disconnect ==
    /\ Op /\ \E c \in up \cap tab.conns : up' = up \ {c} /\ frames' = Append(frames, up \ {c})
    /\ UNCHANGED <<tab, calls, asks, phantom>>

(* The back and forward buttons: popstate. *)
Walk ==
    /\ Op /\ \E i \in {tab.at - 1, tab.at + 1} \cap DOMAIN tab.entries :
         LET l == tab.entries[i]
             t == [tab EXCEPT !.at = i]
         IN  IF l = None THEN Goes(t) /\ UNCHANGED calls
             ELSE Follow([t EXCEPT !.last = LinkTarget(ParseLink(l)), !.pending = ParseLink(l)])
    /\ Quietly

(* The page is loaded anew: what was under way is nobody's. *)
Reload ==
    /\ Op
    /\ tab' = Opened(tab.entries, tab.at)
    /\ frames' = <<up>> /\ calls' = {} /\ asks' = {}
    /\ UNCHANGED <<up, phantom>>

-----------------------------------------------------------------------------
(* The palette: what is typed is searched after a pause, on the connection  *)
(* active then; an answer to an older search is dropped.                    *)

Type ==
    /\ Op /\ \E w \in Words : w # tab.palette.q /\ Goes([tab EXCEPT !.palette.open = TRUE, !.palette.q = w])
    /\ asks' = {} /\ UNCHANGED <<up, frames, calls>>

Pause ==
    /\ tab.palette.open /\ tab.conn # None /\ asks = {}
    /\ tab.palette.found # [conn |-> tab.conn, q |-> tab.palette.q]
    /\ asks' = {[conn |-> tab.conn, q |-> tab.palette.q]}
    /\ UNCHANGED <<tab, up, frames, calls, phantom, strayed, spent>>

Found ==
    /\ \E a \in asks : /\ a = [conn |-> tab.conn, q |-> tab.palette.q]
                       /\ tab' = [tab EXCEPT !.palette.found = a]
    /\ asks' = {}
    /\ UNCHANGED <<up, frames, calls, phantom, strayed, spent>>

(* Hits stay on screen until the next answer. *)
RunHit ==
    /\ Spend("ops", MaxOps) /\ tab.palette.open /\ tab.palette.found # None /\ tab.conn # None
    /\ LET f == tab.palette.found
           l == Link("jetstream", tab.conn, [Nothing EXCEPT !["stream"] = <<f.conn, f.q>>])
       IN  /\ Follow([tab EXCEPT !.palette = [open |-> FALSE, q |-> None, found |-> None], !.pending = l])
           /\ strayed' = (strayed \/ f.conn # tab.conn)
    /\ asks' = {} /\ UNCHANGED <<up, frames>>

-----------------------------------------------------------------------------
(* The server. *)

Connects ==
    /\ \E c \in calls : /\ c.state = "sent"
                        /\ calls' = (calls \ {c}) \cup {[c EXCEPT !.state = "up"]}
                        /\ up' = up \cup {c.conn} /\ frames' = Append(frames, up')
    /\ UNCHANGED <<tab, asks, phantom, strayed, spent>>

(* The answer overtakes the broadcast: they come by different ways. *)
ConnectAnswers ==
    /\ \E c \in calls :
         /\ c.state = "up" /\ calls' = calls \ {c}
         /\ LET t == SetActiveConn(tab, c.conn)
            IN  Goes(IF c.link = None THEN t ELSE ApplySelection(t, c.link))
    /\ UNCHANGED <<up, frames, asks, strayed, spent>>

ConnectFails ==
    /\ Spend("events", MaxEvents)
    /\ \E c \in calls : c.state = "sent" /\ calls' = calls \ {c}
    /\ UNCHANGED <<tab, up, frames, asks, phantom, strayed>>

(* Another tab connects or disconnects. *)
Elsewhere ==
    /\ Spend("events", MaxEvents)
    /\ \E c \in Conns : up' = IF c \in up THEN up \ {c} ELSE up \cup {c}
    /\ frames' = Append(frames, up')
    /\ UNCHANGED <<tab, calls, asks, phantom, strayed>>

Receive ==
    /\ frames # <<>> /\ frames' = Tail(frames)
    /\ Follow(SetConnections(tab, Head(frames)))
    /\ UNCHANGED <<up, asks, strayed, spent>>

(* Anything else of the store changes: rows of the tree, rates. *)
Tick ==
    /\ Goes(Set(tab, tab)) /\ tab' # tab
    /\ UNCHANGED <<up, frames, calls, asks, strayed, spent>>

Next == \/ OpenModule \/ OpenItem \/ PickRange \/ OpenBeside \/ Swap \/ CloseBeside \/ SwitchConn
        \/ ConnectSaved \/ Disconnect \/ Walk \/ Reload
        \/ Type \/ Pause \/ Found \/ RunHit
        \/ Connects \/ ConnectAnswers \/ ConnectFails \/ Elsewhere \/ Receive \/ Tick

Spec == Init /\ [][Next]_vars
-----------------------------------------------------------------------------
(* What is selected is of the active connection, in the main pane and       *)
(* beside it, whatever connects, goes or answers late: handlers name only   *)
(* the connection and the selection.                                        *)
SelectionIsOfConnection ==
    strayed \/ \A n \in {tab.sel[k] : k \in OfConnection} \cup (IF tab.beside = None THEN {} ELSE {tab.beside.name}) :
                  n = None \/ n[1] \in {tab.conn, Unknown}

(* A link brings the reader to the place it was copied from, in the words   *)
(* of lib/urlSync.ts: whoever opens it sees the same thing.                 *)
LinkRestoresView == ParseLink(LinkFromState(tab)) = LinkFromState(tab)

(* The back button walks back through what was opened: what is written into *)
(* the browser's history is the place the tab shows.                        *)
BackWalksBack == ~phantom

(* A link that waits is not lost to a reload. *)
WaitingLinkStays ==
    \A c \in calls : (c.link # None /\ spent.ops = 0) => Hash(tab) = c.link
=============================================================================
