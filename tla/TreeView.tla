------------------------------- MODULE TreeView -------------------------------
(* The subject tree in the browser: the filter and the open branches of the  *)
(* store, the worker that merges the nodes of all connections (feedCore.ts,   *)
(* tree.ts) and lays out rows, and a server that sends the nodes the tab's    *)
(* view shows. TreeFeed models the server's side; here only nodes matter, not *)
(* their counts.                                                              *)
EXTENDS Integers, Sequences, FiniteSets, FiniteSetsExt

CONSTANTS None,
          Conns, Subjects,
          Above,     \* the ancestors of a subject
          System,    \* roots that are NATS' own
          Matching,  \* per filter, the subjects it matches
          MaxOps, MaxChanges, MaxMoves

VARIABLES conns,  \* the connections there are; broadcasts of their list that
                  \* have not read it yet, and that have; ghost: one came late
          trees,  \* per connection, the nodes the server has
          asked,  \* the view the server knows of this tab, None before
          sent,   \* per connection, the nodes it sent, None before the first time
          wire,   \* updates on their way
          model,  \* TreeModel: node -> the connections with an entry for it
          known,  \* the connections of the last list the worker got
          view,   \* the view the worker lays out
          due,    \* whether a layout is scheduled
          rows,   \* the rows on screen
          ui,     \* the store: filter, all, expanded, collapsed, hide, selected
          auto,   \* whether the first level was opened since the rows began
          over,   \* ghost: whether the tree started over since that opening
          spent

vars == <<conns, trees, asked, sent, wire, model, known, view, due, rows, ui, auto, over, spent>>
server == <<conns, trees, asked, sent, wire>>
worker == <<model, known, view, due>>

Filters == DOMAIN Matching
Roots == {s \in Subjects : Above[s] = {}}
Parent(s) == CHOOSE p \in Above[s] : Above[p] = Above[s] \ {p}
Below(s) == {d \in Subjects : s \in Above[d]}
ViewOf(u) == [filter |-> u.filter, all |-> u.all, paths |-> u.expanded, collapsed |-> u.collapsed, hide |-> u.hide]

NoUI == [filter |-> None, all |-> FALSE, expanded |-> {}, collapsed |-> {}, hide |-> TRUE, selected |-> None]
Nothing == [c \in Conns |-> {}]
Unsent == [c \in Conns |-> None]
NoNodes == [s \in {} |-> {}]

Init ==
    /\ conns = [now |-> Conns, unread |-> 0, read |-> {}, late |-> FALSE]
    /\ trees = Nothing /\ asked = None /\ sent = Unsent /\ wire = <<>>
    /\ model = NoNodes /\ known = Conns /\ view = ViewOf(NoUI) /\ due = FALSE
    /\ rows = {} /\ ui = NoUI /\ auto = FALSE /\ over = TRUE
    /\ spent = [ops |-> 0, changes |-> 0, moves |-> 0]

-----------------------------------------------------------------------------
(* TreeModel. *)

Entries(m, c) == {s \in DOMAIN m : c \in m[s]}
Restricted(m, S) == [s \in S |-> m[s]]

(* insert: a node that is new brings its ancestors, empty until theirs come. *)
NewPath(s) == {s} \cup Above[s]
ApplyEntries(m, c, data) ==
    LET all == DOMAIN m \cup UNION {NewPath(s) : s \in data}
    IN  [s \in all |-> (IF s \in DOMAIN m THEN m[s] ELSE {}) \cup (IF s \in data THEN {c} ELSE {})]

(* A node without an entry stays for the children it has.                   *)
Detach(m) == Restricted(m, {s \in DOMAIN m : m[s] # {} \/ \E d \in Below(s) \cap DOMAIN m : m[d] # {}})

(* removeEntry: without any entry left, what hangs below goes, whosever.    *)
RemoveEntry(m, c, s) ==
    IF s \notin DOMAIN m \/ c \notin m[s] THEN m
    ELSE IF m[s] # {c} THEN [m EXCEPT ![s] = @ \ {c}]
    ELSE Detach([d \in DOMAIN m |-> IF d = s \/ d \in Below(s) THEN {} ELSE m[d]])

RemoveEntries(m, c, gone) == FoldSet(LAMBDA s, acc : RemoveEntry(acc, c, s), m, gone)
DropConnection(m, c) == RemoveEntries(m, c, Entries(m, c))
DropConnections(m, C) == FoldSet(LAMBDA c, acc : DropConnection(acc, c), m, C)

Apply(m, u) ==
    LET kept == IF u.full THEN DropConnection(m, u.conn) ELSE m
    IN  ApplyEntries(RemoveEntries(kept, u.conn, u.removed), u.conn, u.data)

IsExpanded(v, s) ==
    IF v.filter # None THEN s \notin v.collapsed
    ELSE IF v.all THEN s \notin v.paths ELSE s \in v.paths

(* flattenTree: roots, then the children of expanded branches.              *)
FlattenTree(nodes, v) ==
    LET shown == IF v.hide THEN {s \in nodes : ({s} \cup Above[s]) \cap System = {}} ELSE nodes
    IN  {s \in shown : \A a \in Above[s] : IsExpanded(v, a)}

(* What the server sends of a tree: under a filter the paths to its matches. *)
Visible(nodes, v) ==
    IF v = None THEN {}
    ELSE IF v.filter # None THEN {s \in nodes : ({s} \cup Below(s)) \cap nodes \cap Matching[v.filter] # {}}
    ELSE {s \in nodes : \A a \in Above[s] : IsExpanded(v, a)}

-----------------------------------------------------------------------------
(* The effect of SubjectTree: with the first rows the first level opens.    *)
AutoExpands(r, u) == r # {} /\ ~auto /\ u.filter = None
Rendered(r, u) ==
    /\ rows' = r
    /\ auto' = IF r = {} THEN FALSE ELSE auto \/ u.filter = None
    /\ ui' = IF AutoExpands(r, u) /\ ~u.all THEN [u EXCEPT !.all = FALSE, !.expanded = r \cap Roots] ELSE u
    /\ over' = IF AutoExpands(r, u) THEN FALSE ELSE over

Op == spent.ops < MaxOps /\ spent' = [spent EXCEPT !.ops = @ + 1]
Change == spent.changes < MaxChanges /\ spent' = [spent EXCEPT !.changes = @ + 1]

Branches(u) == ui' = u /\ UNCHANGED <<server, worker, rows, auto, over>>

SetSubjectFilter ==
    /\ Op /\ \E f \in (Filters \cup {None}) \ {ui.filter} : Rendered(rows, [ui EXCEPT !.filter = f, !.collapsed = {}])
    /\ UNCHANGED <<server, worker>>

Flip(S, x) == IF x \in S THEN S \ {x} ELSE S \cup {x}

ToggleExpanded ==
    /\ Op /\ \E s \in {r \in rows : Below(r) # {}} :
         Branches(IF ui.filter # None THEN [ui EXCEPT !.collapsed = Flip(@, s)] ELSE [ui EXCEPT !.expanded = Flip(@, s)])

ExpandAllBranches ==
    Op /\ Branches(IF ui.filter # None THEN [ui EXCEPT !.collapsed = {}] ELSE [ui EXCEPT !.all = TRUE, !.expanded = {}])

CollapseAll ==
    Op /\ Branches(IF ui.filter # None THEN [ui EXCEPT !.collapsed = {r \in rows : Below(r) # {}}]
                   ELSE [ui EXCEPT !.all = FALSE, !.expanded = {}])

(* Revealing a subject opens its ancestors, under a filter too.             *)
Revealed(u, s) == [u EXCEPT !.selected = s, !.expanded = IF u.all THEN @ \ Above[s] ELSE @ \cup Above[s]]
RevealSubject ==
    Op /\ \E s \in Subjects : Branches(Revealed(ui, s))

(* Arrows, Home and End walk the rows; left of a closed branch its parent.  *)
Walk ==
    /\ Op /\ \E s \in rows \cup {Parent(r) : r \in {r \in rows : Above[r] # {}}} :
         s # ui.selected /\ Branches([ui EXCEPT !.selected = s])

SetHideSystem == Op /\ Branches([ui EXCEPT !.hide = ~@])

-----------------------------------------------------------------------------
(* The worker takes the view, passes it on and lays out what it has.        *)

WorkerTakesView ==
    /\ view # ViewOf(ui) /\ view' = ViewOf(ui) /\ due' = TRUE
    /\ UNCHANGED <<server, model, known, rows, ui, auto, over, spent>>

ServerTakesView ==
    /\ asked # view /\ asked' = view
    /\ UNCHANGED <<conns, trees, sent, wire, worker, rows, ui, auto, over, spent>>

(* Trees of connections that vanished from the list go with them.           *)
HandleTree(u) == u.type = "subject-tree" /\ model' = Apply(model, u) /\ known' = known
HandleConnections(u) == u.type = "connections" /\ model' = DropConnections(model, known \ u.data) /\ known' = u.data

HandleEvent ==
    /\ wire # <<>> /\ wire' = Tail(wire)
    /\ HandleTree(Head(wire)) \/ HandleConnections(Head(wire))
    /\ due' = TRUE
    /\ UNCHANGED <<conns, trees, asked, sent, view, rows, ui, auto, over, spent>>

LayoutTree ==
    /\ due /\ due' = FALSE
    /\ Rendered(FlattenTree(DOMAIN model, view), ui)
    /\ UNCHANGED <<server, model, known, view, spent>>

-----------------------------------------------------------------------------
(* The server: a tab that reads is told what its view gained and lost.      *)

(* A list comes late when a tree went out that it is the first to name, or   *)
(* that it leaves out though the connection is there.                        *)
Told == LET lists == SelectSeq(wire, LAMBDA u : u.type = "connections")
        IN  IF lists = <<>> THEN known ELSE lists[Len(lists)].data

SentOf(c) == IF sent[c] = None THEN {} ELSE sent[c]
Emit ==
    /\ \E c \in conns.now : LET shown == Visible(trees[c], asked) IN
         /\ asked # None /\ shown # sent[c]
         /\ sent' = [sent EXCEPT ![c] = shown]
         /\ wire' = Append(wire, [type |-> "subject-tree", conn |-> c, full |-> sent[c] = None,
                                  data |-> shown \ SentOf(c), removed |-> SentOf(c) \ shown])
         /\ conns' = [conns EXCEPT !.late = @ \/ c \notin Told]
    /\ UNCHANGED <<trees, asked, worker, rows, ui, auto, over, spent>>

SubjectAppears ==
    /\ Change /\ \E c \in conns.now, s \in Subjects : s \notin trees[c] /\ trees' = [trees EXCEPT ![c] = @ \cup {s} \cup Above[s]]
    /\ UNCHANGED <<conns, asked, sent, wire, worker, rows, ui, auto, over>>

SubjectsForgotten ==
    /\ Change /\ \E c \in Conns : trees[c] # {} /\ trees' = [trees EXCEPT ![c] = {}]
    /\ over' = TRUE
    /\ UNCHANGED <<conns, asked, sent, wire, worker, rows, ui, auto>>

(* Connect and Disconnect stop the manager before the list changes; a new    *)
(* manager begins with an empty tree and sends it whole. The list is         *)
(* broadcast by a goroutine of its own, which reads it when it runs.         *)
ConnectionsChange ==
    /\ spent.moves < MaxMoves /\ spent' = [spent EXCEPT !.moves = @ + 1]
    /\ \E c \in Conns : \E now \in {conns.now \cup {c}, conns.now \ {c}} :
         /\ conns' = [conns EXCEPT !.now = now, !.unread = @ + 1]
         /\ trees' = [trees EXCEPT ![c] = {}] /\ sent' = [sent EXCEPT ![c] = None]
    /\ over' = TRUE
    /\ UNCHANGED <<asked, wire, worker, rows, ui, auto>>

ReadList ==
    /\ conns.unread > 0 /\ conns' = [conns EXCEPT !.unread = @ - 1, !.read = @ \cup {conns.now}]
    /\ UNCHANGED <<trees, asked, sent, wire, worker, rows, ui, auto, over, spent>>

BroadcastList ==
    /\ \E list \in conns.read :
         /\ wire' = Append(wire, [type |-> "connections", data |-> list])
         /\ conns' = [conns EXCEPT !.read = @ \ {list}, !.late = @ \/ \E c \in conns.now \ list : sent[c] # None]
    /\ UNCHANGED <<trees, asked, sent, worker, rows, ui, auto, over, spent>>

(* The socket drops: the server forgets the tab, and when it opens again the *)
(* worker what it knew, and gets the list before it has asked for anything.  *)
SocketDrops ==
    /\ Change /\ asked # None
    /\ asked' = None /\ sent' = Unsent /\ wire' = <<[type |-> "connections", data |-> conns.now]>>
    /\ model' = DropConnections(model, known) /\ known' = {} /\ due' = TRUE /\ over' = TRUE
    /\ UNCHANGED <<conns, trees, view, rows, ui, auto>>

Next == \/ SetSubjectFilter \/ ToggleExpanded \/ ExpandAllBranches \/ CollapseAll \/ RevealSubject \/ Walk \/ SetHideSystem
        \/ WorkerTakesView \/ ServerTakesView \/ HandleEvent \/ LayoutTree \/ Emit
        \/ SubjectAppears \/ SubjectsForgotten \/ ConnectionsChange \/ ReadList \/ BroadcastList \/ SocketDrops

Spec == Init /\ [][Next]_vars
-----------------------------------------------------------------------------
Settled ==
    /\ view = ViewOf(ui) /\ asked = view /\ wire = <<>> /\ ~due
    /\ conns.unread = 0 /\ conns.read = {} /\ \A c \in conns.now : sent[c] = Visible(trees[c], asked)
OfAllTrees == FlattenTree(UNION {Visible(trees[c], ViewOf(ui)) : c \in conns.now}, ViewOf(ui))

(* Whatever order branches, subjects and connections came and went in: the   *)
(* worker holds a path for every node and no path that leads nowhere, and    *)
(* once all is said the rows are those the view shows of the trees of all    *)
(* connections there are together -- unless a list of them came late.        *)
RowsShowTheView ==
    /\ \A s \in DOMAIN model : Above[s] \subseteq DOMAIN model
    /\ \A s \in DOMAIN model : model[s] # {} \/ \E d \in Below(s) : d \in DOMAIN model
    /\ Settled /\ ~conns.late => rows = OfAllTrees

(* Not kept: a list read before a connection was there is sent after its     *)
(* tree, which the worker drops as one of those "that vanished"              *)
(* (feedCore.ts) and the server does not send again.                         *)
OnlyTheVanishedGo == Settled => rows = OfAllTrees

(* The first level opens by itself when data arrives and again after the     *)
(* tree started over, never over the branches the reader has opened since    *)
(* (a filter without a match leaves no rows, as a tree that started over).   *)
FirstLevelOpensOnce == [][ui'.expanded # ui.expanded /\ auto' /\ ~auto => over]_vars
=============================================================================
