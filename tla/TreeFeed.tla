------------------------------ MODULE TreeFeed ------------------------------
(***************************************************************************)
(* The subject tree of one connection and the deltas that keep the copy    *)
(* of every browser tab up to date                                         *)
(* (src/go-server/internal/subscription/tree.go, with the parts of         *)
(* manager.go and resubscribe.go that drive it, and TreeModel.apply of the *)
(* client).                                                                *)
(*                                                                         *)
(* The workers count messages in the shards.  Three kinds of goroutine     *)
(* emit: the tree loop, the reader of a tab that changed its view, and a   *)
(* request that made the tree forget subjects.  An emit carries the        *)
(* shards' changes into the tree, computes one update per tab, all under   *)
(* m.mu, and hands the updates over after the unlock: those of two         *)
(* emitters may overtake each other, and the hub drops one for a tab whose *)
(* buffer is full.                                                         *)
(***************************************************************************)
EXTENDS Integers, Sequences, FiniteSets, FiniteSetsExt, SequencesExt, Functions

CONSTANTS Subjects,     \* the nodes that can exist: published subjects and branches
          Published,    \* the subjects that receive messages
          Above,        \* Above[s]: the ancestors of s
          ShardOf,      \* ShardOf[s]: the shard that counts the published subject s
          Tabs,         \* browser tabs
          Views,        \* the views a tab may ask for
          Requests,     \* goroutines of the requests that clear subjects
          Fading,       \* bound of the model: the subjects whose rate falls
          Selections,   \* bound of the model: what a request may clear
          Contents,     \* what an expression makes of a message: TRUE, it holds
          MaxCount,     \* bound of the model: messages per subject
          MaxInFlight   \* bound of the model: updates on their way to one tab

ASSUME SubjectsAssumption ==
    /\ IsFiniteSet(Subjects) /\ Published \subseteq Subjects
    /\ Above \in [Subjects -> SUBSET Subjects]
    /\ \A s \in Subjects : s \notin Above[s] /\ \A p \in Above[s] : Above[p] \subseteq Above[s]
    \* the ancestors of a subject are its prefixes: of any two, one is above the other
    /\ \A s \in Subjects : \A p, q \in Above[s] : p = q \/ p \in Above[q] \/ q \in Above[p]
ASSUME ViewsAssumption ==
    /\ Views # {}
    /\ Views \subseteq [all : BOOLEAN, paths : SUBSET Subjects, terms : BOOLEAN, expr : BOOLEAN,
                       matching : SUBSET Subjects, preview : BOOLEAN]
    \* a subject contains what its ancestors contain
    /\ \A v \in Views : \A s \in Subjects : Above[s] \cap v.matching # {} => s \in v.matching
ASSUME BoundsAssumption == MaxCount \in Nat \ {0} /\ MaxInFlight \in Nat \ {0} /\ Fading \subseteq Published /\ Selections \subseteq SUBSET Published

VARIABLES
    stats,      \* shard.subjects: count, rate (1 while messages come) and last message
    changed,    \* shard.dirty
    active,     \* shard.active
    tree,       \* tree.nodes: the node of every subject that has one
    touched,    \* tree.dirty: the nodes of the tree on it
    dead,       \* tree.dirty: nodes on it that remove took out of the tree since
    view,       \* the clientView of every tab
    inflight,   \* per tab, the updates computed and not yet handed over, oldest first;
                \* history: late, the subjects on which a later one came or was lost first
    mirror,     \* what the tab holds: TreeModel's entries of this connection
    damaged,    \* history, per tab: subjects whose last word was lost, or came before an older one
    revived,    \* history: subjects whose last word came twice, the dead node's after the live one's
    overtaken,  \* history: subjects seen again between the two steps of a Forget
    reader,     \* whether a tab's reader has set a view and not emitted yet
    request     \* the step a clearing request has reached

vars == <<stats, changed, active, tree, touched, dead, view, inflight, mirror,
          damaged, revived, overtaken, reader, request>>
shards == <<stats, changed, active>>
nodes == <<tree, touched, dead, revived>>
wires == <<inflight, mirror, damaged>>

Shards == {ShardOf[s] : s \in Published}
UpFrom(S) == S \cup UNION {Above[s] : s \in S}
Under == [s \in Subjects |-> {s} \cup {d \in Subjects : s \in Above[d]}]
Children == [s \in Subjects |-> {c \in Under[s] \ {s} : Above[c] = Above[s] \cup {s}}]
ChildrenIn(t, s) == Children[s] \cap DOMAIN t
NoStats == [count |-> 0, rate |-> 0, last |-> "nil"]
NewNode == [count |-> 0, rate |-> 0, last |-> "nil", total |-> 0, totalRate |-> 0, subjects |-> 0]
NewView == [wants |-> CHOOSE v \in Views : TRUE, sent |-> {}, dirty |-> FALSE, loaded |-> FALSE, needFull |-> TRUE]
Idle == [step |-> "idle", all |-> FALSE, wanted |-> {}, gone |-> {}, left |-> {}]
EmptyTree == [s \in {} |-> NewNode]

Init ==
    /\ stats = [s \in Published |-> NoStats] /\ changed = {} /\ active = {}
    /\ tree = EmptyTree /\ touched = {} /\ dead = {} /\ revived = {}
    /\ view = [c \in Tabs |-> NewView] /\ inflight = [c \in Tabs |-> <<>>]
    /\ mirror = [c \in Tabs |-> EmptyTree] /\ damaged = [c \in Tabs |-> {}] /\ overtaken = {}
    /\ reader = [c \in Tabs |-> FALSE] /\ request = [r \in Requests |-> Idle]

-----------------------------------------------------------------------------
(* The tree. *)

\* syncTree: the subjects observed, those with messages and those whose rate fell.
Observed ==
    {s \in changed : stats[s].count > 0} \cup
    {s \in active \ changed : stats[s].count > 0 /\ s \in DOMAIN tree /\ tree[s].rate # stats[s].rate}
(* Mutant: the decay loop looks at a subject once. *)
StillActiveOnce == active \cap changed
StillActive == {s \in active : s \in changed \/ stats[s].rate > 0}
(* Mutant: get without the ancestors. *)
SyncedBare(seen) ==
    [s \in DOMAIN tree \cup seen |->
        LET n == IF s \in DOMAIN tree THEN tree[s] ELSE NewNode IN
        IF s \in seen
        THEN [n EXCEPT !.count = stats[s].count, !.rate = stats[s].rate, !.last = stats[s].last]
        ELSE n]
Synced(seen) ==
    [s \in DOMAIN tree \cup UpFrom(seen) |->
        LET n == IF s \in DOMAIN tree THEN tree[s] ELSE NewNode IN
        IF s \in seen
        THEN [n EXCEPT !.count = stats[s].count, !.rate = stats[s].rate, !.last = stats[s].last]
        ELSE n]

\* The subtree of a node, summed over its own numbers and its children's.
Summed(n, kids) ==
    [n EXCEPT !.total = n.count + MapThenSumSet(LAMBDA c : kids[c].total, DOMAIN kids),
              !.totalRate = n.rate + MapThenSumSet(LAMBDA c : kids[c].totalRate, DOMAIN kids),
              !.subjects = (IF n.count > 0 THEN 1 ELSE 0)
                             + MapThenSumSet(LAMBDA c : kids[c].subjects, DOMAIN kids)]
(* Mutant: refresh without the sort: a parent sums its children before they are done. *)
RefreshedUnsorted(t, dirty) ==
    [s \in DOMAIN t |-> IF s \in dirty THEN Summed(t[s], [c \in ChildrenIn(t, s) |-> t[c]]) ELSE t[s]]
\* refresh: the dirty nodes, deepest first, so that the children are done already.
Refreshed(t, dirty) ==
    LET f[s \in DOMAIN t] ==
            IF s \in dirty THEN Summed(t[s], [c \in ChildrenIn(t, s) |-> f[c]]) ELSE t[s]
    IN f

(* Mutant: remove takes the whole branch. *)
PrunedBranches(gone) ==
    Restrict(tree, {s \in DOMAIN tree : UpFrom({s}) \cap UpFrom(gone) = {}})
\* remove, for all subjects of a Forget: a branch without messages below it goes too.
Pruned(gone) ==
    LET t == [s \in DOMAIN tree |->
                IF s \in gone THEN [tree[s] EXCEPT !.count = 0, !.rate = 0, !.last = "nil"] ELSE tree[s]]
    IN Restrict(t, {s \in DOMAIN t : \E d \in Under[s] \cap DOMAIN t : t[d].count > 0})

\* Those it takes out and leaves on the list of the changed ones: marked before, or
\* marked by an earlier remove of the same Forget.  Two counted subjects below a node
\* do that, and a branch of gone that was not counted yet and comes before its leaves.
Orphans(gone) ==
    LET known == gone \cap DOMAIN tree
        counted == {s \in known : tree[s].count > 0}
        out == DOMAIN tree \ DOMAIN Pruned(gone)
    IN {(touched \cup UpFrom(early) \cup {s \in out : Cardinality(Under[s] \cap counted) > 1}) \cap out :
            early \in SUBSET (known \ counted)}
\* What the tab is told of a node that is dead.
DeadEntry == [count |-> 0, rate |-> 0, total |-> 0, totalRate |-> 0, children |-> 0, subjects |-> 0, last |-> "nil"]

EntryOf(t, s, preview) ==
    [count |-> t[s].count, rate |-> t[s].rate, total |-> t[s].total, totalRate |-> t[s].totalRate,
     children |-> Cardinality(ChildrenIn(t, s)), subjects |-> t[s].subjects,
     last |-> IF preview THEN t[s].last ELSE "nil"]

-----------------------------------------------------------------------------
(* What a tab sees of the tree, and the update that tells it. *)

Expanded(w, s) == (s \in w.paths) # w.all
MatchesNode(w, t, s) == s \in w.matching /\ (w.expr => t[s].last = "hit")
Filtering(w) == w.terms \/ w.expr

\* collect: the complete visible set.
Collect(w, t) ==
    IF Filtering(w)
    THEN UpFrom({s \in DOMAIN t : MatchesNode(w, t, s)})
    ELSE {s \in DOMAIN t : \A p \in Above[s] : Expanded(w, p)}

\* visible: one changed node, under an unchanged view.
Visible(v, t, s) ==
    IF v.wants.expr THEN MatchesNode(v.wants, t, s)
    ELSE IF v.wants.terms THEN s \in v.sent \/ s \in v.wants.matching
    ELSE \A p \in Above[s] : Expanded(v.wants, p)

\* The ancestors of s up to the first one that was sent already.
Unsent(v, s) == {p \in Above[s] : v.sent \cap (Above[s] \ Above[p]) = {}}

NoUpdate == [full |-> FALSE, entries |-> EmptyTree, removed |-> {}]
Entries(v, t, S) == [s \in S |-> EntryOf(t, s, v.wants.preview)]
\* Of two entries for one subject the tab keeps the later one: behind are the subjects
\* whose dead node comes after the one that took its place.
LastWords(v, t, S, behind) == [s \in S |-> IF s \in behind THEN DeadEntry ELSE EntryOf(t, s, v.wants.preview)]

(* Mutant: a collapse does not take anything out of sent. *)
DifferenceGrows(v, t, dirty, behind) ==
    LET had == IF v.needFull THEN {} ELSE v.sent
        want == Collect(v.wants, t)
    IN [view |-> [v EXCEPT !.needFull = FALSE, !.dirty = FALSE, !.sent = had \cup want],
        up |-> [full |-> v.needFull, removed |-> had \ want,
                entries |-> LastWords(v, t, (want \ had) \cup (dirty \cap had \cap want), behind \cap had)]]
(* Mutant: changed nodes that stay visible are left out of a difference. *)
DifferenceOnlyNew(v, t, dirty, behind) ==
    LET had == IF v.needFull THEN {} ELSE v.sent
        want == Collect(v.wants, t)
    IN [view |-> [v EXCEPT !.needFull = FALSE, !.dirty = FALSE, !.sent = want],
        up |-> [full |-> v.needFull, removed |-> had \ want, entries |-> LastWords(v, t, want \ had, behind \cap had)]]
\* update, after a change of the view or when the tab starts over: the difference.
Difference(v, t, dirty, behind) ==
    LET had == IF v.needFull THEN {} ELSE v.sent
        want == Collect(v.wants, t)
    IN [view |-> [v EXCEPT !.needFull = FALSE, !.dirty = FALSE, !.sent = want],
        up |-> [full |-> v.needFull, removed |-> had \ want,
                entries |-> LastWords(v, t, (want \ had) \cup (dirty \cap had \cap want), behind \cap had)]]
\* update, otherwise: the changed nodes the tab can see, each with what it hangs on.
\* No dead node is among them: the Forget that left it has set view.dirty.
Delta(v, t, dirty) ==
    LET seen == {s \in dirty : Visible(v, t, s)}
        all == seen \cup UNION {Unsent(v, s) : s \in seen}
    IN [view |-> [v EXCEPT !.sent = v.sent \cup all],
        up |-> [NoUpdate EXCEPT !.entries = Entries(v, t, all)]]
Update(v, t, dirty, behind) ==
    IF ~v.loaded THEN [view |-> v, up |-> NoUpdate]
    ELSE IF v.dirty \/ v.needFull THEN Difference(v, t, dirty, behind)
    ELSE Delta(v, t, dirty)

\* TreeModel.apply: what is removed takes along what the tab holds below it.
Apply(m, up) ==
    LET gone == {d \in DOMAIN m : \E r \in up.removed : d \in Under[r] /\ (Above[d] \ Above[r]) \subseteq DOMAIN m}
        kept == IF up.full THEN {} ELSE DOMAIN m \ gone
    IN [s \in kept \cup DOMAIN up.entries |-> IF s \in DOMAIN up.entries THEN up.entries[s] ELSE m[s]]

\* The subjects an update names, those it may change, and those of which a pending one
\* is still the newest word of all that were handed over or lost.
Names(up) == IF up.full THEN Subjects ELSE DOMAIN up.entries \cup up.removed
Concerns(up) == Names(up) \cup UNION {Under[s] : s \in up.removed}
News(p) == Names(p.up) \ p.late

-----------------------------------------------------------------------------
(* The workers. *)

\* process: a message is counted.
Message(s, hit) ==
    /\ stats[s].count < MaxCount
    /\ stats' = [stats EXCEPT ![s] = [count |-> @.count + 1, rate |-> 1, last |-> IF hit THEN "hit" ELSE "miss"]]
    /\ changed' = changed \cup {s} /\ active' = active \cup {s}
    /\ overtaken' = overtaken \ {s}
    /\ UNCHANGED <<nodes, view, wires, reader, request>>

\* Time passes without a message on s: its rate falls to zero.
Quiet(s) ==
    /\ stats[s].rate > 0
    /\ stats' = [stats EXCEPT ![s].rate = 0]
    /\ UNCHANGED <<changed, active, nodes, view, wires, overtaken, reader, request>>

-----------------------------------------------------------------------------
(* The emitters. *)

EmitterIdle(e) == \A c \in Tabs : \A i \in DOMAIN inflight[c] : inflight[c][i].by # e

\* emitTree, up to the unlock: everything under m.mu.  A dead node whose subject is in
\* the tree again stands on the list beside the new one, and sort.Slice, which is not
\* stable, leaves them in either order; behind: the dead one comes last.
EmitWith(e, behind) ==
    LET seen == Observed
        dirty == touched \cup UpFrom(seen)
        t == Refreshed(Synced(seen), dirty)
        new == [c \in Tabs |-> Update(view[c], t, dirty, behind)]
    IN /\ EmitterIdle(e) /\ behind \subseteq DOMAIN t
       /\ tree' = t /\ touched' = {} /\ dead' = {} /\ changed' = {} /\ active' = StillActive
       /\ view' = [c \in Tabs |-> new[c].view]
       /\ inflight' = [c \in Tabs |->
            IF new[c].up = NoUpdate THEN inflight[c]
            ELSE Append(inflight[c], [by |-> e, up |-> new[c].up, late |-> {}])]
       /\ \A c \in Tabs : Len(inflight'[c]) <= MaxInFlight
       /\ revived' = (revived \ dirty) \cup behind
       /\ UNCHANGED <<stats, mirror, damaged, overtaken>>
Emit(e) == \E behind \in SUBSET dead : EmitWith(e, behind)

\* treeLoop
TreeLoop == Emit("loop") /\ UNCHANGED <<reader, request>>

\* SetView, under m.mu: the view is stored.
SetView(c, w) ==
    /\ ~reader[c] /\ EmitterIdle(c)
    /\ view' = [view EXCEPT ![c] =
            [view[c] EXCEPT !.wants = w, !.dirty = TRUE, !.loaded = TRUE,
                            !.needFull = @ \/ view[c].wants.preview # w.preview]]
    /\ reader' = [reader EXCEPT ![c] = TRUE]
    /\ UNCHANGED <<shards, nodes, wires, overtaken, request>>
\* SetView, after the unlock
SetViewEmits(c) ==
    /\ reader[c] /\ Emit(c)
    /\ reader' = [reader EXCEPT ![c] = FALSE]
    /\ UNCHANGED request

\* The browser goes away and comes back as a new client: RemoveClient, FeedCore.reset.
Reconnect(c) ==
    /\ ~reader[c] /\ EmitterIdle(c) /\ view[c].loaded
    /\ view' = [view EXCEPT ![c] = NewView]
    /\ inflight' = [inflight EXCEPT ![c] = <<>>]
    /\ mirror' = [mirror EXCEPT ![c] = EmptyTree]
    /\ damaged' = [damaged EXCEPT ![c] = {}]
    /\ UNCHANGED <<shards, nodes, overtaken, reader, request>>

Without(pending, i) ==
    [j \in 1..Len(pending) - 1 |->
        IF j < i THEN [pending[j] EXCEPT !.late = @ \cup (Concerns(pending[j].up) \cap News(pending[i]))]
        ELSE pending[j + 1]]
\* OnTree of one pending update: the tab applies it.
Deliver(c, i) ==
    /\ inflight' = [inflight EXCEPT ![c] = Without(@, i)]
    /\ mirror' = [mirror EXCEPT ![c] = Apply(@, inflight[c][i].up)]
    /\ damaged' = [damaged EXCEPT ![c] =
            (@ \ News(inflight[c][i])) \cup (Concerns(inflight[c][i].up) \cap inflight[c][i].late)]
    /\ UNCHANGED <<shards, nodes, view, overtaken, reader, request>>
\* Hub.SendToClient with a full buffer: the update is dropped.
Lose(c, i) ==
    /\ inflight' = [inflight EXCEPT ![c] = Without(@, i)]
    /\ damaged' = [damaged EXCEPT ![c] = @ \cup News(inflight[c][i])]
    /\ UNCHANGED <<shards, nodes, view, mirror, overtaken, reader, request>>

-----------------------------------------------------------------------------
(* Forget and ForgetAll: the shards one by one, then the tree, then an emit. *)

ForgetStart(r, wanted) ==
    /\ request[r].step = "idle" /\ EmitterIdle(r)
    /\ request' = [request EXCEPT ![r] = [Idle EXCEPT !.step = "shards", !.wanted = wanted, !.left = Shards]]
    /\ UNCHANGED <<shards, nodes, view, wires, overtaken, reader>>
ForgetAllStart(r) ==
    /\ request[r].step = "idle" /\ EmitterIdle(r)
    /\ request' = [request EXCEPT ![r] =
            [Idle EXCEPT !.step = "shards", !.wanted = Published, !.left = Shards, !.all = TRUE]]
    /\ UNCHANGED <<shards, nodes, view, wires, overtaken, reader>>

\* One shard, under its lock.
ForgetShard(r) ==
    /\ request[r].step = "shards"
    /\ \E k \in request[r].left :
        LET drop == {s \in request[r].wanted : ShardOf[s] = k} IN
        /\ stats' = [s \in Published |-> IF s \in drop THEN NoStats ELSE stats[s]]
        /\ changed' = changed \ drop /\ active' = active \ drop
        /\ request' = [request EXCEPT ![r].left = @ \ {k},
                                      ![r].gone = @ \cup {s \in drop : stats[s].count > 0}]
        /\ overtaken' = overtaken \ drop
    /\ UNCHANGED <<nodes, view, wires, reader>>

\* Nothing was there to forget.
ForgetNothing(r) ==
    /\ request[r].step = "shards" /\ request[r].left = {}
    /\ ~request[r].all /\ request[r].gone = {}
    /\ request' = [request EXCEPT ![r] = Idle]
    /\ UNCHANGED <<shards, nodes, view, wires, overtaken, reader>>

\* Subjects that came back after their shard was cleared and were carried into
\* the tree already.
CameBack(S) == {s \in S : stats[s].count > 0 /\ s \notin changed}

\* The tree, under m.mu.
ForgetTree(r) ==
    /\ request[r].step = "shards" /\ request[r].left = {}
    /\ ~request[r].all /\ request[r].gone # {}
    /\ tree' = Pruned(request[r].gone)
    /\ touched' = (touched \cup UpFrom(request[r].gone \cap DOMAIN tree)) \cap DOMAIN tree'
    /\ \E orphans \in Orphans(request[r].gone) : dead' = dead \cup orphans
    /\ view' = [c \in Tabs |-> [view[c] EXCEPT !.dirty = TRUE]]
    /\ overtaken' = overtaken \cup CameBack(request[r].gone)
    /\ request' = [request EXCEPT ![r] = [Idle EXCEPT !.step = "emit"]]
    /\ UNCHANGED <<shards, revived, wires, reader>>
ForgetAllTree(r) ==
    /\ request[r].step = "shards" /\ request[r].left = {} /\ request[r].all
    /\ tree' = EmptyTree /\ touched' = {} /\ dead' = {} /\ revived' = {}
    /\ view' = [c \in Tabs |-> [view[c] EXCEPT !.needFull = TRUE]]
    /\ overtaken' = overtaken \cup CameBack(Published)
    /\ request' = [request EXCEPT ![r] = [Idle EXCEPT !.step = "emit"]]
    /\ UNCHANGED <<shards, wires, reader>>
ForgetEmits(r) ==
    /\ request[r].step = "emit" /\ Emit(r)
    /\ request' = [request EXCEPT ![r] = Idle]
    /\ UNCHANGED reader

-----------------------------------------------------------------------------
Worker == (\E s \in Published, hit \in Contents : Message(s, hit)) \/ (\E s \in Fading : Quiet(s))
Tab(c) ==
    \/ SetViewEmits(c) \/ Reconnect(c)
    \/ \E w \in Views : SetView(c, w)
    \/ \E i \in DOMAIN inflight[c] : Deliver(c, i) \/ Lose(c, i)
Clearing(r) ==
    \/ ForgetAllStart(r) \/ ForgetShard(r) \/ ForgetNothing(r)
    \/ ForgetTree(r) \/ ForgetAllTree(r) \/ ForgetEmits(r)
    \/ \E wanted \in Selections : ForgetStart(r, wanted)
Next == Worker \/ TreeLoop \/ (\E c \in Tabs : Tab(c)) \/ (\E r \in Requests : Clearing(r))
Spec == Init /\ [][Next]_vars

-----------------------------------------------------------------------------
(* Properties. *)

Rate == {0, 1}
Verdict == {"nil", "hit", "miss"}
WireEntry == [count : 0..MaxCount, rate : Rate, total : Nat, totalRate : Nat,
          children : 0..Cardinality(Subjects), subjects : 0..Cardinality(Subjects), last : Verdict]

Current(v) == v.loaded /\ ~v.dirty /\ ~v.needFull

\* Every value has its type, and the tree has no node without its branch (get).
TypeOK ==
    /\ stats \in [Published -> [count : 0..MaxCount, rate : Rate, last : Verdict]]
    /\ changed \subseteq Published /\ active \subseteq Published /\ overtaken \subseteq Published
    /\ \A s \in DOMAIN tree : s \in Subjects /\ Above[s] \subseteq DOMAIN tree
    /\ touched \subseteq DOMAIN tree /\ dead \subseteq Subjects /\ revived \subseteq Subjects
    /\ \A c \in Tabs :
        /\ dead # {} => ~Current(view[c])
        /\ view[c].wants \in Views /\ view[c].sent \subseteq Subjects
        /\ \A s \in DOMAIN mirror[c] : s \in Subjects /\ mirror[c][s] \in WireEntry
        /\ \A i \in DOMAIN inflight[c] : inflight[c][i].by \in {"loop"} \cup Tabs \cup Requests

\* A branch says what its whole subtree holds, whatever was created, removed or
\* left alone since, and a branch with nothing below it is gone (refresh, remove).
AggregatesAreSums ==
    touched = {} =>
        \A s \in DOMAIN tree :
            LET below == Under[s] \cap DOMAIN tree IN
            /\ tree[s].total = MapThenSumSet(LAMBDA d : tree[d].count, below)
            /\ tree[s].totalRate = MapThenSumSet(LAMBDA d : tree[d].rate, below)
            /\ tree[s].subjects = Cardinality({d \in below : tree[d].count > 0})
            /\ tree[s].subjects > 0

\* The aggregated tree as a whole (get, refresh, remove).
TreeAddsUp == TypeOK /\ AggregatesAreSums

\* Every message that was counted is in the tree or waits for the next emit, unless
\* the subject came back in the middle of a Forget; then its next message repairs it.
CountsReachTheTree ==
    \A s \in Published :
        stats[s].count > 0 =>
            \/ s \in changed \/ s \in overtaken
            \/ s \in DOMAIN tree /\ tree[s].count = stats[s].count /\ tree[s].last = stats[s].last

\* A rate the tree shows and that has fallen since is on the list of those to look
\* at again (the second loop of syncTree).
RatesReachTheTree ==
    \A s \in DOMAIN tree \cap Published :
        stats[s].count > 0 /\ s \notin overtaken /\ tree[s].rate # stats[s].rate => s \in active

\* Nothing the statistics know of a subject stays unknown to the tree (syncTree).
StatsReachTheTree == CountsReachTheTree /\ RatesReachTheTree

Settled(c) == Current(view[c]) /\ touched = {}

\* What the server believes a tab has is what the tab's view shows of the tree:
\* judging only the changed nodes (visible) comes to the same set as walking the
\* whole tree (collect).
SentIsVisible == \A c \in Tabs : Settled(c) => view[c].sent = Collect(view[c].wants, tree)

\* Once nothing is on its way, a tab shows exactly the nodes of its view, with their
\* present numbers.  Two things are excepted, node by node.  A node of an update that
\* was lost or overtaken on its way stays wrong, but no other node with it, and only
\* until the next update that concerns it comes in its turn.  A branch that came back
\* while its dead node was still listed may show the dead one's zeros, and nothing
\* else, until it changes again (update, emitTree, SendToClient, TreeModel.apply).
TabShowsTheTree ==
    \A c \in Tabs : Settled(c) /\ inflight[c] = <<>> =>
        \A s \in Subjects \ damaged[c] :
            /\ s \in DOMAIN mirror[c] <=> s \in Collect(view[c].wants, tree)
            /\ s \in DOMAIN mirror[c] =>
                 \/ mirror[c][s] = EntryOf(tree, s, view[c].wants.preview)
                 \/ s \in revived /\ mirror[c][s] = DeadEntry

\* tree.go:34 "Subjects that have seen a message in the subtree, this node included."
\* says a tab of a branch that has some; no update was lost or overtaken.
BranchSaysItsSubjects ==
    \A c \in Tabs : Settled(c) /\ inflight[c] = <<>> =>
        \A s \in (DOMAIN mirror[c] \cap DOMAIN tree) \ damaged[c] : mirror[c][s].subjects = tree[s].subjects

\* tree.go:226 "Expr is a CEL expression evaluated against the last message of a
\* subject; only subjects whose last message satisfies it stay visible."
OnlyMatchesStay ==
    \A c \in Tabs :
        Settled(c) /\ inflight[c] = <<>>
            => DOMAIN mirror[c] \ damaged[c] \subseteq Collect(view[c].wants, tree)
=============================================================================
