----------------------------- MODULE MCTreeFeed -----------------------------
(* Branch a with two published subjects on two shards, and the views of a tab: *)
(* the branch open, a filter that finds one subject, an expression.            *)
EXTENDS TreeFeed
MCAbove == [a |-> {}, ab |-> {"a"}, ac |-> {"a"}]
MCShardOf == [ab |-> 1, ac |-> 2]
Closed == [all |-> FALSE, paths |-> {}, terms |-> FALSE, expr |-> FALSE, matching |-> {}, preview |-> TRUE]
Open == [Closed EXCEPT !.paths = {"a"}]
Filter == [Closed EXCEPT !.terms = TRUE, !.matching = {"ab"}]
Expression == [Closed EXCEPT !.expr = TRUE, !.matching = Subjects]
MCViews == {Open, Filter}
MCExpressions == {Expression}
\* What decides something: of a subject the last word on its way that still comes in its
\* turn, or else what the tab holds unless it is damaged; of a view that starts over
\* only what it asks for.
Later(c, i) == UNION {News(inflight[c][j]) : j \in i + 1 .. Len(inflight[c])}
Word(c, i) == LET p == inflight[c][i] IN
    <<p.by, p.late \ Later(c, i), Names(p.up), Concerns(p.up),
      Restrict(p.up.entries, DOMAIN p.up.entries \cap (News(p) \ Later(c, i)))>>
Hurt(c) == damaged[c] \ Later(c, 0)
Held(c) == Restrict(mirror[c], DOMAIN mirror[c] \ (Hurt(c) \cup Later(c, 0)))
Looks(v) == IF v.needFull THEN [v EXCEPT !.sent = {}, !.dirty = FALSE] ELSE v
Seen == <<stats, changed, active, nodes, overtaken, reader, request,
          [c \in Tabs |-> <<Looks(view[c]), Hurt(c), Held(c), [i \in DOMAIN inflight[c] |-> Word(c, i)]>>]>>
=============================================================================
