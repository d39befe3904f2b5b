---------------------------- MODULE HistorySearch ----------------------------
(* The search over the recorded history (HistorySearch.tsx) and the lists   *)
(* that show its hits and what flows below a branch, with the handler that  *)
(* answers (handler/history.go, Search): from the database, or from memory  *)
(* when there is none. Each keystroke asks, a page of hits is asked for     *)
(* when the end of the list comes into view, and no answer is ever told     *)
(* from the one that counts.                                                *)
EXTENDS Integers, Sequences, FiniteSets, SequencesExt, FiniteSetsExt

CONSTANTS None,
          Subjects,
          Under,      \* a subject and those below it
          Recorded,   \* [conn, subj, at, seq, has]: has is what it contains
          Queries, Blank,
          Window,     \* the times of the one range there is
          Page,       \* SEARCH_PAGE
          MaxOps,     \* bound on what the reader does
          MaxEvents   \* bound on failures

VARIABLES recorded,  \* the history, of some of the connections
          db,        \* whether there is a database
          subject, ranged,
          q, scoped, \* what is typed, and whether it is meant for the subject
          st,        \* SearchState: results and their flags
          asked,     \* requests under way
          row,       \* listMessage
          hurried,   \* ghost: asked again, or elsewhere, before the answer
          spent

vars == <<recorded, db, subject, ranged, q, scoped, st, asked, row, hurried, spent>>
place == <<recorded, db>>

-----------------------------------------------------------------------------
(* The handler. *)

Newer(a, b) == a.at > b.at \/ (a.at = b.at /\ a.seq > b.seq)
Newest(ms, n) == LET all == SetToSortSeq(ms, Newer)
                 IN  SubSeq(all, 1, IF Len(all) < n THEN Len(all) ELSE n)

(* Mutant: a message of the same millisecond counts as already shown. *)
ByTime(m, c) == c = None \/ m.at < c.at

(* The database pages by (timestamp, sequence), memory by sequence alone.   *)
Past(m, c) == c = None \/ (IF db THEN Newer(c, m) ELSE m.seq < c.seq)

Hits(scope, text, r) ==
    {m \in recorded : /\ scope = None \/ m.subj \in Under[scope]
                      /\ text \in m.has /\ r /\ db => m.at \in Window}

(* A page of every connection, merged by time and cut. *)
Search(a) ==
    LET of(c) == {m \in Hits(a.scope, a.text, a.ranged) : m.conn = c /\ Past(m, a.cursor)}
        conns == {m.conn : m \in recorded}
        found == UNION {ToSet(Newest(of(c), Page)) : c \in conns}
    IN  [messages |-> Newest(found, Page),
         more |-> \/ \E c \in conns : Cardinality(of(c)) >= Page
                  \/ Cardinality(found) > Page]

-----------------------------------------------------------------------------
(* useHistorySearch. *)

Empty == [results |-> None, loading |-> FALSE, error |-> FALSE, more |-> FALSE, loadingMore |-> FALSE]

Init ==
    /\ db \in BOOLEAN /\ \E cs \in (SUBSET {m.conn : m \in Recorded}) \ {{}} :
                            recorded = {m \in Recorded : m.conn \in cs}
    /\ subject = None /\ ranged = FALSE
    /\ q = Blank /\ scoped = TRUE /\ st = Empty /\ asked = {} /\ row = None
    /\ hurried = FALSE /\ spent = [ops |-> 0, events |-> 0]

Op == spent.ops < MaxOps /\ spent' = [spent EXCEPT !.ops = @ + 1]
Event == spent.events < MaxEvents /\ spent' = [spent EXCEPT !.events = @ + 1]

Request(kind, text, scope, c) ==
    [kind |-> kind, text |-> text, scope |-> IF scope THEN subject ELSE None,
     ranged |-> ranged, cursor |-> c]

(* run: what is typed, or the scope it is meant for, changed. *)
Run(text, scope) ==
    /\ q' = text /\ scoped' = scope /\ hurried' = (asked # {})
    /\ IF text = Blank THEN st' = Empty /\ UNCHANGED asked
       ELSE /\ st' = [st EXCEPT !.loading = TRUE]
            /\ asked' = asked \cup {Request("search", text, scope, None)}

(* The search goes with the subject, and so does the row; a request under   *)
(* way does not. A jump from a row comes with its subject.                  *)
Selects(s) ==
    /\ subject' = s /\ ranged' = FALSE /\ q' = Blank /\ st' = Empty /\ row' = None
    /\ hurried' = (asked # {}) /\ UNCHANGED <<scoped, asked>> /\ UNCHANGED place
Select == Op /\ \E s \in Subjects \ {subject} : Selects(s)
OpenSubject == Op /\ row # None /\ row.subj # subject /\ Selects(row.subj)

(* A range does not ask again: what is shown is that of before. *)
SetRange ==
    /\ Op /\ db /\ subject # None /\ ranged' = ~ranged
    /\ hurried' = (hurried \/ asked # {} \/ st.results # None)
    /\ UNCHANGED <<subject, q, scoped, st, asked, row>> /\ UNCHANGED place

(* A keystroke or Enter; Escape; the scope above the hits. *)
Type == /\ Op /\ subject # None /\ \E text \in Queries : Run(text, scoped)
        /\ UNCHANGED <<subject, ranged, row>> /\ UNCHANGED place
Clear == /\ Op /\ q # Blank /\ Run(Blank, scoped)
         /\ UNCHANGED <<subject, ranged, row>> /\ UNCHANGED place
SetScoped == /\ Op /\ st.results # None /\ Run(q, ~scoped)
             /\ UNCHANGED <<subject, ranged, row>> /\ UNCHANGED place

(* The end of the list came into view. *)
LoadMore ==
    /\ Op /\ q # Blank /\ st.more /\ ~st.loadingMore /\ st.results \notin {None, <<>>}
    /\ st' = [st EXCEPT !.loadingMore = TRUE]
    /\ asked' = asked \cup {Request("more", q, scoped, st.results[Len(st.results)])}
    /\ hurried' = (hurried \/ asked # {})
    /\ UNCHANGED <<subject, ranged, q, scoped, row>> /\ UNCHANGED place

(* A row of the hits, or of the branch while there are none. *)
Rows == IF st.results = None THEN {m \in recorded : subject # None /\ m.subj \in Under[subject] \ {subject}}
        ELSE ToSet(st.results)
PickRow == /\ Op /\ row' \in (Rows \cup {None}) \ {row}
           /\ UNCHANGED <<subject, ranged, q, scoped, st, asked, hurried>> /\ UNCHANGED place

(* An answer is taken, whatever it was asked for. *)
Found(a) == [results |-> a.messages, loading |-> FALSE, error |-> FALSE, more |-> a.more, loadingMore |-> FALSE]
Grown(a) ==
    LET held == IF st.results = None THEN <<>> ELSE st.results
    IN  [st EXCEPT !.results = held \o SelectSeq(a.messages, LAMBDA m : \A i \in 1..Len(held) : held[i] # m),
                   !.more = a.more, !.loadingMore = FALSE]

Answered ==
    /\ \E r \in asked :
         /\ asked' = asked \ {r}
         /\ \/ /\ st' = IF r.kind = "search" THEN Found(Search(r)) ELSE Grown(Search(r))
               /\ UNCHANGED spent
            \/ /\ Event
               /\ st' = IF r.kind = "search"
                        THEN [Found([messages |-> <<>>, more |-> FALSE]) EXCEPT !.error = TRUE]
                        ELSE [st EXCEPT !.loadingMore = FALSE, !.error = TRUE]
    /\ UNCHANGED <<subject, ranged, q, scoped, row, hurried>> /\ UNCHANGED place

Next ==
    \/ Select \/ OpenSubject \/ SetRange \/ Type \/ Clear \/ SetScoped
    \/ LoadMore \/ PickRow \/ Answered
Spec == Init /\ [][Next]_vars

-----------------------------------------------------------------------------
(* Properties. *)

Settled == asked = {} /\ ~hurried /\ st.results \notin {None, <<>>}
Wanted == Hits(IF scoped THEN subject ELSE None, q, ranged)
FollowsOn == st.results = Newest(Wanted, Len(st.results)) /\ (st.more \/ Len(st.results) = Cardinality(Wanted))

(* A search whose answers are waited for lists the newest hits of what is   *)
(* typed, each once and none left out, page after page, and says there is   *)
(* no more only when there is none: from the database, or of one            *)
(* connection.                                                              *)
HitsHaveNoHoles ==
    Settled /\ (db \/ Cardinality({m.conn : m \in recorded}) = 1) => FollowsOn

(* "Hits are newest first, so the last one is the cursor for the next page" *)
(* (loadMore), for several connections in memory as well.                   *)
PagesFollowOn == Settled => FollowsOn

(* What is listed was found for what is typed, where it is meant for.       *)
HitsAreOfTheQuery == asked = {} /\ st.results # None => ToSet(st.results) \subseteq Wanted
=============================================================================
