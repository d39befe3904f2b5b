------------------------------ MODULE LiveView ------------------------------
(* What the tab shows of the subjects the reader selected (lib/feed.ts, the *)
(* live part of store/index.ts, lib/messages.ts): the history the server    *)
(* recorded, asked for over HTTP, and what arrives on the feed since. The   *)
(* answers come in any order, the feed stops with the socket, and in the    *)
(* meantime the selection, the filter and the recorded history change.      *)
(*                                                                          *)
(* A message is its arrival number. Top is the selected branch, Below the   *)
(* subject below it; a message on Below is listed by a view of Top in its   *)
(* branch. The connections of the tab are taken as one.                     *)
EXTENDS Integers, Sequences, FiniteSets, SequencesExt

CONSTANTS Top, Below,    \* a subject and one below it
          Filtered,      \* the messages the payload filter keeps
          Page,          \* MAX_SUBJECT_MESSAGES
          OlderPage,     \* OLDER_PAGE
          BranchPage,    \* MAX_BRANCH_MESSAGES
          MaxLoaded,     \* MAX_LOADED_MESSAGES
          MaxMessages,   \* bound on the messages recorded
          MaxOps,        \* bound on what the user does
          MaxDrops       \* bound on the sockets that drop

Subjects == {Top, Below}

VARIABLES on,        \* the subject of each message recorded, in order
          cleared,   \* messages the server has forgotten
          selected,  \* selectedSubjects, in the order of selection
          live,      \* the live view of each selected subject
          filter,    \* a payload filter is set
          asked,     \* the requests under way
          seqs,      \* loadSeq: the number of the last load of a subject
          socket,    \* is it open, and which focus is on its way
          focus,     \* the subjects the server streams to this tab
          feed,      \* messages on the way to the tab
          sure,      \* subjects loaded, not replaced, with the feed in place
          spent      \* the bounded counters

vars == <<on, cleared, selected, live, filter, asked, seqs, socket, focus, feed, sure, spent>>

Larger(a, b) == IF a > b THEN a ELSE b
Smaller(a, b) == IF a < b THEN a ELSE b

EmptyView == [messages |-> <<>>, branch |-> <<>>, loading |-> TRUE, error |-> FALSE,
              cap |-> Page, older |-> FALSE, oldest |-> FALSE,
              branchCap |-> BranchPage, olderBranch |-> FALSE, branchOldest |-> FALSE]

Recorded == 1..Len(on)
OnSubject(s) == {m \in Recorded : on[m] = s}
UnderSubject(s) == IF s = Top THEN OnSubject(Below) ELSE {}

LastOf(seq, n) == SubSeq(seq, Larger(1, Len(seq) - n + 1), Len(seq))
FirstOf(seq, n) == SubSeq(seq, 1, Smaller(n, Len(seq)))

(* byArrival and messageKey: messages in order of arrival, or newest first. *)
Oldest1st(seq) == SortSeq(seq, LAMBDA a, b : a < b)
Newest1st(seq) == SortSeq(seq, LAMBDA a, b : a > b)
Without(seq, held) == SelectSeq(seq, LAMBDA m : \A i \in 1..Len(held) : held[i] # m)
Ascending(ms) == SetToSortSeq(ms, LAMBDA a, b : a < b)

-----------------------------------------------------------------------------
(* The store. *)

(* ingestFeed, for one view: what is on the subject is appended, what is    *)
(* below goes in front of the branch.                                       *)
Ingest(v, exact, below) ==
    [v EXCEPT !.messages = LastOf(@ \o exact, v.cap),
              !.branch = FirstOf(Reverse(below) \o @, v.branchCap)]

Ingested(views, msgs) ==
    [s \in DOMAIN views |->
       Ingest(views[s], SelectSeq(msgs, LAMBDA m : m \in OnSubject(s)),
                        SelectSeq(msgs, LAMBDA m : m \in UnderSubject(s)))]

(* Mutant: what the feed delivered while the answer was on its way is lost. *)
ApplyAnswerAlone(v, a) ==
    [EmptyView EXCEPT !.messages = a.messages, !.branch = a.branch, !.loading = FALSE]

(* applyHistory: the answer, and unless it replaces the view what the feed  *)
(* brought meanwhile; the paging starts over.                               *)
ApplyHistory(v, a) ==
    LET extra == IF a.replace THEN <<>> ELSE Without(v.messages, a.messages)
        extraBranch == IF a.replace THEN <<>> ELSE Without(v.branch, a.branch)
    IN  [EmptyView EXCEPT
           !.messages = LastOf(Oldest1st(a.messages \o extra), Page),
           !.branch = FirstOf(Newest1st(extraBranch \o a.branch), BranchPage),
           !.loading = FALSE]

(* prependOlder and appendOlderBranch: the cap keeps a page above what is   *)
(* loaded.                                                                  *)
PrependOlder(v, a) ==
    LET all == Oldest1st(Without(a.messages, v.messages) \o v.messages)
        cap == Smaller(MaxLoaded, Larger(v.cap, Len(all) + Page))
    IN  [v EXCEPT !.messages = LastOf(all, cap), !.cap = cap, !.older = FALSE,
                  !.oldest = a.end \/ Len(all) >= MaxLoaded]

AppendOlderBranch(v, a) ==
    LET all == Newest1st(v.branch \o Without(a.branch, v.branch))
        cap == Smaller(MaxLoaded, Larger(v.branchCap, Len(all) + BranchPage))
    IN  [v EXCEPT !.branch = FirstOf(all, cap), !.branchCap = cap, !.olderBranch = FALSE,
                  !.branchOldest = a.end \/ Len(all) >= MaxLoaded]

SetLiveError(v) == [v EXCEPT !.loading = FALSE, !.error = TRUE]

(* resetLive: the messages go, requests under way are not forgotten. *)
ResetLive(v) ==
    [v EXCEPT !.messages = <<>>, !.branch = <<>>, !.cap = Page, !.oldest = FALSE,
              !.branchCap = BranchPage, !.branchOldest = FALSE]

(* setSelectedSubject and toggleSelectedSubject: a view of its own for each *)
(* subject selected.                                                        *)
ViewsOf(ss) == [s \in Range(ss) |-> IF s \in DOMAIN live THEN live[s] ELSE EmptyView]
Toggled(s) == IF Contains(selected, s) THEN SelectSeq(selected, LAMBDA x : x # s)
              ELSE Append(selected, s)

-----------------------------------------------------------------------------
(* The server. *)

Kept(a) == {m \in Recorded \ cleared : ~a.filter \/ m \in Filtered}

(* What a request is answered from what is recorded when it is read: the    *)
(* newest page, or the one before the cursor, and whether that was all.     *)
(* With a filter the server looks through many pages at once.               *)
Read(a) ==
    LET older == {m \in Recorded \ cleared : m < a.before}
        from(kind) == IF a.kind = kind THEN older ELSE Recorded \ cleared
        exact == OnSubject(a.subject) \cap from("older")
        below == UnderSubject(a.subject) \cap from("branch")
        page(ms, n) == LastOf(Ascending(ms \cap Kept(a)), n)
        end(ms, n) == a.filter \/ Cardinality(ms) < n
    IN  CASE a.kind = "load" -> [a EXCEPT !.messages = page(exact, Page),
                                          !.branch = Reverse(page(below, BranchPage))]
          [] a.kind = "older" -> [a EXCEPT !.messages = page(exact, OlderPage),
                                           !.end = end(exact, OlderPage)]
          [] OTHER -> [a EXCEPT !.branch = Reverse(page(below, BranchPage)),
                                !.end = end(below, BranchPage)]

(* The subjects streamed for a focus on ss: theirs and those below. *)
Streamed(ss) == {s \in Subjects : s \in ss \/ Top \in ss}

-----------------------------------------------------------------------------
NoView == [s \in {} |-> EmptyView]

(* Some messages are recorded before the tab opens. *)
Init ==
    /\ on \in UNION {[1..n -> Subjects] : n \in 0..Smaller(2, MaxMessages)}
    /\ cleared = {} /\ selected = <<>> /\ live = NoView /\ filter = FALSE
    /\ asked = {} /\ seqs = [s \in Subjects |-> 0]
    /\ socket = [open |-> TRUE, commands |-> <<>>] /\ focus = {} /\ feed = <<>>
    /\ sure = {}
    /\ spent = [ops |-> 0, drops |-> 0]

Op == spent.ops < MaxOps /\ spent' = [spent EXCEPT !.ops = @ + 1]

Request(kind, s, n, replace, before) ==
    [kind |-> kind, subject |-> s, seq |-> n, replace |-> replace, before |-> before,
     filter |-> filter', messages |-> <<>>, branch |-> <<>>, end |-> FALSE,
     read |-> FALSE, fed |-> FALSE]

(* Mutant: a load does not make the one before stale. *)
LoadsAlike(ss, replace) ==
    /\ asked' = asked \cup {Request("load", s, seqs[s], replace, 0) : s \in ss}
    /\ UNCHANGED seqs

(* loadHistory for the subjects of ss: each load has the next number.       *)
Load(ss, replace) ==
    /\ seqs' = [s \in Subjects |-> seqs[s] + IF s \in ss THEN 1 ELSE 0]
    /\ asked' = asked \cup {Request("load", s, seqs'[s], replace, 0) : s \in ss}

SendFocus == socket' = IF socket.open THEN [socket EXCEPT !.commands = Append(@, Range(selected'))]
                       ELSE socket

(* A new selection: its views, the focus, and the history of those views    *)
(* that still wait for theirs.                                              *)
SelectThose(ss) ==
    /\ selected' = ss
    /\ live' = ViewsOf(ss)
    /\ sure' = sure \cap Range(ss)
    /\ UNCHANGED filter
    /\ SendFocus
    /\ Load({s \in Range(ss) : live'[s].loading}, FALSE)
    /\ UNCHANGED <<on, cleared, focus, feed>>

Select == Op /\ \E s \in Subjects : selected # <<s>> /\ SelectThose(<<s>>)
Toggle == Op /\ \E s \in Subjects : SelectThose(Toggled(s))

(* The payload filter changes; the answers replace what is shown. *)
SetFilter ==
    /\ Op
    /\ filter' = ~filter
    /\ Load(Range(selected), TRUE)
    /\ UNCHANGED <<on, cleared, selected, live, socket, focus, feed, sure>>

(* Connections or subscriptions changed: everything selected is refreshed.  *)
Refresh ==
    /\ Op /\ selected # <<>>
    /\ UNCHANGED filter
    /\ Load(Range(selected), FALSE)
    /\ UNCHANGED <<on, cleared, selected, live, socket, focus, feed, sure>>

(* loadOlder and loadOlderBranch: from the oldest message held. *)
LoadOlder(s) ==
    /\ ~live[s].loading /\ ~live[s].older /\ ~live[s].oldest
    /\ Len(live[s].messages) \in 1..(MaxLoaded - 1)
    /\ asked' = asked \cup {Request("older", s, 0, FALSE, Head(live[s].messages))}
    /\ live' = [live EXCEPT ![s].older = TRUE]

LoadOlderBranch(s) ==
    /\ ~live[s].loading /\ ~live[s].olderBranch /\ ~live[s].branchOldest
    /\ Len(live[s].branch) \in 1..(MaxLoaded - 1)
    /\ asked' = asked \cup {Request("branch", s, 0, FALSE, live[s].branch[Len(live[s].branch)])}
    /\ live' = [live EXCEPT ![s].olderBranch = TRUE]

Scroll ==
    /\ Op
    /\ UNCHANGED filter
    /\ \E s \in DOMAIN live : LoadOlder(s) \/ LoadOlderBranch(s)
    /\ UNCHANGED <<on, cleared, selected, seqs, socket, focus, feed, sure>>

(* clearHistory and clearSubject: the server is asked to forget a set of    *)
(* subjects.                                                                *)
AskClear ==
    /\ Op
    /\ UNCHANGED filter
    /\ \E kind \in {"clear", "clear subject"}, s \in Subjects :
         /\ kind = "clear" => s = Top
         /\ asked' = asked \cup {Request(kind, s, 0, FALSE, 0)}
    /\ UNCHANGED <<on, cleared, selected, live, seqs, socket, focus, feed, sure>>

-----------------------------------------------------------------------------
(* The server reads what it is asked for, records, and streams. *)

FedFor(s) == /\ socket.open
             /\ \A f \in {focus} \cup Range(socket.commands) : s \in f

Reads ==
    /\ \E a \in asked :
         /\ ~a.read
         /\ IF a.kind \in {"clear", "clear subject"}
            THEN /\ cleared' = cleared \cup IF a.kind = "clear" THEN Recorded ELSE OnSubject(a.subject)
                 /\ asked' = (asked \ {a}) \cup {[a EXCEPT !.read = TRUE]}
            ELSE /\ asked' = (asked \ {a}) \cup
                             {[Read(a) EXCEPT !.read = TRUE, !.fed = FedFor(a.subject)]}
                 /\ UNCHANGED cleared
    /\ UNCHANGED <<on, selected, live, filter, seqs, socket, focus, feed, sure, spent>>

Record ==
    /\ Len(on) < MaxMessages
    /\ \E s \in Subjects :
         /\ on' = Append(on, s)
         /\ feed' = IF socket.open /\ s \in Streamed(focus) THEN Append(feed, Len(on) + 1) ELSE feed
    /\ UNCHANGED <<cleared, selected, live, filter, asked, seqs, socket, focus, sure, spent>>

FocusArrives ==
    /\ socket.open /\ socket.commands # <<>>
    /\ focus' = Head(socket.commands)
    /\ socket' = [socket EXCEPT !.commands = Tail(@)]
    /\ UNCHANGED <<on, cleared, selected, live, filter, asked, seqs, feed, sure, spent>>

(* The socket drops: commands and part of the feed go with it. *)
Drops ==
    /\ socket.open /\ spent.drops < MaxDrops
    /\ spent' = [spent EXCEPT !.drops = @ + 1]
    /\ socket' = [open |-> FALSE, commands |-> <<>>]
    /\ focus' = {} /\ sure' = {}
    /\ \E k \in 0..Len(feed) : feed' = SubSeq(feed, 1, k)
    /\ asked' = {[a EXCEPT !.fed = FALSE] : a \in asked}
    /\ UNCHANGED <<on, cleared, selected, live, filter, seqs>>

(* It is open again: the focus is repeated, the gap filled from the history. *)
Reopens ==
    /\ ~socket.open
    /\ socket' = [open |-> TRUE, commands |-> <<Range(selected)>>]
    /\ UNCHANGED filter
    /\ Load(Range(selected), FALSE)
    /\ UNCHANGED <<on, cleared, selected, live, focus, feed, sure, spent>>

-----------------------------------------------------------------------------
(* What reaches the tab. *)

(* One frame: what arrived since the last one. *)
Frame ==
    /\ feed # <<>>
    /\ \E k \in 1..Len(feed) :
         /\ live' = Ingested(live, SubSeq(feed, 1, k))
         /\ feed' = SubSeq(feed, k + 1, Len(feed))
    /\ UNCHANGED <<on, cleared, selected, filter, asked, seqs, socket, focus, sure, spent>>

Put(s, v) == IF s \in DOMAIN live THEN [live EXCEPT ![s] = v] ELSE live
Current(a) == a.seq = seqs[a.subject] /\ a.subject \in DOMAIN live

(* An answer: of the loads of a subject only the last one counts. *)
Answered(a) ==
    LET s == a.subject
    IN  /\ CASE a.kind = "load" -> live' = IF Current(a) THEN Put(s, ApplyHistory(live[s], a)) ELSE live
             [] a.kind = "older" -> live' = IF s \in DOMAIN live THEN Put(s, PrependOlder(live[s], a)) ELSE live
             [] OTHER -> live' = IF s \in DOMAIN live THEN Put(s, AppendOlderBranch(live[s], a)) ELSE live
        /\ sure' = IF a.kind = "load" /\ Current(a)
                   THEN IF a.fed /\ ~a.replace THEN sure \cup {s} ELSE sure \ {s} ELSE sure
        /\ asked' = asked \ {a}
        /\ UNCHANGED seqs

(* The history is gone: the views are emptied, and after clearSubject       *)
(* loaded again when they show some of it.                                  *)
Cleared(a) ==
    LET touched == a.kind = "clear subject" /\ a.subject \in Range(selected)
    IN  /\ live' = IF a.kind = "clear" \/ touched THEN [s \in DOMAIN live |-> ResetLive(live[s])] ELSE live
        /\ sure' = IF a.kind = "clear" \/ touched THEN {} ELSE sure
        /\ IF touched
           THEN /\ seqs' = [s \in Subjects |-> seqs[s] + IF s \in Range(selected) THEN 1 ELSE 0]
                /\ asked' = (asked \ {a}) \cup
                            {Request("load", s, seqs'[s], FALSE, 0) : s \in Range(selected)}
           ELSE /\ asked' = {[b EXCEPT !.fed = @ /\ a.kind = "clear subject"] : b \in asked \ {a}}
                /\ UNCHANGED seqs

(* A request fails: a stale load says nothing. *)
Failed(a) ==
    LET s == a.subject
        v == IF s \in DOMAIN live THEN live[s] ELSE EmptyView
    IN  /\ live' = CASE a.kind = "load" -> IF Current(a) THEN Put(s, SetLiveError(v)) ELSE live
                     [] a.kind = "older" -> Put(s, [v EXCEPT !.older = FALSE])
                     [] a.kind = "branch" -> Put(s, [v EXCEPT !.olderBranch = FALSE])
                     [] OTHER -> live
        /\ asked' = asked \ {a}
        /\ UNCHANGED <<seqs, sure>>

Arrives ==
    /\ UNCHANGED filter
    /\ \E a \in asked : \/ a.read /\ a.kind \in {"load", "older", "branch"} /\ Answered(a)
                        \/ a.read /\ a.kind \in {"clear", "clear subject"} /\ Cleared(a)
    /\ UNCHANGED <<on, cleared, selected, socket, focus, feed, spent>>

Fails ==
    /\ Op
    /\ \E a \in asked : Failed(a)
    /\ UNCHANGED <<on, cleared, selected, filter, socket, focus, feed>>

Next == \/ Select \/ Toggle \/ SetFilter \/ Refresh \/ Scroll \/ AskClear
        \/ Reads \/ Record \/ FocusArrives \/ Drops \/ Reopens
        \/ Frame \/ Arrives \/ Fails

Spec == Init /\ [][Next]_vars
-----------------------------------------------------------------------------
Wants(s) == {m \in OnSubject(s) \ cleared : filter => m \in Filtered}
WantsBelow(s) == {m \in UnderSubject(s) \ cleared : filter => m \in Filtered}

Waiting(kind, s) == \E a \in asked : a.kind = kind /\ a.subject = s
LoadUnderWay(s) == \E a \in asked : a.kind = "load" /\ a.subject = s /\ a.seq = seqs[s]

(* No view waits for what nobody will bring: while it says that it loads,   *)
(* or that it fetches an older page, that request is under way and, of the  *)
(* loads, is the one whose answer counts (loadSeq in feed.ts, the flags of  *)
(* LiveView in the store), whatever was selected, cleared or lost meanwhile. *)
WaitsForSomething ==
    \A s \in DOMAIN live :
        /\ live[s].loading => LoadUnderWay(s)
        /\ live[s].older => Waiting("older", s)
        /\ live[s].olderBranch => Waiting("branch", s)

(* A view loaded while the server was already streaming its subject misses  *)
(* nothing: once the feed and its load are in, every message recorded on it *)
(* that the filter keeps is listed, unless the list is full. It may be full *)
(* of older ones: the feed is appended as it comes (HeldOnce).              *)
NothingMissed ==
    \A s \in DOMAIN live :
        (s \in sure /\ feed = <<>> /\ ~LoadUnderWay(s)) =>
            /\ Wants(s) \subseteq Range(live[s].messages) \/ Len(live[s].messages) >= Page
            /\ WantsBelow(s) \subseteq Range(live[s].branch) \/ Len(live[s].branch) >= BranchPage

(* No message is listed twice (messages.ts: the identity of a message is    *)
(* there for dedupe and for the keys of the rows).                          *)
HeldOnce == \A s \in DOMAIN live : Cardinality(Range(live[s].messages)) = Len(live[s].messages)
=============================================================================
