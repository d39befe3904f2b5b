--------------------------- MODULE SavedConnections ---------------------------
(* The saved connections of a browser: the list and its store               *)
(* (lib/savedConnections.ts, store/savedConnections.ts), the dialog that    *)
(* edits one of them in a draft, and the panel that changes the patterns of *)
(* a live connection and remembers them. Every call to the server is awaited *)
(* with the page alive, so handlers continue with what they closed over.    *)
(*                                                                          *)
(* A saved connection is an edit (name, servers, credentials, taken as one  *)
(* value), the patterns of its own and the system topics switched on.       *)
EXTENDS Integers, FiniteSets

CONSTANTS None,
          Ids,        \* every id a connection may get
          Initially,  \* those saved when the page is loaded
          Edits,      \* what the form may hold
          NoServers,  \* an edit without a server: not valid
          All,        \* the pattern ">"
          Patterns,   \* patterns of the reader's own, All among them
          Topics,     \* patterns of the system toggles
          MaxOps,     \* bound on what the reader does
          MaxCalls    \* bound on calls under way

VARIABLES items,   \* saved connections: id -> record
          dialog,  \* [open, draft, id, dirty]
          asked,   \* the question over the dialog, or None
          calls,   \* calls under way
          server,  \* connections of the server: id -> patterns
          shown,   \* the same as the tab knows them
          wanted,  \* ghost: the edit of an item as last saved by the reader
          ops

vars == <<items, dialog, asked, calls, server, shown, wanted, ops>>

Without(f, i) == [j \in DOMAIN f \ {i} |-> f[j]]
With(f, i, v) == [j \in DOMAIN f \cup {i} |-> IF j = i THEN v ELSE f[j]]

NewSavedConnection(edit) == [edit |-> edit, own |-> {All}, sys |-> {}]
Fresh == Ids \ (DOMAIN items \cup {dialog.id} \cup DOMAIN wanted)
Listed == DOMAIN items \cup Fresh

(* What a connection is opened with: its own patterns, none stays none, and *)
(* the topics switched on.                                                  *)
ToConnectionConfig(saved) == saved.own \cup saved.sys

Upsert(i, saved) == items' = With(items, i, saved)

Init ==
    /\ items = [i \in Initially |-> NewSavedConnection(CHOOSE e \in Edits \ {NoServers} : TRUE)]
    /\ dialog = [open |-> FALSE, draft |-> None, id |-> None, dirty |-> FALSE]
    /\ asked = None /\ calls = {} /\ ops = 0
    /\ \E up \in SUBSET Initially : server = [i \in up |-> {All}]
    /\ shown = server
    /\ wanted = [i \in DOMAIN items |-> items[i].edit]

-----------------------------------------------------------------------------
(* Calls.                                                                   *)

Call(what, i, more) == calls' = calls \cup {[what |-> what, id |-> i, more |-> more, at |-> "sent"]}
CanCall == Cardinality(calls) < MaxCalls
Quiet == UNCHANGED calls

(* connect: what is saved of that connection now, if it still is. *)
Connect(i, saved, close) == Call("connect", i, [patterns |-> ToConnectionConfig(saved), close |-> close])
Disconnect(i, next) == Call("disconnect", i, [next |-> next])

(* The server handles a call, or refuses it. *)
Served ==
    /\ \E c \in calls :
         /\ c.at = "sent"
         /\ \E ok \in BOOLEAN :
              /\ (ok /\ c.what # "connect") => c.id \in DOMAIN server
              /\ calls' = (calls \ {c}) \cup {[c EXCEPT !.at = IF ok THEN "ok" ELSE "failed"]}
              /\ server' = IF ~ok THEN server
                           ELSE CASE c.what = "connect" -> With(server, c.id, c.more.patterns)
                                  [] c.what = "disconnect" -> Without(server, c.id)
                                  [] c.what = "patterns" -> [server EXCEPT ![c.id] = c.more.own \cup c.more.sys]
    /\ UNCHANGED <<items, dialog, asked, shown, wanted, ops>>

Broadcast ==
    /\ shown # server /\ shown' = server
    /\ UNCHANGED <<items, dialog, asked, calls, server, wanted, ops>>

-----------------------------------------------------------------------------
(* The dialog. *)

Op == ops < MaxOps /\ ops' = ops + 1
Free == dialog.open /\ asked = None
Elsewhere == UNCHANGED <<server, shown>>

Shows(i, saved, dirty) == dialog' = [open |-> TRUE, draft |-> saved, id |-> i, dirty |-> dirty]
IsNew == dialog.id \notin DOMAIN items

(* On the one asked for, the active one, or the first; without any, on a    *)
(* fresh one that is not yet saved.                                         *)
Open ==
    /\ Op /\ ~dialog.open
    /\ IF items = <<>> THEN \E i \in Fresh : Shows(i, NewSavedConnection("e"), FALSE)
       ELSE \E i \in DOMAIN items : Shows(i, items[i], FALSE)
    /\ UNCHANGED <<items, asked, calls, wanted>> /\ Elsewhere

Close ==
    /\ Op /\ Free /\ dialog' = [dialog EXCEPT !.open = FALSE]
    /\ UNCHANGED <<items, asked, calls, wanted>> /\ Elsewhere

(* Another item, a new one or an imported one: unsaved changes ask first.   *)
Choose ==
    /\ Op /\ Free
    /\ \E i \in Listed, e \in Edits \ {NoServers} :
         LET new == i \notin DOMAIN items
             to == [what |-> "discard", id |-> i, saved |-> IF new THEN NewSavedConnection(e) ELSE items[i], dirty |-> new]
         IN  IF dialog.dirty THEN asked' = to /\ UNCHANGED dialog
             ELSE asked' = None /\ Shows(i, to.saved, new)
    /\ UNCHANGED <<items, calls, wanted>> /\ Elsewhere

Patch ==
    /\ Op /\ Free
    /\ \E e \in Edits \ {dialog.draft.edit} : dialog' = [dialog EXCEPT !.draft.edit = e, !.dirty = TRUE]
    /\ UNCHANGED <<items, asked, calls, wanted>> /\ Elsewhere

(* A file of the form is read while the page goes on, and its text goes     *)
(* into the draft there is then.                                            *)
LoadFile ==
    /\ Op /\ Free /\ CanCall
    /\ \E e \in Edits \ {NoServers} : calls' = calls \cup {[what |-> "file", id |-> dialog.id, more |-> [edit |-> e], at |-> "ok"]}
    /\ UNCHANGED <<items, dialog, asked, wanted>> /\ Elsewhere

FileRead ==
    /\ \E c \in calls :
         /\ c.what = "file" /\ calls' = calls \ {c}
         /\ dialog' = IF dialog.open THEN [dialog EXCEPT !.draft.edit = c.more.edit, !.dirty = TRUE] ELSE dialog
    /\ UNCHANGED <<items, asked, wanted, ops>> /\ Elsewhere

(* What is saved of the draft: no pattern becomes every pattern.            *)
Normalized(saved) == [saved EXCEPT !.own = IF @ = {} THEN {All} ELSE @]
Valid == dialog.draft.edit # NoServers
Saves == /\ Valid
         /\ Upsert(dialog.id, Normalized(dialog.draft))
         /\ dialog' = [dialog EXCEPT !.draft = Normalized(@), !.dirty = FALSE]
         /\ wanted' = With(wanted, dialog.id, dialog.draft.edit)

Save ==
    /\ Op /\ Free /\ dialog.dirty /\ Saves
    /\ UNCHANGED <<asked, calls>> /\ Elsewhere

Busy(i) == \E c \in calls : c.what = "connect" /\ c.id = i

CanConnect == Free /\ CanCall /\ ~Busy(dialog.id)

SaveAndConnect ==
    /\ Op /\ CanConnect /\ dialog.id \notin DOMAIN shown /\ Saves
    /\ Connect(dialog.id, Normalized(dialog.draft), TRUE)
    /\ UNCHANGED asked /\ Elsewhere

(* The server keeps what a connection was opened with: changes apply anew.  *)
SaveAndReconnect ==
    /\ Op /\ CanConnect /\ dialog.dirty /\ dialog.id \in DOMAIN shown /\ Saves
    /\ Disconnect(dialog.id, [then |-> "connect"])
    /\ UNCHANGED asked /\ Elsewhere

DisconnectLive ==
    /\ Op /\ Free /\ CanCall /\ dialog.id \in DOMAIN shown
    /\ Disconnect(dialog.id, [then |-> "nothing"])
    /\ UNCHANGED <<items, dialog, asked, wanted>> /\ Elsewhere

(* The question keeps the draft, the list and the live ones of the click.   *)
Delete ==
    /\ Op /\ Free /\ ~IsNew
    /\ asked' = [what |-> "delete", id |-> dialog.id, saved |-> Without(items, dialog.id), live |-> dialog.id \in DOMAIN shown]
    /\ UNCHANGED <<items, dialog, calls, wanted>> /\ Elsewhere

(* What is shown after: another of the list as it was, or a fresh one.      *)
Removed(i, others) ==
    /\ items' = Without(items, i) /\ UNCHANGED wanted
    /\ \E j \in IF others = <<>> THEN Fresh ELSE DOMAIN others :
         dialog' = [open |-> dialog.open, draft |-> IF others = <<>> THEN NewSavedConnection("e") ELSE others[j],
                    id |-> j, dirty |-> FALSE]

Agree ==
    /\ asked # None /\ asked' = None
    /\ CASE asked.what = "discard" -> Shows(asked.id, asked.saved, asked.dirty) /\ Quiet /\ UNCHANGED <<items, wanted>>
         [] asked.what = "delete" /\ asked.live ->
              CanCall /\ Disconnect(asked.id, [then |-> "remove", others |-> asked.saved]) /\ UNCHANGED <<items, dialog, wanted>>
         [] OTHER -> Removed(asked.id, asked.saved) /\ Quiet
    /\ UNCHANGED ops /\ Elsewhere

Decline ==
    /\ asked # None /\ asked' = None
    /\ UNCHANGED <<items, dialog, calls, wanted, ops>> /\ Elsewhere

-----------------------------------------------------------------------------
(* The answers. *)

Answered(c) == calls' = calls \ {c}
ClosedIf(b) == dialog' = IF b THEN [dialog EXCEPT !.open = FALSE] ELSE dialog

ConnectAnswered ==
    /\ \E c \in calls : /\ c.what = "connect" /\ c.at \in {"ok", "failed"} /\ Answered(c)
                        /\ ClosedIf(c.more.close /\ c.at = "ok")
    /\ UNCHANGED <<items, asked, wanted, ops>> /\ Elsewhere

(* A refusal is told and the caller goes on all the same. *)
DisconnectAnswered ==
    /\ \E c \in calls :
         LET next == c.more.next
         IN  /\ c.what = "disconnect" /\ c.at \in {"ok", "failed"}
             /\ CASE next.then = "nothing" -> Answered(c) /\ UNCHANGED <<items, dialog, wanted>>
                  [] next.then = "remove" -> Answered(c) /\ Removed(c.id, next.others)
                  [] next.then = "connect" /\ c.id \notin DOMAIN items -> Answered(c) /\ UNCHANGED <<items, dialog, wanted>>
                  [] OTHER -> /\ calls' = (calls \ {c}) \cup {[what |-> "connect", id |-> c.id, at |-> "sent",
                                              more |-> [patterns |-> ToConnectionConfig(items[c.id]), close |-> TRUE]]}
                              /\ UNCHANGED <<items, dialog, wanted>>
    /\ UNCHANGED <<asked, ops>> /\ Elsewhere

-----------------------------------------------------------------------------
(* The subscriptions of a live connection. *)

ChangePatterns(own, sys, i) ==
    /\ Op /\ CanCall /\ ~dialog.open
    /\ Call("patterns", i, [own |-> own, sys |-> sys])
    /\ UNCHANGED <<items, dialog, asked, wanted>> /\ Elsewhere

Panel == DOMAIN shown
Own(i) == shown[i] \ Topics
Sys(i) == shown[i] \cap Topics

(* A pattern of one's own takes the place of the catch-all. *)
AddPattern ==
    \E i \in Panel : \E p \in Patterns \ Own(i) :
        ChangePatterns((IF Own(i) = {All} THEN {} ELSE Own(i)) \cup {p}, Sys(i), i)
RemovePattern == \E i \in Panel : \E p \in Own(i) : ChangePatterns(Own(i) \ {p}, Sys(i), i)
ToggleSys ==
    \E i \in Panel, t \in Topics :
        ChangePatterns(Own(i), IF t \in Sys(i) THEN Sys(i) \ {t} ELSE Sys(i) \cup {t}, i)

(* Mutant: what was saved when the change was asked for is put back. *)
RememberedAnew(saved, own, sys) == [NewSavedConnection("e") EXCEPT !.own = own, !.sys = sys]

(* What is saved by then keeps everything but its patterns. *)
Remembered(saved, own, sys) == [saved EXCEPT !.own = own, !.sys = sys]

PatternsAnswered ==
    /\ \E c \in calls :
         /\ c.what = "patterns" /\ c.at \in {"ok", "failed"} /\ Answered(c)
         /\ IF c.at = "ok" /\ c.id \in DOMAIN items
            THEN Upsert(c.id, Remembered(items[c.id], c.more.own, c.more.sys)) ELSE UNCHANGED items
    /\ UNCHANGED <<dialog, asked, wanted, ops>> /\ Elsewhere

Next == \/ Open \/ Close \/ Choose \/ Patch \/ LoadFile \/ FileRead \/ Save \/ SaveAndConnect \/ SaveAndReconnect \/ DisconnectLive
        \/ Delete \/ Agree \/ Decline \/ Served \/ Broadcast \/ ConnectAnswered \/ DisconnectAnswered
        \/ AddPattern \/ RemovePattern \/ ToggleSys \/ PatternsAnswered

Spec == Init /\ [][Next]_vars
-----------------------------------------------------------------------------
(* What the reader saved of a connection stays, whatever answers about its  *)
(* patterns come late: applyPatterns reads the item after its call.         *)
SavedEditsSurvive == \A i \in DOMAIN items : items[i].edit = wanted[i]

(* A connection whose patterns were all removed reconnects listening to     *)
(* nothing, rather than to everything (lib/savedConnections.ts).            *)
NothingStaysNothing ==
    [][\A c \in calls' \ calls :
         (c.what = "connect" /\ c.at = "sent" /\ c.id \in DOMAIN items /\ items[c.id].own = {}) => All \notin c.more.patterns]_vars

(* Every change is remembered in the saved connection (SubscriptionsPanel): *)
(* with no call under way, it would be opened again with what it has now.   *)
RememberedIsSubscribed ==
    (calls = {} /\ shown = server) =>
        \A i \in DOMAIN items \cap DOMAIN server : ToConnectionConfig(items[i]) = server[i]

(* A deleted connection is gone for good. *)
DeletedStaysDeleted == [][\A i \in DOMAIN wanted : i \in DOMAIN items' => i \in DOMAIN items]_vars
=============================================================================
