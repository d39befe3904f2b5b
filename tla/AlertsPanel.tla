------------------------------ MODULE AlertsPanel ------------------------------
(* The Alerts module of the client: its store (store/alerts.ts), the view and *)
(* the rule dialog, against the handlers of feature_alerts.go. Rules are saved *)
(* one at a time into a list the server reads and stores as a whole, planned   *)
(* silences are saved as a whole list; what fires is pushed.                   *)
EXTENDS Integers, Sequences, FiniteSets

CONSTANTS None,
          Ids, Windows,    \* ids of rules, planned silences
          Patterns, Good,  \* what a rule watches, and what validateRule accepts
          MaxOps, MaxEvents

VARIABLES held,    \* server: [rules, windows, active]; active is a version of what fires
          pushed,  \* versions on their way to the client
          store,   \* the client's: [open, rules, windows, active]; open once the view was
          dialog,  \* the rule dialog: None or [id, draft, busy]
          calls,   \* requests under way
          overlap, \* ghost: something was asked or pushed while something else was under way
          spent

vars == <<held, pushed, store, dialog, calls, overlap, spent>>

Rule == [on : BOOLEAN, muted : BOOLEAN, pattern : Patterns]
NewRule == [on |-> TRUE, muted |-> FALSE, pattern |-> CHOOSE p \in Patterns : p \notin Good]
With(f, i, v) == [j \in DOMAIN f \cup {i} |-> IF j = i THEN v ELSE f[j]]
Without(f, i) == [j \in DOMAIN f \ {i} |-> f[j]]
Empty == [i \in {} |-> NewRule]

Init ==
    /\ \E r \in {r \in Rule : r.pattern \in Good}, i \in Ids, w \in SUBSET Windows :
         held = [rules |-> [j \in {i} |-> r], windows |-> w, active |-> 0]
    /\ store = [open |-> FALSE, rules |-> Empty, windows |-> {}, active |-> 0]
    /\ pushed = <<>> /\ dialog = None /\ calls = {} /\ overlap = FALSE
    /\ spent = [ops |-> 0, events |-> 0]

Op == spent.ops < MaxOps /\ spent' = [spent EXCEPT !.ops = @ + 1]
Event == spent.events < MaxEvents /\ spent' = [spent EXCEPT !.events = @ + 1]
Quiet == calls = {} /\ pushed = <<>>

Call(kind, id, arg) == [n |-> spent.ops, kind |-> kind, id |-> id, arg |-> arg, at |-> "sent", res |-> None, also |-> None]
Ask(asked) ==
    /\ calls' = calls \cup asked
    /\ overlap' = (overlap \/ ~Quiet)

-----------------------------------------------------------------------------
(* What a person does. *)

OpenView ==
    /\ Op /\ dialog = None /\ Ask({Call("load", None, None), Call("loadWindows", None, None)})
    /\ store' = [store EXCEPT !.open = TRUE]
    /\ UNCHANGED <<held, pushed, dialog>>

InView == store.open /\ dialog = None
SaveRule(i, rule) == Ask({Call("save", i, rule)})

(* The whole rule goes, as the store knows it.                              *)
ToggleEnabled ==
    /\ Op /\ dialog = None
    /\ \E i \in DOMAIN store.rules : SaveRule(i, [store.rules[i] EXCEPT !.on = ~@])
    /\ UNCHANGED <<held, pushed, store, dialog>>

SetMute ==
    /\ Op /\ dialog = None
    /\ \E i \in DOMAIN store.rules, m \in BOOLEAN : SaveRule(i, [store.rules[i] EXCEPT !.muted = m])
    /\ UNCHANGED <<held, pushed, store, dialog>>

(* The question before it is modal.                                         *)
Delete ==
    /\ Op /\ dialog = None
    /\ \E i \in DOMAIN store.rules : Ask({Call("remove", i, None)})
    /\ UNCHANGED <<held, pushed, store, dialog>>

MarkSeen ==
    /\ Op /\ InView /\ store.active > 0 /\ Ask({Call("ack", None, None)})
    /\ UNCHANGED <<held, pushed, store, dialog>>

AddWindow ==
    /\ Op /\ InView
    /\ \E w \in Windows \ store.windows : Ask({Call("setWindows", None, store.windows \cup {w})})
    /\ UNCHANGED <<held, pushed, store, dialog>>

RemoveWindow ==
    /\ Op /\ InView
    /\ \E w \in store.windows : Ask({Call("setWindows", None, store.windows \ {w})})
    /\ UNCHANGED <<held, pushed, store, dialog>>

NewId == Ids \ (DOMAIN store.rules \cup DOMAIN held.rules)

EditRule ==
    /\ InView
    /\ \/ \E i \in DOMAIN store.rules : dialog' = [id |-> i, draft |-> store.rules[i], busy |-> FALSE]
       \/ \E i \in NewId : dialog' = [id |-> i, draft |-> NewRule, busy |-> FALSE]
    /\ UNCHANGED <<held, pushed, store, calls, overlap, spent>>

Patch ==
    /\ dialog # None /\ Op
    /\ \E p \in Patterns \ {dialog.draft.pattern} : dialog' = [dialog EXCEPT !.draft.pattern = p]
    /\ UNCHANGED <<held, pushed, store, calls, overlap>>

(* validateRule: what is wrong is said before the request goes out.         *)
Valid(rule) == rule.pattern \in Good

TestRule ==
    /\ dialog # None /\ Op /\ Ask({Call("test", dialog.id, dialog.draft)})
    /\ UNCHANGED <<held, pushed, store, dialog>>

SaveDialog ==
    /\ dialog # None /\ Valid(dialog.draft) /\ ~dialog.busy
    /\ Op /\ SaveRule(dialog.id, dialog.draft)
    /\ dialog' = [dialog EXCEPT !.busy = TRUE]
    /\ UNCHANGED <<held, pushed, store>>

CloseDialog ==
    /\ dialog # None /\ dialog' = None
    /\ UNCHANGED <<held, pushed, store, calls, overlap, spent>>

-----------------------------------------------------------------------------
(* The server. *)

Becomes(c, at, res) == calls' = (calls \ {c}) \cup {[c EXCEPT !.at = at, !.res = res]}
Served == UNCHANGED <<pushed, store, dialog, overlap, spent>>

(* The handlers of one rule read the list, change it and store the list;    *)
(* nothing holds the other handlers off in between.                         *)
ReadRules ==
    /\ \E c \in calls : c.kind \in {"save", "remove"} /\ c.at = "sent" /\ Becomes(c, "read", held.rules)
    /\ UNCHANGED held /\ Served

StoreRules ==
    /\ \E c \in calls :
         /\ c.at = "read" /\ Becomes(c, "done", c.res)
         /\ held' = [held EXCEPT !.rules = IF c.kind = "save" THEN With(c.res, c.id, c.arg) ELSE Without(c.res, c.id)]
    /\ Served

StoreWindows ==
    /\ \E c \in calls :
         /\ c.kind = "setWindows" /\ c.at = "sent" /\ Becomes(c, "done", c.arg)
         /\ held' = [held EXCEPT !.windows = c.arg]
    /\ Served

(* The rules and what fires are asked for together and answered apart.      *)
ServeGet ==
    /\ \E c \in calls :
         \/ c.kind \in {"load", "reread"} /\ c.at = "sent"
            /\ Becomes(c, IF c.kind = "load" /\ c.also = None THEN "half" ELSE "done", held.rules)
         \/ c.kind = "load" /\ c.at = "half" /\ calls' = (calls \ {c}) \cup {[c EXCEPT !.at = "done", !.also = held.active]}
         \/ c.kind = "ack" /\ c.at = "sent" /\ Becomes(c, "done", held.active)
         \/ c.kind = "loadWindows" /\ c.at = "sent" /\ Becomes(c, "done", held.windows)
         \/ c.kind = "test" /\ c.at = "sent" /\ Becomes(c, "done", None)
    /\ UNCHANGED held /\ Served

Fires ==
    /\ Event /\ held' = [held EXCEPT !.active = @ + 1]
    /\ pushed' = Append(pushed, held.active + 1)
    /\ overlap' = (overlap \/ ~Quiet)
    /\ UNCHANGED <<store, dialog, calls>>

-----------------------------------------------------------------------------
(* What the client makes of answers and pushes. *)

Apply ==
    /\ pushed # <<>> /\ store' = [store EXCEPT !.active = Head(pushed)] /\ pushed' = Tail(pushed)
    /\ UNCHANGED <<held, dialog, calls, overlap, spent>>

Shows(c) ==
    store' = CASE c.kind = "load" -> [store EXCEPT !.rules = c.res, !.active = c.also]
               [] c.kind = "reread" -> [store EXCEPT !.rules = c.res]
               [] c.kind = "remove" -> [store EXCEPT !.rules = Without(@, c.id)]
               [] c.kind = "ack" -> [store EXCEPT !.active = c.res]
               [] c.kind \in {"loadWindows", "setWindows"} -> [store EXCEPT !.windows = c.res]
               [] OTHER -> store

(* A save is answered with the one rule: the list is read again, and the    *)
(* dialog waits for that too. Mutant: it is not read again.                 *)
ForgetsToReread(c) == {}
Rereads(c) == IF c.kind = "save" THEN {[c EXCEPT !.kind = "reread", !.at = "sent", !.res = None]} ELSE {}

Answered ==
    /\ \E c \in calls :
         /\ c.at = "done" /\ Shows(c)
         /\ calls' = (calls \ {c}) \cup Rereads(c)
         /\ dialog' = IF c.kind = "reread" /\ dialog # None /\ dialog.busy THEN None ELSE dialog
    /\ UNCHANGED <<held, pushed, overlap, spent>>

Failed ==
    /\ Event
    /\ \E c \in calls :
         /\ c.at = "sent" /\ calls' = calls \ {c}
         /\ dialog' = IF c.kind \in {"save", "reread"} /\ dialog # None THEN [dialog EXCEPT !.busy = FALSE] ELSE dialog
         /\ overlap' = (overlap \/ c.kind = "reread")
    /\ UNCHANGED <<held, pushed, store>>

Next == \/ OpenView \/ ToggleEnabled \/ SetMute \/ Delete \/ MarkSeen \/ AddWindow \/ RemoveWindow
        \/ EditRule \/ Patch \/ TestRule \/ SaveDialog \/ CloseDialog
        \/ ReadRules \/ StoreRules \/ StoreWindows \/ ServeGet \/ Fires \/ Apply \/ Answered \/ Failed

Spec == Init /\ [][Next]_vars
-----------------------------------------------------------------------------
(* Rules that were read, and nothing asked while something else was under   *)
(* way: the table shows the rules the server has, and no rule it has not.   *)
SettledIsShown ==
    Quiet /\ ~overlap /\ DOMAIN store.rules # {} => store.rules = held.rules

(* The two things one request at a time cannot do: a rule that is stored is *)
(* only taken away by deleting it, a planned silence by removing it.        *)
RulesAreKept ==
    [][\A i \in DOMAIN held.rules : i \in DOMAIN held'.rules \/ \E c \in calls : c.kind = "remove" /\ c.id = i]_vars
WindowsAreKept ==
    [][\A w \in held.windows : w \in held'.windows \/ w \in store.windows]_vars
=============================================================================
