------------------------------- MODULE Requests -------------------------------
(* Request templates (lib/savedRequests.ts and its store), the list and the *)
(* editor of the Requests module, the publish drawer of the subjects, and   *)
(* the runner both send with. A template is what its form holds: what it    *)
(* sends (subject, payload, headers, counts) and what it expects back.      *)
EXTENDS Integers, FiniteSets

CONSTANTS None,
          Ids,             \* ids uuid() makes
          Blank, Missing,  \* the empty id, and none at all
          Sends,           \* what can be sent
          Empty,           \* without a subject: nothing to send
          Repeats,         \* those that are run many times
          Refused,         \* those whose payload does not become bytes
          Bounds,          \* what a template can expect of its replies
          Unbound,         \* nothing
          MaxOps, MaxEvents

VARIABLES items,    \* saved templates: id -> body
          selected, \* the template selected in the Requests module
          made,     \* ghost: how many were saved as new ones, without the deleted
          module,   \* the module on screen
          form,     \* the form on screen: [at, draft, busy, shown]
          runs,     \* sends under way: [form, from, body, at]
          checking, \* the check of the payload against its pinned schema
          spent

vars == <<items, selected, made, module, form, runs, checking, spent>>

(* form.at is the template the form was loaded with, form.gen tells one     *)
(* form from the next, form.shown the template and body an outcome is of.   *)
Form(gen, at, body) == [gen |-> gen, at |-> at, draft |-> body, busy |-> FALSE, shown |-> None]
Bodies == [sends: Sends, expects: Bounds]
Blanked == [sends |-> Empty, expects |-> Unbound]
NoCheck == [of |-> None, at |-> "none", verdict |-> None]

Without(f, i) == [j \in DOMAIN f \ {i} |-> f[j]]
With(f, i, v) == [j \in DOMAIN f \cup {i} |-> IF j = i THEN v ELSE f[j]]
FreshId == Ids \ DOMAIN items

Init ==
    /\ \E b \in Bodies : items = [i \in {CHOOSE i \in Ids : TRUE} |-> b]
    /\ made = 1 /\ selected = None
    /\ module = "requests" /\ form = Form(0, None, Blanked)
    /\ runs = {} /\ checking = NoCheck /\ spent = [ops |-> 0, events |-> 0, forms |-> 0]

Op == spent.ops < MaxOps /\ spent' = [spent EXCEPT !.ops = @ + 1]
Event == spent.events < MaxEvents /\ spent' = [spent EXCEPT !.events = @ + 1]
Kept == UNCHANGED <<items, made>>
Store == Kept /\ UNCHANGED selected

(* The store: same id wins over the entry there is.                         *)
Upsert(i, body) == items' = With(items, i, body)
Fill(i, body) == form' = [form EXCEPT !.at = i, !.draft = body, !.shown = None]

(* What a new template is called: newSavedRequest spreads what it is given  *)
(* over the id it makes.                                                    *)
IdOf(given) == IF given = None THEN FreshId ELSE {given}
SaveNew(given, body, shown) ==
    /\ made' = made + 1
    /\ \E i \in IdOf(given) :
         /\ Upsert(i, body)
         /\ form' = [form EXCEPT !.at = i, !.draft = body, !.shown = shown]
         /\ selected' = IF module = "requests" THEN i ELSE selected

-----------------------------------------------------------------------------
(* The Requests module. *)

CreateTemplate ==
    /\ Op /\ module = "requests" /\ SaveNew(None, Blanked, None)
    /\ UNCHANGED <<module, runs, checking>>

SelectTemplate ==
    /\ Op /\ module = "requests"
    /\ \E i \in DOMAIN items \ {selected} : Fill(i, items[i]) /\ selected' = i
    /\ Kept /\ UNCHANGED <<module, runs, checking>>

(* Items of the file replace those of the same id; the form keeps its draft. *)
ImportFile ==
    /\ Op /\ module = "requests"
    /\ \E i \in Ids, b \in Bodies : Upsert(i, b) /\ made' = IF i \in DOMAIN items THEN made ELSE made + 1
    /\ UNCHANGED <<selected, module, form, runs, checking>>

Opened == module = "requests" /\ form.at \in DOMAIN items
Dirty == form.draft.sends # items[form.at].sends   \* draftDiffers leaves out what is expected

Edits(d) == form' = [form EXCEPT !.draft = d] /\ Store /\ UNCHANGED <<module, runs, checking>>
Editing == Op /\ (Opened \/ module = "subjects")

EditSends == Editing /\ \E s \in (Sends \cup {Empty}) \ {form.draft.sends} : Edits([form.draft EXCEPT !.sends = s])
EditExpects == Editing /\ \E x \in Bounds \ {form.draft.expects} : Edits([form.draft EXCEPT !.expects = x])

Save ==
    /\ Op /\ Opened /\ Dirty /\ Upsert(form.at, form.draft)
    /\ UNCHANGED <<made, selected, module, form, runs, checking>>

Duplicate ==
    /\ Op /\ Opened /\ SaveNew(Missing, form.draft, None)
    /\ UNCHANGED <<module, runs, checking>>

Delete ==
    /\ Op /\ Opened
    /\ items' = Without(items, form.at) /\ made' = made - 1
    /\ Fill(None, Blanked) /\ selected' = None
    /\ UNCHANGED <<module, runs, checking>>

-----------------------------------------------------------------------------
(* The publish drawer: a form of its own, filled from a template, a recent  *)
(* send, or whatever asks for a publish; a draft can become a template.     *)

Turn(to, of) ==
    /\ spent.ops < MaxOps /\ spent' = [spent EXCEPT !.ops = @ + 1, !.forms = @ + 1]
    /\ module' = to /\ selected' = of /\ checking' = NoCheck
    /\ IF to = "requests" /\ of \in DOMAIN items THEN form' = Form(spent.forms + 1, of, items[of])
       ELSE \E s \in {Empty} \cup IF to = "subjects" THEN Sends ELSE {} :
              form' = Form(spent.forms + 1, None, [Blanked EXCEPT !.sends = s])
    /\ Kept /\ UNCHANGED runs

ShowModule == Turn(IF module = "requests" THEN "subjects" ELSE "requests", selected)

OpenInRequests == module = "subjects" /\ form.at \in DOMAIN items /\ Turn("requests", form.at)

PickTemplate ==
    /\ Op /\ module = "subjects" /\ \E i \in DOMAIN items : Fill(i, items[i])
    /\ Store /\ UNCHANGED <<module, runs, checking>>

PickRecent ==
    /\ Op /\ module = "subjects"
    /\ \E s \in Sends : form' = [form EXCEPT !.draft.sends = s, !.at = None]
    /\ Store /\ UNCHANGED <<module, runs, checking>>

Prefill ==
    /\ Op /\ module = "subjects"
    /\ \E s \in Sends \ {form.draft.sends} : form' = [form EXCEPT !.draft.sends = s]
    /\ Store /\ UNCHANGED <<module, runs, checking>>

SaveChanges ==
    /\ Op /\ module = "subjects" /\ form.at \in DOMAIN items \ {Blank} /\ Upsert(form.at, form.draft)
    /\ UNCHANGED <<made, selected, module, form, runs, checking>>

SaveAsTemplate ==
    /\ Op /\ module = "subjects" /\ SaveNew(Blank, form.draft, form.shown)
    /\ UNCHANGED <<module, runs, checking>>

-----------------------------------------------------------------------------
(* The runner: one send of a form at a time. What the editor holds becomes  *)
(* bytes first, which may fail; the answer is put on the form it was sent   *)
(* from, if that is still there.                                            *)

(* Whether what the editor holds is bytes: hex, base64, protobuf may not be. *)
Readable(s) == s \notin Refused

CanSend == form.draft.sends # Empty /\ ~form.busy
Outcome(r, what) == [from |-> r.from, body |-> r.body, what |-> what]

Send ==
    /\ Op /\ (Opened \/ module = "subjects") /\ CanSend
    /\ runs' = runs \cup {[form |-> form.gen, from |-> form.at, body |-> form.draft.sends, at |-> "encoding"]}
    /\ form' = [form EXCEPT !.busy = TRUE, !.shown = None]
    /\ Store /\ UNCHANGED <<module, checking>>

(* Mutant: an editor that does not become bytes leaves the form waiting.    *)
EndsAnswered(r, what) ==
    /\ runs' = runs \ {r}
    /\ form' = IF form.gen = r.form THEN [form EXCEPT !.busy = r.at = "encoding", !.shown = Outcome(r, what)] ELSE form

Ends(r, what) ==
    /\ runs' = runs \ {r}
    /\ form' = IF form.gen = r.form THEN [form EXCEPT !.busy = FALSE, !.shown = Outcome(r, what)] ELSE form

Encoded ==
    /\ \E r \in runs :
         /\ r.at = "encoding"
         /\ IF Readable(r.body) THEN runs' = (runs \ {r}) \cup {[r EXCEPT !.at = "sent"]} /\ UNCHANGED form
            ELSE Ends(r, "error")
    /\ Store /\ UNCHANGED <<module, checking, spent>>

Answered ==
    /\ \E r \in runs : r.at = "sent" /\ Ends(r, IF r.body \in Repeats THEN "run" ELSE "reply")
    /\ Store /\ UNCHANGED <<module, checking, spent>>

SendFails ==
    /\ Event /\ \E r \in runs : r.at = "sent" /\ Ends(r, "error")
    /\ Store /\ UNCHANGED <<module, checking>>

-----------------------------------------------------------------------------
(* The check of the payload: half a second after the last change; an answer *)
(* for what was there before is dropped, and what it said stays until then. *)

Checks == Readable(form.draft.sends) /\ form.draft.sends # Empty
Unchecked == checking.of # form.draft.sends

(* The effect of a changed draft. *)
StartCheck ==
    /\ Unchecked
    /\ checking' = IF Checks THEN [checking EXCEPT !.of = form.draft.sends, !.at = "timer"]
                   ELSE [NoCheck EXCEPT !.of = form.draft.sends]
    /\ Store /\ UNCHANGED <<module, form, runs, spent>>

CheckTimer ==
    /\ ~Unchecked /\ checking.at = "timer" /\ checking' = [checking EXCEPT !.at = "asked"]
    /\ Store /\ UNCHANGED <<module, form, runs, spent>>

CheckAnswered ==
    /\ ~Unchecked /\ checking.at = "asked"
    /\ \E verdict \in {None, checking.of} : checking' = [checking EXCEPT !.at = "none", !.verdict = verdict]
    /\ Store /\ UNCHANGED <<module, form, runs, spent>>

Next == \/ CreateTemplate \/ SelectTemplate \/ ImportFile \/ EditSends \/ EditExpects \/ Save \/ Duplicate \/ Delete
        \/ ShowModule \/ OpenInRequests \/ PickTemplate \/ PickRecent \/ Prefill \/ SaveChanges \/ SaveAsTemplate
        \/ Send \/ Encoded \/ Answered \/ SendFails \/ StartCheck \/ CheckTimer \/ CheckAnswered

Spec == Init /\ [][Next]_vars
-----------------------------------------------------------------------------
(* Every template that was saved is there until it is deleted.              *)
EveryTemplateIsKept == Cardinality(DOMAIN items) = made

(* What the form holds and its template does not can be saved: the Save     *)
(* button says no only when there is nothing to save.                       *)
EditsCanBeSaved == Opened => (Dirty <=> form.draft # items[form.at])

(* A form that waits has something under way, and it is the only thing:     *)
(* whatever is selected or left meanwhile, it comes back to be sent again.  *)
BusyMeansUnderWay == form.busy = (Cardinality({r \in runs : r.form = form.gen}) = 1)
=============================================================================
