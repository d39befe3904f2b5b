------------------------------ MODULE ConfigForms ------------------------------
(* The dialogs that edit a stream (StreamDialog.tsx) and a consumer          *)
(* (ConsumerDialog in ConsumerList.tsx): a configuration becomes the texts of *)
(* a form, the form a request body, and the server lays that over what it     *)
(* has. A field that is only shown must come back as it was.                  *)
EXTENDS Integers, Sequences, FiniteSets, SequencesExt

CONSTANTS None,
          Second, Units,  \* ticks of a second, and of each unit a form offers
          Durations,      \* durations a configuration may hold, 0 for none
          Limits,         \* counts a configuration may hold
          Names, Starts, Minute,  \* streams to copy from, times to start at, ticks of a minute
          Here,           \* where a source is: in this account, or elsewhere
          Places,
          Keys, Own,      \* metadata keys, and those the server keeps for itself
          Subjects,
          MaxEdits, MaxCalls

VARIABLES held,   \* the configuration on the server
          form,   \* the dialog: [open, base, draft, touched]
          calls,  \* requests that were not answered yet
          spent

vars == <<held, form, calls, spent>>

Unlimited == 0 - 1
Sources == [name : Names, start : Starts \cup {None}, place : Places]
StreamConfigs ==
    [kind : {"stream"}, limit : Limits \cup {Unlimited}, age : Durations, mirror : {None} \cup Sources,
     consumerMaxAckPending : Limits \cup {Unlimited},
     sources : {<<>>} \cup {<<s>> : s \in Sources}, metadata : SUBSET Keys]
ConsumerConfigs ==
    [kind : {"consumer"}, maxDeliver : (Limits \ {0}) \cup {Unlimited}, ackWait : Durations \ {0},
     maxAckPending : Limits \cup {Unlimited},
     backoff : {<<>>} \cup {<<d>> : d \in Durations \ {0}}, inactiveThreshold : Durations,
     filters : {<<>>} \cup {<<a>> : a \in Subjects} \cup {<<a, b>> : a, b \in Subjects}, metadata : SUBSET Keys]
Configs == StreamConfigs \cup ConsumerConfigs

-----------------------------------------------------------------------------
(* From a value to the text of its field, and back. *)

(* A text is a fraction: "1.5" is 3 halves.                                  *)
InSeconds(d) == [num |-> d, den |-> Second]
FromSeconds(t) == IF t = None THEN 0 ELSE (t.num * Second) \div t.den

(* The largest unit that divides it, else a fraction of seconds.            *)
SplitDuration(d) ==
    LET fits == {u \in Units : d % u = 0}
        unit == CHOOSE u \in fits : \A v \in fits : v <= u
    IN  IF d = 0 THEN [value |-> None, unit |-> None]
        ELSE IF fits = {} THEN [value |-> InSeconds(d), unit |-> Second]
        ELSE [value |-> [num |-> d \div unit, den |-> 1], unit |-> unit]
ToNs(t) == IF t.value = None THEN 0 ELSE (t.value.num * t.unit) \div t.value.den

NumberText(n) == IF n >= 0 THEN n ELSE None
PositiveText(n) == IF n > 0 THEN n ELSE None
NumOrUnlimited(t) == IF t = None THEN Unlimited ELSE t

(* Zero has no text, a negative number has one that counts as none.         *)
NonzeroText(n) == IF n # 0 THEN n ELSE None
NumOrZero(t) == IF t = None \/ t = Unlimited THEN 0 ELSE t

RoundedSeconds(d) == (d + Second \div 2) \div Second
ToLocalInput(t) == IF t = None THEN None ELSE t - (t % Minute)

SourceDraft(s) == IF s = None THEN [name |-> None, start |-> None] ELSE [name |-> s.name, start |-> ToLocalInput(s.start)]
SourceFromDraft(d) == IF d.name = None THEN None ELSE [name |-> d.name, start |-> d.start, place |-> Here]

FormatMetadata(md) == md \ Own
FormatBackoff(waits) == [i \in DOMAIN waits |-> InSeconds(waits[i])]
ParseBackoff(texts) == [i \in DOMAIN texts |-> FromSeconds(texts[i])]
InactiveText(d) == IF d = 0 THEN None ELSE InSeconds(d)

(* One filter goes as such, several as a list; the server takes either.     *)
SplitFilters(list) == [one |-> IF Len(list) = 1 THEN Head(list) ELSE None, many |-> IF Len(list) > 1 THEN list ELSE <<>>]
SetFilters(split) == IF split.one = None THEN split.many ELSE <<split.one>>

-----------------------------------------------------------------------------
StreamForm(c) ==
    [kind |-> "stream", limit |-> NumberText(c.limit), age |-> SplitDuration(c.age), mirror |-> SourceDraft(c.mirror),
     consumerMaxAckPending |-> NonzeroText(c.consumerMaxAckPending),
     sources |-> [i \in DOMAIN c.sources |-> SourceDraft(c.sources[i])], metadata |-> FormatMetadata(c.metadata)]

ConsumerForm(c) ==
    [kind |-> "consumer", maxDeliver |-> PositiveText(c.maxDeliver), ackWait |-> RoundedSeconds(c.ackWait),
     maxAckPending |-> NonzeroText(c.maxAckPending),
     backoff |-> FormatBackoff(c.backoff), inactiveThreshold |-> InactiveText(c.inactiveThreshold),
     filters |-> c.filters, metadata |-> FormatMetadata(c.metadata)]

Draft(c) == IF c.kind = "stream" THEN StreamForm(c) ELSE ConsumerForm(c)

StreamBody(d) ==
    LET made == [i \in DOMAIN d.sources |-> SourceFromDraft(d.sources[i])]
    IN  [kind |-> "stream", limit |-> NumOrUnlimited(d.limit), age |-> ToNs(d.age), mirror |-> SourceFromDraft(d.mirror),
         consumerMaxAckPending |-> NumOrZero(d.consumerMaxAckPending),
         sources |-> SelectSeq(made, LAMBDA s : s # None), metadata |-> d.metadata]

ConsumerBody(d) ==
    [kind |-> "consumer", maxDeliver |-> IF d.maxDeliver = None THEN Unlimited ELSE d.maxDeliver,
     maxAckPending |-> NumOrZero(d.maxAckPending),
     ackWait |-> IF d.ackWait > 0 THEN d.ackWait * Second ELSE None, backoff |-> ParseBackoff(d.backoff),
     inactiveThreshold |-> FromSeconds(d.inactiveThreshold), filters |-> SplitFilters(d.filters), metadata |-> d.metadata]

Body(d) == IF d.kind = "stream" THEN StreamBody(d) ELSE ConsumerBody(d)

(* What the server makes of it: what it keeps for itself in the metadata    *)
(* stays, a wait that was left out keeps its value.                         *)
KeepsOwn(old, new) == (old \cap Own) \cup (new \ Own)

Applied(c, b) ==
    IF c.kind = "stream" THEN [b EXCEPT !.metadata = KeepsOwn(c.metadata, @)]
    ELSE [b EXCEPT !.metadata = KeepsOwn(c.metadata, @), !.filters = SetFilters(@),
                   !.ackWait = IF @ = None THEN c.ackWait ELSE @]

-----------------------------------------------------------------------------
Closed == [open |-> FALSE, base |-> None, draft |-> None, touched |-> {}]

Init ==
    /\ held \in Configs
    /\ form = Closed /\ calls = {} /\ spent = [edits |-> 0, calls |-> 0]

Open ==
    /\ ~form.open /\ spent.calls < MaxCalls
    /\ form' = [open |-> TRUE, base |-> held, draft |-> Draft(held), touched |-> {}]
    /\ UNCHANGED <<held, calls, spent>>

Close ==
    /\ form.open /\ form' = Closed
    /\ UNCHANGED <<held, calls, spent>>

Types(field, text) ==
    /\ form.open /\ spent.edits < MaxEdits
    /\ field \in DOMAIN form.draft /\ form.draft[field] # text
    /\ form' = [form EXCEPT !.draft[field] = text, !.touched = @ \cup {field}]
    /\ spent' = [spent EXCEPT !.edits = @ + 1]
    /\ UNCHANGED <<held, calls>>

IsStream == form.open /\ form.base.kind = "stream"
IsConsumer == form.open /\ form.base.kind = "consumer"

TypeLimit == \E n \in Limits \cup {None} : \/ IsStream /\ Types("limit", n)
                                           \/ IsStream /\ n # 0 /\ Types("consumerMaxAckPending", n)
                                           \/ IsConsumer /\ n # 0 /\ (Types("maxDeliver", n) \/ Types("maxAckPending", n))
TypeDuration == \E d \in Durations : \/ IsStream /\ Types("age", SplitDuration(d))
                                     \/ IsConsumer /\ Types("inactiveThreshold", InactiveText(d))
TypeWait == IsConsumer /\ \E d \in Durations : Types("ackWait", d \div Second) \/ Types("backoff", IF d = 0 THEN <<>> ELSE <<InSeconds(d)>>)
TypeFilters == IsConsumer /\ \E a \in Subjects : Types("filters", Append(form.draft.filters, a)) \/ Types("filters", <<>>)
TypeMetadata == \E k \in Keys \ Own : Types("metadata", form.draft.metadata \cup {k}) \/ Types("metadata", form.draft.metadata \ {k})
AddSource == IsStream /\ Types("sources", Append(form.draft.sources, SourceDraft(None)))
SetSource == IsStream /\ \E i \in DOMAIN form.draft.sources, n \in Names \cup {None} :
                 Types("sources", [form.draft.sources EXCEPT ![i].name = n])
RemoveSource == IsStream /\ \E i \in DOMAIN form.draft.sources : Types("sources", RemoveAt(form.draft.sources, i))

(* Enter submits while an earlier submit is under way: nothing asks busy.   *)
Submit ==
    /\ form.open /\ spent.calls < MaxCalls
    /\ spent' = [spent EXCEPT !.calls = @ + 1]
    /\ calls' = calls \cup {[n |-> spent.calls, base |-> form.base, touched |-> form.touched, body |-> Body(form.draft), done |-> FALSE]}
    /\ UNCHANGED <<held, form>>

(* The server: a mirror is decided at creation, and a request that would    *)
(* change it is refused.                                                    *)
Serve ==
    /\ \E c \in calls :
         /\ ~c.done
         /\ calls' = (calls \ {c}) \cup {[c EXCEPT !.done = TRUE]}
         /\ held' = IF c.base.kind = "stream" /\ c.body.mirror # held.mirror THEN held ELSE Applied(held, c.body)
    /\ UNCHANGED <<form, spent>>

(* Any answer without an error closes the dialog that is open then.         *)
Answered ==
    /\ \E c \in calls :
         /\ c.done /\ calls' = calls \ {c}
         /\ \/ form' = Closed
            \/ c.base.kind = "stream" /\ c.body.mirror # c.base.mirror /\ UNCHANGED form
    /\ UNCHANGED <<held, spent>>

Next == \/ Open \/ Close \/ TypeLimit \/ TypeDuration \/ TypeWait \/ TypeFilters \/ TypeMetadata
        \/ AddSource \/ SetSource \/ RemoveSource \/ Submit \/ Serve \/ Answered

Spec == Init /\ [][Next]_vars
-----------------------------------------------------------------------------
Fields(c) == DOMAIN c \ {"kind"}
(* Fields whose text does not say everything the configuration does.        *)
Lossy == {"sources", "mirror", "ackWait"}

(* Fields that have no text for "unlimited": it becomes zero, which is the   *)
(* server's default.                                                        *)
Forgetful == {"maxAckPending", "consumerMaxAckPending"}

SavesAsWas(c, f) == Applied(c.base, c.body)[f] = c.base[f]

(* What an edit did not touch is saved as the dialog found it: limits and    *)
(* durations through their texts and units, filters whether one or many, and *)
(* the entries the server keeps in the metadata, which no form shows. The    *)
(* exceptions are the fields of Lossy, of which the name of a source and     *)
(* whole seconds of a wait are kept all the same, and an unlimited number of *)
(* unacknowledged messages, which is lost.                                   *)
KeepsItsNames(c, f) == f = "sources" => LET new == Applied(c.base, c.body).sources
                                        IN  /\ Len(new) = Len(c.base.sources)
                                            /\ \A i \in DOMAIN new : new[i].name = c.base.sources[i].name

KeepsItsSeconds(c, f) ==
    f = "ackWait" => LET off == Applied(c.base, c.body).ackWait - c.base.ackWait
                     IN  2 * off <= Second /\ 2 * off > -Second

EditKeepsTheRest ==
    \A c \in calls : \A f \in Fields(c.base) \ c.touched :
        /\ f \notin Lossy => SavesAsWas(c, f) \/ (f \in Forgetful /\ c.base[f] = Unlimited)
        /\ KeepsItsNames(c, f) /\ KeepsItsSeconds(c, f)

(* That, for every field: what the dialog's comment promises.               *)
UntouchedStays == \A c \in calls : \A f \in Fields(c.base) \ c.touched : SavesAsWas(c, f)
=============================================================================
