---------------------------- MODULE ManagerQueue ----------------------------
(* The way of a message through a shard of a subscription manager           *)
(* (subscription/manager.go): from the goroutine nats.go calls, over what   *)
(* is pending and the channel of batches, to the worker that counts and     *)
(* records it, while the manager is stopped and started again. A manager    *)
(* has several shards that share nothing here. The tree is TreeFeed, what   *)
(* the history keeps HistoryShard.                                          *)
EXTENDS Naturals, Sequences, FiniteSets, SequencesExt

CONSTANTS Feeders,      \* the patterns; nats.go has a goroutine for each subscription
          BatchSize, QueueSize,
          MaxMessages,  \* bound on the messages
          MaxRuns       \* bound on the starts

Runs == 1..MaxRuns
(* A goroutine that sends, with the run it is of. *)
Flusher(r) == <<"flusher", r>>
Subscriptions == Feeders \X Runs
Senders == Subscriptions \cup {Flusher(r) : r \in Runs}
RunOf(s) == s[2]

VARIABLES run,       \* the last start; its stopCh, worker, flusher and subscriptions
          phase,     \* of the manager: "running", "stopping", "stopped"
          held,      \* the message a subscription's goroutine was called with
          pend,      \* shard.pend
          hand,      \* the batch a sender took from it
          in,        \* shard.in
          worker,    \* the batch the worker of each run holds
          over,      \* the runs whose worker has ended
          counted,   \* the messages the shard has counted
          recorded,  \* appended to the history, in order, since its Drop
          lost,      \* those a sender gave up
          delivered  \* every message

vars == <<run, phase, held, pend, hand, in, worker, over, counted, recorded, lost, delivered>>

(* A message by its number, its pattern, the run it came in, and who took   *)
(* it along. The messages of one subject are of one pattern.                *)
Message(no, s) == [no |-> no, of |-> s[1], run |-> s[2], via |-> s]
NoMessage == [no |-> 0]
Along(batch, s) == [i \in DOMAIN batch |-> [batch[i] EXCEPT !.via = s]]

Init ==
    /\ run = 1 /\ phase = "running"
    /\ held = [s \in Subscriptions |-> NoMessage]
    /\ pend = <<>> /\ hand = [s \in Senders |-> <<>>] /\ in = <<>>
    /\ worker = [r \in Runs |-> <<>>] /\ over = {}
    /\ counted = {} /\ recorded = <<>> /\ lost = {} /\ delivered = {}

(* Whether the stopCh of a run is closed. *)
Stopped(r) == r < run \/ phase # "running"

-----------------------------------------------------------------------------
(* nats.go delivers on a subscription that has not been ended. *)
Deliver(s) ==
    /\ phase = "running" /\ RunOf(s) = run
    /\ held[s] = NoMessage /\ Cardinality(delivered) < MaxMessages
    /\ LET m == Message(Cardinality(delivered) + 1, s) IN
         held' = [held EXCEPT ![s] = m] /\ delivered' = delivered \cup {m}
    /\ UNCHANGED <<run, phase, pend, hand, in, worker, over, counted, recorded, lost>>

(* receive and enqueue: a full batch is taken along. *)
Receive(s) ==
    /\ held[s] # NoMessage /\ hand[s] = <<>>
    /\ LET p == Append(pend, held[s]) IN
         IF Len(p) < BatchSize
         THEN pend' = p /\ UNCHANGED hand /\ held' = [held EXCEPT ![s] = NoMessage]
         ELSE pend' = <<>> /\ hand' = [hand EXCEPT ![s] = Along(p, s)] /\ UNCHANGED held
    /\ UNCHANGED <<run, phase, in, worker, over, counted, recorded, lost, delivered>>

(* flush takes what is pending; the flusher of a stopped run may do so once *)
(* more, since its loop may see the tick before the stop.                   *)
Flush(r) ==
    /\ r <= run /\ pend # <<>> /\ hand[Flusher(r)] = <<>>
    /\ pend' = <<>> /\ hand' = [hand EXCEPT ![Flusher(r)] = Along(pend, Flusher(r))]
    /\ UNCHANGED <<run, phase, held, in, worker, over, counted, recorded, lost, delivered>>

Sent(s) == /\ hand' = [hand EXCEPT ![s] = <<>>]
           /\ held' = IF s \in Subscriptions THEN [held EXCEPT ![s] = NoMessage] ELSE held

(* send: it blocks while the channel is full ... *)
Send(s) ==
    /\ hand[s] # <<>> /\ Len(in) < QueueSize
    /\ in' = Append(in, hand[s]) /\ Sent(s)
    /\ UNCHANGED <<run, phase, pend, worker, over, counted, recorded, lost, delivered>>

(* ... until the manager the sender was started by stops. *)
GiveUp(s) ==
    /\ hand[s] # <<>> /\ Stopped(RunOf(s))
    /\ lost' = lost \cup ToSet(hand[s]) /\ Sent(s)
    /\ UNCHANGED <<run, phase, pend, in, worker, over, counted, recorded, delivered>>

(* work: a closed stopCh and a batch may both be there, and either is taken. *)
Take(r) ==
    /\ r <= run /\ r \notin over /\ worker[r] = <<>> /\ in # <<>>
    /\ worker' = [worker EXCEPT ![r] = Head(in)] /\ in' = Tail(in)
    /\ UNCHANGED <<run, phase, held, pend, hand, over, counted, recorded, lost, delivered>>

(* process. *)
Process(r) ==
    /\ worker[r] # <<>>
    /\ counted' = counted \cup {Head(worker[r])}
    /\ recorded' = Append(recorded, Head(worker[r]))
    /\ worker' = [worker EXCEPT ![r] = Tail(@)]
    /\ UNCHANGED <<run, phase, held, pend, hand, in, over, lost, delivered>>

WorkerEnds(r) ==
    /\ r <= run /\ r \notin over /\ worker[r] = <<>> /\ Stopped(r)
    /\ over' = over \cup {r}
    /\ UNCHANGED <<run, phase, held, pend, hand, in, worker, counted, recorded, lost, delivered>>

-----------------------------------------------------------------------------
(* Stop: the subscriptions end and stopCh is closed. *)
Stop ==
    /\ phase = "running" /\ phase' = "stopping"
    /\ UNCHANGED <<run, held, pend, hand, in, worker, over, counted, recorded, lost, delivered>>

(* Mutant: nobody waits for the worker. *)
DropAtOnce ==
    /\ phase = "stopping" /\ phase' = "stopped"
    /\ recorded' = <<>>
    /\ UNCHANGED <<run, held, pend, hand, in, worker, over, counted, lost, delivered>>

(* The workers are waited for, then the history of the connection goes.     *)
DropHistory ==
    /\ phase = "stopping" /\ run \in over /\ phase' = "stopped"
    /\ recorded' = <<>>
    /\ UNCHANGED <<run, held, pend, hand, in, worker, over, counted, lost, delivered>>

(* Start empties the shard, but not its channel. *)
Start ==
    /\ phase = "stopped" /\ run < MaxRuns
    /\ run' = run + 1 /\ phase' = "running"
    /\ pend' = <<>> /\ counted' = {}
    /\ UNCHANGED <<held, hand, in, worker, over, recorded, lost, delivered>>

Next == \/ \E s \in Subscriptions : Deliver(s) \/ Receive(s)
        \/ \E s \in Senders : Send(s) \/ GiveUp(s)
        \/ \E r \in Runs : Flush(r) \/ Take(r) \/ Process(r) \/ WorkerEnds(r)
        \/ Stop \/ DropHistory \/ Start

Spec == Init /\ [][Next]_vars
-----------------------------------------------------------------------------
(* Where copies of a message are. *)
Held(batch, m, place) == {<<place, i>> : i \in {i \in DOMAIN batch : batch[i].no = m.no}}
Copies(m) ==
    Held(pend, m, <<"pend">>) \cup Held(recorded, m, <<"recorded">>)
    \cup UNION {Held(hand[s], m, <<"hand", s>>) : s \in Senders} \cup UNION {Held(in[b], m, <<"in", b>>) : b \in DOMAIN in}
    \cup UNION {Held(worker[r], m, <<"worker", r>>) : r \in Runs}
Waits(m) == \E s \in Subscriptions : held[s].no = m.no /\ hand[s] = <<>>

(* What a running manager was given is recorded once, and until then it is  *)
(* in one place: no batch is lost or sent twice between the goroutines,     *)
(* however full the channel is. Only a goroutine that outlived its run      *)
(* takes messages along and gives them up (manager.go enqueue, flush, send). *)
EachMessageOnce ==
    phase = "running" =>
        \A m \in {m \in delivered : m.run = run} :
            Cardinality(Copies(m)) = IF Waits(m) \/ \E l \in lost : l.no = m.no THEN 0 ELSE 1

(* Once Stop is through, nothing of the connection is in the history, and   *)
(* nothing gets there while the manager stays stopped (manager.go Stop).    *)
StoppedLeavesNothing == phase = "stopped" => recorded = <<>>

(* Of what the same goroutine took along, the order of a run stays; a full  *)
(* batch and one the flusher took may pass each other (manager.go enqueue,  *)
(* flush), and a goroutine that outlived its run may come after the next's. *)
OrderedPerSender ==
    \A i, j \in DOMAIN recorded :
        /\ i < j /\ recorded[i].of = recorded[j].of
        /\ recorded[i].run = recorded[j].run /\ recorded[i].via = recorded[j].via
        => recorded[i].no < recorded[j].no

(* Refuted: "The ring is in arrival order" (history.go newestBefore). *)
RecordedInOrder ==
    \A i, j \in DOMAIN recorded :
        i < j /\ recorded[i].of = recorded[j].of => recorded[i].no < recorded[j].no

(* Refuted: a start begins with an empty shard (manager.go Start). *)
RunCountsItsOwn == phase = "running" => \A m \in counted : m.run = run
=============================================================================
