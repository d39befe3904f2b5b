----------------------------- MODULE LivePolicy -----------------------------
(* When the subscriptions' own connection is tried again, and when it is    *)
(* given up (connection/live.go, drop.go, the handlers of log.go). nats.go  *)
(* is external: it calls its handlers one after another from a queue, and   *)
(* asks for the next server from its reconnect loop, which does not wait    *)
(* for that queue; what the server says of a drop is asked on a goroutine   *)
(* of its own after the reconnect. Time is what it is compared with: an     *)
(* uptime is short or longer than flapWindow, a pause has doublings.        *)
EXTENDS Naturals, Sequences

CONSTANTS Servers,    \* how many there are
          MaxDrops,   \* bound on the drops
          MaxCloses,  \* bound on the connections released
          MaxTries,   \* bound on the attempts
          MaxOutages  \* bound on the losses of the API's connection

VARIABLES nc,       \* "up", "away", "trying" or "closed", and whether it ever was up
          queue,    \* the handlers nats.go still has to call
          policy,   \* the fields of link that policyMu guards
          apiUp,    \* Managed.apiUp
          pending,  \* pendingDrop: why the server closed the connection
          asking,   \* goroutines after a reconnect: about to take the drop,
                    \* and those that will hear it was not the load
          spent,    \* the bounded counters
          truth     \* what happened, however it was counted

vars == <<nc, queue, policy, apiUp, pending, asking, spent, truth>>

Reasons == {"load", "other", "untold"}

(* announce has remembered the first connection. *)
Init ==
    /\ nc = [at |-> "up", met |-> TRUE] /\ queue = <<>> /\ apiUp = TRUE /\ pending = "none"
    /\ policy = [short |-> TRUE, dropNoted |-> FALSE, lameDuck |-> FALSE, flaps |-> 0, pause |-> 0,
                 tries |-> 0, lastTryAPIUp |-> FALSE, failedWhileAPIUp |-> 0, moving |-> FALSE]
    /\ asking = [take |-> 0, other |-> 0]
    /\ spent = [drops |-> 0, closes |-> 0, tries |-> 0, outages |-> 0]
    /\ truth = [noted |-> 0, heard |-> 0, quick |-> 0, load |-> 0, phantom |-> 0,
                failed |-> 0, unseen |-> 0]

Goes(at) == nc' = [nc EXCEPT !.at = at]
Spend(what) == spent' = [spent EXCEPT ![what] = @ + 1]

(* livePause, in doublings of reconnectWait. *)
LivePause(flaps) == IF flaps <= 1 THEN 0 ELSE flaps - 1

Counted(p) ==
    LET f == IF p.lameDuck \/ ~p.short THEN 0 ELSE p.flaps + 1
    IN  [p EXCEPT !.dropNoted = TRUE, !.lameDuck = FALSE, !.flaps = f, !.pause = LivePause(f)]

(* noteDropLocked: once per drop. *)
Noted(p) == IF p.dropNoted THEN p ELSE Counted(p)

(* Whether noting a drop counts one, and what the count should be then.     *)
Noting(t) == LET n == [t EXCEPT !.noted = IF Noted(policy) = policy THEN @ ELSE @ + 1]
             IN  IF policy.dropNoted \/ Noted(policy).flaps > 0 THEN n ELSE [n EXCEPT !.load = 0]

(* remember: the connection is up, from now. *)
Remembered(p) == [p EXCEPT !.short = TRUE, !.dropNoted = FALSE, !.tries = 0, !.failedWhileAPIUp = 0]

-----------------------------------------------------------------------------
(* The server and the network. *)

Drops ==
    /\ nc.at = "up" /\ spent.drops < MaxDrops /\ Spend("drops")
    /\ Goes("away")
    /\ \E why \in Reasons :
          /\ queue' = Append(queue, [call |-> "disconnected", why |-> why])
          /\ truth' = [truth EXCEPT !.quick = @ + 1, !.load = IF why = "other" THEN @ ELSE @ + 1]
    /\ UNCHANGED <<policy, apiUp, pending, asking>>

(* The server says it shuts down; the drop follows later. *)
LameDuck ==
    /\ nc.at = "up" /\ spent.drops < MaxDrops /\ Spend("drops")
    /\ queue' = Append(queue, [call |-> "lameduck"])
    /\ UNCHANGED <<nc, policy, apiUp, pending, asking, truth>>

ApiChanges ==
    /\ apiUp => spent.outages < MaxOutages
    /\ IF apiUp THEN Spend("outages") ELSE UNCHANGED spent
    /\ apiUp' = ~apiUp
    /\ UNCHANGED <<nc, queue, policy, pending, asking, truth>>

(* More than flapWindow, which no handler and no question outlasts.         *)
TimePasses ==
    /\ queue = <<>> /\ asking = [take |-> 0, other |-> 0]
    /\ policy' = [policy EXCEPT !.short = FALSE, !.pause = 0]
    /\ truth' = IF nc.at = "up" THEN [truth EXCEPT !.quick = 0] ELSE truth
    /\ UNCHANGED <<nc, queue, apiUp, pending, asking, spent>>

PauseEnds ==
    /\ policy.pause > 0
    /\ policy' = [policy EXCEPT !.pause = 0]
    /\ UNCHANGED <<nc, queue, apiUp, pending, asking, spent, truth>>

-----------------------------------------------------------------------------
(* The reconnect loop. *)

(* Failures in a row, while the API's connection stood at both ends.        *)
Failures(p) == CASE p.tries > 0 /\ p.lastTryAPIUp /\ apiUp -> p.failedWhileAPIUp + 1
                 [] ~apiUp -> 0
                 [] OTHER -> p.failedWhileAPIUp

(* nextLiveServer. *)
NextLiveServer ==
    /\ nc.at = "away" /\ spent.tries < MaxTries /\ Spend("tries")
    /\ Goes("trying")
    /\ LET p == Noted(policy) IN
          policy' = [p EXCEPT !.failedWhileAPIUp = Failures(p), !.tries = @ + 1, !.lastTryAPIUp = apiUp,
                              !.moving = @ \/ Failures(p) >= Servers + 2]
    /\ truth' = Noting(truth)
    /\ UNCHANGED <<queue, apiUp, pending, asking>>

TryFails ==
    /\ nc.at = "trying" /\ Goes("away")
    /\ truth' = [truth EXCEPT !.failed = IF policy.lastTryAPIUp THEN @ + 1 ELSE @]
    /\ UNCHANGED <<queue, policy, apiUp, pending, asking, spent>>

(* The first time a connection comes up, another handler is called.         *)
TrySucceeds ==
    /\ nc.at = "trying" /\ nc' = [at |-> "up", met |-> TRUE]
    /\ queue' = Append(queue, [call |-> IF nc.met THEN "reconnected" ELSE "connected"])
    /\ truth' = [truth EXCEPT !.unseen = @ + 1]
    /\ UNCHANGED <<policy, apiUp, pending, asking, spent>>

-----------------------------------------------------------------------------
(* The handlers. *)

Disconnected(h) ==
    /\ policy' = Noted(policy)
    /\ pending' = h.why
    /\ truth' = [Noting(truth) EXCEPT !.heard = @ + 1]
    /\ UNCHANGED asking

Up(h) ==
    /\ policy' = Remembered(policy)
    /\ asking' = IF h.call = "reconnected" THEN [asking EXCEPT !.take = @ + 1] ELSE asking
    /\ truth' = [truth EXCEPT !.unseen = @ - 1, !.failed = 0]
    /\ UNCHANGED pending

Handle ==
    /\ queue # <<>> /\ queue' = Tail(queue)
    /\ LET h == Head(queue) IN
         \/ h.call = "disconnected" /\ Disconnected(h)
         \/ h.call \in {"connected", "reconnected"} /\ Up(h)
         \/ /\ h.call = "lameduck" /\ policy' = [policy EXCEPT !.lameDuck = TRUE]
            /\ UNCHANGED <<pending, asking, truth>>
    /\ UNCHANGED <<nc, apiUp, spent>>

(* explainDrop takes the drop there is to ask about ... *)
TakeDrop ==
    /\ asking.take > 0
    /\ asking' = [take |-> asking.take - 1, other |-> asking.other + IF pending = "other" THEN 1 ELSE 0]
    /\ pending' = "none"
    /\ UNCHANGED <<nc, queue, policy, apiUp, spent, truth>>

(* ... and takes its flap back once it hears it was not the load: notFlap.  *)
NotFlap ==
    /\ asking.other > 0
    /\ asking' = [asking EXCEPT !.other = @ - 1]
    /\ policy' = [policy EXCEPT !.flaps = IF @ > 0 THEN @ - 1 ELSE 0]
    /\ UNCHANGED <<nc, queue, apiUp, pending, spent, truth>>

-----------------------------------------------------------------------------
(* Closing and opening. *)

(* closeLive of ReleaseLive and of moveLive. *)
Close ==
    /\ nc.at # "closed"
    /\ \/ policy.moving /\ UNCHANGED spent
       \/ spent.closes < MaxCloses /\ Spend("closes")
    /\ Goes("closed")
    /\ UNCHANGED <<queue, policy, apiUp, pending, asking, truth>>

(* openLive, once the handlers of the connection before are done; the       *)
(* server is there, or it is waited for. A connection the server would not  *)
(* take back is not opened again.                                           *)
OpenLive ==
    /\ nc.at = "closed" /\ ~policy.moving /\ queue = <<>>
    /\ LET p == [policy EXCEPT !.flaps = 0, !.pause = 0, !.tries = 0, !.failedWhileAPIUp = 0]
           t == [truth EXCEPT !.quick = 0, !.load = 0, !.failed = 0]
       IN  \/ nc' = [at |-> "up", met |-> TRUE] /\ policy' = Remembered(p) /\ truth' = t
           \/ nc' = [at |-> "away", met |-> FALSE] /\ policy' = p /\ truth' = [t EXCEPT !.phantom = @ + 1]
    /\ UNCHANGED <<queue, apiUp, pending, asking, spent>>

Next == \/ Drops \/ LameDuck \/ ApiChanges \/ TimePasses \/ PauseEnds
        \/ NextLiveServer \/ TryFails \/ TrySucceeds
        \/ Handle \/ TakeDrop \/ NotFlap
        \/ Close \/ OpenLive

Spec == Init /\ [][Next]_vars
-----------------------------------------------------------------------------
(* However handlers and reconnects overlap, each drop is counted, and once. *)
(* A connection opened while the server is away counts as well (noteDrop).  *)
EachDropOnce == truth.heard <= truth.noted /\ truth.noted <= spent.drops + truth.phantom

(* An attempt waits for more than its turn only after a second drop soon    *)
(* after connecting, or after such an opening (livePause).                  *)
FirstIsFollowed == policy.pause > 0 => truth.quick + truth.phantom > 1

(* What counts towards giving the connection up are attempts that failed    *)
(* while the API's connection stood, and at most the reconnects whose       *)
(* handler has not been called, which pass for failures (nextLiveServer).   *)
GivenUpAfterFailures == policy.failedWhileAPIUp <= truth.failed + truth.unseen

(* Refuted: "The first drop never waits" (live.go).                         *)
FirstNeverWaits == policy.pause > 0 => truth.quick > 1

(* Refuted: "only a slow consumer, or a drop nobody explained, keeps        *)
(* counting" (live.go): one that does count is taken back.                  *)
LoadKeepsCounting ==
    nc.at = "up" /\ queue = <<>> /\ asking = [take |-> 0, other |-> 0] => policy.flaps >= truth.load
=============================================================================
