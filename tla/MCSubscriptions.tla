-------------------------- MODULE MCSubscriptions --------------------------
(* Two goroutines that serve requests, and the move, on one connection.     *)
EXTENDS Subscriptions, TLC

Perms == Permutations(Requests)

(* What decides nothing any more: what was asked, once requests have        *)
(* overlapped, and which connections are up, once these have ended as well. *)
Seen == IF overlaps > 0 /\ Quiet THEN <<feed, live, {l \in Links : Open(l)}>>
        ELSE <<conn, feed, th, runs, overlaps, overlaps = 0 /\ missed, IF overlaps = 0 THEN asked ELSE {}>>
=============================================================================
