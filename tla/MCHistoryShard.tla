--------------------------- MODULE MCHistoryShard ---------------------------
(* Two connections with two subjects each on one shard. The budget holds    *)
(* two to four messages, one size is over the budget on its own, and the    *)
(* FIFO is compacted as soon as its head moves.                             *)
EXTENDS HistoryShard, TLC

Perms == Permutations(Conns) \cup Permutations(Subjects)
=============================================================================
