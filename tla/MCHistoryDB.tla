----------------------------- MODULE MCHistoryDB -----------------------------
(* What may be asked for: the database on, on without the index, off and    *)
(* purged; or off with the file kept, so that it is opened again.           *)
EXTENDS HistoryDB
On == [enabled |-> TRUE, fullText |-> TRUE, purge |-> FALSE]
NoIndex == [On EXCEPT !.fullText = FALSE]
Off == [enabled |-> FALSE, fullText |-> TRUE, purge |-> FALSE]
MCSettings == {On, NoIndex, [Off EXCEPT !.purge = TRUE]}
MCReopened == {On, NoIndex, Off}
\* Everything but the history of what was cleared, which no step reads.
AllButCleared == <<file, stored, tee, writer, fullText, queue, batch, queueBytes,
                   worker, from, change, written, dropped, skipped>>
=============================================================================
