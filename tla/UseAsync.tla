------------------------------ MODULE UseAsync ------------------------------
(* The hook every view loads its data with (lib/useAsync.ts), as operators  *)
(* on the state of one use of it. The loads under way are with its caller:  *)
(* of those only the last one counts.                                       *)
CONSTANT None   \* no data

Fresh(cached) == [data |-> cached, error |-> FALSE, loading |-> FALSE, initial |-> cached = None]

(* The dependencies changed: what the cache holds under the new key, or a   *)
(* first load once more. The data shown so far stay.                        *)
Renders(v, cached) == IF cached = None THEN [v EXCEPT !.initial = TRUE]
                      ELSE [v EXCEPT !.data = cached, !.initial = FALSE]

(* Mutant: with nothing to load the flag stays. *)
SkipsHalf(v) == [Fresh(None) EXCEPT !.loading = v.loading]

(* run: a loader that has nothing to load, one that asks, and the two ways  *)
(* in which that ends.                                                      *)
Skips(v) == Fresh(None)
Asks(v) == [v EXCEPT !.loading = TRUE]
Succeeds(d) == [data |-> d, error |-> FALSE, loading |-> FALSE, initial |-> FALSE]
Ends(v) == [v EXCEPT !.error = TRUE, !.loading = FALSE, !.initial = FALSE]

(* setData: the data change, what is under way is not told. *)
Sets(v, d) == [v EXCEPT !.data = d]

(* The ways a page shows a use of it: a first load, an error before all     *)
(* data, or an error only while there are none.                             *)
Body(v) == IF v.initial /\ v.loading THEN "loading"
           ELSE IF v.error THEN "error" ELSE "data"
BodyKeepingData(v) == IF v.initial /\ v.loading THEN "loading"
                      ELSE IF v.error /\ v.data = None THEN "error"
                      ELSE IF v.data = None THEN "nothing" ELSE "data"
=============================================================================
