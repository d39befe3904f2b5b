---------------------------- MODULE BrowserSettings ----------------------------
(* Where the state of the interface is kept (lib/storage.ts): every tab     *)
(* writes into the browser's storage at once and, with file storage, to the *)
(* backend a little later. The stores on top read it when a tab starts:     *)
(* bookmarks, decoders and saved requests are lists, changed one item at a  *)
(* time, the others are single choices; all are sets of items here.         *)
EXTENDS Integers, Sequences, SequencesExt

CONSTANTS Tabs,
          Lists, Switches,  \* the keys
          Reread,           \* keys main.tsx reads again after a login
          Items,
          MaxOps, MaxFails, MaxLoads \* bounds: writes, refused ones, loads of a page

VARIABLES local,    \* the browser's storage
          backend,  \* the settings file
          mem,      \* what the stores of a tab hold
          tab,      \* per tab: [up, remote, timer, pending, flights, entries]
          loggedIn,
          seen,     \* ghost: the value last wanted of every key, the stores that
                    \* refused it, and what may come between the two copies
          spent

vars == <<local, backend, mem, tab, loggedIn, seen, spent>>

Keys == Lists \cup Switches
Absent == {"absent"}
Entries == {<<k, backend[k]>> : k \in {j \in Keys : backend[j] # Absent}}
Read(store, k) == IF store[k] = Absent THEN {} ELSE store[k]

Idle(t) == tab[t].pending = <<>> /\ tab[t].flights = <<>>
UnderWay(t) == {tab[t].pending[i][1] : i \in DOMAIN tab[t].pending}
                 \cup UNION {{f.rest[i][1] : i \in DOMAIN f.rest} : f \in ToSet(tab[t].flights)}

Closed == [up |-> "closed", remote |-> FALSE, timer |-> FALSE, pending |-> <<>>, flights |-> <<>>, entries |-> {}]

Init ==
    /\ local \in [Keys -> {Absent, {}}] /\ backend \in [Keys -> {Absent, Items}]
    /\ mem = [t \in Tabs |-> [k \in Keys |-> {}]]
    /\ tab = [t \in Tabs |-> Closed]
    /\ loggedIn \in BOOLEAN
    /\ seen = [crossed |-> FALSE, lost |-> FALSE, keys |-> {}, wanted |-> local, refused |-> {}]
    /\ spent = [ops |-> 0, fails |-> 0, loads |-> 0]

Bounds == [ops |-> MaxOps, fails |-> MaxFails, loads |-> MaxLoads]
Spend(cost) ==
    /\ \A what \in DOMAIN cost : spent[what] + cost[what] <= Bounds[what]
    /\ spent' = [what \in DOMAIN cost |-> spent[what] + cost[what]]

Stored == {"browser", "file"}

-----------------------------------------------------------------------------
(* persist: the last value of a key waits for the timer in its first place. *)

(* Mutant: what waits already is not replaced. *)
QueuedOnce(p, k, v) == IF \E i \in DOMAIN p : p[i][1] = k THEN p ELSE Append(p, <<k, v>>)

Queued(p, k, v) ==
    IF \E i \in DOMAIN p : p[i][1] = k THEN [i \in DOMAIN p |-> IF p[i][1] = k THEN <<k, v>> ELSE p[i]]
    ELSE Append(p, <<k, v>>)

(* The browser refuses a write (its quota, a private window), which nobody  *)
(* is told; the backend is sent the value all the same.                     *)
Persist(t, k, v, refused) ==
    /\ local' = IF refused THEN local ELSE [local EXCEPT ![k] = v]
    /\ tab' = IF ~tab[t].remote THEN tab
              ELSE [tab EXCEPT ![t].pending = Queued(@, k, v), ![t].timer = TRUE]
    /\ seen' = [seen EXCEPT !.crossed = @ \/ \E u \in Tabs \ {t} : k \in UnderWay(u),
                            !.keys = IF tab[t].remote THEN @ \cup {k} ELSE @ \ {k},
                            !.wanted[k] = v,
                            !.refused = (@ \ (Stored \X {k})) \cup IF refused THEN {<<"browser", k>>} ELSE {}]

Stores(t, k, v) ==
    /\ tab[t].up = "rendered"
    /\ \E refused \in BOOLEAN : Spend([ops |-> 1, fails |-> IF refused THEN 1 ELSE 0, loads |-> 0]) /\ Persist(t, k, v, refused)
    /\ mem' = [mem EXCEPT ![t][k] = v]
    /\ UNCHANGED <<backend, loggedIn>>

(* A bookmark, a decoder or a request is added or removed.                  *)
Toggle(t) ==
    \E k \in Lists, i \in Items : Stores(t, k, IF i \in mem[t][k] THEN mem[t][k] \ {i} ELSE mem[t][k] \cup {i})

ImportMany(t) == \E k \in Lists, more \in SUBSET Items : more # {} /\ Stores(t, k, mem[t][k] \cup more)

Choose(t) == \E k \in Switches : \E v \in SUBSET Items \ {mem[t][k]} : Stores(t, k, v)

-----------------------------------------------------------------------------
(* flush: the batch is taken, then put one key after the other.             *)

Taken(t) == [tab EXCEPT ![t].timer = FALSE, ![t].pending = <<>>,
                        ![t].flights = Append(@, [rest |-> tab[t].pending, at |-> "sent"])]

Flush(t) ==
    /\ tab[t].timer
    /\ tab' = Taken(t)
    /\ seen' = [seen EXCEPT !.crossed = @ \/ tab[t].flights # <<>>]
    /\ UNCHANGED <<local, backend, mem, loggedIn, spent>>

PutServed(t) ==
    /\ \E j \in DOMAIN tab[t].flights :
         LET f == tab[t].flights[j]
         IN  /\ f.at = "sent" /\ tab' = [tab EXCEPT ![t].flights[j].at = "served"]
             /\ \/ /\ loggedIn /\ backend' = [backend EXCEPT ![Head(f.rest)[1]] = Head(f.rest)[2]]
                   /\ seen' = [seen EXCEPT !.refused = @ \ {<<"file", Head(f.rest)[1]>>}]
                   /\ UNCHANGED spent
                \/ /\ Spend([ops |-> 0, fails |-> 1, loads |-> 0])
                   /\ seen' = [seen EXCEPT !.refused = @ \cup {<<"file", Head(f.rest)[1]>>}]
                   /\ UNCHANGED backend
    /\ UNCHANGED <<local, mem, loggedIn>>

(* A refusal is told, and the next one goes out all the same.               *)
PutAnswered(t) ==
    /\ \E j \in DOMAIN tab[t].flights :
         LET f == tab[t].flights[j]
         IN  /\ f.at = "served"
             /\ tab' = [tab EXCEPT ![t].flights = IF Len(f.rest) = 1 THEN RemoveAt(@, j)
                                                  ELSE [@ EXCEPT ![j] = [rest |-> Tail(f.rest), at |-> "sent"]]]
    /\ UNCHANGED <<local, backend, mem, loggedIn, seen, spent>>

-----------------------------------------------------------------------------
(* bootstrapStorage, before the page renders and once more after a login.   *)

Load(t) ==
    /\ tab[t].up = "closed" /\ Spend([ops |-> 0, fails |-> 0, loads |-> 1])
    /\ tab' = [tab EXCEPT ![t].up = "asking"]
    /\ UNCHANGED <<local, backend, mem, loggedIn, seen>>

Denied(t) ==
    /\ tab[t].up = "asking" /\ ~loggedIn
    /\ tab' = [tab EXCEPT ![t].up = "rendered"]
    /\ mem' = [mem EXCEPT ![t] = [k \in Keys |-> Read(local, k)]]
    /\ UNCHANGED <<local, backend, loggedIn, seen, spent>>

(* The backend reads its entries, for the first time or after the login.    *)
Asked(t) ==
    /\ loggedIn /\ tab[t].up \in {"asking", "rendered"} /\ ~tab[t].remote
    /\ tab' = [tab EXCEPT ![t].up = IF @ = "asking" THEN "answered" ELSE "again", ![t].entries = Entries]
    /\ UNCHANGED <<local, backend, mem, loggedIn, seen, spent>>

Login(t) ==
    /\ ~loggedIn /\ tab[t].up = "rendered" /\ loggedIn' = TRUE
    /\ UNCHANGED <<local, backend, mem, tab, seen, spent>>

Seeded(entries) == [k \in Keys |-> IF \E e \in entries : e[1] = k THEN (CHOOSE e \in entries : e[1] = k)[2] ELSE local[k]]
Collected == {<<k, local[k]>> : k \in {j \in Keys : local[j] # Absent}}

(* Without any entry the backend gets what this browser has.                *)
Given(t) == {e[1] : e \in tab[t].entries}
Kept(t) == IF tab[t].entries = {} THEN Collected ELSE {}
At(t) == [tab[t] EXCEPT !.up = "rendered", !.remote = TRUE, !.entries = {},
                        !.pending = SetToSeq(Kept(t)), !.timer = Kept(t) # {}]
Carried(t, wanted, refused) ==
    seen' = [seen EXCEPT !.crossed = @ \/ tab[t].entries # Entries \/ \E u \in Tabs : UnderWay(u) # {},
                         !.wanted = [k \in Keys |-> IF k \in Given(t) \cup {e[1] : e \in Kept(t)} THEN wanted[k] ELSE @[k]],
                         !.refused = (@ \ (Stored \X (Given(t) \cup {e[1] : e \in Kept(t)}))) \cup refused]

Hydrated(t) ==
    /\ tab[t].up \in {"answered", "again"}
    /\ tab' = [tab EXCEPT ![t] = At(t)]
    /\ local' = Seeded(tab[t].entries)
    /\ Carried(t, local', {})
    /\ mem' = [mem EXCEPT ![t] = [k \in Keys |-> IF k \in Reread \/ tab[t].up = "answered" THEN Read(local', k) ELSE @[k]]]
    /\ UNCHANGED <<backend, loggedIn, spent>>

(* seedLocal stops at the first entry the browser refuses: the page starts  *)
(* with what was seeded; after a login its stores are not read again.       *)
SeedStops(t) ==
    /\ tab[t].up \in {"answered", "again"} /\ Spend([ops |-> 0, fails |-> 1, loads |-> 0])
    /\ \E part \in SUBSET tab[t].entries :
          /\ part # tab[t].entries /\ local' = Seeded(part)
          /\ Carried(t, Seeded(tab[t].entries), {"browser"} \X {e[1] : e \in tab[t].entries \ part})
    /\ tab' = [tab EXCEPT ![t] = At(t)]
    /\ mem' = IF tab[t].up = "answered" THEN [mem EXCEPT ![t] = [k \in Keys |-> Read(local', k)]] ELSE mem
    /\ UNCHANGED <<backend, loggedIn>>

(* The page is closed or loaded anew: what waits for the timer is gone.     *)
Leave(t) ==
    /\ tab[t].up = "rendered"
    /\ tab' = [tab EXCEPT ![t] = Closed]
    /\ seen' = [seen EXCEPT !.lost = @ \/ ~Idle(t)]
    /\ UNCHANGED <<local, backend, mem, loggedIn, spent>>

Next == \E t \in Tabs : \/ Toggle(t) \/ ImportMany(t) \/ Choose(t) \/ Flush(t) \/ PutServed(t) \/ PutAnswered(t)
                        \/ Load(t) \/ Denied(t) \/ Asked(t) \/ Login(t) \/ Hydrated(t) \/ SeedStops(t) \/ Leave(t)

Spec == Init /\ [][Next]_vars
-----------------------------------------------------------------------------
(* Every write goes to both (lib/storage.ts), and what one of the two       *)
(* refuses the other has all the same: with nothing under way each store    *)
(* holds the last value of a key unless it refused that very value, the     *)
(* browser without a word, the backend with a message. Left out are values  *)
(* that cross others of the same key or that a page leaves behind.          *)
EachHasItsWrites ==
    \A k \in seen.keys :
        /\ local[k] = seen.wanted[k] \/ <<"browser", k>> \in seen.refused
        /\ backend[k] = seen.wanted[k] \/ <<"file", k>> \in seen.refused

Quiet == \A t \in Tabs : Idle(t) /\ tab[t].up \notin {"answered", "again"}

WrittenToBoth == (~seen.crossed /\ ~seen.lost /\ Quiet) => EachHasItsWrites

(* The same without the first of those exceptions.                          *)
EveryWriteGoesToBoth == (~seen.lost /\ Quiet) => EachHasItsWrites

(* After a login the stores show what the backend keeps.                    *)
StoresAreReread ==
    \A t \in Tabs : (tab[t].remote /\ ~seen.crossed /\ spent.ops = 0) => \A k \in Keys : mem[t][k] = Read(local, k)

=============================================================================
