------------------------ MODULE Subscriptions_proofs ------------------------
(* Proofs about the subscriptions of one connection, for any number of      *)
(* goroutines, patterns and connects, and however they overlap.             *)
EXTENDS Subscriptions, FiniteSums, TLAPS

(* What a goroutine that has just dialled holds is a dial of the connection *)
(* it dialled for: openLive stores it in LiveNC of that one. No other step  *)
(* ends in "dialled" or "close" by way of .then.                            *)
Fields == {"pc", "then", "run", "m", "g", "link", "patterns", "again"}

Shape == /\ DOMAIN net = Links /\ DOMAIN live = Managed /\ DOMAIN th = Threads
         /\ \A t \in Threads : DOMAIN th[t] = Fields

HoldsItsOwn == \A t \in Threads :
                  /\ th[t].then \notin {"dialled", "close"}
                  /\ th[t].pc = "dialled" => th[t].link = <<th[t].m, th[t].link[2]>>

DialInv == Shape /\ HoldsItsOwn /\ OneLiveConnection

LEMMA IdleShape == DOMAIN Idle = Fields /\ Idle.then = "idle" /\ Idle.pc = "idle"
  BY DEF Idle, Fields

LEMMA InitDial == Init => DialInv
  <1> SUFFICES ASSUME Init PROVE DialInv
    OBVIOUS
  <1>1. Shape
    BY IdleShape DEF Init, Shape
  <1>2. HoldsItsOwn
    BY IdleShape DEF Init, HoldsItsOwn
  <1>3. OneLiveConnection
    BY DEF Init, OneLiveConnection, Open, Links
  <1> QED BY <1>1, <1>2, <1>3 DEF DialInv
-----------------------------------------------------------------------------
(* A record a goroutine may hold, given what it held. *)
Handing == {"dialled", "close"}

Fair(r) == /\ DOMAIN r = Fields /\ r.then \notin Handing
           /\ r.pc = "dialled" => r.link = <<r.m, r.link[2]>>

(* A step of one goroutine keeps the invariant if every live connection     *)
(* that is open and not LiveNC afterwards was so before and not in this     *)
(* goroutine's hands, or is in its hands now.                               *)
LEMMA OneMoves ==
  ASSUME DialInv, NEW t \in Threads, NEW r, Goes(t, r), Fair(r),
         DOMAIN net' = Links, DOMAIN live' = Managed,
         \A m \in Managed, k \in Dials :
            net'[<<m, k>>] \in {"up", "away"} /\ live'[m] # k =>
              \/ r.pc \in Handing /\ r.link = <<m, k>>
              \/ /\ Open(<<m, k>>) /\ live[m] # k
                 /\ ~(th[t].pc \in Handing /\ th[t].link = <<m, k>>)
  PROVE  DialInv'
  <1>1. th'[t] = r /\ \A u \in Threads : u # t => th'[u] = th[u]
    BY DEF DialInv, Shape, Goes
  <1>2. Shape'
    BY <1>1 DEF DialInv, Shape, Goes, Fair
  <1>3. HoldsItsOwn'
    BY <1>1 DEF DialInv, HoldsItsOwn, Fair, Handing
  <1>4. ASSUME NEW m \in Managed, NEW k \in Dials, net'[<<m, k>>] \in {"up", "away"}, live'[m] # k
        PROVE  \E u \in Threads : th'[u].pc \in {"dialled", "close"} /\ th'[u].link = <<m, k>>
    <2>1. CASE r.pc \in Handing /\ r.link = <<m, k>>
      BY <1>1, <2>1, ZenonT(30) DEF Handing
    <2>2. CASE /\ Open(<<m, k>>) /\ live[m] # k
               /\ ~(th[t].pc \in Handing /\ th[t].link = <<m, k>>)
      <3>1. PICK u \in Threads : th[u].pc \in Handing /\ th[u].link = <<m, k>>
        BY <2>2 DEF DialInv, OneLiveConnection, Handing
      <3>2. u # t
        BY <2>2, <3>1
      <3> QED BY <1>1, <3>1, <3>2 DEF Handing
    <2> QED BY <1>4, <2>1, <2>2
  <1> QED BY <1>2, <1>3, <1>4, ZenonT(60) DEF DialInv, OneLiveConnection, Open

LEMMA WithIsFair ==
  ASSUME NEW r, DOMAIN r = Fields, r.then \notin Handing, NEW l
  PROVE  Fair(With(r, l)) /\ With(r, l).pc \notin Handing
  BY DEF With, Fair, Fields, Handing

LEMMA WithoutIsFair ==
  ASSUME NEW r, DOMAIN r = Fields, r.then \notin Handing
  PROVE  Fair(Without(r)) /\ Without(r).pc \notin Handing
  BY DEF Without, Fair, Fields, Handing

LEMMA ThreadIsFair ==
  ASSUME DialInv, NEW t \in Threads
  PROVE  DOMAIN th[t] = Fields /\ th[t].then \notin Handing
  BY DEF DialInv, Shape, HoldsItsOwn, Handing

(* Most steps of a goroutine dial, store and close nothing. *)
LEMMA NoDial ==
  ASSUME DialInv, NEW t \in Threads, NEW r, Goes(t, r), Fair(r), th[t].pc \notin Handing,
         UNCHANGED live, DOMAIN net' = Links,
         \A m \in Managed, k \in Dials : net'[<<m, k>>] = net[<<m, k>>]
  PROVE  DialInv'
  <1>1. DOMAIN live' = Managed
    BY DEF DialInv, Shape
  <1> QED BY <1>1, OneMoves DEF Open
-----------------------------------------------------------------------------
(* The requests begin. *)
LEMMA RequestsKeep ==
  ASSUME DialInv, NEW t \in Requests, Request(t)
  PROVE  DialInv'
  <1> t \in Threads
    BY DEF Threads
  <1>1. CASE Connect(t)
    <2>1. PICK ps \in SUBSET Patterns, retry \in BOOLEAN :
             Goes(t, [Idle EXCEPT !.run = runs', !.patterns = ps, !.again = retry, !.then = "replace",
                                  !.pc = IF store = None THEN "replace" ELSE "unmap"])
      BY <1>1 DEF Connect
    <2> DEFINE r == [Idle EXCEPT !.run = runs', !.patterns = ps, !.again = retry, !.then = "replace",
                                 !.pc = IF store = None THEN "replace" ELSE "unmap"]
    <2>2. Fair(r) /\ r.pc \notin Handing
      BY IdleShape DEF Fair, Handing, Fields
    <2>3. th[t].pc \notin Handing /\ UNCHANGED <<net, live>>
      BY <1>1 DEF Connect, Begins, Handing, conn
    <2> HIDE DEF r
    <2>4. DOMAIN net' = Links
      BY <2>3 DEF DialInv, Shape
    <2> QED BY <2>1, <2>2, <2>3, <2>4, NoDial DEF r
  <1>2. CASE Disconnect(t)
    <2> DEFINE r == [Idle EXCEPT !.run = runs', !.pc = "unmap", !.then = "remove"]
    <2>1. Goes(t, r) /\ th[t].pc \notin Handing /\ UNCHANGED <<net, live>>
      BY <1>2 DEF Disconnect, Begins, Handing, conn
    <2>2. Fair(r)
      BY IdleShape DEF Fair, Handing, Fields
    <2> HIDE DEF r
    <2>3. DOMAIN net' = Links
      BY <2>1 DEF DialInv, Shape
    <2> QED BY <2>1, <2>2, <2>3, NoDial
  <1>3. CASE SetSubscriptions(t)
    <2>1. PICK ps \in SUBSET Patterns :
             Goes(t, [Idle EXCEPT !.run = runs', !.pc = "change", !.patterns = ps])
      BY <1>3 DEF SetSubscriptions
    <2> DEFINE r == [Idle EXCEPT !.run = runs', !.pc = "change", !.patterns = ps]
    <2>2. Fair(r)
      BY IdleShape DEF Fair, Handing, Fields
    <2>3. th[t].pc \notin Handing /\ UNCHANGED <<net, live>>
      BY <1>3 DEF SetSubscriptions, Begins, Handing
    <2> HIDE DEF r
    <2>4. DOMAIN net' = Links
      BY <2>3 DEF DialInv, Shape
    <2> QED BY <2>1, <2>2, <2>3, <2>4, NoDial DEF r
  <1> QED BY <1>1, <1>2, <1>3 DEF Request
-----------------------------------------------------------------------------
(* The steps of a goroutine that leave the live connections alone. *)
Plain(t) == /\ th[t].pc \notin Handing /\ UNCHANGED <<net, live>>
            /\ Goes(t, th'[t]) /\ Fair(th'[t])

LEMMA PlainKeeps ==
  ASSUME DialInv, NEW t \in Threads, Plain(t)
  PROVE  DialInv'
  <1>1. PICK r : r = th'[t]
    OBVIOUS
  <1>2. Goes(t, r) /\ Fair(r)
    BY <1>1 DEF Plain
  <1>3. DOMAIN net' = Links
    BY DEF DialInv, Shape, Plain
  <1> QED BY <1>2, <1>3, NoDial DEF Plain

LEMMA FairGoes ==
  ASSUME DialInv, NEW t \in Threads, NEW r, Goes(t, r), Fair(r), th[t].pc \notin Handing, UNCHANGED <<net, live>>
  PROVE  Plain(t)
  BY DEF DialInv, Shape, Goes, Plain

LEMMA RestsFair == Fair(Idle)
  BY IdleShape DEF Fair, Handing

LEMMA StoppingPlain ==
  ASSUME DialInv, NEW t \in Threads, Unmap(t) \/ Stop(t) \/ Remove(t)
  PROVE  Plain(t)
  <1> USE ThreadIsFair, RestsFair
  <1>1. CASE Unmap(t)
    BY <1>1 DEF Unmap, Plain, DialInv, Shape, Goes, Fair, Handing, Fields, conn
  <1>2. CASE Stop(t)
    BY <1>2 DEF Stop, Plain, DialInv, Shape, Goes, Fair, Handing, Fields, conn
  <1>3. CASE Remove(t)
    BY <1>3 DEF Remove, Plain, DialInv, Shape, Goes, Fair, Handing, Fields
  <1> QED BY <1>1, <1>2, <1>3

LEMMA ConnectingPlain ==
  ASSUME DialInv, NEW t \in Threads, DialFails(t) \/ Register(t) \/ Lookup(t) \/ OpenLive(t) \/ ShareApi(t)
  PROVE  Plain(t)
  <1> USE ThreadIsFair, RestsFair
  <1>1. CASE DialFails(t)
    BY <1>1 DEF DialFails, Plain, DialInv, Shape, Goes, Handing, conn
  <1>2. CASE Register(t)
    BY <1>2 DEF Register, Plain, DialInv, Shape, Goes, Fair, Handing, Fields
  <1>3. CASE Lookup(t)
    BY <1>3 DEF Lookup, Plain, DialInv, Shape, Goes, Fair, Handing, Fields, conn
  <1>4. CASE OpenLive(t)
    <2>1. th[t].pc \notin Handing /\ UNCHANGED <<net, live>>
      BY <1>4 DEF OpenLive, Handing
    <2>2. CASE Goes(t, With(th[t], Own(th[t].m)))
      BY <2>1, <2>2, WithIsFair, FairGoes
    <2>3. CASE Goes(t, Without(th[t]))
      BY <2>1, <2>3, WithoutIsFair, FairGoes
    <2>4. CASE Goes(t, [th[t] EXCEPT !.pc = "dialLive", !.again = @ \/ opened[th[t].m]])
      BY <2>1, <2>4 DEF Plain, DialInv, Shape, Goes, Fair, Handing, Fields
    <2> QED BY <1>4, <2>2, <2>3, <2>4 DEF OpenLive
  <1>5. CASE ShareApi(t)
    <2>1. th[t].pc \notin Handing /\ UNCHANGED <<net, live>>
      BY <1>5 DEF ShareApi, Handing, conn
    <2>2. CASE Goes(t, With(th[t], Api(store)))
      BY <2>1, <2>2, WithIsFair, FairGoes
    <2>3. CASE Goes(t, [th[t] EXCEPT !.pc = "unmap", !.then = "restart"])
      BY <2>1, <2>3 DEF Plain, DialInv, Shape, Goes, Fair, Handing, Fields
    <2>4. CASE Goes(t, Idle)
      BY <2>1, <2>4, FairGoes
    <2> QED BY <1>5, <2>2, <2>3, <2>4 DEF ShareApi
  <1> QED BY <1>1, <1>2, <1>3, <1>4, <1>5

LEMMA ManagingPlain ==
  ASSUME DialInv, NEW t \in Threads,
         StartManager(t) \/ AddManager(t) \/ Swap(t) \/ Restart(t) \/ Started(t) \/ Subscribe(t) \/ Keep(t)
  PROVE  Plain(t)
  <1> USE ThreadIsFair, RestsFair
  <1>1. Fair(Done(t)) /\ (GiveUp(t) => Goes(t, th'[t]) /\ Fair(th'[t]))
    BY ZenonT(60) DEF Done, GiveUp, Fair, Handing, Fields, DialInv, Shape, Goes
  <1>2. CASE StartManager(t)
    BY <1>2, ZenonT(90) DEF StartManager, Plain, DialInv, Shape, Goes, Fair, Handing, Fields, conn
  <1>3. CASE AddManager(t)
    BY <1>3 DEF AddManager, Plain, DialInv, Shape, Goes, Handing, conn
  <1>4. CASE Swap(t)
    BY <1>4, SMTT(60) DEF Swap, Plain, DialInv, Shape, Goes, Fair, Handing, Fields, conn
  <1>5. CASE Restart(t)
    BY <1>5 DEF Restart, Plain, DialInv, Shape, Goes, Fair, Handing, Fields, conn
  <1>6. CASE Started(t)
    BY <1>1, <1>6 DEF Started, Plain, DialInv, Shape, Goes, Handing, conn
  <1>7. CASE Subscribe(t)
    BY <1>1, <1>7, SMTT(60) DEF Subscribe, Plain, DialInv, Shape, Goes, Fair, Handing, Fields, conn
  <1>8. CASE Keep(t)
    BY <1>1, <1>8 DEF Keep, Plain, DialInv, Shape, Goes, Handing, conn
  <1> QED BY <1>2, <1>3, <1>4, <1>5, <1>6, <1>7, <1>8

LEMMA ChangingPlain ==
  ASSUME DialInv, NEW t \in Threads, Changed(t) \/ ChangedToNone(t)
  PROVE  Plain(t)
  <1> USE ThreadIsFair
  <1>1. CASE Changed(t)
    BY <1>1 DEF Changed, Plain, DialInv, Shape, Goes, Fair, Handing, Fields, conn
  <1>2. CASE ChangedToNone(t)
    BY <1>2, ZenonT(60) DEF ChangedToNone, Plain, DialInv, Shape, Goes, Fair, Handing, Fields, conn
  <1> QED BY <1>1, <1>2
-----------------------------------------------------------------------------
(* The steps that take, dial, store and close live connections. *)
LEMMA Zero == \A k \in Dials : k # None
  BY RunsAssumption DEF Dials, None

(* closeLive and ReleaseLive take LiveNC into their hands.                  *)
LEMMA TakingKeeps ==
  ASSUME DialInv, NEW t \in Threads, CloseLive(t) \/ Release(t)
  PROVE  DialInv'
  <1> USE ThreadIsFair, RestsFair
  <1>1. CASE Release(t) /\ store = None
    <2>1. Plain(t)
      BY <1>1 DEF Release, Plain, DialInv, Shape, Goes, Handing
    <2> QED BY <2>1, PlainKeeps
  <1>2. CASE CloseLive(t) \/ (Release(t) /\ store # None)
    <2>1. PICK m : /\ th[t].pc \notin Handing /\ UNCHANGED net
                   /\ live' = [live EXCEPT ![m] = None]
                   /\ th'[t].pc = "close" /\ th'[t].link = <<m, live[m]>>
                   /\ Goes(t, th'[t]) /\ Fair(th'[t])
      <3>1. CASE CloseLive(t)
        BY <3>1 DEF CloseLive, Own, DialInv, Shape, Goes, Fair, Handing, Fields
      <3>2. CASE Release(t) /\ store # None
        <4>1. th[t].pc \notin Handing /\ UNCHANGED net /\ live' = [live EXCEPT ![store] = None]
          BY <3>2 DEF Release, Handing
        <4>2. th'[t] = [th[t] EXCEPT !.pc = "close", !.m = store, !.link = <<store, live[store]>>,
                                     !.then = "released"]
          BY <3>2 DEF Release, Own, DialInv, Shape, Goes
        <4>3. th'[t].pc = "close" /\ th'[t].link = <<store, live[store]>> /\ Fair(th'[t])
          BY <4>2 DEF Fair, Handing, Fields
        <4>4. Goes(t, th'[t])
          BY <3>2, <4>2 DEF Release, Own, Goes
        <4> QED BY <4>1, <4>3, <4>4
      <3> QED BY <1>2, <3>1, <3>2
    <2>2. PICK r : r = th'[t]
      OBVIOUS
    <2>3. DOMAIN net' = Links /\ DOMAIN live' = Managed
      BY <2>1 DEF DialInv, Shape
    <2>4. ASSUME NEW n \in Managed, NEW k \in Dials, net'[<<n, k>>] \in {"up", "away"}, live'[n] # k
          PROVE  r.link = <<n, k>> \/ (Open(<<n, k>>) /\ live[n] # k)
      BY <2>1, <2>2, <2>4 DEF DialInv, Shape, Open
    <2>5. Goes(t, r) /\ Fair(r) /\ r.pc \in Handing
      BY <2>1, <2>2 DEF Handing
    <2> QED BY <2>1, <2>3, <2>4, <2>5, OneMoves
  <1> QED BY <1>1, <1>2

(* Close and the connection that came second end what they hold.            *)
LEMMA ClosingKeeps ==
  ASSUME DialInv, NEW t \in Threads, Close(t) \/ Quicker(t)
  PROVE  DialInv'
  <1> USE ThreadIsFair, RestsFair
  <1>1. PICK ls : /\ Closing(ls) /\ UNCHANGED live
                  /\ th[t].link[2] # None => th[t].link \in ls
    BY DEF Close, Quicker
  <1>2. Goes(t, th'[t]) /\ Fair(th'[t])
    <2>1. CASE Close(t)
      BY <2>1 DEF Close, DialInv, Shape, Goes, Fair, Handing, Fields
    <2>2. CASE Quicker(t)
      BY <2>2, WithIsFair DEF Quicker, DialInv, Shape, Goes
    <2> QED BY <2>1, <2>2
  <1>3. PICK r : r = th'[t]
    OBVIOUS
  <1>4. DOMAIN net' = Links /\ DOMAIN live' = Managed
    BY <1>1 DEF DialInv, Shape, Closing
  <1>5. ASSUME NEW m \in Managed, NEW k \in Dials, net'[<<m, k>>] \in {"up", "away"}, live'[m] # k
        PROVE  Open(<<m, k>>) /\ live[m] # k /\ th[t].link # <<m, k>>
    <2>1. <<m, k>> \in Links
      BY DEF Links
    <2>2. <<m, k>> \notin ls /\ Open(<<m, k>>)
      BY <1>1, <1>5, <2>1 DEF Closing, Open
    <2>3. th[t].link # <<m, k>>
      BY <1>1, <2>2, Zero
    <2> QED BY <1>1, <1>5, <2>2, <2>3
  <1>6. Goes(t, r) /\ Fair(r)
    BY <1>2, <1>3
  <1> QED BY <1>4, <1>5, <1>6, OneMoves

(* A new live connection is in the hands of whoever dialled it.             *)
LEMMA DialLiveKeeps ==
  ASSUME DialInv, NEW t \in Threads, DialLive(t)
  PROVE  DialInv'
  <1> USE ThreadIsFair
  <1>1. PICK k, state, r :
           /\ th[t].pc \notin Handing /\ UNCHANGED live
           /\ net' = [net EXCEPT ![<<th[t].m, k>>] = state]
           /\ r = [th[t] EXCEPT !.pc = "dialled", !.again = FALSE,
                                !.link = <<th[t].m, IF state = "none" THEN None ELSE k>>]
           /\ Goes(t, r)
    BY DEF DialLive, Handing
  <1>2. Fair(r) /\ r.pc \in Handing
    BY <1>1 DEF Fair, Handing, Fields
  <1>3. DOMAIN net' = Links /\ DOMAIN live' = Managed
    BY <1>1 DEF DialInv, Shape
  <1>4. ASSUME NEW m \in Managed, NEW j \in Dials, net'[<<m, j>>] \in {"up", "away"}, live'[m] # j
        PROVE  r.link = <<m, j>> \/ (Open(<<m, j>>) /\ live[m] # j)
    <2>1. CASE <<m, j>> = <<th[t].m, k>>
      <3>1. <<m, j>> \in Links
        BY DEF Links
      <3>2. state # "none"
        BY <1>1, <1>4, <2>1, <3>1 DEF DialInv, Shape
      <3> QED BY <1>1, <2>1, <3>2 DEF Fields
    <2>2. CASE <<m, j>> # <<th[t].m, k>>
      BY <1>1, <1>4, <2>2 DEF DialInv, Shape, Open
    <2> QED BY <2>1, <2>2
  <1>5. Goes(t, r) /\ th[t].pc \notin Handing
    BY <1>1
  <1> QED BY <1>2, <1>3, <1>4, <1>5, OneMoves

(* What a goroutine dialled is LiveNC when it lets go of it. What was       *)
(* LiveNC until then is closed.                                             *)
LEMMA DialledKeeps ==
  ASSUME DialInv, NEW t \in Threads, Dialled(t) \/ Refused(t)
  PROVE  DialInv'
  <1> USE ThreadIsFair
  <1>1. CASE Refused(t)
    <2>1. PICK r : r = Without(th[t])
      OBVIOUS
    <2>2. Goes(t, r) /\ Fair(r) /\ UNCHANGED <<net, live>> /\ th[t].link[2] = None
      BY <1>1, <2>1, WithoutIsFair DEF Refused
    <2>3. DOMAIN net' = Links /\ DOMAIN live' = Managed
      BY <2>2 DEF DialInv, Shape
    <2>4. ASSUME NEW m \in Managed, NEW k \in Dials PROVE th[t].link # <<m, k>>
      BY <2>2, Zero
    <2> QED BY <2>2, <2>3, <2>4, OneMoves DEF Open
  <1>2. CASE Dialled(t)
    <2>1. PICK r : r = With(th[t], th[t].link)
      OBVIOUS
    <2>2. /\ Goes(t, r) /\ Fair(r) /\ UNCHANGED net
          /\ live' = [live EXCEPT ![th[t].m] = th[t].link[2]]
          /\ th[t].link = <<th[t].m, th[t].link[2]>>
          /\ ~(live[th[t].m] # None /\ Open(<<th[t].m, live[th[t].m]>>))
      BY <1>2, <2>1, WithIsFair DEF Dialled, Own, DialInv, HoldsItsOwn
    <2>3. DOMAIN net' = Links /\ DOMAIN live' = Managed
      BY <2>2 DEF DialInv, Shape
    <2>4. ASSUME NEW m \in Managed, NEW k \in Dials, net'[<<m, k>>] \in {"up", "away"}, live'[m] # k
          PROVE  Open(<<m, k>>) /\ live[m] # k /\ th[t].link # <<m, k>>
      <3>1. Open(<<m, k>>)
        BY <2>2, <2>4 DEF Open
      <3>2. CASE m = th[t].m
        <4>1. live'[m] = th[t].link[2]
          BY <2>2, <3>2 DEF DialInv, Shape
        <4> QED BY <2>2, <2>4, <3>1, <3>2, <4>1, Zero
      <3>3. CASE m # th[t].m
        BY <2>2, <2>4, <3>1, <3>3 DEF DialInv, Shape
      <3> QED BY <3>2, <3>3
    <2> QED BY <2>2, <2>3, <2>4, OneMoves
  <1> QED BY <1>1, <1>2
-----------------------------------------------------------------------------
LEMMA StepKeeps ==
  ASSUME DialInv, NEW t \in Threads, Step(t)
  PROVE  DialInv'
  <1>1. CASE Unmap(t) \/ Stop(t) \/ Remove(t)
    BY <1>1, StoppingPlain, PlainKeeps
  <1>2. CASE DialFails(t) \/ Register(t) \/ Lookup(t) \/ OpenLive(t) \/ ShareApi(t)
    BY <1>2, ConnectingPlain, PlainKeeps
  <1>3. CASE \/ StartManager(t) \/ AddManager(t) \/ Swap(t) \/ Restart(t) \/ Started(t)
             \/ Subscribe(t) \/ Keep(t)
    BY <1>3, ManagingPlain, PlainKeeps
  <1>4. CASE Changed(t) \/ ChangedToNone(t)
    BY <1>4, ChangingPlain, PlainKeeps
  <1>5. CASE CloseLive(t) \/ Release(t)
    BY <1>5, TakingKeeps
  <1>6. CASE Close(t) \/ Quicker(t)
    BY <1>6, ClosingKeeps
  <1>7. CASE DialLive(t)
    BY <1>7, DialLiveKeeps
  <1>8. CASE Dialled(t) \/ Refused(t)
    BY <1>8, DialledKeeps
  <1>9. CASE Dial(t)
    <2>1. PICK m, state :
             /\ th[t].pc \notin Handing /\ UNCHANGED live
             /\ net' = [net EXCEPT ![<<m, 0>>] = state]
      BY <1>9 DEF Dial, Api, Handing
    <2>2. Goes(t, th'[t]) /\ Fair(th'[t])
      BY <1>9, ThreadIsFair DEF Dial, DialInv, Shape, Goes, Fair, Handing, Fields
    <2>3. PICK r : r = th'[t]
      OBVIOUS
    <2>4. DOMAIN net' = Links
      BY <2>1 DEF DialInv, Shape
    <2>5. \A n \in Managed, k \in Dials : net'[<<n, k>>] = net[<<n, k>>]
      BY <2>1, Zero DEF None, DialInv, Shape, Links
    <2>6. Goes(t, r) /\ Fair(r)
      BY <2>2, <2>3
    <2> QED BY <2>1, <2>4, <2>5, <2>6, NoDial
  <1> QED BY <1>1, <1>2, <1>3, <1>4, <1>5, <1>6, <1>7, <1>8, <1>9 DEF Step

LEMMA MoverKeeps ==
  ASSUME DialInv, MoveLive \/ NoteRefusal \/ Moved
  PROVE  DialInv'
  <1> USE ThreadIsFair, RestsFair, IdleShape
  <1>1. Mover \in Threads
    BY DEF Threads
  <1>2. CASE MoveLive
    <2>1. /\ th[Mover].pc \notin Handing /\ UNCHANGED <<net, live>>
          /\ \E m : Goes(Mover, [Idle EXCEPT !.run = runs', !.pc = "give up", !.m = m])
      BY <1>2 DEF MoveLive, Begins, Handing
    <2>2. PICK m : Goes(Mover, [Idle EXCEPT !.run = runs', !.pc = "give up", !.m = m])
      BY <2>1
    <2>3. PICK r : r = [Idle EXCEPT !.run = runs', !.pc = "give up", !.m = m]
      OBVIOUS
    <2>4. Goes(Mover, r) /\ Fair(r)
      BY <2>2, <2>3 DEF Fair, Handing, Fields
    <2> QED BY <1>1, <2>1, <2>4, FairGoes, PlainKeeps
  <1>3. CASE NoteRefusal
    <2>1. PICK r : r = [th[Mover] EXCEPT !.pc = "closeLive", !.then = "moved"]
      OBVIOUS
    <2>2. Goes(Mover, r) /\ Fair(r) /\ th[Mover].pc \notin Handing /\ UNCHANGED <<net, live>>
      BY <1>1, <1>3, <2>1 DEF NoteRefusal, Fair, Handing, Fields
    <2> QED BY <1>1, <2>2, FairGoes, PlainKeeps
  <1>4. CASE Moved
    <2>1. th[Mover].pc \notin Handing /\ UNCHANGED <<net, live>>
      BY <1>4 DEF Moved, Handing, conn
    <2>2. CASE Goes(Mover, Idle)
      BY <1>1, <2>1, <2>2, FairGoes, PlainKeeps
    <2>3. CASE ~Goes(Mover, Idle)
      <3>1. PICK r : r = [th[Mover] EXCEPT !.pc = "swap", !.g = current, !.link = Api(store),
                                 !.patterns = IF want[store] = {} THEN {All} ELSE want[store]]
        OBVIOUS
      <3>2. Goes(Mover, r)
        BY <1>4, <2>3, <3>1 DEF Moved
      <3>3. Fair(r)
        BY <1>1, <3>1 DEF Fair, Handing, Fields
      <3> QED BY <1>1, <2>1, <3>2, <3>3, FairGoes, PlainKeeps
    <2> QED BY <2>2, <2>3
  <1> QED BY <1>2, <1>3, <1>4

(* A loss and a return change whether a connection stands, not whether it   *)
(* is open, and nothing that is open comes of a connection given up.        *)
LEMMA LinkKeeps ==
  ASSUME DialInv, NEW l \in Links, Drop(l) \/ Back(l) \/ Expire(l)
  PROVE  DialInv'
  <1>1. UNCHANGED <<live, th>> /\ DOMAIN net' = Links
    BY DEF Drop, Back, Expire, Closing, DialInv, Shape
  <1>2. \A j \in Links : net'[j] \in {"up", "away"} => Open(j)
    BY DEF Drop, Back, Expire, Closing, DialInv, Shape, Open
  <1>3. \A m \in Managed, k \in Dials : <<m, k>> \in Links
    BY DEF Links
  <1> QED BY <1>1, <1>2, <1>3 DEF DialInv, Shape, HoldsItsOwn, OneLiveConnection, Open

LEMMA DialStep ==
  ASSUME DialInv, [Next]_vars
  PROVE  DialInv'
  <1>1. CASE \E t \in Requests : Request(t)
    BY <1>1, RequestsKeep
  <1>2. CASE \E t \in Threads : Step(t)
    BY <1>2, StepKeeps
  <1>3. CASE MoveLive \/ NoteRefusal \/ Moved
    BY <1>3, MoverKeeps
  <1>4. CASE \E l \in Links : Drop(l) \/ Back(l) \/ Expire(l)
    BY <1>4, LinkKeeps
  <1>5. CASE UNCHANGED vars
    BY <1>5 DEF vars, conn, DialInv, Shape, HoldsItsOwn, OneLiveConnection, Open
  <1> QED BY <1>1, <1>2, <1>3, <1>4, <1>5 DEF Next

(* A connection has one live connection, whatever its requests, its move    *)
(* and the servers do at the same time: openLive dials outside the lock and *)
(* still leaves no second one behind.                                       *)
THEOREM OneLive == Spec => []OneLiveConnection
  <1>1. DialInv /\ [Next]_vars => DialInv'
    BY DialStep
  <1>2. DialInv => OneLiveConnection
    BY DEF DialInv
  <1> QED BY InitDial, <1>1, <1>2, PTL DEF Spec
-----------------------------------------------------------------------------
(* What a goroutine holds at each step: the connection, the manager and the *)
(* NATS connection the step works on.                                       *)
Legal(r) ==
    /\ r \in Thread
    /\ r.pc # "idle" => r.run \in Managed
    /\ r.pc \in {"unmap", "stop"} => r.then \in {"replace", "remove", "restart"}
    /\ r.pc = "closeLive" => r.then \in {"dial", "idle", "moved"}
    /\ r.pc = "close" => r.then \in {"dial", "idle", "moved", "released"}
    /\ r.pc = "register" => r.then = "register"
    /\ r.pc \in {"open", "dialLive", "dialled"} => r.then \in {"register", "swap", "start"}
    /\ r.pc = "api" => r.then \in {"swap", "start"}
    /\ r.pc \in {"closeLive", "close", "open", "dialLive", "dialled", "register", "give up"} => r.m \in Managed
    /\ r.pc \in {"stop", "add", "swap", "restarting", "starting", "subscribe", "keep"} => r.g \in Managers
    /\ r.pc \in {"close", "dialled", "start", "swap", "restarting", "starting", "subscribe", "keep"} =>
         r.link \in Links

(* The live connections a goroutine may still dial.                         *)
OwesNone(r) == \/ r.pc \in {"idle", "add", "start", "keep", "release"}
               \/ r.pc \in {"api", "dialled"} /\ r.then = "start"
               \/ r.pc = "close" /\ r.then = "released"

OwesOne(r) == \/ r.pc \in {"register", "restart", "dialled", "api", "swap", "subscribe", "starting", "restarting"}
              \/ r.pc \in {"unmap", "stop"} /\ r.then = "restart"
              \/ r.pc \in {"open", "dialLive"} /\ r.then = "start"

Opening == {"open", "dialLive", "dialled"}

Owes(r) == IF OwesNone(r) THEN 0 ELSE IF OwesOne(r) THEN 1 ELSE 2

UsedDials == {l \in Managed \X Dials : net[l] # "none"}
Owed      == [t \in Threads |-> Owes(th[t])]
DialsSuffice == Cardinality(UsedDials) + SumOver(Owed, Threads) <= 2 * runs

(* The dials of a connection are used one after the other, and what is      *)
(* listed or held has been dialled.                                         *)
InTurn     == \A m \in Managed, d, e \in Dials : e < d /\ net[<<m, d>>] # "none" => net[<<m, e>>] # "none"
LiveIsUsed == \A m \in Managed : live[m] # None => net[Own(m)] # "none"
HandIsUsed(r) == r.pc \in Handing /\ r.link[2] # None => net[r.link] # "none"

StateTypes == /\ store \in {None} \cup Managed /\ want \in [Managed -> SUBSET Patterns]
              /\ net \in [Links -> {"none", "up", "away", "closed"}]
              /\ live \in [Managed -> {None} \cup Dials]
              /\ refused \in [Managed -> BOOLEAN] /\ opened \in [Managed -> BOOLEAN]
              /\ moving \in [Managed -> BOOLEAN]
              /\ current \in {None} \cup Managers /\ running \in [Managers -> BOOLEAN]
              /\ subs \subseteq Sub /\ held \in [Managers -> SUBSET Sub]
              /\ runs \in 0..MaxRuns /\ overlaps \in 0..MaxOverlaps /\ asked \subseteq Patterns /\ missed \in BOOLEAN

TypeInv == /\ StateTypes /\ DOMAIN th = Threads /\ (\A t \in Threads : Legal(th[t]))
           /\ DialsSuffice /\ InTurn /\ LiveIsUsed /\ \A t \in Threads : HandIsUsed(th[t])

LEMMA TypesAreOK == TypeInv => TypeOK
  BY DEF TypeInv, StateTypes, Legal, TypeOK
-----------------------------------------------------------------------------
LEMMA RunsAreNat == MaxRuns \in Nat /\ 2 * MaxRuns \in Nat /\ MaxOverlaps \in Nat
  BY RunsAssumption

LEMMA ThreadsFinite == IsFiniteSet(Threads)
  BY ThreadsAssumption, FS_Singleton, FS_Union DEF Threads

LEMMA OwesType == \A r : Owes(r) \in {0, 1, 2}
  BY DEF Owes

(* A step of one goroutine changes what all owe by what this one does.      *)
LEMMA OwedByOne ==
  ASSUME DOMAIN th = Threads, NEW t \in Threads, NEW r, Goes(t, r)
  PROVE  \E rest \in Nat : /\ SumOver(Owed, Threads) = Owes(th[t]) + rest
                          /\ SumOver(Owed', Threads) = Owes(r) + rest
  <1> DEFINE f == Owed
             g == Owed'
             R == Threads \ {t}
  <1>1. IsFiniteSet(R) /\ t \notin R /\ Threads = R \cup {t}
    BY ThreadsFinite, FS_RemoveElement
  <1>2. \A u \in Threads : f[u] \in Nat /\ g[u] \in Nat
    BY OwesType DEF Owed
  <1>3. f[t] = Owes(th[t]) /\ g[t] = Owes(r)
    BY DEF Owed, Goes
  <1>4. \A u \in R : f[u] = g[u]
    BY DEF Owed, Goes
  <1> HIDE DEF f, g, R
  <1>5. SumOver(f, R) = SumOver(g, R) /\ SumOver(f, R) \in Nat
    <2>1. \A u \in R : f[u] \in Nat
      BY <1>1, <1>2
    <2> QED BY <1>1, <1>4, <2>1, SumSame, SumType
  <1>6. SumOver(f, R \cup {t}) = f[t] + SumOver(f, R)
    <2>1. \A u \in R \cup {t} : f[u] \in Nat
      BY <1>1, <1>2
    <2> QED BY <1>1, <2>1, SumAdd
  <1>7. SumOver(g, R \cup {t}) = g[t] + SumOver(g, R)
    <2>1. \A u \in R \cup {t} : g[u] \in Nat
      BY <1>1, <1>2
    <2> QED BY <1>1, <2>1, SumAdd
  <1> QED BY <1>1, <1>3, <1>5, <1>6, <1>7 DEF f, g

LEMMA UsedFinite ==
  /\ IsFiniteSet(Managed \X Dials) /\ IsFiniteSet(UsedDials) /\ Cardinality(UsedDials) \in Nat
  /\ \A l \in Managed \X Dials : l \in Links
  <1>1. IsFiniteSet(Managed) /\ IsFiniteSet(Dials)
    BY RunsAreNat, FS_Interval DEF Managed, Dials
  <1>2. IsFiniteSet(Managed \X Dials)
    BY <1>1, FS_Product
  <1>3. UsedDials \subseteq Managed \X Dials
    BY DEF UsedDials
  <1> QED BY <1>2, <1>3, FS_Subset, FS_CardinalityType DEF Links

(* Nothing is dialled: what is used stays, and who moves owes no more.      *)
SameDials == \A m \in Managed, d \in Dials : (net'[<<m, d>>] = "none") <=> (net[<<m, d>>] = "none")

Orderly(t, r) == /\ Goes(t, r) /\ Legal(r) /\ Owes(r) <= Owes(th[t])
                 /\ StateTypes' /\ runs' = runs /\ SameDials
                 /\ LiveIsUsed' /\ (r.pc \in Handing /\ r.link[2] # None => net'[r.link] # "none")

LEMMA OrderlySteps ==
  ASSUME TypeInv, NEW t \in Threads, NEW r, Orderly(t, r)
  PROVE  TypeInv'
  <1>1. th' = [th EXCEPT ![t] = r] /\ DOMAIN th = Threads
    BY DEF Orderly, Goes, TypeInv
  <1>2. DOMAIN th' = Threads /\ \A u \in Threads : Legal(th'[u])
    <2> HIDE DEF Legal
    <2> QED BY <1>1 DEF TypeInv, Orderly
  <1>3. UsedDials' = UsedDials
    BY DEF UsedDials, Orderly, SameDials
  <1>4. DialsSuffice'
    <2>1. PICK rest \in Nat : /\ SumOver(Owed, Threads) = Owes(th[t]) + rest
                            /\ SumOver(Owed', Threads) = Owes(r) + rest
      BY <1>1, OwedByOne DEF Orderly
    <2>2. Owes(r) <= Owes(th[t]) /\ runs' = runs /\ runs \in Nat
      BY DEF Orderly, TypeInv, StateTypes
    <2> QED BY <1>3, <2>1, <2>2, OwesType, UsedFinite DEF DialsSuffice, TypeInv
  <1>5. InTurn'
    BY DEF TypeInv, InTurn, Orderly, SameDials
  <1>6. ASSUME NEW u \in Threads PROVE HandIsUsed(th[u])'
    <2>1. CASE u = t
      BY <1>1, <2>1 DEF Orderly, HandIsUsed
    <2>2. CASE u # t
      <3>1. th'[u] = th[u] /\ HandIsUsed(th[u]) /\ Legal(th[u])
        BY <1>1, <2>2 DEF TypeInv
      <3>2. SUFFICES ASSUME th[u].pc \in Handing, th[u].link[2] # None PROVE net'[th[u].link] # "none"
        BY <3>1 DEF HandIsUsed
      <3>3. th[u].link \in Links /\ net[th[u].link] # "none"
        BY <3>1, <3>2 DEF HandIsUsed, Handing, Legal
      <3>4. PICK m \in Managed, d \in Dials : th[u].link = <<m, d>>
        BY <3>2, <3>3 DEF Links, None
      <3> QED BY <3>3, <3>4 DEF Orderly, SameDials
    <2> QED BY <2>1, <2>2
  <1> QED BY <1>2, <1>4, <1>5, <1>6 DEF TypeInv, Orderly
-----------------------------------------------------------------------------
(* Most steps dial, store and close nothing. *)
LEMMA CalmSteps ==
  ASSUME TypeInv, NEW t \in Threads, NEW r, Goes(t, r), Legal(r), Owes(r) <= Owes(th[t]),
         StateTypes', UNCHANGED <<net, live, runs>>, r.pc \notin Handing
  PROVE  TypeInv'
  <1>1. SameDials /\ LiveIsUsed'
    BY DEF SameDials, LiveIsUsed, TypeInv, Own
  <1> QED BY <1>1, OrderlySteps DEF Orderly

LEMMA IdleIsLegal == Legal(Idle) /\ Owes(Idle) = 0 /\ Idle.pc \notin Handing
  <1>1. Idle \in Thread
    BY RunsAreNat DEF Idle, Thread, None
  <1> QED BY <1>1 DEF Idle, Legal, Owes, OwesNone, Handing

LEMMA OwesBounds == \A r : 0 <= Owes(r) /\ Owes(r) <= 2
  BY DEF Owes

LEMMA HandsAre ==
  ASSUME TypeInv, NEW t \in Threads
  PROVE  Legal(th[t]) /\ th[t] \in Thread
  BY DEF TypeInv, Legal

LEMMA Numbers ==
  ASSUME StateTypes
  PROVE  /\ store \in 0..MaxRuns /\ (store # None => store \in Managed)
         /\ current \in 0..MaxRuns /\ (current # None => current \in Managers)
         /\ Managed \subseteq 0..MaxRuns /\ Managers = Managed /\ None \in 0..MaxRuns
         /\ \A m \in Managed : m # None
         /\ \A l \in Links : l \in (0..MaxRuns) \X (0..(2 * MaxRuns))
         /\ \A m \in Managed : Api(m) \in Links /\ Own(m) \in Links
  <1>1. /\ store \in 0..MaxRuns /\ (store # None => store \in Managed)
        /\ current \in 0..MaxRuns /\ (current # None => current \in Managers)
        /\ Managed \subseteq 0..MaxRuns /\ Managers = Managed /\ None \in 0..MaxRuns
        /\ \A m \in Managed : m # None
    BY RunsAreNat DEF StateTypes, Managed, Managers, None
  <1>2. \A d \in {0} \cup Dials : d \in 0..(2 * MaxRuns)
    BY RunsAreNat DEF Dials
  <1>3. \A l \in Links : l \in (0..MaxRuns) \X (0..(2 * MaxRuns))
    BY <1>1, <1>2 DEF Links
  <1>4. \A m \in Managed : Api(m) \in Links /\ Own(m) \in Links
    BY DEF Api, Own, Links, StateTypes, None
  <1> QED BY <1>1, <1>3, <1>4

LEMMA TypedStops ==
  ASSUME TypeInv, NEW t \in Threads, Unmap(t) \/ Stop(t) \/ Remove(t)
  PROVE  TypeInv'
  <1> StateTypes
    BY DEF TypeInv
  <1> USE Numbers
  <1>0. Legal(th[t]) /\ th[t] \in Thread
    BY HandsAre
  <1>1. CASE Unmap(t)
    <2>1. PICK r : r = [th[t] EXCEPT !.g = current, !.pc = IF current = None THEN th[t].then ELSE "stop"]
      OBVIOUS
    <2>2. Goes(t, r) /\ UNCHANGED <<net, live, runs>> /\ StateTypes'
      BY <1>1, <2>1 DEF Unmap, StateTypes, conn, history, None
    <2>3. /\ th[t].pc = "unmap" /\ th[t].then \in {"replace", "remove", "restart"} /\ th[t].run \in Managed
          /\ current \in 0..MaxRuns /\ (current # None => current \in Managers)
      BY <1>0, <1>1 DEF Unmap, Legal
    <2>4. /\ r.pc = IF current = None THEN th[t].then ELSE "stop"
          /\ r.then = th[t].then /\ r.run = th[t].run /\ r.g = current /\ r \in Thread
      BY <1>0, <2>1, <2>3 DEF Thread
    <2>5. Legal(r) /\ r.pc \notin Handing
      BY <2>3, <2>4 DEF Legal, Handing
    <2>6. Owes(r) <= Owes(th[t])
      BY <2>3, <2>4 DEF Owes, OwesNone, OwesOne
    <2> QED BY <2>2, <2>5, <2>6, CalmSteps
  <1>2. CASE Stop(t)
    <2>1. PICK r : r = [th[t] EXCEPT !.pc = th[t].then]
      OBVIOUS
    <2>2. Goes(t, r) /\ UNCHANGED <<net, live, runs>> /\ StateTypes'
      BY <1>2, <2>1 DEF Stop, Halt, StateTypes, conn, history
    <2>3. th[t].pc = "stop" /\ th[t].then \in {"replace", "remove", "restart"} /\ th[t].run \in Managed
      BY <1>0, <1>2 DEF Stop, Legal
    <2>4. r.pc = th[t].then /\ r.then = th[t].then /\ r.run = th[t].run /\ r \in Thread
      BY <1>0, <2>1, <2>3 DEF Thread
    <2>5. Legal(r) /\ r.pc \notin Handing
      BY <2>3, <2>4 DEF Legal, Handing
    <2>6. Owes(r) <= Owes(th[t])
      BY <2>3, <2>4 DEF Owes, OwesNone, OwesOne
    <2> QED BY <2>2, <2>5, <2>6, CalmSteps
  <1>3. CASE Remove(t)
    <2>1. PICK after : after = IF th[t].pc = "replace" THEN "dial" ELSE "idle"
      OBVIOUS
    <2>2. PICK r : r = IF store # None THEN [th[t] EXCEPT !.pc = "closeLive", !.m = store, !.then = after]
                       ELSE IF after = "dial" THEN [th[t] EXCEPT !.pc = after] ELSE Idle
      OBVIOUS
    <2>3. Goes(t, r) /\ UNCHANGED <<net, live, runs>> /\ StateTypes'
      BY <1>3, <2>1, <2>2 DEF Remove, StateTypes, feed, history
    <2>4. /\ th[t].pc \in {"remove", "replace"} /\ after \in {"dial", "idle"} /\ th[t].run \in Managed
          /\ store \in 0..MaxRuns /\ (store # None => store \in Managed)
      BY <1>0, <1>3, <2>1 DEF Remove, Legal
    <2>5. Owes(th[t]) = 2
      BY <2>4 DEF Owes, OwesNone, OwesOne
    <2>6. Legal(r) /\ r.pc \notin Handing
      <3>1. CASE store # None
        <4>1. r.pc = "closeLive" /\ r.then = after /\ r.run = th[t].run /\ r.m = store /\ r \in Thread
          BY <1>0, <2>2, <2>4, <3>1 DEF Thread
        <4> QED BY <2>4, <3>1, <4>1 DEF Legal, Handing
      <3>2. CASE store = None /\ after = "dial"
        <4>1. r.pc = "dial" /\ r.run = th[t].run /\ r \in Thread
          BY <1>0, <2>2, <3>2 DEF Thread
        <4> QED BY <2>4, <4>1 DEF Legal, Handing
      <3>3. CASE store = None /\ after # "dial"
        BY <2>2, <3>3, IdleIsLegal
      <3> QED BY <3>1, <3>2, <3>3
    <2>7. Owes(r) <= Owes(th[t])
      BY <2>5, OwesBounds
    <2> QED BY <2>3, <2>6, <2>7, CalmSteps
  <1> QED BY <1>1, <1>2, <1>3

LEMMA WithIsLegal ==
  ASSUME StateTypes, NEW x, Legal(x), x.pc \in Opening \cup {"api"}, x.pc # "dialLive", NEW l \in Links
  PROVE  Legal(With(x, l)) /\ With(x, l).pc \notin Handing /\ Owes(With(x, l)) <= Owes(x)
  <1> USE Numbers
  <1>1. x \in Thread /\ x.run \in Managed /\ x.then \in {"register", "swap", "start"}
    BY DEF Legal, Opening
  <1>2. x.then = "register" => x.pc \in {"open", "dialled"} /\ x.m \in Managed
    BY DEF Legal, Opening
  <1>3. x.g # None => x.g \in Managers
    <2>1. x.g \in 0..MaxRuns
      BY <1>1 DEF Thread
    <2> QED BY <2>1, RunsAreNat DEF None, Managers
  <1>4. CASE x.then = "swap" /\ x.g = None
    <2>1. PICK r : r = [x EXCEPT !.pc = "unmap", !.then = "restart"]
      OBVIOUS
    <2>2. r = With(x, l) /\ r.pc = "unmap" /\ r.then = "restart" /\ r.run = x.run /\ r \in Thread
      BY <1>1, <1>4, <2>1 DEF With, Thread
    <2>3. Legal(r) /\ r.pc \notin Handing
      BY <1>1, <2>2 DEF Legal, Handing
    <2>4. Owes(r) = 1 /\ Owes(x) >= 1
      BY <1>4, <2>2 DEF Owes, OwesNone, OwesOne, Opening
    <2> QED BY <2>2, <2>3, <2>4
  <1>5. CASE ~(x.then = "swap" /\ x.g = None)
    <2>1. PICK r : r = [x EXCEPT !.pc = x.then, !.link = l]
      OBVIOUS
    <2>2. /\ r = With(x, l) /\ r.pc = x.then /\ r.then = x.then /\ r.run = x.run /\ r.m = x.m /\ r.g = x.g
          /\ r.link = l /\ r \in Thread
      BY <1>1, <1>5, <2>1 DEF With, Thread
    <2>3. Legal(r) /\ r.pc \notin Handing
      BY <1>1, <1>2, <1>3, <1>5, <2>2 DEF Legal, Handing
    <2>4. Owes(r) <= Owes(x)
      BY <1>1, <1>2, <2>2 DEF Owes, OwesNone, OwesOne, Opening
    <2> QED BY <2>2, <2>3, <2>4
  <1> QED BY <1>4, <1>5

LEMMA WithoutIsLegal ==
  ASSUME NEW x, Legal(x), x.pc \in {"open", "dialled"}
  PROVE  Legal(Without(x)) /\ Without(x).pc \notin Handing /\ Owes(Without(x)) <= Owes(x)
  <1>1. x \in Thread /\ x.run \in Managed /\ x.then \in {"register", "swap", "start"} /\ x.m \in Managed
    BY DEF Legal
  <1>2. PICK r : r = [x EXCEPT !.pc = IF x.then = "register" THEN "register" ELSE "api"]
    OBVIOUS
  <1>3. /\ r = Without(x) /\ r.pc = IF x.then = "register" THEN "register" ELSE "api"
        /\ r.then = x.then /\ r.run = x.run /\ r.m = x.m /\ r \in Thread
    BY <1>1, <1>2 DEF Without, Thread
  <1>4. Legal(r) /\ r.pc \notin Handing
    BY <1>1, <1>3 DEF Legal, Handing
  <1>5. Owes(r) <= Owes(x)
    BY <1>1, <1>3 DEF Owes, OwesNone, OwesOne
  <1> QED BY <1>3, <1>4, <1>5

LEMMA TypedConnects ==
  ASSUME TypeInv, NEW t \in Threads, DialFails(t) \/ Dial(t) \/ Register(t) \/ Lookup(t)
  PROVE  TypeInv'
  <1> StateTypes
    BY DEF TypeInv
  <1> USE Numbers
  <1>0. Legal(th[t]) /\ th[t] \in Thread
    BY HandsAre
  <1>1. CASE DialFails(t)
    <2>1. Goes(t, Idle) /\ UNCHANGED <<net, live, runs>> /\ StateTypes'
      BY <1>1 DEF DialFails, StateTypes, conn, feed, history
    <2>2. Owes(Idle) <= Owes(th[t])
      BY IdleIsLegal, OwesBounds
    <2> QED BY <2>1, <2>2, IdleIsLegal, CalmSteps
  <1>2. CASE Dial(t)
    <2>1. th[t].pc = "dial" /\ th[t].run \in Managed /\ th[t].patterns \subseteq Patterns
      BY <1>0, <1>2 DEF Dial, Legal, Thread
    <2>2. PICK m, state : /\ m = th[t].run /\ state \in {"up", "away"}
                          /\ net' = [net EXCEPT ![Api(m)] = state]
      BY <1>2 DEF Dial
    <2>3. PICK r : r = [th[t] EXCEPT !.pc = "open", !.then = "register", !.m = m]
      OBVIOUS
    <2>4. /\ Goes(t, r) /\ want' = [want EXCEPT ![m] = th[t].patterns]
          /\ UNCHANGED <<store, live, refused, opened, moving, feed, history>>
      BY <1>2, <2>2, <2>3 DEF Dial
    <2>5. r.pc = "open" /\ r.then = "register" /\ r.run = th[t].run /\ r.m = m /\ r \in Thread
      BY <1>0, <2>1, <2>2, <2>3 DEF Thread
    <2>6. Legal(r) /\ r.pc \notin Handing
      BY <2>1, <2>2, <2>5 DEF Legal, Handing
    <2>7. Owes(r) <= Owes(th[t])
      BY <2>1, <2>5 DEF Owes, OwesNone, OwesOne
    <2>8. net' \in [Links -> {"none", "up", "away", "closed"}]
      BY <2>2 DEF StateTypes
    <2>9. want' \in [Managed -> SUBSET Patterns]
      BY <2>1, <2>4 DEF StateTypes
    <2>10. StateTypes'
      BY <2>4, <2>8, <2>9 DEF StateTypes, feed, history
    <2>11. \A n \in Managed, d \in Dials : net'[<<n, d>>] = net[<<n, d>>]
      BY <2>2, RunsAreNat DEF Api, Dials, StateTypes, Links
    <2>12. SameDials
      BY <2>11 DEF SameDials
    <2>13. LiveIsUsed'
      <3>1. \A n \in Managed : live[n] # None => live[n] \in Dials
        BY DEF StateTypes
      <3> QED BY <2>4, <2>11, <3>1 DEF LiveIsUsed, Own, TypeInv
    <2>14. runs' = runs
      BY <2>4 DEF history
    <2> QED BY <2>4, <2>6, <2>7, <2>10, <2>12, <2>13, <2>14, OrderlySteps DEF Orderly
  <1>3. CASE Register(t)
    <2>1. th[t].pc = "register" /\ th[t].run \in Managed /\ th[t].m \in Managed /\ th[t].patterns \subseteq Patterns
      BY <1>0, <1>3 DEF Register, Legal, Thread
    <2>2. PICK r : r = [th[t] EXCEPT !.pc = "restart", !.patterns = asked']
      OBVIOUS
    <2>3. asked' \subseteq Patterns
      BY <1>3, <2>1, PatternsAssumption DEF Register
    <2>4. Goes(t, r) /\ UNCHANGED <<net, live, runs>> /\ StateTypes'
      BY <1>3, <2>1, <2>2, <2>3 DEF Register, StateTypes, feed
    <2>5. r.pc = "restart" /\ r.run = th[t].run /\ r \in Thread
      BY <1>0, <2>2, <2>3 DEF Thread
    <2>6. Legal(r) /\ r.pc \notin Handing
      BY <2>1, <2>5 DEF Legal, Handing
    <2>7. Owes(r) <= Owes(th[t])
      BY <2>1, <2>5 DEF Owes, OwesNone, OwesOne
    <2> QED BY <2>4, <2>6, <2>7, CalmSteps
  <1>4. CASE Lookup(t)
    <2>1. th[t].pc \in {"lookup", "restart"} /\ th[t].run \in Managed
      BY <1>0, <1>4 DEF Lookup, Legal
    <2>2. PICK r : r = [th[t] EXCEPT !.m = store, !.pc = IF store = None THEN "api" ELSE "open",
                                     !.then = IF th[t].pc = "lookup" THEN "swap" ELSE "start"]
      OBVIOUS
    <2>3. Goes(t, r) /\ UNCHANGED <<net, live, runs>> /\ StateTypes'
      BY <1>4, <2>2 DEF Lookup, StateTypes, conn, feed, history
    <2>4. /\ r.pc = IF store = None THEN "api" ELSE "open"
          /\ r.then = IF th[t].pc = "lookup" THEN "swap" ELSE "start"
          /\ r.run = th[t].run /\ r.m = store /\ r \in Thread
      <3>1. PICK p \in {"api", "open"} : p = IF store = None THEN "api" ELSE "open"
        OBVIOUS
      <3>2. PICK q \in {"swap", "start"} : q = IF th[t].pc = "lookup" THEN "swap" ELSE "start"
        OBVIOUS
      <3>3. r = [th[t] EXCEPT !.m = store, !.pc = p, !.then = q]
        BY <2>2, <3>1, <3>2
      <3>4. r.pc = p /\ r.then = q /\ r.run = th[t].run /\ r.m = store /\ r \in Thread
        BY <1>0, <3>3 DEF Thread
      <3> QED BY <3>1, <3>2, <3>4
    <2>5. Legal(r) /\ r.pc \notin Handing
      BY <2>1, <2>4 DEF Legal, Handing
    <2>6. Owes(r) <= Owes(th[t])
      BY <2>1, <2>4 DEF Owes, OwesNone, OwesOne
    <2> QED BY <2>3, <2>5, <2>6, CalmSteps
  <1> QED BY <1>1, <1>2, <1>3, <1>4

LEMMA TypedOpens ==
  ASSUME TypeInv, NEW t \in Threads, OpenLive(t) \/ ShareApi(t)
  PROVE  TypeInv'
  <1> StateTypes
    BY DEF TypeInv
  <1> USE Numbers
  <1>0. Legal(th[t]) /\ th[t] \in Thread
    BY HandsAre
  <1>1. CASE OpenLive(t)
    <2>1. PICK m : m = th[t].m
      OBVIOUS
    <2>2. /\ th[t].pc = "open" /\ th[t].then \in {"register", "swap", "start"} /\ th[t].run \in Managed /\ m \in Managed
      BY <1>0, <1>1, <2>1 DEF OpenLive, Legal
    <2>3. UNCHANGED <<store, want, net, live, refused, feed, history>>
      BY <1>1 DEF OpenLive
    <2>4. UNCHANGED <<net, live, runs>>
      BY <2>3 DEF history
    <2>5. opened' \in [Managed -> BOOLEAN] /\ moving' \in [Managed -> BOOLEAN]
      BY <1>1, <2>2 DEF OpenLive, StateTypes
    <2>6. StateTypes'
      BY <2>3, <2>5 DEF StateTypes, feed, history
    <2>7. CASE Goes(t, With(th[t], Own(m)))
      BY <1>0, <2>2, <2>4, <2>6, <2>7, WithIsLegal, CalmSteps DEF Opening
    <2>8. CASE Goes(t, Without(th[t]))
      BY <1>0, <2>2, <2>4, <2>6, <2>8, WithoutIsLegal, CalmSteps
    <2>9. CASE Goes(t, [th[t] EXCEPT !.pc = "dialLive", !.again = @ \/ opened[m]])
      <3>1. PICK again \in BOOLEAN : again = (th[t].again \/ opened[m])
        OBVIOUS
      <3>2. PICK r : r = [th[t] EXCEPT !.pc = "dialLive", !.again = @ \/ opened[m]]
        OBVIOUS
      <3>3. /\ r.pc = "dialLive" /\ r.then = th[t].then /\ r.run = th[t].run /\ r.m = m /\ r \in Thread
        BY <1>0, <2>1, <3>1, <3>2 DEF Thread
      <3>4. Legal(r) /\ r.pc \notin Handing
        BY <2>2, <3>3 DEF Legal, Handing
      <3>5. Owes(r) <= Owes(th[t])
        BY <2>2, <3>3 DEF Owes, OwesNone, OwesOne
      <3> QED BY <2>4, <2>6, <2>9, <3>2, <3>4, <3>5, CalmSteps
    <2> QED BY <1>1, <2>1, <2>7, <2>8, <2>9 DEF OpenLive
  <1>2. CASE ShareApi(t)
    <2>1. th[t].pc = "api" /\ th[t].then \in {"swap", "start"} /\ th[t].run \in Managed
      BY <1>0, <1>2 DEF ShareApi, Legal
    <2>2. UNCHANGED <<net, live, runs>> /\ StateTypes'
      BY <1>2 DEF ShareApi, StateTypes, conn, feed
    <2>3. CASE ApiUp /\ Goes(t, With(th[t], Api(store)))
      <3>1. Api(store) \in Links
        BY <2>3 DEF ApiUp
      <3> QED BY <1>0, <2>1, <2>2, <2>3, <3>1, WithIsLegal, CalmSteps
    <2>4. CASE th[t].then = "swap" /\ Goes(t, [th[t] EXCEPT !.pc = "unmap", !.then = "restart"])
      <3>1. PICK r : r = [th[t] EXCEPT !.pc = "unmap", !.then = "restart"]
        OBVIOUS
      <3>2. r.pc = "unmap" /\ r.then = "restart" /\ r.run = th[t].run /\ r \in Thread
        BY <1>0, <3>1 DEF Thread
      <3>3. Legal(r) /\ r.pc \notin Handing
        BY <2>1, <3>2 DEF Legal, Handing
      <3>4. Owes(r) <= Owes(th[t])
        BY <2>1, <2>4, <3>2 DEF Owes, OwesNone, OwesOne
      <3> QED BY <2>2, <2>4, <3>1, <3>3, <3>4, CalmSteps
    <2>5. CASE Goes(t, Idle)
      <3>1. Owes(Idle) <= Owes(th[t])
        BY IdleIsLegal, OwesBounds
      <3> QED BY <2>2, <2>5, <3>1, IdleIsLegal, CalmSteps
    <2> QED BY <1>2, <2>3, <2>4, <2>5 DEF ShareApi
  <1> QED BY <1>1, <1>2

(* What was closed is used all the same. *)
LEMMA ClosingIsSafe ==
  ASSUME StateTypes, NEW ls, Closing(ls)
  PROVE  /\ net' \in [Links -> {"none", "up", "away", "closed"}] /\ subs' \subseteq Sub
         /\ \A l \in Links : net'[l] = IF l \in ls THEN "closed" ELSE net[l]
  BY DEF Closing, StateTypes

LEMMA DialsOf ==
  ASSUME TypeInv
  PROVE  /\ \A m \in Managed : live[m] # None => live[m] \in Dials
         /\ \A m \in Managed, d \in Dials : <<m, d>> \in Links
  BY DEF TypeInv, StateTypes, Links

LEMMA TypedTakes ==
  ASSUME TypeInv, NEW t \in Threads, CloseLive(t) \/ Release(t)
  PROVE  TypeInv'
  <1> StateTypes
    BY DEF TypeInv
  <1> USE Numbers
  <1>0. Legal(th[t]) /\ th[t] \in Thread
    BY HandsAre
  <1>1. ASSUME NEW m \in Managed, NEW r, Goes(t, r), Legal(r), r.link = Own(m), Owes(r) <= Owes(th[t]),
               live' = [live EXCEPT ![m] = None],
               UNCHANGED <<store, want, net, refused, opened, moving, feed, history>>
        PROVE  TypeInv'
    <2>1. live' \in [Managed -> {None} \cup Dials]
      BY <1>1 DEF StateTypes
    <2>2. StateTypes' /\ runs' = runs
      BY <1>1, <2>1 DEF StateTypes, feed, history
    <2>3. SameDials
      BY <1>1 DEF SameDials
    <2>4. \A n \in Managed : live'[n] = None \/ live'[n] = live[n]
      BY <1>1 DEF StateTypes
    <2>5. LiveIsUsed'
      BY <1>1, <2>4 DEF LiveIsUsed, TypeInv, Own
    <2>6. r.link[2] # None => net'[r.link] # "none"
      BY <1>1 DEF TypeInv, LiveIsUsed, Own
    <2> QED BY <1>1, <2>2, <2>3, <2>5, <2>6, OrderlySteps DEF Orderly
  <1>2. CASE CloseLive(t)
    <2>1. PICK m : m = th[t].m
      OBVIOUS
    <2>2. /\ th[t].pc = "closeLive" /\ th[t].then \in {"dial", "idle", "moved"}
          /\ th[t].run \in Managed /\ m \in Managed
      BY <1>0, <1>2, <2>1 DEF CloseLive, Legal
    <2>3. PICK r : r = [th[t] EXCEPT !.pc = "close", !.link = Own(m)]
      OBVIOUS
    <2>4. Own(m) \in Links /\ Own(m) \in (0..MaxRuns) \X (0..(2 * MaxRuns))
      BY <2>2
    <2>5. /\ r.pc = "close" /\ r.then = th[t].then /\ r.run = th[t].run /\ r.m = m
          /\ r.link = Own(m) /\ r \in Thread
      BY <1>0, <2>1, <2>3, <2>4 DEF Thread
    <2>6. Legal(r)
      BY <2>2, <2>4, <2>5 DEF Legal
    <2>7. Owes(r) <= Owes(th[t])
      <3>1. Owes(th[t]) = 2
        BY <2>2 DEF Owes, OwesNone, OwesOne
      <3> QED BY <3>1, OwesBounds
    <2>8. /\ Goes(t, r) /\ live' = [live EXCEPT ![m] = None]
          /\ UNCHANGED <<store, want, net, refused, opened, moving, feed, history>>
      BY <1>2, <2>1, <2>3 DEF CloseLive
    <2> QED BY <1>1, <2>2, <2>5, <2>6, <2>7, <2>8
  <1>3. CASE Release(t) /\ store # None
    <2>1. th[t].pc = "release" /\ th[t].run \in Managed /\ store \in Managed
      BY <1>0, <1>3 DEF Release, Legal
    <2>2. PICK r : r = [th[t] EXCEPT !.pc = "close", !.m = store, !.link = Own(store), !.then = "released"]
      OBVIOUS
    <2>3. Own(store) \in Links /\ Own(store) \in (0..MaxRuns) \X (0..(2 * MaxRuns))
      BY <2>1
    <2>4. /\ r.pc = "close" /\ r.then = "released" /\ r.run = th[t].run /\ r.m = store
          /\ r.link = Own(store) /\ r \in Thread
      BY <1>0, <2>1, <2>2, <2>3 DEF Thread
    <2>5. Legal(r)
      BY <2>1, <2>3, <2>4 DEF Legal
    <2>6. Owes(r) <= Owes(th[t])
      BY <2>1, <2>4 DEF Owes, OwesNone, OwesOne
    <2>7. /\ Goes(t, r) /\ live' = [live EXCEPT ![store] = None]
          /\ UNCHANGED <<store, want, net, refused, opened, moving, feed, history>>
      BY <1>3, <2>2 DEF Release
    <2> QED BY <1>1, <2>1, <2>4, <2>5, <2>6, <2>7
  <1>4. CASE Release(t) /\ store = None
    <2>1. Goes(t, Idle) /\ UNCHANGED <<net, live, runs>> /\ StateTypes'
      BY <1>4 DEF Release, StateTypes, feed, history
    <2>2. Owes(Idle) <= Owes(th[t])
      BY IdleIsLegal, OwesBounds
    <2> QED BY <2>1, <2>2, IdleIsLegal, CalmSteps
  <1> QED BY <1>2, <1>3, <1>4

LEMMA TypedCloses ==
  ASSUME TypeInv, NEW t \in Threads, Close(t) \/ Quicker(t)
  PROVE  TypeInv'
  <1> StateTypes
    BY DEF TypeInv
  <1> USE Numbers
  <1>0. Legal(th[t]) /\ th[t] \in Thread /\ HandIsUsed(th[t])
    BY HandsAre DEF TypeInv
  <1>1. ASSUME NEW ls, NEW r, Goes(t, r), Legal(r), Owes(r) <= Owes(th[t]), r.pc \notin Handing, Closing(ls),
               \A l \in ls : l = th[t].link \/ l[2] = 0,
               th[t].pc \in Handing,
               UNCHANGED <<store, want, live, refused, opened, moving, current, running, held, history>>
        PROVE  TypeInv'
    <2>1. StateTypes' /\ runs' = runs
      BY <1>1, ClosingIsSafe DEF StateTypes, history
    <2>2. ASSUME NEW m \in Managed, NEW d \in Dials
          PROVE  (net'[<<m, d>>] = "none") <=> (net[<<m, d>>] = "none")
      <3>1. <<m, d>> \in Links /\ d # 0
        BY RunsAreNat DEF Links, Dials
      <3>2. net'[<<m, d>>] = IF <<m, d>> \in ls THEN "closed" ELSE net[<<m, d>>]
        BY <1>1, <3>1, ClosingIsSafe
      <3>3. CASE <<m, d>> \in ls
        <4>1. th[t].link = <<m, d>>
          BY <1>1, <3>1, <3>3
        <4>2. net[<<m, d>>] # "none"
          BY <1>0, <1>1, <3>1, <4>1 DEF HandIsUsed, None
        <4> QED BY <3>2, <3>3, <4>2
      <3> QED BY <3>2, <3>3
    <2>3. SameDials
      BY <2>2 DEF SameDials
    <2>4. LiveIsUsed'
      BY <1>1, <2>2, DialsOf DEF LiveIsUsed, TypeInv, Own
    <2> QED BY <1>1, <2>1, <2>3, <2>4, OrderlySteps DEF Orderly
  <1>2. CASE Close(t)
    <2>1. /\ th[t].pc = "close" /\ th[t].then \in {"dial", "idle", "moved", "released"}
          /\ th[t].run \in Managed
      BY <1>0, <1>2 DEF Close, Legal
    <2>2. PICK r : r = IF th[t].then \in {"dial", "moved"} THEN [th[t] EXCEPT !.pc = th[t].then] ELSE Idle
      OBVIOUS
    <2>3. PICK ls : ls = {l \in {th[t].link} : l[2] # None}
                         \cup {l \in {Api(th[t].m)} : th[t].then \in {"dial", "idle"}}
      OBVIOUS
    <2>4. /\ Goes(t, r) /\ Closing(ls)
          /\ UNCHANGED <<store, want, live, refused, opened, moving, current, running, held, history>>
      BY <1>2, <2>2, <2>3 DEF Close
    <2>5. \A l \in ls : l = th[t].link \/ l[2] = 0
      BY <2>3 DEF Api
    <2>6. Legal(r) /\ r.pc \notin Handing /\ Owes(r) <= Owes(th[t])
      <3>1. CASE th[t].then \in {"dial", "moved"}
        <4>1. r.pc = th[t].then /\ r.then = th[t].then /\ r.run = th[t].run /\ r \in Thread
          BY <1>0, <2>2, <3>1 DEF Thread
        <4>2. Legal(r) /\ r.pc \notin Handing
          BY <2>1, <3>1, <4>1 DEF Legal, Handing
        <4>3. Owes(th[t]) = 2
          BY <2>1, <3>1 DEF Owes, OwesNone, OwesOne
        <4> QED BY <4>2, <4>3, OwesBounds
      <3>2. CASE th[t].then \notin {"dial", "moved"}
        <4>1. r = Idle /\ 0 <= Owes(th[t])
          BY <2>2, <3>2, OwesBounds
        <4> QED BY <4>1, IdleIsLegal
      <3> QED BY <3>1, <3>2
    <2>7. th[t].pc \in Handing
      BY <2>1 DEF Handing
    <2> QED BY <1>1, <2>4, <2>5, <2>6, <2>7
  <1>3. CASE Quicker(t)
    <2>1. th[t].pc = "dialled" /\ th[t].pc \in Handing /\ th[t].m \in Managed
      BY <1>0, <1>3 DEF Quicker, Handing, Legal
    <2>2. PICK r : r = With(th[t], Own(th[t].m))
      OBVIOUS
    <2>3. PICK ls : ls = {l \in {th[t].link} : l[2] # None}
      OBVIOUS
    <2>4. /\ Goes(t, r) /\ Closing(ls)
          /\ UNCHANGED <<store, want, live, refused, opened, moving, current, running, held, history>>
      BY <1>3, <2>2, <2>3 DEF Quicker
    <2>5. Legal(r) /\ r.pc \notin Handing /\ Owes(r) <= Owes(th[t])
      BY <1>0, <2>1, <2>2, WithIsLegal DEF Opening
    <2>6. \A l \in ls : l = th[t].link \/ l[2] = 0
      BY <2>3
    <2> QED BY <1>1, <2>1, <2>4, <2>5, <2>6
  <1> QED BY <1>2, <1>3

NextOf(m) == 1 + Cardinality({d \in Dials : net[<<m, d>>] # "none"})

(* The next number to dial is free, and within what the dials may be.       *)
LEMMA NextDial ==
  ASSUME TypeInv, NEW m \in Managed, NEW t \in Threads, Owes(th[t]) >= 1,
         NEW k, k = NextOf(m)
  PROVE  /\ k \in Dials /\ net[<<m, k>>] = "none"
         /\ \A e \in Dials : e < k => net[<<m, e>>] # "none"
         /\ \A d \in Dials : net[<<m, d>>] # "none" => d < k
  <1> DEFINE D == {d \in Dials : net[<<m, d>>] # "none"}
             P == {<<m, d>> : d \in D}
  <1>0. k = 1 + Cardinality(D)
    BY DEF NextOf
  <1>1. IsFiniteSet(D) /\ Cardinality(D) \in Nat
    <2>1. IsFiniteSet(Dials) /\ D \subseteq Dials
      BY RunsAreNat, FS_Interval DEF Dials
    <2> QED BY <2>1, FS_Subset, FS_CardinalityType
  <1>2. Cardinality(D) <= Cardinality(UsedDials)
    <2>1. P \subseteq UsedDials
      <3>1. \A d \in D : <<m, d>> \in Managed \X Dials /\ net[<<m, d>>] # "none"
        OBVIOUS
      <3>2. \A d \in D : <<m, d>> \in UsedDials
        BY <3>1 DEF UsedDials
      <3> HIDE DEF D
      <3> QED BY <3>2
    <2>2. IsFiniteSet(P) /\ Cardinality(P) <= Cardinality(UsedDials)
      BY <2>1, UsedFinite, FS_Subset
    <2>3. Cardinality(P) = Cardinality(D)
      <3> HIDE DEF D
      <3> DEFINE f == [d \in D |-> <<m, d>>]
      <3>1. f \in [D -> P] /\ DOMAIN f = D
        OBVIOUS
      <3>2. \A a, b \in D : f[a] = f[b] => a = b
        OBVIOUS
      <3>3. \A p \in P : \E d \in D : f[d] = p
        OBVIOUS
      <3> HIDE DEF f, P
      <3>4. f \in Injection(D, P)
        BY <3>1, <3>2 DEF Injection, IsInjective
      <3>5. f \in Surjection(D, P)
        BY <3>1, <3>3 DEF Surjection
      <3>6. ExistsBijection(D, P)
        BY <3>4, <3>5 DEF ExistsBijection, Bijection
      <3> QED BY <1>1, <3>6, FS_Bijection
    <2> QED BY <2>2, <2>3
  <1>3. Cardinality(UsedDials) + 1 <= 2 * runs
    <2>1. Owed[t] \in Nat /\ Owed[t] >= 1 /\ \A u \in Threads : Owed[u] \in Nat
      BY OwesType DEF Owed
    <2>2. SumOver(Owed, Threads) = Owed[t] + SumOver(Owed, Threads \ {t})
      BY <2>1, ThreadsFinite, SumRemove
    <2>3. SumOver(Owed, Threads \ {t}) \in Nat
      BY <2>1, ThreadsFinite, FS_RemoveElement, SumType
    <2>4. DialsSuffice /\ runs \in Nat
      BY DEF TypeInv, StateTypes
    <2> QED BY <2>1, <2>2, <2>3, <2>4, UsedFinite DEF DialsSuffice
  <1>4. k \in 1..(2 * MaxRuns)
    <2>1. runs \in Nat /\ runs <= MaxRuns
      BY RunsAreNat DEF TypeInv, StateTypes
    <2> QED BY <1>0, <1>1, <1>2, <1>3, <2>1, UsedFinite, RunsAreNat
  <1>5. \A d, e \in Dials : e < d /\ d \in D => e \in D
    BY DEF TypeInv, InTurn
  <1>6. ASSUME NEW d \in D PROVE d < k
    <2>1. 1..d \subseteq D
      BY <1>5, RunsAreNat DEF Dials
    <2>2. Cardinality(1..d) = d
      BY RunsAreNat, FS_Interval DEF Dials
    <2>3. Cardinality(1..d) <= Cardinality(D)
      BY <1>1, <2>1, FS_Subset
    <2> QED BY <1>0, <1>1, <2>2, <2>3, RunsAreNat DEF Dials
  <1>7. ASSUME NEW e \in Dials, e < k PROVE e \in D
    <2> SUFFICES ASSUME e \notin D PROVE FALSE
      OBVIOUS
    <2>1. e \in Nat /\ e >= 1
      BY RunsAreNat DEF Dials
    <2>2. \A d \in D : d \in 1..(e - 1)
      BY <1>5, <2>1, RunsAreNat DEF Dials
    <2>3. Cardinality(1..(e - 1)) = e - 1 /\ IsFiniteSet(1..(e - 1))
      BY <2>1, FS_Interval
    <2>4. Cardinality(D) <= e - 1
      BY <2>2, <2>3, FS_Subset
    <2>5. Cardinality(D) >= e
      BY <1>0, <1>1, <1>7, <2>1
    <2> HIDE DEF D
    <2> QED BY <1>0, <1>1, <1>7, <2>1, <2>4, <2>5
  <1>8. k \notin D
    BY <1>4, <1>6
  <1> QED BY <1>4, <1>6, <1>7, <1>8 DEF Dials

LEMMA TypedDials ==
  ASSUME TypeInv, NEW t \in Threads, DialLive(t)
  PROVE  TypeInv'
  <1> StateTypes
    BY DEF TypeInv
  <1> USE Numbers
  <1>0. Legal(th[t]) /\ th[t] \in Thread
    BY HandsAre
  <1>1. PICK m : m = th[t].m
    OBVIOUS
  <1>2. /\ th[t].pc = "dialLive" /\ th[t].then \in {"register", "swap", "start"} /\ th[t].run \in Managed /\ m \in Managed
    BY <1>0, <1>1 DEF DialLive, Legal, Opening
  <1>3. PICK k : k = NextOf(m)
    OBVIOUS
  <1>4. PICK state \in {"up", "away", "none"} :
           /\ net' = [net EXCEPT ![<<m, k>>] = state]
           /\ Goes(t, [th[t] EXCEPT !.pc = "dialled", !.again = FALSE,
                                    !.link = <<m, IF state = "none" THEN None ELSE k>>])
    BY <1>1, <1>3 DEF DialLive, NextOf
  <1>5. UNCHANGED <<store, want, live, refused, opened, moving, feed, history>>
    BY DEF DialLive
  <1>6. PICK r : r = [th[t] EXCEPT !.pc = "dialled", !.again = FALSE,
                                   !.link = <<m, IF state = "none" THEN None ELSE k>>]
    OBVIOUS
  <1>7. Owes(th[t]) >= 1 /\ Owes(r) + 1 = Owes(th[t])
    <2>1. r.pc = "dialled" /\ r.then = th[t].then
      BY <1>0, <1>6 DEF Thread
    <2>2. CASE th[t].then = "start"
      BY <1>2, <2>1, <2>2 DEF Owes, OwesNone, OwesOne
    <2>3. CASE th[t].then # "start"
      BY <1>2, <2>1, <2>3 DEF Owes, OwesNone, OwesOne
    <2> QED BY <2>2, <2>3
  <1>8. /\ k \in Dials /\ net[<<m, k>>] = "none"
        /\ \A e \in Dials : e < k => net[<<m, e>>] # "none"
        /\ \A d \in Dials : net[<<m, d>>] # "none" => d < k
    <2> HIDE DEF Owes
    <2> QED BY <1>2, <1>3, <1>7, NextDial
  <1>9. /\ r.pc = "dialled" /\ r.then = th[t].then /\ r.run = th[t].run /\ r.m = m
        /\ r.link = <<m, IF state = "none" THEN None ELSE k>> /\ r.link \in Links /\ r \in Thread
    <2>1. PICK l : l = <<m, IF state = "none" THEN None ELSE k>>
      OBVIOUS
    <2>2. l \in Links /\ l \in (0..MaxRuns) \X (0..(2 * MaxRuns))
      <3>1. l \in Links
        BY <1>2, <1>8, <2>1 DEF Links, None
      <3> QED BY <3>1
    <2>3. r = [th[t] EXCEPT !.pc = "dialled", !.again = FALSE, !.link = l]
      BY <1>6, <2>1
    <2>4. DOMAIN th[t] = Fields
      BY <1>0 DEF Thread, Fields
    <2>5. /\ r.pc = "dialled" /\ r.then = th[t].then /\ r.run = th[t].run /\ r.m = th[t].m
          /\ r.link = l /\ r.g = th[t].g /\ r.patterns = th[t].patterns /\ r.again = FALSE
      BY <2>3, <2>4 DEF Fields
    <2>6. r \in Thread
      BY <1>0, <2>2, <2>3 DEF Thread
    <2> QED BY <1>1, <2>1, <2>2, <2>5, <2>6
  <1>10. Legal(r)
    BY <1>2, <1>9 DEF Legal, Opening
  <1>11. \A l \in Links : net'[l] = IF l = <<m, k>> THEN state ELSE net[l]
    BY <1>4 DEF StateTypes
  <1>12. net' \in [Links -> {"none", "up", "away", "closed"}]
    BY <1>4 DEF StateTypes
  <1>13. StateTypes' /\ runs' = runs
    BY <1>5, <1>12 DEF StateTypes, feed, history
  <1>14. DOMAIN th' = Threads /\ \A u \in Threads : th'[u] = IF u = t THEN r ELSE th[u]
    BY <1>4, <1>6 DEF Goes, TypeInv
  <1>15. \A u \in Threads : Legal(th'[u])
    BY <1>10, <1>14 DEF TypeInv
  <1>16. DialsSuffice'
    <2>1. UsedDials' \subseteq UsedDials \cup {<<m, k>>}
      BY <1>11 DEF UsedDials, Links
    <2>2. Cardinality(UsedDials') <= Cardinality(UsedDials) + 1 /\ Cardinality(UsedDials') \in Nat
      <3>1. IsFiniteSet(UsedDials \cup {<<m, k>>})
            /\ Cardinality(UsedDials \cup {<<m, k>>}) <= Cardinality(UsedDials) + 1
        <4>1. IsFiniteSet(UsedDials) /\ Cardinality(UsedDials) \in Nat
          BY UsedFinite
        <4> HIDE DEF UsedDials
        <4>2. /\ IsFiniteSet(UsedDials \cup {<<m, k>>})
              /\ Cardinality(UsedDials \cup {<<m, k>>})
                 = IF <<m, k>> \in UsedDials THEN Cardinality(UsedDials) ELSE Cardinality(UsedDials) + 1
          BY <4>1, FS_AddElement
        <4> QED BY <4>1, <4>2
      <3>2. Cardinality(UsedDials') <= Cardinality(UsedDials \cup {<<m, k>>}) /\ IsFiniteSet(UsedDials')
        BY <2>1, <3>1, FS_Subset
      <3> QED BY <3>1, <3>2, UsedFinite, FS_CardinalityType
    <2>3. PICK rest \in Nat : /\ SumOver(Owed, Threads) = Owes(th[t]) + rest
                            /\ SumOver(Owed', Threads) = Owes(r) + rest
      BY <1>4, <1>6, OwedByOne DEF TypeInv
    <2>4. Cardinality(UsedDials) + (Owes(th[t]) + rest) <= 2 * runs
      BY <2>3 DEF TypeInv, DialsSuffice
    <2>5. Cardinality(UsedDials') + (Owes(r) + rest) <= 2 * runs
      BY <1>7, <2>2, <2>4, OwesType, UsedFinite DEF StateTypes
    <2> QED BY <1>13, <2>3, <2>5 DEF DialsSuffice
  <1>17. InTurn'
    <2> SUFFICES ASSUME NEW n \in Managed, NEW d \in Dials, NEW e \in Dials, e < d, net'[<<n, d>>] # "none"
                 PROVE  net'[<<n, e>>] # "none"
      BY DEF InTurn
    <2>1. <<n, d>> \in Links /\ <<n, e>> \in Links
      BY DEF Links
    <2>2. CASE n = m /\ d = k
      BY <1>8, <1>11, <2>1, <2>2, RunsAreNat DEF Dials
    <2>3. CASE ~(n = m /\ d = k)
      <3>1. net[<<n, d>>] # "none"
        BY <1>11, <2>1, <2>3
      <3>2. net[<<n, e>>] # "none"
        BY <3>1 DEF TypeInv, InTurn
      <3> QED BY <1>8, <1>11, <2>1, <3>2
    <2> QED BY <2>2, <2>3
  <1>18. LiveIsUsed'
    <2> SUFFICES ASSUME NEW n \in Managed, live[n] # None PROVE net'[<<n, live[n]>>] # "none"
      BY <1>5 DEF LiveIsUsed, Own
    <2>1. <<n, live[n]>> \in Links /\ net[<<n, live[n]>>] # "none"
      BY DialsOf DEF LiveIsUsed, Own, TypeInv
    <2> QED BY <1>8, <1>11, <2>1
  <1>19. ASSUME NEW u \in Threads PROVE HandIsUsed(th[u])'
    <2>1. CASE u = t
      <3>1. r.link[2] # None => net'[r.link] # "none"
        BY <1>9, <1>11
      <3> QED BY <1>14, <2>1, <3>1 DEF HandIsUsed
    <2>2. CASE u # t
      <3>1. th'[u] = th[u] /\ HandIsUsed(th[u]) /\ Legal(th[u])
        BY <1>14, <2>2 DEF TypeInv
      <3>2. SUFFICES ASSUME th[u].pc \in Handing, th[u].link[2] # None PROVE net'[th[u].link] # "none"
        BY <3>1 DEF HandIsUsed
      <3>3. th[u].link \in Links /\ net[th[u].link] # "none"
        BY <3>1, <3>2 DEF HandIsUsed, Handing, Legal
      <3> QED BY <1>8, <1>11, <3>3
    <2> QED BY <2>1, <2>2
  <1> QED BY <1>13, <1>14, <1>15, <1>16, <1>17, <1>18, <1>19 DEF TypeInv

LEMMA TypedDialled ==
  ASSUME TypeInv, DialInv, NEW t \in Threads, Refused(t) \/ Dialled(t)
  PROVE  TypeInv'
  <1> StateTypes
    BY DEF TypeInv
  <1> USE Numbers
  <1>0. Legal(th[t]) /\ th[t] \in Thread /\ HandIsUsed(th[t])
    BY HandsAre DEF TypeInv
  <1>1. th[t].pc = "dialled" /\ th[t].m \in Managed /\ th[t].link \in Links
    BY <1>0 DEF Refused, Dialled, Legal
  <1>2. CASE Refused(t)
    <2>1. Goes(t, Without(th[t])) /\ UNCHANGED <<net, live, runs>> /\ StateTypes'
      BY <1>1, <1>2 DEF Refused, StateTypes, feed, history
    <2> QED BY <1>0, <1>1, <2>1, WithoutIsLegal, CalmSteps
  <1>3. CASE Dialled(t)
    <2>1. PICK m \in Managed, d \in Dials : th[t].link = <<m, d>>
      BY <1>1, <1>3 DEF Dialled, Links, None
    <2>2. PICK r : r = With(th[t], th[t].link)
      OBVIOUS
    <2>3. /\ Goes(t, r) /\ live' = [live EXCEPT ![th[t].m] = d]
          /\ UNCHANGED <<store, want, net, refused, opened, moving, feed, history>>
      BY <1>3, <2>1, <2>2 DEF Dialled
    <2>4. Legal(r) /\ r.pc \notin Handing /\ Owes(r) <= Owes(th[t])
      BY <1>0, <1>1, <2>2, WithIsLegal DEF Opening
    <2>5. live' \in [Managed -> {None} \cup Dials]
      BY <2>3 DEF StateTypes
    <2>6. StateTypes' /\ runs' = runs
      BY <2>3, <2>5 DEF StateTypes, feed, history
    <2>7. SameDials
      BY <2>3 DEF SameDials
    <2>8. LiveIsUsed'
      <3>1. th[t].link = <<th[t].m, d>> /\ net[<<th[t].m, d>>] # "none"
        <4>1. th[t].link[2] # None /\ net[th[t].link] # "none"
          BY <1>0, <1>1, <1>3 DEF Dialled, HandIsUsed, Handing
        <4>2. th[t].link = <<th[t].m, th[t].link[2]>>
          BY <1>1 DEF DialInv, HoldsItsOwn
        <4> QED BY <2>1, <4>1, <4>2
      <3>2. \A n \in Managed : live'[n] = IF n = th[t].m THEN d ELSE live[n]
        BY <2>3 DEF StateTypes
      <3> QED BY <2>3, <3>1, <3>2 DEF LiveIsUsed, TypeInv, Own
    <2> QED BY <2>3, <2>4, <2>6, <2>7, <2>8, OrderlySteps DEF Orderly
  <1> QED BY <1>2, <1>3

(* The subscriptions of a request are well formed. *)
LEMMA NewIsTyped ==
  ASSUME NEW t \in Threads, Legal(th[t]), NEW g \in Managers, th[t].link \in Links, th[t].pc # "idle"
  PROVE  New(t, g) \subseteq Sub
  <1>1. th[t].run \in Managed /\ th[t].patterns \subseteq Patterns
    BY DEF Legal, Thread
  <1> QED BY <1>1 DEF New, Sub

LEMMA TypedStarts ==
  ASSUME TypeInv, NEW t \in Threads, StartManager(t) \/ AddManager(t)
  PROVE  TypeInv'
  <1> StateTypes
    BY DEF TypeInv
  <1> USE Numbers
  <1>0. Legal(th[t]) /\ th[t] \in Thread
    BY HandsAre
  <1>1. CASE StartManager(t)
    <2>1. PICK g : g = th[t].run
      OBVIOUS
    <2>2. th[t].pc = "start" /\ g \in Managers /\ g \in Managed /\ th[t].link \in Links
      BY <1>0, <1>1, <2>1 DEF StartManager, Legal
    <2>3. UNCHANGED <<conn, current, runs, overlaps, asked>>
      BY <1>1 DEF StartManager
    <2>4. CASE Open(th[t].link)
      <3>1. PICK new \in SUBSET Sub : new = New(t, g)
        BY <1>0, <2>2, NewIsTyped
      <3>2. PICK r : r = [th[t] EXCEPT !.pc = "add", !.g = g]
        OBVIOUS
      <3>3. /\ Goes(t, r) /\ running' = [running EXCEPT ![g] = TRUE]
            /\ subs' = subs \cup new /\ held' = [held EXCEPT ![g] = new] /\ missed' = FALSE
        BY <1>1, <2>1, <2>4, <3>1, <3>2 DEF StartManager
      <3>4. StateTypes'
        BY <2>3, <3>1, <3>3 DEF StateTypes, conn
      <3>5. r.pc = "add" /\ r.run = th[t].run /\ r.g = g /\ r \in Thread
        BY <1>0, <2>2, <3>2 DEF Thread
      <3>6. Legal(r) /\ r.pc \notin Handing
        BY <2>1, <2>2, <3>5 DEF Legal, Handing
      <3>7. Owes(r) = 0
        BY <3>5 DEF Owes, OwesNone
      <3> QED BY <2>3, <3>3, <3>4, <3>6, <3>7, OwesBounds, CalmSteps DEF conn
    <2>5. CASE ~Open(th[t].link)
      <3>1. Goes(t, Idle) /\ UNCHANGED <<net, live, runs>> /\ StateTypes'
        BY <1>1, <2>3, <2>5 DEF StartManager, StateTypes, conn
      <3>2. Owes(Idle) <= Owes(th[t])
        BY IdleIsLegal, OwesBounds
      <3> QED BY <3>1, <3>2, IdleIsLegal, CalmSteps
    <2> QED BY <2>4, <2>5
  <1>2. CASE AddManager(t)
    <2>1. th[t].pc = "add" /\ th[t].g \in Managers
      BY <1>0, <1>2 DEF AddManager, Legal
    <2>2. Goes(t, Idle) /\ UNCHANGED <<net, live, runs>> /\ StateTypes'
      BY <1>2, <2>1 DEF AddManager, StateTypes, conn, history
    <2>3. Owes(Idle) <= Owes(th[t])
      BY IdleIsLegal, OwesBounds
    <2> QED BY <2>2, <2>3, IdleIsLegal, CalmSteps
  <1> QED BY <1>1, <1>2

LEMMA GivingUpIsLegal ==
  ASSUME StateTypes, NEW t \in Threads, Legal(th[t]), th[t].pc \in {"subscribe", "starting"}, GiveUp(t)
  PROVE  \E r : Goes(t, r) /\ Legal(r) /\ r.pc \notin Handing /\ Owes(r) <= Owes(th[t])
  <1>1. CASE t = Mover
    <2>1. Goes(t, Idle) /\ 0 <= Owes(th[t])
      BY <1>1, OwesBounds DEF GiveUp
    <2> QED BY <2>1, IdleIsLegal
  <1>2. CASE t # Mover
    <2>0. th[t] \in Thread /\ th[t].run \in Managed
      BY DEF Legal
    <2>1. PICK r : r = [th[t] EXCEPT !.pc = "unmap", !.then = "restart"]
      OBVIOUS
    <2>2. r.pc = "unmap" /\ r.then = "restart" /\ r.run = th[t].run /\ r \in Thread
      BY <2>0, <2>1 DEF Thread
    <2>3. Legal(r) /\ r.pc \notin Handing
      BY <2>0, <2>2 DEF Legal, Handing
    <2>4. Owes(r) = 1 /\ Owes(th[t]) = 1
      BY <2>2 DEF Owes, OwesNone, OwesOne
    <2>5. Goes(t, r)
      BY <1>2, <2>1 DEF GiveUp
    <2> QED BY <2>3, <2>4, <2>5
  <1> QED BY <1>1, <1>2

LEMMA DoneIsLegal ==
  ASSUME StateTypes, NEW t \in Threads, Legal(th[t]), th[t].pc # "idle"
  PROVE  Legal(Done(t)) /\ Done(t).pc \notin Handing /\ Owes(Done(t)) <= Owes(th[t])
  <1>0. th[t] \in Thread /\ th[t].run \in Managed
    BY DEF Legal
  <1>1. CASE t # Mover /\ th[t].patterns = {}
    <2>1. PICK r : r = [th[t] EXCEPT !.pc = "release"]
      OBVIOUS
    <2>2. r = Done(t) /\ r.pc = "release" /\ r.run = th[t].run /\ r \in Thread
      BY <1>0, <1>1, <2>1 DEF Thread, Done
    <2>3. Legal(r) /\ r.pc \notin Handing
      BY <1>0, <2>2 DEF Legal, Handing
    <2>4. Owes(r) = 0
      BY <2>2 DEF Owes, OwesNone
    <2> QED BY <2>2, <2>3, <2>4, OwesBounds
  <1>2. CASE ~(t # Mover /\ th[t].patterns = {})
    <2>1. Done(t) = Idle /\ 0 <= Owes(th[t])
      BY <1>2, OwesBounds DEF Done
    <2> QED BY <2>1, IdleIsLegal
  <1> QED BY <1>1, <1>2

LEMMA HaltIsTyped ==
  ASSUME StateTypes, NEW g \in Managers, Halt(g)
  PROVE  running' \in [Managers -> BOOLEAN] /\ held' \in [Managers -> SUBSET Sub] /\ subs' \subseteq Sub
  BY DEF StateTypes, Halt

LEMMA TypedSwaps ==
  ASSUME TypeInv, NEW t \in Threads, Swap(t) \/ Restart(t) \/ Started(t) \/ Subscribe(t) \/ Keep(t)
  PROVE  TypeInv'
  <1> StateTypes
    BY DEF TypeInv
  <1> USE Numbers
  <1>0. Legal(th[t]) /\ th[t] \in Thread
    BY HandsAre
  <1>1. PICK g : g = th[t].g
    OBVIOUS
  <1>2. th[t].pc \in {"swap", "restarting", "starting", "subscribe", "keep"}
    BY DEF Swap, Restart, Started, Subscribe, Keep
  <1>3. th[t].run \in Managed /\ g \in Managers /\ th[t].link \in Links
    BY <1>0, <1>1, <1>2 DEF Legal
  <1>4. PICK new \in SUBSET Sub : new = New(t, g)
    BY <1>0, <1>2, <1>3, NewIsTyped
  <1>5. held[g] \in SUBSET Sub
    BY <1>3 DEF StateTypes
  <1>6. CASE Swap(t)
    <2>1. PICK pc \in {"subscribe", "restarting"} : Goes(t, [th[t] EXCEPT !.pc = pc])
      BY <1>6 DEF Swap
    <2>2. PICK r : r = [th[t] EXCEPT !.pc = pc]
      OBVIOUS
    <2>3. UNCHANGED <<conn, current, running, history>>
      BY <1>6 DEF Swap
    <2>4. held' \in [Managers -> SUBSET Sub] /\ subs' \subseteq Sub
      BY <1>1, <1>3, <1>6 DEF Swap, StateTypes
    <2>5. StateTypes' /\ UNCHANGED <<net, live, runs>>
      BY <2>3, <2>4 DEF StateTypes, conn, history
    <2>6. r.pc = pc /\ r.run = th[t].run /\ r.g = g /\ r.link = th[t].link /\ r \in Thread
      BY <1>0, <1>1, <2>1, <2>2 DEF Thread
    <2>7. Legal(r) /\ r.pc \notin Handing
      BY <1>3, <2>1, <2>6 DEF Legal, Handing
    <2>8. Owes(r) = 1 /\ Owes(th[t]) = 1
      <3>1. th[t].pc = "swap" /\ r.pc \in {"subscribe", "restarting"}
        BY <1>6, <2>1, <2>6 DEF Swap
      <3>2. ~OwesNone(r) /\ OwesOne(r)
        BY <3>1 DEF OwesNone, OwesOne
      <3>3. ~OwesNone(th[t]) /\ OwesOne(th[t])
        BY <3>1 DEF OwesNone, OwesOne
      <3> QED BY <3>2, <3>3 DEF Owes
    <2>9. Goes(t, r) /\ Owes(r) <= Owes(th[t])
      BY <2>1, <2>2, <2>8
    <2> QED BY <2>5, <2>7, <2>9, CalmSteps
  <1>7. CASE Restart(t)
    <2>1. PICK r : r = [th[t] EXCEPT !.pc = "starting"]
      OBVIOUS
    <2>2. Goes(t, r) /\ UNCHANGED <<conn, current, history>>
      BY <1>7, <2>1 DEF Restart
    <2>3. running' \in [Managers -> BOOLEAN] /\ held' \in [Managers -> SUBSET Sub] /\ subs' \subseteq Sub
      BY <1>1, <1>3, <1>7 DEF Restart, StateTypes
    <2>4. StateTypes' /\ UNCHANGED <<net, live, runs>>
      BY <2>2, <2>3 DEF StateTypes, conn, history
    <2>5. r.pc = "starting" /\ r.run = th[t].run /\ r.g = g /\ r.link = th[t].link /\ r \in Thread
      BY <1>0, <1>1, <2>1 DEF Thread
    <2>6. Legal(r) /\ r.pc \notin Handing
      BY <1>3, <2>5 DEF Legal, Handing
    <2>7. Owes(r) = 1 /\ Owes(th[t]) = 1
      BY <1>7, <2>5 DEF Restart, Owes, OwesNone, OwesOne
    <2> QED BY <2>2, <2>4, <2>6, <2>7, CalmSteps
  <1>8. CASE Started(t)
    <2>1. th[t].pc = "starting" /\ UNCHANGED <<conn, current, runs, overlaps, asked>>
      BY <1>8 DEF Started
    <2>2. CASE Goes(t, Done(t)) /\ UNCHANGED running /\ missed' = FALSE
               /\ subs' = subs \cup new /\ held' = [held EXCEPT ![g] = @ \cup new]
      <3>1. held' \in [Managers -> SUBSET Sub] /\ subs' \subseteq Sub
        BY <1>3, <1>5, <2>2 DEF StateTypes
      <3>2. StateTypes' /\ UNCHANGED <<net, live, runs>>
        BY <2>1, <2>2, <3>1 DEF StateTypes, conn
      <3> QED BY <1>0, <2>1, <2>2, <3>2, DoneIsLegal, CalmSteps
    <2>3. CASE Halt(g) /\ GiveUp(t)
      <3>1. running' \in [Managers -> BOOLEAN] /\ held' \in [Managers -> SUBSET Sub] /\ subs' \subseteq Sub
        BY <1>3, <2>3, HaltIsTyped
      <3>2. missed' \in BOOLEAN
        BY <2>3 DEF GiveUp, StateTypes
      <3>3. StateTypes' /\ UNCHANGED <<net, live, runs>>
        BY <2>1, <3>1, <3>2 DEF StateTypes, conn
      <3>4. PICK r : Goes(t, r) /\ Legal(r) /\ r.pc \notin Handing /\ Owes(r) <= Owes(th[t])
        BY <1>0, <2>1, <2>3, GivingUpIsLegal
      <3> QED BY <3>3, <3>4, CalmSteps
    <2> QED BY <1>1, <1>4, <1>8, <2>2, <2>3 DEF Started
  <1>9. CASE Subscribe(t)
    <2>1. th[t].pc = "subscribe" /\ UNCHANGED <<conn, current, running, held, runs, overlaps, asked>>
      BY <1>9 DEF Subscribe
    <2>2. CASE subs' = subs \cup new /\ missed' = FALSE /\ Goes(t, [th[t] EXCEPT !.pc = "keep"])
      <3>1. PICK r : r = [th[t] EXCEPT !.pc = "keep"]
        OBVIOUS
      <3>2. StateTypes' /\ UNCHANGED <<net, live, runs>>
        BY <1>4, <2>1, <2>2 DEF StateTypes, conn
      <3>3. r.pc = "keep" /\ r.run = th[t].run /\ r.g = g /\ r.link = th[t].link /\ r \in Thread
        BY <1>0, <1>1, <3>1 DEF Thread
      <3>4. Legal(r) /\ r.pc \notin Handing
        BY <1>3, <3>3 DEF Legal, Handing
      <3>5. Owes(r) = 0
        BY <3>3 DEF Owes, OwesNone
      <3> QED BY <2>2, <3>1, <3>2, <3>4, <3>5, OwesBounds, CalmSteps
    <2>3. CASE GiveUp(t) /\ UNCHANGED subs
      <3>1. StateTypes' /\ UNCHANGED <<net, live, runs>>
        BY <2>1, <2>3 DEF StateTypes, conn, GiveUp
      <3>2. PICK r : Goes(t, r) /\ Legal(r) /\ r.pc \notin Handing /\ Owes(r) <= Owes(th[t])
        BY <1>0, <2>1, <2>3, GivingUpIsLegal
      <3> QED BY <3>1, <3>2, CalmSteps
    <2> QED BY <1>1, <1>4, <1>9, <2>2, <2>3 DEF Subscribe
  <1>10. CASE Keep(t)
    <2>1. Goes(t, Done(t)) /\ UNCHANGED <<conn, current, running, subs, history>>
      BY <1>10 DEF Keep
    <2>2. held' \in [Managers -> SUBSET Sub]
      BY <1>1, <1>3, <1>4, <1>10 DEF Keep, StateTypes
    <2>3. StateTypes' /\ UNCHANGED <<net, live, runs>>
      BY <2>1, <2>2 DEF StateTypes, conn, history
    <2> QED BY <1>0, <1>2, <2>1, <2>3, DoneIsLegal, CalmSteps
  <1> QED BY <1>6, <1>7, <1>8, <1>9, <1>10

LEMMA TypedChanges ==
  ASSUME TypeInv, NEW t \in Threads, Changed(t) \/ ChangedToNone(t)
  PROVE  TypeInv'
  <1> StateTypes
    BY DEF TypeInv
  <1> USE Numbers
  <1>0. Legal(th[t]) /\ th[t] \in Thread
    BY HandsAre
  <1>1. th[t].pc = "change" /\ th[t].run \in Managed
    BY <1>0 DEF Changed, ChangedToNone, Legal
  <1>2. Owes(th[t]) = 2
    BY <1>1 DEF Owes, OwesNone, OwesOne
  <1>3. StateTypes' /\ UNCHANGED <<net, live, runs>>
    BY DEF Changed, ChangedToNone, StateTypes, conn, feed, history
  <1>4. ASSUME NEW r, Goes(t, r), Legal(r), r.pc \notin Handing PROVE TypeInv'
    BY <1>2, <1>3, <1>4, OwesBounds, CalmSteps
  <1>5. CASE Changed(t)
    <2>1. PICK r : r = [th[t] EXCEPT !.g = current, !.pc = "lookup"]
      OBVIOUS
    <2>2. r.pc = "lookup" /\ r.run = th[t].run /\ r \in Thread
      BY <1>0, <2>1 DEF Thread
    <2>3. Legal(r) /\ r.pc \notin Handing
      BY <1>1, <2>2 DEF Legal, Handing
    <2> QED BY <1>4, <1>5, <2>1, <2>3 DEF Changed
  <1>6. CASE ChangedToNone(t)
    <2>1. CASE ApiUp /\ current # None
      <3>1. PICK r : r = [th[t] EXCEPT !.pc = "swap", !.g = current, !.link = Api(store)]
        OBVIOUS
      <3>2. Api(store) \in Links /\ Api(store) \in (0..MaxRuns) \X (0..(2 * MaxRuns))
        BY <2>1 DEF ApiUp
      <3>3. r.pc = "swap" /\ r.run = th[t].run /\ r.g = current /\ r.link = Api(store) /\ r \in Thread
        BY <1>0, <3>1, <3>2 DEF Thread
      <3>4. Legal(r) /\ r.pc \notin Handing
        BY <1>1, <2>1, <3>2, <3>3 DEF Legal, Handing
      <3> QED BY <1>4, <1>6, <2>1, <3>1, <3>4 DEF ChangedToNone
    <2>2. CASE ~(ApiUp /\ current # None)
      <3>1. PICK r : r = [th[t] EXCEPT !.pc = "release"]
        OBVIOUS
      <3>2. r.pc = "release" /\ r.run = th[t].run /\ r \in Thread
        BY <1>0, <3>1 DEF Thread
      <3>3. Legal(r) /\ r.pc \notin Handing
        BY <1>1, <3>2 DEF Legal, Handing
      <3> QED BY <1>4, <1>6, <2>2, <3>1, <3>3 DEF ChangedToNone
    <2> QED BY <2>1, <2>2
  <1> QED BY <1>5, <1>6

(* A request begins with two dials to its name, one more than it owed. *)
LEMMA TypedBegins ==
  ASSUME TypeInv, NEW t \in Threads, Begins(t), NEW r, Goes(t, r), Legal(r), r.pc \notin Handing,
         StateTypes', UNCHANGED <<net, live>>
  PROVE  TypeInv'
  <1>1. th[t].pc = "idle" /\ runs' = runs + 1 /\ runs \in Nat
    BY DEF Begins, TypeInv, StateTypes
  <1>2. DOMAIN th' = Threads /\ \A u \in Threads : th'[u] = IF u = t THEN r ELSE th[u]
    BY DEF Goes, TypeInv
  <1>3. \A u \in Threads : Legal(th'[u])
    BY <1>2 DEF TypeInv
  <1>4. DialsSuffice'
    <2>1. PICK rest \in Nat : /\ SumOver(Owed, Threads) = Owes(th[t]) + rest
                            /\ SumOver(Owed', Threads) = Owes(r) + rest
      BY OwedByOne DEF TypeInv
    <2>2. Owes(r) <= 2 /\ 0 <= Owes(th[t]) /\ Owes(r) \in Nat /\ Owes(th[t]) \in Nat
      BY OwesType
    <2>3. UsedDials' = UsedDials /\ Cardinality(UsedDials) \in Nat
      BY UsedFinite DEF UsedDials
    <2>4. Cardinality(UsedDials) + (Owes(th[t]) + rest) <= 2 * runs
      BY <2>1 DEF TypeInv, DialsSuffice
    <2>5. Cardinality(UsedDials) + (Owes(r) + rest) <= 2 * (runs + 1)
      BY <1>1, <2>2, <2>3, <2>4
    <2> QED BY <1>1, <2>1, <2>3, <2>5 DEF DialsSuffice
  <1>5. InTurn' /\ LiveIsUsed'
    BY DEF TypeInv, InTurn, LiveIsUsed, Own
  <1>6. ASSUME NEW u \in Threads PROVE HandIsUsed(th[u])'
    BY <1>2 DEF TypeInv, HandIsUsed
  <1> QED BY <1>2, <1>3, <1>4, <1>5, <1>6 DEF TypeInv

LEMMA BeginsCounts ==
  ASSUME TypeInv, NEW t \in Threads, Begins(t)
  PROVE  /\ runs' \in 0..MaxRuns /\ runs' \in Managed /\ overlaps' \in 0..MaxOverlaps
         /\ Idle \in Thread /\ DOMAIN Idle = Fields
  <1>1. runs' \in 0..MaxRuns /\ runs' \in Managed /\ overlaps' \in 0..MaxOverlaps
    BY RunsAreNat DEF TypeInv, StateTypes, Begins, Managed
  <1> QED BY <1>1, IdleIsLegal, IdleShape DEF Legal

LEMMA TypedRequests ==
  ASSUME TypeInv, NEW t \in Requests, Request(t)
  PROVE  TypeInv'
  <1> StateTypes /\ t \in Threads
    BY DEF TypeInv, Threads
  <1> USE Numbers
  <1>1. CASE Connect(t)
    <2>1. PICK ps \in SUBSET Patterns, retry \in BOOLEAN :
             Goes(t, [Idle EXCEPT !.run = runs', !.patterns = ps, !.again = retry, !.then = "replace",
                                  !.pc = IF store = None THEN "replace" ELSE "unmap"])
      BY <1>1 DEF Connect
    <2>2. PICK r : r = [Idle EXCEPT !.run = runs', !.patterns = ps, !.again = retry, !.then = "replace",
                                    !.pc = IF store = None THEN "replace" ELSE "unmap"]
      OBVIOUS
    <2>3. Begins(t) /\ UNCHANGED <<conn, feed, asked, missed>>
      BY <1>1 DEF Connect
    <2>4. /\ r.pc = IF store = None THEN "replace" ELSE "unmap"
          /\ r.then = "replace" /\ r.run = runs' /\ r \in Thread
      <3>1. PICK p \in {"replace", "unmap"} : p = IF store = None THEN "replace" ELSE "unmap"
        OBVIOUS
      <3>2. PICK n : n = runs'
        OBVIOUS
      <3>3. n \in 0..MaxRuns /\ Idle \in Thread
        BY <2>3, <3>2, BeginsCounts
      <3>4. r = [Idle EXCEPT !.run = n, !.patterns = ps, !.again = retry, !.then = "replace", !.pc = p]
        BY <2>2, <3>1, <3>2
      <3>5. r.pc = p /\ r.then = "replace" /\ r.run = n /\ r \in Thread
        BY <3>3, <3>4 DEF Thread
      <3> QED BY <3>1, <3>2, <3>5
    <2>5. Legal(r) /\ r.pc \notin Handing
      BY <2>3, <2>4, BeginsCounts DEF Legal, Handing
    <2>6. StateTypes' /\ UNCHANGED <<net, live>>
      BY <2>3, BeginsCounts DEF StateTypes, conn, feed
    <2> QED BY <2>1, <2>2, <2>3, <2>5, <2>6, TypedBegins
  <1>2. CASE Disconnect(t)
    <2>1. PICK r : r = [Idle EXCEPT !.run = runs', !.pc = "unmap", !.then = "remove"]
      OBVIOUS
    <2>2. Begins(t) /\ Goes(t, r) /\ UNCHANGED <<conn, feed, asked, missed>>
      BY <1>2, <2>1 DEF Disconnect
    <2>3. r.pc = "unmap" /\ r.then = "remove" /\ r.run = runs' /\ r \in Thread
      BY <2>1, <2>2, BeginsCounts DEF Thread, Idle
    <2>4. Legal(r) /\ r.pc \notin Handing
      BY <2>2, <2>3, BeginsCounts DEF Legal, Handing
    <2>5. StateTypes' /\ UNCHANGED <<net, live>>
      BY <2>2, BeginsCounts DEF StateTypes, conn, feed
    <2> QED BY <2>2, <2>4, <2>5, TypedBegins
  <1>3. CASE SetSubscriptions(t)
    <2>1. PICK ps \in SUBSET Patterns :
             /\ want' = [want EXCEPT ![store] = ps] /\ asked' = ps
             /\ Goes(t, [Idle EXCEPT !.run = runs', !.pc = "change", !.patterns = ps])
      BY <1>3 DEF SetSubscriptions
    <2>2. PICK r : r = [Idle EXCEPT !.run = runs', !.pc = "change", !.patterns = ps]
      OBVIOUS
    <2>3. /\ Begins(t) /\ store # None
          /\ UNCHANGED <<store, net, live, refused, opened, moving, feed, missed>>
      BY <1>3 DEF SetSubscriptions
    <2>4. r.pc = "change" /\ r.run = runs' /\ r \in Thread
      BY <2>2, <2>3, BeginsCounts DEF Thread, Idle
    <2>5. Legal(r) /\ r.pc \notin Handing
      BY <2>3, <2>4, BeginsCounts DEF Legal, Handing
    <2>6. want' \in [Managed -> SUBSET Patterns]
      BY <2>1 DEF StateTypes
    <2>7. StateTypes' /\ UNCHANGED <<net, live>>
      BY <2>1, <2>3, <2>6, BeginsCounts DEF StateTypes, feed
    <2> QED BY <2>1, <2>2, <2>3, <2>5, <2>7, TypedBegins
  <1> QED BY <1>1, <1>2, <1>3 DEF Request

LEMMA TypedMoves ==
  ASSUME TypeInv, MoveLive \/ NoteRefusal \/ Moved
  PROVE  TypeInv'
  <1> StateTypes /\ Mover \in Threads
    BY DEF TypeInv, Threads
  <1> USE Numbers
  <1>0. Legal(th[Mover]) /\ th[Mover] \in Thread
    BY HandsAre
  <1>1. CASE MoveLive
    <2>1. PICK m \in Managed : /\ moving' = [moving EXCEPT ![m] = TRUE]
                               /\ Goes(Mover, [Idle EXCEPT !.run = runs', !.pc = "give up", !.m = m])
      BY <1>1 DEF MoveLive
    <2>2. PICK r : r = [Idle EXCEPT !.run = runs', !.pc = "give up", !.m = m]
      OBVIOUS
    <2>3. Begins(Mover) /\ UNCHANGED <<store, want, net, live, refused, opened, feed, asked, missed>>
      BY <1>1 DEF MoveLive
    <2>4. r.pc = "give up" /\ r.run = runs' /\ r.m = m /\ r \in Thread
      BY <2>2, <2>3, BeginsCounts DEF Thread, Idle
    <2>5. Legal(r) /\ r.pc \notin Handing
      BY <2>3, <2>4, BeginsCounts DEF Legal, Handing
    <2>6. moving' \in [Managed -> BOOLEAN]
      BY <2>1 DEF StateTypes
    <2>7. StateTypes' /\ UNCHANGED <<net, live>>
      BY <2>3, <2>6, BeginsCounts DEF StateTypes, feed
    <2> QED BY <2>1, <2>2, <2>3, <2>5, <2>7, TypedBegins
  <1>2. CASE NoteRefusal
    <2>1. PICK r : r = [th[Mover] EXCEPT !.pc = "closeLive", !.then = "moved"]
      OBVIOUS
    <2>2. th[Mover].pc = "give up" /\ th[Mover].run \in Managed /\ th[Mover].m \in Managed
      BY <1>0, <1>2 DEF NoteRefusal, Legal
    <2>3. r.pc = "closeLive" /\ r.then = "moved" /\ r.run = th[Mover].run /\ r.m = th[Mover].m /\ r \in Thread
      BY <1>0, <2>1 DEF Thread
    <2>4. Legal(r) /\ r.pc \notin Handing
      BY <2>2, <2>3 DEF Legal, Handing
    <2>5. Goes(Mover, r) /\ UNCHANGED <<net, live, runs>> /\ StateTypes'
      BY <1>2, <2>1, <2>2 DEF NoteRefusal, StateTypes, feed, history
    <2>6. Owes(th[Mover]) = 2
      BY <2>2 DEF Owes, OwesNone, OwesOne
    <2> QED BY <2>4, <2>5, <2>6, OwesBounds, CalmSteps
  <1>3. CASE Moved
    <2>1. th[Mover].pc = "moved" /\ th[Mover].run \in Managed
      BY <1>0, <1>3 DEF Moved, Legal
    <2>2. StateTypes' /\ UNCHANGED <<net, live, runs>>
      BY <1>3 DEF Moved, StateTypes, conn, feed
    <2>3. Owes(th[Mover]) = 2
      BY <2>1 DEF Owes, OwesNone, OwesOne
    <2>4. CASE Goes(Mover, Idle)
      BY <2>2, <2>3, <2>4, IdleIsLegal, OwesBounds, CalmSteps
    <2>5. CASE ApiUp /\ current # None /\ ~Goes(Mover, Idle)
      <3>1. PICK ps : ps = IF want[store] = {} THEN {All} ELSE want[store]
        OBVIOUS
      <3>2. ps \subseteq Patterns
        BY <2>5, <3>1, PatternsAssumption DEF ApiUp, StateTypes
      <3>3. PICK r : r = [th[Mover] EXCEPT !.pc = "swap", !.g = current, !.link = Api(store), !.patterns = ps]
        OBVIOUS
      <3>4. Goes(Mover, r)
        BY <1>3, <2>5, <3>1, <3>3 DEF Moved
      <3>5. Api(store) \in Links /\ Api(store) \in (0..MaxRuns) \X (0..(2 * MaxRuns))
        BY <2>5 DEF ApiUp
      <3>6. r.pc = "swap" /\ r.run = th[Mover].run /\ r.g = current /\ r.link = Api(store) /\ r \in Thread
        BY <1>0, <3>2, <3>3, <3>5 DEF Thread
      <3>7. Legal(r) /\ r.pc \notin Handing
        BY <2>1, <2>5, <3>5, <3>6 DEF Legal, Handing
      <3> QED BY <2>2, <2>3, <3>4, <3>7, OwesBounds, CalmSteps
    <2> QED BY <1>3, <2>4, <2>5 DEF Moved
  <1> QED BY <1>1, <1>2, <1>3

LEMMA TypedLinks ==
  ASSUME TypeInv, NEW l \in Links, Drop(l) \/ Back(l) \/ Expire(l)
  PROVE  TypeInv'
  <1> StateTypes
    BY DEF TypeInv
  <1>1. \A j \in Links : net'[j] = "none" <=> net[j] = "none"
    BY DEF Drop, Back, Expire, Closing, StateTypes
  <1>2. UNCHANGED <<th, live>> /\ runs' >= runs /\ runs' \in 0..MaxRuns /\ runs \in 0..MaxRuns
    BY RunsAreNat DEF Drop, Back, Expire, history, StateTypes
  <1>3. net' \in [Links -> {"none", "up", "away", "closed"}]
    BY DEF Drop, Back, Expire, Closing, StateTypes
  <1>4. StateTypes'
    <2>1. CASE Drop(l) \/ Back(l)
      BY <1>3, <2>1 DEF Drop, Back, StateTypes, feed, history
    <2>2. CASE Expire(l)
      BY <1>2, <1>3, <2>2 DEF Expire, Closing, StateTypes
    <2> QED BY <2>1, <2>2
  <1>5. \A m \in Managed, d \in Dials : <<m, d>> \in Links
    BY DialsOf
  <1>6. DialsSuffice'
    <2>1. UsedDials' = UsedDials
      BY <1>1, <1>5 DEF UsedDials
    <2>2. Owed' = Owed
      BY <1>2 DEF Owed
    <2>3. SumOver(Owed, Threads) \in Nat
      BY ThreadsFinite, OwesType, SumType DEF Owed
    <2>4. SumOver(Owed', Threads) = SumOver(Owed, Threads)
      BY <2>2
    <2>5. Cardinality(UsedDials) + SumOver(Owed, Threads) <= 2 * runs'
      BY <1>2, <2>3, UsedFinite, RunsAreNat DEF TypeInv, DialsSuffice
    <2> QED BY <2>1, <2>4, <2>5 DEF DialsSuffice
  <1>7. InTurn'
    BY <1>1, <1>5 DEF TypeInv, InTurn
  <1>8. LiveIsUsed'
    BY <1>1, <1>2, <1>5, DialsOf DEF TypeInv, LiveIsUsed, Own
  <1>9. ASSUME NEW u \in Threads PROVE HandIsUsed(th[u])'
    <2>1. Legal(th[u]) /\ HandIsUsed(th[u]) /\ th'[u] = th[u]
      BY <1>2 DEF TypeInv
    <2>2. SUFFICES ASSUME th[u].pc \in Handing, th[u].link[2] # None PROVE net'[th[u].link] # "none"
      BY <2>1 DEF HandIsUsed
    <2>3. th[u].link \in Links
      BY <2>1, <2>2 DEF Handing, Legal
    <2> QED BY <1>1, <2>1, <2>2, <2>3 DEF HandIsUsed
  <1> QED BY <1>2, <1>4, <1>6, <1>7, <1>8, <1>9 DEF TypeInv

LEMMA TypedStep ==
  ASSUME TypeInv, DialInv, NEW t \in Threads, Step(t)
  PROVE  TypeInv'
  <1>1. CASE Unmap(t) \/ Stop(t) \/ Remove(t)
    BY <1>1, TypedStops
  <1>2. CASE DialFails(t) \/ Dial(t) \/ Register(t) \/ Lookup(t)
    BY <1>2, TypedConnects
  <1>3. CASE OpenLive(t) \/ ShareApi(t)
    BY <1>3, TypedOpens
  <1>4. CASE CloseLive(t) \/ Release(t)
    BY <1>4, TypedTakes
  <1>5. CASE Close(t) \/ Quicker(t)
    BY <1>5, TypedCloses
  <1>6. CASE DialLive(t)
    BY <1>6, TypedDials
  <1>7. CASE Refused(t) \/ Dialled(t)
    BY <1>7, TypedDialled
  <1>8. CASE StartManager(t) \/ AddManager(t)
    BY <1>8, TypedStarts
  <1>9. CASE Swap(t) \/ Restart(t) \/ Started(t) \/ Subscribe(t) \/ Keep(t)
    BY <1>9, TypedSwaps
  <1>10. CASE Changed(t) \/ ChangedToNone(t)
    BY <1>10, TypedChanges
  <1> QED BY <1>1, <1>2, <1>3, <1>4, <1>5, <1>6, <1>7, <1>8, <1>9, <1>10 DEF Step

LEMMA TypedStays == ASSUME TypeInv, UNCHANGED vars PROVE TypeInv'
  <1>1. StateTypes' /\ DOMAIN th' = Threads /\ UNCHANGED <<net, live, th, runs>>
    BY DEF TypeInv, StateTypes, vars, conn, feed, history
  <1>2. DialsSuffice'
    <2>1. UsedDials' = UsedDials /\ Owed' = Owed
      BY <1>1 DEF UsedDials, Owed
    <2>2. SumOver(Owed', Threads) = SumOver(Owed, Threads)
      BY <2>1
    <2> QED BY <1>1, <2>1, <2>2 DEF TypeInv, DialsSuffice
  <1>3. InTurn' /\ LiveIsUsed'
    BY <1>1 DEF TypeInv, InTurn, LiveIsUsed, Own
  <1>4. \A t \in Threads : HandIsUsed(th[t])'
    BY <1>1 DEF TypeInv, HandIsUsed
  <1> QED BY <1>1, <1>2, <1>3, <1>4 DEF TypeInv

LEMMA NothingAddsUp ==
  ASSUME NEW f, NEW S, IsFiniteSet(S), \A x \in S : f[x] = 0
  PROVE  SumOver(f, S) = 0
  <1> DEFINE F == {T \in SUBSET S : SumOver(f, T) = 0}
  <1>1. {} \in F
    BY FS_EmptySet, SumUnrolls
  <1>2. ASSUME NEW T \in SUBSET S, T # {}, \A x \in T : T \ {x} \in F PROVE T \in F
    <2>1. First(T) \in T /\ IsFiniteSet(T)
      BY <1>2, FirstIn, FS_Subset
    <2>2. SumOver(f, T) = f[First(T)] + SumOver(f, T \ {First(T)})
      BY <1>2, <2>1, SumUnrolls
    <2>3. f[First(T)] = 0 /\ SumOver(f, T \ {First(T)}) = 0
      BY <1>2, <2>1
    <2> QED BY <2>2, <2>3
  <1>3. S \in F
    <2> HIDE DEF F
    <2> QED BY <1>1, <1>2, SetInduction
  <1> QED BY <1>3

LEMMA InitTyped == Init => TypeInv
  <1> SUFFICES ASSUME Init PROVE TypeInv
    OBVIOUS
  <1>1. StateTypes
    <2>1. runs \in 0..MaxRuns /\ overlaps \in 0..MaxOverlaps
      BY RunsAreNat DEF Init
    <2> QED BY <2>1 DEF Init, StateTypes
  <1>2. DOMAIN th = Threads /\ \A t \in Threads : th[t] = Idle
    BY DEF Init
  <1>3. \A t \in Threads : Legal(th[t])
    BY <1>2, IdleIsLegal
  <1>4. DialsSuffice
    <2>1. UsedDials = {}
      BY DEF UsedDials, Init, Links
    <2>2. Cardinality(UsedDials) = 0
      BY <2>1, FS_EmptySet
    <2>3. SumOver(Owed, Threads) = 0
      <3>1. \A t \in Threads : Owed[t] = 0
        BY <1>2, IdleIsLegal DEF Owed
      <3> QED BY <3>1, ThreadsFinite, NothingAddsUp
    <2> QED BY <2>2, <2>3 DEF Init, DialsSuffice
  <1>5. InTurn /\ LiveIsUsed
    BY DEF Init, InTurn, LiveIsUsed, Own, Links, None
  <1>6. \A t \in Threads : HandIsUsed(th[t])
    BY <1>2, IdleIsLegal DEF HandIsUsed
  <1> QED BY <1>1, <1>2, <1>3, <1>4, <1>5, <1>6 DEF TypeInv
-----------------------------------------------------------------------------
(* While no two requests have overlapped, one goroutine works, and where it *)
(* is says what the others find when it is done.                            *)
Leaves(r)  == r.pc \in {"closeLive", "close"} /\ r.then \in {"dial", "idle"}
Arrives(r) == r.pc \in Opening \cup {"register"} /\ r.then = "register"
Serves(r)  == \/ r.pc \in {"change", "lookup", "restart", "api", "start", "add", "swap", "subscribe", "keep", "release"}
              \/ r.pc \in Opening /\ r.then \in {"swap", "start"}
              \/ r.pc \in {"unmap", "stop"} /\ r.then = "restart"
Anew(r)    == \/ r.pc \in {"restart", "start", "add"}
              \/ r.pc \in Opening \cup {"api"} /\ r.then = "start"
Moves(r)   == r.pc \in {"give up", "moved"} \/ (r.pc \in {"closeLive", "close"} /\ r.then = "moved")
Swapping   == {"swap", "subscribe", "keep"}

(* Whose connections may be open, and which manager may run.                *)
Home(r)   == IF Leaves(r) \/ Arrives(r) THEN r.m ELSE store
Holder(r) == IF r.pc \in {"stop", "add"} THEN r.g ELSE current

LinksInOrder(r) ==
    /\ \A l \in Links : Open(l) => l[1] = Home(r)
    /\ \A m \in Managed : live[m] # None => opened[m]
    /\ \A m \in Managed : live[m] # None /\ refused[m] => r.pc = "closeLive" /\ r.then = "moved" /\ r.m = m

FeedInOrder(r) ==
    /\ \A g \in Managers : running[g] <=> g = Holder(r)
    /\ \A s \in subs : s.mgr = Holder(r) /\ s.link[1] = Home(r)
    /\ r.pc # "keep" => \A s \in subs : s \in held[s.mgr]
    /\ r.pc = "keep" => \A s \in subs : s.run = r.run /\ s.link = r.link /\ s.pattern \in r.patterns
    /\ r.pc = "subscribe" => subs = {}

(* Where the goroutine is, with what is listed.                             *)
PlaceInOrder(r) ==
    /\ store = None => current = None
    /\ r.pc \notin {"restarting", "starting"}
    /\ r.pc \in {"remove", "replace", "dial", "stop"} \/ Leaves(r) \/ Arrives(r) \/ Anew(r) => current = None
    /\ r.pc = "dial" \/ Leaves(r) \/ Arrives(r) => store = None
    /\ Serves(r) \/ Moves(r) \/ (r.pc = "close" /\ r.then = "released") => store # None
    /\ r.pc \in Opening /\ r.then \in {"swap", "start"} => r.m = store
    /\ (Moves(r) /\ r.pc # "moved") \/ (r.pc = "close" /\ r.then = "released") => r.m = store
    /\ r.pc \in Swapping \cup {"lookup"} \/ (r.pc \in Opening \cup {"api"} /\ r.then = "swap") => r.g = current
    /\ r.pc \in Swapping => current # None

DialInOrder(r) ==
    /\ r.pc = "close" => live[r.m] = None
    /\ r.pc \in {"moved", "api"} => live[store] = None
    /\ r.pc \in {"dialLive", "dialled"} => opened[r.m] /\ ~refused[r.m]
    /\ r.pc = "dialLive" /\ ~r.again => live[r.m] = None
    /\ r.pc = "dialled" /\ r.link[2] = None => live[r.m] = None

Chosen(ps) == IF ps = {} THEN {All} ELSE ps

(* The patterns the goroutine works for are those chosen last.              *)
AskedInOrder(t, r) ==
    /\ Serves(r) => asked = r.patterns
    /\ Serves(r) /\ r.pc \notin Swapping \cup {"change", "release"} => asked # {}
    /\ r.pc = "release" \/ (r.pc = "close" /\ r.then = "released") => asked = {}
    /\ Moves(r) => asked # {}
    /\ r.pc = "change" => t # Mover
    /\ t = Mover /\ r.pc \in Swapping => asked # {}
    /\ store # None /\ asked = {} /\ live[store] # None => r.pc \in Swapping \cup {"change", "release"}
    /\ store # None /\ asked # {} => asked = Chosen(want[store])
    /\ Arrives(r) => want[r.m] = r.patterns
    /\ r.pc \in Swapping \cup {"start", "add"} /\ r.patterns # {} => r.link = Carrier

(* One subscription for each pattern, made by one request.                  *)
Fed(r) == \E q \in Managed :
             subs = {[run |-> q, mgr |-> Holder(r), link |-> Carrier, pattern |-> p] : p \in asked}

FedInOrder(r) ==
    /\ r.pc \in {"idle", "add", "keep", "release"} \/ (r.pc = "close" /\ r.then = "released")
    /\ store # None /\ ~missed
    => Holder(r) # None /\ Fed(r)

Sound(t, r) == /\ LinksInOrder(r) /\ FeedInOrder(r) /\ PlaceInOrder(r) /\ DialInOrder(r)
               /\ AskedInOrder(t, r) /\ FedInOrder(r)

Alone(t) == \A u \in Threads : u # t => th[u].pc = "idle"

OneWorks == overlaps = 0 => \E t \in Threads : Alone(t) /\ Sound(t, th[t])

LEMMA AloneStays ==
  ASSUME DOMAIN th = Threads, NEW t \in Threads, Alone(t), NEW r, Goes(t, r), Sound(t, r)'
  PROVE  OneWorks'
  <1>1. th'[t] = r /\ \A u \in Threads : u # t => th'[u] = th[u]
    BY DEF Goes
  <1>2. Alone(t)'
    BY <1>1 DEF Alone
  <1>3. /\ LinksInOrder(r)' /\ FeedInOrder(r)' /\ PlaceInOrder(r)' /\ DialInOrder(r)'
        /\ AskedInOrder(t, r)' /\ FedInOrder(r)'
    BY DEF Sound
  <1>4. LinksInOrder(th[t])'
    BY <1>1, <1>3 DEF LinksInOrder, Home, Leaves, Arrives, Open
  <1>5. FeedInOrder(th[t])'
    BY <1>1, <1>3 DEF FeedInOrder, Home, Holder, Leaves, Arrives
  <1>6. PlaceInOrder(th[t])'
    BY <1>1, <1>3 DEF PlaceInOrder, Leaves, Arrives, Serves, Anew, Moves
  <1>7. DialInOrder(th[t])'
    BY <1>1, <1>3 DEF DialInOrder
  <1>8. AskedInOrder(t, th[t])'
    BY <1>1, <1>3 DEF AskedInOrder, Serves, Moves, Arrives
  <1>9. FedInOrder(th[t])'
    BY <1>1, <1>3 DEF FedInOrder, Holder, Fed
  <1> QED BY <1>2, <1>4, <1>5, <1>6, <1>7, <1>8, <1>9 DEF OneWorks, Sound
-----------------------------------------------------------------------------
(* One lemma for each step: the goroutine that works finds everything in    *)
(* order for where it is, and leaves it in order for where it goes.         *)
LEMMA SoundUnmap ==
  ASSUME TypeInv, NEW t \in Threads, Sound(t, th[t]), Unmap(t)
  PROVE  \E r : Goes(t, r) /\ Sound(t, r)'
  <1> USE Numbers
  <1>1. PICK x : x = th[t]
    OBVIOUS
  <1>2. Legal(x) /\ x \in Thread /\ StateTypes
    BY <1>1, HandsAre DEF TypeInv
  <1>3. /\ LinksInOrder(x) /\ FeedInOrder(x) /\ PlaceInOrder(x) /\ DialInOrder(x)
        /\ AskedInOrder(t, x) /\ FedInOrder(x)
    BY <1>1 DEF Sound
  <1>4. PICK r : r = [x EXCEPT !.g = current, !.pc = IF current = None THEN x.then ELSE "stop"]
    OBVIOUS
  <1>5. /\ x.pc = "unmap" /\ current' = None /\ Goes(t, r)
        /\ UNCHANGED <<store, want, net, live, refused, opened, running, held, subs, asked, missed>>
    BY <1>1, <1>4 DEF Unmap, conn, history
  <1>6. x.then \in {"replace", "remove", "restart"}
    BY <1>2, <1>5 DEF Legal
  <1>7. /\ r.pc = IF current = None THEN x.then ELSE "stop"
        /\ r.then = x.then /\ r.run = x.run /\ r.m = x.m /\ r.g = current /\ r.link = x.link /\ r.patterns = x.patterns
    BY <1>2, <1>4 DEF Thread
  <1>8. LinksInOrder(r)'
    BY <1>2, <1>3, <1>5, <1>6, <1>7 DEF LinksInOrder, Home, Leaves, Arrives, Opening, Open
  <1>9. FeedInOrder(r)'
    BY <1>2, <1>3, <1>5, <1>6, <1>7 DEF FeedInOrder, Home, Holder, Leaves, Arrives, Opening
  <1>10. PlaceInOrder(r)'
    BY <1>2, <1>3, <1>5, <1>6, <1>7 DEF PlaceInOrder, Leaves, Arrives, Serves, Anew, Moves, Opening, Swapping
  <1>11. DialInOrder(r)'
    BY <1>2, <1>3, <1>5, <1>6, <1>7 DEF DialInOrder
  <1>12. AskedInOrder(t, r)'
    BY <1>2, <1>3, <1>5, <1>6, <1>7 DEF AskedInOrder, Serves, Moves, Arrives, Opening, Swapping, Carrier
  <1>13. FedInOrder(r)'
    BY <1>2, <1>3, <1>5, <1>6, <1>7 DEF FedInOrder, Holder, Fed, Carrier, Own, Api
  <1> QED BY <1>5, <1>8, <1>9, <1>10, <1>11, <1>12, <1>13 DEF Sound

LEMMA SoundStop ==
  ASSUME TypeInv, NEW t \in Threads, Sound(t, th[t]), Stop(t)
  PROVE  \E r : Goes(t, r) /\ Sound(t, r)'
  <1> USE Numbers
  <1>1. PICK x : x = th[t]
    OBVIOUS
  <1>2. Legal(x) /\ x \in Thread /\ StateTypes
    BY <1>1, HandsAre DEF TypeInv
  <1>3. /\ LinksInOrder(x) /\ FeedInOrder(x) /\ PlaceInOrder(x) /\ DialInOrder(x)
        /\ AskedInOrder(t, x) /\ FedInOrder(x)
    BY <1>1 DEF Sound
  <1>4. PICK r : r = [x EXCEPT !.pc = x.then]
    OBVIOUS
  <1>5. /\ x.pc = "stop" /\ Goes(t, r) /\ Halt(x.g)
        /\ UNCHANGED <<store, want, net, live, refused, opened, current, asked, missed>>
    BY <1>1, <1>4 DEF Stop, conn, history
  <1>6. x.then \in {"replace", "remove", "restart"} /\ x.g \in Managers
    BY <1>2, <1>5 DEF Legal
  <1>7. /\ r.pc = x.then /\ r.then = x.then /\ r.run = x.run /\ r.m = x.m /\ r.g = x.g /\ r.link = x.link
        /\ r.patterns = x.patterns
    BY <1>2, <1>4 DEF Thread
  <1>8. subs' = {} /\ \A g \in Managers : ~running'[g]
    <2>1. running[x.g] /\ \A g \in Managers : running[g] => g = x.g
      BY <1>3, <1>5, <1>6 DEF FeedInOrder, Holder
    <2>2. \A s \in subs : s \in held[x.g]
      BY <1>3, <1>5 DEF FeedInOrder, Holder
    <2> QED BY <1>2, <1>5, <1>6, <2>1, <2>2 DEF Halt, StateTypes
  <1>9. LinksInOrder(r)'
    BY <1>2, <1>3, <1>5, <1>6, <1>7, <1>8 DEF LinksInOrder, Home, Leaves, Arrives, Opening, Open
  <1>10. FeedInOrder(r)'
    BY <1>2, <1>3, <1>5, <1>6, <1>7, <1>8 DEF FeedInOrder, PlaceInOrder, Holder
  <1>11. PlaceInOrder(r)'
    BY <1>2, <1>3, <1>5, <1>6, <1>7, <1>8 DEF PlaceInOrder, Leaves, Arrives, Serves, Anew, Moves, Opening, Swapping
  <1>12. DialInOrder(r)'
    BY <1>2, <1>3, <1>5, <1>6, <1>7, <1>8 DEF DialInOrder
  <1>13. AskedInOrder(t, r)'
    BY <1>2, <1>3, <1>5, <1>6, <1>7, <1>8 DEF AskedInOrder, Serves, Moves, Arrives, Opening, Swapping, Carrier
  <1>14. FedInOrder(r)'
    BY <1>2, <1>3, <1>5, <1>6, <1>7, <1>8 DEF FedInOrder, Holder, Fed, Carrier, Own, Api
  <1> QED BY <1>5, <1>9, <1>10, <1>11, <1>12, <1>13, <1>14 DEF Sound

LEMMA SoundRemove ==
  ASSUME TypeInv, NEW t \in Threads, Sound(t, th[t]), Remove(t)
  PROVE  \E r : Goes(t, r) /\ Sound(t, r)'
  <1> USE Numbers
  <1>1. PICK x : x = th[t]
    OBVIOUS
  <1>2. Legal(x) /\ x \in Thread /\ StateTypes
    BY <1>1, HandsAre DEF TypeInv
  <1>3. /\ LinksInOrder(x) /\ FeedInOrder(x) /\ PlaceInOrder(x) /\ DialInOrder(x)
        /\ AskedInOrder(t, x) /\ FedInOrder(x)
    BY <1>1 DEF Sound
  <1>4. PICK r : r = IF store # None
                     THEN [x EXCEPT !.pc = "closeLive", !.m = store,
                                    !.then = IF x.pc = "replace" THEN "dial" ELSE "idle"]
                     ELSE IF x.pc = "replace" THEN [x EXCEPT !.pc = "dial"] ELSE Idle
    OBVIOUS
  <1>5. /\ x.pc \in {"remove", "replace"} /\ Goes(t, r) /\ store' = None
        /\ UNCHANGED <<want, net, live, refused, opened, current, running, held, subs, asked, missed>>
    BY <1>1, <1>4 DEF Remove, feed, history
  <1>6. current = None /\ subs = {}
    <2>1. current = None
      BY <1>3, <1>5 DEF PlaceInOrder
    <2>2. \A s \in subs : s.mgr = None /\ s \in Sub
      BY <1>2, <1>3, <1>5, <2>1 DEF FeedInOrder, Holder, StateTypes
    <2> QED BY <1>2, <2>1, <2>2 DEF Sub
  <1>7. \/ /\ store # None /\ r.pc = "closeLive" /\ r.then \in {"dial", "idle"} /\ r.m = store
        \/ store = None /\ r.pc \in {"dial", "idle"}
    BY <1>2, <1>4, <1>5, IdleShape DEF Thread
  <1>8. LinksInOrder(r)'
    BY <1>2, <1>3, <1>5, <1>6, <1>7 DEF LinksInOrder, Home, Leaves, Arrives, Opening, Open
  <1>9. FeedInOrder(r)'
    BY <1>2, <1>3, <1>5, <1>6, <1>7 DEF FeedInOrder, Home, Holder, Leaves, Arrives, Opening
  <1>10. PlaceInOrder(r)'
    BY <1>2, <1>3, <1>5, <1>6, <1>7 DEF PlaceInOrder, Leaves, Arrives, Serves, Anew, Moves, Opening, Swapping
  <1>11. DialInOrder(r)'
    BY <1>2, <1>3, <1>5, <1>6, <1>7 DEF DialInOrder
  <1>12. AskedInOrder(t, r)'
    BY <1>2, <1>3, <1>5, <1>6, <1>7 DEF AskedInOrder, Serves, Moves, Arrives, Opening, Swapping, Carrier
  <1>13. FedInOrder(r)'
    BY <1>2, <1>3, <1>5, <1>6, <1>7 DEF FedInOrder, Holder, Fed, Carrier, Own, Api
  <1> QED BY <1>5, <1>8, <1>9, <1>10, <1>11, <1>12, <1>13 DEF Sound

LEMMA SoundCloseLive ==
  ASSUME TypeInv, NEW t \in Threads, Sound(t, th[t]), CloseLive(t)
  PROVE  \E r : Goes(t, r) /\ Sound(t, r)'
  <1> USE Numbers
  <1>1. PICK x : x = th[t]
    OBVIOUS
  <1>2. Legal(x) /\ x \in Thread /\ StateTypes
    BY <1>1, HandsAre DEF TypeInv
  <1>3. /\ LinksInOrder(x) /\ FeedInOrder(x) /\ PlaceInOrder(x) /\ DialInOrder(x)
        /\ AskedInOrder(t, x) /\ FedInOrder(x)
    BY <1>1 DEF Sound
  <1>4. PICK r : r = [x EXCEPT !.pc = "close", !.link = Own(x.m)]
    OBVIOUS
  <1>5. /\ x.pc = "closeLive" /\ Goes(t, r) /\ live' = [live EXCEPT ![x.m] = None]
        /\ UNCHANGED <<store, want, net, refused, opened, current, running, held, subs, asked, missed>>
    BY <1>1, <1>4 DEF CloseLive, feed, history
  <1>6. x.then \in {"dial", "idle", "moved"} /\ x.m \in Managed
    BY <1>2, <1>5 DEF Legal
  <1>7. r.pc = "close" /\ r.then = x.then /\ r.m = x.m
    BY <1>2, <1>4 DEF Thread
  <1>8. \A m \in Managed : live'[m] = IF m = x.m THEN None ELSE live[m]
    BY <1>2, <1>5 DEF StateTypes
  <1>9. LinksInOrder(r)'
    BY <1>2, <1>3, <1>5, <1>6, <1>7, <1>8 DEF LinksInOrder, Home, Leaves, Arrives, Opening, Open
  <1>10. FeedInOrder(r)'
    BY <1>2, <1>3, <1>5, <1>6, <1>7, <1>8 DEF FeedInOrder, Home, Holder, Leaves, Arrives, Opening
  <1>11. PlaceInOrder(r)'
    BY <1>2, <1>3, <1>5, <1>6, <1>7, <1>8 DEF PlaceInOrder, Leaves, Arrives, Serves, Anew, Moves, Opening, Swapping
  <1>12. DialInOrder(r)'
    BY <1>2, <1>3, <1>5, <1>6, <1>7, <1>8 DEF DialInOrder
  <1>13. AskedInOrder(t, r)'
    BY <1>2, <1>3, <1>5, <1>6, <1>7, <1>8 DEF AskedInOrder, Serves, Moves, Arrives, Opening, Swapping, Carrier
  <1>14. FedInOrder(r)'
    BY <1>2, <1>3, <1>5, <1>6, <1>7, <1>8 DEF FedInOrder, Holder, Fed, Carrier, Own, Api
  <1> QED BY <1>5, <1>9, <1>10, <1>11, <1>12, <1>13, <1>14 DEF Sound

LEMMA SoundClose ==
  ASSUME TypeInv, NEW t \in Threads, DialInv, Alone(t), Sound(t, th[t]), Close(t)
  PROVE  \E r : Goes(t, r) /\ Sound(t, r)'
  <1> USE Numbers
  <1>1. PICK x : x = th[t]
    OBVIOUS
  <1>2. Legal(x) /\ x \in Thread /\ StateTypes
    BY <1>1, HandsAre DEF TypeInv
  <1>3. /\ LinksInOrder(x) /\ FeedInOrder(x) /\ PlaceInOrder(x) /\ DialInOrder(x)
        /\ AskedInOrder(t, x) /\ FedInOrder(x)
    BY <1>1 DEF Sound
  <1>4. PICK r : r = IF x.then \in {"dial", "moved"} THEN [x EXCEPT !.pc = x.then] ELSE Idle
    OBVIOUS
  <1>5. PICK ls : ls = {l \in {x.link} : l[2] # None} \cup {l \in {Api(x.m)} : x.then \in {"dial", "idle"}}
    OBVIOUS
  <1>6. /\ x.pc = "close" /\ Goes(t, r) /\ Closing(ls)
        /\ UNCHANGED <<store, want, live, refused, opened, current, running, held, asked, missed>>
    BY <1>1, <1>4, <1>5 DEF Close, history
  <1>7. x.then \in {"dial", "idle", "moved", "released"} /\ x.m \in Managed
    BY <1>2, <1>6 DEF Legal
  <1>8. r.pc = IF x.then \in {"dial", "moved"} THEN x.then ELSE "idle"
    BY <1>2, <1>4, IdleShape DEF Thread
  <1>9. subs' \subseteq subs /\ \A l \in Links : Open(l)' => Open(l) /\ l \notin ls
    BY <1>2, <1>6 DEF Closing, Open
  <1>10. ASSUME x.then \in {"dial", "idle"}, NEW l \in Links, Open(l)' PROVE FALSE
    <2>1. Open(l) /\ l \notin ls
      BY <1>9, <1>10
    <2>2. l[1] = x.m
      BY <1>3, <1>6, <1>10, <2>1 DEF LinksInOrder, Home, Leaves
    <2>3. PICK k \in {0} \cup Dials : l = <<x.m, k>>
      <3>1. l = <<l[1], l[2]>> /\ l[2] \in {0} \cup Dials
        BY DEF Links
      <3> QED BY <2>2, <3>1
    <2>4. k # 0
      BY <1>5, <1>10, <2>1, <2>3 DEF Api
    <2>5. live[x.m] # k
      BY <1>3, <1>6, <2>4 DEF DialInOrder, None
    <2>6. PICK u \in Threads : th[u].pc \in {"dialled", "close"} /\ th[u].link = l
      BY <1>7, <2>1, <2>3, <2>4, <2>5 DEF DialInv, OneLiveConnection
    <2>7. u = t
      BY <2>6 DEF Alone
    <2>8. l \in ls
      BY <1>1, <1>5, <2>3, <2>4, <2>6, <2>7 DEF None
    <2> QED BY <2>1, <2>8
  <1>11. LinksInOrder(r)'
    BY <1>2, <1>3, <1>6, <1>7, <1>8, <1>9, <1>10 DEF LinksInOrder, Home, Leaves, Arrives, Opening
  <1>12. FeedInOrder(r)'
    <2>1. Leaves(x) => subs = {}
      <3>1. Leaves(x) => \A s \in subs : s.mgr = None /\ s \in Sub
        BY <1>2, <1>3, <1>6 DEF FeedInOrder, PlaceInOrder, Holder, StateTypes
      <3> QED BY <1>2, <3>1 DEF Sub
    <2> QED BY <1>2, <1>3, <1>6, <1>7, <1>8, <1>9, <2>1 DEF FeedInOrder, Home, Holder, Leaves, Arrives, Opening
  <1>13. PlaceInOrder(r)'
    BY <1>2, <1>3, <1>6, <1>7, <1>8, <1>9 DEF PlaceInOrder, Leaves, Arrives, Serves, Anew, Moves, Opening, Swapping
  <1>14. DialInOrder(r)'
    BY <1>2, <1>3, <1>6, <1>7, <1>8 DEF DialInOrder, PlaceInOrder, Moves
  <1>15. AskedInOrder(t, r)'
    BY <1>2, <1>3, <1>6, <1>7, <1>8, <1>9 DEF AskedInOrder, Serves, Moves, Arrives, Opening, Swapping, Carrier
  <1>16. FedInOrder(r)'
    <2>1. CASE x.then = "released"
      <3>1. subs = {} \/ missed \/ store = None
        BY <1>3, <1>6, <2>1 DEF FedInOrder, Fed, AskedInOrder
      <3>2. asked = {} /\ (~missed /\ store # None => current # None)
        BY <1>3, <1>6, <2>1 DEF FedInOrder, AskedInOrder, Holder
      <3>3. x.run \in Managed
        BY <1>2, <1>6 DEF Legal
      <3> QED BY <1>6, <1>8, <1>9, <2>1, <3>1, <3>2, <3>3 DEF FedInOrder, Fed, Holder
    <2>2. CASE x.then # "released"
      BY <1>3, <1>6, <1>7, <1>8, <2>2 DEF FedInOrder, PlaceInOrder, Leaves
    <2> QED BY <2>1, <2>2
  <1> QED BY <1>6, <1>11, <1>12, <1>13, <1>14, <1>15, <1>16 DEF Sound

LEMMA SoundDialFails ==
  ASSUME TypeInv, NEW t \in Threads, Sound(t, th[t]), DialFails(t)
  PROVE  \E r : Goes(t, r) /\ Sound(t, r)'
  <1> USE Numbers
  <1>1. PICK x : x = th[t]
    OBVIOUS
  <1>2. Legal(x) /\ x \in Thread /\ StateTypes
    BY <1>1, HandsAre DEF TypeInv
  <1>3. /\ LinksInOrder(x) /\ FeedInOrder(x) /\ PlaceInOrder(x) /\ DialInOrder(x)
        /\ AskedInOrder(t, x) /\ FedInOrder(x)
    BY <1>1 DEF Sound
  <1>4. PICK r : r = Idle
    OBVIOUS
  <1>5. /\ x.pc = "dial" /\ Goes(t, r)
        /\ UNCHANGED <<store, want, net, live, refused, opened, current, running, held, subs, asked, missed>>
    BY <1>1, <1>4 DEF DialFails, conn, feed, history
  <1>6. r.pc = "idle"
    BY <1>4, IdleShape
  <1>7. store = None /\ current = None
    BY <1>3, <1>5 DEF PlaceInOrder
  <1>8. LinksInOrder(r)'
    BY <1>2, <1>3, <1>5, <1>6, <1>7 DEF LinksInOrder, Home, Leaves, Arrives, Opening, Open
  <1>9. FeedInOrder(r)'
    BY <1>2, <1>3, <1>5, <1>6, <1>7 DEF FeedInOrder, Home, Holder, Leaves, Arrives, Opening
  <1>10. PlaceInOrder(r)'
    BY <1>2, <1>3, <1>5, <1>6, <1>7 DEF PlaceInOrder, Leaves, Arrives, Serves, Anew, Moves, Opening, Swapping
  <1>11. DialInOrder(r)'
    BY <1>2, <1>3, <1>5, <1>6, <1>7 DEF DialInOrder
  <1>12. AskedInOrder(t, r)'
    BY <1>2, <1>3, <1>5, <1>6, <1>7 DEF AskedInOrder, Serves, Moves, Arrives, Opening, Swapping, Carrier
  <1>13. FedInOrder(r)'
    BY <1>2, <1>3, <1>5, <1>6, <1>7 DEF FedInOrder, Holder, Fed, Carrier, Own, Api
  <1> QED BY <1>5, <1>8, <1>9, <1>10, <1>11, <1>12, <1>13 DEF Sound

LEMMA SoundDial ==
  ASSUME TypeInv, NEW t \in Threads, Sound(t, th[t]), Dial(t)
  PROVE  \E r : Goes(t, r) /\ Sound(t, r)'
  <1> USE Numbers
  <1>1. PICK x : x = th[t]
    OBVIOUS
  <1>2. Legal(x) /\ x \in Thread /\ StateTypes
    BY <1>1, HandsAre DEF TypeInv
  <1>3. /\ LinksInOrder(x) /\ FeedInOrder(x) /\ PlaceInOrder(x) /\ DialInOrder(x)
        /\ AskedInOrder(t, x) /\ FedInOrder(x)
    BY <1>1 DEF Sound
  <1>4. PICK m : m = x.run
    OBVIOUS
  <1>5. PICK r : r = [x EXCEPT !.pc = "open", !.then = "register", !.m = m]
    OBVIOUS
  <1>6. /\ x.pc = "dial" /\ Goes(t, r) /\ want' = [want EXCEPT ![m] = x.patterns]
        /\ \E state : net' = [net EXCEPT ![Api(m)] = state]
        /\ UNCHANGED <<store, live, refused, opened, current, running, held, subs, asked, missed>>
    BY <1>1, <1>4, <1>5 DEF Dial, feed, history
  <1>7. r.pc = "open" /\ r.then = "register" /\ r.m = m /\ r.patterns = x.patterns /\ m \in Managed
    <2>1. m \in Managed
      BY <1>2, <1>4, <1>6 DEF Legal
    <2> QED BY <1>2, <1>5, <2>1 DEF Thread
  <1>8. store = None /\ current = None /\ subs = {}
    <2>1. store = None /\ current = None
      BY <1>3, <1>6 DEF PlaceInOrder
    <2>2. \A s \in subs : s.mgr = None /\ s \in Sub
      BY <1>2, <1>3, <1>6, <2>1 DEF FeedInOrder, Holder, StateTypes
    <2> QED BY <1>2, <2>1, <2>2 DEF Sub
  <1>9. \A l \in Links : net'[l] \in {"up", "away"} => l[1] = m
    <2>1. \A l \in Links : ~Open(l)
      <3>1. \A l \in Links : Open(l) => l[1] = None
        BY <1>3, <1>6, <1>8 DEF LinksInOrder, Home, Leaves, Arrives, Opening
      <3>2. \A l \in Links : l[1] \in Managed
        BY DEF Links
      <3> QED BY <1>2, <3>1, <3>2
    <2>2. \A l \in Links : l # Api(m) => net'[l] = net[l]
      BY <1>2, <1>6, <1>7 DEF StateTypes
    <2>3. Api(m)[1] = m
      BY DEF Api
    <2> QED BY <2>1, <2>2, <2>3 DEF Open
  <1>10. want'[m] = x.patterns
    BY <1>2, <1>6, <1>7 DEF StateTypes
  <1>11. LinksInOrder(r)'
    BY <1>2, <1>3, <1>6, <1>7, <1>8, <1>9 DEF LinksInOrder, Home, Leaves, Arrives, Opening, Open
  <1>12. FeedInOrder(r)'
    BY <1>2, <1>3, <1>6, <1>7, <1>8, <1>10 DEF FeedInOrder, Home, Holder, Leaves, Arrives, Opening
  <1>13. PlaceInOrder(r)'
    BY <1>2, <1>3, <1>6, <1>7, <1>8, <1>10 DEF PlaceInOrder, Leaves, Arrives, Serves, Anew, Moves, Opening, Swapping
  <1>14. DialInOrder(r)'
    BY <1>2, <1>3, <1>6, <1>7, <1>8, <1>10 DEF DialInOrder
  <1>15. AskedInOrder(t, r)'
    BY <1>2, <1>3, <1>6, <1>7, <1>8, <1>10 DEF AskedInOrder, Serves, Moves, Arrives, Opening, Swapping, Carrier
  <1>16. FedInOrder(r)'
    BY <1>2, <1>3, <1>6, <1>7, <1>8, <1>10 DEF FedInOrder, Holder, Fed, Carrier, Own, Api
  <1> QED BY <1>6, <1>11, <1>12, <1>13, <1>14, <1>15, <1>16 DEF Sound

LEMMA SoundRegister ==
  ASSUME TypeInv, NEW t \in Threads, Sound(t, th[t]), Register(t)
  PROVE  \E r : Goes(t, r) /\ Sound(t, r)'
  <1> USE Numbers
  <1>1. PICK x : x = th[t]
    OBVIOUS
  <1>2. Legal(x) /\ x \in Thread /\ StateTypes
    BY <1>1, HandsAre DEF TypeInv
  <1>3. /\ LinksInOrder(x) /\ FeedInOrder(x) /\ PlaceInOrder(x) /\ DialInOrder(x)
        /\ AskedInOrder(t, x) /\ FedInOrder(x)
    BY <1>1 DEF Sound
  <1>4. PICK ps : ps = Chosen(x.patterns)
    OBVIOUS
  <1>5. PICK r : r = [x EXCEPT !.pc = "restart", !.patterns = ps]
    OBVIOUS
  <1>6. /\ x.pc = "register" /\ Goes(t, r) /\ store' = x.m /\ asked' = ps
        /\ UNCHANGED <<want, net, live, refused, opened, current, running, held, subs, missed>>
    BY <1>1, <1>4, <1>5 DEF Register, feed, Chosen
  <1>7. x.then = "register" /\ x.m \in Managed /\ ps # {}
    BY <1>2, <1>4, <1>6 DEF Legal, Chosen
  <1>8. r.pc = "restart" /\ r.then = "register" /\ r.m = x.m /\ r.patterns = ps /\ r.g = x.g
    BY <1>2, <1>5, <1>7 DEF Thread
  <1>9. current = None /\ want[x.m] = x.patterns
    BY <1>3, <1>6, <1>7 DEF PlaceInOrder, AskedInOrder, Arrives
  <1>10. LinksInOrder(r)'
    BY <1>2, <1>3, <1>6, <1>7, <1>8, <1>9 DEF LinksInOrder, Home, Leaves, Arrives, Opening, Open
  <1>11. FeedInOrder(r)'
    BY <1>2, <1>3, <1>6, <1>7, <1>8, <1>9 DEF FeedInOrder, Home, Holder, Leaves, Arrives, Opening
  <1>12. PlaceInOrder(r)'
    BY <1>2, <1>3, <1>6, <1>7, <1>8, <1>9 DEF PlaceInOrder, Leaves, Arrives, Serves, Anew, Moves, Opening, Swapping
  <1>13. DialInOrder(r)'
    BY <1>2, <1>3, <1>6, <1>7, <1>8, <1>9 DEF DialInOrder
  <1>14. AskedInOrder(t, r)'
    BY <1>2, <1>4, <1>6, <1>7, <1>8, <1>9 DEF AskedInOrder, Serves, Moves, Arrives, Opening, Swapping, Chosen
  <1>15. FedInOrder(r)'
    BY <1>2, <1>3, <1>6, <1>7, <1>8, <1>9 DEF FedInOrder, Holder, Fed, Carrier, Own, Api
  <1> QED BY <1>6, <1>10, <1>11, <1>12, <1>13, <1>14, <1>15 DEF Sound

LEMMA SoundLookup ==
  ASSUME TypeInv, NEW t \in Threads, Sound(t, th[t]), Lookup(t)
  PROVE  \E r : Goes(t, r) /\ Sound(t, r)'
  <1> USE Numbers
  <1>1. PICK x : x = th[t]
    OBVIOUS
  <1>2. Legal(x) /\ x \in Thread /\ StateTypes
    BY <1>1, HandsAre DEF TypeInv
  <1>3. /\ LinksInOrder(x) /\ FeedInOrder(x) /\ PlaceInOrder(x) /\ DialInOrder(x)
        /\ AskedInOrder(t, x) /\ FedInOrder(x)
    BY <1>1 DEF Sound
  <1>4. PICK r : r = [x EXCEPT !.m = store, !.pc = IF store = None THEN "api" ELSE "open",
                               !.then = IF x.pc = "lookup" THEN "swap" ELSE "start"]
    OBVIOUS
  <1>5. /\ x.pc \in {"lookup", "restart"} /\ Goes(t, r)
        /\ UNCHANGED <<store, want, net, live, refused, opened, current, running, held, subs, asked, missed>>
    BY <1>1, <1>4 DEF Lookup, conn, feed, history
  <1>6. store # None
    BY <1>3, <1>5 DEF PlaceInOrder, Serves
  <1>7. /\ r.pc = "open" /\ r.m = store /\ r.then = IF x.pc = "lookup" THEN "swap" ELSE "start"
        /\ r.g = x.g /\ r.patterns = x.patterns
    BY <1>2, <1>4, <1>6 DEF Thread
  <1>8. LinksInOrder(r)'
    BY <1>2, <1>3, <1>5, <1>6, <1>7 DEF LinksInOrder, Home, Leaves, Arrives, Opening, Open
  <1>9. FeedInOrder(r)'
    BY <1>2, <1>3, <1>5, <1>6, <1>7 DEF FeedInOrder, Home, Holder, Leaves, Arrives, Opening
  <1>10. PlaceInOrder(r)'
    BY <1>2, <1>3, <1>5, <1>6, <1>7 DEF PlaceInOrder, Leaves, Arrives, Serves, Anew, Moves, Opening, Swapping
  <1>11. DialInOrder(r)'
    BY <1>2, <1>3, <1>5, <1>6, <1>7 DEF DialInOrder
  <1>12. AskedInOrder(t, r)'
    BY <1>2, <1>3, <1>5, <1>6, <1>7 DEF AskedInOrder, Serves, Moves, Arrives, Opening, Swapping, Carrier
  <1>13. FedInOrder(r)'
    BY <1>2, <1>3, <1>5, <1>6, <1>7 DEF FedInOrder, Holder, Fed, Carrier, Own, Api
  <1> QED BY <1>5, <1>8, <1>9, <1>10, <1>11, <1>12, <1>13 DEF Sound

(* With a connection the request goes on: to the list, to the manager there *)
(* is, or, without one, to a new one.                                       *)
LEMMA SoundWith ==
  ASSUME StateTypes, NEW t \in Threads, NEW x \in Thread, Legal(x), x.pc \in Opening \cup {"api"},
         LinksInOrder(x), FeedInOrder(x), PlaceInOrder(x), AskedInOrder(t, x), NEW l,
         UNCHANGED <<store, want, refused, opened, current, running, held, asked>>,
         subs' \subseteq subs, \A k \in Links : Open(k)' => Open(k),
         \A m \in Managed : live'[m] # None => opened[m] /\ ~refused[m],
         Serves(x) => l = Carrier'
  PROVE  Sound(t, With(x, l))'
  <1> USE Numbers
  <1>1. PICK r : r = With(x, l)
    OBVIOUS
  <1>2. /\ x.then \in {"register", "swap", "start"} /\ (x.pc = "api" => x.then \in {"swap", "start"})
        /\ Serves(x) \/ Arrives(x)
    BY DEF Legal, Opening, Serves, Arrives
  <1>3. CASE x.then = "swap" /\ x.g = None
    <2>1. r = [x EXCEPT !.pc = "unmap", !.then = "restart"]
      BY <1>1, <1>3 DEF With
    <2>2. /\ r.pc = "unmap" /\ r.then = "restart" /\ r.m = x.m /\ r.g = x.g /\ r.patterns = x.patterns
          /\ Serves(x) /\ x.pc \in Opening \cup {"api"}
      BY <1>2, <1>3, <2>1 DEF Thread, Arrives
    <2>3. LinksInOrder(r)'
      BY <1>2, <1>3, <2>2 DEF LinksInOrder, Home, Leaves, Arrives, Opening, Open
    <2>4. FeedInOrder(r)'
      BY <1>2, <1>3, <2>2 DEF FeedInOrder, Home, Holder, Leaves, Arrives, Opening
    <2>5. PlaceInOrder(r)'
      BY <1>2, <1>3, <2>2 DEF PlaceInOrder, Leaves, Arrives, Serves, Anew, Moves, Opening, Swapping
    <2>6. DialInOrder(r)'
      BY <1>2, <1>3, <2>2 DEF DialInOrder
    <2>7. AskedInOrder(t, r)'
      BY <1>2, <1>3, <2>2 DEF AskedInOrder, Serves, Moves, Arrives, Opening, Swapping, Carrier
    <2>8. FedInOrder(r)'
      BY <1>2, <1>3, <2>2 DEF FedInOrder, Holder, Fed, Carrier, Own, Api
    <2> QED BY <1>1, <2>3, <2>4, <2>5, <2>6, <2>7, <2>8 DEF Sound
  <1>4. CASE ~(x.then = "swap" /\ x.g = None)
    <2>1. r = [x EXCEPT !.pc = x.then, !.link = l]
      BY <1>1, <1>4 DEF With
    <2>2. /\ r.pc = x.then /\ r.then = x.then /\ r.m = x.m /\ r.g = x.g /\ r.patterns = x.patterns
          /\ r.link = l /\ x.pc \in Opening \cup {"api"}
      BY <1>2, <1>4, <2>1 DEF Thread
    <2>3. LinksInOrder(r)'
      BY <1>2, <1>4, <2>2 DEF LinksInOrder, Home, Leaves, Arrives, Opening, Open
    <2>4. FeedInOrder(r)'
      BY <1>2, <1>4, <2>2 DEF FeedInOrder, Home, Holder, Leaves, Arrives, Opening
    <2>5. PlaceInOrder(r)'
      BY <1>2, <1>4, <2>2 DEF PlaceInOrder, Leaves, Arrives, Serves, Anew, Moves, Opening, Swapping
    <2>6. DialInOrder(r)'
      BY <1>2, <1>4, <2>2 DEF DialInOrder
    <2>7. AskedInOrder(t, r)'
      BY <1>2, <1>4, <2>2 DEF PlaceInOrder, AskedInOrder, Serves, Moves, Arrives, Opening, Swapping
    <2>8. FedInOrder(r)'
      BY <1>2, <1>4, <2>2 DEF FedInOrder, Holder, Fed, Carrier, Own, Api
    <2> QED BY <1>1, <2>3, <2>4, <2>5, <2>6, <2>7, <2>8 DEF Sound
  <1> QED BY <1>3, <1>4

LEMMA SoundWithout ==
  ASSUME StateTypes, NEW t \in Threads, NEW x \in Thread, Legal(x), x.pc \in {"open", "dialled"},
         LinksInOrder(x), FeedInOrder(x), PlaceInOrder(x), AskedInOrder(t, x),
         UNCHANGED <<store, want, net, live, opened, current, running, held, subs, asked>>,
         \A m \in Managed : refused'[m] => refused[m] \/ m = x.m, live[x.m] = None
  PROVE  Sound(t, Without(x))'
  <1> USE Numbers
  <1>1. PICK r : r = Without(x)
    OBVIOUS
  <1>2. x.then \in {"register", "swap", "start"}
    BY DEF Legal
  <1>3. /\ r.pc = IF x.then = "register" THEN "register" ELSE "api"
        /\ r.then = x.then /\ r.m = x.m /\ r.g = x.g /\ r.patterns = x.patterns
    BY <1>1, <1>2 DEF Without, Thread
  <1>4. LinksInOrder(r)'
    BY <1>2, <1>3 DEF LinksInOrder, Home, Leaves, Arrives, Opening, Open
  <1>5. FeedInOrder(r)'
    BY <1>2, <1>3 DEF FeedInOrder, Home, Holder, Leaves, Arrives, Opening
  <1>6. PlaceInOrder(r)'
    BY <1>2, <1>3 DEF PlaceInOrder, Leaves, Arrives, Serves, Anew, Moves, Opening, Swapping
  <1>7. DialInOrder(r)'
    BY <1>2, <1>3 DEF DialInOrder, PlaceInOrder, Opening
  <1>8. AskedInOrder(t, r)'
    BY <1>2, <1>3 DEF AskedInOrder, Serves, Moves, Arrives, Opening, Swapping, Carrier
  <1>9. FedInOrder(r)'
    BY <1>2, <1>3 DEF FedInOrder, Holder, Fed, Carrier, Own, Api
  <1> QED BY <1>1, <1>4, <1>5, <1>6, <1>7, <1>8, <1>9 DEF Sound

LEMMA SoundOpenLive ==
  ASSUME TypeInv, NEW t \in Threads, Sound(t, th[t]), OpenLive(t)
  PROVE  \E r : Goes(t, r) /\ Sound(t, r)'
  <1> USE Numbers
  <1>1. PICK x : x = th[t]
    OBVIOUS
  <1>2. Legal(x) /\ x \in Thread /\ StateTypes
    BY <1>1, HandsAre DEF TypeInv
  <1>3. /\ LinksInOrder(x) /\ FeedInOrder(x) /\ PlaceInOrder(x) /\ DialInOrder(x)
        /\ AskedInOrder(t, x) /\ FedInOrder(x)
    BY <1>1 DEF Sound
  <1>4. x.pc = "open" /\ x.m \in Managed /\ x.then \in {"register", "swap", "start"}
    BY <1>1, <1>2 DEF OpenLive, Legal
  <1>5. UNCHANGED <<store, want, net, live, refused, current, running, held, subs, asked, missed>>
    BY DEF OpenLive, feed, history
  <1>6. Serves(x) => x.m = store
    BY <1>3, <1>4 DEF PlaceInOrder, Serves, Opening
  <1>7. \A m \in Managed : live[m] # None => opened[m] /\ ~refused[m]
    BY <1>3, <1>4 DEF LinksInOrder
  <1>8. PICK l : l = Own(x.m)
    OBVIOUS
  <1>9. CASE live[x.m] # None /\ Open(Own(x.m))
    <2>1. PICK r : r = With(x, l)
      OBVIOUS
    <2>2. Goes(t, r) /\ UNCHANGED opened
      BY <1>1, <1>8, <1>9, <2>1 DEF OpenLive
    <2>3. Serves(x) => l = Carrier'
      BY <1>5, <1>6, <1>8, <1>9 DEF Carrier, Own
    <2>4. Sound(t, With(x, l))'
      <3>1. subs' \subseteq subs /\ \A k \in Links : Open(k)' => Open(k)
        BY <1>5 DEF Open
      <3>2. \A m \in Managed : live'[m] # None => opened[m] /\ ~refused[m]
        BY <1>5, <1>7
      <3> QED BY <1>2, <1>3, <1>4, <1>5, <2>2, <2>3, <3>1, <3>2, SoundWith DEF Opening
    <2> QED BY <2>1, <2>2, <2>4
  <1>10. CASE ~(live[x.m] # None /\ Open(Own(x.m))) /\ refused[x.m]
    <2>1. PICK r : r = Without(x)
      OBVIOUS
    <2>2. Goes(t, r) /\ UNCHANGED opened
      BY <1>1, <1>10, <2>1 DEF OpenLive
    <2>3. live[x.m] = None
      BY <1>4, <1>7, <1>10
    <2>4. Sound(t, Without(x))'
      BY <1>2, <1>3, <1>4, <1>5, <2>2, <2>3, SoundWithout
    <2> QED BY <2>1, <2>2, <2>4
  <1>11. CASE ~(live[x.m] # None /\ Open(Own(x.m))) /\ ~refused[x.m]
    <2>1. PICK again : again = (x.again \/ opened[x.m])
      OBVIOUS
    <2>2. PICK r : r = [x EXCEPT !.pc = "dialLive", !.again = again]
      OBVIOUS
    <2>3. Goes(t, r) /\ opened' = [opened EXCEPT ![x.m] = TRUE]
      BY <1>1, <1>11, <2>1, <2>2 DEF OpenLive
    <2>4. /\ r.pc = "dialLive" /\ r.then = x.then /\ r.m = x.m /\ r.g = x.g /\ r.patterns = x.patterns
          /\ r.again = again
      BY <1>2, <2>2 DEF Thread
    <2>5. opened'[x.m] /\ (\A m \in Managed : opened[m] => opened'[m]) /\ (~again => live[x.m] = None)
      BY <1>2, <1>4, <1>7, <2>1, <2>3 DEF StateTypes
    <2>6. LinksInOrder(r)'
      BY <1>2, <1>3, <1>4, <1>5, <1>11, <2>4, <2>5 DEF LinksInOrder, Home, Leaves, Arrives, Opening, Open
    <2>7. FeedInOrder(r)'
      BY <1>2, <1>3, <1>4, <1>5, <1>11, <2>4, <2>5 DEF FeedInOrder, Home, Holder, Leaves, Arrives, Opening
    <2>8. PlaceInOrder(r)'
      BY <1>2, <1>3, <1>4, <1>5, <1>11, <2>4, <2>5 DEF PlaceInOrder, Leaves, Arrives, Serves, Anew, Moves, Opening, Swapping
    <2>9. DialInOrder(r)'
      BY <1>2, <1>3, <1>4, <1>5, <1>11, <2>4, <2>5 DEF DialInOrder
    <2>10. AskedInOrder(t, r)'
      BY <1>2, <1>3, <1>4, <1>5, <1>11, <2>4, <2>5 DEF AskedInOrder, Serves, Moves, Arrives, Opening, Swapping, Carrier
    <2>11. FedInOrder(r)'
      BY <1>2, <1>3, <1>4, <1>5, <1>11, <2>4, <2>5 DEF FedInOrder, Holder, Fed, Carrier, Own, Api
    <2> QED BY <2>3, <2>6, <2>7, <2>8, <2>9, <2>10, <2>11 DEF Sound
  <1> QED BY <1>9, <1>10, <1>11

LEMMA SoundDialLive ==
  ASSUME TypeInv, NEW t \in Threads, Sound(t, th[t]), DialLive(t)
  PROVE  \E r : Goes(t, r) /\ Sound(t, r)'
  <1> USE Numbers
  <1>1. PICK x : x = th[t]
    OBVIOUS
  <1>2. Legal(x) /\ x \in Thread /\ StateTypes
    BY <1>1, HandsAre DEF TypeInv
  <1>3. /\ LinksInOrder(x) /\ FeedInOrder(x) /\ PlaceInOrder(x) /\ DialInOrder(x)
        /\ AskedInOrder(t, x) /\ FedInOrder(x)
    BY <1>1 DEF Sound
  <1>4. PICK m : m = x.m
    OBVIOUS
  <1>5. x.pc = "dialLive" /\ x.then \in {"register", "swap", "start"} /\ m \in Managed
    BY <1>1, <1>2, <1>4 DEF DialLive, Legal, Opening
  <1>6. PICK k : k = NextOf(m)
    OBVIOUS
  <1>7. PICK state \in {"up", "away", "none"} :
           /\ net' = [net EXCEPT ![<<m, k>>] = state] /\ (state = "none" => ~x.again)
           /\ Goes(t, [x EXCEPT !.pc = "dialled", !.again = FALSE,
                                !.link = <<m, IF state = "none" THEN None ELSE k>>])
    BY <1>1, <1>4, <1>6 DEF DialLive, NextOf
  <1>8. UNCHANGED <<store, want, live, refused, opened, current, running, held, subs, asked, missed>>
    BY DEF DialLive, feed, history
  <1>9. PICK r : r = [x EXCEPT !.pc = "dialled", !.again = FALSE,
                               !.link = <<m, IF state = "none" THEN None ELSE k>>]
    OBVIOUS
  <1>10. /\ Goes(t, r) /\ r.pc = "dialled" /\ r.then = x.then /\ r.m = m /\ r.g = x.g
         /\ r.patterns = x.patterns /\ r.link = <<m, IF state = "none" THEN None ELSE k>>
    BY <1>2, <1>4, <1>7, <1>9 DEF Thread
  <1>11. k \in Dials /\ k # None
    <2>1. Owes(th[t]) >= 1
      BY <1>1, <1>5 DEF Owes, OwesNone, OwesOne
    <2>2. k \in Dials
      BY <1>5, <1>6, <2>1, NextDial
    <2> QED BY <2>2 DEF Dials, None
  <1>12. r.link[2] = None => state = "none"
    BY <1>10, <1>11
  <1>13. \A l \in Links : Open(l)' => Open(l) \/ l[1] = m
    BY <1>2, <1>7 DEF Open, StateTypes
  <1>14. LinksInOrder(r)'
    BY <1>2, <1>3, <1>4, <1>5, <1>8, <1>10, <1>13 DEF LinksInOrder, PlaceInOrder, Home, Leaves, Arrives, Serves, Opening
  <1>15. FeedInOrder(r)'
    BY <1>2, <1>3, <1>4, <1>5, <1>8, <1>10 DEF FeedInOrder, Home, Holder, Leaves, Arrives, Opening
  <1>16. PlaceInOrder(r)'
    BY <1>2, <1>3, <1>4, <1>5, <1>8, <1>10 DEF PlaceInOrder, Leaves, Arrives, Serves, Anew, Moves, Opening, Swapping
  <1>17. DialInOrder(r)'
    BY <1>2, <1>3, <1>4, <1>5, <1>7, <1>8, <1>10, <1>12 DEF DialInOrder
  <1>18. AskedInOrder(t, r)'
    BY <1>3, <1>5, <1>8, <1>10, <1>4 DEF AskedInOrder, Serves, Moves, Arrives, Opening, Swapping
  <1>19. FedInOrder(r)'
    BY <1>2, <1>3, <1>4, <1>5, <1>8, <1>10 DEF FedInOrder, Holder, Fed, Carrier, Own, Api
  <1> QED BY <1>10, <1>14, <1>15, <1>16, <1>17, <1>18, <1>19 DEF Sound

LEMMA SoundQuicker ==
  ASSUME TypeInv, NEW t \in Threads, Sound(t, th[t]), Quicker(t)
  PROVE  \E r : Goes(t, r) /\ Sound(t, r)'
  <1> USE Numbers
  <1>1. PICK x : x = th[t]
    OBVIOUS
  <1>2. Legal(x) /\ x \in Thread /\ StateTypes
    BY <1>1, HandsAre DEF TypeInv
  <1>3. /\ LinksInOrder(x) /\ FeedInOrder(x) /\ PlaceInOrder(x) /\ DialInOrder(x)
        /\ AskedInOrder(t, x) /\ FedInOrder(x)
    BY <1>1 DEF Sound
  <1>4. PICK l : l = Own(x.m)
    OBVIOUS
  <1>5. PICK r : r = With(x, l)
    OBVIOUS
  <1>6. PICK ls : ls = {k \in {x.link} : k[2] # None}
    OBVIOUS
  <1>7. /\ x.pc = "dialled" /\ live[x.m] # None /\ Goes(t, r) /\ Closing(ls)
        /\ UNCHANGED <<store, want, live, refused, opened, current, running, held, asked, missed>>
    BY <1>1, <1>4, <1>5, <1>6 DEF Quicker, history
  <1>8. subs' \subseteq subs /\ \A k \in Links : Open(k)' => Open(k)
    BY <1>2, <1>7 DEF Closing, Open
  <1>9. \A m \in Managed : live'[m] # None => opened[m] /\ ~refused[m]
    BY <1>3, <1>7 DEF LinksInOrder
  <1>10. Serves(x) => l = Carrier'
    BY <1>3, <1>4, <1>7 DEF PlaceInOrder, Serves, Opening, Carrier, Own
  <1>11. Sound(t, With(x, l))'
    BY <1>2, <1>3, <1>7, <1>8, <1>9, <1>10, SoundWith DEF Opening
  <1> QED BY <1>5, <1>7, <1>11

LEMMA SoundRefused ==
  ASSUME TypeInv, NEW t \in Threads, Sound(t, th[t]), Refused(t)
  PROVE  \E r : Goes(t, r) /\ Sound(t, r)'
  <1> USE Numbers
  <1>1. PICK x : x = th[t]
    OBVIOUS
  <1>2. Legal(x) /\ x \in Thread /\ StateTypes
    BY <1>1, HandsAre DEF TypeInv
  <1>3. /\ LinksInOrder(x) /\ FeedInOrder(x) /\ PlaceInOrder(x) /\ DialInOrder(x)
        /\ AskedInOrder(t, x) /\ FedInOrder(x)
    BY <1>1 DEF Sound
  <1>4. PICK r : r = Without(x)
    OBVIOUS
  <1>5. /\ x.pc = "dialled" /\ x.link[2] = None /\ Goes(t, r)
        /\ refused' = [refused EXCEPT ![x.m] = TRUE]
        /\ UNCHANGED <<store, want, net, live, opened, current, running, held, subs, asked>>
    BY <1>1, <1>4 DEF Refused, feed, history
  <1>6. live[x.m] = None
    BY <1>3, <1>5 DEF DialInOrder
  <1>7. \A m \in Managed : refused'[m] => refused[m] \/ m = x.m
    BY <1>2, <1>5 DEF StateTypes
  <1>8. Sound(t, Without(x))'
    BY <1>2, <1>3, <1>5, <1>6, <1>7, SoundWithout
  <1> QED BY <1>4, <1>5, <1>8

LEMMA SoundDialled ==
  ASSUME TypeInv, NEW t \in Threads, DialInv, Sound(t, th[t]), Dialled(t)
  PROVE  \E r : Goes(t, r) /\ Sound(t, r)'
  <1> USE Numbers
  <1>1. PICK x : x = th[t]
    OBVIOUS
  <1>2. Legal(x) /\ x \in Thread /\ StateTypes
    BY <1>1, HandsAre DEF TypeInv
  <1>3. /\ LinksInOrder(x) /\ FeedInOrder(x) /\ PlaceInOrder(x) /\ DialInOrder(x)
        /\ AskedInOrder(t, x) /\ FedInOrder(x)
    BY <1>1 DEF Sound
  <1>4. PICK l : l = x.link
    OBVIOUS
  <1>5. PICK r : r = With(x, l)
    OBVIOUS
  <1>6. /\ x.pc = "dialled" /\ l[2] # None /\ Goes(t, r) /\ live' = [live EXCEPT ![x.m] = l[2]]
        /\ UNCHANGED <<store, want, net, refused, opened, current, running, held, subs, asked, missed>>
    BY <1>1, <1>4, <1>5 DEF Dialled, feed, history
  <1>7. l = <<x.m, l[2]>> /\ x.m \in Managed
    BY <1>1, <1>2, <1>4, <1>6 DEF DialInv, HoldsItsOwn, Legal
  <1>8. live'[x.m] = l[2] /\ \A m \in Managed : m # x.m => live'[m] = live[m]
    BY <1>2, <1>6, <1>7 DEF StateTypes
  <1>9. subs' \subseteq subs /\ \A k \in Links : Open(k)' => Open(k)
    BY <1>6 DEF Open
  <1>10. \A m \in Managed : live'[m] # None => opened[m] /\ ~refused[m]
    BY <1>3, <1>6, <1>8 DEF LinksInOrder, DialInOrder
  <1>11. Serves(x) => l = Carrier'
    <2>1. Serves(x) => x.m = store
      BY <1>3, <1>6 DEF PlaceInOrder, Serves, Opening
    <2> QED BY <1>6, <1>7, <1>8, <2>1 DEF Carrier, Own
  <1>12. Sound(t, With(x, l))'
    BY <1>2, <1>3, <1>6, <1>9, <1>10, <1>11, SoundWith DEF Opening
  <1> QED BY <1>5, <1>6, <1>12

LEMMA SoundShareApi ==
  ASSUME TypeInv, NEW t \in Threads, Sound(t, th[t]), ShareApi(t)
  PROVE  \E r : Goes(t, r) /\ Sound(t, r)'
  <1> USE Numbers
  <1>1. PICK x : x = th[t]
    OBVIOUS
  <1>2. Legal(x) /\ x \in Thread /\ StateTypes
    BY <1>1, HandsAre DEF TypeInv
  <1>3. /\ LinksInOrder(x) /\ FeedInOrder(x) /\ PlaceInOrder(x) /\ DialInOrder(x)
        /\ AskedInOrder(t, x) /\ FedInOrder(x)
    BY <1>1 DEF Sound
  <1>4. x.pc = "api" /\ x.then \in {"swap", "start"}
    BY <1>1, <1>2 DEF ShareApi, Legal
  <1>5. UNCHANGED <<store, want, net, live, refused, opened, current, running, held, subs, asked>>
    BY DEF ShareApi, conn, feed
  <1>6. store # None /\ live[store] = None /\ asked # {} /\ asked = x.patterns
    BY <1>3, <1>4 DEF PlaceInOrder, DialInOrder, AskedInOrder, Serves, Swapping
  <1>7. CASE ApiUp
    <2>1. PICK l : l = Api(store)
      OBVIOUS
    <2>2. PICK r : r = With(x, l)
      OBVIOUS
    <2>3. Goes(t, r)
      BY <1>1, <1>7, <2>1, <2>2 DEF ShareApi
    <2>4. l = Carrier'
      BY <1>5, <1>6, <2>1 DEF Carrier, Api
    <2>5. subs' \subseteq subs /\ \A k \in Links : Open(k)' => Open(k)
      BY <1>5 DEF Open
    <2>6. \A m \in Managed : live'[m] # None => opened[m] /\ ~refused[m]
      BY <1>3, <1>4, <1>5 DEF LinksInOrder
    <2>7. Sound(t, With(x, l))'
      BY <1>2, <1>3, <1>4, <1>5, <2>4, <2>5, <2>6, SoundWith
    <2> QED BY <2>2, <2>3, <2>7
  <1>8. CASE ~ApiUp /\ x.then = "swap"
    <2>1. PICK r : r = [x EXCEPT !.pc = "unmap", !.then = "restart"]
      OBVIOUS
    <2>2. Goes(t, r)
      BY <1>1, <1>8, <2>1 DEF ShareApi
    <2>3. r.pc = "unmap" /\ r.then = "restart" /\ r.m = x.m /\ r.patterns = x.patterns
      BY <1>2, <2>1 DEF Thread
    <2>4. LinksInOrder(r)'
      BY <1>3, <1>4, <1>5, <1>6, <2>3 DEF LinksInOrder, Home, Leaves, Arrives, Opening, Open
    <2>5. FeedInOrder(r)'
      BY <1>3, <1>4, <1>5, <1>6, <2>3 DEF FeedInOrder, Home, Holder, Leaves, Arrives, Opening
    <2>6. PlaceInOrder(r)'
      BY <1>3, <1>4, <1>5, <1>6, <2>3 DEF PlaceInOrder, Leaves, Arrives, Serves, Anew, Moves, Opening, Swapping
    <2>7. DialInOrder(r)'
      BY <1>3, <1>4, <1>5, <1>6, <2>3 DEF DialInOrder
    <2>8. AskedInOrder(t, r)'
      BY <1>3, <1>4, <1>5, <1>6, <2>3 DEF AskedInOrder, Serves, Moves, Arrives, Opening, Swapping, Carrier
    <2>9. FedInOrder(r)'
      BY <1>3, <1>4, <1>5, <1>6, <2>3 DEF FedInOrder, Holder, Fed, Carrier, Own, Api
    <2> QED BY <2>2, <2>4, <2>5, <2>6, <2>7, <2>8, <2>9 DEF Sound
  <1>9. CASE ~ApiUp /\ x.then # "swap"
    <2>1. PICK r : r = Idle
      OBVIOUS
    <2>2. Goes(t, r) /\ missed'
      BY <1>1, <1>9, <2>1 DEF ShareApi
    <2>3. r.pc = "idle"
      BY <2>1, IdleShape
    <2>4. LinksInOrder(r)'
      BY <1>3, <1>4, <1>5, <1>6, <2>2, <2>3 DEF LinksInOrder, Home, Leaves, Arrives, Opening, Open
    <2>5. FeedInOrder(r)'
      BY <1>3, <1>4, <1>5, <1>6, <2>2, <2>3 DEF FeedInOrder, Home, Holder, Leaves, Arrives, Opening
    <2>6. PlaceInOrder(r)'
      BY <1>3, <1>4, <1>5, <1>6, <2>2, <2>3 DEF PlaceInOrder, Leaves, Arrives, Serves, Anew, Moves, Opening, Swapping
    <2>7. DialInOrder(r)'
      BY <1>3, <1>4, <1>5, <1>6, <2>2, <2>3 DEF DialInOrder
    <2>8. AskedInOrder(t, r)'
      BY <1>3, <1>4, <1>5, <1>6, <2>2, <2>3 DEF AskedInOrder, Serves, Moves, Arrives, Opening, Swapping, Carrier
    <2>9. FedInOrder(r)'
      BY <1>3, <1>4, <1>5, <1>6, <2>2, <2>3 DEF FedInOrder, Holder, Fed, Carrier, Own, Api
    <2> QED BY <2>2, <2>4, <2>5, <2>6, <2>7, <2>8, <2>9 DEF Sound
  <1> QED BY <1>7, <1>8, <1>9

LEMMA SoundStartManager ==
  ASSUME TypeInv, NEW t \in Threads, Sound(t, th[t]), StartManager(t)
  PROVE  \E r : Goes(t, r) /\ Sound(t, r)'
  <1> USE Numbers
  <1>1. PICK x : x = th[t]
    OBVIOUS
  <1>2. Legal(x) /\ x \in Thread /\ StateTypes
    BY <1>1, HandsAre DEF TypeInv
  <1>3. /\ LinksInOrder(x) /\ FeedInOrder(x) /\ PlaceInOrder(x) /\ DialInOrder(x)
        /\ AskedInOrder(t, x) /\ FedInOrder(x)
    BY <1>1 DEF Sound
  <1>4. PICK g : g = x.run
    OBVIOUS
  <1>5. x.pc = "start" /\ g \in Managers
    BY <1>1, <1>2, <1>4 DEF StartManager, Legal
  <1>6. UNCHANGED <<store, want, net, live, refused, opened, current, asked>>
    BY DEF StartManager, conn
  <1>7. /\ store # None /\ asked = x.patterns /\ asked # {} /\ x.link = Carrier /\ current = None
    BY <1>3, <1>5 DEF PlaceInOrder, AskedInOrder, Serves, Anew, Swapping
  <1>8. subs = {}
    <2>1. \A s \in subs : s.mgr = None /\ s \in Sub
      BY <1>2, <1>3, <1>5, <1>7 DEF FeedInOrder, Holder, StateTypes
    <2> QED BY <1>2, <2>1 DEF Sub
  <1>9. CASE Open(x.link)
    <2>1. PICK N : N = {[run |-> x.run, mgr |-> g, link |-> x.link, pattern |-> p] : p \in x.patterns}
      OBVIOUS
    <2>2. PICK r : r = [x EXCEPT !.pc = "add", !.g = g]
      OBVIOUS
    <2>3. /\ running' = [running EXCEPT ![g] = TRUE] /\ held' = [held EXCEPT ![g] = N]
          /\ subs' = N /\ Goes(t, r)
      BY <1>1, <1>4, <1>8, <1>9, <2>1, <2>2 DEF StartManager, New
    <2>4. r.pc = "add" /\ r.then = x.then /\ r.g = g /\ r.m = x.m /\ r.link = x.link /\ r.patterns = x.patterns
      BY <1>2, <2>2 DEF Thread
    <2>5. \A h \in Managers : running'[h] <=> h = g
      BY <1>2, <1>3, <1>5, <1>7, <2>3 DEF FeedInOrder, Holder, StateTypes
    <2>6. \A s \in N : s.mgr = g /\ s.link[1] = store /\ s \in held'[s.mgr]
      <3>1. \A s \in N : s.mgr = g /\ s.link = x.link
        BY <2>1
      <3>2. x.link[1] = store
        BY <1>7 DEF Carrier, Own, Api
      <3>3. held'[g] = N
        BY <1>2, <1>5, <2>3 DEF StateTypes
      <3> QED BY <3>1, <3>2, <3>3
    <2>7. Carrier' = Carrier
      BY <1>6 DEF Carrier, Own, Api
    <2>8. g # None /\ subs' = {[run |-> x.run, mgr |-> g, link |-> Carrier', pattern |-> p] : p \in asked'}
      BY <1>2, <1>5, <1>6, <1>7, <2>1, <2>3, <2>7
    <2>9. LinksInOrder(r)'
      BY <1>2, <1>3, <1>5, <1>6, <1>7, <2>4 DEF LinksInOrder, Home, Leaves, Arrives, Opening, Open
    <2>10. FeedInOrder(r)'
      BY <1>6, <2>3, <2>4, <2>5, <2>6 DEF FeedInOrder, Home, Holder, Leaves, Arrives, Opening
    <2>11. PlaceInOrder(r)'
      BY <1>2, <1>3, <1>5, <1>6, <1>7, <2>4 DEF PlaceInOrder, Leaves, Arrives, Serves, Anew, Moves, Opening, Swapping
    <2>12. DialInOrder(r)'
      BY <1>2, <1>3, <1>5, <1>6, <1>7, <2>4 DEF DialInOrder
    <2>13. AskedInOrder(t, r)'
      BY <1>3, <1>5, <1>6, <1>7, <2>4, <2>7 DEF AskedInOrder, Serves, Moves, Arrives, Opening, Swapping
    <2>14. FedInOrder(r)'
      BY <1>4, <1>5, <2>4, <2>8 DEF FedInOrder, Fed, Holder, Managers, Managed
    <2> QED BY <2>3, <2>9, <2>10, <2>11, <2>12, <2>13, <2>14 DEF Sound
  <1>10. CASE ~Open(x.link)
    <2>1. PICK r : r = Idle
      OBVIOUS
    <2>2. Goes(t, r) /\ missed' /\ UNCHANGED <<running, held, subs>>
      BY <1>1, <1>10, <2>1 DEF StartManager
    <2>3. r.pc = "idle"
      BY <2>1, IdleShape
    <2>4. LinksInOrder(r)'
      BY <1>3, <1>5, <1>6, <1>7, <1>8, <2>2, <2>3 DEF LinksInOrder, Home, Leaves, Arrives, Opening, Open
    <2>5. FeedInOrder(r)'
      BY <1>3, <1>5, <1>6, <1>7, <1>8, <2>2, <2>3 DEF FeedInOrder, Home, Holder, Leaves, Arrives, Opening
    <2>6. PlaceInOrder(r)'
      BY <1>3, <1>5, <1>6, <1>7, <1>8, <2>2, <2>3 DEF PlaceInOrder, Leaves, Arrives, Serves, Anew, Moves, Opening, Swapping
    <2>7. DialInOrder(r)'
      BY <1>3, <1>5, <1>6, <1>7, <1>8, <2>2, <2>3 DEF DialInOrder
    <2>8. AskedInOrder(t, r)'
      BY <1>3, <1>5, <1>6, <1>7, <1>8, <2>2, <2>3 DEF AskedInOrder, Serves, Moves, Arrives, Opening, Swapping, Carrier
    <2>9. FedInOrder(r)'
      BY <1>3, <1>5, <1>6, <1>7, <1>8, <2>2, <2>3 DEF FedInOrder, Holder, Fed, Carrier, Own, Api
    <2> QED BY <2>2, <2>4, <2>5, <2>6, <2>7, <2>8, <2>9 DEF Sound
  <1> QED BY <1>9, <1>10

LEMMA SoundAddManager ==
  ASSUME TypeInv, NEW t \in Threads, Sound(t, th[t]), AddManager(t)
  PROVE  \E r : Goes(t, r) /\ Sound(t, r)'
  <1> USE Numbers
  <1>1. PICK x : x = th[t]
    OBVIOUS
  <1>2. Legal(x) /\ x \in Thread /\ StateTypes
    BY <1>1, HandsAre DEF TypeInv
  <1>3. /\ LinksInOrder(x) /\ FeedInOrder(x) /\ PlaceInOrder(x) /\ DialInOrder(x)
        /\ AskedInOrder(t, x) /\ FedInOrder(x)
    BY <1>1 DEF Sound
  <1>4. PICK r : r = Idle
    OBVIOUS
  <1>5. /\ x.pc = "add" /\ Goes(t, r) /\ current' = x.g
        /\ UNCHANGED <<store, want, net, live, refused, opened, running, held, subs, asked, missed>>
    BY <1>1, <1>4 DEF AddManager, conn, history
  <1>6. r.pc = "idle"
    BY <1>4, IdleShape
  <1>7. store # None /\ asked # {}
    BY <1>3, <1>5 DEF PlaceInOrder, AskedInOrder, Serves, Swapping
  <1>8. LinksInOrder(r)'
    BY <1>2, <1>3, <1>5, <1>6, <1>7 DEF LinksInOrder, Home, Leaves, Arrives, Opening, Open
  <1>9. FeedInOrder(r)'
    BY <1>2, <1>3, <1>5, <1>6, <1>7 DEF FeedInOrder, Home, Holder, Leaves, Arrives, Opening
  <1>10. PlaceInOrder(r)'
    BY <1>2, <1>3, <1>5, <1>6, <1>7 DEF PlaceInOrder, Leaves, Arrives, Serves, Anew, Moves, Opening, Swapping
  <1>11. DialInOrder(r)'
    BY <1>2, <1>3, <1>5, <1>6, <1>7 DEF DialInOrder
  <1>12. AskedInOrder(t, r)'
    BY <1>2, <1>3, <1>5, <1>6, <1>7 DEF AskedInOrder, Serves, Moves, Arrives, Opening, Swapping, Carrier
  <1>13. FedInOrder(r)'
    BY <1>2, <1>3, <1>5, <1>6, <1>7 DEF FedInOrder, Holder, Fed, Carrier, Own, Api
  <1> QED BY <1>5, <1>8, <1>9, <1>10, <1>11, <1>12, <1>13 DEF Sound

LEMMA SoundSwap ==
  ASSUME TypeInv, NEW t \in Threads, Sound(t, th[t]), Swap(t)
  PROVE  \E r : Goes(t, r) /\ Sound(t, r)'
  <1> USE Numbers
  <1>1. PICK x : x = th[t]
    OBVIOUS
  <1>2. Legal(x) /\ x \in Thread /\ StateTypes
    BY <1>1, HandsAre DEF TypeInv
  <1>3. /\ LinksInOrder(x) /\ FeedInOrder(x) /\ PlaceInOrder(x) /\ DialInOrder(x)
        /\ AskedInOrder(t, x) /\ FedInOrder(x)
    BY <1>1 DEF Sound
  <1>4. PICK g : g = x.g
    OBVIOUS
  <1>5. PICK r : r = [x EXCEPT !.pc = "subscribe"]
    OBVIOUS
  <1>6. /\ x.pc = "swap"
        /\ UNCHANGED <<store, want, net, live, refused, opened, current, running, asked, missed>>
    BY <1>1 DEF Swap, conn, history
  <1>7. g = current /\ g \in Managers /\ store # None
    BY <1>2, <1>3, <1>4, <1>6 DEF PlaceInOrder, Serves, Swapping, StateTypes
  <1>8. running[g]
    BY <1>3, <1>6, <1>7 DEF FeedInOrder, Holder
  <1>9. held' = [held EXCEPT ![g] = {}] /\ subs' = subs \ held[g] /\ Goes(t, r)
    BY <1>1, <1>4, <1>5, <1>8 DEF Swap
  <1>10. subs' = {}
    <2>1. \A s \in subs : s \in held[g]
      BY <1>3, <1>6, <1>7 DEF FeedInOrder, Holder
    <2> QED BY <1>9, <2>1
  <1>11. /\ r.pc = "subscribe" /\ r.then = x.then /\ r.m = x.m /\ r.g = x.g /\ r.patterns = x.patterns
         /\ r.link = x.link
    BY <1>2, <1>5 DEF Thread
  <1>12. LinksInOrder(r)'
    BY <1>3, <1>4, <1>6, <1>7, <1>10, <1>11 DEF LinksInOrder, Home, Leaves, Arrives, Opening, Open
  <1>13. FeedInOrder(r)'
    BY <1>3, <1>4, <1>6, <1>7, <1>10, <1>11 DEF FeedInOrder, Home, Holder, Leaves, Arrives, Opening
  <1>14. PlaceInOrder(r)'
    BY <1>3, <1>4, <1>6, <1>7, <1>10, <1>11 DEF PlaceInOrder, Leaves, Arrives, Serves, Anew, Moves, Opening, Swapping
  <1>15. DialInOrder(r)'
    BY <1>3, <1>4, <1>6, <1>7, <1>10, <1>11 DEF DialInOrder
  <1>16. AskedInOrder(t, r)'
    BY <1>3, <1>4, <1>6, <1>7, <1>10, <1>11 DEF AskedInOrder, Serves, Moves, Arrives, Opening, Swapping, Carrier, Own, Api
  <1>17. FedInOrder(r)'
    BY <1>3, <1>4, <1>6, <1>7, <1>10, <1>11 DEF FedInOrder, Holder, Fed, Carrier, Own, Api
  <1> QED BY <1>9, <1>12, <1>13, <1>14, <1>15, <1>16, <1>17 DEF Sound

(* A manager is only stopped meanwhile by a goroutine that runs at the same *)
(* time.                                                                    *)
LEMMA NeverRestarts ==
  ASSUME NEW t \in Threads, Sound(t, th[t])
  PROVE  ~Restart(t) /\ ~Started(t)
  BY DEF Sound, PlaceInOrder, Restart, Started

LEMMA SoundSubscribe ==
  ASSUME TypeInv, NEW t \in Threads, Sound(t, th[t]), Subscribe(t)
  PROVE  \E r : Goes(t, r) /\ Sound(t, r)'
  <1> USE Numbers
  <1>1. PICK x : x = th[t]
    OBVIOUS
  <1>2. Legal(x) /\ x \in Thread /\ StateTypes
    BY <1>1, HandsAre DEF TypeInv
  <1>3. /\ LinksInOrder(x) /\ FeedInOrder(x) /\ PlaceInOrder(x) /\ DialInOrder(x)
        /\ AskedInOrder(t, x) /\ FedInOrder(x)
    BY <1>1 DEF Sound
  <1>4. PICK g : g = x.g
    OBVIOUS
  <1>5. /\ x.pc = "subscribe"
        /\ UNCHANGED <<store, want, net, live, refused, opened, current, running, held, asked>>
    BY <1>1 DEF Subscribe, conn
  <1>6. /\ g = current /\ g \in Managers /\ current # None /\ store # None /\ asked = x.patterns /\ subs = {}
        /\ (x.patterns # {} => x.link = Carrier) /\ (t = Mover => asked # {})
    BY <1>2, <1>3, <1>4, <1>5 DEF PlaceInOrder, AskedInOrder, FeedInOrder, Serves, Swapping, StateTypes
  <1>7. x.run \in Managed
    BY <1>2, <1>5 DEF Legal
  <1>8. CASE Open(x.link) \/ x.patterns = {}
    <2>1. PICK N : N = {[run |-> x.run, mgr |-> g, link |-> x.link, pattern |-> p] : p \in x.patterns}
      OBVIOUS
    <2>2. PICK r : r = [x EXCEPT !.pc = "keep"]
      OBVIOUS
    <2>3. subs' = N /\ Goes(t, r)
      BY <1>1, <1>4, <1>6, <1>8, <2>1, <2>2 DEF Subscribe, New
    <2>4. /\ r.pc = "keep" /\ r.then = x.then /\ r.m = x.m /\ r.g = x.g /\ r.patterns = x.patterns
          /\ r.link = x.link /\ r.run = x.run
      BY <1>2, <2>2 DEF Thread
    <2>5. \A s \in N : /\ s.mgr = g /\ s.link[1] = store
                      /\ s.run = x.run /\ s.link = x.link /\ s.pattern \in x.patterns
      <3>1. \A s \in N : s.mgr = g /\ s.run = x.run /\ s.link = x.link /\ s.pattern \in x.patterns
        BY <2>1
      <3>2. x.patterns # {} => x.link[1] = store
        BY <1>6 DEF Carrier, Own, Api
      <3> QED BY <3>1, <3>2
    <2>6. Carrier' = Carrier
      BY <1>5 DEF Carrier, Own, Api
    <2>7. subs' = {[run |-> x.run, mgr |-> current', link |-> Carrier', pattern |-> p] : p \in asked'}
      <3>1. CASE x.patterns = {}
        BY <1>5, <1>6, <2>1, <2>3, <3>1
      <3>2. CASE x.patterns # {}
        BY <1>5, <1>6, <2>1, <2>3, <2>6, <3>2
      <3> QED BY <3>1, <3>2
    <2>8. LinksInOrder(r)'
      BY <1>2, <1>3, <1>4, <1>5, <1>6, <2>4 DEF LinksInOrder, Home, Leaves, Arrives, Opening, Open
    <2>9. FeedInOrder(r)'
      BY <1>3, <1>4, <1>5, <1>6, <2>3, <2>4, <2>5 DEF FeedInOrder, Home, Holder, Leaves, Arrives, Opening
    <2>10. PlaceInOrder(r)'
      BY <1>2, <1>3, <1>4, <1>5, <1>6, <2>4 DEF PlaceInOrder, Leaves, Arrives, Serves, Anew, Moves, Opening, Swapping
    <2>11. DialInOrder(r)'
      BY <1>2, <1>3, <1>4, <1>5, <1>6, <2>4 DEF DialInOrder
    <2>12. AskedInOrder(t, r)'
      BY <1>3, <1>4, <1>5, <1>6, <2>4, <2>6 DEF AskedInOrder, Serves, Moves, Arrives, Opening, Swapping
    <2>13. FedInOrder(r)'
      BY <1>5, <1>6, <1>7, <2>4, <2>7 DEF FedInOrder, Fed, Holder
    <2> QED BY <2>3, <2>8, <2>9, <2>10, <2>11, <2>12, <2>13 DEF Sound
  <1>9. CASE ~(Open(x.link) \/ x.patterns = {}) /\ t = Mover
    <2>1. PICK r : r = Idle
      OBVIOUS
    <2>2. Goes(t, r) /\ missed' /\ subs' = subs
      BY <1>1, <1>9, <2>1 DEF Subscribe, GiveUp
    <2>3. r.pc = "idle"
      BY <2>1, IdleShape
    <2>4. LinksInOrder(r)'
      BY <1>3, <1>4, <1>5, <1>6, <1>9, <2>2, <2>3 DEF LinksInOrder, Home, Leaves, Arrives, Opening, Open
    <2>5. FeedInOrder(r)'
      BY <1>3, <1>4, <1>5, <1>6, <1>9, <2>2, <2>3 DEF FeedInOrder, Home, Holder, Leaves, Arrives, Opening
    <2>6. PlaceInOrder(r)'
      BY <1>3, <1>4, <1>5, <1>6, <1>9, <2>2, <2>3 DEF PlaceInOrder, Leaves, Arrives, Serves, Anew, Moves, Opening, Swapping
    <2>7. DialInOrder(r)'
      BY <1>3, <1>4, <1>5, <1>6, <1>9, <2>2, <2>3 DEF DialInOrder
    <2>8. AskedInOrder(t, r)'
      BY <1>3, <1>4, <1>5, <1>6, <1>9, <2>2, <2>3 DEF AskedInOrder, Serves, Moves, Arrives, Opening, Swapping, Carrier
    <2>9. FedInOrder(r)'
      BY <1>3, <1>4, <1>5, <1>6, <1>9, <2>2, <2>3 DEF FedInOrder, Holder, Fed, Carrier, Own, Api
    <2> QED BY <2>2, <2>4, <2>5, <2>6, <2>7, <2>8, <2>9 DEF Sound
  <1>10. CASE ~(Open(x.link) \/ x.patterns = {}) /\ t # Mover
    <2>1. PICK r : r = [x EXCEPT !.pc = "unmap", !.then = "restart"]
      OBVIOUS
    <2>2. Goes(t, r) /\ subs' = subs
      BY <1>1, <1>10, <2>1 DEF Subscribe, GiveUp
    <2>3. r.pc = "unmap" /\ r.then = "restart" /\ r.m = x.m /\ r.patterns = x.patterns
      BY <1>2, <2>1 DEF Thread
    <2>4. LinksInOrder(r)'
      BY <1>3, <1>4, <1>5, <1>6, <1>10, <2>2, <2>3 DEF LinksInOrder, Home, Leaves, Arrives, Opening, Open
    <2>5. FeedInOrder(r)'
      BY <1>3, <1>4, <1>5, <1>6, <1>10, <2>2, <2>3 DEF FeedInOrder, Home, Holder, Leaves, Arrives, Opening
    <2>6. PlaceInOrder(r)'
      BY <1>3, <1>4, <1>5, <1>6, <1>10, <2>2, <2>3 DEF PlaceInOrder, Leaves, Arrives, Serves, Anew, Moves, Opening, Swapping
    <2>7. DialInOrder(r)'
      BY <1>3, <1>4, <1>5, <1>6, <1>10, <2>2, <2>3 DEF DialInOrder
    <2>8. AskedInOrder(t, r)'
      BY <1>3, <1>4, <1>5, <1>6, <1>10, <2>2, <2>3 DEF AskedInOrder, Serves, Moves, Arrives, Opening, Swapping, Carrier
    <2>9. FedInOrder(r)'
      BY <1>3, <1>4, <1>5, <1>6, <1>10, <2>2, <2>3 DEF FedInOrder, Holder, Fed, Carrier, Own, Api
    <2> QED BY <2>2, <2>4, <2>5, <2>6, <2>7, <2>8, <2>9 DEF Sound
  <1> QED BY <1>8, <1>9, <1>10

LEMMA SoundKeep ==
  ASSUME TypeInv, NEW t \in Threads, Sound(t, th[t]), Keep(t)
  PROVE  \E r : Goes(t, r) /\ Sound(t, r)'
  <1> USE Numbers
  <1>1. PICK x : x = th[t]
    OBVIOUS
  <1>2. Legal(x) /\ x \in Thread /\ StateTypes
    BY <1>1, HandsAre DEF TypeInv
  <1>3. /\ LinksInOrder(x) /\ FeedInOrder(x) /\ PlaceInOrder(x) /\ DialInOrder(x)
        /\ AskedInOrder(t, x) /\ FedInOrder(x)
    BY <1>1 DEF Sound
  <1>4. PICK g : g = x.g
    OBVIOUS
  <1>5. PICK N : N = {[run |-> x.run, mgr |-> g, link |-> x.link, pattern |-> p] : p \in x.patterns}
    OBVIOUS
  <1>6. PICK r : r = IF t # Mover /\ x.patterns = {} THEN [x EXCEPT !.pc = "release"] ELSE Idle
    OBVIOUS
  <1>7. /\ x.pc = "keep" /\ held' = [held EXCEPT ![g] = N] /\ Goes(t, r)
        /\ UNCHANGED <<store, want, net, live, refused, opened, current, running, subs, asked, missed>>
    BY <1>1, <1>4, <1>5, <1>6 DEF Keep, New, Done, conn, history
  <1>8. /\ g = current /\ g \in Managers /\ current # None /\ store # None /\ asked = x.patterns
        /\ (t = Mover => asked # {})
    BY <1>2, <1>3, <1>4, <1>7 DEF PlaceInOrder, AskedInOrder, Serves, Swapping, StateTypes
  <1>9. IF t # Mover /\ x.patterns = {} THEN r.pc = "release" /\ r.patterns = x.patterns ELSE r.pc = "idle"
    BY <1>2, <1>6, IdleShape DEF Thread
  <1>10. \A s \in subs : s.mgr = g /\ s.link[1] = store /\ s \in held'[s.mgr]
    <2>1. \A s \in subs : /\ s \in Sub /\ s.mgr = g /\ s.link[1] = store
                         /\ s.run = x.run /\ s.link = x.link /\ s.pattern \in x.patterns
      BY <1>2, <1>3, <1>4, <1>7, <1>8 DEF FeedInOrder, Home, Holder, Leaves, Arrives, Opening, StateTypes
    <2>2. \A s \in subs : s = [run |-> s.run, mgr |-> s.mgr, link |-> s.link, pattern |-> s.pattern]
      BY <2>1 DEF Sub
    <2>3. held'[g] = N
      BY <1>2, <1>7, <1>8 DEF StateTypes
    <2> QED BY <1>5, <2>1, <2>2, <2>3
  <1>11. LinksInOrder(r)'
    BY <1>3, <1>4, <1>7, <1>8, <1>9 DEF LinksInOrder, Home, Leaves, Arrives, Opening, Open
  <1>12. FeedInOrder(r)'
    BY <1>3, <1>4, <1>7, <1>8, <1>9, <1>10 DEF FeedInOrder, Home, Holder, Leaves, Arrives, Opening
  <1>13. PlaceInOrder(r)'
    BY <1>3, <1>4, <1>7, <1>8, <1>9 DEF PlaceInOrder, Leaves, Arrives, Serves, Anew, Moves, Opening, Swapping
  <1>14. DialInOrder(r)'
    BY <1>3, <1>4, <1>7, <1>8, <1>9 DEF DialInOrder
  <1>15. AskedInOrder(t, r)'
    BY <1>3, <1>4, <1>7, <1>8, <1>9 DEF AskedInOrder, Serves, Moves, Arrives, Opening, Swapping, Carrier
  <1>16. FedInOrder(r)'
    BY <1>3, <1>4, <1>7, <1>8, <1>9 DEF FedInOrder, Holder, Fed, Carrier, Own, Api
  <1> QED BY <1>7, <1>11, <1>12, <1>13, <1>14, <1>15, <1>16 DEF Sound

LEMMA SoundChanged ==
  ASSUME TypeInv, NEW t \in Threads, Sound(t, th[t]), Changed(t)
  PROVE  \E r : Goes(t, r) /\ Sound(t, r)'
  <1> USE Numbers
  <1>1. PICK x : x = th[t]
    OBVIOUS
  <1>2. Legal(x) /\ x \in Thread /\ StateTypes
    BY <1>1, HandsAre DEF TypeInv
  <1>3. /\ LinksInOrder(x) /\ FeedInOrder(x) /\ PlaceInOrder(x) /\ DialInOrder(x)
        /\ AskedInOrder(t, x) /\ FedInOrder(x)
    BY <1>1 DEF Sound
  <1>4. PICK r : r = [x EXCEPT !.g = current, !.pc = "lookup"]
    OBVIOUS
  <1>5. /\ x.pc = "change" /\ x.patterns # {} /\ Goes(t, r)
        /\ UNCHANGED <<store, want, net, live, refused, opened, current, running, held, subs, asked, missed>>
    BY <1>1, <1>4 DEF Changed, conn, feed, history
  <1>6. r.pc = "lookup" /\ r.g = current /\ r.patterns = x.patterns
    BY <1>2, <1>4 DEF Thread
  <1>7. LinksInOrder(r)'
    BY <1>3, <1>5, <1>6 DEF LinksInOrder, Home, Leaves, Arrives, Opening, Open
  <1>8. FeedInOrder(r)'
    BY <1>3, <1>5, <1>6 DEF FeedInOrder, Home, Holder, Leaves, Arrives, Opening
  <1>9. PlaceInOrder(r)'
    BY <1>3, <1>5, <1>6 DEF PlaceInOrder, Leaves, Arrives, Serves, Anew, Moves, Opening, Swapping
  <1>10. DialInOrder(r)'
    BY <1>3, <1>5, <1>6 DEF DialInOrder
  <1>11. AskedInOrder(t, r)'
    BY <1>3, <1>5, <1>6 DEF AskedInOrder, Serves, Moves, Arrives, Opening, Swapping, Carrier
  <1>12. FedInOrder(r)'
    BY <1>3, <1>5, <1>6 DEF FedInOrder, Holder, Fed, Carrier, Own, Api
  <1> QED BY <1>5, <1>7, <1>8, <1>9, <1>10, <1>11, <1>12 DEF Sound

LEMMA SoundChangedToNone ==
  ASSUME TypeInv, NEW t \in Threads, Sound(t, th[t]), ChangedToNone(t)
  PROVE  \E r : Goes(t, r) /\ Sound(t, r)'
  <1> USE Numbers
  <1>1. PICK x : x = th[t]
    OBVIOUS
  <1>2. Legal(x) /\ x \in Thread /\ StateTypes
    BY <1>1, HandsAre DEF TypeInv
  <1>3. /\ LinksInOrder(x) /\ FeedInOrder(x) /\ PlaceInOrder(x) /\ DialInOrder(x)
        /\ AskedInOrder(t, x) /\ FedInOrder(x)
    BY <1>1 DEF Sound
  <1>4. /\ x.pc = "change" /\ x.patterns = {}
        /\ UNCHANGED <<store, want, net, live, refused, opened, current, running, held, subs, asked>>
    BY <1>1 DEF ChangedToNone, conn, feed
  <1>5. store # None /\ asked = x.patterns /\ t # Mover
    BY <1>3, <1>4 DEF PlaceInOrder, AskedInOrder, Serves
  <1>6. CASE ApiUp /\ current # None
    <2>1. PICK r : r = [x EXCEPT !.pc = "swap", !.g = current, !.link = Api(store)]
      OBVIOUS
    <2>2. Goes(t, r)
      BY <1>1, <1>6, <2>1 DEF ChangedToNone
    <2>3. r.pc = "swap" /\ r.g = current /\ r.patterns = x.patterns
      BY <1>2, <2>1 DEF Thread
    <2>4. LinksInOrder(r)'
      BY <1>3, <1>4, <1>5, <1>6, <2>3 DEF LinksInOrder, Home, Leaves, Arrives, Opening, Open
    <2>5. FeedInOrder(r)'
      BY <1>3, <1>4, <1>5, <1>6, <2>3 DEF FeedInOrder, Home, Holder, Leaves, Arrives, Opening
    <2>6. PlaceInOrder(r)'
      BY <1>3, <1>4, <1>5, <1>6, <2>3 DEF PlaceInOrder, Leaves, Arrives, Serves, Anew, Moves, Opening, Swapping
    <2>7. DialInOrder(r)'
      BY <1>3, <1>4, <1>5, <1>6, <2>3 DEF DialInOrder
    <2>8. AskedInOrder(t, r)'
      BY <1>3, <1>4, <1>5, <1>6, <2>3 DEF AskedInOrder, Serves, Moves, Arrives, Opening, Swapping, Carrier
    <2>9. FedInOrder(r)'
      BY <1>3, <1>4, <1>5, <1>6, <2>3 DEF FedInOrder, Holder, Fed, Carrier, Own, Api
    <2> QED BY <2>2, <2>4, <2>5, <2>6, <2>7, <2>8, <2>9 DEF Sound
  <1>7. CASE ~(ApiUp /\ current # None)
    <2>1. PICK r : r = [x EXCEPT !.pc = "release"]
      OBVIOUS
    <2>2. Goes(t, r) /\ missed'
      BY <1>1, <1>7, <2>1 DEF ChangedToNone
    <2>3. r.pc = "release" /\ r.patterns = x.patterns
      BY <1>2, <2>1 DEF Thread
    <2>4. LinksInOrder(r)'
      BY <1>3, <1>4, <1>5, <1>7, <2>2, <2>3 DEF LinksInOrder, Home, Leaves, Arrives, Opening, Open
    <2>5. FeedInOrder(r)'
      BY <1>3, <1>4, <1>5, <1>7, <2>2, <2>3 DEF FeedInOrder, Home, Holder, Leaves, Arrives, Opening
    <2>6. PlaceInOrder(r)'
      BY <1>3, <1>4, <1>5, <1>7, <2>2, <2>3 DEF PlaceInOrder, Leaves, Arrives, Serves, Anew, Moves, Opening, Swapping
    <2>7. DialInOrder(r)'
      BY <1>3, <1>4, <1>5, <1>7, <2>2, <2>3 DEF DialInOrder
    <2>8. AskedInOrder(t, r)'
      BY <1>3, <1>4, <1>5, <1>7, <2>2, <2>3 DEF AskedInOrder, Serves, Moves, Arrives, Opening, Swapping, Carrier
    <2>9. FedInOrder(r)'
      BY <1>3, <1>4, <1>5, <1>7, <2>2, <2>3 DEF FedInOrder, Holder, Fed, Carrier, Own, Api
    <2> QED BY <2>2, <2>4, <2>5, <2>6, <2>7, <2>8, <2>9 DEF Sound
  <1> QED BY <1>6, <1>7

LEMMA SoundRelease ==
  ASSUME TypeInv, NEW t \in Threads, Sound(t, th[t]), Release(t)
  PROVE  \E r : Goes(t, r) /\ Sound(t, r)'
  <1> USE Numbers
  <1>1. PICK x : x = th[t]
    OBVIOUS
  <1>2. Legal(x) /\ x \in Thread /\ StateTypes
    BY <1>1, HandsAre DEF TypeInv
  <1>3. /\ LinksInOrder(x) /\ FeedInOrder(x) /\ PlaceInOrder(x) /\ DialInOrder(x)
        /\ AskedInOrder(t, x) /\ FedInOrder(x)
    BY <1>1 DEF Sound
  <1>4. x.pc = "release" /\ UNCHANGED <<store, want, net, refused, opened, current, running, held, subs, asked, missed>>
    BY <1>1 DEF Release, feed, history
  <1>5. store # None /\ store \in Managed /\ asked = {}
    BY <1>2, <1>3, <1>4 DEF PlaceInOrder, AskedInOrder, Serves, StateTypes
  <1>6. PICK r : r = [x EXCEPT !.pc = "close", !.m = store, !.link = Own(store), !.then = "released"]
    OBVIOUS
  <1>7. Goes(t, r) /\ live' = [live EXCEPT ![store] = None]
    BY <1>1, <1>4, <1>5, <1>6 DEF Release
  <1>8. r.pc = "close" /\ r.then = "released" /\ r.m = store
    BY <1>2, <1>6 DEF Thread
  <1>9. live'[store] = None /\ \A m \in Managed : m # store => live'[m] = live[m]
    BY <1>2, <1>5, <1>7 DEF StateTypes
  <1>10. LinksInOrder(r)'
    BY <1>3, <1>4, <1>5, <1>8, <1>9 DEF LinksInOrder, Home, Leaves, Arrives, Opening, Open
  <1>11. FeedInOrder(r)'
    BY <1>3, <1>4, <1>5, <1>8, <1>9 DEF FeedInOrder, Home, Holder, Leaves, Arrives, Opening
  <1>12. PlaceInOrder(r)'
    BY <1>3, <1>4, <1>5, <1>8, <1>9 DEF PlaceInOrder, Leaves, Arrives, Serves, Anew, Moves, Opening, Swapping
  <1>13. DialInOrder(r)'
    BY <1>3, <1>4, <1>5, <1>8, <1>9 DEF DialInOrder
  <1>14. AskedInOrder(t, r)'
    BY <1>3, <1>4, <1>5, <1>8, <1>9 DEF AskedInOrder, Serves, Moves, Arrives, Opening, Swapping, Carrier
  <1>15. FedInOrder(r)'
    <2>1. ~missed => Holder(x) # None /\ subs = {}
      BY <1>3, <1>4, <1>5 DEF FedInOrder, Fed
    <2>2. 1 \in Managed
      BY <1>2, <1>5, RunsAreNat DEF Managed
    <2> QED BY <1>4, <1>5, <1>8, <2>1, <2>2 DEF FedInOrder, Fed, Holder
  <1> QED BY <1>7, <1>10, <1>11, <1>12, <1>13, <1>14, <1>15 DEF Sound

LEMMA SoundNoteRefusal ==
  ASSUME TypeInv, NEW t \in Threads, t = Mover, Sound(t, th[t]), NoteRefusal
  PROVE  \E r : Goes(t, r) /\ Sound(t, r)'
  <1> USE Numbers
  <1>1. PICK x : x = th[t]
    OBVIOUS
  <1>2. Legal(x) /\ x \in Thread /\ StateTypes
    BY <1>1, HandsAre DEF TypeInv
  <1>3. /\ LinksInOrder(x) /\ FeedInOrder(x) /\ PlaceInOrder(x) /\ DialInOrder(x)
        /\ AskedInOrder(t, x) /\ FedInOrder(x)
    BY <1>1 DEF Sound
  <1>4. PICK r : r = [x EXCEPT !.pc = "closeLive", !.then = "moved"]
    OBVIOUS
  <1>5. /\ x.pc = "give up" /\ Goes(t, r) /\ refused' = [refused EXCEPT ![x.m] = TRUE]
        /\ UNCHANGED <<store, want, net, live, opened, current, running, held, subs, asked, missed>>
    BY <1>1, <1>4 DEF NoteRefusal, feed, history
  <1>6. r.pc = "closeLive" /\ r.then = "moved" /\ r.m = x.m
    BY <1>2, <1>4 DEF Thread
  <1>7. \A m \in Managed : refused'[m] => refused[m] \/ m = x.m
    BY <1>2, <1>5 DEF StateTypes
  <1>8. LinksInOrder(r)'
    BY <1>3, <1>5, <1>6, <1>7 DEF LinksInOrder, Home, Leaves, Arrives, Opening, Open
  <1>9. FeedInOrder(r)'
    BY <1>3, <1>5, <1>6, <1>7 DEF FeedInOrder, Home, Holder, Leaves, Arrives, Opening
  <1>10. PlaceInOrder(r)'
    BY <1>3, <1>5, <1>6, <1>7 DEF PlaceInOrder, Leaves, Arrives, Serves, Anew, Moves, Opening, Swapping
  <1>11. DialInOrder(r)'
    BY <1>3, <1>5, <1>6, <1>7 DEF DialInOrder
  <1>12. AskedInOrder(t, r)'
    BY <1>3, <1>5, <1>6, <1>7 DEF AskedInOrder, Serves, Moves, Arrives, Opening, Swapping, Carrier
  <1>13. FedInOrder(r)'
    BY <1>3, <1>5, <1>6, <1>7 DEF FedInOrder, Holder, Fed, Carrier, Own, Api
  <1> QED BY <1>5, <1>8, <1>9, <1>10, <1>11, <1>12, <1>13 DEF Sound

LEMMA SoundMoved ==
  ASSUME TypeInv, NEW t \in Threads, t = Mover, Sound(t, th[t]), Moved
  PROVE  \E r : Goes(t, r) /\ Sound(t, r)'
  <1> USE Numbers
  <1>1. PICK x : x = th[t]
    OBVIOUS
  <1>2. Legal(x) /\ x \in Thread /\ StateTypes
    BY <1>1, HandsAre DEF TypeInv
  <1>3. /\ LinksInOrder(x) /\ FeedInOrder(x) /\ PlaceInOrder(x) /\ DialInOrder(x)
        /\ AskedInOrder(t, x) /\ FedInOrder(x)
    BY <1>1 DEF Sound
  <1>4. x.pc = "moved" /\ UNCHANGED <<store, want, net, live, refused, opened, current, running, held, subs, asked>>
    BY <1>1 DEF Moved, conn, feed
  <1>5. store # None /\ asked # {} /\ live[store] = None /\ asked = Chosen(want[store])
    BY <1>3, <1>4 DEF PlaceInOrder, AskedInOrder, DialInOrder, Moves
  <1>6. CASE ApiUp /\ current # None
    <2>1. PICK r : r = [x EXCEPT !.pc = "swap", !.g = current, !.link = Api(store), !.patterns = asked]
      OBVIOUS
    <2>2. Goes(t, r)
      BY <1>1, <1>5, <1>6, <2>1 DEF Moved, Chosen
    <2>3. r.pc = "swap" /\ r.g = current /\ r.link = Api(store) /\ r.patterns = asked
      BY <1>2, <2>1 DEF Thread
    <2>4. LinksInOrder(r)'
      BY <1>3, <1>4, <1>5, <1>6, <2>3 DEF LinksInOrder, Home, Leaves, Arrives, Opening, Open
    <2>5. FeedInOrder(r)'
      BY <1>3, <1>4, <1>5, <1>6, <2>3 DEF FeedInOrder, Home, Holder, Leaves, Arrives, Opening
    <2>6. PlaceInOrder(r)'
      BY <1>3, <1>4, <1>5, <1>6, <2>3 DEF PlaceInOrder, Leaves, Arrives, Serves, Anew, Moves, Opening, Swapping
    <2>7. DialInOrder(r)'
      BY <1>3, <1>4, <1>5, <1>6, <2>3 DEF DialInOrder
    <2>8. AskedInOrder(t, r)'
      BY <1>3, <1>4, <1>5, <1>6, <2>3 DEF AskedInOrder, Serves, Moves, Arrives, Opening, Swapping, Carrier, Own, Api
    <2>9. FedInOrder(r)'
      BY <1>3, <1>4, <1>5, <1>6, <2>3 DEF FedInOrder, Holder, Fed, Carrier, Own, Api
    <2> QED BY <2>2, <2>4, <2>5, <2>6, <2>7, <2>8, <2>9 DEF Sound
  <1>7. CASE ~(ApiUp /\ current # None)
    <2>1. PICK r : r = Idle
      OBVIOUS
    <2>2. Goes(t, r) /\ missed'
      BY <1>1, <1>7, <2>1 DEF Moved
    <2>3. r.pc = "idle"
      BY <2>1, IdleShape
    <2>4. LinksInOrder(r)'
      BY <1>3, <1>4, <1>5, <1>7, <2>2, <2>3 DEF LinksInOrder, Home, Leaves, Arrives, Opening, Open
    <2>5. FeedInOrder(r)'
      BY <1>3, <1>4, <1>5, <1>7, <2>2, <2>3 DEF FeedInOrder, Home, Holder, Leaves, Arrives, Opening
    <2>6. PlaceInOrder(r)'
      BY <1>3, <1>4, <1>5, <1>7, <2>2, <2>3 DEF PlaceInOrder, Leaves, Arrives, Serves, Anew, Moves, Opening, Swapping
    <2>7. DialInOrder(r)'
      BY <1>3, <1>4, <1>5, <1>7, <2>2, <2>3 DEF DialInOrder
    <2>8. AskedInOrder(t, r)'
      BY <1>3, <1>4, <1>5, <1>7, <2>2, <2>3 DEF AskedInOrder, Serves, Moves, Arrives, Opening, Swapping, Carrier
    <2>9. FedInOrder(r)'
      BY <1>3, <1>4, <1>5, <1>7, <2>2, <2>3 DEF FedInOrder, Holder, Fed, Carrier, Own, Api
    <2> QED BY <2>2, <2>4, <2>5, <2>6, <2>7, <2>8, <2>9 DEF Sound
  <1> QED BY <1>6, <1>7
-----------------------------------------------------------------------------
(* What a request and the move find when nothing is under way.              *)
LEMMA AtRest ==
  ASSUME OneWorks, Quiet, overlaps = 0, NEW t \in Threads
  PROVE  Alone(t) /\ \E x : x.pc = "idle" /\ Sound(t, x)
  <1>1. PICK u \in Threads : Sound(u, th[u])
    BY DEF OneWorks
  <1>2. PICK x : x = th[u]
    OBVIOUS
  <1>3. x.pc = "idle"
    BY <1>2 DEF Quiet
  <1>4. AskedInOrder(u, x) => AskedInOrder(t, x)
    BY <1>3 DEF AskedInOrder, Swapping
  <1>5. Sound(t, x)
    BY <1>1, <1>2, <1>4 DEF Sound
  <1> QED BY <1>3, <1>5 DEF Alone, Quiet

LEMMA SoundConnect ==
  ASSUME TypeInv, NEW t \in Threads, NEW x, x.pc = "idle", Sound(t, x), Connect(t)
  PROVE  \E r : Goes(t, r) /\ Sound(t, r)'
  <1> USE Numbers
  <1>1. StateTypes
    BY DEF TypeInv
  <1>2. /\ LinksInOrder(x) /\ FeedInOrder(x) /\ PlaceInOrder(x) /\ DialInOrder(x)
        /\ AskedInOrder(t, x) /\ FedInOrder(x)
    BY DEF Sound
  <1>3. PICK ps \in SUBSET Patterns, retry \in BOOLEAN :
           Goes(t, [Idle EXCEPT !.run = runs', !.patterns = ps, !.again = retry, !.then = "replace",
                                !.pc = IF store = None THEN "replace" ELSE "unmap"])
    BY DEF Connect
  <1>4. PICK r : r = [Idle EXCEPT !.run = runs', !.patterns = ps, !.again = retry, !.then = "replace",
                                  !.pc = IF store = None THEN "replace" ELSE "unmap"]
    OBVIOUS
  <1>5. /\ Goes(t, r)
        /\ UNCHANGED <<store, want, net, live, refused, opened, current, running, held, subs, asked, missed>>
    BY <1>3, <1>4 DEF Connect, conn, feed
  <1>6. r.pc = (IF store = None THEN "replace" ELSE "unmap") /\ r.then = "replace"
    BY <1>4 DEF Idle
  <1>7. LinksInOrder(r)'
    BY <1>2, <1>5, <1>6 DEF LinksInOrder, Home, Leaves, Arrives, Opening, Open
  <1>8. FeedInOrder(r)'
    BY <1>2, <1>5, <1>6 DEF FeedInOrder, Home, Holder, Leaves, Arrives, Opening
  <1>9. PlaceInOrder(r)'
    BY <1>2, <1>5, <1>6 DEF PlaceInOrder, Leaves, Arrives, Serves, Anew, Moves, Opening, Swapping
  <1>10. DialInOrder(r)'
    BY <1>2, <1>5, <1>6 DEF DialInOrder
  <1>11. AskedInOrder(t, r)'
    BY <1>2, <1>5, <1>6 DEF AskedInOrder, Serves, Moves, Arrives, Opening, Swapping, Carrier
  <1>12. FedInOrder(r)'
    BY <1>2, <1>5, <1>6 DEF FedInOrder, Holder, Fed, Carrier, Own, Api
  <1> QED BY <1>5, <1>7, <1>8, <1>9, <1>10, <1>11, <1>12 DEF Sound

LEMMA SoundDisconnect ==
  ASSUME TypeInv, NEW t \in Threads, NEW x, x.pc = "idle", Sound(t, x), Disconnect(t)
  PROVE  \E r : Goes(t, r) /\ Sound(t, r)'
  <1> USE Numbers
  <1>1. StateTypes
    BY DEF TypeInv
  <1>2. /\ LinksInOrder(x) /\ FeedInOrder(x) /\ PlaceInOrder(x) /\ DialInOrder(x)
        /\ AskedInOrder(t, x) /\ FedInOrder(x)
    BY DEF Sound
  <1>3. PICK r : r = [Idle EXCEPT !.run = runs', !.pc = "unmap", !.then = "remove"]
    OBVIOUS
  <1>4. /\ Goes(t, r)
        /\ UNCHANGED <<store, want, net, live, refused, opened, current, running, held, subs, asked, missed>>
    BY <1>3 DEF Disconnect, conn, feed
  <1>5. r.pc = "unmap" /\ r.then = "remove"
    BY <1>3 DEF Idle
  <1>6. LinksInOrder(r)'
    BY <1>2, <1>4, <1>5 DEF LinksInOrder, Home, Leaves, Arrives, Opening, Open
  <1>7. FeedInOrder(r)'
    BY <1>2, <1>4, <1>5 DEF FeedInOrder, Home, Holder, Leaves, Arrives, Opening
  <1>8. PlaceInOrder(r)'
    BY <1>2, <1>4, <1>5 DEF PlaceInOrder, Leaves, Arrives, Serves, Anew, Moves, Opening, Swapping
  <1>9. DialInOrder(r)'
    BY <1>2, <1>4, <1>5 DEF DialInOrder
  <1>10. AskedInOrder(t, r)'
    BY <1>2, <1>4, <1>5 DEF AskedInOrder, Serves, Moves, Arrives, Opening, Swapping, Carrier
  <1>11. FedInOrder(r)'
    BY <1>2, <1>4, <1>5 DEF FedInOrder, Holder, Fed, Carrier, Own, Api
  <1> QED BY <1>4, <1>6, <1>7, <1>8, <1>9, <1>10, <1>11 DEF Sound

LEMMA SoundSetSubscriptions ==
  ASSUME TypeInv, NEW t \in Threads, t \in Requests, NEW x, x.pc = "idle", Sound(t, x), SetSubscriptions(t)
  PROVE  \E r : Goes(t, r) /\ Sound(t, r)'
  <1> USE Numbers
  <1>1. StateTypes
    BY DEF TypeInv
  <1>2. /\ LinksInOrder(x) /\ FeedInOrder(x) /\ PlaceInOrder(x) /\ DialInOrder(x)
        /\ AskedInOrder(t, x) /\ FedInOrder(x)
    BY DEF Sound
  <1>3. PICK ps \in SUBSET Patterns :
           /\ want' = [want EXCEPT ![store] = ps] /\ asked' = ps
           /\ Goes(t, [Idle EXCEPT !.run = runs', !.pc = "change", !.patterns = ps])
    BY DEF SetSubscriptions
  <1>4. PICK r : r = [Idle EXCEPT !.run = runs', !.pc = "change", !.patterns = ps]
    OBVIOUS
  <1>5. /\ Goes(t, r) /\ store # None
        /\ UNCHANGED <<store, net, live, refused, opened, current, running, held, subs, missed>>
    BY <1>3, <1>4 DEF SetSubscriptions, feed
  <1>6. r.pc = "change" /\ r.patterns = ps
    BY <1>4 DEF Idle
  <1>7. t # Mover /\ want'[store] = ps
    BY <1>1, <1>3, <1>5, ThreadsAssumption DEF StateTypes
  <1>8. LinksInOrder(r)'
    BY <1>2, <1>3, <1>5, <1>6, <1>7 DEF LinksInOrder, Home, Leaves, Arrives, Opening, Open
  <1>9. FeedInOrder(r)'
    BY <1>2, <1>3, <1>5, <1>6, <1>7 DEF FeedInOrder, Home, Holder, Leaves, Arrives, Opening
  <1>10. PlaceInOrder(r)'
    BY <1>2, <1>3, <1>5, <1>6, <1>7 DEF PlaceInOrder, Leaves, Arrives, Serves, Anew, Moves, Opening, Swapping
  <1>11. DialInOrder(r)'
    BY <1>2, <1>3, <1>5, <1>6, <1>7 DEF DialInOrder
  <1>12. AskedInOrder(t, r)'
    BY <1>2, <1>3, <1>5, <1>6, <1>7 DEF AskedInOrder, Serves, Moves, Arrives, Opening, Swapping, Carrier, Chosen
  <1>13. FedInOrder(r)'
    BY <1>2, <1>3, <1>5, <1>6, <1>7 DEF FedInOrder, Holder, Fed, Carrier, Own, Api
  <1> QED BY <1>5, <1>8, <1>9, <1>10, <1>11, <1>12, <1>13 DEF Sound

LEMMA SoundMoveLive ==
  ASSUME TypeInv, DialInv, NEW t \in Threads, t = Mover, Quiet, NEW x, x.pc = "idle", Sound(t, x), MoveLive
  PROVE  \E r : Goes(t, r) /\ Sound(t, r)'
  <1> USE Numbers
  <1>1. StateTypes
    BY DEF TypeInv
  <1>2. /\ LinksInOrder(x) /\ FeedInOrder(x) /\ PlaceInOrder(x) /\ DialInOrder(x)
        /\ AskedInOrder(t, x) /\ FedInOrder(x)
    BY DEF Sound
  <1>3. PICK m \in Managed, k \in Dials :
           /\ net[<<m, k>>] = "away" /\ Goes(Mover, [Idle EXCEPT !.run = runs', !.pc = "give up", !.m = m])
    BY DEF MoveLive
  <1>4. PICK r : r = [Idle EXCEPT !.run = runs', !.pc = "give up", !.m = m]
    OBVIOUS
  <1>5. /\ Goes(t, r)
        /\ UNCHANGED <<store, want, net, live, refused, opened, current, running, held, subs, asked, missed>>
    BY <1>3, <1>4 DEF MoveLive, feed
  <1>6. r.pc = "give up" /\ r.m = m
    BY <1>4 DEF Idle
  <1>7. Open(<<m, k>>) /\ <<m, k>> \in Links
    BY <1>3 DEF Open, Links
  <1>8. store = m /\ m # None
    BY <1>1, <1>2, <1>7 DEF LinksInOrder, Home, Leaves, Arrives, Opening
  <1>9. live[m] = k
    BY <1>7 DEF DialInv, OneLiveConnection, Quiet
  <1>10. asked # {}
    <2>1. live[m] # None
      BY <1>9 DEF Dials, None
    <2> QED BY <1>2, <1>8, <2>1 DEF AskedInOrder, Swapping
  <1>11. LinksInOrder(r)'
    BY <1>2, <1>5, <1>6, <1>8, <1>10 DEF LinksInOrder, Home, Leaves, Arrives, Opening, Open
  <1>12. FeedInOrder(r)'
    BY <1>2, <1>5, <1>6, <1>8, <1>10 DEF FeedInOrder, Home, Holder, Leaves, Arrives, Opening
  <1>13. PlaceInOrder(r)'
    BY <1>2, <1>5, <1>6, <1>8, <1>10 DEF PlaceInOrder, Leaves, Arrives, Serves, Anew, Moves, Opening, Swapping
  <1>14. DialInOrder(r)'
    BY <1>2, <1>5, <1>6, <1>8, <1>10 DEF DialInOrder
  <1>15. AskedInOrder(t, r)'
    BY <1>2, <1>5, <1>6, <1>8, <1>10 DEF AskedInOrder, Serves, Moves, Arrives, Opening, Swapping, Carrier
  <1>16. FedInOrder(r)'
    BY <1>2, <1>5, <1>6, <1>8, <1>10 DEF FedInOrder, Holder, Fed, Carrier, Own, Api
  <1> QED BY <1>5, <1>11, <1>12, <1>13, <1>14, <1>15, <1>16 DEF Sound

(* A NATS connection is lost, comes back or is given up, or nothing happens. *)
LEMMA SoundLinks ==
  ASSUME TypeInv, NEW t \in Threads, Sound(t, th[t]),
         (\E l \in Links : Drop(l) \/ Back(l) \/ Expire(l)) \/ UNCHANGED vars
  PROVE  Sound(t, th[t])'
  <1> USE Numbers
  <1>1. PICK x : x = th[t]
    OBVIOUS
  <1>2. StateTypes
    BY DEF TypeInv
  <1>3. /\ LinksInOrder(x) /\ FeedInOrder(x) /\ PlaceInOrder(x) /\ DialInOrder(x)
        /\ AskedInOrder(t, x) /\ FedInOrder(x)
    BY <1>1 DEF Sound
  <1>4. UNCHANGED <<store, want, live, refused, opened, current, running, held, th, asked>>
    BY DEF Drop, Back, Expire, vars, conn, feed, history
  <1>5. /\ subs' \subseteq subs /\ (missed => missed') /\ (~missed' => subs' = subs)
        /\ \A k \in Links : Open(k)' => Open(k)
    <2>1. CASE \E l \in Links : Drop(l) \/ Back(l)
      BY <1>2, <2>1 DEF Drop, Back, feed, history, Open, StateTypes
    <2>2. CASE \E l \in Links : Expire(l)
      <3>1. PICK l \in Links : Expire(l)
        BY <2>2
      <3>2. /\ subs' = {s \in subs : s.link # l} /\ missed' = (missed \/ \E s \in subs : s.link = l)
            /\ net' = [k \in Links |-> IF k = l THEN "closed" ELSE net[k]]
        BY <3>1 DEF Expire, Closing
      <3>3. ~missed' => \A s \in subs : s.link # l
        BY <3>2
      <3> QED BY <3>2, <3>3 DEF Open
    <2>3. CASE UNCHANGED vars
      BY <2>3 DEF vars, conn, feed, history, Open
    <2> QED BY <2>1, <2>2, <2>3
  <1>6. PICK r : r = x
    OBVIOUS
  <1>7. LinksInOrder(r)'
    BY <1>3, <1>4, <1>5, <1>6 DEF LinksInOrder, Home, Leaves, Arrives, Opening, Open
  <1>8. FeedInOrder(r)'
    BY <1>3, <1>4, <1>5, <1>6 DEF FeedInOrder, Home, Holder, Leaves, Arrives, Opening
  <1>9. PlaceInOrder(r)'
    BY <1>3, <1>4, <1>5, <1>6 DEF PlaceInOrder, Leaves, Arrives, Serves, Anew, Moves, Opening, Swapping
  <1>10. DialInOrder(r)'
    BY <1>3, <1>4, <1>5, <1>6 DEF DialInOrder
  <1>11. AskedInOrder(t, r)'
    BY <1>3, <1>4, <1>5, <1>6 DEF AskedInOrder, Serves, Moves, Arrives, Opening, Swapping, Carrier, Own, Api
  <1>12. FedInOrder(r)'
    BY <1>3, <1>4, <1>5, <1>6 DEF FedInOrder, Holder, Fed, Carrier, Own, Api
  <1>13. th'[t] = r
    BY <1>1, <1>4, <1>6
  <1>14. LinksInOrder(th[t])'
    BY <1>13, <1>7 DEF LinksInOrder, Home, Leaves, Arrives
  <1>15. FeedInOrder(th[t])'
    BY <1>13, <1>8 DEF FeedInOrder, Home, Holder, Leaves, Arrives
  <1>16. PlaceInOrder(th[t])'
    BY <1>13, <1>9 DEF PlaceInOrder, Leaves, Arrives, Serves, Anew, Moves
  <1>17. DialInOrder(th[t])'
    BY <1>13, <1>10 DEF DialInOrder
  <1>18. AskedInOrder(t, th[t])'
    BY <1>13, <1>11 DEF AskedInOrder, Serves, Moves, Arrives
  <1>19. FedInOrder(th[t])'
    BY <1>13, <1>12 DEF FedInOrder, Holder, Fed
  <1> QED BY <1>14, <1>15, <1>16, <1>17, <1>18, <1>19 DEF Sound

LEMMA StepsAreOfOne ==
  ASSUME NEW t \in Threads, Step(t)
  PROVE  overlaps' = overlaps /\ th[t].pc # "idle"
  <1>1. Unmap(t) => overlaps' = overlaps /\ th[t].pc # "idle"
    BY DEF Unmap, history
  <1>2. Stop(t) => overlaps' = overlaps /\ th[t].pc # "idle"
    BY DEF Stop, history
  <1>3. Remove(t) => overlaps' = overlaps /\ th[t].pc # "idle"
    BY DEF Remove, history
  <1>4. CloseLive(t) => overlaps' = overlaps /\ th[t].pc # "idle"
    BY DEF CloseLive, history
  <1>5. Close(t) => overlaps' = overlaps /\ th[t].pc # "idle"
    BY DEF Close, history
  <1>6. DialFails(t) => overlaps' = overlaps /\ th[t].pc # "idle"
    BY DEF DialFails, history
  <1>7. Dial(t) => overlaps' = overlaps /\ th[t].pc # "idle"
    BY DEF Dial, history
  <1>8. Register(t) => overlaps' = overlaps /\ th[t].pc # "idle"
    BY DEF Register, history
  <1>9. Lookup(t) => overlaps' = overlaps /\ th[t].pc # "idle"
    BY DEF Lookup, history
  <1>10. OpenLive(t) => overlaps' = overlaps /\ th[t].pc # "idle"
    BY DEF OpenLive, history
  <1>11. DialLive(t) => overlaps' = overlaps /\ th[t].pc # "idle"
    BY DEF DialLive, history
  <1>12. Quicker(t) => overlaps' = overlaps /\ th[t].pc # "idle"
    BY DEF Quicker, history
  <1>13. Refused(t) => overlaps' = overlaps /\ th[t].pc # "idle"
    BY DEF Refused, history
  <1>14. Dialled(t) => overlaps' = overlaps /\ th[t].pc # "idle"
    BY DEF Dialled, history
  <1>15. ShareApi(t) => overlaps' = overlaps /\ th[t].pc # "idle"
    BY DEF ShareApi, history
  <1>16. StartManager(t) => overlaps' = overlaps /\ th[t].pc # "idle"
    BY DEF StartManager, history
  <1>17. AddManager(t) => overlaps' = overlaps /\ th[t].pc # "idle"
    BY DEF AddManager, history
  <1>18. Swap(t) => overlaps' = overlaps /\ th[t].pc # "idle"
    BY DEF Swap, history
  <1>19. Restart(t) => overlaps' = overlaps /\ th[t].pc # "idle"
    BY DEF Restart, history
  <1>20. Started(t) => overlaps' = overlaps /\ th[t].pc # "idle"
    BY DEF Started, history
  <1>21. Subscribe(t) => overlaps' = overlaps /\ th[t].pc # "idle"
    BY DEF Subscribe, history
  <1>22. Keep(t) => overlaps' = overlaps /\ th[t].pc # "idle"
    BY DEF Keep, history
  <1>23. Changed(t) => overlaps' = overlaps /\ th[t].pc # "idle"
    BY DEF Changed, history
  <1>24. ChangedToNone(t) => overlaps' = overlaps /\ th[t].pc # "idle"
    BY DEF ChangedToNone, history
  <1>25. Release(t) => overlaps' = overlaps /\ th[t].pc # "idle"
    BY DEF Release, history
  <1> QED BY <1>1, <1>2, <1>3, <1>4, <1>5, <1>6, <1>7, <1>8, <1>9, <1>10, <1>11, <1>12, <1>13, <1>14, <1>15, <1>16, <1>17, <1>18, <1>19, <1>20, <1>21, <1>22, <1>23, <1>24, <1>25 DEF Step

LEMMA SoundStep ==
  ASSUME TypeInv, DialInv, NEW t \in Threads, Alone(t), Sound(t, th[t]), Step(t)
  PROVE  \E r : Goes(t, r) /\ Sound(t, r)'
  <1>1. CASE Unmap(t)
    BY <1>1, SoundUnmap
  <1>2. CASE Stop(t)
    BY <1>2, SoundStop
  <1>3. CASE Remove(t)
    BY <1>3, SoundRemove
  <1>4. CASE CloseLive(t)
    BY <1>4, SoundCloseLive
  <1>5. CASE Close(t)
    BY <1>5, SoundClose
  <1>6. CASE DialFails(t)
    BY <1>6, SoundDialFails
  <1>7. CASE Dial(t)
    BY <1>7, SoundDial
  <1>8. CASE Register(t)
    BY <1>8, SoundRegister
  <1>9. CASE Lookup(t)
    BY <1>9, SoundLookup
  <1>10. CASE OpenLive(t)
    BY <1>10, SoundOpenLive
  <1>11. CASE DialLive(t)
    BY <1>11, SoundDialLive
  <1>12. CASE Quicker(t)
    BY <1>12, SoundQuicker
  <1>13. CASE Refused(t)
    BY <1>13, SoundRefused
  <1>14. CASE Dialled(t)
    BY <1>14, SoundDialled
  <1>15. CASE ShareApi(t)
    BY <1>15, SoundShareApi
  <1>16. CASE StartManager(t)
    BY <1>16, SoundStartManager
  <1>17. CASE AddManager(t)
    BY <1>17, SoundAddManager
  <1>18. CASE Swap(t)
    BY <1>18, SoundSwap
  <1>19. CASE Subscribe(t)
    BY <1>19, SoundSubscribe
  <1>20. CASE Keep(t)
    BY <1>20, SoundKeep
  <1>21. CASE Changed(t)
    BY <1>21, SoundChanged
  <1>22. CASE ChangedToNone(t)
    BY <1>22, SoundChangedToNone
  <1>23. CASE Release(t)
    BY <1>23, SoundRelease
  <1> QED BY <1>1, <1>2, <1>3, <1>4, <1>5, <1>6, <1>7, <1>8, <1>9, <1>10, <1>11, <1>12, <1>13, <1>14, <1>15, <1>16, <1>17, <1>18, <1>19, <1>20, <1>21, <1>22, <1>23, NeverRestarts DEF Step

LEMMA MovesOn ==
  ASSUME TypeInv, NEW t \in Threads, Alone(t), \E r : Goes(t, r) /\ Sound(t, r)'
  PROVE  OneWorks'
  <1>1. DOMAIN th = Threads
    BY DEF TypeInv
  <1> QED BY <1>1, AloneStays

LEMMA WorksOn ==
  ASSUME TypeInv, DialInv, OneWorks, [Next]_vars
  PROVE  OneWorks'
  <1>0. SUFFICES ASSUME overlaps' = 0 PROVE OneWorks'
    BY DEF OneWorks
  <1>1. overlaps \in Nat
    BY RunsAreNat DEF TypeInv, StateTypes
  <1>2. CASE \E t \in Requests : Request(t)
    <2>1. PICK t \in Requests : Request(t)
      BY <1>2
    <2>2. Begins(t) /\ t \in Threads
      BY <2>1 DEF Request, Connect, Disconnect, SetSubscriptions, Threads
    <2>3. Quiet /\ overlaps = 0
      BY <1>0, <1>1, <2>2 DEF Begins
    <2>4. PICK x : Alone(t) /\ x.pc = "idle" /\ Sound(t, x)
      BY <2>2, <2>3, AtRest
    <2>5. \E r : Goes(t, r) /\ Sound(t, r)'
      BY <2>1, <2>2, <2>4, SoundConnect, SoundDisconnect, SoundSetSubscriptions DEF Request
    <2> QED BY <2>2, <2>4, <2>5, MovesOn
  <1>3. CASE \E t \in Threads : Step(t)
    <2>1. PICK t \in Threads : Step(t)
      BY <1>3
    <2>2. overlaps = 0 /\ th[t].pc # "idle"
      BY <1>0, <2>1, StepsAreOfOne
    <2>3. PICK u \in Threads : Alone(u) /\ Sound(u, th[u])
      BY <2>2 DEF OneWorks
    <2>4. t = u
      BY <2>2, <2>3 DEF Alone
    <2> QED BY <2>1, <2>3, <2>4, SoundStep, MovesOn
  <1>4. CASE MoveLive
    <2>1. Begins(Mover) /\ Mover \in Threads
      BY <1>4 DEF MoveLive, Threads
    <2>2. Quiet /\ overlaps = 0
      BY <1>0, <1>1, <2>1 DEF Begins
    <2>3. PICK x : Alone(Mover) /\ x.pc = "idle" /\ Sound(Mover, x)
      BY <2>1, <2>2, AtRest
    <2>4. \E r : Goes(Mover, r) /\ Sound(Mover, r)'
      BY <1>4, <2>1, <2>2, <2>3, SoundMoveLive
    <2> QED BY <2>1, <2>3, <2>4, MovesOn
  <1>5. CASE NoteRefusal \/ Moved
    <2>1. overlaps = 0 /\ th[Mover].pc # "idle" /\ Mover \in Threads
      BY <1>0, <1>5 DEF NoteRefusal, Moved, history, Threads
    <2>2. PICK u \in Threads : Alone(u) /\ Sound(u, th[u])
      BY <2>1 DEF OneWorks
    <2>3. u = Mover
      BY <2>1, <2>2 DEF Alone
    <2>4. \E r : Goes(u, r) /\ Sound(u, r)'
      BY <1>5, <2>2, <2>3, SoundNoteRefusal, SoundMoved
    <2> QED BY <2>2, <2>4, MovesOn
  <1>6. CASE (\E l \in Links : Drop(l) \/ Back(l) \/ Expire(l)) \/ UNCHANGED vars
    <2>1. overlaps = 0 /\ th' = th
      BY <1>0, <1>6 DEF Drop, Back, Expire, vars, history
    <2>2. PICK u \in Threads : Alone(u) /\ Sound(u, th[u])
      BY <2>1 DEF OneWorks
    <2>3. Sound(u, th[u])'
      BY <1>6, <2>2, SoundLinks
    <2>4. Alone(u)'
      BY <2>1, <2>2 DEF Alone
    <2> QED BY <2>3, <2>4 DEF OneWorks
  <1> QED BY <1>2, <1>3, <1>4, <1>5, <1>6 DEF Next

LEMMA TypedNext ==
  ASSUME TypeInv, DialInv, [Next]_vars
  PROVE  TypeInv'
  <1>1. CASE \E t \in Requests : Request(t)
    BY <1>1, TypedRequests
  <1>2. CASE \E t \in Threads : Step(t)
    BY <1>2, TypedStep
  <1>3. CASE MoveLive \/ NoteRefusal \/ Moved
    BY <1>3, TypedMoves
  <1>4. CASE \E l \in Links : Drop(l) \/ Back(l) \/ Expire(l)
    BY <1>4, TypedLinks
  <1>5. CASE UNCHANGED vars
    BY <1>5, TypedStays
  <1> QED BY <1>1, <1>2, <1>3, <1>4, <1>5 DEF Next

LEMMA InitWorks == Init => OneWorks
  <1> SUFFICES ASSUME Init PROVE OneWorks
    OBVIOUS
  <1>1. PICK x : x = th[Mover]
    OBVIOUS
  <1>2. x.pc = "idle" /\ Mover \in Threads /\ Alone(Mover)
    BY <1>1, IdleShape DEF Init, Threads, Alone
  <1>3. LinksInOrder(x)
    BY <1>2 DEF Init, LinksInOrder, Open, Managed, None
  <1>4. FeedInOrder(x) /\ PlaceInOrder(x) /\ DialInOrder(x)
    BY <1>2 DEF Init, FeedInOrder, Holder, PlaceInOrder, Leaves, Arrives, Serves, Anew, Moves, Opening, Swapping,
       DialInOrder, Managers, None
  <1>5. AskedInOrder(Mover, x) /\ FedInOrder(x)
    BY <1>2 DEF Init, AskedInOrder, Serves, Moves, Arrives, Opening, Swapping, FedInOrder
  <1> QED BY <1>1, <1>2, <1>3, <1>4, <1>5 DEF OneWorks, Sound
-----------------------------------------------------------------------------
LEMMA ClosedFollows ==
  ASSUME TypeInv, OneWorks
  PROVE  ClosedIsClosed
  <1>1. ASSUME Settled
        PROVE  /\ \A l \in Links : Open(l) => l[1] = store
               /\ \A g \in Managers : running[g] => g = current
               /\ \A s \in subs : s.mgr = current /\ s.link[1] = store
               /\ store = None => current = None
    <2>1. Mover \in Threads /\ Quiet /\ overlaps = 0
      BY <1>1 DEF Settled, Threads
    <2>2. PICK x : x.pc = "idle" /\ Sound(Mover, x)
      BY <2>1, AtRest
    <2>3. LinksInOrder(x) /\ FeedInOrder(x) /\ PlaceInOrder(x)
      BY <2>2 DEF Sound
    <2>4. Home(x) = store /\ Holder(x) = current
      BY <2>2 DEF Home, Holder, Leaves, Arrives, Opening
    <2>5. \A l \in Links : Open(l) => l[1] = store
      BY <2>3, <2>4 DEF LinksInOrder
    <2>6. /\ \A g \in Managers : running[g] => g = current
          /\ \A s \in subs : s.mgr = current /\ s.link[1] = store
      BY <2>3, <2>4 DEF FeedInOrder
    <2>7. store = None => current = None
      BY <2>3 DEF PlaceInOrder
    <2> QED BY <2>5, <2>6, <2>7
  <1> QED BY <1>1, TypesAreOK DEF ClosedIsClosed, NothingIsLeftOpen

LEMMA FeedFollows ==
  ASSUME TypeInv, OneWorks
  PROVE  FeedFollowsThePatterns
  <1>0. SUFFICES ASSUME Settled, store # None, ~missed
                 PROVE  /\ current # None /\ running[current]
                        /\ {s.pattern : s \in subs} = asked
                        /\ Cardinality(subs) = Cardinality(asked)
                        /\ \A s \in subs : s \in held[current] /\ s.link = Carrier
    BY DEF FeedFollowsThePatterns
  <1>1. Mover \in Threads /\ Quiet /\ overlaps = 0
    BY <1>0 DEF Settled, Threads
  <1>2. PICK x : x.pc = "idle" /\ Sound(Mover, x)
    BY <1>1, AtRest
  <1>3. FeedInOrder(x) /\ FedInOrder(x) /\ Holder(x) = current
    BY <1>2 DEF Sound, Holder
  <1>4. current # None /\ Fed(x)
    BY <1>0, <1>2, <1>3 DEF FedInOrder
  <1>5. current \in Managers
    BY <1>4 DEF TypeInv, StateTypes
  <1>6. running[current] /\ \A s \in subs : s \in held[current]
    BY <1>2, <1>3, <1>5 DEF FeedInOrder
  <1>7. PICK c : c = Carrier
    OBVIOUS
  <1>8. PICK q \in Managed : subs = {[run |-> q, mgr |-> current, link |-> c, pattern |-> p] : p \in asked}
    BY <1>3, <1>4, <1>7 DEF Fed
  <1>9. {s.pattern : s \in subs} = asked /\ \A s \in subs : s.link = Carrier
    <2>1. \A s \in subs : s.pattern \in asked /\ s.link = c
      BY <1>8
    <2>2. ASSUME NEW p \in asked PROVE \E s \in subs : s.pattern = p
      <3>1. PICK s : s = [run |-> q, mgr |-> current, link |-> c, pattern |-> p]
        OBVIOUS
      <3>2. s \in subs /\ s.pattern = p
        BY <1>8, <3>1
      <3> QED BY <3>2
    <2> QED BY <1>7, <2>1, <2>2
  <1>10. Cardinality(subs) = Cardinality(asked)
    <2> DEFINE f == [p \in asked |-> [run |-> q, mgr |-> current, link |-> c, pattern |-> p]]
    <2>1. f \in [asked -> subs]
      BY <1>8
    <2>2. \A p1, p2 \in asked : f[p1] = f[p2] => p1 = p2
      <3>1. \A p \in asked : f[p].pattern = p
        OBVIOUS
      <3> QED BY <3>1
    <2>3. \A s \in subs : \E p \in asked : f[p] = s
      BY <1>8
    <2>4. ExistsBijection(asked, subs)
      BY <2>1, <2>2, <2>3 DEF ExistsBijection, Bijection, Injection, IsInjective, Surjection
    <2>5. asked \subseteq Patterns
      BY DEF TypeInv, StateTypes
    <2>6. IsFiniteSet(asked)
      BY <2>5, PatternsAssumption, FS_Subset
    <2> QED BY <2>4, <2>6, FS_Bijection
  <1> QED BY <1>4, <1>6, <1>9, <1>10

(* The tables are in order however requests overlap; and while none have, a *)
(* connection that was replaced or closed leaves no NATS connection, no     *)
(* running manager and no subscription behind (Store.Disconnect,            *)
(* stopManager, closeLive): ClosedIsClosed for any number of goroutines and *)
(* patterns.                                                                *)
THEOREM ClosedLeavesNothing == Spec => []ClosedIsClosed
  <1>1. Init => TypeInv /\ DialInv /\ OneWorks
    BY InitTyped, InitDial, InitWorks
  <1>2. TypeInv /\ DialInv /\ OneWorks /\ [Next]_vars => (TypeInv /\ DialInv /\ OneWorks)'
    BY TypedNext, DialStep, WorksOn
  <1>3. TypeInv /\ DialInv /\ OneWorks => ClosedIsClosed
    BY ClosedFollows
  <1> QED BY <1>1, <1>2, <1>3, PTL DEF Spec

(* After every change that ran alone the manager of the connection holds    *)
(* one subscription for each pattern, on the live connection or, without    *)
(* one, on the API's (OnSubscriptionsChanged, SetSubjects, openLive):       *)
(* FeedFollowsThePatterns for any number of goroutines and patterns.        *)
THEOREM FeedIsThePatterns == Spec => []FeedFollowsThePatterns
  <1>1. Init => TypeInv /\ DialInv /\ OneWorks
    BY InitTyped, InitDial, InitWorks
  <1>2. TypeInv /\ DialInv /\ OneWorks /\ [Next]_vars => (TypeInv /\ DialInv /\ OneWorks)'
    BY TypedNext, DialStep, WorksOn
  <1>3. TypeInv /\ OneWorks => FeedFollowsThePatterns
    BY FeedFollows
  <1> QED BY <1>1, <1>2, <1>3, PTL DEF Spec
=============================================================================
