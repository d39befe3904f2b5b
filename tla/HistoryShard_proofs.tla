------------------------- MODULE HistoryShard_proofs -------------------------
(* For every number of connections, subjects and messages, every budget and *)
(* cap: the shard's two queues never get out of step, its rings hold the    *)
(* live messages in order, and the shard is a BoundedHistory. TLC checks    *)
(* the same on a small shard (MCHistoryShard).                              *)
EXTENDS HistoryShard, FiniteSums, SequenceTheorems, FiniteSetTheorems, TLAPS

(* Rings as values. *)
Elems(s) == {s[p] : p \in 1..Len(s)}

Ascending(s) == \A p, q \in 1..Len(s) : p < q => s[p] < s[q]

LEMMA AppendAscending ==
    ASSUME NEW n \in Nat, NEW s \in Seq(1..n), Ascending(s)
    PROVE  /\ Append(s, n + 1) \in Seq(1..(n + 1))
           /\ Ascending(Append(s, n + 1))
           /\ Elems(Append(s, n + 1)) = Elems(s) \cup {n + 1}
           /\ Len(Append(s, n + 1)) = Len(s) + 1
  <1> DEFINE a == Append(s, n + 1)
  <1>1. s \in Seq(1..(n + 1)) /\ n + 1 \in 1..(n + 1)
    BY SeqMonotonic
  <1>2. /\ a \in Seq(1..(n + 1))
        /\ Len(a) = Len(s) + 1
        /\ \A i \in 1..Len(s) : a[i] = s[i]
        /\ a[Len(s) + 1] = n + 1
    BY <1>1, AppendProperties
  <1>3. Len(s) \in Nat /\ \A i \in 1..Len(s) : s[i] \in 1..n
    BY LenProperties, ElementOfSeq
  <1> HIDE DEF a
  <1>4. Ascending(a)
    <2> SUFFICES ASSUME NEW p \in 1..Len(a), NEW q \in 1..Len(a), p < q
                 PROVE  a[p] < a[q]
      BY DEF Ascending
    <2>1. Len(a) = Len(s) + 1 /\ Len(s) \in Nat
      BY <1>2, <1>3
    <2>2. p \in 1..Len(s)
      BY <2>1
    <2>3. a[p] = s[p] /\ s[p] \in 1..n
      BY <1>2, <1>3, <2>2
    <2>4. CASE q = Len(s) + 1
      <3>1. a[q] = n + 1
        BY <1>2, <2>4
      <3> QED
        BY <2>3, <3>1
    <2>5. CASE q # Len(s) + 1
      <3>1. q \in 1..Len(s)
        BY <2>1, <2>5
      <3>2. s[p] < s[q]
        BY <2>2, <3>1 DEF Ascending
      <3>3. a[q] = s[q]
        BY <1>2, <3>1
      <3> QED
        BY <2>3, <3>2, <3>3
    <2> QED
      BY <2>4, <2>5
  <1>5. Elems(a) = Elems(s) \cup {n + 1}
    <2>1. 1..Len(a) = 1..Len(s) \cup {Len(s) + 1}
      BY <1>2, <1>3
    <2> QED
      BY <1>2, <2>1 DEF Elems
  <1> QED
    BY <1>2, <1>4, <1>5 DEF a

LEMMA TailAscending ==
    ASSUME NEW n \in Nat, NEW s \in Seq(1..n), Ascending(s), s # <<>>
    PROVE  /\ Head(s) \in Elems(s)
           /\ Tail(s) \in Seq(1..n)
           /\ Ascending(Tail(s))
           /\ Elems(Tail(s)) = Elems(s) \ {Head(s)}
           /\ \A x \in Elems(s) : Head(s) <= x
           /\ Len(Tail(s)) = Len(s) - 1
  <1> DEFINE t == Tail(s)
  <1>1. /\ t \in Seq(1..n)
        /\ Len(t) = Len(s) - 1
        /\ \A i \in 1..Len(t) : t[i] = s[i + 1]
    BY HeadTailProperties
  <1>2. Len(s) \in Nat \ {0} /\ \A i \in 1..Len(s) : s[i] \in 1..n
    BY LenProperties, ElementOfSeq, EmptySeq
  <1>3. Head(s) = s[1]
    BY <1>2
  <1> HIDE DEF t
  <1>4. \A p \in 2..Len(s) : s[1] < s[p]
    BY <1>2 DEF Ascending
  <1>5. Ascending(t)
    <2> SUFFICES ASSUME NEW p \in 1..Len(t), NEW q \in 1..Len(t), p < q
                 PROVE  t[p] < t[q]
      BY DEF Ascending
    <2>1. p + 1 \in 1..Len(s) /\ q + 1 \in 1..Len(s) /\ p + 1 < q + 1
      BY <1>1, <1>2
    <2>2. s[p + 1] < s[q + 1]
      BY <2>1 DEF Ascending
    <2> QED
      BY <1>1, <2>2
  <1>6. Elems(t) = {s[p] : p \in 2..Len(s)}
    <2>1. ASSUME NEW x \in Elems(t) PROVE x \in {s[p] : p \in 2..Len(s)}
      <3>1. PICK i \in 1..Len(t) : x = t[i]
        BY <2>1 DEF Elems
      <3>2. i + 1 \in 2..Len(s)
        BY <1>1, <1>2
      <3> QED
        BY <1>1, <3>1, <3>2
    <2>2. ASSUME NEW p \in 2..Len(s) PROVE s[p] \in Elems(t)
      <3>1. p - 1 \in 1..Len(t) /\ (p - 1) + 1 = p
        BY <1>1, <1>2
      <3>2. t[p - 1] = s[p]
        BY <1>1, <3>1
      <3> QED
        BY <3>1, <3>2 DEF Elems
    <2> QED
      BY <2>1, <2>2
  <1>7. 1..Len(s) = {1} \cup 2..Len(s)
    BY <1>2
  <1>8. Elems(s) = {s[1]} \cup {s[p] : p \in 2..Len(s)}
    BY <1>7 DEF Elems
  <1>9. s[1] \notin {s[p] : p \in 2..Len(s)}
    BY <1>2, <1>4
  <1>10. \A x \in Elems(s) : s[1] <= x
    <2> SUFFICES ASSUME NEW p \in 1..Len(s) PROVE s[1] <= s[p]
      BY DEF Elems
    <2>1. CASE p = 1
      BY <1>2, <2>1
    <2>2. CASE p # 1
      BY <1>2, <1>4, <2>2
    <2> QED
      BY <2>1, <2>2
  <1>11. s[1] \in Elems(s) /\ Elems(t) = Elems(s) \ {s[1]}
    BY <1>6, <1>8, <1>9
  <1> QED
    BY <1>1, <1>3, <1>5, <1>10, <1>11 DEF t
-----------------------------------------------------------------------------
(* Types. Only a drop in progress has keys to delete. *)
DropsAreLocked == lock # "drop" => dropping = {}

LEMMA KeyOfType ==
    ASSUME TypeOK, NEW i \in 1..Len(entry)
    PROVE  /\ entry[i] \in Entry
           /\ KeyOf(i) \in Keys /\ KeyOf(i)[1] \in Conns
           /\ entry[i].size \in Nat
  <1>1. entry[i] \in Entry
    BY ElementOfSeq DEF TypeOK
  <1> QED
    BY <1>1, ShardAssumption DEF Entry, KeyOf, Keys

(* What every PushRecord does, whether or not the subject is full. *)
LEMMA PushType ==
    ASSUME TypeOK, NEW k \in Keys, NEW z \in Sizes, PushRecord(k, z)
    PROVE  /\ Len(entry) \in Nat
           /\ entry' \in Seq(Entry)
           /\ Len(entry') = Len(entry) + 1
           /\ \A i \in 1..Len(entry) : entry'[i] = entry[i]
           /\ entry'[Len(entry) + 1] = [conn |-> k[1], subject |-> k[2], size |-> z]
           /\ fifo' = Append(fifo, Len(entry) + 1)
           /\ fifo' \in Seq(0..Len(entry'))
           /\ Len(fifo') = Len(fifo) + 1
  <1> DEFINE e == [conn |-> k[1], subject |-> k[2], size |-> z]
  <1>1. e \in Entry
    BY DEF Keys, Entry
  <1>2. entry' = Append(entry, e) /\ fifo' = Append(fifo, Len(entry) + 1)
    BY DEF PushRecord
  <1>3. entry \in Seq(Entry) /\ Len(entry) \in Nat
    BY LenProperties DEF TypeOK
  <1> HIDE DEF e
  <1>4. /\ entry' \in Seq(Entry)
        /\ Len(entry') = Len(entry) + 1
        /\ \A i \in 1..Len(entry) : entry'[i] = entry[i]
        /\ entry'[Len(entry) + 1] = e
    BY <1>1, <1>2, <1>3, AppendProperties
  <1>5. fifo \in Seq(0..Len(entry')) /\ Len(entry) + 1 \in 0..Len(entry')
    <2>1. 0..Len(entry) \subseteq 0..Len(entry') /\ Len(entry) + 1 \in 0..Len(entry')
      BY <1>3, <1>4
    <2> QED
      BY <2>1, SeqMonotonic DEF TypeOK
  <1>6. fifo' \in Seq(0..Len(entry')) /\ Len(fifo') = Len(fifo) + 1
    BY <1>2, <1>5, AppendProperties
  <1> QED
    BY <1>2, <1>3, <1>4, <1>6 DEF e

LEMMA EntrySize ==
    ASSUME NEW e \in Entry
    PROVE  e.size \in Int
  <1>1. e.size \in Sizes
    BY DEF Entry
  <1>2. \A z \in Sizes : z \in Int
    BY ShardAssumption
  <1> QED
    BY <1>1, <1>2

LEMMA AccountType ==
    ASSUME TypeOK, NEW c \in Conns, NEW z \in Int, NEW d \in Int, Account(c, z, d)
    PROVE  /\ bytes' \in Int /\ count' \in Int
           /\ connBytes' \in [Conns -> Int] /\ connCount' \in [Conns -> Int]
  BY DEF TypeOK, Account

LEMMA PushAccounts ==
    ASSUME TypeOK, NEW k \in Keys, NEW z \in Sizes, PushRecord(k, z)
    PROVE  /\ bytes' \in Int /\ count' \in Int
           /\ connBytes' \in [Conns -> Int] /\ connCount' \in [Conns -> Int]
  <1>1. k[1] \in Conns /\ z \in Int
    BY ShardAssumption DEF Keys
  <1>2. CASE Room(k)
    <2>1. Account(k[1], z, 1)
      BY <1>2 DEF PushRecord
    <2> QED
      BY <1>1, <2>1, AccountType
  <1>3. CASE ~Room(k)
    <2> DEFINE old == Head(Append(buf[k], Len(entry) + 1))
    <2>1. Account(k[1], z - entry'[old].size, 0)
      BY <1>3 DEF PushRecord
    <2>2. /\ Len(entry) \in Nat /\ entry' \in Seq(Entry)
          /\ Len(entry') = Len(entry) + 1
      BY PushType
    <2>3. buf[k] \in Seq(1..Len(entry))
      BY DEF TypeOK
    <2>4. old \in 1..Len(entry')
      <3>1. buf[k] \in Seq(1..Len(entry')) /\ Len(entry) + 1 \in 1..Len(entry')
        <4>1. 1..Len(entry) \subseteq 1..Len(entry')
          BY <2>2
        <4> QED
          BY <2>2, <2>3, <4>1, SeqMonotonic
      <3>2. Append(buf[k], Len(entry) + 1) \in Seq(1..Len(entry')) /\ Append(buf[k], Len(entry) + 1) # <<>>
        BY <3>1, AppendProperties
      <3> QED
        BY <3>2, HeadTailProperties
    <2>5. entry'[old] \in Entry
      BY <2>2, <2>4, ElementOfSeq
    <2> HIDE DEF old
    <2>6. entry'[old].size \in Int
      BY <2>5, EntrySize
    <2>7. z - entry'[old].size \in Int
      BY <1>1, <2>6
    <2> QED
      BY <1>1, <2>1, <2>7, AccountType DEF old
  <1> QED
    BY <1>2, <1>3

(* The ring of k and the live messages after a push. *)
LEMMA PushRing ==
    ASSUME TypeOK, NEW k \in Keys, NEW z \in Sizes, PushRecord(k, z)
    PROVE  /\ \A j \in Keys : j # k => buf'[j] = buf[j]
           /\ \/ /\ Room(k)
                 /\ buf'[k] = Append(buf[k], Len(entry) + 1)
                 /\ live' = live \cup {Len(entry) + 1}
              \/ /\ ~Room(k)
                 /\ buf[k] # <<>> /\ buf[k] \in Seq(1..Len(entry))
                 /\ buf'[k] = Tail(Append(buf[k], Len(entry) + 1))
                 /\ live' = (live \cup {Len(entry) + 1}) \ {Head(buf[k])}
           /\ buf' \in [Keys -> Seq(1..Len(entry'))]
           /\ live' \subseteq 1..Len(entry')
  <1> DEFINE i == Len(entry) + 1
  <1>1. /\ Len(entry) \in Nat /\ Len(entry') = Len(entry) + 1
        /\ buf \in [Keys -> Seq(1..Len(entry))]
        /\ live \subseteq 1..Len(entry)
    BY PushType DEF TypeOK
  <1>2. 1..Len(entry) \subseteq 1..Len(entry') /\ i \in 1..Len(entry')
    BY <1>1
  <1>3. \A j \in Keys : buf[j] \in Seq(1..Len(entry'))
    BY <1>1, <1>2, SeqMonotonic
  <1>4. Append(buf[k], i) \in Seq(1..Len(entry')) /\ Append(buf[k], i) # <<>>
    BY <1>2, <1>3, AppendProperties
  <1>5. Tail(Append(buf[k], i)) \in Seq(1..Len(entry'))
    BY <1>4, HeadTailProperties
  <1>6. CASE Room(k)
    <2>1. buf' = [buf EXCEPT ![k] = Append(@, i)] /\ live' = live \cup {i}
      BY <1>6 DEF PushRecord
    <2> HIDE DEF i
    <2>2. buf' \in [Keys -> Seq(1..Len(entry'))]
      <3>1. \A j \in Keys : buf'[j] \in Seq(1..Len(entry'))
        BY <1>1, <1>3, <1>4, <2>1
      <3> QED
        BY <1>1, <2>1, <3>1
    <2>3. buf'[k] = Append(buf[k], i) /\ \A j \in Keys : j # k => buf'[j] = buf[j]
      BY <1>1, <2>1
    <2> QED
      BY <1>1, <1>2, <1>6, <2>1, <2>2, <2>3 DEF i
  <1>7. CASE ~Room(k)
    <2>1. /\ buf' = [buf EXCEPT ![k] = Tail(Append(@, i))]
          /\ live' = (live \cup {i}) \ {Head(Append(buf[k], i))}
      BY <1>7 DEF PushRecord
    <2>2. buf[k] # <<>> /\ buf[k] \in Seq(1..Len(entry))
      <3>1. Len(buf[k]) # 0
        BY <1>7, ShardAssumption DEF Room
      <3> QED
        BY <1>1, <3>1, EmptySeq
    <2>3. Head(Append(buf[k], i)) = Head(buf[k])
      BY <2>2, HeadTailAppend
    <2> HIDE DEF i
    <2>4. buf' \in [Keys -> Seq(1..Len(entry'))]
      <3>1. \A j \in Keys : buf'[j] \in Seq(1..Len(entry'))
        BY <1>1, <1>3, <1>5, <2>1
      <3> QED
        BY <1>1, <2>1, <3>1
    <2>5. buf'[k] = Tail(Append(buf[k], i)) /\ \A j \in Keys : j # k => buf'[j] = buf[j]
      BY <1>1, <2>1
    <2> QED
      BY <1>1, <1>2, <1>7, <2>1, <2>2, <2>3, <2>4, <2>5 DEF i
  <1> QED
    BY <1>6, <1>7

LEMMA TypeAppendRecord ==
    ASSUME TypeOK, AppendRecord
    PROVE  TypeOK'
  <1>1. PICK k \in Keys, z \in Sizes : PushRecord(k, z)
    BY DEF AppendRecord
  <1>2. /\ entry' \in Seq(Entry)
        /\ fifo' \in Seq(0..Len(entry'))
        /\ Len(fifo') = Len(fifo) + 1
    BY <1>1, PushType
  <1>3. live' \subseteq 1..Len(entry') /\ buf' \in [Keys -> Seq(1..Len(entry'))]
    BY <1>1, PushRing
  <1>4. /\ bytes' \in Int /\ count' \in Int
        /\ connBytes' \in [Conns -> Int] /\ connCount' \in [Conns -> Int]
    BY <1>1, PushAccounts
  <1>5. fifoHead' \in 0..Len(fifo')
    <2>1. Len(fifo) \in Nat /\ fifoHead \in 0..Len(fifo) /\ fifoHead' = fifoHead
      BY LenProperties DEF TypeOK, AppendRecord
    <2> QED
      BY <1>2, <2>1
  <1>6. held' \subseteq Keys /\ dropping' \subseteq held'
    <2>1. held' = held \cup {k} /\ dropping' = dropping
      BY <1>1 DEF PushRecord, AppendRecord
    <2> QED
      BY <2>1 DEF TypeOK
  <1>7. lock' \in {"free", "append", "drop"} /\ panicked' \in BOOLEAN
    BY DEF AppendRecord, TypeOK
  <1> QED
    BY <1>2, <1>3, <1>4, <1>5, <1>6, <1>7 DEF TypeOK

LEMMA TypeEvictOldest ==
    ASSUME TypeOK, EvictOldest
    PROVE  TypeOK'
  <1> DEFINE old == fifo[fifoHead + 1]
             k   == KeyOf(old)
  <1>1. /\ entry' = entry /\ held' = held /\ dropping' = dropping
        /\ fifo' = [fifo EXCEPT ![fifoHead + 1] = 0]
        /\ fifoHead' = fifoHead + 1
        /\ fifoHead < Len(fifo)
    BY DEF EvictOldest, OverBudget
  <1>2. fifo \in Seq(0..Len(entry)) /\ Len(fifo) \in Nat /\ fifoHead \in 0..Len(fifo)
    BY LenProperties DEF TypeOK
  <1>3. /\ fifo' \in Seq(0..Len(entry'))
        /\ Len(fifo') = Len(fifo)
        /\ fifoHead' \in 0..Len(fifo')
    <2>1. Len(entry) \in Nat
      BY LenProperties DEF TypeOK
    <2>2. fifo' \in Seq(0..Len(entry)) /\ Len(fifo') = Len(fifo)
      <3>1. 0 \in 0..Len(entry) /\ fifoHead + 1 \in 1..Len(fifo)
        BY <1>1, <1>2, <2>1
      <3> QED
        BY <1>1, <1>2, <3>1, ExceptSeq
    <2> QED
      BY <1>1, <1>2, <2>2
  <1>4. /\ live' \subseteq 1..Len(entry')
        /\ buf' \in [Keys -> Seq(1..Len(entry'))]
        /\ bytes' \in Int /\ count' \in Int
        /\ connBytes' \in [Conns -> Int] /\ connCount' \in [Conns -> Int]
        /\ lock' \in {"free", "append", "drop"} /\ panicked' \in BOOLEAN
    <2>1. CASE UNCHANGED <<live, buf, bytes, count, connBytes, connCount>>
      BY <1>1, <2>1 DEF TypeOK, EvictOldest
    <2>2. CASE /\ old \in live
               /\ buf[k] # <<>>
               /\ buf' = [buf EXCEPT ![k] = Tail(@)]
               /\ live' = live \ {old}
               /\ Account(k[1], -entry[old].size, -1)
               /\ UNCHANGED <<lock, panicked>>
      <3>1. old \in 1..Len(entry)
        BY <2>2 DEF TypeOK
      <3>2. entry[old] \in Entry /\ k \in Keys /\ k[1] \in Conns
        BY <3>1, KeyOfType
      <3>3. -entry[old].size \in Int
        <4>1. entry[old].size \in Int
          BY <3>2, EntrySize
        <4> QED
          BY <4>1
      <3>4. /\ bytes' \in Int /\ count' \in Int
            /\ connBytes' \in [Conns -> Int] /\ connCount' \in [Conns -> Int]
        BY <2>2, <3>2, <3>3, AccountType
      <3>5. buf \in [Keys -> Seq(1..Len(entry))] /\ Tail(buf[k]) \in Seq(1..Len(entry))
        BY <2>2, <3>2, HeadTailProperties DEF TypeOK
      <3> HIDE DEF old, k
      <3>6. buf' \in [Keys -> Seq(1..Len(entry))]
        BY <2>2, <3>2, <3>5
      <3> QED
        BY <1>1, <2>2, <3>4, <3>6 DEF TypeOK
    <2> QED
      BY <2>1, <2>2 DEF EvictOldest
  <1> QED
    BY <1>1, <1>3, <1>4 DEF TypeOK

(* The part of the FIFO not yet consumed moves to the front.                *)
LEMMA AppendDoneFifo ==
    ASSUME TypeOK, AppendDone
    PROVE  /\ fifo' \in Seq(0..Len(entry)) /\ Len(fifo') \in Nat
           /\ fifoHead' \in 0..Len(fifo')
           /\ Len(fifo') - fifoHead' = Len(fifo) - fifoHead
           /\ \A p \in 1..(Len(fifo) - fifoHead) : fifo'[fifoHead' + p] = fifo[fifoHead + p]
  <1>1. fifo \in Seq(0..Len(entry)) /\ Len(fifo) \in Nat /\ fifoHead \in 0..Len(fifo)
    BY LenProperties DEF TypeOK
  <1>2. CASE UNCHANGED <<fifo, fifoHead>>
    BY <1>1, <1>2
  <1>3. CASE fifo' = SubSeq(fifo, fifoHead + 1, Len(fifo)) /\ fifoHead' = 0 /\ fifoHead < Len(fifo)
    <2> DEFINE m == fifoHead + 1
               l == Len(fifo)
    <2>1. m \in Int /\ l \in Int /\ m <= l /\ l - m + 1 = Len(fifo) - fifoHead
      BY <1>1, <1>3
    <2>2. \A i \in m..l : fifo[i] \in 0..Len(entry)
      <3>1. \A i \in m..l : i \in 1..Len(fifo)
        BY <1>1
      <3> QED
        BY <1>1, <3>1, ElementOfSeq
    <2> HIDE DEF m, l
    <2>3. /\ SubSeq(fifo, m, l) \in Seq(0..Len(entry))
          /\ Len(SubSeq(fifo, m, l)) = l - m + 1
          /\ \A i \in 1..(l - m + 1) : SubSeq(fifo, m, l)[i] = fifo[m + i - 1]
      BY <2>1, <2>2, SubSeqProperties
    <2>4. fifo' = SubSeq(fifo, m, l) /\ Len(fifo') = Len(fifo) - fifoHead
      BY <1>3, <2>1, <2>3 DEF m, l
    <2>5. ASSUME NEW p \in 1..(Len(fifo) - fifoHead)
          PROVE  fifo'[fifoHead' + p] = fifo[fifoHead + p]
      <3>1. m + p - 1 = fifoHead + p /\ fifoHead' + p = p
        BY <1>1, <1>3, <2>5 DEF m
      <3>2. fifo'[p] = fifo[m + p - 1]
        BY <2>1, <2>3, <2>4, <2>5
      <3> QED
        BY <3>1, <3>2
    <2>6. fifo' \in Seq(0..Len(entry))
      BY ONLY <2>3, <2>4
    <2>7. Len(fifo') \in Nat
      BY ONLY <1>1, <2>4
    <2>8. fifoHead' \in 0..Len(fifo')
      <3>1. fifoHead' = 0
        BY ONLY <1>3
      <3> QED
        BY ONLY <2>7, <3>1
    <2>9. Len(fifo') - fifoHead' = Len(fifo) - fifoHead
      BY ONLY <1>1, <1>3, <2>4, <2>7
    <2> QED
      BY <2>5, <2>6, <2>7, <2>8, <2>9
  <1>4. CASE fifo' = SubSeq(fifo, fifoHead + 1, Len(fifo)) /\ fifoHead' = 0 /\ fifoHead = Len(fifo)
    <2>1. fifo' = <<>>
      BY <1>1, <1>4, SubSeqEmpty
    <2>2. fifo' \in Seq(0..Len(entry)) /\ Len(fifo') = 0
      BY <2>1, EmptySeq
    <2> QED
      BY <1>1, <1>4, <2>2
  <1> QED
    BY <1>1, <1>2, <1>3, <1>4 DEF AppendDone

LEMMA TypeAppendDone ==
    ASSUME TypeOK, AppendDone
    PROVE  TypeOK'
  <1>1. fifo' \in Seq(0..Len(entry)) /\ fifoHead' \in 0..Len(fifo')
    BY AppendDoneFifo
  <1>2. /\ UNCHANGED <<entry, live, held, buf, bytes, count, connBytes, connCount, dropping, panicked>>
        /\ lock' = "free"
    BY DEF AppendDone
  <1> QED
    BY <1>1, <1>2 DEF TypeOK

LEMMA TypeKillDropped ==
    ASSUME TypeOK, KillDropped
    PROVE  TypeOK'
  <1>0. PICK k \in dropping : \E p \in 1..Len(buf[k]) :
            /\ buf[k][p] \in live
            /\ live' = live \ {buf[k][p]}
            /\ Account(KeyOf(buf[k][p])[1], -entry[buf[k][p]].size, -1)
    BY DEF KillDropped
  <1>1. PICK p \in 1..Len(buf[k]) :
            /\ buf[k][p] \in live
            /\ live' = live \ {buf[k][p]}
            /\ Account(KeyOf(buf[k][p])[1], -entry[buf[k][p]].size, -1)
    BY <1>0
  <1> DEFINE i == buf[k][p]
  <1>2. i \in 1..Len(entry)
    BY <1>1 DEF TypeOK
  <1>3. entry[i] \in Entry /\ KeyOf(i)[1] \in Conns
    BY <1>2, KeyOfType
  <1> HIDE DEF i
  <1>4. entry[i].size \in Int
    BY <1>3, EntrySize
  <1>5. -entry[i].size \in Int
    BY <1>4
  <1>6. /\ bytes' \in Int /\ count' \in Int
        /\ connBytes' \in [Conns -> Int] /\ connCount' \in [Conns -> Int]
    BY <1>1, <1>3, <1>5, AccountType DEF i
  <1>7. /\ UNCHANGED <<entry, fifo, fifoHead, held, buf, lock, dropping, panicked>>
        /\ live' \subseteq live
    BY <1>1 DEF KillDropped
  <1> QED
    BY <1>6, <1>7 DEF TypeOK

LEMMA TypeDropDone ==
    ASSUME TypeOK, DropDone
    PROVE  TypeOK'
  <1>1. /\ UNCHANGED <<entry, live, fifo, fifoHead, bytes, count, panicked>>
        /\ held' = held \ dropping /\ dropping' = {} /\ lock' = "free"
        /\ buf' = [k \in Keys |-> IF k \in dropping THEN <<>> ELSE buf[k]]
        /\ connBytes' = [c \in Conns |-> IF \E k \in held' : k[1] = c THEN connBytes[c] ELSE 0]
        /\ connCount' = [c \in Conns |-> IF \E k \in held' : k[1] = c THEN connCount[c] ELSE 0]
    BY DEF DropDone
  <1>2. connBytes' \in [Conns -> Int] /\ connCount' \in [Conns -> Int]
    BY <1>1 DEF TypeOK
  <1>3. buf' \in [Keys -> Seq(1..Len(entry))]
    <2>1. <<>> \in Seq(1..Len(entry))
      BY EmptySeq
    <2>2. \A k \in Keys : (IF k \in dropping THEN <<>> ELSE buf[k]) \in Seq(1..Len(entry))
      BY <2>1 DEF TypeOK
    <2> QED
      BY <1>1, <2>2
  <1> QED
    BY <1>1, <1>2, <1>3 DEF TypeOK

LEMMA TypeClear ==
    ASSUME TypeOK, DropsAreLocked, Clear
    PROVE  TypeOK'
  <1>1. <<>> \in Seq(0..Len(entry)) /\ <<>> \in Seq(1..Len(entry)) /\ Len(<<>>) = 0
    BY EmptySeq
  <1>2. buf' \in [Keys -> Seq(1..Len(entry))]
    <2>1. buf' = [k \in Keys |-> <<>>]
      BY DEF Clear
    <2> QED
      BY <1>1, <2>1
  <1>3. connBytes' \in [Conns -> Int] /\ connCount' \in [Conns -> Int] /\ bytes' \in Int /\ count' \in Int
    BY DEF Clear
  <1>4. fifo' \in Seq(0..Len(entry)) /\ fifoHead' \in 0..Len(fifo')
    BY <1>1 DEF Clear
  <1>5. dropping' \subseteq held'
    <2>1. dropping' = dropping /\ held' = {} /\ lock = "free"
      BY DEF Clear
    <2> QED
      BY <2>1 DEF DropsAreLocked
  <1> QED
    BY <1>2, <1>3, <1>4, <1>5 DEF TypeOK, Clear

LEMMA TypeStartDrop ==
    ASSUME TypeOK, NEW K \in SUBSET held, StartDrop(K)
    PROVE  TypeOK'
  BY DEF TypeOK, StartDrop

LEMMA TypeInit ==
    ASSUME Init
    PROVE  TypeOK /\ DropsAreLocked
  <1>1. /\ <<>> \in Seq(Entry) /\ <<>> \in Seq(0..Len(entry)) /\ <<>> \in Seq(1..Len(entry))
        /\ Len(<<>>) = 0
    BY EmptySeq
  <1>2. buf \in [Keys -> Seq(1..Len(entry))]
    BY <1>1 DEF Init
  <1>3. connBytes \in [Conns -> Int] /\ connCount \in [Conns -> Int] /\ bytes \in Int /\ count \in Int
    BY DEF Init
  <1>4. fifo \in Seq(0..Len(entry)) /\ entry \in Seq(Entry) /\ fifoHead \in 0..Len(fifo)
    BY <1>1 DEF Init
  <1> QED
    BY <1>2, <1>3, <1>4 DEF TypeOK, DropsAreLocked, Init

LEMMA TypeNext ==
    ASSUME TypeOK, DropsAreLocked, [Next]_vars
    PROVE  TypeOK' /\ DropsAreLocked'
  <1>1. CASE AppendRecord
    BY <1>1, TypeAppendRecord DEF AppendRecord, DropsAreLocked
  <1>2. CASE EvictOldest
    BY <1>2, TypeEvictOldest DEF EvictOldest, DropsAreLocked
  <1>3. CASE AppendDone
    BY <1>3, TypeAppendDone DEF AppendDone, DropsAreLocked
  <1>4. CASE Drop \/ DropSubjects
    <2>1. PICK K \in SUBSET held : StartDrop(K)
      <3>1. \A c \in Conns : {k \in held : k[1] = c} \in SUBSET held
        OBVIOUS
      <3>2. \A c \in Conns, S \in SUBSET Subjects : {k \in held : k[1] = c /\ k[2] \in S} \in SUBSET held
        OBVIOUS
      <3> QED
        BY <1>4, <3>1, <3>2 DEF Drop, DropSubjects
    <2> QED
      BY <2>1, TypeStartDrop DEF StartDrop, DropsAreLocked
  <1>5. CASE KillDropped
    BY <1>5, TypeKillDropped DEF KillDropped, DropsAreLocked
  <1>6. CASE DropDone
    BY <1>6, TypeDropDone DEF DropDone, DropsAreLocked
  <1>7. CASE Clear
    BY <1>7, TypeClear DEF Clear, DropsAreLocked
  <1>8. CASE UNCHANGED vars
    BY <1>8 DEF vars, TypeOK, DropsAreLocked
  <1> QED
    BY <1>1, <1>2, <1>3, <1>4, <1>5, <1>6, <1>7, <1>8 DEF Next

(* Every variable of a shard keeps its type, and a drop leaves nothing      *)
(* half-deleted behind when it lets go of the lock.                         *)
THEOREM ShardTypes == Spec => [](TypeOK /\ DropsAreLocked)
  <1>1. Init => TypeOK /\ DropsAreLocked
    BY TypeInit
  <1>2. TypeOK /\ DropsAreLocked /\ [Next]_vars => (TypeOK /\ DropsAreLocked)'
    BY TypeNext
  <1> QED
    BY <1>1, <1>2, PTL DEF Spec
-----------------------------------------------------------------------------
(* The part of the FIFO not yet consumed, as a value: increasing, without   *)
(* nil slots, so that its first entry is its oldest.                        *)
Waiting(f, h) == {f[p] : p \in (h + 1)..Len(f)}

Ordered(f, h) == \A p, q \in (h + 1)..Len(f) :
                     f[p] # 0 /\ (p < q => f[p] < f[q])

LEMMA WaitingPush ==
    ASSUME NEW n \in Nat, NEW f \in Seq(0..n), NEW h \in 0..Len(f), Ordered(f, h)
    PROVE  /\ Ordered(Append(f, n + 1), h)
           /\ Waiting(Append(f, n + 1), h) = Waiting(f, h) \cup {n + 1}
  <1> DEFINE a == Append(f, n + 1)
  <1>1. 0..n \subseteq 0..(n + 1) /\ n + 1 \in 0..(n + 1)
    OBVIOUS
  <1>2. f \in Seq(0..(n + 1))
    BY <1>1, SeqMonotonic
  <1>3. /\ Len(a) = Len(f) + 1
        /\ \A i \in 1..Len(f) : a[i] = f[i]
        /\ a[Len(f) + 1] = n + 1
    BY <1>1, <1>2, AppendProperties
  <1>4. Len(f) \in Nat /\ \A i \in 1..Len(f) : f[i] \in 0..n
    BY LenProperties, ElementOfSeq
  <1> HIDE DEF a
  <1>5. \A p \in (h + 1)..Len(f) : p \in 1..Len(f)
    BY <1>4
  <1>6. (h + 1)..Len(a) = ((h + 1)..Len(f)) \cup {Len(f) + 1}
    BY <1>3, <1>4
  <1>7. \A p \in (h + 1)..Len(f) : a[p] = f[p] /\ f[p] \in 0..n /\ f[p] # 0
    BY <1>3, <1>4, <1>5 DEF Ordered
  <1>8. Waiting(a, h) = Waiting(f, h) \cup {n + 1}
    <2>1. \A x : x \in Waiting(a, h) <=> (\E p \in (h + 1)..Len(f) : x = f[p]) \/ x = n + 1
      BY <1>3, <1>6, <1>7 DEF Waiting
    <2> QED
      BY <2>1 DEF Waiting
  <1>9. Ordered(a, h)
    <2> SUFFICES ASSUME NEW p \in (h + 1)..Len(a), NEW q \in (h + 1)..Len(a)
                 PROVE  a[p] # 0 /\ (p < q => a[p] < a[q])
      BY DEF Ordered
    <2>1. a[p] # 0
      BY <1>3, <1>6, <1>7
    <2>2. ASSUME p < q PROVE a[p] < a[q]
      <3>1. p \in (h + 1)..Len(f)
        BY <1>3, <1>4, <2>2
      <3>2. a[p] = f[p] /\ f[p] \in 0..n
        BY <1>7, <3>1
      <3>3. CASE q = Len(f) + 1
        BY <1>3, <3>2, <3>3
      <3>4. CASE q # Len(f) + 1
        <4>1. q \in (h + 1)..Len(f)
          BY <1>6, <3>4
        <4>2. f[p] < f[q]
          BY <2>2, <3>1, <4>1 DEF Ordered
        <4> QED
          BY <1>7, <3>2, <4>1, <4>2
      <3> QED
        BY <3>3, <3>4
    <2> QED
      BY <2>1, <2>2
  <1> QED
    BY <1>8, <1>9 DEF a

LEMMA WaitingPop ==
    ASSUME NEW n \in Nat, NEW f \in Seq(0..n), NEW h \in 0..Len(f), h < Len(f), Ordered(f, h)
    PROVE  /\ Ordered([f EXCEPT ![h + 1] = 0], h + 1)
           /\ Waiting([f EXCEPT ![h + 1] = 0], h + 1) = Waiting(f, h) \ {f[h + 1]}
           /\ f[h + 1] \in Waiting(f, h)
           /\ \A x \in Waiting(f, h) : f[h + 1] <= x
  <1> DEFINE a == [f EXCEPT ![h + 1] = 0]
  <1>1. Len(f) \in Nat /\ \A i \in 1..Len(f) : f[i] \in 0..n
    BY LenProperties, ElementOfSeq
  <1>2. h + 1 \in 1..Len(f) /\ 0 \in 0..n
    BY <1>1
  <1>3. Len(a) = Len(f) /\ \A i \in 1..Len(f) : i # h + 1 => a[i] = f[i]
    BY <1>2, ExceptSeq, LenProperties
  <1> HIDE DEF a
  <1>4. \A p \in ((h + 1) + 1)..Len(f) : p \in 1..Len(f) /\ p # h + 1 /\ h + 1 < p /\ p \in (h + 1)..Len(f)
    BY <1>1
  <1>5. \A p \in ((h + 1) + 1)..Len(f) : a[p] = f[p] /\ f[h + 1] < f[p] /\ f[p] \in 0..n
    <2> TAKE p \in ((h + 1) + 1)..Len(f)
    <2>1. h + 1 \in (h + 1)..Len(f)
      BY <1>1
    <2> QED
      BY <1>1, <1>3, <1>4, <2>1 DEF Ordered
  <1>6. (h + 1)..Len(f) = {h + 1} \cup ((h + 1) + 1)..Len(f)
    BY <1>1
  <1>7. Ordered(a, h + 1)
    <2> SUFFICES ASSUME NEW p \in ((h + 1) + 1)..Len(f), NEW q \in ((h + 1) + 1)..Len(f)
                 PROVE  a[p] # 0 /\ (p < q => a[p] < a[q])
      BY <1>3 DEF Ordered
    <2>1. f[p] # 0 /\ (p < q => f[p] < f[q])
      BY <1>4 DEF Ordered
    <2> QED
      BY <1>5, <2>1
  <1>8. Waiting(a, h + 1) = {f[p] : p \in ((h + 1) + 1)..Len(f)}
    BY <1>3, <1>5 DEF Waiting
  <1>9. Waiting(f, h) = {f[h + 1]} \cup {f[p] : p \in ((h + 1) + 1)..Len(f)}
    BY <1>6 DEF Waiting
  <1>10. f[h + 1] \notin {f[p] : p \in ((h + 1) + 1)..Len(f)}
    BY <1>1, <1>2, <1>5
  <1>11. \A x \in Waiting(f, h) : f[h + 1] <= x
    BY <1>1, <1>2, <1>5, <1>9
  <1>12. Waiting(a, h + 1) = Waiting(f, h) \ {f[h + 1]} /\ f[h + 1] \in Waiting(f, h)
    BY <1>8, <1>9, <1>10
  <1> QED
    BY <1>7, <1>11, <1>12 DEF a

(* The same entries waiting somewhere else in another FIFO. *)
LEMMA WaitingMoved ==
    ASSUME NEW f, NEW h \in Nat, NEW g, NEW j \in Nat, Len(f) \in Nat, Len(g) \in Nat,
           Len(g) - j = Len(f) - h, h <= Len(f),
           \A p \in 1..(Len(f) - h) : g[j + p] = f[h + p],
           Ordered(f, h)
    PROVE  Ordered(g, j) /\ Waiting(g, j) = Waiting(f, h)
  <1>1. \A p \in (j + 1)..Len(g) : (p - j) + h \in (h + 1)..Len(f) /\ g[p] = f[(p - j) + h]
    <2> TAKE p \in (j + 1)..Len(g)
    <2>1. p - j \in 1..(Len(f) - h) /\ j + (p - j) = p /\ h + (p - j) = (p - j) + h
      OBVIOUS
    <2>2. g[j + (p - j)] = f[h + (p - j)]
      BY <2>1
    <2> QED
      BY <2>1, <2>2
  <1>2. \A p \in (h + 1)..Len(f) : (p - h) + j \in (j + 1)..Len(g) /\ f[p] = g[(p - h) + j]
    <2> TAKE p \in (h + 1)..Len(f)
    <2>1. p - h \in 1..(Len(f) - h) /\ h + (p - h) = p /\ j + (p - h) = (p - h) + j
      OBVIOUS
    <2>2. g[j + (p - h)] = f[h + (p - h)]
      BY <2>1
    <2> QED
      BY <2>1, <2>2
  <1>3. Ordered(g, j)
    <2> SUFFICES ASSUME NEW p \in (j + 1)..Len(g), NEW q \in (j + 1)..Len(g)
                 PROVE  g[p] # 0 /\ (p < q => g[p] < g[q])
      BY DEF Ordered
    <2>1. p < q => (p - j) + h < (q - j) + h
      OBVIOUS
    <2> QED
      BY <1>1, <2>1 DEF Ordered
  <1>4. Waiting(g, j) = Waiting(f, h)
    <2>1. \A x \in Waiting(g, j) : x \in Waiting(f, h)
      BY <1>1 DEF Waiting
    <2>2. \A x \in Waiting(f, h) : x \in Waiting(g, j)
      BY <1>2 DEF Waiting
    <2> QED
      BY <2>1, <2>2
  <1> QED
    BY <1>3, <1>4
-----------------------------------------------------------------------------
(* The invariant: each ring lists the live messages of its subject in the   *)
(* order of their arrival, and all live messages wait in the FIFO in that   *)
(* order too. The oldest message of the shard is then the oldest of its     *)
(* subject, which is what the eviction relies on. A drop in progress may    *)
(* leave dead messages in the rings it is about to delete.                  *)
RingOK(k) ==
    /\ Ascending(buf[k]) /\ Len(buf[k]) <= MaxPerSubject
    /\ \A i \in Elems(buf[k]) : KeyOf(i) = k
    /\ \A i \in live : KeyOf(i) = k => i \in Elems(buf[k])
    /\ k \notin dropping => Elems(buf[k]) \subseteq live
    /\ k \notin held => buf[k] = <<>>

InStep ==
    /\ \A k \in Keys : RingOK(k)
    /\ Ordered(fifo, fifoHead)
    /\ live \subseteq Waiting(fifo, fifoHead)
    /\ ~panicked

IInv == TypeOK /\ DropsAreLocked /\ InStep

LEMMA ElemsType ==
    ASSUME NEW n \in Nat, NEW s \in Seq(1..n)
    PROVE  Elems(s) \subseteq 1..n
  <1>1. \A p \in 1..Len(s) : s[p] \in 1..n
    BY ElementOfSeq
  <1> QED
    BY <1>1 DEF Elems

LEMMA PushKeys ==
    ASSUME TypeOK, NEW k \in Keys, NEW z \in Sizes, PushRecord(k, z),
           NEW n \in Nat, n = Len(entry)
    PROVE  /\ \A x \in 1..n : KeyOf(x)' = KeyOf(x)
           /\ KeyOf(n + 1)' = k
           /\ n + 1 \notin 1..n
  <1>1. /\ Len(entry) \in Nat
        /\ \A i \in 1..Len(entry) : entry'[i] = entry[i]
        /\ entry'[Len(entry) + 1] = [conn |-> k[1], subject |-> k[2], size |-> z]
    BY PushType
  <1>2. k = <<k[1], k[2]>>
    BY DEF Keys
  <1>3. KeyOf(n + 1)' = k
    BY <1>1, <1>2 DEF KeyOf
  <1> QED
    BY <1>1, <1>3 DEF KeyOf

(* A full subject takes the new message and gives up its oldest. *)
LEMMA FullRing ==
    ASSUME NEW n \in Nat, NEW s \in Seq(1..n), Ascending(s), s # <<>>
    PROVE  /\ Ascending(Tail(Append(s, n + 1)))
           /\ Elems(Tail(Append(s, n + 1))) = (Elems(s) \cup {n + 1}) \ {Head(s)}
           /\ Len(Tail(Append(s, n + 1))) = Len(s)
           /\ Head(s) \in Elems(s)
  <1> DEFINE a == Append(s, n + 1)
  <1>1. /\ a \in Seq(1..(n + 1)) /\ Ascending(a)
        /\ Elems(a) = Elems(s) \cup {n + 1}
        /\ Len(a) = Len(s) + 1
    BY AppendAscending
  <1>2. Head(a) = Head(s)
    BY HeadTailAppend
  <1>3. n + 1 \in Nat /\ Len(s) \in Nat /\ a # <<>>
    <2>1. Len(s) \in Nat
      BY LenProperties
    <2> QED
      BY <1>1, <2>1, EmptySeq
  <1> HIDE DEF a
  <1>4. /\ Ascending(Tail(a))
        /\ Elems(Tail(a)) = Elems(a) \ {Head(a)}
        /\ Len(Tail(a)) = Len(a) - 1
    BY <1>1, <1>3, TailAscending
  <1>5. Head(s) \in Elems(s)
    BY TailAscending
  <1> QED
    BY <1>1, <1>2, <1>3, <1>4, <1>5 DEF a

LEMMA AppendRecordRings ==
    ASSUME IInv, lock = "free", dropping' = dropping,
           NEW k \in Keys, NEW z \in Sizes, PushRecord(k, z), NEW j \in Keys,
           NEW n \in Nat, n = Len(entry)
    PROVE  RingOK(j)'
  <1>1. TypeOK /\ RingOK(j) /\ RingOK(k) /\ dropping = {} /\ dropping' = {}
    BY DEF IInv, InStep, DropsAreLocked
  <1>2. /\ n \in Nat /\ live \subseteq 1..n
        /\ buf[j] \in Seq(1..n) /\ buf[k] \in Seq(1..n)
    BY <1>1, LenProperties DEF TypeOK
  <1>3. Elems(buf[j]) \subseteq 1..n /\ Elems(buf[k]) \subseteq 1..n
    BY <1>2, ElemsType
  <1>4. /\ \A x \in 1..n : KeyOf(x)' = KeyOf(x)
        /\ KeyOf(n + 1)' = k
        /\ n + 1 \notin 1..n
    BY <1>1, PushKeys
  <1>5. held' = held \cup {k}
    BY DEF PushRecord
  <1>6. CASE j # k
    <2>1. buf'[j] = buf[j]
      BY <1>1, <1>6, PushRing
    <2>2. /\ live' \subseteq live \cup {n + 1}
          /\ \A x \in live : KeyOf(x) # k => x \in live'
      <3>1. CASE live' = live \cup {n + 1}
        BY <3>1
      <3>2. CASE buf[k] # <<>> /\ live' = (live \cup {n + 1}) \ {Head(buf[k])}
        <4>1. Head(buf[k]) \in Elems(buf[k])
          BY <1>1, <1>2, <3>2, TailAscending DEF RingOK
        <4>2. KeyOf(Head(buf[k])) = k
          BY <1>1, <4>1 DEF RingOK
        <4> QED
          BY <3>2, <4>2
      <3> QED
        BY <1>1, <3>1, <3>2, PushRing
    <2>3. \A i \in Elems(buf'[j]) : KeyOf(i)' = j
      BY <1>1, <1>3, <1>4, <2>1 DEF RingOK
    <2>4. \A i \in live' : KeyOf(i)' = j => i \in Elems(buf'[j])
      BY <1>1, <1>2, <1>4, <1>6, <2>1, <2>2 DEF RingOK, KeyOf
    <2>5. Elems(buf'[j]) \subseteq live'
      BY <1>1, <1>6, <2>1, <2>2 DEF RingOK
    <2> QED
      BY <1>1, <1>5, <2>1, <2>3, <2>4, <2>5 DEF RingOK
  <1>7. CASE j = k /\ Room(k)
    <2>1. buf'[j] = Append(buf[j], n + 1) /\ live' = live \cup {n + 1}
      BY <1>1, <1>7, PushRing
    <2>2. /\ Ascending(buf'[j])
          /\ Elems(buf'[j]) = Elems(buf[j]) \cup {n + 1}
          /\ Len(buf'[j]) = Len(buf[j]) + 1
      BY <1>1, <1>2, <2>1, AppendAscending DEF RingOK
    <2>3. Len(buf'[j]) <= MaxPerSubject
      <3>1. Len(buf[j]) \in Nat /\ Len(buf[j]) < MaxPerSubject
        BY <1>2, <1>7, LenProperties DEF Room
      <3> QED
        BY <2>2, <3>1, ShardAssumption
    <2>4. \A i \in Elems(buf'[j]) : KeyOf(i)' = j
      BY <1>1, <1>3, <1>4, <1>7, <2>2 DEF RingOK, KeyOf
    <2>5. \A i \in live' : KeyOf(i)' = j => i \in Elems(buf'[j])
      BY <1>1, <1>2, <1>4, <2>1, <2>2 DEF RingOK
    <2>6. Elems(buf'[j]) \subseteq live'
      BY <1>1, <2>1, <2>2 DEF RingOK
    <2> QED
      BY <1>5, <1>7, <2>2, <2>3, <2>4, <2>5, <2>6 DEF RingOK
  <1>8. CASE j = k /\ ~Room(k)
    <2>1. /\ buf[j] # <<>>
          /\ buf'[j] = Tail(Append(buf[j], n + 1))
          /\ live' = (live \cup {n + 1}) \ {Head(buf[j])}
      BY <1>1, <1>8, PushRing
    <2>2. /\ Ascending(buf'[j])
          /\ Elems(buf'[j]) = (Elems(buf[j]) \cup {n + 1}) \ {Head(buf[j])}
          /\ Len(buf'[j]) = Len(buf[j])
      BY <1>1, <1>2, <2>1, FullRing DEF RingOK
    <2>3. \A i \in Elems(buf'[j]) : KeyOf(i)' = j
      BY <1>1, <1>3, <1>4, <1>8, <2>2 DEF RingOK, KeyOf
    <2>4. \A i \in live' : KeyOf(i)' = j => i \in Elems(buf'[j])
      BY <1>1, <1>2, <1>4, <2>1, <2>2 DEF RingOK
    <2>5. Elems(buf'[j]) \subseteq live'
      BY <1>1, <2>1, <2>2 DEF RingOK
    <2> QED
      BY <1>1, <1>5, <1>8, <2>2, <2>3, <2>4, <2>5 DEF RingOK
  <1> QED
    BY <1>6, <1>7, <1>8

LEMMA InStepAppendRecord ==
    ASSUME IInv, AppendRecord
    PROVE  InStep'
  <1>1. PICK k \in Keys, z \in Sizes : PushRecord(k, z)
    BY DEF AppendRecord
  <1>2. PICK n \in Nat : n = Len(entry)
    BY LenProperties DEF IInv, TypeOK
  <1>3. /\ lock = "free" /\ fifoHead' = fifoHead /\ dropping' = dropping /\ panicked' = panicked
        /\ TypeOK /\ InStep
    BY DEF AppendRecord, IInv
  <1>4. ASSUME NEW j \in Keys PROVE RingOK(j)'
    BY <1>1, <1>2, <1>3, AppendRecordRings
  <1>5. fifo' = Append(fifo, n + 1) /\ live' \subseteq live \cup {n + 1}
    BY <1>1, <1>2, <1>3, PushType, PushRing
  <1>6. fifo \in Seq(0..n) /\ fifoHead \in 0..Len(fifo) /\ Ordered(fifo, fifoHead)
    BY <1>2, <1>3 DEF TypeOK, InStep
  <1>7. /\ Ordered(fifo', fifoHead)
        /\ Waiting(fifo', fifoHead) = Waiting(fifo, fifoHead) \cup {n + 1}
    BY <1>5, <1>6, WaitingPush
  <1>8. Ordered(fifo', fifoHead') /\ live' \subseteq Waiting(fifo', fifoHead')
    BY <1>3, <1>5, <1>7 DEF InStep
  <1> QED
    BY <1>3, <1>4, <1>8 DEF InStep

(* The message the eviction takes from the FIFO is the first of its ring.   *)
LEMMA OldestIsFirst ==
    ASSUME IInv, lock # "drop", fifoHead < Len(fifo), fifo[fifoHead + 1] \in live,
           NEW k, k = KeyOf(fifo[fifoHead + 1])
    PROVE  /\ k \in Keys
           /\ buf[k] # <<>>
           /\ Head(buf[k]) = fifo[fifoHead + 1]
  <1> DEFINE old == fifo[fifoHead + 1]
  <1>1. TypeOK /\ InStep /\ dropping = {}
    BY DEF IInv, DropsAreLocked
  <1>2. Len(entry) \in Nat /\ live \subseteq 1..Len(entry) /\ old \in 1..Len(entry)
    BY <1>1, LenProperties DEF TypeOK
  <1>3. k \in Keys
    BY <1>1, <1>2, KeyOfType
  <1>4. RingOK(k) /\ buf[k] \in Seq(1..Len(entry))
    BY <1>1, <1>3 DEF InStep, TypeOK
  <1>5. old \in Elems(buf[k])
    BY <1>4 DEF RingOK
  <1>6. buf[k] # <<>>
    BY <1>5 DEF Elems
  <1> DEFINE first == Head(buf[k])
  <1>7. first \in Elems(buf[k]) /\ first <= old
    BY <1>2, <1>4, <1>5, <1>6, TailAscending DEF RingOK
  <1>8. first \in live
    BY <1>1, <1>4, <1>7 DEF RingOK
  <1>9. first \in Waiting(fifo, fifoHead)
    BY <1>1, <1>8 DEF InStep
  <1>10. fifo \in Seq(0..Len(entry)) /\ fifoHead \in 0..Len(fifo) /\ Ordered(fifo, fifoHead)
    BY <1>1 DEF TypeOK, InStep
  <1>11. old <= first
    BY <1>2, <1>9, <1>10, WaitingPop
  <1>12. first \in 1..Len(entry)
    BY <1>2, <1>8
  <1> HIDE DEF old, first
  <1>13. first = old
    BY <1>2, <1>7, <1>11, <1>12
  <1> QED
    BY <1>3, <1>6, <1>13 DEF old, first

LEMMA InStepEvictOldest ==
    ASSUME IInv, EvictOldest
    PROVE  InStep'
  <1> DEFINE old == fifo[fifoHead + 1]
             k   == KeyOf(old)
  <1>1. /\ TypeOK /\ InStep /\ dropping = {}
        /\ lock = "append" /\ fifoHead < Len(fifo)
        /\ fifo' = [fifo EXCEPT ![fifoHead + 1] = 0]
        /\ fifoHead' = fifoHead + 1
        /\ UNCHANGED <<entry, held, dropping>>
    BY DEF IInv, DropsAreLocked, EvictOldest, OverBudget
  <1>2. /\ Len(entry) \in Nat /\ fifo \in Seq(0..Len(entry))
        /\ fifoHead \in 0..Len(fifo) /\ Ordered(fifo, fifoHead)
        /\ live \subseteq Waiting(fifo, fifoHead)
    BY <1>1, LenProperties DEF TypeOK, InStep
  <1>3. /\ Ordered(fifo', fifoHead')
        /\ Waiting(fifo', fifoHead') = Waiting(fifo, fifoHead) \ {old}
    BY <1>1, <1>2, WaitingPop
  <1>4. CASE old \notin live
    <2>1. UNCHANGED <<live, buf, panicked>>
      BY <1>4 DEF EvictOldest
    <2>2. \A j \in Keys : RingOK(j)'
      BY <1>1, <2>1 DEF InStep, RingOK, KeyOf
    <2>3. live' \subseteq Waiting(fifo', fifoHead')
      BY <1>2, <1>3, <1>4, <2>1
    <2> QED
      BY <1>1, <1>3, <2>1, <2>2, <2>3 DEF InStep
  <1>5. CASE old \in live
    <2>1. k \in Keys /\ buf[k] # <<>> /\ Head(buf[k]) = old
      BY <1>1, <1>5, OldestIsFirst
    <2>2. /\ buf' = [buf EXCEPT ![k] = Tail(@)]
          /\ live' = live \ {old}
          /\ panicked' = panicked
      BY <1>5, <2>1 DEF EvictOldest
    <2>3. buf \in [Keys -> Seq(1..Len(entry))] /\ RingOK(k)
      BY <1>1, <2>1 DEF TypeOK, InStep
    <2>4. live' \subseteq Waiting(fifo', fifoHead')
      BY <1>2, <1>3, <2>2
    <2> HIDE DEF old, k
    <2>5. buf'[k] = Tail(buf[k]) /\ \A j \in Keys : j # k => buf'[j] = buf[j]
      BY <2>1, <2>2, <2>3
    <2>6. /\ Ascending(buf'[k])
          /\ Elems(buf'[k]) = Elems(buf[k]) \ {old}
          /\ Len(buf'[k]) <= MaxPerSubject
      <3>1. /\ Ascending(buf'[k])
            /\ Elems(buf'[k]) = Elems(buf[k]) \ {Head(buf[k])}
            /\ Len(buf'[k]) = Len(buf[k]) - 1
        BY <1>2, <2>1, <2>3, <2>5, TailAscending DEF RingOK
      <3>2. Len(buf[k]) \in Nat /\ Len(buf[k]) <= MaxPerSubject
        BY <2>1, <2>3, LenProperties DEF RingOK
      <3>3. Len(buf'[k]) <= MaxPerSubject
        BY <3>1, <3>2, ShardAssumption
      <3> QED
        BY <2>1, <3>1, <3>3
    <2>7. KeyOf(old) = k
      BY DEF k
    <2>8. ASSUME NEW j \in Keys PROVE RingOK(j)'
      <3>1. RingOK(j)
        BY <1>1, <2>8 DEF InStep
      <3>2. CASE j = k
        BY <1>1, <2>1, <2>2, <2>6, <3>1, <3>2 DEF RingOK, KeyOf
      <3>3. CASE j # k
        <4>1. buf'[j] = buf[j] /\ old \notin Elems(buf[j])
          BY <2>5, <2>7, <2>8, <3>1, <3>3 DEF RingOK
        <4> QED
          BY <1>1, <2>2, <3>1, <4>1 DEF RingOK, KeyOf
      <3> QED
        BY <3>2, <3>3
    <2> QED
      BY <1>1, <1>3, <2>2, <2>4, <2>8 DEF InStep
  <1> QED
    BY <1>4, <1>5

LEMMA InStepAppendDone ==
    ASSUME IInv, AppendDone
    PROVE  InStep'
  <1>1. /\ UNCHANGED <<entry, live, held, buf, dropping, panicked>>
        /\ TypeOK /\ InStep
    BY DEF AppendDone, IInv
  <1>2. /\ Len(fifo) \in Nat /\ fifoHead \in Nat /\ fifoHead <= Len(fifo)
        /\ Ordered(fifo, fifoHead) /\ live \subseteq Waiting(fifo, fifoHead)
    BY <1>1, LenProperties DEF TypeOK, InStep
  <1>3. /\ Len(fifo') \in Nat /\ fifoHead' \in Nat
        /\ Len(fifo') - fifoHead' = Len(fifo) - fifoHead
        /\ \A p \in 1..(Len(fifo) - fifoHead) : fifo'[fifoHead' + p] = fifo[fifoHead + p]
    BY <1>1, AppendDoneFifo
  <1>4. Ordered(fifo', fifoHead') /\ Waiting(fifo', fifoHead') = Waiting(fifo, fifoHead)
    <2>1. PICK f, h : f = fifo /\ h = fifoHead
      OBVIOUS
    <2>2. PICK g, j : g = fifo' /\ j = fifoHead'
      OBVIOUS
    <2>3. /\ Len(f) \in Nat /\ h \in Nat /\ h <= Len(f) /\ Ordered(f, h)
      BY <1>2, <2>1
    <2>4. /\ Len(g) \in Nat /\ j \in Nat
          /\ Len(g) - j = Len(f) - h
          /\ \A p \in 1..(Len(f) - h) : g[j + p] = f[h + p]
      BY <1>3, <2>1, <2>2
    <2>5. Ordered(g, j) /\ Waiting(g, j) = Waiting(f, h)
      BY ONLY <2>3, <2>4, WaitingMoved
    <2> QED
      BY <2>1, <2>2, <2>5
  <1>5. \A j \in Keys : RingOK(j)'
    BY <1>1 DEF InStep, RingOK, KeyOf
  <1> QED
    BY <1>1, <1>2, <1>4, <1>5 DEF InStep

LEMMA InStepStartDrop ==
    ASSUME IInv, NEW K \in SUBSET held, StartDrop(K)
    PROVE  InStep'
  <1>1. /\ UNCHANGED <<entry, live, fifo, fifoHead, held, buf, panicked>>
        /\ dropping' = K /\ dropping = {} /\ InStep
    BY DEF StartDrop, IInv, DropsAreLocked
  <1>2. \A j \in Keys : RingOK(j)'
    BY <1>1 DEF InStep, RingOK, KeyOf
  <1> QED
    BY <1>1, <1>2 DEF InStep

LEMMA InStepKillDropped ==
    ASSUME IInv, KillDropped
    PROVE  InStep'
  <1>1. PICK k \in dropping : \E p \in 1..Len(buf[k]) : live' = live \ {buf[k][p]}
    BY DEF KillDropped
  <1>2. PICK p \in 1..Len(buf[k]) : live' = live \ {buf[k][p]}
    BY <1>1
  <1>3. PICK i \in Elems(buf[k]) : live' = live \ {i}
    BY <1>2 DEF Elems
  <1>4. /\ UNCHANGED <<entry, fifo, fifoHead, held, buf, dropping, panicked>>
        /\ TypeOK /\ InStep
    BY DEF KillDropped, IInv
  <1>5. k \in Keys /\ RingOK(k)
    BY <1>4 DEF InStep, TypeOK
  <1>6. KeyOf(i) = k
    BY <1>3, <1>5 DEF RingOK
  <1>7. ASSUME NEW j \in Keys PROVE RingOK(j)'
    <2>1. RingOK(j)
      BY <1>4, <1>7 DEF InStep
    <2>2. j \notin dropping => i \notin Elems(buf[j])
      BY <1>6, <2>1 DEF RingOK
    <2> QED
      BY <1>3, <1>4, <2>1, <2>2 DEF RingOK, KeyOf
  <1> QED
    BY <1>3, <1>4, <1>7 DEF InStep

LEMMA InStepDropDone ==
    ASSUME IInv, DropDone
    PROVE  InStep'
  <1>1. /\ UNCHANGED <<entry, live, fifo, fifoHead, panicked>>
        /\ held' = held \ dropping /\ dropping' = {}
        /\ buf' = [k \in Keys |-> IF k \in dropping THEN <<>> ELSE buf[k]]
        /\ \A k \in dropping : \A p \in 1..Len(buf[k]) : buf[k][p] \notin live
        /\ TypeOK /\ InStep
    BY DEF DropDone, IInv
  <1>2. ASSUME NEW j \in Keys PROVE RingOK(j)'
    <2>1. RingOK(j)
      BY <1>1, <1>2 DEF InStep
    <2>2. CASE j \in dropping
      <3>1. buf'[j] = <<>>
        BY <1>1, <1>2, <2>2
      <3>2. Elems(<<>>) = {} /\ Ascending(<<>>) /\ Len(<<>>) <= MaxPerSubject
        BY ShardAssumption DEF Elems, Ascending
      <3>3. \A i \in Elems(buf[j]) : i \notin live
        BY <1>1, <2>2 DEF Elems
      <3>4. \A i \in live : KeyOf(i) # j
        BY <2>1, <3>3 DEF RingOK
      <3> QED
        BY <1>1, <3>1, <3>2, <3>4 DEF RingOK, KeyOf
    <2>3. CASE j \notin dropping
      <3>1. buf'[j] = buf[j]
        BY <1>1, <1>2, <2>3
      <3> QED
        BY <1>1, <2>1, <2>3, <3>1 DEF RingOK, KeyOf
    <2> QED
      BY <2>2, <2>3
  <1> QED
    BY <1>1, <1>2 DEF InStep

LEMMA EmptyShard ==
    ASSUME buf = [k \in Keys |-> <<>>], live = {}, fifo = <<>>, fifoHead = 0, ~panicked
    PROVE  InStep
  <1>1. Elems(<<>>) = {} /\ Ascending(<<>>) /\ Len(<<>>) <= MaxPerSubject
    BY ShardAssumption DEF Elems, Ascending
  <1>2. \A j \in Keys : RingOK(j)
    BY <1>1 DEF RingOK
  <1>3. Ordered(fifo, fifoHead)
    BY DEF Ordered
  <1> QED
    BY <1>2, <1>3 DEF InStep

LEMMA InStepClear ==
    ASSUME IInv, Clear
    PROVE  InStep'
  <1>1. /\ buf' = [k \in Keys |-> <<>>] /\ live' = {}
        /\ fifo' = <<>> /\ fifoHead' = 0 /\ ~panicked'
    BY DEF Clear
  <1>2. Elems(<<>>) = {} /\ Ascending(<<>>) /\ Len(<<>>) <= MaxPerSubject
    BY ShardAssumption DEF Elems, Ascending
  <1>3. \A j \in Keys : RingOK(j)'
    BY <1>1, <1>2 DEF RingOK
  <1>4. Ordered(fifo', fifoHead')
    BY <1>1 DEF Ordered
  <1> QED
    BY <1>1, <1>3, <1>4 DEF InStep

LEMMA IInvNext ==
    ASSUME IInv, [Next]_vars
    PROVE  IInv'
  <1>1. TypeOK' /\ DropsAreLocked'
    BY TypeNext DEF IInv
  <1>2. InStep'
    <2>1. CASE AppendRecord
      BY <2>1, InStepAppendRecord
    <2>2. CASE EvictOldest
      BY <2>2, InStepEvictOldest
    <2>3. CASE AppendDone
      BY <2>3, InStepAppendDone
    <2>4. CASE Drop \/ DropSubjects
      <3>1. PICK K \in SUBSET held : StartDrop(K)
        <4>1. \A c \in Conns : {k \in held : k[1] = c} \in SUBSET held
          OBVIOUS
        <4>2. \A c \in Conns, S \in SUBSET Subjects : {k \in held : k[1] = c /\ k[2] \in S} \in SUBSET held
          OBVIOUS
        <4> QED
          BY <2>4, <4>1, <4>2 DEF Drop, DropSubjects
      <3> QED
        BY <3>1, InStepStartDrop
    <2>5. CASE KillDropped
      BY <2>5, InStepKillDropped
    <2>6. CASE DropDone
      BY <2>6, InStepDropDone
    <2>7. CASE Clear
      BY <2>7, InStepClear
    <2>8. CASE UNCHANGED vars
      <3>1. \A j \in Keys : RingOK(j)'
        BY <2>8 DEF vars, IInv, InStep, RingOK, KeyOf
      <3> QED
        BY <2>8, <3>1 DEF vars, IInv, InStep
    <2> QED
      BY <2>1, <2>2, <2>3, <2>4, <2>5, <2>6, <2>7, <2>8 DEF Next
  <1> QED
    BY <1>1, <1>2 DEF IInv

LEMMA ShardInvariant == Spec => []IInv
  <1>1. Init => IInv
    <2> SUFFICES ASSUME Init PROVE IInv
      OBVIOUS
    <2>1. InStep
      BY EmptyShard DEF Init
    <2> QED
      BY <2>1, TypeInit DEF IInv
  <1>2. IInv /\ [Next]_vars => IInv'
    BY IInvNext
  <1> QED
    BY <1>1, <1>2, PTL DEF Spec

(* The panic "global FIFO out of step with subject FIFO" in Append cannot   *)
(* happen, whatever the budget, the cap and the order of the calls.         *)
THEOREM NeverPanics == Spec => []NoPanic
  <1>1. IInv => NoPanic
    BY DEF IInv, InStep, NoPanic
  <1> QED
    BY <1>1, ShardInvariant, PTL

(* The rings hold the live messages, oldest first, whenever the shard is    *)
(* not in the middle of a drop; so reads never meet a released payload.     *)
THEOREM RingsAreExact == Spec => []RingsHoldTheLive
  <1>1. IInv => RingsHoldTheLive
    <2> SUFFICES ASSUME IInv, lock # "drop", NEW k \in Keys
                 PROVE  /\ {buf[k][p] : p \in 1..Len(buf[k])} = LiveOf(k)
                        /\ \A p, q \in 1..Len(buf[k]) : p < q => buf[k][p] < buf[k][q]
      BY DEF RingsHoldTheLive
    <2>1. RingOK(k) /\ dropping = {}
      BY DEF IInv, InStep, DropsAreLocked
    <2>2. Elems(buf[k]) = LiveOf(k)
      BY <2>1 DEF RingOK, LiveOf
    <2> QED
      BY <2>1, <2>2 DEF RingOK, Elems, Ascending
  <1> QED
    BY <1>1, ShardInvariant, PTL

(* Every message that counts towards the budget is where the eviction will  *)
(* find it.                                                                 *)
THEOREM NothingIsLeftBehind == Spec => []LiveAreQueued
  <1>1. IInv => LiveAreQueued
    BY DEF IInv, InStep, Waiting, LiveAreQueued
  <1> QED
    BY <1>1, ShardInvariant, PTL
-----------------------------------------------------------------------------
(* The counters. *)
OfConn(c) == {i \in live : entry[i].conn = c}

Finite == IsFiniteSet(live) /\ \A c \in Conns : IsFiniteSet(OfConn(c))

LEMMA LiveIsFinite ==
    ASSUME TypeOK
    PROVE  Finite
  <1>1. Len(entry) \in Nat /\ live \subseteq 1..Len(entry)
    BY LenProperties DEF TypeOK
  <1>2. IsFiniteSet(1..Len(entry))
    BY <1>1, FS_Interval
  <1>3. IsFiniteSet(live)
    BY <1>1, <1>2, FS_Subset
  <1>4. \A c \in Conns : OfConn(c) \in SUBSET live
    BY DEF OfConn
  <1> QED
    BY <1>3, <1>4, FS_Subset DEF Finite

(* A message more, a message less, or one exchanged for another of the same *)
(* connection.                                                              *)
LEMMA CountAdd ==
    ASSUME TypeOK, CountsExact, NEW i, i \notin live, NEW d \in Conns,
           live' = live \cup {i}, entry'[i].conn = d, \A x \in live : entry'[x] = entry[x],
           count' = count + 1, connCount' = [connCount EXCEPT ![d] = @ + 1]
    PROVE  CountsExact'
  <1>1. Finite
    BY LiveIsFinite
  <1>2. count' = Cardinality(live')
    BY <1>1, FS_AddElement DEF CountsExact, Finite
  <1>3. ASSUME NEW c \in Conns PROVE connCount'[c] = Cardinality(OfConn(c)')
    <2>1. connCount[c] = Cardinality(OfConn(c)) /\ IsFiniteSet(OfConn(c)) /\ i \notin OfConn(c)
      BY <1>1, <1>3 DEF CountsExact, OfConn, Finite
    <2>2. CASE c = d
      <3>1. OfConn(c)' = OfConn(c) \cup {i}
        BY <2>2 DEF OfConn
      <3>2. Cardinality(OfConn(c)') = Cardinality(OfConn(c)) + 1
        BY <2>1, <3>1, FS_AddElement
      <3>3. connCount'[c] = connCount[c] + 1
        BY <1>3, <2>2 DEF TypeOK
      <3> QED
        BY <2>1, <3>2, <3>3
    <2>3. CASE c # d
      <3>1. OfConn(c)' = OfConn(c)
        BY <2>3 DEF OfConn
      <3>2. connCount'[c] = connCount[c]
        BY <1>3, <2>3 DEF TypeOK
      <3> QED
        BY <2>1, <3>1, <3>2
    <2> QED
      BY <2>2, <2>3
  <1> QED
    BY <1>2, <1>3 DEF CountsExact, OfConn

LEMMA CountRemove ==
    ASSUME TypeOK, CountsExact, NEW i \in live, NEW d \in Conns,
           live' = live \ {i}, entry[i].conn = d, entry' = entry,
           count' = count + (-1), connCount' = [connCount EXCEPT ![d] = @ + (-1)]
    PROVE  CountsExact'
  <1>1. Finite
    BY LiveIsFinite
  <1>2. count' = Cardinality(live')
    <2>1. Cardinality(live') = Cardinality(live) - 1 /\ count = Cardinality(live)
      BY <1>1, FS_RemoveElement DEF CountsExact, Finite
    <2>2. count \in Int
      BY DEF TypeOK
    <2> QED
      BY <2>1, <2>2
  <1>3. ASSUME NEW c \in Conns PROVE connCount'[c] = Cardinality(OfConn(c)')
    <2>1. connCount[c] = Cardinality(OfConn(c)) /\ IsFiniteSet(OfConn(c)) /\ connCount[c] \in Int
      BY <1>1, <1>3 DEF CountsExact, OfConn, Finite, TypeOK
    <2>2. CASE c = d
      <3>1. OfConn(c)' = OfConn(c) \ {i} /\ i \in OfConn(c)
        BY <2>2 DEF OfConn
      <3>2. Cardinality(OfConn(c)') = Cardinality(OfConn(c)) - 1
        BY <2>1, <3>1, FS_RemoveElement
      <3>3. connCount'[c] = connCount[c] + (-1)
        BY <1>3, <2>2 DEF TypeOK
      <3> QED
        BY <2>1, <3>2, <3>3
    <2>3. CASE c # d
      <3>1. OfConn(c)' = OfConn(c)
        BY <2>3 DEF OfConn
      <3>2. connCount'[c] = connCount[c]
        BY <1>3, <2>3 DEF TypeOK
      <3> QED
        BY <2>1, <3>1, <3>2
    <2> QED
      BY <2>2, <2>3
  <1> QED
    BY <1>2, <1>3 DEF CountsExact, OfConn

LEMMA CountSwap ==
    ASSUME TypeOK, CountsExact, NEW i, i \notin live, NEW old \in live, NEW d \in Conns,
           live' = (live \cup {i}) \ {old}, entry'[i].conn = d, entry[old].conn = d,
           \A x \in live : entry'[x] = entry[x],
           count' = count + 0, connCount' = [connCount EXCEPT ![d] = @ + 0]
    PROVE  CountsExact'
  <1>1. Finite
    BY LiveIsFinite
  <1>2. count' = Cardinality(live')
    <2>1. /\ IsFiniteSet(live \cup {i}) /\ old \in live \cup {i}
          /\ Cardinality(live \cup {i}) = Cardinality(live) + 1
      BY <1>1, FS_AddElement DEF Finite
    <2>2. Cardinality(live') = (Cardinality(live) + 1) - 1
      BY <2>1, FS_RemoveElement
    <2>3. count = Cardinality(live) /\ count \in Int
      BY DEF CountsExact, TypeOK
    <2> QED
      BY <2>2, <2>3
  <1>3. ASSUME NEW c \in Conns PROVE connCount'[c] = Cardinality(OfConn(c)')
    <2>1. /\ connCount[c] = Cardinality(OfConn(c)) /\ IsFiniteSet(OfConn(c))
          /\ connCount[c] \in Int /\ i \notin OfConn(c)
      BY <1>1, <1>3 DEF CountsExact, OfConn, Finite, TypeOK
    <2>2. connCount'[c] = connCount[c]
      BY <1>3, <2>1 DEF TypeOK
    <2>3. CASE c = d
      <3>1. OfConn(c)' = (OfConn(c) \cup {i}) \ {old} /\ old \in OfConn(c) \cup {i}
        BY <2>3 DEF OfConn
      <3>2. IsFiniteSet(OfConn(c) \cup {i}) /\ Cardinality(OfConn(c) \cup {i}) = Cardinality(OfConn(c)) + 1
        BY <2>1, FS_AddElement
      <3>3. Cardinality(OfConn(c)') = (Cardinality(OfConn(c)) + 1) - 1
        BY <3>1, <3>2, FS_RemoveElement
      <3> QED
        BY <2>1, <2>2, <3>3
    <2>4. CASE c # d
      <3>1. OfConn(c)' = OfConn(c)
        BY <2>4 DEF OfConn
      <3> QED
        BY <2>1, <2>2, <3>1
    <2> QED
      BY <2>3, <2>4
  <1> QED
    BY <1>2, <1>3 DEF CountsExact, OfConn

LEMMA CountAppendRecord ==
    ASSUME IInv, CountsExact, AppendRecord
    PROVE  CountsExact'
  <1>1. PICK k \in Keys, z \in Sizes : PushRecord(k, z)
    BY DEF AppendRecord
  <1>2. PICK i : i = Len(entry) + 1
    OBVIOUS
  <1>3. /\ TypeOK /\ RingOK(k) /\ dropping = {} /\ k[1] \in Conns
    BY DEF IInv, InStep, DropsAreLocked, AppendRecord, Keys
  <1>4. /\ Len(entry) \in Nat /\ live \subseteq 1..Len(entry)
        /\ \A x \in 1..Len(entry) : entry'[x] = entry[x]
        /\ entry'[i] = [conn |-> k[1], subject |-> k[2], size |-> z]
    BY <1>1, <1>2, <1>3, PushType DEF TypeOK
  <1>5. i \notin live /\ entry'[i].conn = k[1] /\ \A x \in live : entry'[x] = entry[x]
    BY <1>2, <1>4
  <1>6. CASE Room(k)
    <2>1. live' = live \cup {i}
      BY <1>1, <1>2, <1>3, <1>6, PushRing
    <2>2. count' = count + 1 /\ connCount' = [connCount EXCEPT ![k[1]] = @ + 1]
      BY <1>1, <1>6 DEF PushRecord, Account
    <2> QED
      BY <1>3, <1>5, <2>1, <2>2, CountAdd
  <1>7. CASE ~Room(k)
    <2>1. /\ buf[k] # <<>> /\ buf[k] \in Seq(1..Len(entry))
          /\ live' = (live \cup {i}) \ {Head(buf[k])}
      BY <1>1, <1>2, <1>3, <1>7, PushRing
    <2>2. PICK old : old = Head(buf[k])
      OBVIOUS
    <2>3. old \in Elems(buf[k])
      BY <1>3, <1>4, <2>1, <2>2, TailAscending DEF RingOK
    <2>4. old \in live /\ KeyOf(old) = k
      BY <1>3, <2>3 DEF RingOK
    <2>5. entry[old].conn = k[1]
      BY <2>4 DEF KeyOf
    <2>6. count' = count + 0 /\ connCount' = [connCount EXCEPT ![k[1]] = @ + 0]
      BY <1>1, <1>7 DEF PushRecord, Account
    <2>7. live' = (live \cup {i}) \ {old}
      BY <2>1, <2>2
    <2> QED
      BY <1>3, <1>5, <2>4, <2>5, <2>6, <2>7, CountSwap
  <1> QED
    BY <1>6, <1>7

(* A connection without subjects after a drop has no message left. *)
LEMMA ForgottenIsEmpty ==
    ASSUME IInv, IInv', DropDone, NEW c \in Conns, ~ \E k \in held' : k[1] = c
    PROVE  OfConn(c) = {}
  <1>0. UNCHANGED <<entry, live>>
    BY DEF DropDone
  <1>1. ASSUME NEW i \in OfConn(c) PROVE FALSE
    <2>1. i \in live /\ i \in 1..Len(entry) /\ entry[i].conn = c
      BY DEF OfConn, IInv, TypeOK
    <2>2. PICK j : j = KeyOf(i)
      OBVIOUS
    <2>3. j \in Keys /\ j[1] = c /\ j = KeyOf(i)'
      BY <1>0, <2>1, <2>2, KeyOfType DEF IInv, KeyOf
    <2>4. RingOK(j)'
      BY <2>3 DEF IInv, InStep
    <2>5. i \in live'
      BY <1>0, <2>1
    <2>6. i \in Elems(buf'[j])
      BY <2>3, <2>4, <2>5 DEF RingOK
    <2>7. buf'[j] # <<>>
      BY <2>6 DEF Elems
    <2>8. j \in held'
      BY <2>4, <2>7 DEF RingOK
    <2> QED
      BY <2>3, <2>8
  <1> QED
    BY <1>1

LEMMA CountDropDone ==
    ASSUME IInv, IInv', CountsExact, DropDone
    PROVE  CountsExact'
  <1>1. /\ UNCHANGED <<entry, live, count>>
        /\ connCount' = [c \in Conns |-> IF \E k \in held' : k[1] = c THEN connCount[c] ELSE 0]
    BY DEF DropDone
  <1>2. ASSUME NEW c \in Conns PROVE connCount'[c] = Cardinality(OfConn(c)')
    <2>1. OfConn(c)' = OfConn(c) /\ connCount[c] = Cardinality(OfConn(c))
      BY <1>1, <1>2 DEF OfConn, CountsExact
    <2>2. CASE \E k \in held' : k[1] = c
      BY <1>1, <1>2, <2>1, <2>2
    <2>3. CASE ~ \E k \in held' : k[1] = c
      <3>1. OfConn(c) = {}
        BY <2>3, ForgottenIsEmpty
      <3> QED
        BY <1>1, <1>2, <2>1, <2>3, <3>1, FS_EmptySet
    <2> QED
      BY <2>2, <2>3
  <1> QED
    BY <1>1, <1>2 DEF CountsExact, OfConn

LEMMA CountNext ==
    ASSUME IInv, IInv', CountsExact, [Next]_vars
    PROVE  CountsExact'
  <1>0. TypeOK
    BY DEF IInv
  <1>1. CASE AppendRecord
    BY <1>1, CountAppendRecord
  <1>2. CASE EvictOldest
    <2>1. PICK old : old = fifo[fifoHead + 1]
      OBVIOUS
    <2>2. CASE old \notin live
      <3>1. UNCHANGED <<entry, live, count, connCount>>
        BY <1>2, <2>1, <2>2 DEF EvictOldest
      <3> QED
        BY <3>1 DEF CountsExact
    <2>3. CASE old \in live
      <3>1. PICK k : k = KeyOf(old)
        OBVIOUS
      <3>2. k \in Keys /\ buf[k] # <<>> /\ Head(buf[k]) = old
        BY <1>2, <2>1, <2>3, <3>1, OldestIsFirst DEF EvictOldest, OverBudget
      <3>3. /\ live' = live \ {old} /\ entry' = entry
            /\ Account(k[1], -entry[old].size, -1)
        BY <1>2, <2>1, <2>3, <3>1, <3>2 DEF EvictOldest
      <3>4. count' = count + (-1) /\ connCount' = [connCount EXCEPT ![k[1]] = @ + (-1)]
        BY <3>3 DEF Account
      <3>5. k[1] \in Conns /\ entry[old].conn = k[1]
        BY <3>1, <3>2 DEF KeyOf, Keys
      <3> QED
        BY <1>0, <2>3, <3>3, <3>4, <3>5, CountRemove
    <2> QED
      BY <2>2, <2>3
  <1>3. CASE AppendDone \/ Drop \/ DropSubjects \/ UNCHANGED vars
    <2>1. UNCHANGED <<entry, live, count, connCount>>
      BY <1>3 DEF AppendDone, Drop, DropSubjects, StartDrop, vars
    <2> QED
      BY <2>1 DEF CountsExact
  <1>4. CASE KillDropped
    <2>1. PICK k \in dropping : \E p \in 1..Len(buf[k]) :
              /\ buf[k][p] \in live
              /\ live' = live \ {buf[k][p]}
              /\ Account(KeyOf(buf[k][p])[1], -entry[buf[k][p]].size, -1)
      BY <1>4 DEF KillDropped
    <2>2. PICK i \in live : live' = live \ {i} /\ Account(KeyOf(i)[1], -entry[i].size, -1)
      BY <2>1
    <2>3. KeyOf(i)[1] = entry[i].conn /\ entry[i].conn \in Conns
      <3>1. i \in 1..Len(entry)
        BY <1>0 DEF TypeOK
      <3>2. entry[i] \in Entry
        BY <1>0, <3>1, KeyOfType
      <3> QED
        BY <3>2 DEF KeyOf, Entry
    <2>4. count' = count + (-1) /\ connCount' = [connCount EXCEPT ![entry[i].conn] = @ + (-1)]
      BY <2>2, <2>3 DEF Account
    <2>5. entry' = entry
      BY <1>4 DEF KillDropped
    <2> QED
      BY <1>0, <2>2, <2>3, <2>4, <2>5, CountRemove
  <1>5. CASE DropDone
    BY <1>5, CountDropDone
  <1>6. CASE Clear
    <2>1. live' = {} /\ count' = 0 /\ connCount' = [c \in Conns |-> 0]
      BY <1>6 DEF Clear
    <2>2. \A c \in Conns : OfConn(c)' = {}
      BY <2>1 DEF OfConn
    <2> QED
      BY <2>1, <2>2, FS_EmptySet DEF CountsExact, OfConn
  <1> QED
    BY <1>1, <1>2, <1>3, <1>4, <1>5, <1>6 DEF Next

(* What Stats reports is what can be read: the shard's counter and those of *)
(* the connections are the numbers of live messages.                        *)
THEOREM CountersAreExact == Spec => []CountsExact
  <1>1. Init => CountsExact
    <2> SUFFICES ASSUME Init PROVE CountsExact
      OBVIOUS
    <2>1. \A c \in Conns : {i \in live : entry[i].conn = c} = {}
      BY DEF Init
    <2> QED
      BY <2>1, FS_EmptySet DEF Init, CountsExact
  <1>2. IInv /\ IInv' /\ CountsExact /\ [Next]_vars => CountsExact'
    BY CountNext
  <1> QED
    BY <1>1, <1>2, ShardInvariant, PTL DEF Spec
-----------------------------------------------------------------------------
(* The bytes. What a set of messages weighs is a sum over the set. *)
WeightIn(e, S) == MapThenSumSet(LAMBDA i : e[i].size, S)

LEMMA WeightIsSum ==
    ASSUME NEW e, NEW f, NEW S, IsFiniteSet(S), \A i \in S : f[i] = e[i].size
    PROVE  WeightIn(e, S) = SumOver(f, S)
  <1> DEFINE Solves(g) == g = [s \in SUBSET S |-> IF s = {} THEN 0 ELSE e[First(s)].size + g[s \ {First(s)}]]
             g == CHOOSE g : Solves(g)
  <1>1. WeightIn(e, S) = g[S]
    BY DEF WeightIn, MapThenSumSet, MapThenFoldSet, First
  <1>2. \A s \in SUBSET S : s # {} => f[First(s)] = e[First(s)].size
    BY FirstIn
  <1>3. ASSUME NEW h PROVE Solves(h) <=> Unrolls(f, S, h)
    <2>1. [s \in SUBSET S |-> IF s = {} THEN 0 ELSE f[First(s)] + h[s \ {First(s)}]]
            = [s \in SUBSET S |-> IF s = {} THEN 0 ELSE e[First(s)].size + h[s \ {First(s)}]]
      BY <1>2
    <2> QED
      BY <2>1 DEF Unrolls
  <1> HIDE DEF Solves
  <1>4. \E h : Solves(h)
    BY <1>3, SumExists
  <1>5. Solves(g)
    BY <1>4
  <1>6. S \in SUBSET S /\ Unrolls(f, S, g)
    BY <1>3, <1>5
  <1> HIDE DEF g
  <1> QED
    BY <1>1, <1>6, SumSolves

Weighable(e, S) == IsFiniteSet(S) /\ \A i \in S : e[i].size \in Nat

LEMMA WeightType ==
    ASSUME NEW e, NEW S, Weighable(e, S)
    PROVE  WeightIn(e, S) \in Nat
  <1> DEFINE f == [i \in S |-> e[i].size]
  <1>1. IsFiniteSet(S) /\ \A i \in S : f[i] = e[i].size /\ f[i] \in Nat
    BY DEF Weighable
  <1> HIDE DEF f
  <1> QED
    BY <1>1, WeightIsSum, SumType

LEMMA WeightRemove ==
    ASSUME NEW e, NEW S, Weighable(e, S), NEW i \in S
    PROVE  /\ WeightIn(e, S) = e[i].size + WeightIn(e, S \ {i})
           /\ Weighable(e, S \ {i})
  <1> DEFINE f == [x \in S |-> e[x].size]
  <1>1. IsFiniteSet(S) /\ \A x \in S : f[x] = e[x].size /\ f[x] \in Nat
    BY DEF Weighable
  <1> HIDE DEF f
  <1>2. IsFiniteSet(S \ {i})
    BY <1>1, FS_RemoveElement
  <1>3. WeightIn(e, S) = SumOver(f, S) /\ WeightIn(e, S \ {i}) = SumOver(f, S \ {i})
    BY <1>1, <1>2, WeightIsSum
  <1>4. SumOver(f, S) = f[i] + SumOver(f, S \ {i})
    BY <1>1, SumRemove
  <1> QED
    BY <1>1, <1>2, <1>3, <1>4 DEF Weighable

LEMMA WeightSame ==
    ASSUME NEW e, NEW d, NEW S, Weighable(e, S), \A i \in S : d[i] = e[i]
    PROVE  WeightIn(d, S) = WeightIn(e, S) /\ Weighable(d, S)
  <1> DEFINE f == [x \in S |-> e[x].size]
  <1>1. IsFiniteSet(S) /\ \A x \in S : f[x] = e[x].size /\ f[x] = d[x].size
    BY DEF Weighable
  <1> HIDE DEF f
  <1> QED
    BY <1>1, WeightIsSum DEF Weighable

LEMMA WeightAdd ==
    ASSUME NEW e, NEW d, NEW S, Weighable(e, S), \A x \in S : d[x] = e[x],
           NEW i, i \notin S, d[i].size \in Nat
    PROVE  /\ WeightIn(d, S \cup {i}) = d[i].size + WeightIn(e, S)
           /\ Weighable(d, S \cup {i})
  <1>1. IsFiniteSet(S \cup {i}) /\ Weighable(d, S \cup {i})
    BY FS_AddElement DEF Weighable
  <1>2. i \in S \cup {i} /\ (S \cup {i}) \ {i} = S
    OBVIOUS
  <1>3. WeightIn(d, S \cup {i}) = d[i].size + WeightIn(d, S)
    BY <1>1, <1>2, WeightRemove
  <1> QED
    BY <1>1, <1>3, WeightSame

(* The counters, for sets that change by one message of connection d.       *)
LEMMA LiveWeighs ==
    ASSUME TypeOK
    PROVE  Weighable(entry, live) /\ \A c \in Conns : Weighable(entry, OfConn(c))
  <1>1. \A i \in live : entry[i].size \in Nat
    BY KeyOfType DEF TypeOK
  <1> QED
    BY <1>1, LiveIsFinite DEF Weighable, Finite, OfConn

BytesAre(b, cb, e, L) ==
    /\ b = WeightIn(e, L)
    /\ \A c \in Conns : cb[c] = WeightIn(e, {i \in L : e[i].conn = c})

LEMMA BytesExactIs == BytesExact <=> BytesAre(bytes, connBytes, entry, live)
  BY DEF BytesExact, BytesAre, Weight, WeightIn

LEMMA BytesExactNext == BytesExact' <=> BytesAre(bytes', connBytes', entry', live')
  <1>1. BytesExact' <=> BytesAre(bytes, connBytes, entry, live)'
    BY BytesExactIs, PTL
  <1> QED
    BY <1>1

(* In n there is one message more than in e: i, of connection d, z bytes.    *)
OneMore(n, e, L, i, d, z) ==
    /\ i \notin L /\ \A x \in L : n[x] = e[x]
    /\ n[i].conn = d /\ n[i].size = z

LEMMA BytesAdd ==
    ASSUME NEW b \in Int, NEW cb \in [Conns -> Int], NEW e, NEW L, BytesAre(b, cb, e, L), Weighable(e, L),
           NEW n, NEW i, NEW d \in Conns, NEW z \in Nat, OneMore(n, e, L, i, d, z)
    PROVE  /\ BytesAre(b + z, [cb EXCEPT ![d] = @ + z], n, L \cup {i})
           /\ Weighable(n, L \cup {i})
  <1>0. i \notin L /\ (\A x \in L : n[x] = e[x]) /\ n[i].conn = d /\ n[i].size = z
    BY DEF OneMore
  <1>1. WeightIn(n, L \cup {i}) = z + WeightIn(e, L) /\ Weighable(n, L \cup {i})
    BY <1>0, WeightAdd
  <1>2. b + z = WeightIn(n, L \cup {i})
    BY <1>1, WeightType DEF BytesAre
  <1>3. ASSUME NEW c \in Conns
        PROVE  [cb EXCEPT ![d] = @ + z][c] = WeightIn(n, {x \in L \cup {i} : n[x].conn = c})
    <2> DEFINE S == {x \in L : e[x].conn = c}
               T == {x \in L \cup {i} : n[x].conn = c}
    <2>1. Weighable(e, S) /\ i \notin S /\ \A x \in S : n[x] = e[x]
      <3>1. IsFiniteSet(S)
        BY FS_Subset DEF Weighable
      <3> QED
        BY <1>0, <3>1 DEF Weighable
    <2>2. cb[c] = WeightIn(e, S) /\ WeightIn(e, S) \in Nat
      BY <1>3, <2>1, WeightType DEF BytesAre
    <2>3. T = IF c = d THEN S \cup {i} ELSE S
      BY <1>0
    <2> HIDE DEF S, T
    <2>4. CASE c = d
      <3>1. WeightIn(n, S \cup {i}) = z + WeightIn(e, S)
        BY <1>0, <2>1, WeightAdd
      <3>2. WeightIn(n, T) = z + WeightIn(e, S) /\ [cb EXCEPT ![d] = @ + z][c] = cb[c] + z
        BY <2>3, <2>4, <3>1
      <3> QED
        BY <2>2, <3>2 DEF T
    <2>5. CASE c # d
      <3>1. WeightIn(n, T) = WeightIn(e, S) /\ [cb EXCEPT ![d] = @ + z][c] = cb[c]
        BY <2>1, <2>3, <2>5, WeightSame
      <3> QED
        BY <2>2, <3>1 DEF T
    <2> QED
      BY <2>4, <2>5
  <1> QED
    BY <1>1, <1>2, <1>3 DEF BytesAre

LEMMA BytesRemove ==
    ASSUME NEW b \in Int, NEW cb \in [Conns -> Int], NEW e, NEW L, BytesAre(b, cb, e, L), Weighable(e, L),
           NEW i \in L, NEW d \in Conns, NEW z, e[i].conn = d, e[i].size = z
    PROVE  /\ BytesAre(b + (-z), [cb EXCEPT ![d] = @ + (-z)], e, L \ {i})
           /\ Weighable(e, L \ {i})
           /\ b + (-z) \in Int /\ b + (-z) <= b
  <1>1. WeightIn(e, L) = z + WeightIn(e, L \ {i}) /\ Weighable(e, L \ {i})
    BY WeightRemove
  <1>2. z \in Nat /\ WeightIn(e, L \ {i}) \in Nat /\ b = WeightIn(e, L)
    BY <1>1, WeightType DEF BytesAre, Weighable
  <1>3. b + (-z) = WeightIn(e, L \ {i}) /\ b + (-z) \in Int /\ b + (-z) <= b
    BY <1>1, <1>2
  <1>4. ASSUME NEW c \in Conns
        PROVE  [cb EXCEPT ![d] = @ + (-z)][c] = WeightIn(e, {x \in L \ {i} : e[x].conn = c})
    <2> DEFINE S == {x \in L : e[x].conn = c}
               T == {x \in L \ {i} : e[x].conn = c}
    <2>1. Weighable(e, S)
      <3>1. IsFiniteSet(S)
        BY FS_Subset DEF Weighable
      <3> QED
        BY <3>1 DEF Weighable
    <2>2. cb[c] = WeightIn(e, S) /\ WeightIn(e, S) \in Nat
      BY <1>4, <2>1, WeightType DEF BytesAre
    <2>3. (c = d => i \in S /\ T = S \ {i}) /\ (c # d => T = S)
      OBVIOUS
    <2> HIDE DEF S, T
    <2>4. CASE c = d
      <3>1. WeightIn(e, S) = z + WeightIn(e, S \ {i}) /\ WeightIn(e, S \ {i}) \in Nat
        BY <2>1, <2>3, <2>4, WeightRemove, WeightType
      <3>2. [cb EXCEPT ![d] = @ + (-z)][c] = cb[c] + (-z)
        BY <2>4
      <3>3. cb[c] + (-z) = WeightIn(e, S \ {i})
        BY <1>2, <2>2, <3>1
      <3> QED
        BY <2>3, <2>4, <3>2, <3>3 DEF T
    <2>5. CASE c # d
      <3>1. WeightIn(e, T) = WeightIn(e, S) /\ [cb EXCEPT ![d] = @ + (-z)][c] = cb[c]
        BY <2>3, <2>5
      <3> QED
        BY <2>2, <3>1 DEF T
    <2> QED
      BY <2>4, <2>5
  <1> QED
    BY <1>1, <1>3, <1>4 DEF BytesAre

(* The bytes are exact, and the shard is over its budget only while Append  *)
(* is evicting.                                                             *)
BytesInv == BytesExact /\ (lock # "append" => bytes <= MaxBytes)

LEMMA BytesAppendRecord ==
    ASSUME IInv, BytesExact, AppendRecord
    PROVE  BytesExact'
  <1>1. PICK k \in Keys, z \in Sizes : PushRecord(k, z)
    BY DEF AppendRecord
  <1>2. PICK i : i = Len(entry) + 1
    OBVIOUS
  <1>3. /\ TypeOK /\ RingOK(k) /\ dropping = {} /\ k[1] \in Conns
    BY DEF IInv, InStep, DropsAreLocked, AppendRecord, Keys
  <1>4. /\ Len(entry) \in Nat /\ live \subseteq 1..Len(entry)
        /\ \A x \in 1..Len(entry) : entry'[x] = entry[x]
        /\ entry'[i] = [conn |-> k[1], subject |-> k[2], size |-> z]
    BY <1>1, <1>2, <1>3, PushType DEF TypeOK
  <1>5. /\ i \notin live /\ entry'[i].conn = k[1] /\ entry'[i].size = z /\ z \in Nat
        /\ \A x \in live : entry'[x] = entry[x]
    BY <1>2, <1>4, ShardAssumption
  <1>6. /\ bytes \in Int /\ connBytes \in [Conns -> Int]
        /\ BytesAre(bytes, connBytes, entry, live) /\ Weighable(entry, live)
    BY <1>3, LiveWeighs, BytesExactIs DEF TypeOK
  <1>7. /\ BytesAre(bytes + z, [connBytes EXCEPT ![k[1]] = @ + z], entry', live \cup {i})
        /\ Weighable(entry', live \cup {i})
    <2>1. PICK n : n = entry'
      OBVIOUS
    <2>2. PICK d \in Conns : d = k[1]
      BY <1>3
    <2>3. OneMore(n, entry, live, i, d, z)
      BY <1>5, <2>1, <2>2 DEF OneMore
    <2>4. z \in Nat
      BY <1>5
    <2>5. /\ BytesAre(bytes + z, [connBytes EXCEPT ![d] = @ + z], n, live \cup {i})
          /\ Weighable(n, live \cup {i})
      BY <1>6, <2>3, <2>4, BytesAdd
    <2> QED
      BY <2>1, <2>2, <2>5
  <1>8. CASE Room(k)
    <2>1. live' = live \cup {i}
      BY <1>1, <1>2, <1>3, <1>8, PushRing
    <2>2. bytes' = bytes + z /\ connBytes' = [connBytes EXCEPT ![k[1]] = @ + z]
      BY <1>1, <1>8 DEF PushRecord, Account
    <2> QED
      BY <1>7, <2>1, <2>2, BytesExactNext
  <1>9. CASE ~Room(k)
    <2>1. /\ buf[k] # <<>> /\ buf[k] \in Seq(1..Len(entry))
          /\ live' = (live \cup {i}) \ {Head(buf[k])}
          /\ Head(Append(buf[k], Len(entry) + 1)) = Head(buf[k])
      BY <1>1, <1>2, <1>3, <1>9, PushRing, HeadTailProperties, AppendProperties
    <2>2. PICK old : old = Head(buf[k])
      OBVIOUS
    <2>3. old \in Elems(buf[k])
      BY <1>3, <1>4, <2>1, <2>2, TailAscending DEF RingOK
    <2>4. old \in live /\ KeyOf(old) = k
      BY <1>3, <2>3 DEF RingOK
    <2>5. entry'[old].conn = k[1] /\ entry'[old] = entry[old] /\ old \in live \cup {i}
      BY <1>5, <2>4 DEF KeyOf
    <2>6. PICK y : y = entry'[old].size
      OBVIOUS
    <2>7. y \in Nat
      BY <1>3, <2>4, <2>5, <2>6, KeyOfType DEF TypeOK
    <2>8. /\ BytesAre((bytes + z) + (-y), [[connBytes EXCEPT ![k[1]] = @ + z] EXCEPT ![k[1]] = @ + (-y)],
                      entry', (live \cup {i}) \ {old})
      <3>1. bytes + z \in Int /\ [connBytes EXCEPT ![k[1]] = @ + z] \in [Conns -> Int]
        BY <1>3, <1>5, <1>6
      <3> QED
        BY <1>3, <1>7, <2>5, <2>6, <3>1, BytesRemove
    <2>9. Account(k[1], z - y, 0)
      BY <1>1, <1>9, <2>1, <2>2, <2>6 DEF PushRecord
    <2>10. bytes' = (bytes + z) + (-y)
      BY <1>5, <1>6, <2>7, <2>9 DEF Account
    <2>11. connBytes' = [[connBytes EXCEPT ![k[1]] = @ + z] EXCEPT ![k[1]] = @ + (-y)]
      <3>1. connBytes' = [connBytes EXCEPT ![k[1]] = @ + (z - y)]
        BY <2>9 DEF Account
      <3>2. PICK d \in Conns : d = k[1]
        BY <1>3
      <3>3. PICK n \in Int : n = connBytes[d]
        BY <1>6, <3>2
      <3>4. n + (z - y) = (n + z) + (-y)
        BY <1>5, <2>7, <3>3
      <3>5. \A c \in Conns :
              [connBytes EXCEPT ![d] = @ + (z - y)][c] =
                [[connBytes EXCEPT ![d] = @ + z] EXCEPT ![d] = @ + (-y)][c]
        BY <1>6, <3>2, <3>3, <3>4
      <3> QED
        BY <1>6, <3>1, <3>2, <3>5
    <2>12. live' = (live \cup {i}) \ {old}
      BY <2>1, <2>2
    <2> QED
      BY <2>8, <2>10, <2>11, <2>12, BytesExactNext
  <1> QED
    BY <1>8, <1>9

(* An eviction or a drop kills one message. *)
LEMMA BytesKill ==
    ASSUME TypeOK, BytesExact, NEW i \in live, live' = live \ {i}, entry' = entry,
           Account(entry[i].conn, -entry[i].size, -1)
    PROVE  BytesExact' /\ bytes' <= bytes
  <1>1. i \in 1..Len(entry) /\ entry[i] \in Entry
    BY KeyOfType DEF TypeOK
  <1>2. PICK d \in Conns : d = entry[i].conn
    BY <1>1 DEF Entry
  <1>3. PICK z : z = entry[i].size
    OBVIOUS
  <1>4. /\ bytes \in Int /\ connBytes \in [Conns -> Int]
        /\ BytesAre(bytes, connBytes, entry, live) /\ Weighable(entry, live)
    BY LiveWeighs, BytesExactIs DEF TypeOK
  <1>5. BytesAre(bytes + (-z), [connBytes EXCEPT ![d] = @ + (-z)], entry, live \ {i}) /\ bytes + (-z) <= bytes
    BY <1>2, <1>3, <1>4, BytesRemove
  <1>6. bytes' = bytes + (-z) /\ connBytes' = [connBytes EXCEPT ![d] = @ + (-z)]
    BY <1>2, <1>3 DEF Account
  <1> QED
    BY <1>5, <1>6, BytesExactNext

LEMMA NothingWeighs ==
    ASSUME NEW e, NEW L, L = {}
    PROVE  WeightIn(e, L) = 0
  <1> DEFINE f == [i \in {} |-> e[i].size]
  <1>1. IsFiniteSet(L) /\ \A i \in L : f[i] = e[i].size
    BY FS_EmptySet
  <1>2. WeightIn(e, L) = SumOver(f, L) /\ SumOver(f, L) = 0
    BY <1>1, WeightIsSum, SumUnrolls
  <1> QED
    BY <1>2

LEMMA BytesNext ==
    ASSUME IInv, IInv', BytesInv, [Next]_vars
    PROVE  BytesInv'
  <1>0. TypeOK /\ BytesExact /\ bytes \in Int /\ (lock # "append" => bytes <= MaxBytes)
    BY DEF IInv, BytesInv, TypeOK
  <1>1. CASE AppendRecord
    BY <1>0, <1>1, BytesAppendRecord DEF BytesInv, AppendRecord
  <1>2. CASE EvictOldest
    <2>1. PICK old : old = fifo[fifoHead + 1]
      OBVIOUS
    <2>2. lock' = "append"
      BY <1>2 DEF EvictOldest, IInv, InStep
    <2>3. CASE old \notin live
      <3>1. UNCHANGED <<entry, live, bytes, connBytes>>
        BY <1>2, <2>1, <2>3 DEF EvictOldest
      <3> QED
        BY <1>0, <2>2, <3>1, BytesExactIs, BytesExactNext DEF BytesInv
    <2>4. CASE old \in live
      <3>1. PICK k : k = KeyOf(old)
        OBVIOUS
      <3>2. k \in Keys /\ buf[k] # <<>> /\ Head(buf[k]) = old
        BY <1>2, <2>1, <2>4, <3>1, OldestIsFirst DEF EvictOldest, OverBudget
      <3>3. /\ live' = live \ {old} /\ entry' = entry
            /\ Account(k[1], -entry[old].size, -1)
        BY <1>2, <2>1, <2>4, <3>1, <3>2 DEF EvictOldest
      <3>4. entry[old].conn = k[1]
        BY <3>1 DEF KeyOf
      <3> QED
        BY <1>0, <2>2, <2>4, <3>3, <3>4, BytesKill DEF BytesInv
    <2> QED
      BY <2>3, <2>4
  <1>3. CASE AppendDone
    <2>1. UNCHANGED <<entry, live, bytes, connBytes>> /\ ~OverBudget
      BY <1>3 DEF AppendDone
    <2>2. BytesExact'
      BY <1>0, <2>1, BytesExactIs, BytesExactNext
    <2>3. bytes <= MaxBytes
      <3>1. CASE bytes > MaxBytes
        <4>1. ~(fifoHead < Len(fifo)) /\ fifoHead \in Nat /\ Len(fifo) \in Nat
          BY <1>0, <2>1, <3>1, LenProperties DEF OverBudget, TypeOK
        <4>2. Waiting(fifo, fifoHead) = {}
          BY <4>1 DEF Waiting
        <4>3. live = {}
          BY <4>2 DEF IInv, InStep
        <4>4. bytes = 0
          BY <1>0, <4>3, BytesExactIs, NothingWeighs DEF BytesAre
        <4> QED
          BY <3>1, <4>4, ShardAssumption
      <3>2. CASE ~(bytes > MaxBytes)
        BY <1>0, <3>2, ShardAssumption
      <3> QED
        BY <3>1, <3>2
    <2> QED
      BY <2>1, <2>2, <2>3 DEF BytesInv
  <1>4. CASE Drop \/ DropSubjects \/ UNCHANGED vars
    <2>1. UNCHANGED <<entry, live, bytes, connBytes>> /\ (lock # "append" \/ lock' = lock)
      BY <1>4 DEF Drop, DropSubjects, StartDrop, vars
    <2> QED
      BY <1>0, <2>1, BytesExactIs, BytesExactNext DEF BytesInv
  <1>5. CASE KillDropped
    <2>1. PICK k \in dropping : \E p \in 1..Len(buf[k]) :
              /\ buf[k][p] \in live
              /\ live' = live \ {buf[k][p]}
              /\ Account(KeyOf(buf[k][p])[1], -entry[buf[k][p]].size, -1)
      BY <1>5 DEF KillDropped
    <2>2. PICK i \in live : live' = live \ {i} /\ Account(KeyOf(i)[1], -entry[i].size, -1)
      BY <2>1
    <2>3. KeyOf(i)[1] = entry[i].conn
      BY DEF KeyOf
    <2>4. entry' = entry /\ lock = "drop"
      BY <1>5 DEF KillDropped
    <2>5. BytesExact' /\ bytes' <= bytes
      BY <1>0, <2>2, <2>3, <2>4, BytesKill
    <2>6. bytes' \in Int
      BY DEF IInv, TypeOK
    <2> QED
      BY <1>0, <2>4, <2>5, <2>6, ShardAssumption DEF BytesInv
  <1>6. CASE DropDone
    <2>1. /\ UNCHANGED <<entry, live, bytes>> /\ lock = "drop"
          /\ connBytes' = [c \in Conns |-> IF \E k \in held' : k[1] = c THEN connBytes[c] ELSE 0]
      BY <1>6 DEF DropDone
    <2>2. ASSUME NEW c \in Conns PROVE connBytes'[c] = WeightIn(entry', {i \in live' : entry'[i].conn = c})
      <3>1. OfConn(c) = {i \in live' : entry'[i].conn = c} /\ connBytes[c] = WeightIn(entry, OfConn(c))
        BY <1>0, <2>1, <2>2, BytesExactIs DEF OfConn, BytesAre
      <3>2. CASE \E k \in held' : k[1] = c
        BY <2>1, <2>2, <3>1, <3>2
      <3>3. CASE ~ \E k \in held' : k[1] = c
        <4>1. OfConn(c) = {}
          BY <1>6, <3>3, ForgottenIsEmpty
        <4>2. connBytes'[c] = 0
          BY <2>1, <2>2, <3>3
        <4> QED
          BY <3>1, <4>1, <4>2, NothingWeighs
      <3> QED
        BY <3>2, <3>3
    <2>3. bytes' = WeightIn(entry', live')
      BY <1>0, <2>1, BytesExactIs DEF BytesAre
    <2> QED
      BY <1>0, <2>1, <2>2, <2>3, BytesExactNext DEF BytesInv, BytesAre
  <1>7. CASE Clear
    <2>1. /\ live' = {} /\ bytes' = 0 /\ connBytes' = [c \in Conns |-> 0]
      BY <1>7 DEF Clear
    <2>2. BytesExact'
      BY <2>1, BytesExactNext, NothingWeighs DEF BytesAre
    <2> QED
      BY <2>1, <2>2, ShardAssumption DEF BytesInv
  <1> QED
    BY <1>1, <1>2, <1>3, <1>4, <1>5, <1>6, <1>7 DEF Next

(* Append, dropOldest and the drops: the bytes the shard and each           *)
(* connection account for are what their live messages weigh, once Append   *)
(* has returned the shard is within its byte budget, and no subject is over *)
(* its cap.                                                                 *)
THEOREM BytesAlwaysFit == Spec => []BytesFit
  <1>1. Init => BytesInv
    <2> SUFFICES ASSUME Init PROVE BytesInv
      OBVIOUS
    <2>1. BytesAre(bytes, connBytes, entry, live)
      BY NothingWeighs DEF Init, BytesAre
    <2> QED
      BY <2>1, BytesExactIs, ShardAssumption DEF Init, BytesInv
  <1>2. IInv /\ IInv' /\ BytesInv /\ [Next]_vars => BytesInv'
    BY BytesNext
  <1>3. IInv /\ BytesInv => BytesFit
    <2> SUFFICES ASSUME IInv, BytesInv PROVE BytesFit
      OBVIOUS
    <2>1. \A k \in Keys : Len(buf[k]) <= MaxPerSubject
      BY DEF IInv, InStep, RingOK
    <2>2. lock = "free" => Weight(live) <= MaxBytes
      BY BytesExactIs DEF BytesInv, BytesExact
    <2> QED
      BY <2>1, <2>2 DEF BytesFit, BytesInv, WithinBudget
  <1> QED
    BY <1>1, <1>2, <1>3, ShardInvariant, PTL DEF Spec
-----------------------------------------------------------------------------
(* Every step of the shard is a step of BoundedHistory or leaves it alone.  *)
LEMMA AppendIsRecord ==
    ASSUME IInv, AppendRecord
    PROVE  \E k \in Keys, z \in Sizes : History!Record(k, z)
  <1>1. PICK k \in Keys, z \in Sizes : PushRecord(k, z)
    BY DEF AppendRecord
  <1>2. PICK i : i = Len(entry) + 1
    OBVIOUS
  <1>3. /\ TypeOK /\ RingOK(k) /\ dropping = {}
        /\ Kept = live /\ Kept' = live'
    BY DEF IInv, InStep, DropsAreLocked, AppendRecord, Kept
  <1>4. entry' = Append(entry, [conn |-> k[1], subject |-> k[2], size |-> z])
    BY <1>1 DEF PushRecord
  <1>5. CASE Room(k)
    <2>1. live' = live \cup {i}
      BY <1>1, <1>2, <1>3, <1>5, PushRing
    <2> QED
      BY <1>2, <1>3, <1>4, <2>1 DEF History!Record
  <1>6. CASE ~Room(k)
    <2>1. /\ buf[k] # <<>> /\ buf[k] \in Seq(1..Len(entry))
          /\ live' = (live \cup {i}) \ {Head(buf[k])}
      BY <1>1, <1>2, <1>3, <1>6, PushRing
    <2>2. PICK old : old = Head(buf[k])
      OBVIOUS
    <2>3. Len(entry) \in Nat
      BY <1>3, LenProperties DEF TypeOK
    <2>4. /\ old \in Elems(buf[k]) /\ \A x \in Elems(buf[k]) : old <= x
          /\ Elems(buf[k]) \subseteq 1..Len(entry)
      BY <1>3, <2>1, <2>2, <2>3, TailAscending, ElemsType DEF RingOK
    <2>5. History!Of(k) = Elems(buf[k])
      <3>1. History!Of(k) = {x \in live : KeyOf(x) = k}
        BY <1>3 DEF History!Of, History!KeyOf, KeyOf
      <3> QED
        BY <1>3, <3>1 DEF RingOK
    <2>6. old \in 1..Len(entry)
      BY <2>4
    <2>7. old <= i
      BY <1>2, <2>3, <2>6
    <2>8. History!Oldest(History!Of(k) \cup {i}, old)
      BY <2>4, <2>5, <2>7 DEF History!Oldest
    <2>9. old \in History!Of(k) \cup {i} /\ Kept' = (Kept \cup {i}) \ {old}
      BY <1>3, <2>1, <2>2, <2>4, <2>5
    <2> QED
      BY <1>2, <1>4, <2>8, <2>9 DEF History!Record
  <1> QED
    BY <1>1, <1>5, <1>6

LEMMA EvictIsEvict ==
    ASSUME IInv, EvictOldest
    PROVE  History!Evict \/ UNCHANGED <<entry, Kept>>
  <1>1. PICK old : old = fifo[fifoHead + 1]
    OBVIOUS
  <1>2. /\ TypeOK /\ InStep /\ lock = "append" /\ fifoHead < Len(fifo)
        /\ lock' \in {"append", "free"} /\ entry' = entry
        /\ Kept = live /\ Kept' = live'
    BY DEF IInv, EvictOldest, OverBudget, Kept
  <1>3. CASE old \notin live
    <2>1. live' = live
      BY <1>1, <1>3 DEF EvictOldest
    <2> QED
      BY <1>2, <2>1
  <1>4. CASE old \in live
    <2>1. PICK k : k = KeyOf(old)
      OBVIOUS
    <2>2. k \in Keys /\ buf[k] # <<>> /\ Head(buf[k]) = old
      BY <1>1, <1>2, <1>4, <2>1, OldestIsFirst
    <2>3. live' = live \ {old}
      BY <1>1, <1>4, <2>1, <2>2 DEF EvictOldest
    <2>4. /\ Len(entry) \in Nat /\ fifo \in Seq(0..Len(entry))
          /\ fifoHead \in 0..Len(fifo) /\ Ordered(fifo, fifoHead)
          /\ live \subseteq Waiting(fifo, fifoHead)
      BY <1>2, LenProperties DEF TypeOK, InStep
    <2>5. \A x \in live : old <= x
      BY <1>1, <1>2, <2>4, WaitingPop
    <2> QED
      BY <1>2, <1>4, <2>3, <2>5 DEF History!Evict, History!Oldest
  <1> QED
    BY <1>3, <1>4

LEMMA StartDropIsForget ==
    ASSUME IInv, NEW K \in SUBSET held, StartDrop(K)
    PROVE  \E L \in SUBSET Keys : History!Forget(L)
  <1>1. /\ UNCHANGED <<entry, live>>
        /\ lock = "free" /\ lock' = "drop" /\ dropping' = K
        /\ K \in SUBSET Keys
    BY DEF StartDrop, IInv, TypeOK
  <1>2. Kept = live /\ Kept' = {i \in live : KeyOf(i) \notin K}
    BY <1>1 DEF Kept, Doomed, KeyOf
  <1>3. History!Forget(K)
    BY <1>1, <1>2 DEF History!Forget, History!KeyOf, KeyOf
  <1> QED
    BY <1>1, <1>3

LEMMA KillIsHidden ==
    ASSUME IInv, KillDropped
    PROVE  UNCHANGED <<entry, Kept>>
  <1>1. /\ UNCHANGED <<entry, buf, dropping>> /\ lock = "drop" /\ lock' = "drop"
        /\ TypeOK /\ InStep
    BY DEF KillDropped, IInv
  <1>2. PICK k \in dropping : \E p \in 1..Len(buf[k]) : live' = live \ {buf[k][p]}
    BY DEF KillDropped
  <1>3. PICK i \in Elems(buf[k]) : live' = live \ {i}
    BY <1>2 DEF Elems
  <1>4. KeyOf(i) \in dropping
    <2>1. k \in Keys /\ RingOK(k)
      BY <1>1 DEF InStep, TypeOK
    <2> QED
      BY <1>2, <1>3, <2>1 DEF RingOK
  <1>5. Kept = {x \in live : KeyOf(x) \notin dropping}
    BY <1>1 DEF Kept, Doomed
  <1>6. Kept' = {x \in live' : KeyOf(x) \notin dropping}
    BY <1>1 DEF Kept, Doomed, KeyOf
  <1> QED
    BY <1>1, <1>3, <1>4, <1>5, <1>6

LEMMA DropDoneIsHidden ==
    ASSUME IInv, DropDone
    PROVE  UNCHANGED <<entry, Kept>>
  <1>1. /\ UNCHANGED <<entry, live>> /\ lock = "drop" /\ lock' = "free"
        /\ \A k \in dropping : \A p \in 1..Len(buf[k]) : buf[k][p] \notin live
        /\ TypeOK /\ InStep
    BY DEF DropDone, IInv
  <1>2. ASSUME NEW i \in live, KeyOf(i) \in dropping PROVE FALSE
    <2>1. PICK k : k = KeyOf(i)
      OBVIOUS
    <2>2. k \in Keys /\ RingOK(k)
      BY <1>1, <1>2, <2>1 DEF InStep, TypeOK
    <2>3. i \in Elems(buf[k])
      BY <2>1, <2>2 DEF RingOK
    <2> QED
      BY <1>1, <1>2, <2>1, <2>3 DEF Elems
  <1>3. Kept = live /\ Kept' = live'
    BY <1>1, <1>2 DEF Kept, Doomed
  <1> QED
    BY <1>1, <1>3

LEMMA ClearIsForget ==
    ASSUME IInv, Clear
    PROVE  \E L \in SUBSET Keys : History!Forget(L)
  <1>1. entry' = entry /\ live' = {} /\ lock = "free" /\ lock' = "free"
    BY DEF Clear
  <1>2. Kept = live /\ Kept' = {}
    BY <1>1 DEF Kept
  <1>3. \A i \in live : KeyOf(i) \in Keys
    BY KeyOfType DEF IInv, TypeOK
  <1>4. History!Forget(Keys)
    BY <1>1, <1>2, <1>3 DEF History!Forget, History!KeyOf, KeyOf
  <1> QED
    BY <1>4

(* The shard implements the bounded history: whatever it gives up is the    *)
(* oldest it has, or the oldest of the subject that is full.                *)
THEOREM ShardImplementsHistory == Spec => KeepsTheNewest
  <1>1. Init => History!Init
    BY DEF Init, History!Init, Kept
  <1>2. IInv /\ [Next]_vars => [History!Next]_(History!vars)
    <2> SUFFICES ASSUME IInv, [Next]_vars
                 PROVE  History!Next \/ UNCHANGED <<entry, Kept>>
      BY DEF History!vars
    <2>1. CASE AppendRecord
      BY <2>1, AppendIsRecord DEF History!Next, History!Keys, Keys
    <2>2. CASE EvictOldest
      BY <2>2, EvictIsEvict DEF History!Next
    <2>3. CASE AppendDone
      BY <2>3 DEF AppendDone, Kept
    <2>4. CASE Drop \/ DropSubjects
      <3>1. PICK K \in SUBSET held : StartDrop(K)
        <4>1. \A c \in Conns : {k \in held : k[1] = c} \in SUBSET held
          OBVIOUS
        <4>2. \A c \in Conns, S \in SUBSET Subjects : {k \in held : k[1] = c /\ k[2] \in S} \in SUBSET held
          OBVIOUS
        <4> QED
          BY <2>4, <4>1, <4>2 DEF Drop, DropSubjects
      <3> QED
        BY <3>1, StartDropIsForget DEF History!Next, History!Keys, Keys
    <2>5. CASE KillDropped
      BY <2>5, KillIsHidden
    <2>6. CASE DropDone
      BY <2>6, DropDoneIsHidden
    <2>7. CASE Clear
      BY <2>7, ClearIsForget DEF History!Next, History!Keys, Keys
    <2>8. CASE UNCHANGED vars
      BY <2>8 DEF vars, Kept, Doomed, KeyOf
    <2> QED
      BY <2>1, <2>2, <2>3, <2>4, <2>5, <2>6, <2>7, <2>8 DEF Next
  <1> QED
    BY <1>1, <1>2, ShardInvariant, PTL DEF Spec, KeepsTheNewest, History!Spec
=============================================================================
