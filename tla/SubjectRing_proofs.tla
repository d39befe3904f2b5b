------------------------- MODULE SubjectRing_proofs -------------------------
(* For every capacity, shrink threshold and length: the ring that holds a   *)
(* subject's messages is a first-in first-out queue. TLC checks the same    *)
(* refinement for a small ring (MCSubjectRing.cfg); the proof covers the    *)
(* sizes the server uses.                                                   *)
EXTENDS SubjectRing, SequenceTheorems, TLAPS

(* An index less than two turns ahead wraps at most once. *)
LEMMA WrapValue ==
    ASSUME NEW c \in Nat \ {0}, NEW i \in Nat, i < 2 * c
    PROVE  /\ Wrap(i, c) = IF i < c THEN i ELSE i - c
           /\ Wrap(i, c) \in 0..(c - 1)
  BY DEF Wrap

(* A sequence that has q's elements and then e is Append(q, e). *)
LEMMA AppendByIndex ==
    ASSUME NEW S, NEW q \in Seq(S), NEW e \in S, NEW r \in Seq(S),
           Len(r) = Len(q) + 1,
           r[Len(q) + 1] = e,
           \A i \in 1..Len(q) : r[i] = q[i]
    PROVE  r = Append(q, e)
  <1>1. /\ Append(q, e) \in Seq(S)
        /\ Len(Append(q, e)) = Len(q) + 1
        /\ Append(q, e)[Len(q) + 1] = e
        /\ \A i \in 1..Len(q) : Append(q, e)[i] = q[i]
    BY AppendProperties
  <1>2. \A i \in 1..Len(r) : r[i] = Append(q, e)[i]
    BY <1>1, LenProperties
  <1> QED
    BY <1>1, <1>2, SeqEqual

(* Two different positions of the ring are two different slots. *)
LEMMA SlotsDiffer ==
    ASSUME NEW c \in Nat \ {0}, NEW h \in 0..(c - 1),
           NEW i \in 0..(c - 1), NEW j \in 0..(c - 1), i # j
    PROVE  Wrap(h + i, c) # Wrap(h + j, c)
  <1>1. Wrap(h + i, c) = IF h + i < c THEN h + i ELSE h + i - c
    BY WrapValue
  <1>2. Wrap(h + j, c) = IF h + j < c THEN h + j ELSE h + j - c
    BY WrapValue
  <1> QED
    BY <1>1, <1>2

(* Advancing the head by one shifts every position by one. *)
LEMMA NextSlot ==
    ASSUME NEW c \in Nat \ {0}, NEW h \in 0..(c - 1), NEW i \in 0..(c - 2)
    PROVE  Wrap(Wrap(h + 1, c) + i, c) = Wrap(h + (i + 1), c)
  <1>1. Wrap(h + 1, c) = IF h + 1 < c THEN h + 1 ELSE 0
    BY WrapValue
  <1>2. Wrap(h + (i + 1), c) = IF h + (i + 1) < c THEN h + (i + 1) ELSE h + (i + 1) - c
    BY WrapValue
  <1>3. Wrap(Wrap(h + 1, c) + i, c) =
            IF Wrap(h + 1, c) + i < c THEN Wrap(h + 1, c) + i ELSE Wrap(h + 1, c) + i - c
    BY <1>1, WrapValue
  <1> QED
    BY <1>1, <1>2, <1>3

-----------------------------------------------------------------------------
(* Rings as values: what one push, one pop and one reallocation do to the   *)
(* entries a ring lists and to the slots it fills.                          *)
Slot == Entry \cup {Nil}

Ring(its, h, c, k) ==
    /\ c \in Nat
    /\ h \in Nat
    /\ c > 0 => h < c
    /\ c = 0 => h = 0
    /\ k \in 0..c
    /\ its \in [0..(c - 1) -> Slot]
    /\ Filled(its, h, c, k)

LEMMA RingType ==
    ASSUME NEW its, NEW h, NEW c, NEW k, Ring(its, h, c, k)
    PROVE  /\ c \in Nat /\ h \in Nat /\ k \in Nat /\ k <= c
           /\ c > 0 => h < c
           /\ c = 0 => h = 0
           /\ its \in [0..(c - 1) -> Slot]
           /\ \A i \in 0..(c - 1) : Wrap(h + i, c) \in 0..(c - 1)
           /\ \A i \in 0..(c - 1) : its[i] # Nil <=> \E j \in 0..(k - 1) : Wrap(h + j, c) = i
  <1>1. /\ c \in Nat /\ h \in Nat /\ k \in Nat /\ k <= c
        /\ c > 0 => h < c
        /\ c = 0 => h = 0
        /\ its \in [0..(c - 1) -> Slot]
        /\ \A i \in 0..(c - 1) : its[i] # Nil <=> \E j \in 0..(k - 1) : Wrap(h + j, c) = i
    BY DEF Ring, Filled
  <1>2. \A i \in 0..(c - 1) : Wrap(h + i, c) \in 0..(c - 1)
    BY <1>1, WrapValue
  <1> QED
    BY <1>1, <1>2

LEMMA LiveEntries ==
    ASSUME NEW its, NEW h, NEW c, NEW k, Ring(its, h, c, k)
    PROVE  \A i \in 0..(k - 1) : its[Wrap(h + i, c)] \in Entry
  <1> TAKE i \in 0..(k - 1)
  <1>1. /\ c \in Nat /\ i \in 0..(c - 1)
        /\ its \in [0..(c - 1) -> Slot]
    BY RingType
  <1>2. Wrap(h + i, c) \in 0..(c - 1)
    BY <1>1, RingType
  <1>3. its[Wrap(h + i, c)] # Nil
    BY <1>2, RingType
  <1> QED
    BY <1>1, <1>2, <1>3 DEF Slot

LEMMA ListedIsSeq ==
    ASSUME NEW its, NEW h, NEW c, NEW k, Ring(its, h, c, k)
    PROVE  /\ Listed(its, h, c, k) \in Seq(Entry)
           /\ Len(Listed(its, h, c, k)) = k
           /\ \A i \in 1..k : Listed(its, h, c, k)[i] = its[Wrap(h + (i - 1), c)]
  <1>1. k \in Nat
    BY RingType
  <1>2. \A i \in 1..k : its[Wrap(h + (i - 1), c)] \in Entry
    <2> TAKE i \in 1..k
    <2>1. i - 1 \in 0..(k - 1)
      BY <1>1
    <2> QED
      BY <2>1, LiveEntries
  <1>3. Listed(its, h, c, k) = [i \in 1..k |-> its[Wrap(h + (i - 1), c)]]
    BY DEF Listed, At
  <1> QED
    BY <1>1, <1>2, <1>3

LEMMA PushListed ==
    ASSUME NEW its, NEW h, NEW c, NEW k, Ring(its, h, c, k), k # c, NEW e \in Entry
    PROVE  /\ Ring(Put(its, Wrap(h + k, c), e), h, c, k + 1)
           /\ Listed(Put(its, Wrap(h + k, c), e), h, c, k + 1)
                = Append(Listed(its, h, c, k), e)
  <1> DEFINE s == Wrap(h + k, c)
             new == Put(its, s, e)
  <1>1. /\ c \in Nat \ {0} /\ h \in 0..(c - 1) /\ k \in 0..(c - 1)
        /\ its \in [0..(c - 1) -> Slot]
        /\ s \in 0..(c - 1)
    <2>1. /\ c \in Nat /\ h \in Nat /\ k \in Nat /\ k <= c
          /\ c > 0 => h < c
          /\ its \in [0..(c - 1) -> Slot]
      BY RingType
    <2>2. k < c /\ c > 0
      BY ONLY k # c, <2>1
    <2>3. c \in Nat \ {0} /\ k \in 0..(c - 1)
      BY ONLY <2>1, <2>2
    <2>4. h \in 0..(c - 1)
      BY ONLY <2>1, <2>2
    <2>5. s \in 0..(c - 1)
      BY <2>3, RingType
    <2> QED
      BY ONLY <2>1, <2>3, <2>4, <2>5
  <1>2. \A j \in 0..(c - 1) : j # k => Wrap(h + j, c) # s
    BY <1>1, SlotsDiffer
  <1> HIDE DEF s
  <1>3. /\ new \in [0..(c - 1) -> Slot]
        /\ new[s] = e
        /\ \A i \in 0..(c - 1) : i # s => new[i] = its[i]
    <2>1. e \in Slot
      BY DEF Slot
    <2> QED
      BY <1>1, <2>1 DEF Put
  <1> HIDE DEF new
  <1>4. Filled(new, h, c, k + 1)
    <2> SUFFICES ASSUME NEW i \in 0..(c - 1)
                 PROVE  new[i] # Nil <=> \E j \in 0..((k + 1) - 1) : Wrap(h + j, c) = i
      BY DEF Filled
    <2>1. CASE i = s
      <3>1. k \in 0..((k + 1) - 1) /\ Wrap(h + k, c) = i
        BY <2>1, <1>1 DEF s
      <3> QED
        BY <2>1, <3>1, <1>3, RingAssumption
    <2>2. CASE i # s
      <3>1. its[i] # Nil <=> \E j \in 0..(k - 1) : Wrap(h + j, c) = i
        BY RingType
      <3>2. \A j : j \in 0..((k + 1) - 1) <=> j \in 0..(k - 1) \/ j = k
        BY <1>1
      <3> QED
        BY <2>2, <3>1, <3>2, <1>3 DEF s
    <2> QED
      BY <2>1, <2>2
  <1>5. Ring(new, h, c, k + 1)
    BY <1>1, <1>3, <1>4 DEF Ring
  <1>6. \A i \in 1..k : Listed(new, h, c, k + 1)[i] = Listed(its, h, c, k)[i]
    <2> TAKE i \in 1..k
    <2>1. i \in 1..(k + 1) /\ i - 1 \in 0..(c - 1) /\ i - 1 # k
      BY <1>1
    <2>2. Wrap(h + (i - 1), c) # s /\ Wrap(h + (i - 1), c) \in 0..(c - 1)
      BY <2>1, <1>2, RingType
    <2>3. Listed(new, h, c, k + 1)[i] = new[Wrap(h + (i - 1), c)]
      BY <2>1, <1>5, ListedIsSeq
    <2>4. Listed(its, h, c, k)[i] = its[Wrap(h + (i - 1), c)]
      BY ListedIsSeq
    <2> QED
      BY <2>2, <2>3, <2>4, <1>3
  <1>7. Listed(new, h, c, k + 1)[k + 1] = e
    <2>1. k + 1 \in 1..(k + 1) /\ (k + 1) - 1 = k
      BY <1>1
    <2>2. Listed(new, h, c, k + 1)[k + 1] = new[Wrap(h + ((k + 1) - 1), c)]
      BY <2>1, <1>5, ListedIsSeq
    <2> QED
      BY <2>1, <2>2, <1>3 DEF s
  <1>8. /\ Listed(its, h, c, k) \in Seq(Entry) /\ Len(Listed(its, h, c, k)) = k
        /\ Listed(new, h, c, k + 1) \in Seq(Entry) /\ Len(Listed(new, h, c, k + 1)) = k + 1
    BY <1>5, ListedIsSeq
  <1>9. Listed(new, h, c, k + 1) = Append(Listed(its, h, c, k), e)
    BY <1>6, <1>7, <1>8, AppendByIndex
  <1> QED
    BY <1>5, <1>9 DEF new, s

LEMMA PopListed ==
    ASSUME NEW its, NEW h, NEW c, NEW k, Ring(its, h, c, k), k # 0
    PROVE  /\ Ring(Put(its, h, Nil), Wrap(h + 1, c), c, k - 1)
           /\ Listed(its, h, c, k) # <<>>
           /\ its[h] = Head(Listed(its, h, c, k))
           /\ Listed(Put(its, h, Nil), Wrap(h + 1, c), c, k - 1)
                = Tail(Listed(its, h, c, k))
  <1> DEFINE g == Wrap(h + 1, c)
             new == Put(its, h, Nil)
  <1>1. /\ c \in Nat \ {0} /\ h \in 0..(c - 1) /\ k \in 1..c
        /\ its \in [0..(c - 1) -> Slot]
    BY RingType
  <1>2. /\ new \in [0..(c - 1) -> Slot]
        /\ new[h] = Nil
        /\ \A i \in 0..(c - 1) : i # h => new[i] = its[i]
    BY <1>1 DEF Slot, Put
  <1>3. g \in 0..(c - 1) /\ Wrap(h + 0, c) = h
    BY <1>1, WrapValue
  <1>4. \A j \in 0..(c - 2) : Wrap(g + j, c) = Wrap(h + (j + 1), c)
    BY <1>1, NextSlot
  <1>5. \A j \in 1..(c - 1) : Wrap(h + j, c) # h
    <2> TAKE j \in 1..(c - 1)
    <2>1. 0 \in 0..(c - 1) /\ j \in 0..(c - 1) /\ j # 0
      BY <1>1
    <2> QED
      BY <2>1, <1>1, <1>3, SlotsDiffer
  <1> HIDE DEF g, new
  <1>6. Filled(new, g, c, k - 1)
    <2> SUFFICES ASSUME NEW i \in 0..(c - 1)
                 PROVE  new[i] # Nil <=> \E j \in 0..((k - 1) - 1) : Wrap(g + j, c) = i
      BY DEF Filled
    <2>1. (\E j \in 0..((k - 1) - 1) : Wrap(g + j, c) = i)
             <=> \E j \in 1..(k - 1) : Wrap(h + j, c) = i
      <3>1. ASSUME NEW j \in 0..((k - 1) - 1), Wrap(g + j, c) = i
            PROVE  \E jj \in 1..(k - 1) : Wrap(h + jj, c) = i
        <4>1. j + 1 \in 1..(k - 1) /\ j \in 0..(c - 2)
          BY <1>1
        <4> QED
          BY <3>1, <4>1, <1>4
      <3>2. ASSUME NEW j \in 1..(k - 1), Wrap(h + j, c) = i
            PROVE  \E jj \in 0..((k - 1) - 1) : Wrap(g + jj, c) = i
        <4>1. j - 1 \in 0..((k - 1) - 1) /\ j - 1 \in 0..(c - 2) /\ (j - 1) + 1 = j
          BY <1>1
        <4>2. Wrap(g + (j - 1), c) = Wrap(h + j, c)
          BY <4>1, <1>4
        <4> QED
          BY <3>2, <4>1, <4>2
      <3> QED
        BY <3>1, <3>2
    <2>2. CASE i = h
      <3>1. \A j \in 1..(k - 1) : Wrap(h + j, c) # i
        BY <2>2, <1>1, <1>5
      <3> QED
        BY <2>1, <2>2, <3>1, <1>2
    <2>3. CASE i # h
      <3>1. its[i] # Nil <=> \E j \in 0..(k - 1) : Wrap(h + j, c) = i
        BY RingType
      <3>2. \A j : j \in 0..(k - 1) <=> j = 0 \/ j \in 1..(k - 1)
        BY <1>1
      <3> QED
        BY <2>1, <2>3, <3>1, <3>2, <1>2, <1>3
    <2> QED
      BY <2>2, <2>3
  <1>7. Ring(new, g, c, k - 1)
    BY <1>1, <1>2, <1>3, <1>6 DEF Ring
  <1>8. /\ Listed(its, h, c, k) \in Seq(Entry) /\ Len(Listed(its, h, c, k)) = k
        /\ Listed(new, g, c, k - 1) \in Seq(Entry) /\ Len(Listed(new, g, c, k - 1)) = k - 1
    BY <1>7, ListedIsSeq
  <1>9. Listed(its, h, c, k)[1] = its[h]
    <2>1. 1 \in 1..k /\ 1 - 1 = 0
      BY <1>1
    <2>2. Listed(its, h, c, k)[1] = its[Wrap(h + (1 - 1), c)]
      BY <2>1, ListedIsSeq
    <2> QED
      BY <2>1, <2>2, <1>3
  <1>10. \A i \in 1..(k - 1) : Listed(new, g, c, k - 1)[i] = Listed(its, h, c, k)[i + 1]
    <2> TAKE i \in 1..(k - 1)
    <2>1. /\ i - 1 \in 0..(c - 2) /\ (i - 1) + 1 = i /\ i \in 1..(c - 1) /\ i \in 0..(c - 1)
          /\ i + 1 \in 1..k /\ (i + 1) - 1 = i
      BY <1>1
    <2>2. Wrap(g + (i - 1), c) = Wrap(h + i, c)
      BY <2>1, <1>4
    <2>3. Wrap(h + i, c) # h /\ Wrap(h + i, c) \in 0..(c - 1)
      BY <2>1, <1>5, RingType
    <2>4. Listed(its, h, c, k)[i + 1] = its[Wrap(h + ((i + 1) - 1), c)]
      BY <2>1, ListedIsSeq
    <2>5. Listed(new, g, c, k - 1)[i] = new[Wrap(g + (i - 1), c)]
      BY <1>7, ListedIsSeq
    <2> QED
      BY <2>1, <2>2, <2>3, <2>4, <2>5, <1>2
  <1>11. /\ Listed(its, h, c, k) # <<>>
         /\ Head(Listed(its, h, c, k)) = Listed(its, h, c, k)[1]
    BY <1>1, <1>8
  <1>12. Listed(new, g, c, k - 1) = Tail(Listed(its, h, c, k))
    <2>1. /\ Tail(Listed(its, h, c, k)) \in Seq(Entry)
          /\ Len(Tail(Listed(its, h, c, k))) = k - 1
          /\ \A i \in 1..(k - 1) : Tail(Listed(its, h, c, k))[i] = Listed(its, h, c, k)[i + 1]
      BY <1>8, <1>11, HeadTailProperties
    <2> QED
      BY <2>1, <1>8, <1>10, SeqEqual
  <1> QED
    BY <1>7, <1>9, <1>11, <1>12 DEF new, g

LEMMA ResizeListed ==
    ASSUME NEW its, NEW h, NEW c, NEW k, Ring(its, h, c, k),
           NEW c2 \in Nat \ {0}, k <= c2
    PROVE  /\ Ring(Resize(its, h, c, k, c2), 0, c2, k)
           /\ Listed(Resize(its, h, c, k, c2), 0, c2, k) = Listed(its, h, c, k)
  <1> DEFINE new == Resize(its, h, c, k, c2)
  <1>1. k \in Nat
    BY RingType
  <1>2. new = [i \in 0..(c2 - 1) |-> IF i < k THEN its[Wrap(h + i, c)] ELSE Nil]
    BY DEF Resize, At
  <1> HIDE DEF new
  <1>3. /\ \A i \in 0..(k - 1) : i \in 0..(c2 - 1) /\ new[i] = its[Wrap(h + i, c)]
        /\ \A i \in 0..(c2 - 1) : i >= k => new[i] = Nil
    BY <1>1, <1>2
  <1>4. new \in [0..(c2 - 1) -> Slot]
    BY <1>1, <1>2, LiveEntries DEF Slot
  <1>5. \A i \in 0..(c2 - 1) : Wrap(0 + i, c2) = i
    BY WrapValue
  <1>6. Filled(new, 0, c2, k)
    <2> SUFFICES ASSUME NEW i \in 0..(c2 - 1)
                 PROVE  new[i] # Nil <=> \E j \in 0..(k - 1) : Wrap(0 + j, c2) = i
      BY DEF Filled
    <2>1. new[i] # Nil <=> i < k
      <3>1. CASE i < k
        <4>1. i \in 0..(k - 1)
          BY <3>1, <1>1
        <4> QED
          BY <3>1, <4>1, <1>3, LiveEntries, RingAssumption
      <3>2. CASE i >= k
        BY <3>2, <1>1, <1>3
      <3> QED
        BY <3>1, <3>2, <1>1
    <2>2. \A j \in 0..(k - 1) : Wrap(0 + j, c2) = j
      BY <1>3, <1>5
    <2>3. i < k <=> i \in 0..(k - 1)
      BY <1>1
    <2> QED
      BY <2>1, <2>2, <2>3
  <1>7. Ring(new, 0, c2, k)
    BY <1>1, <1>4, <1>6 DEF Ring
  <1>8. /\ Listed(its, h, c, k) \in Seq(Entry) /\ Len(Listed(its, h, c, k)) = k
        /\ Listed(new, 0, c2, k) \in Seq(Entry) /\ Len(Listed(new, 0, c2, k)) = k
    BY <1>7, ListedIsSeq
  <1>9. \A i \in 1..k : Listed(new, 0, c2, k)[i] = Listed(its, h, c, k)[i]
    <2> TAKE i \in 1..k
    <2>1. i - 1 \in 0..(k - 1) /\ i - 1 \in 0..(c2 - 1)
      BY <1>1
    <2>2. Listed(new, 0, c2, k)[i] = new[Wrap(0 + (i - 1), c2)]
      BY <1>7, ListedIsSeq
    <2>3. Listed(its, h, c, k)[i] = its[Wrap(h + (i - 1), c)]
      BY ListedIsSeq
    <2> QED
      BY <2>1, <2>2, <2>3, <1>3, <1>5
  <1>10. Listed(new, 0, c2, k) = Listed(its, h, c, k)
    BY <1>8, <1>9, SeqEqual
  <1> QED
    BY <1>7, <1>10 DEF new

-----------------------------------------------------------------------------
(* The inductive invariant: the indexes stay within the slice and the slots *)
(* filled are the n from head on. TypeOK and LiveSlotsOnly alone would not  *)
(* do: a pop relies on head being inside the slice.                         *)
RInv == Ring(items, head, cap, n) /\ out \in Slot

LEMMA RInvInit == Init => RInv /\ Contents = <<>>
  BY DEF Init, RInv, Ring, Slot, Filled, Contents, Listed

LEMMA PushStep ==
    ASSUME RInv, Push
    PROVE  RInv' /\ Queue!Push
  <1>1. PICK e \in Entry : PushInPlace(e) \/ PushGrowing(e)
    BY DEF Push
  <1>2. n' = n + 1 /\ out' = out /\ out \in Slot /\ Ring(items, head, cap, n)
    BY DEF Push, RInv
  <1>3. CASE PushInPlace(e)
    <2>1. /\ cap' = cap /\ head' = head /\ n # cap
          /\ items' = Put(items, Wrap(head + n, cap), e)
      BY <1>3 DEF PushInPlace
    <2>2. /\ Ring(items', head, cap, n + 1)
          /\ Listed(items', head, cap, n + 1) = Append(Contents, e)
      BY <1>2, <2>1, PushListed DEF Contents
    <2>3. RInv'
      BY <1>2, <2>1, <2>2 DEF RInv
    <2>4. Contents' = Append(Contents, e)
      BY <1>2, <2>1, <2>2 DEF Contents
    <2> QED
      BY <1>2, <2>3, <2>4 DEF Queue!Push
  <1>4. CASE PushGrowing(e)
    <2> DEFINE moved == Resize(items, head, cap, n, cap')
    <2>1. cap' \in Nat \ {0} /\ n <= cap' /\ n # cap' /\ head' = 0
      <3>1. n = cap /\ cap \in Nat
        BY <1>2, <1>4, RingType DEF PushGrowing
      <3> QED
        BY <1>4, <3>1, RingAssumption DEF PushGrowing, Larger
    <2>2. items' = Put(moved, Wrap(0 + n, cap'), e)
      BY <1>4 DEF PushGrowing
    <2>3. Ring(moved, 0, cap', n) /\ Listed(moved, 0, cap', n) = Contents
      BY <1>2, <2>1, ResizeListed DEF Contents
    <2> HIDE DEF moved
    <2>4. /\ Ring(items', 0, cap', n + 1)
          /\ Listed(items', 0, cap', n + 1) = Append(Contents, e)
      BY <2>1, <2>2, <2>3, PushListed
    <2>5. RInv'
      BY <1>2, <2>1, <2>4 DEF RInv
    <2>6. Contents' = Append(Contents, e)
      BY <1>2, <2>1, <2>4 DEF Contents
    <2> QED
      BY <1>2, <2>5, <2>6 DEF Queue!Push
  <1> QED
    BY <1>1, <1>3, <1>4

LEMMA PopStep ==
    ASSUME RInv, PopHead
    PROVE  RInv' /\ Queue!Pop
  <1> DEFINE g == Wrap(head + 1, cap)
  <1>1. /\ n' = n - 1 /\ out' = items[head]
        /\ n # 0 /\ Ring(items, head, cap, n)
    BY DEF PopHead, RInv
  <1>2. /\ Ring(Popped, g, cap, n - 1)
        /\ Contents # <<>>
        /\ out' = Head(Contents)
        /\ Listed(Popped, g, cap, n - 1) = Tail(Contents)
    <2>1. /\ Ring(Popped, g, cap, n - 1)
          /\ Listed(items, head, cap, n) # <<>>
          /\ items[head] = Head(Listed(items, head, cap, n))
          /\ Listed(Popped, g, cap, n - 1) = Tail(Listed(items, head, cap, n))
      BY <1>1, PopListed DEF Popped
    <2> QED
      BY <1>1, <2>1 DEF Contents
  <1>3. out' \in Slot
    BY <1>1, RingType
  <1> HIDE DEF g
  <1>4. CASE PopInPlace
    <2>1. cap' = cap /\ head' = g /\ items' = Popped
      BY <1>4 DEF PopInPlace, g
    <2> QED
      BY <1>1, <1>2, <1>3, <2>1 DEF RInv, Contents, Queue!Pop
  <1>5. CASE PopShrinking
    <2>1. /\ cap' = cap \div 2 /\ head' = 0
          /\ items' = Resize(Popped, g, cap, n - 1, cap')
      BY <1>5 DEF PopShrinking, g
    <2>2. cap' \in Nat \ {0} /\ n - 1 <= cap'
      <3>1. cap \in Nat /\ n \in Nat
        BY <1>1, RingType
      <3> QED
        BY <1>1, <1>5, <2>1, <3>1, RingAssumption DEF PopShrinking, Shrinks
    <2>3. Ring(items', 0, cap', n - 1) /\ Listed(items', 0, cap', n - 1) = Tail(Contents)
      BY <1>2, <2>1, <2>2, ResizeListed
    <2> QED
      BY <1>1, <1>2, <1>3, <2>1, <2>3 DEF RInv, Contents, Queue!Pop
  <1> QED
    BY <1>4, <1>5 DEF PopHead

LEMMA RInvStep == RInv /\ [Next]_vars => RInv' /\ [Queue!Next]_(Queue!vars)
  <1> SUFFICES ASSUME RInv, [Next]_vars
               PROVE  RInv' /\ [Queue!Next]_(Queue!vars)
    OBVIOUS
  <1>1. CASE Push
    BY <1>1, PushStep DEF Queue!Next
  <1>2. CASE PopHead
    BY <1>2, PopStep DEF Queue!Next
  <1>3. CASE UNCHANGED vars
    BY <1>3 DEF vars, RInv, Contents, Queue!vars
  <1> QED
    BY <1>1, <1>2, <1>3 DEF Next

(* subjectBuf: the head and the length stay within the slice, and the slots *)
(* in use are exactly the entries held, whatever pushes, pops and           *)
(* reallocations came before.                                               *)
THEOREM RingSafe == Spec => [](TypeOK /\ LiveSlotsOnly)
  <1>1. RInv => TypeOK /\ LiveSlotsOnly
    BY DEF RInv, Ring, TypeOK, LiveSlotsOnly, Larger, Slot
  <1> QED
    BY RInvInit, RInvStep, <1>1, PTL DEF Spec

(* subjectBuf: the slice, its head and its length are never out of bounds   *)
(* of each other, so no push and no popHead indexes outside the slice.      *)
THEOREM RingTypes == Spec => []TypeOK
  BY RingSafe, PTL

(* subjectBuf.push and popHead are the operations of a first-in first-out   *)
(* queue; at(i) reads its i-th element.                                     *)
THEOREM RingImplementsQueue == Spec => RingIsQueue
  <1>1. Init => Queue!Init
    BY RInvInit DEF Init, Queue!Init
  <1> QED
    BY <1>1, RInvInit, RInvStep, PTL DEF Spec, RingIsQueue, Queue!Spec

=============================================================================
