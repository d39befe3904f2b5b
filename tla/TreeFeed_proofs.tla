-------------------------- MODULE TreeFeed_proofs --------------------------
(* For every set of subjects, tabs, views and requests: the branches of the *)
(* aggregated tree add up, and no statistics stay unknown to it. TLC checks *)
(* the same on one branch with two subjects (MCTreeFeed).                   *)
EXTENDS TreeFeed, FiniteSums, TLAPS

-----------------------------------------------------------------------------
(* Subjects, the branches above them and what lies under them. *)
LEMMA SubjectFacts ==
    /\ IsFiniteSet(Subjects) /\ Published \subseteq Subjects
    /\ \A s \in Subjects : Above[s] \subseteq Subjects /\ s \notin Above[s]
    /\ \A s \in Subjects : \A p \in Above[s] : Above[p] \subseteq Above[s]
    /\ \A s \in Subjects : \A p, q \in Above[s] : p = q \/ p \in Above[q] \/ q \in Above[p]
  BY SubjectsAssumption

LEMMA UnderIs ==
    \A s \in Subjects :
        /\ Under[s] \subseteq Subjects /\ s \in Under[s]
        /\ \A d : d \in Under[s] <=> d \in Subjects /\ (d = s \/ s \in Above[d])
  BY DEF Under

LEMMA UnderNests ==
    \A s \in Subjects : \A d \in Under[s] : Under[d] \subseteq Under[s]
  BY SubjectFacts, UnderIs

LEMMA ChildrenAre ==
    \A s, c \in Subjects : c \in Children[s] <=> Above[c] = Above[s] \cup {s}
  <1> SUFFICES ASSUME NEW s \in Subjects, NEW c \in Subjects
               PROVE  c \in Children[s] <=> Above[c] = Above[s] \cup {s}
    OBVIOUS
  <1>1. Children[s] = {k \in Under[s] \ {s} : Above[k] = Above[s] \cup {s}}
    BY DEF Children
  <1>2. Above[c] = Above[s] \cup {s} => c \in Under[s] \ {s}
    BY SubjectFacts, UnderIs
  <1> QED
    BY <1>1, <1>2

LEMMA ChildrenBelow ==
    \A s \in Subjects : Children[s] \subseteq Under[s] \ {s} /\ Children[s] \subseteq Subjects
  BY UnderIs DEF Children

(* A set of nodes that holds every branch above its nodes. *)
Rooted(D) == D \subseteq Subjects /\ \A s \in D : Above[s] \subseteq D

(* Below a branch, a node lies under one child or is that child. *)
LEMMA UnderOneChild ==
    ASSUME NEW s \in Subjects, NEW d \in Under[s], d # s
    PROVE  \E c \in Children[s] : d \in Under[c] /\ (c = d \/ c \in Above[d])
  <1> DEFINE P == {p \in Above[d] \cup {d} : s \in Above[p]}
             N == {Cardinality(Above[p]) : p \in P}
  <1>1. d \in Subjects /\ s \in Above[d]
    BY UnderIs
  <1>2. P \subseteq Subjects /\ d \in P
    BY <1>1, SubjectFacts
  <1>3. \A p \in Subjects : IsFiniteSet(Above[p]) /\ Cardinality(Above[p]) \in Nat
    BY SubjectFacts, FS_Subset, FS_CardinalityType
  <1>4. N \in SUBSET Nat /\ N # {}
    BY <1>2, <1>3
  <1>5. PICK n \in N : \A m \in N : n <= m
    BY <1>4, LeastNumber
  <1>6. PICK c \in P : \A p \in P : Cardinality(Above[c]) <= Cardinality(Above[p])
    BY <1>5
  <1>7. c \in Subjects /\ s \in Above[c] /\ (c = d \/ c \in Above[d])
    BY <1>2
  <1>8. Above[s] \cup {s} \subseteq Above[c]
    BY <1>7, SubjectFacts
  <1>9. ASSUME NEW q \in Above[c], q # s PROVE q \in Above[s]
    <2>1. q \in Above[s] \/ s \in Above[q]
      BY <1>7, <1>9, SubjectFacts
    <2>2. ASSUME s \in Above[q] PROVE FALSE
      <3>1. q \in P /\ q \in Subjects
        BY <1>1, <1>7, <2>2, SubjectFacts
      <3>2. Above[q] \subseteq Above[c] /\ q \notin Above[q]
        BY <1>7, <3>1, SubjectFacts
      <3>3. Cardinality(Above[q]) <= Cardinality(Above[c] \ {q})
        <4>1. Above[q] \subseteq Above[c] \ {q}
          BY <3>2
        <4>2. IsFiniteSet(Above[c] \ {q})
          BY <1>3, <1>7, FS_RemoveElement
        <4> QED
          BY <4>1, <4>2, FS_Subset
      <3>4. Cardinality(Above[c] \ {q}) = Cardinality(Above[c]) - 1
        BY <1>3, <1>7, FS_RemoveElement
      <3>5. Cardinality(Above[c]) <= Cardinality(Above[q])
        BY <1>6, <3>1
      <3> QED
        BY <1>3, <1>7, <3>1, <3>3, <3>4, <3>5
    <2> QED
      BY <2>1, <2>2
  <1>10. Above[c] = Above[s] \cup {s}
    BY <1>8, <1>9
  <1> QED
    BY <1>1, <1>7, <1>10, ChildrenAre, UnderIs

LEMMA ChildrenDisjoint ==
    ASSUME NEW s \in Subjects, NEW b \in Children[s], NEW c \in Children[s], b # c
    PROVE  Under[b] \cap Under[c] = {}
  <1>1. b \in Subjects /\ c \in Subjects /\ Above[b] = Above[s] \cup {s} /\ Above[c] = Above[s] \cup {s}
    BY ChildrenAre, ChildrenBelow
  <1>2. b \notin Above[c] /\ c \notin Above[b]
    BY <1>1, SubjectFacts
  <1> SUFFICES ASSUME NEW d \in Under[b] \cap Under[c] PROVE FALSE
    OBVIOUS
  <1>3. d \in Subjects /\ (d = b \/ b \in Above[d]) /\ (d = c \/ c \in Above[d])
    BY <1>1, UnderIs
  <1> QED
    BY <1>1, <1>2, <1>3, SubjectFacts
-----------------------------------------------------------------------------
(* Sums over a branch, child by child. *)
LEMMA SumByParts ==
    ASSUME NEW f, NEW S, IsFiniteSet(S), \A x \in S : f[x] \in Nat,
           NEW K, IsFiniteSet(K), NEW P, \A k \in K : P[k] \subseteq S,
           \A j, k \in K : j # k => P[j] \cap P[k] = {},
           NEW g, \A k \in K : g[k] = SumOver(f, P[k])
    PROVE  SumOver(f, UNION {P[k] : k \in K}) = SumOver(g, K)
  <1> DEFINE All(T) == UNION {P[k] : k \in T}
             F == {T \in SUBSET K : SumOver(f, All(T)) = SumOver(g, T)}
  <1>0. \A T \in SUBSET S : IsFiniteSet(T) /\ SumOver(f, T) \in Nat
    <2> SUFFICES ASSUME NEW T \in SUBSET S PROVE IsFiniteSet(T) /\ SumOver(f, T) \in Nat
      OBVIOUS
    <2>1. IsFiniteSet(T)
      BY FS_Subset
    <2> QED
      BY <2>1, SumType
  <1>1. {} \in F
    <2>1. All({}) = {} /\ SumOver(f, {}) = 0 /\ SumOver(g, {}) = 0
      BY FS_EmptySet, SumUnrolls
    <2> QED
      BY <2>1
  <1>2. ASSUME NEW T \in SUBSET K, T # {}, \A x \in T : T \ {x} \in F PROVE T \in F
    <2>1. PICK x \in T : TRUE
      BY <1>2
    <2> DEFINE R == T \ {x}
    <2>2. IsFiniteSet(T) /\ \A k \in T : g[k] \in Nat
      BY <1>0, FS_Subset
    <2>3. SumOver(g, T) = g[x] + SumOver(g, R)
      BY <2>2, SumRemove
    <2>4. All(T) = All(R) \cup P[x] /\ All(R) \cap P[x] = {}
      OBVIOUS
    <2>5. All(R) \in SUBSET S /\ P[x] \in SUBSET S
      OBVIOUS
    <2>6. SumOver(f, All(R)) = SumOver(g, R)
      BY <1>2
    <2> HIDE DEF All, R
    <2>7. SumOver(f, All(R) \cup P[x]) = SumOver(f, All(R)) + SumOver(f, P[x])
      <3>1. IsFiniteSet(All(R)) /\ IsFiniteSet(P[x]) /\ \A y \in All(R) \cup P[x] : f[y] \in Nat
        BY <1>0, <2>5
      <3> QED
        BY <2>4, <3>1, SumUnion
    <2>8. SumOver(f, All(R)) \in Nat /\ g[x] \in Nat /\ g[x] = SumOver(f, P[x])
      BY <1>0, <2>2, <2>5
    <2>9. SumOver(f, All(T)) = SumOver(g, T)
      BY <2>3, <2>4, <2>6, <2>7, <2>8
    <2> QED
      BY <2>9
  <1> HIDE DEF F
  <1>3. K \in F
    BY <1>1, <1>2, SetInduction
  <1> QED
    BY <1>3 DEF F

(* f gives every node of D a number, g the sum of f over what lies under a child of s. *)
Weighs(f, D) == \A x \in D : f[x] \in Nat
SumsChildren(g, f, s, D) == \A c \in Children[s] \cap D : g[c] = SumOver(f, Under[c] \cap D)
AddsUp(g, f, s, D) ==
    /\ SumOver(f, Under[s] \cap D) = f[s] + SumOver(g, Children[s] \cap D)
    /\ IsFiniteSet(Children[s] \cap D)

LEMMA SumOfBranch ==
    ASSUME NEW D, Rooted(D), NEW f, Weighs(f, D), NEW s \in D, NEW g, SumsChildren(g, f, s, D)
    PROVE  AddsUp(g, f, s, D)
  <1> DEFINE K == Children[s] \cap D
             B == Under[s] \cap D
             P == [c \in K |-> Under[c] \cap D]
  <1>0. /\ \A x \in D : f[x] \in Nat
        /\ \A c \in Children[s] \cap D : g[c] = SumOver(f, Under[c] \cap D)
    BY DEF Weighs, SumsChildren
  <1>1. s \in Subjects /\ D \subseteq Subjects
    BY DEF Rooted
  <1>2. IsFiniteSet(D) /\ IsFiniteSet(K) /\ IsFiniteSet(B)
    BY <1>1, SubjectFacts, FS_Subset
  <1>3. s \in B
    BY <1>1, UnderIs
  <1>4. \A c \in K : c \in Subjects /\ P[c] \subseteq B \ {s}
    <2> SUFFICES ASSUME NEW c \in K PROVE c \in Subjects /\ P[c] \subseteq B \ {s}
      OBVIOUS
    <2>1. c \in Subjects /\ c \in Under[s] /\ Above[c] = Above[s] \cup {s}
      BY <1>1, ChildrenBelow, ChildrenAre
    <2>2. Under[c] \subseteq Under[s]
      BY <1>1, <2>1, UnderNests
    <2>3. s \notin Under[c]
      BY <1>1, <2>1, UnderIs, SubjectFacts
    <2> QED
      BY <2>1, <2>2, <2>3
  <1>5. \A b, c \in K : b # c => P[b] \cap P[c] = {}
    BY <1>1, ChildrenDisjoint
  <1>6. UNION {P[c] : c \in K} = B \ {s}
    <2>1. ASSUME NEW d \in B, d # s PROVE \E c \in K : d \in P[c]
      <3>1. PICK c \in Children[s] : d \in Under[c] /\ (c = d \/ c \in Above[d])
        BY <1>1, <2>1, UnderOneChild
      <3>2. c \in D
        BY <2>1, <3>1 DEF Rooted
      <3> QED
        BY <2>1, <3>1, <3>2
    <2>2. \A d \in B : d # s => d \in UNION {P[c] : c \in K}
      BY <2>1
    <2>3. \A d \in UNION {P[c] : c \in K} : d \in B \ {s}
      BY <1>4
    <2> QED
      BY <2>2, <2>3
  <1>7. \A c \in K : g[c] = SumOver(f, P[c]) /\ IsFiniteSet(P[c]) /\ SumOver(f, P[c]) \in Nat
    <2> SUFFICES ASSUME NEW c \in K
                 PROVE  g[c] = SumOver(f, P[c]) /\ IsFiniteSet(P[c]) /\ SumOver(f, P[c]) \in Nat
      OBVIOUS
    <2>1. g[c] = SumOver(f, P[c])
      BY <1>0
    <2>2. P[c] \in SUBSET D
      OBVIOUS
    <2> HIDE DEF P
    <2>3. IsFiniteSet(P[c])
      BY <1>2, <2>2, FS_Subset
    <2>4. \A x \in P[c] : f[x] \in Nat
      BY <1>0, <2>2
    <2> QED
      BY <2>1, <2>3, <2>4, SumType
  <1>8. B \in SUBSET D /\ \A c \in K : P[c] \subseteq D
    OBVIOUS
  <1> HIDE DEF K, B, P
  <1>9. SumOver(f, B \ {s}) = SumOver(g, K)
    BY <1>0, <1>2, <1>5, <1>6, <1>7, <1>8, SumByParts
  <1>10. SumOver(f, B) = f[s] + SumOver(f, B \ {s})
    BY <1>0, <1>2, <1>3, <1>8, SumRemove
  <1> QED
    BY <1>2, <1>9, <1>10 DEF K, B, AddsUp

(* A count of the members with a property is a sum of ones. *)
LEMMA OnesAreCounted ==
    ASSUME NEW S, IsFiniteSet(S), NEW f, \A x \in S : f[x] \in {0, 1}
    PROVE  /\ SumOver(f, S) = Cardinality({x \in S : f[x] = 1})
           /\ SumOver(f, S) \in 0..Cardinality(S)
  <1> DEFINE One(T) == {x \in T : f[x] = 1}
             F == {T \in SUBSET S : SumOver(f, T) = Cardinality(One(T))}
  <1>1. {} \in F
    <2>1. SumOver(f, {}) = 0 /\ One({}) = {} /\ Cardinality({}) = 0
      BY FS_EmptySet, SumUnrolls
    <2> QED
      BY <2>1
  <1>2. ASSUME NEW T \in SUBSET S, T # {}, \A x \in T : T \ {x} \in F PROVE T \in F
    <2>1. PICK x \in T : TRUE
      BY <1>2
    <2>2. IsFiniteSet(T) /\ \A y \in T : f[y] \in Nat
      BY FS_Subset
    <2>3. SumOver(f, T) = f[x] + SumOver(f, T \ {x})
      BY <2>2, SumRemove
    <2>4. SumOver(f, T \ {x}) = Cardinality(One(T \ {x}))
      BY <1>2
    <2>5. IsFiniteSet(One(T)) /\ Cardinality(One(T)) \in Nat
      BY <2>2, FS_Subset, FS_CardinalityType
    <2>6. CASE f[x] = 1
      <3>1. One(T \ {x}) = One(T) \ {x} /\ x \in One(T)
        BY <2>6
      <3>2. Cardinality(One(T) \ {x}) = Cardinality(One(T)) - 1
        BY <2>5, <3>1, FS_RemoveElement
      <3> HIDE DEF One
      <3>3. SumOver(f, T) = 1 + (Cardinality(One(T)) - 1)
        BY <2>3, <2>4, <2>6, <3>1, <3>2
      <3>4. SumOver(f, T) = Cardinality(One(T))
        BY <2>5, <3>3
      <3> QED
        BY <3>4
    <2>7. CASE f[x] = 0
      <3>1. One(T \ {x}) = One(T)
        BY <2>7
      <3> HIDE DEF One
      <3> QED
        BY <2>3, <2>4, <2>5, <2>7, <3>1
    <2> QED
      BY <2>6, <2>7
  <1> HIDE DEF F
  <1>3. S \in F
    BY <1>1, <1>2, SetInduction
  <1>4. Cardinality(One(S)) <= Cardinality(S) /\ Cardinality(One(S)) \in Nat /\ Cardinality(S) \in Nat
    BY FS_Subset, FS_CardinalityType
  <1> QED
    BY <1>3, <1>4 DEF F
-----------------------------------------------------------------------------
(* Trees. *)
Numbers == [count : 0..MaxCount, rate : Rate, last : Verdict]

(* The numbers of a subtree, as sums over its nodes. *)
Counts(t) == [d \in DOMAIN t |-> t[d].count]
Rates(t) == [d \in DOMAIN t |-> t[d].rate]
Ones(t) == [d \in DOMAIN t |-> IF t[d].count > 0 THEN 1 ELSE 0]
Below(t, s) == Under[s] \cap DOMAIN t

Nodes == [count : 0..MaxCount, rate : Rate, last : Verdict, total : Nat, totalRate : Nat, subjects : Nat]

(* A tree: nodes with their branches, none of them empty.                   *)
IsTree(t) ==
    /\ DOMAIN t \subseteq Subjects
    /\ \A s \in DOMAIN t : Above[s] \subseteq DOMAIN t
    /\ t \in [DOMAIN t -> Nodes]
    /\ \A s \in DOMAIN t : \E d \in Below(t, s) : t[d].count > 0

SaysItsSums(t, s) ==
    /\ t[s].total = SumOver(Counts(t), Below(t, s))
    /\ t[s].totalRate = SumOver(Rates(t), Below(t, s))
    /\ t[s].subjects = SumOver(Ones(t), Below(t, s))

LEMMA BelowIs ==
    ASSUME NEW t, IsTree(t), NEW s \in DOMAIN t
    PROVE  /\ Below(t, s) \subseteq DOMAIN t /\ s \in Below(t, s) /\ IsFiniteSet(Below(t, s))
           /\ \A d \in Below(t, s) :
                /\ Counts(t)[d] = t[d].count /\ Counts(t)[d] \in Nat
                /\ Rates(t)[d] = t[d].rate /\ Rates(t)[d] \in Nat
                /\ Ones(t)[d] = (IF t[d].count > 0 THEN 1 ELSE 0) /\ Ones(t)[d] \in {0, 1}
           /\ SumOver(Counts(t), Below(t, s)) \in Nat
           /\ SumOver(Rates(t), Below(t, s)) \in Nat
           /\ SumOver(Ones(t), Below(t, s)) \in Nat
  <1>1. Below(t, s) \subseteq DOMAIN t /\ s \in Below(t, s)
    BY UnderIs DEF Below, IsTree
  <1>2. IsFiniteSet(Below(t, s))
    <2>1. DOMAIN t \in SUBSET Subjects
      BY DEF IsTree
    <2> QED
      BY <1>1, <2>1, SubjectFacts, FS_Subset
  <1>3. \A d \in Below(t, s) : t[d].count \in Nat /\ t[d].rate \in Nat
    BY <1>1, BoundsAssumption DEF IsTree, Nodes, Rate
  <1>4. \A d \in Below(t, s) :
          /\ Counts(t)[d] = t[d].count /\ Counts(t)[d] \in Nat
          /\ Rates(t)[d] = t[d].rate /\ Rates(t)[d] \in Nat
          /\ Ones(t)[d] = (IF t[d].count > 0 THEN 1 ELSE 0) /\ Ones(t)[d] \in {0, 1}
    BY <1>1, <1>3 DEF Counts, Rates, Ones
  <1>5. \A d \in Below(t, s) : Ones(t)[d] \in Nat
    BY <1>4
  <1> QED
    BY <1>1, <1>2, <1>4, <1>5, SumType
-----------------------------------------------------------------------------
(* refresh: the nodes it works over get the sums, whatever they said before. *)
Reworked(t, dirty, f, s) ==
    IF s \in dirty THEN Summed(t[s], [c \in ChildrenIn(t, s) |-> f[c]]) ELSE t[s]

Solution(t, dirty, f) == f = [s \in DOMAIN t |-> Reworked(t, dirty, f, s)]

Saying(n, total, totalRate, subjects) ==
    [n EXCEPT !.total = total, !.totalRate = totalRate, !.subjects = subjects]

(* What a node is after the refresh. *)
Exact(t, s) ==
    Saying(t[s], SumOver(Counts(t), Below(t, s)), SumOver(Rates(t), Below(t, s)), SumOver(Ones(t), Below(t, s)))

LEMMA SummedIs ==
    ASSUME NEW n \in Nodes, NEW K, IsFiniteSet(K), NEW kids, DOMAIN kids = K,
           NEW f, NEW g, NEW h, \A c \in K : kids[c].total = f[c] /\ kids[c].totalRate = g[c] /\ kids[c].subjects = h[c]
    PROVE  Summed(n, kids) =
             Saying(n, n.count + SumOver(f, K), n.rate + SumOver(g, K), (IF n.count > 0 THEN 1 ELSE 0) + SumOver(h, K))
  <1>1. /\ FieldSum(kids, "total", K) = SumOver(f, K)
        /\ FieldSum(kids, "totalRate", K) = SumOver(g, K)
        /\ FieldSum(kids, "subjects", K) = SumOver(h, K)
    BY FieldSumIs
  <1>2. Summed(n, kids) =
          Saying(n, n.count + FieldSum(kids, "total", K), n.rate + FieldSum(kids, "totalRate", K),
                 (IF n.count > 0 THEN 1 ELSE 0) + FieldSum(kids, "subjects", K))
    BY DEF Summed, FieldSum, Saying
  <1> QED
    BY <1>1, <1>2

(* A node whose children say their sums gets its own. *)
LEMMA SummedIsExact ==
    ASSUME NEW t, IsTree(t), NEW s \in DOMAIN t, NEW f,
           \A c \in ChildrenIn(t, s) :
             /\ f[c].total = SumOver(Counts(t), Below(t, c))
             /\ f[c].totalRate = SumOver(Rates(t), Below(t, c))
             /\ f[c].subjects = SumOver(Ones(t), Below(t, c))
    PROVE  Summed(t[s], [c \in ChildrenIn(t, s) |-> f[c]]) = Exact(t, s)
  <1> DEFINE K == ChildrenIn(t, s)
             a == [c \in K |-> SumOver(Counts(t), Under[c] \cap DOMAIN t)]
             b == [c \in K |-> SumOver(Rates(t), Under[c] \cap DOMAIN t)]
             e == [c \in K |-> SumOver(Ones(t), Under[c] \cap DOMAIN t)]
             kids == [c \in K |-> f[c]]
  <1>1. Rooted(DOMAIN t) /\ t[s] \in Nodes /\ K = Children[s] \cap DOMAIN t
    BY DEF IsTree, Rooted, ChildrenIn
  <1>2. \A x \in DOMAIN t : Counts(t)[x] \in Nat /\ Rates(t)[x] \in Nat /\ Ones(t)[x] \in Nat
    BY BelowIs
  <1>3. /\ SumOver(Counts(t), Under[s] \cap DOMAIN t) = Counts(t)[s] + SumOver(a, Children[s] \cap DOMAIN t)
        /\ IsFiniteSet(Children[s] \cap DOMAIN t)
    <2>1. SumsChildren(a, Counts(t), s, DOMAIN t)
      BY <1>1 DEF SumsChildren
    <2>2. Weighs(Counts(t), DOMAIN t)
      BY <1>2 DEF Weighs
    <2> HIDE DEF a, K
    <2>3. AddsUp(a, Counts(t), s, DOMAIN t)
      BY <1>1, <2>1, <2>2, SumOfBranch
    <2> QED
      BY <2>3 DEF AddsUp
  <1>4. SumOver(Rates(t), Under[s] \cap DOMAIN t) = Rates(t)[s] + SumOver(b, Children[s] \cap DOMAIN t)
    <2>1. SumsChildren(b, Rates(t), s, DOMAIN t)
      BY <1>1 DEF SumsChildren
    <2>2. Weighs(Rates(t), DOMAIN t)
      BY <1>2 DEF Weighs
    <2> HIDE DEF b, K
    <2>3. AddsUp(b, Rates(t), s, DOMAIN t)
      BY <1>1, <2>1, <2>2, SumOfBranch
    <2> QED
      BY <2>3 DEF AddsUp
  <1>5. SumOver(Ones(t), Under[s] \cap DOMAIN t) = Ones(t)[s] + SumOver(e, Children[s] \cap DOMAIN t)
    <2>1. SumsChildren(e, Ones(t), s, DOMAIN t)
      BY <1>1 DEF SumsChildren
    <2>2. Weighs(Ones(t), DOMAIN t)
      BY <1>2 DEF Weighs
    <2> HIDE DEF e, K
    <2>3. AddsUp(e, Ones(t), s, DOMAIN t)
      BY <1>1, <2>1, <2>2, SumOfBranch
    <2> QED
      BY <2>3 DEF AddsUp
  <1>6. \A c \in K : kids[c].total = a[c] /\ kids[c].totalRate = b[c] /\ kids[c].subjects = e[c]
    BY DEF Below
  <1>7. DOMAIN kids = K /\ IsFiniteSet(K)
    BY <1>1, <1>3
  <1>8. Counts(t)[s] = t[s].count /\ Rates(t)[s] = t[s].rate /\ Ones(t)[s] = (IF t[s].count > 0 THEN 1 ELSE 0)
    BY DEF Counts, Rates, Ones
  <1> HIDE DEF K, a, b, e
  <1>9. Summed(t[s], kids) =
          Saying(t[s], t[s].count + SumOver(a, K), t[s].rate + SumOver(b, K),
                 (IF t[s].count > 0 THEN 1 ELSE 0) + SumOver(e, K))
    <2>1. \A c \in K : kids[c].total = a[c] /\ kids[c].totalRate = b[c] /\ kids[c].subjects = e[c]
      BY <1>6
    <2>2. DOMAIN kids = K /\ IsFiniteSet(K) /\ t[s] \in Nodes
      BY <1>1, <1>7
    <2> HIDE DEF kids
    <2> QED
      BY <2>1, <2>2, SummedIs
  <1>10. /\ t[s].count + SumOver(a, K) = SumOver(Counts(t), Below(t, s))
         /\ t[s].rate + SumOver(b, K) = SumOver(Rates(t), Below(t, s))
         /\ (IF t[s].count > 0 THEN 1 ELSE 0) + SumOver(e, K) = SumOver(Ones(t), Below(t, s))
    BY <1>1, <1>3, <1>4, <1>5, <1>8 DEF Below
  <1>11. Summed(t[s], kids) = Exact(t, s)
    BY <1>9, <1>10 DEF Exact
  <1> QED
    BY <1>11 DEF K

LEMMA ExactIs ==
    ASSUME NEW t, IsTree(t), NEW s \in DOMAIN t
    PROVE  /\ Exact(t, s) \in Nodes
           /\ Exact(t, s).count = t[s].count /\ Exact(t, s).rate = t[s].rate /\ Exact(t, s).last = t[s].last
           /\ Exact(t, s).total = SumOver(Counts(t), Below(t, s))
           /\ Exact(t, s).totalRate = SumOver(Rates(t), Below(t, s))
           /\ Exact(t, s).subjects = SumOver(Ones(t), Below(t, s))
  <1>1. t[s] \in Nodes
    BY DEF IsTree
  <1>2. /\ SumOver(Counts(t), Below(t, s)) \in Nat
        /\ SumOver(Rates(t), Below(t, s)) \in Nat
        /\ SumOver(Ones(t), Below(t, s)) \in Nat
    BY BelowIs
  <1> QED
    BY <1>1, <1>2 DEF Exact, Saying, Nodes

LEMMA RefreshIs ==
    ASSUME NEW t, IsTree(t), NEW dirty \in SUBSET DOMAIN t, \A s \in DOMAIN t \ dirty : SaysItsSums(t, s)
    PROVE  Refreshed(t, dirty) = [s \in DOMAIN t |-> IF s \in dirty THEN Exact(t, s) ELSE t[s]]
  <1> DEFINE g == [s \in DOMAIN t |-> IF s \in dirty THEN Exact(t, s) ELSE t[s]]
             r == CHOOSE f : Solution(t, dirty, f)
  <1>1. Refreshed(t, dirty) = r
    BY DEF Refreshed, Solution, Reworked
  <1>2. \A s \in DOMAIN t :
          /\ g[s].total = SumOver(Counts(t), Below(t, s))
          /\ g[s].totalRate = SumOver(Rates(t), Below(t, s))
          /\ g[s].subjects = SumOver(Ones(t), Below(t, s))
    BY ExactIs DEF SaysItsSums
  <1>3. ASSUME NEW f, NEW s \in DOMAIN t, \A c \in ChildrenIn(t, s) : f[c] = g[c]
        PROVE  Reworked(t, dirty, f, s) = g[s]
    <2>1. CASE s \in dirty
      <3>1. \A c \in ChildrenIn(t, s) :
              /\ f[c].total = SumOver(Counts(t), Below(t, c))
              /\ f[c].totalRate = SumOver(Rates(t), Below(t, c))
              /\ f[c].subjects = SumOver(Ones(t), Below(t, c))
        BY <1>2, <1>3 DEF ChildrenIn
      <3>2. Summed(t[s], [c \in ChildrenIn(t, s) |-> f[c]]) = Exact(t, s)
        BY <3>1, SummedIsExact
      <3> QED
        BY <2>1, <3>2 DEF Reworked
    <2>2. CASE s \notin dirty
      BY <2>2 DEF Reworked
    <2> QED
      BY <2>1, <2>2
  <1> HIDE DEF g
  <1>4. Solution(t, dirty, g)
    <2>1. \A s \in DOMAIN t : Reworked(t, dirty, g, s) = g[s]
      BY <1>3
    <2>2. g = [s \in DOMAIN t |-> g[s]]
      BY DEF g
    <2> QED
      BY <2>1, <2>2 DEF Solution
  <1>5. Solution(t, dirty, r)
    BY <1>4
  <1> HIDE DEF r
  <1>6. /\ DOMAIN r = DOMAIN t /\ \A s \in DOMAIN t : r[s] = Reworked(t, dirty, r, s)
        /\ r = [s \in DOMAIN t |-> r[s]]
    BY <1>5 DEF Solution
  <1>7. ASSUME NEW s \in DOMAIN t, r[s] # g[s],
               \A d \in DOMAIN t : r[d] # g[d] => Cardinality(Under[s]) <= Cardinality(Under[d])
        PROVE  FALSE
    <2>1. ASSUME NEW c \in ChildrenIn(t, s) PROVE r[c] = g[c]
      <3>1. s \in Subjects /\ c \in Subjects /\ c \in DOMAIN t /\ c \in Under[s] /\ s \in Above[c]
        BY ChildrenBelow, ChildrenAre DEF ChildrenIn, IsTree
      <3>2. Under[c] \subseteq Under[s] \ {s} /\ s \in Under[s]
        BY <3>1, UnderNests, UnderIs, SubjectFacts
      <3>3. IsFiniteSet(Under[s]) /\ IsFiniteSet(Under[c])
        BY <3>1, UnderIs, SubjectFacts, FS_Subset
      <3>4. /\ Cardinality(Under[s]) \in Nat /\ Cardinality(Under[c]) \in Nat
            /\ IsFiniteSet(Under[s] \ {s}) /\ Cardinality(Under[s] \ {s}) = Cardinality(Under[s]) - 1
        BY <3>2, <3>3, FS_CardinalityType, FS_RemoveElement
      <3>5. Cardinality(Under[c]) <= Cardinality(Under[s] \ {s})
        BY <3>2, <3>4, FS_Subset
      <3> QED
        BY <1>7, <3>1, <3>4, <3>5
    <2> QED
      BY <1>3, <1>6, <1>7, <2>1
  <1>8. ASSUME NEW s \in DOMAIN t PROVE r[s] = g[s]
    <2> DEFINE Off == {d \in DOMAIN t : r[d] # g[d]}
               N == {Cardinality(Under[d]) : d \in Off}
    <2> SUFFICES ASSUME Off # {} PROVE FALSE
      OBVIOUS
    <2>1. \A d \in DOMAIN t : Cardinality(Under[d]) \in Nat
      BY UnderIs, SubjectFacts, FS_Subset, FS_CardinalityType DEF IsTree
    <2>2. N \in SUBSET Nat /\ N # {}
      BY <2>1
    <2>3. PICK n \in N : \A m \in N : n <= m
      BY <2>2, LeastNumber
    <2>4. PICK d \in Off : \A e \in Off : Cardinality(Under[d]) <= Cardinality(Under[e])
      BY <2>3
    <2> QED
      BY <1>7, <2>4
  <1>9. r = g
    BY <1>6, <1>8 DEF g
  <1> QED
    BY <1>1, <1>9 DEF g

(* After a refresh every branch says its sums, and the subjects' own numbers are as before. *)
LEMMA RefreshAddsUp ==
    ASSUME NEW t, IsTree(t), NEW dirty \in SUBSET DOMAIN t, \A s \in DOMAIN t \ dirty : SaysItsSums(t, s),
           NEW r, r = Refreshed(t, dirty)
    PROVE  /\ DOMAIN r = DOMAIN t /\ IsTree(r)
           /\ \A s \in DOMAIN r : SaysItsSums(r, s)
           /\ \A s \in DOMAIN r : r[s].count = t[s].count /\ r[s].rate = t[s].rate /\ r[s].last = t[s].last
           /\ \A s \in DOMAIN r \ dirty : r[s] = t[s]
  <1>1. r = [s \in DOMAIN t |-> IF s \in dirty THEN Exact(t, s) ELSE t[s]]
    BY RefreshIs
  <1>2. DOMAIN r = DOMAIN t /\ \A s \in DOMAIN t : r[s] = IF s \in dirty THEN Exact(t, s) ELSE t[s]
    BY <1>1
  <1>3. \A s \in DOMAIN t : r[s].count = t[s].count /\ r[s].rate = t[s].rate /\ r[s].last = t[s].last /\ r[s] \in Nodes
    BY <1>2, ExactIs DEF IsTree
  <1>4. Counts(r) = Counts(t) /\ Rates(r) = Rates(t) /\ Ones(r) = Ones(t) /\ \A s : Below(r, s) = Below(t, s)
    BY <1>2, <1>3 DEF Counts, Rates, Ones, Below
  <1>5. \A s \in DOMAIN r : SaysItsSums(r, s)
    BY <1>2, <1>4, ExactIs DEF SaysItsSums
  <1>6. IsTree(r)
    <2>1. DOMAIN r \subseteq Subjects /\ \A s \in DOMAIN r : Above[s] \subseteq DOMAIN r
      BY <1>2 DEF IsTree
    <2>2. r \in [DOMAIN r -> Nodes]
      BY <1>1, <1>2, <1>3
    <2>3. \A s \in DOMAIN r : \E d \in Below(r, s) : r[d].count > 0
      BY <1>2, <1>3, <1>4 DEF IsTree, Below
    <2> QED
      BY <2>1, <2>2, <2>3 DEF IsTree
  <1> QED
    BY <1>2, <1>3, <1>5, <1>6
-----------------------------------------------------------------------------
(* The invariant. *)
Wires == UNION {[S -> WireEntry] : S \in SUBSET Subjects}
Ups == [full : BOOLEAN, entries : Wires, removed : SUBSET Subjects]
ViewStates == [wants : Views, sent : SUBSET Subjects, dirty : BOOLEAN, loaded : BOOLEAN, needFull : BOOLEAN]
Pendings == [by : {"loop"} \cup Tabs \cup Requests, up : Ups, late : SUBSET Subjects]
Steps == [step : {"idle", "shards", "emit"}, all : BOOLEAN, wanted : SUBSET Published,
          gone : SUBSET Published, left : SUBSET Shards]

Types ==
    /\ stats \in [Published -> Numbers]
    /\ changed \subseteq Published /\ active \subseteq Published /\ overtaken \subseteq Published
    /\ view \in [Tabs -> ViewStates]
    /\ inflight \in [Tabs -> Seq(Pendings)] /\ mirror \in [Tabs -> Wires]
    /\ dead \subseteq Subjects /\ revived \subseteq Subjects
    /\ damaged \in [Tabs -> SUBSET Subjects] /\ reader \in [Tabs -> BOOLEAN]
    /\ request \in [Requests -> Steps]

(* The branches outside touched say the sums of what lies under them now.   *)
TreeInv ==
    /\ IsTree(tree) /\ touched \subseteq DOMAIN tree
    /\ \A s \in DOMAIN tree \ touched : SaysItsSums(tree, s)

(* What waits or was overtaken excuses the rest from agreeing.              *)
StatsInv ==
    /\ StatsReachTheTree
    /\ \A s \in Published : stats[s].rate > 0 => s \in active

(* While a dead node is listed, every tab gets its next update as a difference. *)
DeadInv == \A c \in Tabs : dead # {} => ~Current(view[c])

FeedInv == Types /\ TreeInv /\ StatsInv /\ DeadInv
-----------------------------------------------------------------------------
(* syncTree: what is seen becomes part of the tree with its branches. *)
LEMMA ObservedIs ==
    ASSUME Types
    PROVE  /\ Observed \subseteq Published
           /\ \A s \in Observed : stats[s].count > 0
           /\ \A s \in changed : stats[s].count > 0 => s \in Observed
           /\ \A s \in active \cap DOMAIN tree : stats[s].count > 0 /\ tree[s].rate # stats[s].rate => s \in Observed
  <1>1. \A s : s \in Observed <=>
          \/ s \in changed /\ stats[s].count > 0
          \/ s \in active \ changed /\ stats[s].count > 0 /\ s \in DOMAIN tree /\ tree[s].rate # stats[s].rate
    BY DEF Observed
  <1>2. \A s \in active \cap DOMAIN tree : stats[s].count > 0 /\ tree[s].rate # stats[s].rate => s \in Observed
    BY <1>1
  <1> QED
    BY <1>1, <1>2 DEF Types

LEMMA UpFromIs ==
    ASSUME NEW S \in SUBSET Subjects
    PROVE  /\ UpFrom(S) \subseteq Subjects /\ S \subseteq UpFrom(S)
           /\ \A s \in UpFrom(S) : Above[s] \subseteq UpFrom(S)
           /\ \A s \in Subjects : s \in UpFrom(S) <=> \E d \in S : d \in Under[s]
  <1>1. \A s : s \in UpFrom(S) <=> s \in S \/ \E d \in S : s \in Above[d]
    BY DEF UpFrom
  <1> QED
    BY <1>1, SubjectFacts, UnderIs

LEMMA SyncedIs ==
    ASSUME Types, TreeInv, NEW u, u = Synced(Observed)
    PROVE  /\ DOMAIN u = DOMAIN tree \cup UpFrom(Observed)
           /\ \A s \in Observed :
                u[s].count = stats[s].count /\ u[s].rate = stats[s].rate /\ u[s].last = stats[s].last
           /\ \A s \in DOMAIN tree \ Observed : u[s] = tree[s]
           /\ \A s \in DOMAIN u : s \notin DOMAIN tree \cup Observed => u[s] = NewNode
           /\ u \in [DOMAIN u -> Nodes]
  <1> DEFINE seen == Observed
             Of(n, s) == IF s \in seen
                         THEN [n EXCEPT !.count = stats[s].count, !.rate = stats[s].rate, !.last = stats[s].last]
                         ELSE n
             Was(s) == IF s \in DOMAIN tree THEN tree[s] ELSE NewNode
  <1>1. u = [s \in DOMAIN tree \cup UpFrom(seen) |-> Of(Was(s), s)]
    BY DEF Synced
  <1>2. NewNode \in Nodes
    BY BoundsAssumption DEF NewNode, Nodes, Rate, Verdict
  <1>3. \A s : Was(s) \in Nodes
    BY <1>2 DEF TreeInv, IsTree
  <1>4. \A s \in seen : stats[s] \in Numbers
    BY ObservedIs DEF Types
  <1>5. ASSUME NEW n \in Nodes, NEW s
        PROVE  /\ Of(n, s) \in Nodes
               /\ s \in seen => Of(n, s).count = stats[s].count /\ Of(n, s).rate = stats[s].rate /\ Of(n, s).last = stats[s].last
               /\ s \notin seen => Of(n, s) = n
    BY <1>4 DEF Nodes, Numbers
  <1> HIDE DEF Of
  <1>6. DOMAIN u = DOMAIN tree \cup UpFrom(seen) /\ \A s \in DOMAIN u : u[s] = Of(Was(s), s)
    BY <1>1
  <1>7. \A s \in DOMAIN u : u[s] \in Nodes
    BY <1>3, <1>5, <1>6
  <1>8. u \in [DOMAIN u -> Nodes]
    BY <1>1, <1>6, <1>7
  <1>9. \A s \in seen :
          u[s].count = stats[s].count /\ u[s].rate = stats[s].rate /\ u[s].last = stats[s].last
    <2> SUFFICES ASSUME NEW s \in seen
                 PROVE  u[s].count = stats[s].count /\ u[s].rate = stats[s].rate /\ u[s].last = stats[s].last
      OBVIOUS
    <2>1. s \in DOMAIN u
      BY <1>6 DEF UpFrom
    <2> QED
      BY <1>3, <1>5, <1>6, <2>1
  <1>10. \A s \in DOMAIN tree \ seen : u[s] = tree[s]
    BY <1>3, <1>5, <1>6
  <1>11. \A s \in DOMAIN u : s \notin DOMAIN tree \cup seen => u[s] = NewNode
    BY <1>3, <1>5, <1>6
  <1> QED
    BY <1>6, <1>8, <1>9, <1>10, <1>11

LEMMA SyncedIsATree ==
    ASSUME Types, TreeInv, NEW u, u = Synced(Observed), NEW dirty, dirty = touched \cup UpFrom(Observed)
    PROVE  /\ IsTree(u) /\ dirty \in SUBSET DOMAIN u
           /\ \A s \in DOMAIN u \ dirty : s \in DOMAIN tree /\ u[s] = tree[s] /\ Below(u, s) = Below(tree, s) /\ SaysItsSums(u, s)
           /\ \A s \in DOMAIN u \ dirty : \A d \in Below(u, s) : u[d] = tree[d]
  <1> DEFINE seen == Observed
  <1>1. /\ DOMAIN u = DOMAIN tree \cup UpFrom(seen)
        /\ \A s \in seen : u[s].count = stats[s].count
        /\ \A s \in DOMAIN tree \ seen : u[s] = tree[s]
        /\ u \in [DOMAIN u -> Nodes]
    BY SyncedIs
  <1>2. seen \in SUBSET Subjects /\ \A s \in seen : stats[s].count > 0
    BY ObservedIs, SubjectFacts
  <1> HIDE DEF seen
  <1>3. /\ UpFrom(seen) \subseteq Subjects /\ seen \subseteq UpFrom(seen)
        /\ \A s \in UpFrom(seen) : Above[s] \subseteq UpFrom(seen)
        /\ \A s \in Subjects : s \in UpFrom(seen) <=> \E d \in seen : d \in Under[s]
    BY <1>2, UpFromIs
  <1>4. DOMAIN tree \subseteq Subjects /\ \A s \in DOMAIN tree : Above[s] \subseteq DOMAIN tree
    BY DEF TreeInv, IsTree
  <1>5. DOMAIN u \subseteq Subjects /\ \A s \in DOMAIN u : Above[s] \subseteq DOMAIN u
    BY <1>1, <1>3, <1>4
  <1>6. \A s \in DOMAIN u : \E d \in Below(u, s) : u[d].count > 0
    <2> SUFFICES ASSUME NEW s \in DOMAIN u PROVE \E d \in Below(u, s) : u[d].count > 0
      OBVIOUS
    <2>1. CASE s \in UpFrom(seen)
      <3>1. PICK d \in seen : d \in Under[s]
        BY <1>3, <2>1
      <3>2. d \in DOMAIN u /\ u[d].count > 0
        BY <1>1, <1>2, <1>3, <3>1
      <3> QED
        BY <3>1, <3>2 DEF Below
    <2>2. CASE s \notin UpFrom(seen)
      <3>1. s \in DOMAIN tree
        BY <1>1, <2>2
      <3>2. PICK d \in Below(tree, s) : tree[d].count > 0
        BY <3>1 DEF TreeInv, IsTree
      <3>3. d \notin seen /\ d \in DOMAIN tree /\ d \in Under[s]
        BY <1>3, <1>4, <2>2, <3>1, <3>2 DEF Below
      <3>4. u[d] = tree[d] /\ d \in DOMAIN u
        BY <1>1, <3>3
      <3> QED
        BY <3>2, <3>3, <3>4 DEF Below
    <2> QED
      BY <2>1, <2>2
  <1>7. IsTree(u) /\ dirty \in SUBSET DOMAIN u
    <2>1. IsTree(u)
      BY <1>1, <1>5, <1>6 DEF IsTree
    <2>2. touched \subseteq DOMAIN u /\ UpFrom(seen) \subseteq DOMAIN u
      BY <1>1 DEF TreeInv
    <2> QED
      BY <2>1, <2>2 DEF seen
  <1>8. ASSUME NEW s \in DOMAIN u \ dirty
        PROVE  /\ s \in DOMAIN tree /\ u[s] = tree[s] /\ Below(u, s) = Below(tree, s) /\ SaysItsSums(u, s)
               /\ \A d \in Below(u, s) : u[d] = tree[d]
    <2>1. s \in DOMAIN tree /\ s \notin touched /\ s \notin UpFrom(seen)
      BY <1>1 DEF seen
    <2>2. \A d \in Under[s] : d \notin seen
      BY <1>3, <1>4, <2>1
    <2>3. \A d \in Under[s] : d \notin UpFrom(seen)
      <3> SUFFICES ASSUME NEW d \in Under[s], d \in UpFrom(seen) PROVE FALSE
        OBVIOUS
      <3>1. d \in Subjects /\ Under[d] \subseteq Under[s]
        BY <1>4, <2>1, UnderIs, UnderNests
      <3>2. PICK e \in seen : e \in Under[d]
        BY <1>3, <3>1
      <3> QED
        BY <2>2, <3>1, <3>2
    <2>4. Below(u, s) = Below(tree, s)
      BY <1>1, <2>3 DEF Below
    <2>5. s \in Under[s]
      BY <1>4, <2>1, UnderIs
    <2>6. \A d \in Below(u, s) : u[d] = tree[d] /\ d \in DOMAIN tree /\ d \in DOMAIN u
      BY <1>1, <2>2, <2>4 DEF Below
    <2>7. \A d \in Below(u, s) :
             Counts(u)[d] = Counts(tree)[d] /\ Rates(u)[d] = Rates(tree)[d] /\ Ones(u)[d] = Ones(tree)[d]
      BY <2>6 DEF Counts, Rates, Ones
    <2>8. IsFiniteSet(Below(u, s))
      BY <1>7, BelowIs
    <2>9. /\ SumOver(Counts(u), Below(u, s)) = SumOver(Counts(tree), Below(u, s))
          /\ SumOver(Rates(u), Below(u, s)) = SumOver(Rates(tree), Below(u, s))
          /\ SumOver(Ones(u), Below(u, s)) = SumOver(Ones(tree), Below(u, s))
      BY <2>7, <2>8, SumSame
    <2>10. u[s] = tree[s]
      BY <1>1, <2>1, <2>2, <2>5
    <2>11. SaysItsSums(tree, s)
      BY <2>1 DEF TreeInv
    <2>12. SaysItsSums(u, s)
      BY <2>4, <2>9, <2>10, <2>11 DEF SaysItsSums
    <2> QED
      BY <2>1, <2>4, <2>6, <2>10, <2>12
  <1> QED
    BY <1>7, <1>8

(* The tree an emit leaves, and the nodes it reworks. *)
Reached == touched \cup UpFrom(Observed)
Emitted == Refreshed(Synced(Observed), Reached)

LEMMA EmittedIs ==
    ASSUME Types, TreeInv
    PROVE  /\ IsTree(Emitted) /\ DOMAIN Emitted = DOMAIN tree \cup UpFrom(Observed)
           /\ Reached \subseteq DOMAIN Emitted
           /\ \A s \in DOMAIN Emitted : SaysItsSums(Emitted, s)
           /\ \A s \in Observed :
                /\ s \in DOMAIN Emitted
                /\ Emitted[s].count = stats[s].count /\ Emitted[s].rate = stats[s].rate /\ Emitted[s].last = stats[s].last
           /\ \A s \in DOMAIN tree \ Observed :
                Emitted[s].count = tree[s].count /\ Emitted[s].rate = tree[s].rate /\ Emitted[s].last = tree[s].last
           /\ \A s \in DOMAIN Emitted \ Reached : s \in DOMAIN tree /\ Emitted[s] = tree[s] /\ Below(Emitted, s) = Below(tree, s)
  <1> DEFINE u == Synced(Observed)
             r == Emitted
  <1>1. /\ DOMAIN u = DOMAIN tree \cup UpFrom(Observed)
        /\ \A s \in Observed :
             u[s].count = stats[s].count /\ u[s].rate = stats[s].rate /\ u[s].last = stats[s].last
        /\ \A s \in DOMAIN tree \ Observed : u[s] = tree[s]
    BY SyncedIs
  <1>2. /\ IsTree(u) /\ Reached \in SUBSET DOMAIN u
        /\ \A s \in DOMAIN u \ Reached : s \in DOMAIN tree /\ u[s] = tree[s] /\ Below(u, s) = Below(tree, s) /\ SaysItsSums(u, s)
    BY SyncedIsATree DEF Reached
  <1> HIDE DEF u
  <1>3. r = Refreshed(u, Reached)
    BY DEF Emitted, u
  <1> HIDE DEF r
  <1>4. /\ DOMAIN r = DOMAIN u /\ IsTree(r)
        /\ \A s \in DOMAIN r : SaysItsSums(r, s)
        /\ \A s \in DOMAIN r : r[s].count = u[s].count /\ r[s].rate = u[s].rate /\ r[s].last = u[s].last
        /\ \A s \in DOMAIN r \ Reached : r[s] = u[s]
    BY <1>2, <1>3, RefreshAddsUp
  <1>5. Observed \subseteq UpFrom(Observed)
    BY DEF UpFrom
  <1>6. \A s \in Observed :
          s \in DOMAIN r /\ r[s].count = stats[s].count /\ r[s].rate = stats[s].rate /\ r[s].last = stats[s].last
    BY <1>1, <1>4, <1>5
  <1>7. \A s \in DOMAIN tree \ Observed :
          r[s].count = tree[s].count /\ r[s].rate = tree[s].rate /\ r[s].last = tree[s].last
    BY <1>1, <1>4
  <1>8. \A s \in DOMAIN r \ Reached : s \in DOMAIN tree /\ r[s] = tree[s] /\ Below(r, s) = Below(tree, s)
    BY <1>2, <1>4 DEF Below
  <1> QED
    BY <1>1, <1>2, <1>4, <1>6, <1>7, <1>8 DEF r
-----------------------------------------------------------------------------
(* remove: what is left are the branches with messages somewhere in them. *)
Cleared(gone) ==
    [s \in DOMAIN tree |->
        IF s \in gone THEN [tree[s] EXCEPT !.count = 0, !.rate = 0, !.last = "nil"] ELSE tree[s]]

LEMMA ClearedIs ==
    ASSUME TreeInv, NEW gone
    PROVE  /\ DOMAIN Cleared(gone) = DOMAIN tree
           /\ Cleared(gone) \in [DOMAIN tree -> Nodes]
           /\ \A s \in DOMAIN tree \cap gone :
                Cleared(gone)[s].count = 0 /\ Cleared(gone)[s].rate = 0 /\ Cleared(gone)[s].last = "nil"
           /\ \A s \in DOMAIN tree \ gone : Cleared(gone)[s] = tree[s]
  <1>1. \A s \in DOMAIN tree : tree[s] \in Nodes
    BY DEF TreeInv, IsTree
  <1>2. ASSUME NEW n \in Nodes, NEW z, z = [n EXCEPT !.count = 0, !.rate = 0, !.last = "nil"]
        PROVE  z \in Nodes /\ z.count = 0 /\ z.rate = 0 /\ z.last = "nil"
    <2>1. 0 \in 0..MaxCount /\ 0 \in Rate /\ "nil" \in Verdict
      BY BoundsAssumption DEF Rate, Verdict
    <2> QED
      BY <1>2, <2>1 DEF Nodes
  <1>3. DOMAIN Cleared(gone) = DOMAIN tree
    BY DEF Cleared
  <1>4. \A s \in DOMAIN tree \ gone : Cleared(gone)[s] = tree[s]
    BY DEF Cleared
  <1>5. ASSUME NEW s \in DOMAIN tree \cap gone
        PROVE  /\ Cleared(gone)[s] \in Nodes
               /\ Cleared(gone)[s].count = 0 /\ Cleared(gone)[s].rate = 0 /\ Cleared(gone)[s].last = "nil"
    <2>1. Cleared(gone)[s] = [tree[s] EXCEPT !.count = 0, !.rate = 0, !.last = "nil"]
      BY DEF Cleared
    <2> QED
      BY <1>1, <1>2, <2>1
  <1>6. Cleared(gone) = [s \in DOMAIN tree |-> Cleared(gone)[s]]
    BY DEF Cleared
  <1>7. \A s \in DOMAIN tree : Cleared(gone)[s] \in Nodes
    BY <1>1, <1>4, <1>5
  <1> QED
    BY <1>3, <1>4, <1>5, <1>6, <1>7

LEMMA PrunedIs ==
    ASSUME TreeInv, NEW gone, NEW u, u = Cleared(gone), NEW r, r = Pruned(gone)
    PROVE  /\ \A s : s \in DOMAIN r <=> s \in DOMAIN tree /\ \E d \in Below(tree, s) \ gone : tree[d].count > 0
           /\ \A s \in DOMAIN r : r[s] = u[s]
           /\ r \in [DOMAIN r -> Nodes]
  <1> DEFINE live == {s \in DOMAIN u : \E d \in Under[s] \cap DOMAIN u : u[d].count > 0}
  <1>1. r = Restrict(u, live)
    BY DEF Pruned, Cleared
  <1>2. /\ DOMAIN u = DOMAIN tree /\ u \in [DOMAIN tree -> Nodes]
        /\ \A s \in DOMAIN tree \cap gone : u[s].count = 0
        /\ \A s \in DOMAIN tree \ gone : u[s] = tree[s]
    BY ClearedIs
  <1>3. \A s : s \in live <=> s \in DOMAIN tree /\ \E d \in Below(tree, s) \ gone : tree[d].count > 0
    <2>1. \A s \in DOMAIN tree : \A d \in Under[s] \cap DOMAIN tree : u[d].count > 0 <=> d \notin gone /\ tree[d].count > 0
      BY <1>2
    <2> QED
      BY <1>2, <2>1 DEF Below
  <1> HIDE DEF live
  <1>4. DOMAIN r = live /\ (\A s \in live : r[s] = u[s]) /\ r = [s \in live |-> u[s]]
    BY <1>1 DEF Restrict
  <1>5. r \in [DOMAIN r -> Nodes]
    BY <1>2, <1>3, <1>4
  <1> QED
    BY <1>3, <1>4, <1>5

LEMMA PrunedIsATree ==
    ASSUME TreeInv, NEW gone \in SUBSET Published, NEW r, r = Pruned(gone)
    PROVE  /\ IsTree(r) /\ DOMAIN r \subseteq DOMAIN tree
           /\ \A s \in DOMAIN r \ gone : r[s] = tree[s]
           /\ \A s \in DOMAIN r \cap gone : r[s].count = 0 /\ r[s].rate = 0 /\ r[s].last = "nil"
           /\ \A s \in DOMAIN tree \ gone : tree[s].count > 0 => s \in DOMAIN r
           /\ \A s \in DOMAIN tree \ UpFrom(gone \cap DOMAIN tree) :
                s \in DOMAIN r /\ r[s] = tree[s] /\ Below(r, s) = Below(tree, s) /\ \A d \in Below(r, s) : r[d] = tree[d]
           /\ \A s \in DOMAIN r \ UpFrom(gone \cap DOMAIN tree) : SaysItsSums(tree, s) => SaysItsSums(r, s)
  <1> DEFINE u == Cleared(gone)
  <1>1. /\ \A s \in DOMAIN tree \cap gone : u[s].count = 0 /\ u[s].rate = 0 /\ u[s].last = "nil"
        /\ \A s \in DOMAIN tree \ gone : u[s] = tree[s]
    BY ClearedIs
  <1> HIDE DEF u
  <1>2. /\ \A s : s \in DOMAIN r <=> s \in DOMAIN tree /\ \E d \in Below(tree, s) \ gone : tree[d].count > 0
        /\ \A s \in DOMAIN r : r[s] = u[s]
        /\ r \in [DOMAIN r -> Nodes]
    BY PrunedIs DEF u
  <1>3. /\ DOMAIN tree \subseteq Subjects /\ \A s \in DOMAIN tree : Above[s] \subseteq DOMAIN tree
        /\ \A s \in DOMAIN tree : \E d \in Below(tree, s) : tree[d].count > 0
    BY DEF TreeInv, IsTree
  <1>4. /\ DOMAIN r \subseteq DOMAIN tree
        /\ \A s \in DOMAIN r \ gone : r[s] = tree[s]
        /\ \A s \in DOMAIN r \cap gone : r[s].count = 0 /\ r[s].rate = 0 /\ r[s].last = "nil"
    BY <1>1, <1>2
  <1>5. \A s \in DOMAIN tree \ gone : tree[s].count > 0 => s \in DOMAIN r
    BY <1>2, <1>3, UnderIs DEF Below
  <1>6. ASSUME NEW s \in DOMAIN r PROVE Above[s] \subseteq DOMAIN r /\ \E d \in Below(r, s) : r[d].count > 0
    <2>1. PICK d \in Below(tree, s) \ gone : tree[d].count > 0
      BY <1>2
    <2>2. d \in DOMAIN r /\ r[d].count > 0 /\ d \in Under[s]
      BY <1>4, <1>5, <2>1 DEF Below
    <2>3. ASSUME NEW p \in Above[s] PROVE p \in DOMAIN r
      <3>1. p \in DOMAIN tree /\ s \in Subjects /\ p \in Subjects
        BY <1>3, <1>4
      <3>2. d \in Under[p]
        BY <2>2, <3>1, UnderIs, UnderNests
      <3> QED
        BY <1>2, <2>1, <3>1, <3>2 DEF Below
    <2> QED
      BY <2>2, <2>3 DEF Below
  <1>7. IsTree(r)
    <2>1. DOMAIN r \subseteq Subjects
      BY <1>3, <1>4
    <2> QED
      BY <1>2, <1>6, <2>1 DEF IsTree
  <1>8. ASSUME NEW s \in DOMAIN tree \ UpFrom(gone \cap DOMAIN tree)
        PROVE  s \in DOMAIN r /\ r[s] = tree[s] /\ Below(r, s) = Below(tree, s) /\ \A d \in Below(r, s) : r[d] = tree[d]
    <2>1. gone \cap DOMAIN tree \in SUBSET Subjects /\ s \in Subjects
      BY <1>3
    <2>2. \A d \in gone \cap DOMAIN tree : d \notin Under[s]
      BY <2>1, UpFromIs
    <2>3. ASSUME NEW d \in Below(tree, s) PROVE d \in DOMAIN r /\ d \notin gone
      <3>1. d \in DOMAIN tree /\ d \in Under[s] /\ d \notin gone
        BY <2>2 DEF Below
      <3>2. PICK e \in Below(tree, d) : tree[e].count > 0
        BY <1>3, <3>1
      <3>3. e \in DOMAIN tree /\ e \in Under[d]
        BY <3>2 DEF Below
      <3>4. e \in Under[s]
        BY <2>1, <3>1, <3>3, UnderNests
      <3>5. e \notin gone
        BY <2>2, <3>3, <3>4
      <3> QED
        BY <1>2, <3>1, <3>2, <3>5
    <2>4. Below(r, s) = Below(tree, s)
      BY <1>4, <2>3 DEF Below
    <2>5. s \in Below(tree, s)
      BY <2>1, UnderIs DEF Below
    <2> QED
      BY <1>4, <2>3, <2>4, <2>5
  <1>9. ASSUME NEW s \in DOMAIN r \ UpFrom(gone \cap DOMAIN tree), SaysItsSums(tree, s) PROVE SaysItsSums(r, s)
    <2>1. s \in DOMAIN tree
      BY <1>4
    <2>2. r[s] = tree[s] /\ Below(r, s) = Below(tree, s) /\ \A d \in Below(r, s) : r[d] = tree[d]
      BY <1>8, <2>1
    <2>3. \A d \in Below(r, s) :
             Counts(r)[d] = Counts(tree)[d] /\ Rates(r)[d] = Rates(tree)[d] /\ Ones(r)[d] = Ones(tree)[d]
      <3>1. \A d \in Below(r, s) : d \in DOMAIN r /\ d \in DOMAIN tree
        BY <1>4 DEF Below
      <3> QED
        BY <2>2, <3>1 DEF Counts, Rates, Ones
    <2>4. IsFiniteSet(Below(r, s))
      BY <1>7, BelowIs
    <2>5. /\ SumOver(Counts(r), Below(r, s)) = SumOver(Counts(tree), Below(r, s))
          /\ SumOver(Rates(r), Below(r, s)) = SumOver(Rates(tree), Below(r, s))
          /\ SumOver(Ones(r), Below(r, s)) = SumOver(Ones(tree), Below(r, s))
      BY <2>3, <2>4, SumSame
    <2> QED
      BY <1>9, <2>2, <2>5 DEF SaysItsSums
  <1> QED
    BY <1>4, <1>5, <1>7, <1>8, <1>9
-----------------------------------------------------------------------------
(* What goes to a tab. *)
LEMMA ViewIs ==
    \A w \in Views :
        /\ w.all \in BOOLEAN /\ w.terms \in BOOLEAN /\ w.expr \in BOOLEAN /\ w.preview \in BOOLEAN
        /\ w.paths \subseteq Subjects /\ w.matching \subseteq Subjects
  BY ViewsAssumption

LEMMA CollectIs ==
    ASSUME NEW w, NEW t, IsTree(t)
    PROVE  Collect(w, t) \subseteq DOMAIN t
  <1> DEFINE S == {s \in DOMAIN t : MatchesNode(w, t, s)}
  <1>1. S \in SUBSET Subjects /\ S \subseteq DOMAIN t
    BY DEF IsTree
  <1>2. UpFrom(S) \subseteq DOMAIN t
    BY <1>1 DEF IsTree, UpFrom
  <1> QED
    BY <1>2 DEF Collect

LEMMA ChildrenCounted ==
    ASSUME NEW t, NEW s \in Subjects
    PROVE  Cardinality(ChildrenIn(t, s)) \in 0..Cardinality(Subjects)
  <1>1. ChildrenIn(t, s) \subseteq Subjects
    BY ChildrenBelow DEF ChildrenIn
  <1>2. /\ Cardinality(ChildrenIn(t, s)) \in Nat /\ Cardinality(Subjects) \in Nat
        /\ Cardinality(ChildrenIn(t, s)) <= Cardinality(Subjects)
    BY <1>1, SubjectFacts, FS_Subset, FS_CardinalityType
  <1> QED
    BY <1>2

LEMMA EntryIs ==
    ASSUME NEW t, IsTree(t), NEW s \in DOMAIN t, SaysItsSums(t, s), NEW preview
    PROVE  EntryOf(t, s, preview) \in WireEntry
  <1>1. s \in Subjects /\ t[s] \in Nodes
    BY DEF IsTree
  <1>2. Cardinality(ChildrenIn(t, s)) \in 0..Cardinality(Subjects)
    BY <1>1, ChildrenCounted
  <1>3. t[s].subjects \in 0..Cardinality(Subjects)
    <2> DEFINE B == Below(t, s)
    <2>1. IsFiniteSet(B) /\ \A d \in B : Ones(t)[d] \in {0, 1}
      BY BelowIs
    <2>2. B \subseteq Subjects
      BY <1>1, UnderIs DEF Below
    <2> HIDE DEF B
    <2>3. SumOver(Ones(t), B) \in 0..Cardinality(B)
      BY <2>1, OnesAreCounted
    <2>4. Cardinality(B) \in Nat /\ Cardinality(Subjects) \in Nat /\ Cardinality(B) <= Cardinality(Subjects)
      BY <2>1, <2>2, SubjectFacts, FS_Subset, FS_CardinalityType
    <2>5. t[s].subjects \in 0..Cardinality(B)
      BY <2>3 DEF SaysItsSums, B
    <2> QED
      BY <2>4, <2>5
  <1> QED
    BY <1>1, <1>2, <1>3 DEF EntryOf, WireEntry, Nodes, Verdict

LEMMA EntriesAre ==
    ASSUME NEW t, IsTree(t), \A s \in DOMAIN t : SaysItsSums(t, s), NEW v, NEW S \in SUBSET DOMAIN t
    PROVE  /\ Entries(v, t, S) \in Wires
           /\ \A behind : LastWords(v, t, S, behind) \in Wires
  <1>1. S \in SUBSET Subjects
    BY DEF IsTree
  <1>2. Entries(v, t, S) \in [S -> WireEntry]
    BY EntryIs DEF Entries
  <1>3. DeadEntry \in WireEntry
    BY SubjectFacts, FS_CardinalityType, BoundsAssumption DEF DeadEntry, WireEntry, Rate, Verdict
  <1>4. ASSUME NEW behind PROVE LastWords(v, t, S, behind) \in [S -> WireEntry]
    BY <1>3, EntryIs DEF LastWords
  <1> QED
    BY <1>1, <1>2, <1>4 DEF Wires

LEMMA EmptyIsAWire ==
    EmptyTree \in Wires /\ EmptyTree \in [{} -> WireEntry] /\ NoUpdate \in Ups
  <1>1. EmptyTree \in [{} -> WireEntry]
    BY DEF EmptyTree
  <1> QED
    BY <1>1 DEF Wires, Ups, NoUpdate

LEMMA UpdateIs ==
    ASSUME NEW v \in ViewStates, NEW t, IsTree(t), \A s \in DOMAIN t : SaysItsSums(t, s),
           NEW dirty \in SUBSET DOMAIN t, NEW behind
    PROVE  /\ Update(v, t, dirty, behind).view \in ViewStates
           /\ Update(v, t, dirty, behind).view.wants = v.wants /\ Update(v, t, dirty, behind).view.loaded = v.loaded
           /\ Update(v, t, dirty, behind).up \in Ups
  <1> DEFINE want == Collect(v.wants, t)
             had == IF v.needFull THEN {} ELSE v.sent
             new == (want \ had) \cup (dirty \cap had \cap want)
             seen == {s \in dirty : Visible(v, t, s)}
             all == seen \cup UNION {Unsent(v, s) : s \in seen}
  <1>1. want \subseteq DOMAIN t /\ DOMAIN t \subseteq Subjects
    BY CollectIs DEF IsTree
  <1>2. had \subseteq Subjects
    BY DEF ViewStates
  <1>3. new \in SUBSET DOMAIN t
    BY <1>1
  <1>4. all \in SUBSET DOMAIN t
    <2>1. \A s \in seen : s \in DOMAIN t /\ Unsent(v, s) \subseteq DOMAIN t
      BY DEF Unsent, IsTree
    <2> QED
      BY <2>1
  <1>5. (\A b : LastWords(v, t, new, b) \in Wires) /\ Entries(v, t, all) \in Wires
    <2> HIDE DEF new, all
    <2> QED
      BY <1>3, <1>4, EntriesAre
  <1>6. CASE ~v.loaded
    <2>1. Update(v, t, dirty, behind) = [view |-> v, up |-> NoUpdate]
      BY <1>6 DEF Update
    <2> QED
      BY <2>1, EmptyIsAWire
  <1>7. CASE v.loaded /\ (v.dirty \/ v.needFull)
    <2>1. Update(v, t, dirty, behind) = Difference(v, t, dirty, behind)
      BY <1>7 DEF Update
    <2>2. Difference(v, t, dirty, behind) =
            [view |-> [v EXCEPT !.needFull = FALSE, !.dirty = FALSE, !.sent = want],
             up |-> [full |-> v.needFull, removed |-> had \ want, entries |-> LastWords(v, t, new, behind \cap had)]]
      BY DEF Difference
    <2> HIDE DEF new, want, had
    <2>3. PICK x : x = [v EXCEPT !.needFull = FALSE, !.dirty = FALSE, !.sent = want]
      OBVIOUS
    <2>5. x \in ViewStates /\ x.wants = v.wants /\ x.loaded = v.loaded
      BY <1>1, <2>3 DEF ViewStates
    <2>4. [full |-> v.needFull, removed |-> had \ want, entries |-> LastWords(v, t, new, behind \cap had)] \in Ups
      BY <1>2, <1>5 DEF Ups, ViewStates
    <2>6. /\ Update(v, t, dirty, behind).view = x
          /\ Update(v, t, dirty, behind).up = [full |-> v.needFull, removed |-> had \ want, entries |-> LastWords(v, t, new, behind \cap had)]
      BY <2>1, <2>2, <2>3
    <2> QED
      BY <2>4, <2>5, <2>6
  <1>8. CASE v.loaded /\ ~(v.dirty \/ v.needFull)
    <2>1. Update(v, t, dirty, behind) = Delta(v, t, dirty)
      BY <1>8 DEF Update
    <2>2. Delta(v, t, dirty) =
            [view |-> [v EXCEPT !.sent = v.sent \cup all],
             up |-> [NoUpdate EXCEPT !.entries = Entries(v, t, all)]]
      BY DEF Delta
    <2> HIDE DEF all
    <2>3. [v EXCEPT !.sent = v.sent \cup all] \in ViewStates
      BY <1>1, <1>4 DEF ViewStates
    <2>4. [NoUpdate EXCEPT !.entries = Entries(v, t, all)] \in Ups
      BY <1>5, EmptyIsAWire DEF Ups
    <2> QED
      BY <2>1, <2>2, <2>3, <2>4 DEF ViewStates
  <1> QED
    BY <1>6, <1>7, <1>8 DEF ViewStates
-----------------------------------------------------------------------------
(* TypeOK and the sums, from the invariant. *)
LEMMA FieldSums ==
    ASSUME NEW t, IsTree(t), NEW s \in DOMAIN t
    PROVE  /\ MapThenSumSet(LAMBDA d : t[d].count, Below(t, s)) = SumOver(Counts(t), Below(t, s))
           /\ MapThenSumSet(LAMBDA d : t[d].rate, Below(t, s)) = SumOver(Rates(t), Below(t, s))
           /\ Cardinality({d \in Below(t, s) : t[d].count > 0}) = SumOver(Ones(t), Below(t, s))
  <1> DEFINE B == Below(t, s)
  <1>1. /\ IsFiniteSet(B)
        /\ \A d \in B : Counts(t)[d] = t[d].count
        /\ \A d \in B : Rates(t)[d] = t[d].rate
        /\ \A d \in B : Ones(t)[d] = (IF t[d].count > 0 THEN 1 ELSE 0) /\ Ones(t)[d] \in {0, 1}
    BY BelowIs
  <1> HIDE DEF B
  <1>2. /\ FieldSum(t, "count", B) = MapThenSumSet(LAMBDA d : t[d].count, B)
        /\ FieldSum(t, "rate", B) = MapThenSumSet(LAMBDA d : t[d].rate, B)
    BY DEF FieldSum
  <1>3. \A d \in B : Counts(t)[d] = t[d]["count"] /\ Rates(t)[d] = t[d]["rate"]
    BY <1>1
  <1>4. FieldSum(t, "count", B) = SumOver(Counts(t), B) /\ FieldSum(t, "rate", B) = SumOver(Rates(t), B)
    BY <1>1, <1>3, FieldSumIs
  <1>5. SumOver(Ones(t), B) = Cardinality({d \in B : Ones(t)[d] = 1})
    BY <1>1, OnesAreCounted
  <1>6. {d \in B : Ones(t)[d] = 1} = {d \in B : t[d].count > 0}
    BY <1>1
  <1> QED
    BY <1>2, <1>4, <1>5, <1>6 DEF B

LEMMA SumsAreKept ==
    TreeInv => AggregatesAreSums
  <1> SUFFICES ASSUME TreeInv, touched = {}, NEW s \in DOMAIN tree
               PROVE  /\ tree[s].total = MapThenSumSet(LAMBDA d : tree[d].count, Below(tree, s))
                      /\ tree[s].totalRate = MapThenSumSet(LAMBDA d : tree[d].rate, Below(tree, s))
                      /\ tree[s].subjects = Cardinality({d \in Below(tree, s) : tree[d].count > 0})
                      /\ tree[s].subjects > 0
    BY DEF AggregatesAreSums, Below
  <1>1. IsTree(tree) /\ SaysItsSums(tree, s)
    BY DEF TreeInv
  <1>2. /\ tree[s].total = MapThenSumSet(LAMBDA d : tree[d].count, Below(tree, s))
        /\ tree[s].totalRate = MapThenSumSet(LAMBDA d : tree[d].rate, Below(tree, s))
        /\ tree[s].subjects = Cardinality({d \in Below(tree, s) : tree[d].count > 0})
    BY <1>1, FieldSums DEF SaysItsSums
  <1>3. tree[s].subjects > 0
    <2> DEFINE P == {d \in Below(tree, s) : tree[d].count > 0}
    <2>1. P # {} /\ P \subseteq Below(tree, s)
      BY <1>1 DEF IsTree
    <2>2. IsFiniteSet(Below(tree, s))
      BY <1>1, BelowIs
    <2> HIDE DEF P
    <2>3. Cardinality(P) \in Nat /\ Cardinality(P) # 0
      BY <2>1, <2>2, FS_Subset, FS_CardinalityType, FS_EmptySet
    <2> QED
      BY <1>2, <2>3 DEF P
  <1> QED
    BY <1>2, <1>3

LEMMA WireIs ==
    ASSUME NEW m \in Wires
    PROVE  DOMAIN m \subseteq Subjects /\ \A s \in DOMAIN m : m[s] \in WireEntry
  BY DEF Wires

LEMMA TypesAreKept ==
    Types /\ TreeInv /\ DeadInv => TypeOK
  <1> SUFFICES ASSUME Types, TreeInv, DeadInv PROVE TypeOK
    OBVIOUS
  <1>1. /\ stats \in [Published -> [count : 0..MaxCount, rate : Rate, last : Verdict]]
        /\ changed \subseteq Published /\ active \subseteq Published /\ overtaken \subseteq Published
        /\ dead \subseteq Subjects /\ revived \subseteq Subjects
    BY DEF Types, Numbers
  <1>2. touched \subseteq DOMAIN tree /\ \A s \in DOMAIN tree : s \in Subjects /\ Above[s] \subseteq DOMAIN tree
    BY DEF TreeInv, IsTree
  <1>3. ASSUME NEW c \in Tabs
        PROVE  /\ view[c].wants \in Views /\ view[c].sent \subseteq Subjects
               /\ \A s \in DOMAIN mirror[c] : s \in Subjects /\ mirror[c][s] \in WireEntry
               /\ \A i \in DOMAIN inflight[c] : inflight[c][i].by \in {"loop"} \cup Tabs \cup Requests
    <2>1. view[c] \in ViewStates /\ mirror[c] \in Wires /\ inflight[c] \in Seq(Pendings)
      BY DEF Types
    <2>2. view[c].wants \in Views /\ view[c].sent \subseteq Subjects
      BY <2>1 DEF ViewStates
    <2>3. \A s \in DOMAIN mirror[c] : s \in Subjects /\ mirror[c][s] \in WireEntry
      BY <2>1, WireIs
    <2>4. \A i \in DOMAIN inflight[c] : inflight[c][i] \in Pendings
      BY <2>1
    <2> QED
      BY <2>2, <2>3, <2>4 DEF Pendings
  <1> QED
    BY <1>1, <1>2, <1>3 DEF TypeOK, DeadInv
-----------------------------------------------------------------------------
(* The steps. *)
LEMMA InitHolds ==
    Init => FeedInv
  <1> SUFFICES ASSUME Init PROVE FeedInv
    OBVIOUS
  <1>1. NewView \in ViewStates
    <2>1. (CHOOSE v \in Views : TRUE) \in Views
      BY ViewsAssumption
    <2> QED
      BY <2>1 DEF NewView, ViewStates
  <1>2. NoStats \in Numbers /\ Idle \in Steps
    BY BoundsAssumption DEF NoStats, Numbers, Rate, Verdict, Idle, Steps
  <1>3. Types
    BY <1>1, <1>2, EmptyIsAWire DEF Init, Types
  <1>4. DOMAIN tree = {} /\ tree \in [{} -> Nodes] /\ touched = {} /\ dead = {}
    BY DEF Init, EmptyTree
  <1>5. TreeInv
    BY <1>4 DEF TreeInv, IsTree
  <1>6. StatsInv
    BY <1>4 DEF StatsInv, StatsReachTheTree, CountsReachTheTree, RatesReachTheTree, Init, NoStats
  <1> QED
    BY <1>3, <1>4, <1>5, <1>6 DEF FeedInv, DeadInv

LEMMA MessageKeeps ==
    ASSUME FeedInv, NEW s \in Published, NEW hit \in Contents, Message(s, hit)
    PROVE  FeedInv'
  <1>1. PICK n : n = [count |-> stats[s].count + 1, rate |-> 1, last |-> IF hit THEN "hit" ELSE "miss"]
    OBVIOUS
  <1>2. n \in Numbers /\ n.count > 0
    <2>1. stats[s] \in Numbers /\ stats[s].count < MaxCount
      BY DEF FeedInv, Types, Message
    <2>2. stats[s].count + 1 \in 0..MaxCount /\ stats[s].count + 1 > 0
      BY <2>1, BoundsAssumption DEF Numbers
    <2> QED
      BY <1>1, <2>2 DEF Numbers, Rate, Verdict
  <1>3. stats' = [stats EXCEPT ![s] = n]
    BY <1>1 DEF Message
  <1>4. /\ changed' = changed \cup {s} /\ active' = active \cup {s} /\ overtaken' = overtaken \ {s}
        /\ UNCHANGED <<tree, touched, dead, revived, view, inflight, mirror, damaged, reader, request>>
    BY DEF Message, wires, nodes
  <1>5. Types'
    BY <1>2, <1>3, <1>4 DEF FeedInv, Types
  <1>6. TreeInv'
    BY <1>4 DEF FeedInv, TreeInv
  <1>7. \A d \in Published : d # s => stats'[d] = stats[d]
    BY <1>3 DEF FeedInv, Types
  <1>8. CountsReachTheTree'
    BY <1>4, <1>7 DEF FeedInv, StatsInv, StatsReachTheTree, CountsReachTheTree
  <1>9. RatesReachTheTree'
    BY <1>4, <1>7 DEF FeedInv, StatsInv, StatsReachTheTree, RatesReachTheTree
  <1>10. (\A d \in Published : stats[d].rate > 0 => d \in active)'
    BY <1>4, <1>7 DEF FeedInv, StatsInv
  <1>11. DeadInv'
    BY <1>4 DEF FeedInv, DeadInv
  <1> QED
    BY <1>5, <1>6, <1>8, <1>9, <1>10, <1>11 DEF FeedInv, StatsInv, StatsReachTheTree

LEMMA QuietKeeps ==
    ASSUME FeedInv, NEW s \in Published, Quiet(s)
    PROVE  FeedInv'
  <1>1. PICK n : n = [stats[s] EXCEPT !.rate = 0]
    OBVIOUS
  <1>2. /\ n \in Numbers /\ n.count = stats[s].count /\ n.last = stats[s].last /\ n.rate = 0
        /\ stats[s].rate > 0
    BY <1>1 DEF FeedInv, Types, Numbers, Rate, Quiet
  <1>3. stats' = [stats EXCEPT ![s] = n]
    BY <1>1 DEF Quiet
  <1>4. UNCHANGED <<changed, active, overtaken, tree, touched, dead, revived, view, inflight, mirror, damaged, reader, request>>
    BY DEF Quiet, wires, nodes
  <1>5. Types'
    BY <1>2, <1>3, <1>4 DEF FeedInv, Types
  <1>6. TreeInv'
    BY <1>4 DEF FeedInv, TreeInv
  <1>7. /\ \A d \in Published : d # s => stats'[d] = stats[d]
        /\ stats'[s] = n /\ s \in active
    BY <1>2, <1>3 DEF FeedInv, Types, StatsInv
  <1>8. CountsReachTheTree'
    BY <1>2, <1>4, <1>7 DEF FeedInv, StatsInv, StatsReachTheTree, CountsReachTheTree
  <1>9. RatesReachTheTree'
    BY <1>4, <1>7 DEF FeedInv, StatsInv, StatsReachTheTree, RatesReachTheTree
  <1>10. (\A d \in Published : stats[d].rate > 0 => d \in active)'
    BY <1>4, <1>7 DEF FeedInv, StatsInv
  <1>11. DeadInv'
    BY <1>4 DEF FeedInv, DeadInv
  <1> QED
    BY <1>5, <1>6, <1>8, <1>9, <1>10, <1>11 DEF FeedInv, StatsInv, StatsReachTheTree

(* A step of the tabs or of a request that leaves shards and tree alone.    *)
LEMMA SidewaysKeeps ==
    ASSUME FeedInv, Types', UNCHANGED <<stats, changed, active, overtaken, tree, touched, dead>>,
           \A c \in Tabs : view'[c] = view[c] \/ ~Current(view'[c])
    PROVE  FeedInv'
  <1>1. TreeInv'
    BY DEF FeedInv, TreeInv
  <1>2. StatsInv'
    BY DEF FeedInv, StatsInv, StatsReachTheTree, CountsReachTheTree, RatesReachTheTree
  <1>3. DeadInv'
    BY DEF FeedInv, DeadInv
  <1> QED
    BY <1>1, <1>2, <1>3 DEF FeedInv

(* The update a tab gets from an emit. *)
Told(c, b) == Update(view[c], Emitted, Reached, b)

LEMMA EmitIs ==
    ASSUME NEW e, NEW b, EmitWith(e, b)
    PROVE  /\ tree' = Emitted /\ touched' = {} /\ dead' = {} /\ changed' = {} /\ active' = StillActive
           /\ view' = [c \in Tabs |-> Told(c, b).view]
           /\ inflight' = [c \in Tabs |->
                IF Told(c, b).up = NoUpdate THEN inflight[c]
                ELSE Append(inflight[c], [by |-> e, up |-> Told(c, b).up, late |-> {}])]
           /\ revived' = (revived \ Reached) \cup b /\ b \subseteq DOMAIN Emitted
           /\ UNCHANGED <<stats, mirror, damaged, overtaken>>
  BY DEF EmitWith, Emitted, Reached, Told

LEMMA EmitKeepsTypes ==
    ASSUME FeedInv, NEW e \in {"loop"} \cup Tabs \cup Requests, NEW b, EmitWith(e, b),
           reader' \in [Tabs -> BOOLEAN], request' \in [Requests -> Steps]
    PROVE  Types'
  <1>1. /\ IsTree(Emitted) /\ Reached \in SUBSET DOMAIN Emitted
        /\ \A s \in DOMAIN Emitted : SaysItsSums(Emitted, s)
    BY EmittedIs DEF FeedInv
  <1>2. ASSUME NEW c \in Tabs PROVE Told(c, b).view \in ViewStates /\ Told(c, b).up \in Ups
    <2>1. view[c] \in ViewStates
      BY DEF FeedInv, Types
    <2> QED
      BY <1>1, <2>1, UpdateIs DEF Told
  <1>3. view' \in [Tabs -> ViewStates]
    BY <1>2, EmitIs
  <1>4. ASSUME NEW c \in Tabs PROVE inflight'[c] \in Seq(Pendings)
    <2>1. PICK p : p = [by |-> e, up |-> Told(c, b).up, late |-> {}]
      OBVIOUS
    <2>2. p \in Pendings /\ inflight[c] \in Seq(Pendings)
      BY <1>2, <2>1 DEF Pendings, FeedInv, Types
    <2>3. Append(inflight[c], p) \in Seq(Pendings)
      BY <2>2
    <2>4. inflight'[c] = inflight[c] \/ inflight'[c] = Append(inflight[c], p)
      BY <2>1, EmitIs
    <2> HIDE DEF Pendings
    <2> QED
      BY <2>2, <2>3, <2>4
  <1>5. inflight' \in [Tabs -> Seq(Pendings)]
    <2>1. inflight' = [c \in Tabs |-> inflight'[c]]
      BY EmitIs
    <2> QED
      BY <1>4, <2>1
  <1>6. changed' = {} /\ active' \subseteq active /\ UNCHANGED <<stats, mirror, damaged, overtaken>>
    BY EmitIs DEF StillActive
  <1>7. dead' = {} /\ revived' \subseteq Subjects
    BY <1>1, EmitIs DEF FeedInv, Types, IsTree
  <1> QED
    BY <1>3, <1>5, <1>6, <1>7 DEF FeedInv, Types

LEMMA EmitKeepsTheStats ==
    ASSUME FeedInv, NEW e, NEW b, EmitWith(e, b)
    PROVE  StatsInv'
  <1>1. tree' = Emitted /\ changed' = {} /\ active' = StillActive /\ UNCHANGED <<stats, overtaken>>
    BY EmitIs
  <1>2. /\ DOMAIN Emitted = DOMAIN tree \cup UpFrom(Observed)
        /\ \A s \in Observed :
             /\ s \in DOMAIN Emitted
             /\ Emitted[s].count = stats[s].count /\ Emitted[s].rate = stats[s].rate /\ Emitted[s].last = stats[s].last
        /\ \A s \in DOMAIN tree \ Observed :
             Emitted[s].count = tree[s].count /\ Emitted[s].rate = tree[s].rate /\ Emitted[s].last = tree[s].last
    BY EmittedIs DEF FeedInv
  <1>3. /\ \A s \in changed : stats[s].count > 0 => s \in Observed
        /\ \A s \in active \cap DOMAIN tree : stats[s].count > 0 /\ tree[s].rate # stats[s].rate => s \in Observed
    BY ObservedIs DEF FeedInv
  <1>4. /\ \A s \in Published : stats[s].count > 0 =>
             s \in changed \/ s \in overtaken \/ (s \in DOMAIN tree /\ tree[s].count = stats[s].count /\ tree[s].last = stats[s].last)
        /\ \A s \in DOMAIN tree \cap Published :
             stats[s].count > 0 /\ s \notin overtaken /\ tree[s].rate # stats[s].rate => s \in active
        /\ \A s \in Published : stats[s].rate > 0 => s \in active
    BY DEF FeedInv, StatsInv, StatsReachTheTree, CountsReachTheTree, RatesReachTheTree
  <1>5. ASSUME NEW s \in Published, stats[s].count > 0, s \notin overtaken
        PROVE  /\ s \in DOMAIN Emitted
               /\ Emitted[s].count = stats[s].count /\ Emitted[s].last = stats[s].last /\ Emitted[s].rate = stats[s].rate
    <2>1. CASE s \in Observed
      BY <1>2, <2>1
    <2>2. CASE s \notin Observed
      <3>1. s \in DOMAIN tree /\ tree[s].count = stats[s].count /\ tree[s].last = stats[s].last
        BY <1>3, <1>4, <1>5, <2>2
      <3>2. tree[s].rate = stats[s].rate
        BY <1>3, <1>4, <1>5, <2>2, <3>1
      <3> QED
        BY <1>2, <2>2, <3>1, <3>2
    <2> QED
      BY <2>1, <2>2
  <1>6. CountsReachTheTree'
    BY <1>1, <1>5 DEF CountsReachTheTree
  <1>7. RatesReachTheTree'
    BY <1>1, <1>5 DEF RatesReachTheTree
  <1>8. (\A s \in Published : stats[s].rate > 0 => s \in active)'
    BY <1>1, <1>4 DEF StillActive
  <1> QED
    BY <1>6, <1>7, <1>8 DEF StatsInv, StatsReachTheTree

LEMMA EmitKeeps ==
    ASSUME FeedInv, NEW e \in {"loop"} \cup Tabs \cup Requests, Emit(e),
           reader' \in [Tabs -> BOOLEAN], request' \in [Requests -> Steps]
    PROVE  FeedInv'
  <1>1. PICK b : EmitWith(e, b)
    BY DEF Emit
  <1>2. TreeInv'
    BY <1>1, EmitIs, EmittedIs DEF FeedInv, TreeInv
  <1>3. DeadInv'
    BY <1>1, EmitIs DEF DeadInv
  <1> QED
    BY <1>1, <1>2, <1>3, EmitKeepsTypes, EmitKeepsTheStats DEF FeedInv

LEMMA ViewKeeps ==
    ASSUME FeedInv, NEW c \in Tabs, NEW w \in Views, SetView(c, w)
    PROVE  FeedInv'
  <1>1. PICK v : v = [view[c] EXCEPT !.wants = w, !.dirty = TRUE, !.loaded = TRUE,
                                     !.needFull = @ \/ view[c].wants.preview # w.preview]
    OBVIOUS
  <1>2. v \in ViewStates
    <2>1. view[c] \in ViewStates
      BY DEF FeedInv, Types
    <2>2. PICK full \in BOOLEAN : full = (view[c].needFull \/ view[c].wants.preview # w.preview)
      BY <2>1 DEF ViewStates
    <2>3. v = [view[c] EXCEPT !.wants = w, !.dirty = TRUE, !.loaded = TRUE, !.needFull = full]
      BY <1>1, <2>1, <2>2 DEF ViewStates
    <2> QED
      BY <2>1, <2>3 DEF ViewStates
  <1>3. view' = [view EXCEPT ![c] = v] /\ reader' = [reader EXCEPT ![c] = TRUE]
    BY <1>1 DEF SetView
  <1>4. UNCHANGED <<stats, changed, active, tree, touched, dead, revived, inflight, mirror, damaged, overtaken, request>>
    BY DEF SetView, shards, wires, nodes
  <1>5. Types'
    BY <1>2, <1>3, <1>4 DEF FeedInv, Types
  <1>6. \A d \in Tabs : view'[d] = view[d] \/ ~Current(view'[d])
    <2>1. view[c] \in ViewStates
      BY DEF FeedInv, Types
    <2>2. v.dirty
      BY <1>1, <2>1 DEF ViewStates
    <2> QED
      BY <1>3, <2>2 DEF FeedInv, Types, Current
  <1> QED
    BY <1>4, <1>5, <1>6, SidewaysKeeps

LEMMA ReconnectKeeps ==
    ASSUME FeedInv, NEW c \in Tabs, Reconnect(c)
    PROVE  FeedInv'
  <1>1. NewView \in ViewStates
    <2>1. (CHOOSE v \in Views : TRUE) \in Views
      BY ViewsAssumption
    <2> QED
      BY <2>1 DEF NewView, ViewStates
  <1>2. /\ view' = [view EXCEPT ![c] = NewView] /\ inflight' = [inflight EXCEPT ![c] = <<>>]
        /\ mirror' = [mirror EXCEPT ![c] = EmptyTree] /\ damaged' = [damaged EXCEPT ![c] = {}]
        /\ UNCHANGED <<stats, changed, active, tree, touched, dead, revived, overtaken, reader, request>>
    BY DEF Reconnect, shards, nodes
  <1>3. Types'
    BY <1>1, <1>2, EmptyIsAWire DEF FeedInv, Types
  <1>4. \A d \in Tabs : view'[d] = view[d] \/ ~Current(view'[d])
    BY <1>2 DEF FeedInv, Types, Current, NewView
  <1> QED
    BY <1>2, <1>3, <1>4, SidewaysKeeps

(* An update that reaches a tab, subject by subject. *)
LEMMA ApplyIs ==
    ASSUME NEW m \in Wires, NEW up \in Ups
    PROVE  /\ Apply(m, up) \in Wires
           /\ \A s \in DOMAIN up.entries : s \in DOMAIN Apply(m, up) /\ Apply(m, up)[s] = up.entries[s]
           /\ \A s \in Names(up) \ DOMAIN up.entries : s \notin DOMAIN Apply(m, up)
           /\ \A s \in Subjects \ Names(up) :
                /\ s \in DOMAIN Apply(m, up) => s \in DOMAIN m /\ Apply(m, up)[s] = m[s]
                /\ s \notin Concerns(up) /\ s \in DOMAIN m => s \in DOMAIN Apply(m, up)
  <1> DEFINE gone == {d \in DOMAIN m : \E r \in up.removed : d \in Under[r] /\ (Above[d] \ Above[r]) \subseteq DOMAIN m}
             kept == IF up.full THEN {} ELSE DOMAIN m \ gone
             S == kept \cup DOMAIN up.entries
             a == [s \in S |-> IF s \in DOMAIN up.entries THEN up.entries[s] ELSE m[s]]
  <1>1. up.entries \in Wires /\ up.removed \in SUBSET Subjects /\ up.full \in BOOLEAN
    BY DEF Ups
  <1>2. /\ DOMAIN m \subseteq Subjects /\ \A s \in DOMAIN m : m[s] \in WireEntry
        /\ DOMAIN up.entries \subseteq Subjects /\ \A s \in DOMAIN up.entries : up.entries[s] \in WireEntry
    BY <1>1, WireIs
  <1>3. /\ kept \subseteq DOMAIN m
        /\ up.full => kept = {}
    OBVIOUS
  <1>4. ASSUME ~up.full PROVE \A s \in up.removed : s \notin kept
    <2> SUFFICES ASSUME NEW s \in up.removed, s \in DOMAIN m PROVE s \in gone
      BY <1>4
    <2>1. s \in Under[s] /\ (Above[s] \ Above[s]) \subseteq DOMAIN m
      BY <1>1, UnderIs
    <2> QED
      BY <2>1
  <1>5. ASSUME ~up.full, NEW s \in DOMAIN m, s \notin Concerns(up) PROVE s \in kept
    BY <1>5 DEF Concerns
  <1>6. Apply(m, up) = a
    BY DEF Apply
  <1> HIDE DEF kept
  <1>7. S \in SUBSET Subjects /\ a \in [S -> WireEntry]
    BY <1>2, <1>3
  <1>8. \A s \in DOMAIN up.entries : s \in S /\ a[s] = up.entries[s]
    OBVIOUS
  <1>9. \A s \in Names(up) \ DOMAIN up.entries : s \notin S
    BY <1>1, <1>3, <1>4 DEF Names
  <1>10. ASSUME NEW s \in Subjects \ Names(up)
         PROVE  /\ s \in S => s \in DOMAIN m /\ a[s] = m[s]
                /\ s \notin Concerns(up) /\ s \in DOMAIN m => s \in S
    <2>1. ~up.full /\ s \notin DOMAIN up.entries
      BY <1>2 DEF Names
    <2> QED
      BY <1>3, <1>5, <2>1
  <1>11. DOMAIN a = S
    OBVIOUS
  <1> HIDE DEF S, a
  <1> QED
    BY <1>6, <1>7, <1>8, <1>9, <1>10, <1>11 DEF Wires

LEMMA NamesAre ==
    ASSUME NEW p \in Pendings
    PROVE  /\ Names(p.up) \subseteq Concerns(p.up) /\ Concerns(p.up) \subseteq Subjects
           /\ News(p) \subseteq Names(p.up) /\ p.late \subseteq Subjects /\ p.up \in Ups
           /\ \A L \in SUBSET Subjects : [p EXCEPT !.late = L] \in Pendings
  <1>1. p.up \in Ups /\ p.late \in SUBSET Subjects
    BY DEF Pendings
  <1>2. p.up.entries \in Wires /\ p.up.removed \in SUBSET Subjects
    BY <1>1 DEF Ups
  <1>3. DOMAIN p.up.entries \subseteq Subjects
    BY <1>2, WireIs
  <1>4. \A s \in p.up.removed : Under[s] \subseteq Subjects
    BY <1>2, UnderIs
  <1>5. \A L \in SUBSET Subjects : [p EXCEPT !.late = L] \in Pendings
    BY DEF Pendings
  <1> QED
    BY <1>1, <1>2, <1>3, <1>4, <1>5 DEF Names, Concerns, News

(* What is late of an update once the one at i was handed over or lost.     *)
Overtaken(q, i, j) == [q[j] EXCEPT !.late = @ \cup (Concerns(q[j].up) \cap News(q[i]))]

LEMMA OvertakenIs ==
    ASSUME NEW q \in Seq(Pendings), NEW i \in DOMAIN q, NEW j \in DOMAIN q
    PROVE  /\ Overtaken(q, i, j) \in Pendings
           /\ Overtaken(q, i, j).up = q[j].up
           /\ Overtaken(q, i, j).late = q[j].late \cup (Concerns(q[j].up) \cap News(q[i]))
           /\ News(Overtaken(q, i, j)) = News(q[j]) \ News(q[i])
  <1>1. q[i] \in Pendings /\ q[j] \in Pendings
    OBVIOUS
  <1>2. PICK L : L = q[j].late \cup (Concerns(q[j].up) \cap News(q[i]))
    OBVIOUS
  <1>3. Overtaken(q, i, j) = [q[j] EXCEPT !.late = L]
    BY <1>1, <1>2 DEF Overtaken, Pendings
  <1>4. L \in SUBSET Subjects /\ Names(q[j].up) \subseteq Concerns(q[j].up)
    BY <1>1, <1>2, NamesAre
  <1>5. Overtaken(q, i, j) \in Pendings /\ Overtaken(q, i, j).up = q[j].up /\ Overtaken(q, i, j).late = L
    BY <1>1, <1>3, <1>4, NamesAre DEF Pendings
  <1>6. News(Overtaken(q, i, j)) = News(q[j]) \ News(q[i])
    BY <1>2, <1>4, <1>5 DEF News
  <1> QED
    BY <1>2, <1>5, <1>6

LEMMA WithoutIs ==
    ASSUME NEW q \in Seq(Pendings), NEW i \in DOMAIN q
    PROVE  /\ Without(q, i) \in Seq(Pendings) /\ Len(Without(q, i)) = Len(q) - 1 /\ Len(q) \in Nat \ {0}
           /\ i \in 1..Len(q) /\ q[i] \in Pendings
           /\ \A j \in 1..(Len(q) - 1) : j < i => Without(q, i)[j] = Overtaken(q, i, j)
           /\ \A j \in 1..(Len(q) - 1) : j >= i => Without(q, i)[j] = q[j + 1]
  <1>1. Len(q) \in Nat /\ DOMAIN q = 1..Len(q) /\ \A j \in 1..Len(q) : q[j] \in Pendings
    OBVIOUS
  <1>2. Len(q) - 1 \in Nat /\ i \in 1..Len(q)
    BY <1>1
  <1>3. ASSUME NEW j \in 1..(Len(q) - 1)
        PROVE  Overtaken(q, i, j) \in Pendings /\ q[j + 1] \in Pendings
    <2>1. j \in DOMAIN q /\ q[j + 1] \in Pendings
      BY <1>1, <1>2
    <2> QED
      BY <2>1, OvertakenIs
  <1>4. Without(q, i) = [j \in 1..(Len(q) - 1) |-> IF j < i THEN Overtaken(q, i, j) ELSE q[j + 1]]
    BY DEF Without, Overtaken
  <1>5. Without(q, i) \in [1..(Len(q) - 1) -> Pendings]
    BY <1>3, <1>4
  <1>6. Without(q, i) \in Seq(Pendings) /\ Len(Without(q, i)) = Len(q) - 1
    BY <1>2, <1>5
  <1>7. \A j \in 1..(Len(q) - 1) : j >= i => ~(j < i)
    BY <1>2
  <1> QED
    BY <1>1, <1>2, <1>4, <1>6, <1>7

LEMMA DeliverKeeps ==
    ASSUME FeedInv, NEW c \in Tabs, NEW i \in DOMAIN inflight[c], Deliver(c, i) \/ Lose(c, i)
    PROVE  FeedInv'
  <1>1. inflight[c] \in Seq(Pendings) /\ mirror[c] \in Wires /\ damaged[c] \in SUBSET Subjects
    BY DEF FeedInv, Types
  <1>2. Without(inflight[c], i) \in Seq(Pendings) /\ inflight[c][i] \in Pendings
    BY <1>1, WithoutIs
  <1>3. /\ Apply(mirror[c], inflight[c][i].up) \in Wires
        /\ News(inflight[c][i]) \subseteq Subjects /\ inflight[c][i].late \subseteq Subjects
    <2>1. PICK p \in Pendings : p = inflight[c][i]
      BY <1>2
    <2>2. p.up \in Ups /\ News(p) \subseteq Subjects /\ p.late \subseteq Subjects
      BY NamesAre
    <2>3. Apply(mirror[c], p.up) \in Wires
      BY <1>1, <2>2, ApplyIs
    <2> QED
      BY <2>1, <2>2, <2>3
  <1>4. PICK m \in Wires : mirror' = [mirror EXCEPT ![c] = m]
    <2>1. CASE Deliver(c, i)
      BY <1>3, <2>1 DEF Deliver
    <2>2. CASE Lose(c, i)
      <3>1. mirror' = [mirror EXCEPT ![c] = mirror[c]]
        BY <2>2 DEF Lose, FeedInv, Types
      <3> QED
        BY <1>1, <3>1
    <2> QED
      BY <2>1, <2>2
  <1>5. PICK b \in SUBSET Subjects : damaged' = [damaged EXCEPT ![c] = b]
    <2>1. CASE Deliver(c, i)
      <3>1. PICK b : b = (damaged[c] \ News(inflight[c][i])) \cup (Concerns(inflight[c][i].up) \cap inflight[c][i].late)
        OBVIOUS
      <3>2. b \in SUBSET Subjects
        BY <1>1, <1>3, <3>1
      <3>3. damaged' = [damaged EXCEPT ![c] = b]
        BY <2>1, <3>1 DEF Deliver
      <3> QED
        BY <3>2, <3>3
    <2>2. CASE Lose(c, i)
      <3>1. PICK b : b = damaged[c] \cup News(inflight[c][i])
        OBVIOUS
      <3>2. b \in SUBSET Subjects
        BY <1>1, <1>3, <3>1
      <3>3. damaged' = [damaged EXCEPT ![c] = b]
        BY <2>2, <3>1 DEF Lose
      <3> QED
        BY <3>2, <3>3
    <2> QED
      BY <2>1, <2>2
  <1>6. /\ inflight' = [inflight EXCEPT ![c] = Without(inflight[c], i)]
        /\ UNCHANGED <<stats, changed, active, tree, touched, dead, revived, view, overtaken, reader, request>>
    BY DEF Deliver, Lose, shards, nodes
  <1>7. Types'
    BY <1>2, <1>4, <1>5, <1>6 DEF FeedInv, Types
  <1> QED
    BY <1>6, <1>7, SidewaysKeeps

(* Requests that clear subjects. *)
LEMMA StartKeeps ==
    ASSUME FeedInv, NEW r \in Requests,
           ForgetAllStart(r) \/ ForgetNothing(r) \/ \E wanted \in Selections : ForgetStart(r, wanted)
    PROVE  FeedInv'
  <1>1. Idle \in Steps
    BY DEF Idle, Steps
  <1>2. PICK x \in Steps : request' = [request EXCEPT ![r] = x]
    <2>1. CASE ForgetAllStart(r)
      <3>1. PICK x : x = [Idle EXCEPT !.step = "shards", !.wanted = Published, !.left = Shards, !.all = TRUE]
        OBVIOUS
      <3>2. x \in Steps
        BY <3>1 DEF Idle, Steps
      <3> QED
        BY <2>1, <3>1, <3>2 DEF ForgetAllStart
    <2>2. CASE ForgetNothing(r)
      BY <1>1, <2>2 DEF ForgetNothing
    <2>3. ASSUME NEW wanted \in Selections, ForgetStart(r, wanted)
          PROVE  \E x \in Steps : request' = [request EXCEPT ![r] = x]
      <3>1. PICK x : x = [Idle EXCEPT !.step = "shards", !.wanted = wanted, !.left = Shards]
        OBVIOUS
      <3>2. wanted \subseteq Published
        BY BoundsAssumption
      <3>3. x \in Steps
        BY <3>1, <3>2 DEF Idle, Steps
      <3> QED
        BY <2>3, <3>1, <3>3 DEF ForgetStart
    <2> QED
      BY <2>1, <2>2, <2>3
  <1>3. UNCHANGED <<stats, changed, active, tree, touched, dead, revived, view, inflight, mirror, damaged, overtaken, reader>>
    BY DEF ForgetAllStart, ForgetNothing, ForgetStart, shards, wires, nodes
  <1>4. Types'
    BY <1>2, <1>3 DEF FeedInv, Types
  <1> QED
    BY <1>3, <1>4, SidewaysKeeps

LEMMA ForgetShardKeeps ==
    ASSUME FeedInv, NEW r \in Requests, ForgetShard(r)
    PROVE  FeedInv'
  <1>1. PICK k \in request[r].left :
          LET drop == {s \in request[r].wanted : ShardOf[s] = k} IN
          /\ stats' = [s \in Published |-> IF s \in drop THEN NoStats ELSE stats[s]]
          /\ changed' = changed \ drop /\ active' = active \ drop
          /\ request' = [request EXCEPT ![r].left = @ \ {k},
                                        ![r].gone = @ \cup {s \in drop : stats[s].count > 0}]
          /\ overtaken' = overtaken \ drop
    BY DEF ForgetShard
  <1>2. PICK drop : drop = {s \in request[r].wanted : ShardOf[s] = k}
    OBVIOUS
  <1>3. PICK x : x = [request[r] EXCEPT !.left = @ \ {k}, !.gone = @ \cup {s \in drop : stats[s].count > 0}]
    OBVIOUS
  <1>4. request[r] \in Steps /\ drop \subseteq Published
    BY <1>2 DEF FeedInv, Types, Steps
  <1>5. x \in Steps
    BY <1>3, <1>4 DEF Steps
  <1>6. /\ stats' = [s \in Published |-> IF s \in drop THEN NoStats ELSE stats[s]]
        /\ changed' = changed \ drop /\ active' = active \ drop /\ overtaken' = overtaken \ drop
    BY <1>1, <1>2
  <1>7. request' = [request EXCEPT ![r] = x]
    <2>1. request' = [request EXCEPT ![r].left = @ \ {k}, ![r].gone = @ \cup {s \in drop : stats[s].count > 0}]
      BY <1>1, <1>2
    <2> QED
      BY <1>3, <2>1 DEF FeedInv, Types
  <1>8. UNCHANGED <<tree, touched, dead, revived, view, inflight, mirror, damaged, reader>>
    BY DEF ForgetShard, wires, nodes
  <1>9. NoStats \in Numbers /\ NoStats.count = 0 /\ NoStats.rate = 0
    BY BoundsAssumption DEF NoStats, Numbers, Rate, Verdict
  <1>10. Types'
    <2>1. stats' \in [Published -> Numbers]
      BY <1>6, <1>9 DEF FeedInv, Types
    <2> QED
      BY <1>5, <1>6, <1>7, <1>8, <2>1 DEF FeedInv, Types
  <1>11. TreeInv'
    BY <1>8 DEF FeedInv, TreeInv
  <1>12. /\ \A s \in Published \ drop : stats'[s] = stats[s]
         /\ \A s \in drop : stats'[s].count = 0 /\ stats'[s].rate = 0
    BY <1>4, <1>6, <1>9
  <1>13. CountsReachTheTree'
    BY <1>6, <1>8, <1>12 DEF FeedInv, StatsInv, StatsReachTheTree, CountsReachTheTree
  <1>14. RatesReachTheTree'
    BY <1>6, <1>8, <1>12 DEF FeedInv, StatsInv, StatsReachTheTree, RatesReachTheTree
  <1>15. (\A s \in Published : stats[s].rate > 0 => s \in active)'
    BY <1>6, <1>12 DEF FeedInv, StatsInv
  <1>16. DeadInv'
    BY <1>8 DEF FeedInv, DeadInv
  <1> QED
    BY <1>10, <1>11, <1>13, <1>14, <1>15, <1>16 DEF FeedInv, StatsInv, StatsReachTheTree

LEMMA ForgetTreeKeeps ==
    ASSUME FeedInv, NEW r \in Requests, ForgetTree(r)
    PROVE  FeedInv'
  <1> DEFINE gone == request[r].gone
  <1>1. /\ tree' = Pruned(gone)
        /\ touched' = (touched \cup UpFrom(gone \cap DOMAIN tree)) \cap DOMAIN tree'
        /\ view' = [c \in Tabs |-> [view[c] EXCEPT !.dirty = TRUE]]
        /\ overtaken' = overtaken \cup CameBack(gone)
        /\ \E orphans \in Orphans(gone) : dead' = dead \cup orphans
        /\ UNCHANGED <<stats, changed, active, inflight, mirror, damaged, reader, revived>>
    BY DEF ForgetTree, shards, wires
  <1>2. PICK x : x = [Idle EXCEPT !.step = "emit"]
    OBVIOUS
  <1>3. x \in Steps /\ request' = [request EXCEPT ![r] = x]
    BY <1>2 DEF ForgetTree, Idle, Steps
  <1>4. gone \in SUBSET Published
    BY DEF FeedInv, Types, Steps
  <1> HIDE DEF gone
  <1>5. Types'
    <2>1. CameBack(gone) \subseteq Published
      BY <1>4 DEF CameBack
    <2>2. \A v \in ViewStates : [v EXCEPT !.dirty = TRUE] \in ViewStates
      BY DEF ViewStates
    <2>3. view' \in [Tabs -> ViewStates]
      BY <1>1, <2>2 DEF FeedInv, Types
    <2>4. dead' \subseteq Subjects
      BY <1>1 DEF Orphans, FeedInv, Types, TreeInv, IsTree
    <2> QED
      BY <1>1, <1>3, <2>1, <2>3, <2>4 DEF FeedInv, Types
  <1>6. /\ IsTree(tree') /\ DOMAIN tree' \subseteq DOMAIN tree
        /\ \A s \in DOMAIN tree' \ gone : tree'[s] = tree[s]
        /\ \A s \in DOMAIN tree' \cap gone : tree'[s].rate = 0
        /\ \A s \in DOMAIN tree \ gone : tree[s].count > 0 => s \in DOMAIN tree'
        /\ \A s \in DOMAIN tree' \ UpFrom(gone \cap DOMAIN tree) : SaysItsSums(tree, s) => SaysItsSums(tree', s)
    BY <1>1, <1>4, PrunedIsATree DEF FeedInv
  <1>7. TreeInv'
    <2>1. \A s \in DOMAIN tree' \ touched' : SaysItsSums(tree', s)
      BY <1>1, <1>6 DEF FeedInv, TreeInv
    <2> QED
      BY <1>1, <1>6, <2>1 DEF TreeInv
  <1>8. /\ \A s \in Published : stats[s].count > 0 =>
             s \in changed \/ s \in overtaken \/ (s \in DOMAIN tree /\ tree[s].count = stats[s].count /\ tree[s].last = stats[s].last)
        /\ \A s \in DOMAIN tree \cap Published :
             stats[s].count > 0 /\ s \notin overtaken /\ tree[s].rate # stats[s].rate => s \in active
        /\ \A s \in Published : stats[s].rate > 0 => s \in active
        /\ \A s \in Published : stats[s].rate \in {0, 1}
    BY DEF FeedInv, StatsInv, StatsReachTheTree, CountsReachTheTree, RatesReachTheTree, Types, Numbers, Rate
  <1>9. \A s \in gone : stats[s].count > 0 => s \in changed \/ s \in overtaken'
    BY <1>1 DEF CameBack
  <1>10. CountsReachTheTree'
    <2> SUFFICES ASSUME NEW s \in Published, stats[s].count > 0, s \notin changed, s \notin overtaken'
                 PROVE  s \in DOMAIN tree' /\ tree'[s].count = stats[s].count /\ tree'[s].last = stats[s].last
      BY <1>1 DEF CountsReachTheTree
    <2>1. s \notin gone /\ s \notin overtaken
      BY <1>1, <1>9
    <2> QED
      BY <1>6, <1>8, <2>1
  <1>11. RatesReachTheTree'
    <2> SUFFICES ASSUME NEW s \in DOMAIN tree' \cap Published, stats[s].count > 0, s \notin overtaken', tree'[s].rate # stats[s].rate
                 PROVE  s \in active
      BY <1>1 DEF RatesReachTheTree
    <2>1. CASE s \in gone
      BY <1>6, <1>8, <2>1
    <2>2. CASE s \notin gone
      BY <1>1, <1>6, <1>8, <2>2
    <2> QED
      BY <2>1, <2>2
  <1>12. StatsInv'
    BY <1>1, <1>8, <1>10, <1>11 DEF StatsInv, StatsReachTheTree
  <1>13. DeadInv'
    <2>1. ASSUME NEW c \in Tabs PROVE view'[c].dirty
      <3>1. view'[c] = [view[c] EXCEPT !.dirty = TRUE] /\ view[c] \in ViewStates
        BY <1>1 DEF FeedInv, Types
      <3> QED
        BY <3>1 DEF ViewStates
    <2> QED
      BY <2>1 DEF DeadInv, Current
  <1> QED
    BY <1>5, <1>7, <1>12, <1>13 DEF FeedInv

LEMMA ForgetAllTreeKeeps ==
    ASSUME FeedInv, NEW r \in Requests, ForgetAllTree(r)
    PROVE  FeedInv'
  <1>1. /\ tree' = EmptyTree /\ touched' = {} /\ dead' = {} /\ revived' = {}
        /\ view' = [c \in Tabs |-> [view[c] EXCEPT !.needFull = TRUE]]
        /\ overtaken' = overtaken \cup CameBack(Published)
        /\ UNCHANGED <<stats, changed, active, inflight, mirror, damaged, reader>>
    BY DEF ForgetAllTree, shards, wires
  <1>2. PICK x : x = [Idle EXCEPT !.step = "emit"]
    OBVIOUS
  <1>3. x \in Steps /\ request' = [request EXCEPT ![r] = x]
    BY <1>2 DEF ForgetAllTree, Idle, Steps
  <1>4. Types'
    <2>1. CameBack(Published) \subseteq Published
      BY DEF CameBack
    <2>2. \A v \in ViewStates : [v EXCEPT !.needFull = TRUE] \in ViewStates
      BY DEF ViewStates
    <2>3. view' \in [Tabs -> ViewStates]
      BY <1>1, <2>2 DEF FeedInv, Types
    <2> QED
      BY <1>1, <1>3, <2>1, <2>3 DEF FeedInv, Types
  <1>5. DOMAIN tree' = {} /\ tree' \in [{} -> Nodes]
    BY <1>1 DEF EmptyTree
  <1>6. TreeInv'
    BY <1>1, <1>5 DEF TreeInv, IsTree
  <1>7. \A s \in Published : stats[s].count > 0 => s \in changed \/ s \in overtaken'
    BY <1>1 DEF CameBack
  <1>8. StatsInv'
    BY <1>1, <1>5, <1>7 DEF FeedInv, StatsInv, StatsReachTheTree, CountsReachTheTree, RatesReachTheTree
  <1> QED
    BY <1>1, <1>4, <1>6, <1>8 DEF FeedInv, DeadInv
-----------------------------------------------------------------------------
LEMMA FeedIsKept == FeedInv /\ [Next]_vars => FeedInv'
  <1> SUFFICES ASSUME FeedInv, [Next]_vars PROVE FeedInv'
    OBVIOUS
  <1>1. CASE UNCHANGED vars
    BY <1>1 DEF vars, FeedInv, Types, TreeInv, DeadInv, StatsInv, StatsReachTheTree, CountsReachTheTree, RatesReachTheTree
  <1>2. CASE Worker
    <2>1. Fading \subseteq Published
      BY BoundsAssumption
    <2> QED
      BY <1>2, <2>1, MessageKeeps, QuietKeeps DEF Worker
  <1>3. CASE TreeLoop
    <2>1. Emit("loop") /\ reader' = reader /\ request' = request
      BY <1>3 DEF TreeLoop
    <2>2. reader' \in [Tabs -> BOOLEAN] /\ request' \in [Requests -> Steps]
      BY <2>1 DEF FeedInv, Types
    <2> QED
      BY <2>1, <2>2, EmitKeeps
  <1>4. ASSUME NEW c \in Tabs, Tab(c) PROVE FeedInv'
    <2>1. CASE SetViewEmits(c)
      <3>1. Emit(c) /\ reader' = [reader EXCEPT ![c] = FALSE] /\ request' = request
        BY <2>1 DEF SetViewEmits
      <3>2. reader' \in [Tabs -> BOOLEAN] /\ request' \in [Requests -> Steps]
        BY <3>1 DEF FeedInv, Types
      <3> QED
        BY <3>1, <3>2, EmitKeeps
    <2>2. CASE Reconnect(c)
      BY <2>2, ReconnectKeeps
    <2>3. CASE \E w \in Views : SetView(c, w)
      BY <2>3, ViewKeeps
    <2>4. CASE \E i \in DOMAIN inflight[c] : Deliver(c, i) \/ Lose(c, i)
      BY <2>4, DeliverKeeps
    <2> QED
      BY <1>4, <2>1, <2>2, <2>3, <2>4 DEF Tab
  <1>5. ASSUME NEW r \in Requests, Clearing(r) PROVE FeedInv'
    <2>1. CASE ForgetEmits(r)
      <3>1. Emit(r) /\ reader' = reader /\ request' = [request EXCEPT ![r] = Idle]
        BY <2>1 DEF ForgetEmits
      <3>2. Idle \in Steps
        BY DEF Idle, Steps
      <3>3. reader' \in [Tabs -> BOOLEAN] /\ request' \in [Requests -> Steps]
        BY <3>1, <3>2 DEF FeedInv, Types
      <3> QED
        BY <3>1, <3>3, EmitKeeps
    <2>2. CASE ForgetShard(r)
      BY <2>2, ForgetShardKeeps
    <2>3. CASE ForgetTree(r)
      BY <2>3, ForgetTreeKeeps
    <2>4. CASE ForgetAllTree(r)
      BY <2>4, ForgetAllTreeKeeps
    <2>5. CASE ForgetAllStart(r) \/ ForgetNothing(r) \/ \E wanted \in Selections : ForgetStart(r, wanted)
      BY <2>5, StartKeeps
    <2> QED
      BY <1>5, <2>1, <2>2, <2>3, <2>4, <2>5 DEF Clearing
  <1> QED
    BY <1>1, <1>2, <1>3, <1>4, <1>5 DEF Next

(* Whatever was created, removed or left alone, a branch says what its whole *)
(* subtree holds once every change was refreshed (get, remove, refresh).    *)
THEOREM BranchesAddUp == Spec => []TreeAddsUp
  <1>1. FeedInv => TreeAddsUp
    BY TypesAreKept, SumsAreKept DEF FeedInv, TreeAddsUp
  <1> QED
    BY <1>1, InitHolds, FeedIsKept, PTL DEF Spec

(* Every count and rate of a shard is in the tree, or waits for the next    *)
(* emit, however messages, emits and clearing requests interleave           *)
(* (syncTree, Forget).                                                      *)
THEOREM NothingStaysUnknown == Spec => []StatsReachTheTree
  <1>1. FeedInv => StatsReachTheTree
    BY DEF FeedInv, StatsInv
  <1> QED
    BY <1>1, InitHolds, FeedIsKept, PTL DEF Spec
-----------------------------------------------------------------------------
(* What a tab sees, when no view asks for an expression: one that does shows *)
(* more than it should (OnlyMatchesStay).                                    *)
NoExpressions == \A v \in Views : ~v.expr

(* What was sent under an unchanged view is what the view shows.             *)
SentInv ==
    \A c \in Tabs : Current(view[c]) => touched = {} /\ view[c].sent = Collect(view[c].wants, tree)

LEMMA CollectIsRooted ==
    ASSUME NoExpressions, NEW w \in Views, NEW t, IsTree(t)
    PROVE  /\ \A s \in Collect(w, t) : Above[s] \subseteq Collect(w, t)
           /\ w.terms => Collect(w, t) = UpFrom(w.matching \cap DOMAIN t)
           /\ ~w.terms => Collect(w, t) = {s \in DOMAIN t : \A p \in Above[s] : Expanded(w, p)}
  <1>1. ~w.expr
    BY DEF NoExpressions
  <1>2. DOMAIN t \subseteq Subjects /\ \A s \in DOMAIN t : Above[s] \subseteq DOMAIN t
    BY DEF IsTree
  <1>3. ASSUME w.terms PROVE Collect(w, t) = UpFrom(w.matching \cap DOMAIN t)
    <2>1. {s \in DOMAIN t : MatchesNode(w, t, s)} = w.matching \cap DOMAIN t
      BY <1>1 DEF MatchesNode
    <2> QED
      BY <1>3, <2>1 DEF Collect, Filtering
  <1>4. ~w.terms => Collect(w, t) = {s \in DOMAIN t : \A p \in Above[s] : Expanded(w, p)}
    BY <1>1 DEF Collect, Filtering
  <1>5. CASE w.terms
    <2>1. w.matching \cap DOMAIN t \in SUBSET Subjects
      BY <1>2
    <2>2. \A s \in UpFrom(w.matching \cap DOMAIN t) : Above[s] \subseteq UpFrom(w.matching \cap DOMAIN t)
      BY <2>1, UpFromIs
    <2> QED
      BY <1>3, <1>5, <2>2
  <1>6. CASE ~w.terms
    <2>1. \A s \in Collect(w, t) : \A p \in Above[s] : p \in Collect(w, t)
      <3> SUFFICES ASSUME NEW s \in Collect(w, t), NEW p \in Above[s] PROVE p \in Collect(w, t)
        OBVIOUS
      <3>1. s \in DOMAIN t /\ p \in DOMAIN t /\ Above[p] \subseteq Above[s]
        BY <1>2, <1>4, <1>6, SubjectFacts
      <3> QED
        BY <1>4, <1>6, <3>1
    <2> QED
      BY <1>4, <1>6, <2>1
  <1> QED
    BY <1>3, <1>4, <1>5, <1>6

(* Of the branches above a subject, those not sent are the ones Unsent walks. *)
LEMMA UnsentIs ==
    ASSUME NEW v, NEW s \in Subjects, \A d \in v.sent : d \in Subjects /\ Above[d] \subseteq v.sent
    PROVE  /\ Unsent(v, s) \subseteq Above[s]
           /\ Above[s] \subseteq v.sent \cup Unsent(v, s)
  <1>1. Unsent(v, s) \subseteq Above[s]
    BY DEF Unsent
  <1>2. ASSUME NEW p \in Above[s], p \notin v.sent PROVE p \in Unsent(v, s)
    <2> SUFFICES ASSUME NEW q \in v.sent, q \in Above[s], q \notin Above[p] PROVE FALSE
      BY DEF Unsent
    <2>1. p = q \/ p \in Above[q]
      BY SubjectFacts
    <2> QED
      BY <1>2, <2>1
  <1> QED
    BY <1>1, <1>2

(* visible on the changed nodes comes to collect on the whole tree.          *)
LEMMA DeltaIsTheDifference ==
    ASSUME NoExpressions, FeedInv, SentInv, NEW c \in Tabs, Current(view[c]),
           NEW all, all = {s \in Reached : Visible(view[c], Emitted, s)}
                            \cup UNION {Unsent(view[c], s) : s \in {s \in Reached : Visible(view[c], Emitted, s)}}
    PROVE  /\ view[c].sent \cup all = Collect(view[c].wants, Emitted)
           /\ view[c].sent \cap Reached \subseteq all
           /\ all \subseteq DOMAIN Emitted
  <1> DEFINE v == view[c]
             w == v.wants
             t == Emitted
             seen == {s \in Reached : Visible(v, t, s)}
  <1>1. w \in Views /\ ~w.expr /\ w.terms \in BOOLEAN
    BY ViewIs DEF FeedInv, Types, ViewStates, NoExpressions
  <1>2. v.sent = Collect(w, tree) /\ Reached = UpFrom(Observed)
    BY DEF SentInv, Reached
  <1>3. IsTree(t) /\ IsTree(tree) /\ DOMAIN t = DOMAIN tree \cup Reached
    BY <1>2, EmittedIs DEF FeedInv, TreeInv
  <1>4. v.sent \subseteq DOMAIN tree /\ DOMAIN tree \subseteq Subjects /\ DOMAIN t \subseteq Subjects
    BY <1>2, <1>3, CollectIs DEF IsTree
  <1>5. \A d \in v.sent : d \in Subjects /\ Above[d] \subseteq v.sent
    <2>1. \A d \in Collect(w, tree) : Above[d] \subseteq Collect(w, tree)
      BY <1>1, <1>3, CollectIsRooted
    <2> HIDE DEF v, w
    <2> QED
      BY <1>2, <1>4, <2>1
  <1>6. \A s \in DOMAIN t : Above[s] \subseteq DOMAIN t
    BY <1>3 DEF IsTree
  <1>7. \A s \in seen : s \in DOMAIN t /\ s \in Reached /\ Unsent(v, s) \subseteq Above[s] /\ Above[s] \subseteq v.sent \cup Unsent(v, s)
    <2> SUFFICES ASSUME NEW s \in seen
                 PROVE  s \in DOMAIN t /\ s \in Reached /\ Unsent(v, s) \subseteq Above[s] /\ Above[s] \subseteq v.sent \cup Unsent(v, s)
      OBVIOUS
    <2>1. s \in DOMAIN t /\ s \in Subjects /\ s \in Reached
      BY <1>3, <1>4
    <2> HIDE DEF v
    <2> QED
      BY <1>5, <2>1, UnsentIs
  <1>8. \A s \in Reached : s \in seen <=> (IF w.terms THEN s \in v.sent \/ s \in w.matching
                                          ELSE \A p \in Above[s] : Expanded(w, p))
    BY <1>1 DEF Visible
  <1>9. /\ w.terms => Collect(w, tree) = UpFrom(w.matching \cap DOMAIN tree) /\ Collect(w, t) = UpFrom(w.matching \cap DOMAIN t)
        /\ ~w.terms => /\ Collect(w, tree) = {s \in DOMAIN tree : \A p \in Above[s] : Expanded(w, p)}
                       /\ Collect(w, t) = {s \in DOMAIN t : \A p \in Above[s] : Expanded(w, p)}
    BY <1>1, <1>3, CollectIsRooted
  <1>10. all = seen \cup UNION {Unsent(v, s) : s \in seen}
    OBVIOUS
  <1> HIDE DEF seen, v, w, t
  <1>11. \A p : p \in all <=> p \in seen \/ \E s \in seen : p \in Unsent(v, s)
    BY <1>10
  <1>12. all \subseteq DOMAIN t
    BY <1>6, <1>7, <1>11
  <1>13. CASE w.terms
    <2>1. w.matching \cap DOMAIN t \in SUBSET Subjects /\ w.matching \cap DOMAIN tree \in SUBSET Subjects
      BY <1>4
    <2>2. \A s : s \in Collect(w, t) <=> s \in Subjects /\ \E d \in w.matching \cap DOMAIN t : d \in Under[s]
      BY <1>9, <1>13, <2>1, UpFromIs
    <2>3. \A s : s \in v.sent <=> s \in Subjects /\ \E d \in w.matching \cap DOMAIN tree : d \in Under[s]
      BY <1>2, <1>9, <1>13, <2>1, UpFromIs
    <2>4. \A s \in seen : s \in Collect(w, t)
      <3> SUFFICES ASSUME NEW s \in seen PROVE s \in Collect(w, t)
        OBVIOUS
      <3>1. CASE s \in v.sent
        BY <1>3, <2>2, <2>3, <3>1
      <3>2. CASE s \in w.matching
        BY <1>4, <1>7, <2>2, <3>2, UnderIs
      <3> QED
        BY <1>7, <1>8, <1>13, <3>1, <3>2
    <2>5. \A s \in v.sent : s \in Collect(w, t)
      BY <1>3, <2>2, <2>3
    <2>6. \A s \in Collect(w, t) : Above[s] \subseteq Collect(w, t)
      BY <1>9, <1>13, <2>1, UpFromIs
    <2>7. all \subseteq Collect(w, t)
      BY <1>7, <1>11, <2>4, <2>6
    <2>8. ASSUME NEW s \in Collect(w, t) PROVE s \in v.sent \cup all
      <3>1. PICK d \in w.matching \cap DOMAIN t : d \in Under[s] /\ s \in Subjects
        BY <2>2
      <3>2. CASE d \in DOMAIN tree
        BY <2>3, <3>1, <3>2
      <3>3. CASE d \notin DOMAIN tree
        <4>1. d \in seen
          BY <1>3, <1>8, <1>13, <3>1, <3>3
        <4>2. s = d \/ s \in Above[d]
          BY <3>1, UnderIs
        <4> QED
          BY <1>7, <1>11, <4>1, <4>2
      <3> QED
        BY <3>2, <3>3
    <2>9. v.sent \cup all = Collect(w, t)
      BY <2>5, <2>7, <2>8
    <2>10. v.sent \cap Reached \subseteq all
      BY <1>8, <1>11, <1>13
    <2> QED
      BY <1>12, <2>9, <2>10 DEF v, w, t
  <1>14. CASE ~w.terms
    <2>1. \A s : s \in Collect(w, t) <=> s \in DOMAIN t /\ \A p \in Above[s] : Expanded(w, p)
      BY <1>9, <1>14
    <2>2. \A s : s \in v.sent <=> s \in DOMAIN tree /\ \A p \in Above[s] : Expanded(w, p)
      BY <1>2, <1>9, <1>14
    <2>3. \A s \in Reached : s \in seen <=> \A p \in Above[s] : Expanded(w, p)
      BY <1>8, <1>14
    <2>4. \A s \in DOMAIN t : \A p \in Above[s] : p \in DOMAIN t /\ Above[p] \subseteq Above[s]
      BY <1>4, <1>6, SubjectFacts
    <2>5. all \subseteq Collect(w, t)
      <3>1. \A s \in seen : s \in Collect(w, t)
        BY <1>7, <2>1, <2>3
      <3>2. \A s \in seen : \A p \in Unsent(v, s) : p \in Collect(w, t)
        BY <1>7, <2>1, <2>3, <2>4
      <3> QED
        BY <1>11, <3>1, <3>2
    <2>6. \A s \in Collect(w, t) : s \in v.sent \cup all
      BY <1>3, <1>11, <2>1, <2>2, <2>3
    <2>7. v.sent \subseteq Collect(w, t)
      BY <1>3, <2>1, <2>2
    <2>8. v.sent \cap Reached \subseteq all
      BY <1>11, <2>2, <2>3
    <2> QED
      BY <1>12, <2>5, <2>6, <2>7, <2>8 DEF v, w, t
  <1> QED
    BY <1>1, <1>13, <1>14
-----------------------------------------------------------------------------
(* What a tab will hold of a subject when the updates on their way have come. *)

(* e holds the node exactly when it was sent, with its present numbers unless *)
(* it changed since, or with the zeros of the dead node it came back from.    *)
Right(e, v, t, stale, back, s) ==
    /\ s \in DOMAIN e <=> s \in v.sent
    /\ s \in DOMAIN e /\ s \in DOMAIN t /\ s \notin stale =>
         e[s] = EntryOf(t, s, v.wants.preview) \/ (s \in back /\ e[s] = DeadEntry)

LastOn(q, j, s) == \A k \in DOMAIN q : k > j => s \notin News(q[k])

(* The newest word on s is right; with none on its way the tab is right, or   *)
(* damaged; and a removal above s comes last only when s is not to be seen.   *)
Ends(q, m, hurt, v, t, stale, back, s) ==
    /\ \A j \in DOMAIN q : s \in News(q[j]) /\ LastOn(q, j, s) => Right(q[j].up.entries, v, t, stale, back, s)
    /\ (\A j \in DOMAIN q : s \notin News(q[j])) => s \in hurt \/ Right(m, v, t, stale, back, s)
    /\ \A j \in DOMAIN q :
         s \in Concerns(q[j].up) /\ s \notin Names(q[j].up) /\ s \notin q[j].late /\ LastOn(q, j, s) => s \notin v.sent

EndsUp(q, m, hurt, v, t, stale, back) ==
    /\ ~v.loaded => v.needFull
    /\ ~v.needFull => \A s \in Subjects : Ends(q, m, hurt, v, t, stale, back, s)

TabInv == \A c \in Tabs : EndsUp(inflight[c], mirror[c], damaged[c], view[c], tree, touched, revived)

LEMMA EntrySame ==
    ASSUME NEW t, NEW u, NEW s \in Subjects, t[s] = u[s], Below(t, s) = Below(u, s), NEW preview
    PROVE  EntryOf(t, s, preview) = EntryOf(u, s, preview)
  <1>1. ChildrenIn(t, s) = ChildrenIn(u, s)
    BY ChildrenBelow DEF Below, ChildrenIn
  <1> QED
    BY <1>1 DEF EntryOf

(* What an update computed now says: it is right on every subject it names,   *)
(* and the others were right before.                                          *)
Says(up, v, w, t, back) ==
    \A s \in Subjects :
        /\ s \in Names(up) => Right(up.entries, w, t, {}, back, s)
        /\ s \notin Names(up) => ~v.needFull /\ (s \in w.sent <=> s \in v.sent) /\ (s \in w.sent => s \notin Reached)
        /\ s \in Concerns(up) /\ s \notin Names(up) => s \notin w.sent

Back(b) == (revived \ Reached) \cup b

(* After a change of the view: the difference.                                *)
LEMMA DifferenceSays ==
    ASSUME NoExpressions, FeedInv, NEW b, NEW c \in Tabs, view[c].loaded, ~view[c].needFull, view[c].dirty
    PROVE  /\ Told(c, b).view.sent = Collect(view[c].wants, Emitted)
           /\ Says(Told(c, b).up, view[c], Told(c, b).view, Emitted, Back(b))
  <1> DEFINE v == view[c]
             t == Emitted
             want == Collect(v.wants, t)
             new == (want \ v.sent) \cup (Reached \cap v.sent \cap want)
             e == LastWords(v, t, new, b \cap v.sent)
  <1>1. v \in ViewStates /\ v.wants \in Views /\ v.sent \subseteq Subjects
    BY DEF FeedInv, Types, ViewStates
  <1>2. IsTree(t)
    BY EmittedIs DEF FeedInv
  <1>3. /\ want \subseteq DOMAIN t /\ DOMAIN t \subseteq Subjects
        /\ \A s \in want : Above[s] \subseteq want
    BY <1>1, <1>2, CollectIs, CollectIsRooted DEF IsTree
  <1>4. Told(c, b) =
          [view |-> [v EXCEPT !.needFull = FALSE, !.dirty = FALSE, !.sent = want],
           up |-> [full |-> v.needFull, removed |-> v.sent \ want, entries |-> e]]
    BY DEF Told, Update, Difference
  <1>5. /\ DOMAIN e = new
        /\ \A s \in new : e[s] = EntryOf(t, s, v.wants.preview) \/ (s \in b /\ e[s] = DeadEntry)
    BY DEF LastWords
  <1> HIDE DEF want, v, t, e
  <1>6. PICK w : w = [v EXCEPT !.needFull = FALSE, !.dirty = FALSE, !.sent = want]
    OBVIOUS
  <1>7. w.sent = want /\ w.wants = v.wants
    BY <1>1, <1>6 DEF ViewStates
  <1>8. PICK up : up = [full |-> v.needFull, removed |-> v.sent \ want, entries |-> e]
    OBVIOUS
  <1>9. Told(c, b).view = w /\ Told(c, b).up = up
    BY <1>4, <1>6, <1>8
  <1>10. ~up.full /\ ~v.needFull /\ up.removed = v.sent \ want /\ up.entries = e
    BY <1>8 DEF v
  <1>11. Names(up) = new \cup (v.sent \ want)
    BY <1>5, <1>10 DEF Names
  <1>12. ASSUME NEW s \in Subjects, s \in Names(up) PROVE Right(up.entries, w, t, {}, Back(b), s)
    <2>1. s \in DOMAIN e <=> s \in want
      BY <1>5, <1>11, <1>12
    <2> QED
      BY <1>5, <1>7, <1>10, <2>1 DEF Right, Back
  <1>13. ASSUME NEW s \in Subjects, s \notin Names(up)
         PROVE  (s \in w.sent <=> s \in v.sent) /\ (s \in w.sent => s \notin Reached)
    BY <1>7, <1>11, <1>13
  <1>14. ASSUME NEW s \in Subjects, s \in Concerns(up), s \notin Names(up) PROVE s \notin w.sent
    <2>1. PICK r \in v.sent \ want : s \in Under[r]
      BY <1>10, <1>14 DEF Concerns
    <2>2. s = r \/ r \in Above[s]
      BY <1>1, <2>1, UnderIs
    <2> QED
      BY <1>3, <1>7, <2>1, <2>2
  <1>15. Says(up, v, w, t, Back(b))
    BY <1>10, <1>12, <1>13, <1>14 DEF Says
  <1> QED
    BY <1>7, <1>9, <1>15 DEF want, v, t

(* To a tab that starts over: everything.                                     *)
LEMMA FullSays ==
    ASSUME NoExpressions, FeedInv, NEW b, NEW c \in Tabs, view[c].loaded, view[c].needFull
    PROVE  /\ Told(c, b).view.sent = Collect(view[c].wants, Emitted)
           /\ Says(Told(c, b).up, view[c], Told(c, b).view, Emitted, Back(b))
  <1> DEFINE v == view[c]
             t == Emitted
             want == Collect(v.wants, t)
             new == (want \ {}) \cup (Reached \cap {} \cap want)
             e == LastWords(v, t, new, b \cap {})
  <1>1. v \in ViewStates
    BY DEF FeedInv, Types
  <1>2. Told(c, b) =
          [view |-> [v EXCEPT !.needFull = FALSE, !.dirty = FALSE, !.sent = want],
           up |-> [full |-> v.needFull, removed |-> {} \ want, entries |-> e]]
    BY DEF Told, Update, Difference
  <1>3. DOMAIN e = want /\ \A s \in want : e[s] = EntryOf(t, s, v.wants.preview)
    BY DEF LastWords
  <1> HIDE DEF want, v, t, e
  <1>4. PICK w : w = [v EXCEPT !.needFull = FALSE, !.dirty = FALSE, !.sent = want]
    OBVIOUS
  <1>5. w.sent = want /\ w.wants = v.wants
    BY <1>1, <1>4 DEF ViewStates
  <1>6. PICK up : up = [full |-> v.needFull, removed |-> {} \ want, entries |-> e]
    OBVIOUS
  <1>7. Told(c, b).view = w /\ Told(c, b).up = up
    BY <1>2, <1>4, <1>6
  <1>8. up.entries = e /\ Names(up) = Subjects
    BY <1>6 DEF v, Names
  <1>9. ASSUME NEW s \in Subjects PROVE Right(up.entries, w, t, {}, Back(b), s)
    BY <1>3, <1>5, <1>8 DEF Right
  <1>10. Says(up, v, w, t, Back(b))
    BY <1>8, <1>9 DEF Says
  <1> QED
    BY <1>5, <1>7, <1>10 DEF want, v, t

(* Otherwise: the changed nodes it can see.                                   *)
LEMMA DeltaSays ==
    ASSUME NoExpressions, FeedInv, SentInv, NEW b, NEW c \in Tabs, Current(view[c])
    PROVE  /\ Told(c, b).view.sent = Collect(view[c].wants, Emitted)
           /\ Says(Told(c, b).up, view[c], Told(c, b).view, Emitted, Back(b))
  <1> DEFINE v == view[c]
             t == Emitted
             all == {s \in Reached : Visible(v, t, s)} \cup UNION {Unsent(v, s) : s \in {s \in Reached : Visible(v, t, s)}}
             e == Entries(v, t, all)
  <1>1. v \in ViewStates /\ v.sent \subseteq Subjects
    BY DEF FeedInv, Types, ViewStates
  <1>2. /\ v.sent \cup all = Collect(v.wants, t)
        /\ v.sent \cap Reached \subseteq all
        /\ all \subseteq DOMAIN t
    BY DeltaIsTheDifference
  <1>3. Told(c, b) = [view |-> [v EXCEPT !.sent = v.sent \cup all], up |-> [NoUpdate EXCEPT !.entries = e]]
    BY DEF Told, Update, Delta, Current
  <1>4. DOMAIN e = all /\ \A s \in all : e[s] = EntryOf(t, s, v.wants.preview)
    BY DEF Entries
  <1>5. ~v.needFull
    BY DEF Current
  <1> HIDE DEF all, v, t, e
  <1>6. PICK w : w = [v EXCEPT !.sent = v.sent \cup all]
    OBVIOUS
  <1>7. w.sent = v.sent \cup all /\ w.wants = v.wants
    BY <1>1, <1>6 DEF ViewStates
  <1>8. PICK up : up = [NoUpdate EXCEPT !.entries = e]
    OBVIOUS
  <1>9. Told(c, b).view = w /\ Told(c, b).up = up
    BY <1>3, <1>6, <1>8
  <1>10. ~up.full /\ up.removed = {} /\ up.entries = e
    BY <1>8 DEF NoUpdate
  <1>11. Names(up) = all /\ Concerns(up) = all
    BY <1>4, <1>10 DEF Names, Concerns
  <1>12. ASSUME NEW s \in all PROVE Right(up.entries, w, t, {}, Back(b), s)
    BY <1>4, <1>7, <1>10 DEF Right
  <1>13. ASSUME NEW s \in Subjects, s \notin all
         PROVE  (s \in w.sent <=> s \in v.sent) /\ (s \in w.sent => s \notin Reached)
    BY <1>2, <1>7, <1>13
  <1>14. Says(up, v, w, t, Back(b))
    BY <1>5, <1>11, <1>12, <1>13 DEF Says
  <1> QED
    BY <1>2, <1>7, <1>9, <1>14 DEF v, t
-----------------------------------------------------------------------------
(* The steps, for what a tab sees. *)
SeenInv == FeedInv /\ SentInv /\ TabInv

LEMMA ToldSays ==
    ASSUME NoExpressions, SeenInv, NEW b, NEW c \in Tabs, view[c].loaded
    PROVE  /\ Told(c, b).view.sent = Collect(view[c].wants, Emitted)
           /\ Says(Told(c, b).up, view[c], Told(c, b).view, Emitted, Back(b))
  <1>1. view[c].dirty \in BOOLEAN /\ view[c].needFull \in BOOLEAN
    BY DEF SeenInv, FeedInv, Types, ViewStates
  <1>2. CASE view[c].needFull
    BY <1>2, FullSays DEF SeenInv
  <1>3. CASE ~view[c].needFull /\ view[c].dirty
    BY <1>3, DifferenceSays DEF SeenInv
  <1>4. CASE ~view[c].needFull /\ ~view[c].dirty
    BY <1>4, DeltaSays DEF SeenInv, Current
  <1> QED
    BY <1>1, <1>2, <1>3, <1>4

LEMMA ToldIs ==
    ASSUME FeedInv, NEW c \in Tabs, NEW b
    PROVE  /\ Told(c, b).view.wants = view[c].wants /\ Told(c, b).view.loaded = view[c].loaded
           /\ Told(c, b).up \in Ups
           /\ ~view[c].loaded => Told(c, b).view = view[c] /\ Told(c, b).up = NoUpdate
           /\ inflight[c] \in Seq(Pendings)
  <1>1. view[c] \in ViewStates /\ inflight[c] \in Seq(Pendings)
    BY DEF FeedInv, Types
  <1>2. IsTree(Emitted) /\ (\A s \in DOMAIN Emitted : SaysItsSums(Emitted, s)) /\ Reached \in SUBSET DOMAIN Emitted
    BY EmittedIs DEF FeedInv
  <1>3. ~view[c].loaded => Told(c, b).view = view[c] /\ Told(c, b).up = NoUpdate
    BY DEF Told, Update
  <1> QED
    BY <1>1, <1>2, <1>3, UpdateIs DEF Told

LEMMA EmitKeepsSent ==
    ASSUME NoExpressions, SeenInv, NEW e, NEW b, EmitWith(e, b)
    PROVE  SentInv'
  <1> SUFFICES ASSUME NEW c \in Tabs, Current(view'[c])
               PROVE  touched' = {} /\ view'[c].sent = Collect(view'[c].wants, tree')
    BY DEF SentInv
  <1>1. view'[c] = Told(c, b).view /\ tree' = Emitted /\ touched' = {}
    BY EmitIs
  <1>2. view[c].loaded /\ Told(c, b).view.wants = view[c].wants
    BY <1>1, ToldIs DEF SeenInv, Current
  <1> QED
    BY <1>1, <1>2, ToldSays

(* A subject the emit does not speak of is as right as it was.                *)
LEMMA StillRight ==
    ASSUME FeedInv, NEW b, NEW s \in Subjects, NEW x, NEW v, NEW w, w.wants = v.wants,
           s \in w.sent <=> s \in v.sent, s \in w.sent => s \notin Reached,
           Right(x, v, tree, touched, revived, s)
    PROVE  Right(x, w, Emitted, {}, Back(b), s)
  <1>1. s \in DOMAIN x <=> s \in w.sent
    BY DEF Right
  <1>2. ASSUME s \in DOMAIN x, s \in DOMAIN Emitted
        PROVE  x[s] = EntryOf(Emitted, s, w.wants.preview) \/ (s \in Back(b) /\ x[s] = DeadEntry)
    <2>1. s \notin Reached /\ s \notin touched
      BY <1>1, <1>2 DEF Reached
    <2>2. s \in DOMAIN tree /\ Emitted[s] = tree[s] /\ Below(Emitted, s) = Below(tree, s)
      BY <1>2, <2>1, EmittedIs DEF FeedInv
    <2>3. EntryOf(Emitted, s, w.wants.preview) = EntryOf(tree, s, v.wants.preview)
      BY <2>2, EntrySame
    <2> QED
      BY <1>2, <2>1, <2>2, <2>3 DEF Right, Back
  <1> QED
    BY <1>1, <1>2 DEF Right

(* One more update in the queue, or none.                                     *)
LEMMA EndsOn ==
    ASSUME FeedInv, NEW b, NEW s \in Subjects, NEW q \in Seq(Pendings), NEW p, p.late = {}, NEW m, NEW hurt, NEW v, NEW w,
           w.wants = v.wants, Says(p.up, v, w, Emitted, Back(b)),
           ~v.needFull => Ends(q, m, hurt, v, tree, touched, revived, s)
    PROVE  Ends(Append(q, p), m, hurt, w, Emitted, {}, Back(b), s)
  <1> DEFINE a == Append(q, p)
             n == Len(q)
  <1>1. /\ n \in Nat /\ DOMAIN q = 1..n /\ DOMAIN a = 1..(n + 1)
        /\ a[n + 1] = p /\ \A j \in 1..n : a[j] = q[j]
    OBVIOUS
  <1>2. News(p) = Names(p.up)
    BY DEF News
  <1>3. \A j \in DOMAIN a : j = n + 1 \/ (j \in DOMAIN q /\ a[j] = q[j] /\ n + 1 > j)
    BY <1>1
  <1>4. \A j \in DOMAIN q : j \in DOMAIN a /\ a[j] = q[j]
    BY <1>1
  <1>5. n + 1 \in DOMAIN a /\ a[n + 1] = p
    BY <1>1
  <1> HIDE DEF a, n
  <1>6. CASE s \in Names(p.up)
    <2>1. \A j \in DOMAIN a : LastOn(a, j, s) => j = n + 1
      BY <1>2, <1>3, <1>5, <1>6 DEF LastOn
    <2>2. Right(p.up.entries, w, Emitted, {}, Back(b), s)
      BY <1>6 DEF Says
    <2>3. \E j \in DOMAIN a : s \in News(a[j])
      BY <1>2, <1>5, <1>6
    <2> QED
      BY <1>5, <1>6, <2>1, <2>2, <2>3 DEF Ends, a
  <1>7. CASE s \notin Names(p.up)
    <2>1. /\ ~v.needFull /\ (s \in w.sent <=> s \in v.sent) /\ (s \in w.sent => s \notin Reached)
          /\ s \in Concerns(p.up) => s \notin w.sent
      BY <1>7 DEF Says
    <2>2. Ends(q, m, hurt, v, tree, touched, revived, s)
      BY <2>1
    <2>3. \A x : Right(x, v, tree, touched, revived, s) => Right(x, w, Emitted, {}, Back(b), s)
      BY <2>1, StillRight
    <2>4. \A j \in DOMAIN q : LastOn(a, j, s) => LastOn(q, j, s)
      BY <1>4 DEF LastOn
    <2>5. s \notin News(p)
      BY <1>2, <1>7
    <2>6. \A j \in DOMAIN a : s \in News(a[j]) /\ LastOn(a, j, s) => Right(a[j].up.entries, w, Emitted, {}, Back(b), s)
      BY <1>3, <1>5, <2>2, <2>3, <2>4, <2>5 DEF Ends
    <2>7. (\A j \in DOMAIN a : s \notin News(a[j])) => s \in hurt \/ Right(m, w, Emitted, {}, Back(b), s)
      BY <1>4, <2>2, <2>3 DEF Ends
    <2>8. \A j \in DOMAIN a :
            s \in Concerns(a[j].up) /\ s \notin Names(a[j].up) /\ s \notin a[j].late /\ LastOn(a, j, s) => s \notin w.sent
      BY <1>3, <1>5, <2>1, <2>2, <2>4 DEF Ends
    <2> QED
      BY <2>6, <2>7, <2>8 DEF Ends, a
  <1> QED
    BY <1>6, <1>7

LEMMA EndsStill ==
    ASSUME NEW q, NEW m, NEW hurt, NEW v, NEW w, NEW t, NEW u, NEW stale, NEW late, NEW back, NEW new, NEW s,
           w.sent = v.sent, \A x : Right(x, v, t, stale, back, s) => Right(x, w, u, late, new, s),
           Ends(q, m, hurt, v, t, stale, back, s)
    PROVE  Ends(q, m, hurt, w, u, late, new, s)
  BY DEF Ends

LEMMA EmitKeepsTheEnd ==
    ASSUME NoExpressions, SeenInv, NEW e, NEW b, EmitWith(e, b), NEW c \in Tabs
    PROVE  EndsUp(inflight'[c], mirror'[c], damaged'[c], view'[c], tree', touched', revived')
  <1> DEFINE q == inflight[c]
             v == view[c]
             w == Told(c, b).view
             up == Told(c, b).up
             p == [by |-> e, up |-> up, late |-> {}]
  <1>1. /\ view'[c] = w /\ tree' = Emitted /\ touched' = {} /\ revived' = Back(b)
        /\ inflight'[c] = (IF up = NoUpdate THEN q ELSE Append(q, p))
        /\ mirror'[c] = mirror[c] /\ damaged'[c] = damaged[c]
    <2>1. /\ tree' = Emitted /\ touched' = {} /\ revived' = Back(b)
          /\ mirror' = mirror /\ damaged' = damaged
      BY EmitIs DEF Back
    <2>2. view' = [d \in Tabs |-> Told(d, b).view]
      BY EmitIs
    <2>3. inflight' = [d \in Tabs |-> IF Told(d, b).up = NoUpdate THEN inflight[d]
                                      ELSE Append(inflight[d], [by |-> e, up |-> Told(d, b).up, late |-> {}])]
      BY EmitIs
    <2>4. view'[c] = w
      BY <2>2
    <2>5. inflight'[c] = (IF up = NoUpdate THEN q ELSE Append(q, p))
      BY <2>3
    <2> QED
      BY <2>1, <2>4, <2>5
  <1>2. /\ w.loaded = v.loaded /\ w.wants = v.wants /\ q \in Seq(Pendings)
        /\ ~v.loaded => w = v /\ up = NoUpdate
    BY ToldIs DEF SeenInv
  <1>3. EndsUp(q, mirror[c], damaged[c], v, tree, touched, revived)
    BY DEF SeenInv, TabInv
  <1>4. p.up = up /\ p.late = {}
    OBVIOUS
  <1>5. v.loaded => Says(up, v, w, Emitted, Back(b))
    BY ToldSays
  <1>6. FeedInv
    BY DEF SeenInv
  <1> HIDE DEF q, v, w, p, up
  <1>7. ~w.loaded => w.needFull
    BY <1>2, <1>3 DEF EndsUp
  <1>8. ASSUME ~w.needFull, NEW s \in Subjects
        PROVE  Ends(inflight'[c], mirror[c], damaged[c], w, Emitted, {}, Back(b), s)
    <2>1. Says(up, v, w, Emitted, Back(b))
      BY <1>2, <1>5, <1>7, <1>8
    <2>2. ~v.needFull => Ends(q, mirror[c], damaged[c], v, tree, touched, revived, s)
      BY <1>3 DEF EndsUp
    <2>3. CASE up = NoUpdate
      <3>1. Names(up) = {}
        BY <2>3 DEF Names, NoUpdate, EmptyTree
      <3>2. ~v.needFull /\ (s \in w.sent <=> s \in v.sent) /\ (s \in w.sent => s \notin Reached)
        BY <2>1, <3>1 DEF Says
      <3>3. \A x : Right(x, v, tree, touched, revived, s) => Right(x, w, Emitted, {}, Back(b), s)
        BY <1>2, <1>6, <3>2, StillRight
      <3>4. Ends(q, mirror[c], damaged[c], w, Emitted, {}, Back(b), s)
        BY <2>2, <3>2, <3>3 DEF Ends
      <3> QED
        BY <1>1, <2>3, <3>4
    <2>4. CASE up # NoUpdate
      <3>1. Ends(Append(q, p), mirror[c], damaged[c], w, Emitted, {}, Back(b), s)
        BY <1>2, <1>4, <1>6, <2>1, <2>2, EndsOn
      <3> QED
        BY <1>1, <2>4, <3>1
    <2> QED
      BY <2>3, <2>4
  <1> QED
    BY <1>1, <1>7, <1>8 DEF EndsUp

LEMMA OthersSeeTheSame ==
    ASSUME SentInv, TabInv, UNCHANGED <<tree, touched, revived, view, inflight, mirror, damaged>>
    PROVE  SentInv' /\ TabInv'
  BY DEF SentInv, TabInv

LEMMA ViewKeepsTheEnd ==
    ASSUME SeenInv, NEW c \in Tabs, NEW w \in Views, SetView(c, w)
    PROVE  SentInv' /\ TabInv'
  <1>1. PICK v : v = [view[c] EXCEPT !.wants = w, !.dirty = TRUE, !.loaded = TRUE,
                                     !.needFull = @ \/ view[c].wants.preview # w.preview]
    OBVIOUS
  <1>2. view[c] \in ViewStates
    BY DEF SeenInv, FeedInv, Types
  <1>3. v.dirty /\ v.loaded /\ v.sent = view[c].sent /\ v.wants = w
    BY <1>1, <1>2 DEF ViewStates
  <1>4. ~v.needFull => ~view[c].needFull /\ view[c].wants.preview = w.preview
    BY <1>1, <1>2 DEF ViewStates
  <1>5. view' = [view EXCEPT ![c] = v]
    BY <1>1 DEF SetView
  <1>6. view'[c] = v /\ \A d \in Tabs : d # c => view'[d] = view[d]
    BY <1>5 DEF SeenInv, FeedInv, Types
  <1>7. UNCHANGED <<tree, touched, revived, inflight, mirror, damaged>>
    BY DEF SetView, wires, nodes
  <1>8. SentInv'
    BY <1>3, <1>6, <1>7 DEF SentInv, SeenInv, Current
  <1>9. ASSUME ~v.needFull, NEW s \in Subjects
        PROVE  Ends(inflight[c], mirror[c], damaged[c], v, tree, touched, revived, s)
    <2>1. Ends(inflight[c], mirror[c], damaged[c], view[c], tree, touched, revived, s)
      BY <1>4, <1>9 DEF SeenInv, TabInv, EndsUp
    <2>2. \A x : Right(x, view[c], tree, touched, revived, s) => Right(x, v, tree, touched, revived, s)
      BY <1>3, <1>4, <1>9 DEF Right
    <2> QED
      BY <1>3, <2>1, <2>2, EndsStill
  <1>10. EndsUp(inflight[c], mirror[c], damaged[c], v, tree, touched, revived)
    BY <1>3, <1>9 DEF EndsUp
  <1>11. TabInv'
    BY <1>6, <1>7, <1>10 DEF SeenInv, TabInv
  <1> QED
    BY <1>8, <1>11

LEMMA ReconnectKeepsTheEnd ==
    ASSUME SeenInv, NEW c \in Tabs, Reconnect(c)
    PROVE  SentInv' /\ TabInv'
  <1>1. /\ view' = [view EXCEPT ![c] = NewView] /\ inflight' = [inflight EXCEPT ![c] = <<>>]
        /\ mirror' = [mirror EXCEPT ![c] = EmptyTree] /\ damaged' = [damaged EXCEPT ![c] = {}]
        /\ UNCHANGED <<tree, touched, revived>>
    BY DEF Reconnect, nodes
  <1>2. /\ view'[c] = NewView
        /\ \A d \in Tabs : d # c =>
             view'[d] = view[d] /\ inflight'[d] = inflight[d] /\ mirror'[d] = mirror[d] /\ damaged'[d] = damaged[d]
    BY <1>1 DEF SeenInv, FeedInv, Types
  <1>3. ~NewView.loaded /\ NewView.needFull
    BY DEF NewView
  <1>4. SentInv'
    BY <1>1, <1>2, <1>3 DEF SentInv, SeenInv, Current
  <1>5. TabInv'
    BY <1>1, <1>2, <1>3 DEF SeenInv, TabInv, EndsUp
  <1> QED
    BY <1>4, <1>5

(* An update leaves the queue: of what it names those before it are late from *)
(* then on.                                                                   *)
LEMMA EndsWithout ==
    ASSUME NEW s \in Subjects, NEW q \in Seq(Pendings), NEW i \in DOMAIN q, NEW m \in Wires, NEW n, NEW hurt, NEW worse,
           NEW v, NEW t, NEW stale, NEW back, Ends(q, m, hurt, v, t, stale, back, s),
           \/ /\ n = Apply(m, q[i].up)
              /\ worse = (hurt \ News(q[i])) \cup (Concerns(q[i].up) \cap q[i].late)
           \/ n = m /\ worse = hurt \cup News(q[i])
    PROVE  Ends(Without(q, i), n, worse, v, t, stale, back, s)
  <1> DEFINE a == Without(q, i)
             p == q[i]
             len == Len(q)
             Old(j) == IF j < i THEN j ELSE j + 1
             New(k) == IF k < i THEN k ELSE k - 1
  <1>1. /\ len \in Nat \ {0} /\ i \in 1..len /\ DOMAIN q = 1..len /\ DOMAIN a = 1..(len - 1) /\ p \in Pendings
        /\ \A j \in 1..(len - 1) : j < i => a[j] = Overtaken(q, i, j)
        /\ \A j \in 1..(len - 1) : j >= i => a[j] = q[j + 1]
    BY WithoutIs
  <1> HIDE DEF a, p, len
  <1>2. \A j \in DOMAIN a : j < i => j \in DOMAIN q /\ j # i
    BY <1>1
  <1>3. \A j \in DOMAIN a : ~(j < i) => j + 1 \in DOMAIN q /\ j + 1 > i /\ a[j] = q[j + 1]
    BY <1>1
  <1>4. \A k \in DOMAIN q : k < i => k \in DOMAIN a
    BY <1>1
  <1>5. \A k \in DOMAIN q : k > i => k - 1 \in DOMAIN a /\ ~(k - 1 < i) /\ a[k - 1] = q[k]
    BY <1>1
  <1>6. ASSUME NEW j \in DOMAIN a, j < i
        PROVE  /\ a[j].up = q[j].up
               /\ s \in News(a[j]) <=> s \in News(q[j]) /\ s \notin News(p)
               /\ s \in a[j].late <=> s \in q[j].late \/ (s \in Concerns(q[j].up) /\ s \in News(p))
    <2>1. j \in DOMAIN q /\ a[j] = Overtaken(q, i, j)
      BY <1>1, <1>2, <1>6
    <2>2. /\ Overtaken(q, i, j).up = q[j].up
          /\ Overtaken(q, i, j).late = q[j].late \cup (Concerns(q[j].up) \cap News(q[i]))
          /\ News(Overtaken(q, i, j)) = News(q[j]) \ News(q[i])
      BY <2>1, OvertakenIs
    <2> QED
      BY <2>1, <2>2 DEF p
  <1>7. \A k \in DOMAIN q : k > i /\ s \in News(q[k]) => k - 1 \in DOMAIN a /\ s \in News(a[k - 1])
    BY <1>5
  <1>8. \A k \in DOMAIN q : k < i /\ s \in News(q[k]) /\ s \notin News(p) => k \in DOMAIN a /\ s \in News(a[k])
    BY <1>4, <1>6
  <1>9. \A k \in DOMAIN q : k < i \/ k = i \/ k > i
    BY <1>1
  <1>10. ASSUME NEW j \in DOMAIN a, LastOn(a, j, s), j < i, s \notin News(p) PROVE LastOn(q, j, s)
    <2> SUFFICES ASSUME NEW k \in DOMAIN q, k > j, s \in News(q[k]) PROVE FALSE
      BY DEF LastOn
    <2>1. CASE k < i
      BY <1>8, <1>10, <2>1 DEF LastOn
    <2>2. CASE k = i
      BY <1>10, <2>2 DEF p
    <2>3. CASE k > i
      <3>1. k - 1 \in DOMAIN a /\ s \in News(a[k - 1])
        BY <1>7, <2>3
      <3>2. k - 1 > j
        BY <1>1, <1>10, <2>3
      <3> QED
        BY <1>10, <3>1, <3>2 DEF LastOn
    <2> QED
      BY <1>9, <2>1, <2>2, <2>3
  <1>11. ASSUME NEW j \in DOMAIN a, LastOn(a, j, s), ~(j < i) PROVE LastOn(q, j + 1, s)
    <2> SUFFICES ASSUME NEW k \in DOMAIN q, k > j + 1, s \in News(q[k]) PROVE FALSE
      BY DEF LastOn
    <2>1. k > i /\ k - 1 > j
      BY <1>1, <1>11
    <2> QED
      BY <1>7, <1>11, <2>1 DEF LastOn
  <1>12. ASSUME NEW j \in DOMAIN a, s \in News(a[j]), LastOn(a, j, s)
         PROVE  Right(a[j].up.entries, v, t, stale, back, s)
    <2>1. CASE j < i
      BY <1>2, <1>6, <1>10, <1>12, <2>1 DEF Ends
    <2>2. CASE ~(j < i)
      BY <1>3, <1>11, <1>12, <2>2 DEF Ends
    <2> QED
      BY <2>1, <2>2
  <1>13. ASSUME NEW j \in DOMAIN a, LastOn(a, j, s),
                s \in Concerns(a[j].up), s \notin Names(a[j].up), s \notin a[j].late
         PROVE  s \notin v.sent
    <2>1. CASE j < i
      <3>1. s \in Concerns(q[j].up) /\ s \notin Names(q[j].up) /\ s \notin q[j].late /\ s \notin News(p)
        BY <1>6, <1>13, <2>1
      <3>2. LastOn(q, j, s) /\ j \in DOMAIN q
        BY <1>2, <1>10, <1>13, <2>1, <3>1
      <3> QED
        BY <3>1, <3>2 DEF Ends
    <2>2. CASE ~(j < i)
      BY <1>3, <1>11, <1>13, <2>2 DEF Ends
    <2> QED
      BY <2>1, <2>2
  <1>14. /\ p.up \in Ups /\ News(p) = Names(p.up) \ p.late /\ p = q[i]
         /\ \A x \in Names(p.up) : x \in Concerns(p.up)
    BY <1>1, NamesAre DEF News, p
  <1>15. /\ s \in DOMAIN p.up.entries => s \in DOMAIN Apply(m, p.up) /\ Apply(m, p.up)[s] = p.up.entries[s]
         /\ s \in Names(p.up) /\ s \notin DOMAIN p.up.entries => s \notin DOMAIN Apply(m, p.up)
         /\ s \notin Names(p.up) =>
              /\ s \in DOMAIN Apply(m, p.up) => s \in DOMAIN m /\ Apply(m, p.up)[s] = m[s]
              /\ s \notin Concerns(p.up) /\ s \in DOMAIN m => s \in DOMAIN Apply(m, p.up)
    BY <1>14, ApplyIs
  <1>16. ASSUME \A j \in DOMAIN a : s \notin News(a[j])
         PROVE  s \in worse \/ Right(n, v, t, stale, back, s)
    <2>1. CASE s \in News(p)
      <3>1. CASE n = Apply(m, p.up)
        <4>1. LastOn(q, i, s)
          BY <1>7, <1>16 DEF LastOn
        <4>2. Right(p.up.entries, v, t, stale, back, s)
          BY <2>1, <4>1 DEF Ends, p
        <4> QED
          BY <1>14, <1>15, <2>1, <3>1, <4>2 DEF Right
      <3>2. CASE worse = hurt \cup News(p)
        BY <2>1, <3>2
      <3> QED
        BY <3>1, <3>2 DEF p
    <2>2. CASE s \notin News(p)
      <3>1. \A k \in DOMAIN q : s \notin News(q[k])
        BY <1>7, <1>8, <1>9, <1>14, <1>16, <2>2
      <3>2. s \in hurt \/ Right(m, v, t, stale, back, s)
        BY <3>1 DEF Ends
      <3>3. s \in hurt => s \in worse
        BY <1>14, <2>2
      <3>4. CASE n = m
        BY <3>2, <3>3, <3>4
      <3>5. CASE n = Apply(m, p.up) /\ worse = (hurt \ News(p)) \cup (Concerns(p.up) \cap p.late) /\ Right(m, v, t, stale, back, s)
        <4>1. CASE s \in Concerns(p.up) /\ s \in p.late
          BY <3>5, <4>1
        <4>2. CASE s \notin Concerns(p.up)
          <5>1. s \notin Names(p.up)
            BY <1>14, <4>2
          <5> QED
            BY <1>15, <3>5, <4>2, <5>1 DEF Right
        <4>3. CASE s \in Concerns(p.up) /\ s \notin p.late
          <5>1. s \notin Names(p.up) /\ LastOn(q, i, s)
            BY <1>14, <2>2, <3>1, <4>3 DEF LastOn
          <5>2. s \notin v.sent
            BY <1>14, <4>3, <5>1 DEF Ends
          <5>3. s \notin DOMAIN m
            BY <3>5, <5>2 DEF Right
          <5> QED
            BY <1>15, <3>5, <5>1, <5>2, <5>3 DEF Right
        <4> QED
          BY <4>1, <4>2, <4>3
      <3> QED
        BY <1>14, <3>2, <3>3, <3>4, <3>5
    <2> QED
      BY <2>1, <2>2
  <1> QED
    BY <1>12, <1>13, <1>16 DEF Ends, a

LEMMA DeliverKeepsTheEnd ==
    ASSUME SeenInv, NEW c \in Tabs, NEW i \in DOMAIN inflight[c], Deliver(c, i) \/ Lose(c, i)
    PROVE  SentInv' /\ TabInv'
  <1> DEFINE q == inflight[c]
             a == Without(q, i)
  <1>1. /\ inflight' = [inflight EXCEPT ![c] = a]
        /\ UNCHANGED <<tree, touched, revived, view>>
    BY DEF Deliver, Lose, nodes
  <1>2. /\ q \in Seq(Pendings) /\ mirror[c] \in Wires
        /\ EndsUp(q, mirror[c], damaged[c], view[c], tree, touched, revived)
    BY DEF SeenInv, FeedInv, Types, TabInv
  <1>3. /\ inflight'[c] = a /\ \A d \in Tabs : d # c => inflight'[d] = inflight[d]
        /\ \A d \in Tabs : d # c => mirror'[d] = mirror[d] /\ damaged'[d] = damaged[d]
    BY <1>1 DEF SeenInv, FeedInv, Types, Deliver, Lose
  <1>4. \/ /\ mirror'[c] = Apply(mirror[c], q[i].up)
           /\ damaged'[c] = (damaged[c] \ News(q[i])) \cup (Concerns(q[i].up) \cap q[i].late)
        \/ mirror'[c] = mirror[c] /\ damaged'[c] = damaged[c] \cup News(q[i])
    <2>1. damaged \in [Tabs -> SUBSET Subjects] /\ mirror \in [Tabs -> Wires]
      BY DEF SeenInv, FeedInv, Types
    <2>2. CASE Deliver(c, i)
      BY <2>1, <2>2 DEF Deliver
    <2>3. CASE Lose(c, i)
      BY <2>1, <2>3 DEF Lose
    <2> QED
      BY <2>2, <2>3
  <1> HIDE DEF q, a
  <1>5. ASSUME ~view[c].needFull, NEW s \in Subjects
        PROVE  Ends(a, mirror'[c], damaged'[c], view[c], tree, touched, revived, s)
    <2>1. Ends(q, mirror[c], damaged[c], view[c], tree, touched, revived, s)
      BY <1>2, <1>5 DEF EndsUp
    <2>2. i \in DOMAIN q
      BY DEF q
    <2>3. Ends(Without(q, i), mirror'[c], damaged'[c], view[c], tree, touched, revived, s)
      BY <1>2, <1>4, <2>1, <2>2, EndsWithout
    <2> QED
      BY <2>3 DEF a
  <1>6. EndsUp(a, mirror'[c], damaged'[c], view[c], tree, touched, revived)
    BY <1>2, <1>5 DEF EndsUp
  <1>7. TabInv'
    BY <1>1, <1>3, <1>6 DEF SeenInv, TabInv
  <1>8. SentInv'
    BY <1>1 DEF SeenInv, SentInv
  <1> QED
    BY <1>7, <1>8

LEMMA ForgetTreeKeepsTheEnd ==
    ASSUME SeenInv, NEW r \in Requests, ForgetTree(r)
    PROVE  SentInv' /\ TabInv'
  <1> DEFINE gone == request[r].gone
  <1>1. /\ tree' = Pruned(gone)
        /\ touched' = (touched \cup UpFrom(gone \cap DOMAIN tree)) \cap DOMAIN tree'
        /\ view' = [c \in Tabs |-> [view[c] EXCEPT !.dirty = TRUE]]
        /\ UNCHANGED <<inflight, mirror, damaged, revived>>
    BY DEF ForgetTree, wires
  <1>2. gone \in SUBSET Published
    BY DEF SeenInv, FeedInv, Types, Steps
  <1> HIDE DEF gone
  <1>3. /\ DOMAIN tree' \subseteq DOMAIN tree /\ DOMAIN tree \subseteq Subjects
        /\ \A s \in DOMAIN tree \ UpFrom(gone \cap DOMAIN tree) : tree'[s] = tree[s] /\ Below(tree', s) = Below(tree, s)
    BY <1>1, <1>2, PrunedIsATree DEF SeenInv, FeedInv, TreeInv, IsTree
  <1>4. ASSUME NEW c \in Tabs
        PROVE  /\ view'[c].dirty /\ view'[c].loaded = view[c].loaded /\ view'[c].needFull = view[c].needFull
               /\ view'[c].sent = view[c].sent /\ view'[c].wants = view[c].wants
    <2>1. view'[c] = [view[c] EXCEPT !.dirty = TRUE] /\ view[c] \in ViewStates
      BY <1>1 DEF SeenInv, FeedInv, Types
    <2> QED
      BY <2>1 DEF ViewStates
  <1>5. SentInv'
    BY <1>4 DEF SentInv, Current
  <1>6. \A s \in DOMAIN tree' \ touched' : \A preview :
          s \in DOMAIN tree \ touched /\ EntryOf(tree', s, preview) = EntryOf(tree, s, preview)
    <2> SUFFICES ASSUME NEW s \in DOMAIN tree' \ touched', NEW preview
                 PROVE  s \in DOMAIN tree \ touched /\ EntryOf(tree', s, preview) = EntryOf(tree, s, preview)
      OBVIOUS
    <2>1. s \in DOMAIN tree \ touched /\ s \notin UpFrom(gone \cap DOMAIN tree) /\ s \in Subjects
      BY <1>1, <1>3
    <2>2. tree'[s] = tree[s] /\ Below(tree', s) = Below(tree, s)
      BY <1>3, <2>1
    <2> QED
      BY <2>1, <2>2, EntrySame
  <1>7. ASSUME NEW c \in Tabs, NEW s \in Subjects, NEW x, Right(x, view[c], tree, touched, revived, s)
        PROVE  Right(x, view'[c], tree', touched', revived, s)
    <2>1. s \in DOMAIN tree' /\ s \notin touched' =>
            /\ s \in DOMAIN tree /\ s \notin touched
            /\ EntryOf(tree', s, view'[c].wants.preview) = EntryOf(tree, s, view[c].wants.preview)
      BY <1>4, <1>6
    <2> QED
      BY <1>4, <1>7, <2>1 DEF Right
  <1>8. ASSUME NEW c \in Tabs PROVE EndsUp(inflight[c], mirror[c], damaged[c], view'[c], tree', touched', revived)
    <2>1. EndsUp(inflight[c], mirror[c], damaged[c], view[c], tree, touched, revived)
      BY DEF SeenInv, TabInv
    <2>2. ASSUME ~view'[c].needFull, NEW s \in Subjects
          PROVE  Ends(inflight[c], mirror[c], damaged[c], view'[c], tree', touched', revived, s)
      <3>1. Ends(inflight[c], mirror[c], damaged[c], view[c], tree, touched, revived, s)
        BY <1>4, <2>1, <2>2 DEF EndsUp
      <3>2. \A x : Right(x, view[c], tree, touched, revived, s) => Right(x, view'[c], tree', touched', revived, s)
        BY <1>7
      <3>3. view'[c].sent = view[c].sent
        BY <1>4
      <3>4. PICK v, w, t, u, k, l : v = view[c] /\ w = view'[c] /\ t = tree /\ u = tree' /\ k = touched /\ l = touched'
        OBVIOUS
      <3>5. Ends(inflight[c], mirror[c], damaged[c], w, u, l, revived, s)
        BY <3>1, <3>2, <3>3, <3>4, EndsStill
      <3> QED
        BY <3>4, <3>5
    <2>3. ~view'[c].loaded => view'[c].needFull
      BY <1>4, <2>1 DEF EndsUp
    <2> QED
      BY <2>2, <2>3 DEF EndsUp
  <1>9. TabInv'
    BY <1>1, <1>8 DEF TabInv
  <1> QED
    BY <1>5, <1>9

LEMMA ForgetAllTreeKeepsTheEnd ==
    ASSUME SeenInv, NEW r \in Requests, ForgetAllTree(r)
    PROVE  SentInv' /\ TabInv'
  <1>1. view' = [c \in Tabs |-> [view[c] EXCEPT !.needFull = TRUE]]
    BY DEF ForgetAllTree
  <1>2. ASSUME NEW c \in Tabs PROVE view'[c].needFull
    <2>1. view'[c] = [view[c] EXCEPT !.needFull = TRUE] /\ view[c] \in ViewStates
      BY <1>1 DEF SeenInv, FeedInv, Types
    <2> QED
      BY <2>1 DEF ViewStates
  <1> QED
    BY <1>2 DEF SentInv, Current, TabInv, EndsUp
-----------------------------------------------------------------------------
LEMMA SeenFromTheStart == Init => SeenInv
  <1> SUFFICES ASSUME Init PROVE SentInv /\ TabInv
    BY InitHolds DEF SeenInv
  <1>1. \A c \in Tabs : view[c] = NewView
    BY DEF Init
  <1>2. ~NewView.loaded /\ NewView.needFull
    BY DEF NewView
  <1> QED
    BY <1>1, <1>2 DEF SentInv, TabInv, Current, EndsUp

LEMMA SeenIsKept ==
    ASSUME NoExpressions
    PROVE  SeenInv /\ [Next]_vars => SeenInv'
  <1> SUFFICES ASSUME SeenInv, [Next]_vars PROVE SentInv' /\ TabInv'
    BY FeedIsKept DEF SeenInv
  <1>0. SentInv /\ TabInv
    BY DEF SeenInv
  <1>1. ASSUME UNCHANGED <<tree, touched, revived, view, inflight, mirror, damaged>> PROVE SentInv' /\ TabInv'
    BY <1>0, <1>1, OthersSeeTheSame
  <1>2. ASSUME NEW e, Emit(e) PROVE SentInv' /\ TabInv'
    <2>1. PICK b : EmitWith(e, b)
      BY <1>2 DEF Emit
    <2>2. \A c \in Tabs : EndsUp(inflight'[c], mirror'[c], damaged'[c], view'[c], tree', touched', revived')
      BY <2>1, EmitKeepsTheEnd
    <2>3. SentInv'
      BY <2>1, EmitKeepsSent
    <2> QED
      BY <2>2, <2>3 DEF TabInv
  <1>3. CASE UNCHANGED vars
    BY <1>1, <1>3 DEF vars
  <1>4. CASE Worker
    BY <1>1, <1>4 DEF Worker, Message, Quiet, wires, nodes
  <1>5. CASE TreeLoop
    BY <1>2, <1>5 DEF TreeLoop
  <1>6. ASSUME NEW c \in Tabs, Tab(c) PROVE SentInv' /\ TabInv'
    <2>1. CASE SetViewEmits(c)
      BY <1>2, <2>1 DEF SetViewEmits
    <2>2. CASE Reconnect(c)
      BY <2>2, ReconnectKeepsTheEnd
    <2>3. CASE \E w \in Views : SetView(c, w)
      BY <2>3, ViewKeepsTheEnd
    <2>4. CASE \E i \in DOMAIN inflight[c] : Deliver(c, i) \/ Lose(c, i)
      BY <2>4, DeliverKeepsTheEnd
    <2> QED
      BY <1>6, <2>1, <2>2, <2>3, <2>4 DEF Tab
  <1>7. ASSUME NEW r \in Requests, Clearing(r) PROVE SentInv' /\ TabInv'
    <2>1. CASE ForgetEmits(r)
      BY <1>2, <2>1 DEF ForgetEmits
    <2>2. CASE ForgetTree(r)
      BY <2>2, ForgetTreeKeepsTheEnd
    <2>3. CASE ForgetAllTree(r)
      BY <2>3, ForgetAllTreeKeepsTheEnd
    <2>4. CASE ForgetShard(r)
      BY <1>1, <2>4 DEF ForgetShard, wires, nodes
    <2>5. CASE ForgetAllStart(r) \/ ForgetNothing(r) \/ \E wanted \in Selections : ForgetStart(r, wanted)
      BY <1>1, <2>5 DEF ForgetAllStart, ForgetNothing, ForgetStart, wires, nodes
    <2> QED
      BY <1>7, <2>1, <2>2, <2>3, <2>4, <2>5 DEF Clearing
  <1> QED
    BY <1>3, <1>4, <1>5, <1>6, <1>7 DEF Next

LEMMA SentIsTheView ==
    SeenInv => SentIsVisible
  BY DEF SeenInv, SentInv, SentIsVisible, Settled, Current

LEMMA HeldIsTheView ==
    SeenInv => TabShowsTheTree
  <1> SUFFICES ASSUME SeenInv, NEW c \in Tabs, Settled(c), inflight[c] = <<>>, NEW s \in Subjects, s \notin damaged[c]
               PROVE  /\ s \in DOMAIN mirror[c] <=> s \in Collect(view[c].wants, tree)
                      /\ s \in DOMAIN mirror[c] =>
                           \/ mirror[c][s] = EntryOf(tree, s, view[c].wants.preview)
                           \/ s \in revived /\ mirror[c][s] = DeadEntry
    BY DEF TabShowsTheTree
  <1>1. Current(view[c]) /\ ~view[c].needFull /\ touched = {}
    BY DEF Settled, Current
  <1>2. view[c].sent = Collect(view[c].wants, tree)
    BY <1>1 DEF SeenInv, SentInv
  <1>3. view[c].sent \subseteq DOMAIN tree
    BY <1>2, CollectIs DEF SeenInv, FeedInv, TreeInv
  <1>4. Ends(<<>>, mirror[c], damaged[c], view[c], tree, touched, revived, s)
    BY <1>1 DEF SeenInv, TabInv, EndsUp
  <1>5. Right(mirror[c], view[c], tree, touched, revived, s)
    <2>1. \A j \in DOMAIN <<>> : s \notin News(<<>>[j])
      OBVIOUS
    <2> QED
      BY <1>4, <2>1 DEF Ends
  <1> QED
    BY <1>1, <1>2, <1>3, <1>5 DEF Right

(* Judging the changed nodes alone keeps the set of sent nodes equal to what *)
(* walking the whole tree finds, for views without an expression (visible,   *)
(* collect, update).                                                         *)
THEOREM ChangesAreEnough ==
    ASSUME NoExpressions
    PROVE  Spec => []SentIsVisible
  BY SeenFromTheStart, SeenIsKept, SentIsTheView, PTL DEF Spec

(* Once nothing is on its way a tab shows, subject by subject, exactly its    *)
(* view of the tree, whatever was lost or overtaken on other subjects; the    *)
(* numbers are the present ones, or the zeros of a dead node that was listed  *)
(* beside the one that took its place (emitTree, update, SendToClient,        *)
(* TreeModel.apply), for views without an expression.                         *)
THEOREM TabsCatchUp ==
    ASSUME NoExpressions
    PROVE  Spec => []TabShowsTheTree
  BY SeenFromTheStart, SeenIsKept, HeldIsTheView, PTL DEF Spec
=============================================================================
