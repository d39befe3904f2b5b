----------------------------- MODULE FiniteSums -----------------------------
(* Sums over finite sets, as the models write them with MapThenSumSet:      *)
(* taking an element out of the set, or putting one in, changes the sum by  *)
(* that element's value. A sum is defined by recursion over subsets, and    *)
(* these facts are inductions; an induction here is over a set of numbers   *)
(* or of subsets, from the least number of a set of naturals.               *)
EXTENDS Integers, FiniteSetsExt, FiniteSetTheorems, WellFoundedInduction, TLAPS

SumOver(f, S) == MapThenSumSet(LAMBDA x : f[x], S)

First(s) == CHOOSE x \in s : TRUE

(* The recursion behind the sum: g is the sum of f over each subset of S.   *)
Unrolls(f, S, g) ==
    g = [s \in SUBSET S |-> IF s = {} THEN 0 ELSE f[First(s)] + g[s \ {First(s)}]]
-----------------------------------------------------------------------------
(* Induction, with a set in place of a property. *)
LEMMA LeastNumber ==
  ASSUME NEW T \in SUBSET Nat, T # {}
  PROVE  \E n \in T : \A m \in T : n <= m
  <1> DEFINE R == OpToRel(<, Nat)
  <1>1. \E n \in T : \A m \in T : ~ (<<m, n>> \in R)
    BY NatLessThanWellFounded, WFMin
  <1>2. \A m, n \in Nat : m < n => <<m, n>> \in R
    BY DEF OpToRel
  <1> HIDE DEF R
  <1>3. PICK n \in T : \A m \in T : ~ (<<m, n>> \in R)
    BY <1>1
  <1>4. ASSUME NEW m \in T PROVE n <= m
    <2>1. ~ (m < n) /\ m \in Nat /\ n \in Nat
      BY <1>2, <1>3
    <2> QED BY <2>1
  <1> QED BY <1>3, <1>4

LEMMA NumberInduction ==
  ASSUME NEW S, 0 \in S, \A n \in Nat : n \in S => n + 1 \in S
  PROVE  \A n \in Nat : n \in S
  <1> SUFFICES ASSUME Nat \ S # {} PROVE FALSE
    OBVIOUS
  <1>1. PICK n \in Nat \ S : \A m \in Nat \ S : n <= m
    BY LeastNumber
  <1>2. n # 0 /\ n - 1 \in Nat /\ ~ (n <= n - 1)
    BY <1>1
  <1>3. n - 1 \in S
    BY <1>1, <1>2
  <1>4. (n - 1) + 1 \in S
    BY <1>2, <1>3
  <1> QED BY <1>1, <1>4

LEMMA SetInduction ==
  ASSUME NEW S, IsFiniteSet(S), NEW F, {} \in F,
         \A T \in SUBSET S : T # {} /\ (\A x \in T : T \ {x} \in F) => T \in F
  PROVE  S \in F
  <1> DEFINE N == {n \in Nat : \A T \in SUBSET S : Cardinality(T) = n => T \in F}
  <1>1. \A T \in SUBSET S : IsFiniteSet(T) /\ Cardinality(T) \in Nat /\ (Cardinality(T) = 0 <=> T = {})
    BY FS_Subset, FS_CardinalityType, FS_EmptySet
  <1>2. 0 \in N
    BY <1>1
  <1>3. ASSUME NEW n \in Nat, n \in N PROVE n + 1 \in N
    <2> SUFFICES ASSUME NEW T \in SUBSET S, Cardinality(T) = n + 1 PROVE T \in F
      OBVIOUS
    <2>1. T # {}
      BY <1>1
    <2>2. \A x \in T : T \ {x} \in SUBSET S /\ Cardinality(T \ {x}) = n
      BY <1>1, FS_RemoveElement
    <2> QED BY <1>3, <2>1, <2>2
  <1> HIDE DEF N
  <1>4. \A n \in Nat : n \in N
    BY <1>2, <1>3, NumberInduction
  <1> QED BY <1>1, <1>4 DEF N
-----------------------------------------------------------------------------
(* The recursion has a solution, and it is the only one. *)
LEMMA FirstIn == \A s : s # {} => First(s) \in s
  BY DEF First

LEMMA SumExists ==
  ASSUME NEW f, NEW S, IsFiniteSet(S)
  PROVE  \E g : Unrolls(f, S, g)
  <1> DEFINE UpTo(n) == {s \in SUBSET S : Cardinality(s) <= n}
             Step(g, s) == IF s = {} THEN 0 ELSE f[First(s)] + g[s \ {First(s)}]
             N == {n \in Nat : \E g : g = [s \in UpTo(n) |-> Step(g, s)]}
  <1>1. \A s \in SUBSET S : IsFiniteSet(s) /\ Cardinality(s) \in Nat /\ (Cardinality(s) = 0 <=> s = {})
    BY FS_Subset, FS_CardinalityType, FS_EmptySet
  <1>2. \A s \in SUBSET S : s # {} => s \ {First(s)} \in SUBSET S /\ Cardinality(s \ {First(s)}) = Cardinality(s) - 1
    BY <1>1, FirstIn, FS_RemoveElement
  <1>3. 0 \in N
    <2> DEFINE g == [s \in UpTo(0) |-> 0]
    <2>1. \A s \in UpTo(0) : s = {}
      BY <1>1
    <2>2. g = [s \in UpTo(0) |-> Step(g, s)]
      BY <2>1
    <2> QED BY <2>2
  <1>4. ASSUME NEW n \in Nat, n \in N PROVE n + 1 \in N
    <2>1. PICK g : g = [s \in UpTo(n) |-> Step(g, s)]
      BY <1>4
    <2> DEFINE h == [s \in UpTo(n + 1) |-> IF s \in UpTo(n) THEN g[s] ELSE Step(g, s)]
    <2>2. \A s \in UpTo(n + 1) : s # {} => s \ {First(s)} \in UpTo(n)
      BY <1>1, <1>2
    <2>3. \A s \in UpTo(n) : s \in UpTo(n + 1)
      BY <1>1
    <2>4. \A s \in UpTo(n) : h[s] = g[s]
      BY <2>3
    <2>5. \A s \in UpTo(n) : g[s] = Step(g, s)
      BY <2>1
    <2>6. \A s \in UpTo(n + 1) : h[s] = Step(g, s)
      BY <2>5
    <2>7. ASSUME NEW s \in UpTo(n + 1) PROVE Step(h, s) = Step(g, s)
      <3>1. s # {} => h[s \ {First(s)}] = g[s \ {First(s)}]
        BY <2>2, <2>4
      <3> QED BY <3>1
    <2>8. \A s \in UpTo(n + 1) : h[s] = Step(h, s)
      BY <2>6, <2>7
    <2> HIDE DEF Step
    <2>9. h = [s \in UpTo(n + 1) |-> Step(h, s)]
      BY <2>8
    <2> HIDE DEF h, UpTo
    <2> QED BY <2>9
  <1> HIDE DEF N
  <1>5. Cardinality(S) \in N
    BY <1>1, <1>3, <1>4, NumberInduction
  <1>6. UpTo(Cardinality(S)) = SUBSET S
    BY FS_Subset, FS_CardinalityType
  <1> QED BY <1>5, <1>6 DEF N, Unrolls

LEMMA SumUnique ==
  ASSUME NEW f, NEW S, NEW T, NEW g, NEW h, Unrolls(f, S, g), Unrolls(f, T, h),
         NEW u, u \subseteq S, u \subseteq T, IsFiniteSet(u)
  PROVE  g[u] = h[u]
  <1> DEFINE F == {s \in SUBSET u : g[s] = h[s]}
  <1>1. {} \in F
    BY DEF Unrolls
  <1>2. ASSUME NEW s \in SUBSET u, s # {}, \A x \in s : s \ {x} \in F PROVE s \in F
    <2>1. g[s \ {First(s)}] = h[s \ {First(s)}]
      BY <1>2, FirstIn
    <2>2. g[s] = f[First(s)] + g[s \ {First(s)}] /\ h[s] = f[First(s)] + h[s \ {First(s)}]
      BY <1>2 DEF Unrolls
    <2> QED BY <2>1, <2>2
  <1> HIDE DEF F
  <1>3. u \in F
    BY <1>1, <1>2, SetInduction
  <1> QED BY <1>3 DEF F

(* Whatever solves the recursion is the sum. *)
LEMMA SumSolves ==
  ASSUME NEW f, NEW S, IsFiniteSet(S)
  PROVE  /\ \E g : Unrolls(f, S, g)
         /\ \A g : Unrolls(f, S, g) => \A T \in SUBSET S : g[T] = SumOver(f, T)
  <1>1. ASSUME NEW T \in SUBSET S PROVE \E h : Unrolls(f, T, h) /\ SumOver(f, T) = h[T]
    <2> DEFINE h == CHOOSE h : Unrolls(f, T, h)
    <2>1. SumOver(f, T) = h[T]
      BY DEF SumOver, MapThenSumSet, MapThenFoldSet, Unrolls, First
    <2>2. IsFiniteSet(T)
      BY FS_Subset
    <2>3. Unrolls(f, T, h)
      BY <2>2, SumExists
    <2> QED BY <2>1, <2>3
  <1>2. ASSUME NEW g, Unrolls(f, S, g), NEW T \in SUBSET S PROVE g[T] = SumOver(f, T)
    <2>1. IsFiniteSet(T)
      BY FS_Subset
    <2>2. PICK h : Unrolls(f, T, h) /\ SumOver(f, T) = h[T]
      BY <1>1
    <2> QED BY <1>2, <2>1, <2>2, SumUnique
  <1> QED BY <1>2, SumExists

LEMMA SumUnrolls ==
  ASSUME NEW f, NEW S, IsFiniteSet(S)
  PROVE  /\ SumOver(f, {}) = 0
         /\ S # {} => SumOver(f, S) = f[First(S)] + SumOver(f, S \ {First(S)})
  <1>1. PICK g : Unrolls(f, S, g) /\ \A T \in SUBSET S : g[T] = SumOver(f, T)
    BY SumSolves
  <1>2. g[{}] = 0 /\ (S # {} => g[S] = f[First(S)] + g[S \ {First(S)}])
    BY <1>1 DEF Unrolls
  <1>3. {} \in SUBSET S /\ S \in SUBSET S /\ S \ {First(S)} \in SUBSET S
    OBVIOUS
  <1> QED BY <1>1, <1>2, <1>3
-----------------------------------------------------------------------------
(* What a sum of naturals does. *)
LEMMA SumType ==
  ASSUME NEW f, NEW S, IsFiniteSet(S), \A x \in S : f[x] \in Nat
  PROVE  SumOver(f, S) \in Nat
  <1> DEFINE F == {T \in SUBSET S : SumOver(f, T) \in Nat}
  <1>1. {} \in F
    <2>1. SumOver(f, {}) = 0
      BY SumUnrolls
    <2> QED BY <2>1
  <1>2. ASSUME NEW T \in SUBSET S, T # {}, \A x \in T : T \ {x} \in F PROVE T \in F
    <2>1. IsFiniteSet(T) /\ First(T) \in T
      BY <1>2, FS_Subset, FirstIn
    <2>2. SumOver(f, T) = f[First(T)] + SumOver(f, T \ {First(T)})
      BY <1>2, <2>1, SumUnrolls
    <2>3. SumOver(f, T \ {First(T)}) \in Nat /\ f[First(T)] \in Nat
      BY <1>2, <2>1
    <2> QED BY <2>2, <2>3
  <1> HIDE DEF F
  <1>3. S \in F
    BY <1>1, <1>2, SetInduction
  <1> QED BY <1>3 DEF F

LEMMA SumRemove ==
  ASSUME NEW f, NEW S, IsFiniteSet(S), \A x \in S : f[x] \in Nat, NEW x \in S
  PROVE  SumOver(f, S) = f[x] + SumOver(f, S \ {x})
  <1> DEFINE F == {T \in SUBSET S : \A y \in T : SumOver(f, T) = f[y] + SumOver(f, T \ {y})}
  <1>1. {} \in F
    OBVIOUS
  <1>2. ASSUME NEW T \in SUBSET S, T # {}, \A y \in T : T \ {y} \in F PROVE T \in F
    <2> SUFFICES ASSUME NEW y \in T PROVE SumOver(f, T) = f[y] + SumOver(f, T \ {y})
      OBVIOUS
    <2> DEFINE a == First(T)
    <2>1. IsFiniteSet(T) /\ a \in T
      BY <1>2, FS_Subset, FirstIn
    <2>2. SumOver(f, T) = f[a] + SumOver(f, T \ {a})
      BY <1>2, <2>1, SumUnrolls
    <2> HIDE DEF a
    <2>3. CASE y = a
      BY <2>2, <2>3
    <2>4. CASE y # a
      <3>1. y \in T \ {a} /\ a \in T \ {y}
        BY <2>1, <2>4
      <3>2. SumOver(f, T \ {a}) = f[y] + SumOver(f, (T \ {a}) \ {y})
        BY <1>2, <2>1, <3>1
      <3>3. SumOver(f, T \ {y}) = f[a] + SumOver(f, (T \ {y}) \ {a})
        BY <1>2, <3>1
      <3>4. (T \ {a}) \ {y} = (T \ {y}) \ {a}
        OBVIOUS
      <3> DEFINE rest == SumOver(f, (T \ {y}) \ {a})
      <3>5. f[a] \in Nat /\ f[y] \in Nat /\ rest \in Nat
        <4>1. IsFiniteSet((T \ {y}) \ {a})
          BY <2>1, FS_RemoveElement
        <4>2. \A z \in (T \ {y}) \ {a} : f[z] \in Nat
          OBVIOUS
        <4> QED BY <2>1, <4>1, <4>2, SumType
      <3>6. SumOver(f, T) = f[a] + (f[y] + rest) /\ SumOver(f, T \ {y}) = f[a] + rest
        BY <2>2, <3>2, <3>3, <3>4
      <3> HIDE DEF rest
      <3> QED BY <3>5, <3>6
    <2> QED BY <2>3, <2>4
  <1> HIDE DEF F
  <1>3. S \in F
    BY <1>1, <1>2, SetInduction
  <1> QED BY <1>3 DEF F

LEMMA SumAdd ==
  ASSUME NEW f, NEW S, IsFiniteSet(S), NEW x, x \notin S, \A y \in S \cup {x} : f[y] \in Nat
  PROVE  SumOver(f, S \cup {x}) = f[x] + SumOver(f, S)
  <1>1. IsFiniteSet(S \cup {x}) /\ x \in S \cup {x} /\ (S \cup {x}) \ {x} = S
    BY FS_AddElement
  <1> QED BY <1>1, SumRemove

LEMMA SumSame ==
  ASSUME NEW f, NEW g, NEW S, IsFiniteSet(S), \A x \in S : f[x] = g[x]
  PROVE  SumOver(f, S) = SumOver(g, S)
  <1>0. (\E u : Unrolls(f, S, u)) /\ \A u : Unrolls(f, S, u) => \A T \in SUBSET S : u[T] = SumOver(f, T)
    BY SumSolves
  <1>1. PICK u : Unrolls(f, S, u) /\ \A T \in SUBSET S : u[T] = SumOver(f, T)
    BY <1>0
  <1>2. \A T \in SUBSET S : T # {} => f[First(T)] = g[First(T)]
    BY FirstIn
  <1>3. Unrolls(g, S, u)
    <2>1. u = [s \in SUBSET S |-> IF s = {} THEN 0 ELSE f[First(s)] + u[s \ {First(s)}]]
      BY <1>1 DEF Unrolls
    <2>2. [s \in SUBSET S |-> IF s = {} THEN 0 ELSE f[First(s)] + u[s \ {First(s)}]]
            = [s \in SUBSET S |-> IF s = {} THEN 0 ELSE g[First(s)] + u[s \ {First(s)}]]
      BY <1>2
    <2> QED BY <2>1, <2>2 DEF Unrolls
  <1>4. S \in SUBSET S /\ \A T \in SUBSET S : u[T] = SumOver(g, T)
    BY <1>3, SumSolves
  <1> QED BY <1>1, <1>4

LEMMA SumUnion ==
  ASSUME NEW f, NEW S, NEW T, IsFiniteSet(S), IsFiniteSet(T), S \cap T = {},
         \A x \in S \cup T : f[x] \in Nat
  PROVE  SumOver(f, S \cup T) = SumOver(f, S) + SumOver(f, T)
  <1> DEFINE F == {U \in SUBSET T : SumOver(f, S \cup U) = SumOver(f, S) + SumOver(f, U)}
  <1>0. SumOver(f, S) \in Nat
    BY SumType
  <1>1. {} \in F
    <2>1. S \cup {} = S /\ SumOver(f, {}) = 0
      BY SumUnrolls
    <2> QED BY <1>0, <2>1
  <1>2. ASSUME NEW U \in SUBSET T, U # {}, \A y \in U : U \ {y} \in F PROVE U \in F
    <2>1. PICK y \in U : TRUE
      BY <1>2
    <2> DEFINE V == U \ {y}
    <2>2. IsFiniteSet(U) /\ IsFiniteSet(V) /\ IsFiniteSet(S \cup U)
      BY FS_Subset, FS_RemoveElement, FS_Union
    <2>3. (S \cup U) \ {y} = S \cup V /\ y \in S \cup U
      OBVIOUS
    <2>4. SumOver(f, S \cup U) = f[y] + SumOver(f, S \cup V)
      BY <2>2, <2>3, SumRemove
    <2>5. SumOver(f, U) = f[y] + SumOver(f, V)
      BY <2>2, SumRemove
    <2>6. SumOver(f, S \cup V) = SumOver(f, S) + SumOver(f, V)
      BY <1>2
    <2>7. f[y] \in Nat /\ SumOver(f, V) \in Nat
      BY <2>2, SumType
    <2> HIDE DEF V
    <2> QED BY <1>0, <2>4, <2>5, <2>6, <2>7
  <1> HIDE DEF F
  <1>3. T \in F
    BY <1>1, <1>2, SetInduction
  <1> QED BY <1>3 DEF F
-----------------------------------------------------------------------------
(* The sum of one field of the records that f gives the members of a set.   *)
FieldSum(r, c, S) == MapThenSumSet(LAMBDA x : r[x][c], S)

LEMMA FieldSumIs ==
  ASSUME NEW r, NEW c, NEW f, NEW S, IsFiniteSet(S), \A x \in S : f[x] = r[x][c]
  PROVE  FieldSum(r, c, S) = SumOver(f, S)
  <1> DEFINE Solves(g) == g = [s \in SUBSET S |-> IF s = {} THEN 0 ELSE r[First(s)][c] + g[s \ {First(s)}]]
             g == CHOOSE g : Solves(g)
  <1>1. FieldSum(r, c, S) = g[S]
    BY DEF FieldSum, MapThenSumSet, MapThenFoldSet, First
  <1>2. \A s \in SUBSET S : s # {} => f[First(s)] = r[First(s)][c]
    BY FirstIn
  <1>3. ASSUME NEW h PROVE Solves(h) <=> Unrolls(f, S, h)
    <2>1. [s \in SUBSET S |-> IF s = {} THEN 0 ELSE f[First(s)] + h[s \ {First(s)}]]
            = [s \in SUBSET S |-> IF s = {} THEN 0 ELSE r[First(s)][c] + h[s \ {First(s)}]]
      BY <1>2
    <2> QED
      BY <2>1 DEF Unrolls
  <1> HIDE DEF Solves
  <1>4. \E h : Solves(h)
    BY <1>3, SumExists
  <1>5. Solves(g)
    BY <1>4
  <1>6. S \in SUBSET S /\ Unrolls(f, S, g)
    BY <1>3, <1>5
  <1> HIDE DEF g
  <1> QED
    BY <1>1, <1>6, SumSolves

LEMMA FieldSumType ==
  ASSUME NEW r, NEW c, NEW S, IsFiniteSet(S), \A x \in S : r[x][c] \in Nat
  PROVE  FieldSum(r, c, S) \in Nat
  <1>1. PICK f : f = [x \in S |-> r[x][c]]
    OBVIOUS
  <1>2. FieldSum(r, c, S) = SumOver(f, S)
    BY <1>1, FieldSumIs
  <1> QED
    BY <1>1, <1>2, SumType
-----------------------------------------------------------------------------
(* U falls into one finite set for each x in S, of the size f[x].           *)
Partitions(f, P, S, U) ==
    /\ IsFiniteSet(S)
    /\ \A x \in S : IsFiniteSet(P[x]) /\ f[x] = Cardinality(P[x])
    /\ \A x, y \in S : x # y => P[x] \cap P[y] = {}
    /\ \A y : y \in U <=> \E x \in S : y \in P[x]

LEMMA SumOfSizes ==
  ASSUME NEW f, NEW P, NEW S, NEW U, Partitions(f, P, S, U)
  PROVE  IsFiniteSet(U) /\ SumOver(f, S) = Cardinality(U)
  <1> DEFINE All(T) == UNION {P[x] : x \in T}
             F == {T \in SUBSET S : IsFiniteSet(All(T)) /\ SumOver(f, T) = Cardinality(All(T))}
  <1>0. /\ IsFiniteSet(S)
        /\ \A x \in S : IsFiniteSet(P[x]) /\ f[x] = Cardinality(P[x])
        /\ \A x, y \in S : x # y => P[x] \cap P[y] = {}
    BY DEF Partitions
  <1>1. {} \in F
    <2>1. All({}) = {}
      OBVIOUS
    <2>2. SumOver(f, {}) = 0
      BY <1>0, SumUnrolls
    <2> QED
      BY <2>1, <2>2, FS_EmptySet
  <1>2. ASSUME NEW T \in SUBSET S, T # {}, \A x \in T : T \ {x} \in F PROVE T \in F
    <2>1. PICK x \in T : T \ {x} \in F
      BY <1>2
    <2>2. IsFiniteSet(T)
      BY <1>0, FS_Subset
    <2>3. \A y \in T : f[y] \in Nat
      BY <1>0, FS_CardinalityType
    <2>4. SumOver(f, T) = f[x] + SumOver(f, T \ {x})
      BY <2>2, <2>3, SumRemove
    <2>5. PICK V : V = All(T \ {x})
      OBVIOUS
    <2>6. IsFiniteSet(V) /\ SumOver(f, T \ {x}) = Cardinality(V)
      BY <2>1, <2>5
    <2>7. All(T) = P[x] \cup V /\ P[x] \cap V = {}
      BY <1>0, <2>5
    <2>8. IsFiniteSet(P[x]) /\ f[x] = Cardinality(P[x])
      BY <1>0
    <2>9. Cardinality(P[x]) \in Nat /\ Cardinality(V) \in Nat
      BY <2>6, <2>8, FS_CardinalityType
    <2>10. IsFiniteSet(P[x] \cup V) /\ Cardinality(P[x] \cup V) = Cardinality(P[x]) + Cardinality(V)
      <3>1. Cardinality(P[x] \cap V) = 0
        BY <2>7, FS_EmptySet
      <3>2. PICK W : W = P[x]
        OBVIOUS
      <3>3. IsFiniteSet(W \cup V) /\ Cardinality(W \cup V) = Cardinality(W) + Cardinality(V) - Cardinality(W \cap V)
        BY <2>6, <2>8, <3>2, FS_Union
      <3> QED
        BY <2>9, <3>1, <3>2, <3>3
    <2> QED
      BY <2>4, <2>6, <2>7, <2>8, <2>10
  <1> HIDE DEF F
  <1>3. S \in F
    BY <1>0, <1>1, <1>2, SetInduction
  <1>4. U = All(S)
    BY DEF Partitions
  <1> QED
    BY <1>3, <1>4 DEF F

(* f is one-to-one between finite sets of the same size, and takes A, and   *)
(* nothing else, into B.                                                    *)
Pairs(f, S, T, A, B) ==
    /\ IsFiniteSet(S) /\ IsFiniteSet(T) /\ Cardinality(S) = Cardinality(T)
    /\ f \in [S -> T] /\ \A x, y \in S : f[x] = f[y] => x = y
    /\ A \in SUBSET S /\ B \in SUBSET T /\ \A x \in S : x \in A <=> f[x] \in B

(* Such a map reaches everything, and there are as many in A as in B. *)
LEMMA CountedAlike ==
  ASSUME NEW f, NEW S, NEW T, NEW A, NEW B, Pairs(f, S, T, A, B)
  PROVE  /\ \A y \in T : \E x \in S : f[x] = y
         /\ Cardinality(A) = Cardinality(B)
  <1>0. /\ IsFiniteSet(S) /\ IsFiniteSet(T) /\ Cardinality(S) = Cardinality(T)
        /\ f \in [S -> T] /\ \A x, y \in S : f[x] = f[y] => x = y
        /\ A \in SUBSET S /\ B \in SUBSET T /\ \A x \in S : x \in A <=> f[x] \in B
    BY DEF Pairs
  <1>1. f \in Injection(S, T)
    BY <1>0 DEF Injection, IsInjective
  <1>2. f \in Surjection(S, T)
    BY <1>0, <1>1, FS_Injection
  <1>3. \A y \in T : \E x \in S : f[x] = y
    BY <1>2 DEF Surjection
  <1>4. PICK g : g = [x \in A |-> f[x]]
    OBVIOUS
  <1>5. g \in [A -> B]
    BY <1>0, <1>4
  <1>6. \A x, y \in A : g[x] = g[y] => x = y
    BY <1>0, <1>4
  <1>7. \A y \in B : \E x \in A : g[x] = y
    BY <1>0, <1>3, <1>4
  <1>8. g \in Bijection(A, B)
    BY <1>5, <1>6, <1>7 DEF Bijection, Injection, IsInjective, Surjection
  <1>9. ExistsBijection(A, B) /\ IsFiniteSet(A)
    BY <1>0, <1>8, FS_Subset DEF ExistsBijection
  <1> QED
    BY <1>3, <1>9, FS_Bijection
=============================================================================
