------------------------------ MODULE Induction ------------------------------
(***************************************************************************)
(* Induction over the natural numbers without a predicate for a parameter: *)
(* the library's induction theorems take an operator, which the provers    *)
(* cannot instantiate, but that every non-empty set of natural numbers has *)
(* a least element can be cited, and a set is what a predicate becomes.    *)
(* From it follow the facts about recursive functions and about sums that  *)
(* the proofs about runs through a block and about the network's accounts  *)
(* need.                                                                   *)
(***************************************************************************)
EXTENDS Integers, FiniteSets, Functions, WellFoundedInduction, FiniteSetTheorems, TLAPS

\* Every non-empty set of natural numbers has a least element.
LEMMA LeastNatural ==
  ASSUME NEW T \in SUBSET Nat, T # {}
  PROVE  \E n \in T : \A m \in T : n <= m
<1> DEFINE R == { p \in Nat \X Nat : p[1] < p[2] }
<1>1. IsWellFoundedOn(R, Nat)
  <2>1. IsWellFoundedOn(OpToRel(<, Nat), Nat)
    BY NatLessThanWellFounded
  <2>2. OpToRel(<, Nat) = R
    BY Zenon DEF OpToRel
  <2> QED
    BY <2>1, <2>2, Zenon
<1>2. PICK x \in T : \A y \in T : ~ (<<y, x>> \in R)
  BY <1>1, WFMin
<1>3. \A y \in T : ~ (y < x)
  BY <1>2
<1> QED
  BY <1>3, SMT

\* Induction up to n, for the set of the numbers that have a property.
LEMMA InductionUpTo ==
  ASSUME NEW n \in Nat, NEW P,
         0 \in P,
         \A i \in 1..n : i - 1 \in P => i \in P
  PROVE  0..n \subseteq P
<1> DEFINE T == (0..n) \ P
<1> SUFFICES ASSUME T # {}
             PROVE  FALSE
  OBVIOUS
<1>1. PICK i \in T : \A m \in T : i <= m
  <2>1. T \in SUBSET Nat
    BY SMT
  <2> HIDE DEF T
  <2> QED
    BY <2>1, LeastNatural
<1>2. i \in 1..n /\ i - 1 \in 0..n
  BY <1>1, SMT
<1>3. i - 1 \notin T
  BY <1>1, <1>2, SMT
<1> QED
  BY <1>1, <1>2, <1>3

\* Induction over all natural numbers.
LEMMA InductionNat ==
  ASSUME NEW P,
         0 \in P,
         \A i \in Nat : i \in P => i + 1 \in P
  PROVE  Nat \subseteq P
<1> SUFFICES ASSUME NEW n \in Nat
             PROVE  n \in P
  OBVIOUS
<1>1. \A i \in 1..n : i - 1 \in P => i \in P
  <2> SUFFICES ASSUME NEW i \in 1..n, i - 1 \in P
               PROVE  i \in P
    OBVIOUS
  <2>1. i - 1 \in Nat /\ (i - 1) + 1 = i
    BY SMT
  <2> QED
    BY <2>1
<1>2. 0..n \subseteq P
  BY <1>1, InductionUpTo
<1> QED
  BY <1>2, SMT

-----------------------------------------------------------------------------
\* f starts with `base`, goes on with `next`, and its values stay in V.
IsRecursion(f, n, V, base, next) ==
  /\ f \in [0..n -> V]
  /\ f[0] = base
  /\ \A i \in 1..n : f[i] = next[<<i, f[i-1]>>]

(***************************************************************************)
(* Recursion up to n exists: a function that starts with `base` and goes   *)
(* on with `next`, whose values stay in V.                                 *)
(***************************************************************************)
LEMMA RecursionExists ==
  ASSUME NEW n \in Nat, NEW V, NEW base \in V, NEW next \in [(1..n) \X V -> V]
  PROVE  \E f : IsRecursion(f, n, V, base, next)
<1> DEFINE Upto(k, f) == /\ f[0] = base
                         /\ \A i \in 1..k : f[i] = next[<<i, f[i-1]>>]
           P == { k \in 0..n : \E f \in [0..n -> V] : Upto(k, f) }
<1>1. 0 \in P
  <2> DEFINE f == [i \in 0..n |-> base]
  <2>1. f \in [0..n -> V]
    OBVIOUS
  <2>2. 0 \in 0..n /\ Upto(0, f)
    BY SMT
  <2> HIDE DEF f
  <2> QED
    BY <2>1, <2>2
<1>2. \A k \in 1..n : k - 1 \in P => k \in P
  <2> SUFFICES ASSUME NEW k \in 1..n, NEW f \in [0..n -> V], Upto(k - 1, f)
               PROVE  k \in P
    OBVIOUS
  <2> DEFINE g == [f EXCEPT ![k] = next[<<k, f[k-1]>>]]
  <2>1. k - 1 \in 0..n /\ f[k-1] \in V
    BY SMT
  <2>2. next[<<k, f[k-1]>>] \in V
    BY <2>1
  <2>3. g \in [0..n -> V]
    BY <2>2
  <2>4. \A i \in 0..n : g[i] = IF i = k THEN next[<<k, f[k-1]>>] ELSE f[i]
    BY SMT
  <2>5. Upto(k, g)
    <3>1. g[0] = base
      BY <2>4, SMT
    <3>2. ASSUME NEW i \in 1..k
          PROVE  g[i] = next[<<i, g[i-1]>>]
      <4>1. i \in 0..n /\ i - 1 \in 0..n /\ i - 1 # k
        BY SMT
      <4>2. g[i-1] = f[i-1]
        BY <2>4, <4>1
      <4>3. CASE i = k
        BY <2>4, <4>1, <4>2, <4>3
      <4>4. CASE i # k
        <5>1. i \in 1..(k-1)
          BY <4>4, SMT
        <5> QED
          BY <2>4, <4>1, <4>2, <4>4, <5>1
      <4> QED
        BY <4>3, <4>4
    <3> QED
      BY <3>1, <3>2
  <2> HIDE DEF g
  <2> QED
    BY <2>3, <2>5, SMT
<1>3. n \in P
  <2> HIDE DEF P
  <2>1. 0..n \subseteq P
    BY <1>1, <1>2, InductionUpTo
  <2> QED
    BY <2>1, SMT
<1> QED
  BY <1>3 DEF IsRecursion

-----------------------------------------------------------------------------
AnElement(s) == CHOOSE x \in s : TRUE

\* The table SumFunctionOnSet(f, S) is looked up in: the sums over subsets.
IsSumTable(it, f, S) ==
  it = [s \in SUBSET S |->
          IF s = {} THEN 0 ELSE f[AnElement(s)] + it[s \ {AnElement(s)}]]

\* A finite set with an element less is a smaller finite set.
LEMMA Smaller ==
  ASSUME NEW S, IsFiniteSet(S), NEW s \in SUBSET S, NEW x \in s
  PROVE  /\ IsFiniteSet(s) /\ s \ {x} \in SUBSET S
         /\ Cardinality(s) \in Nat /\ Cardinality(s \ {x}) \in Nat
         /\ Cardinality(s) = Cardinality(s \ {x}) + 1
<1>1. IsFiniteSet(s) /\ IsFiniteSet(s \ {x})
  BY FS_Subset
<1>2. Cardinality(s) \in Nat /\ Cardinality(s \ {x}) \in Nat
  BY <1>1, FS_CardinalityType
<1>3. Cardinality(s \ {x}) = Cardinality(s) - 1
  BY <1>1, FS_RemoveElement
<1> QED
  BY <1>1, <1>2, <1>3, SMT

(***************************************************************************)
(* Induction over the subsets of a finite set: what holds of the empty set *)
(* and of s whenever it holds of s without any one element holds of all.   *)
(***************************************************************************)
LEMMA InductionOnSubsets ==
  ASSUME NEW S, IsFiniteSet(S), NEW P,
         {} \in P,
         \A s \in SUBSET S : s # {} /\ (\A x \in s : s \ {x} \in P) => s \in P
  PROVE  SUBSET S \subseteq P
<1> DEFINE Q == { k \in Nat : \A s \in SUBSET S : Cardinality(s) <= k => s \in P }
<1>1. \A s \in SUBSET S : IsFiniteSet(s) /\ Cardinality(s) \in Nat
  BY FS_Subset, FS_CardinalityType
<1>2. 0 \in Q
  <2> SUFFICES ASSUME NEW s \in SUBSET S, Cardinality(s) <= 0
               PROVE  s \in P
    OBVIOUS
  <2>1. Cardinality(s) = 0
    BY <1>1, SMT
  <2>2. s = {}
    BY <1>1, <2>1, FS_EmptySet
  <2> QED
    BY <2>2
<1>3. \A k \in Nat : k \in Q => k + 1 \in Q
  <2> SUFFICES ASSUME NEW k \in Nat, k \in Q, NEW s \in SUBSET S, Cardinality(s) <= k + 1
               PROVE  s \in P
    BY SMT
  <2>1. ASSUME NEW x \in s
        PROVE  s \ {x} \in P
    <3>1. s \ {x} \in SUBSET S /\ Cardinality(s \ {x}) <= k
      BY Smaller, SMT
    <3> QED
      BY <3>1
  <2> QED
    BY <2>1
<1>4. Nat \subseteq Q
  <2> HIDE DEF Q
  <2> QED
    BY <1>2, <1>3, InductionNat
<1> SUFFICES ASSUME NEW s \in SUBSET S
             PROVE  s \in P
  OBVIOUS
<1>5. Cardinality(s) \in Q /\ Cardinality(s) <= Cardinality(s)
  BY <1>1, <1>4, SMT
<1> QED
  BY <1>5

\* What a table holds for a set, one element apart.
LEMMA SumTableEntry ==
  ASSUME NEW S, NEW f, NEW it, IsSumTable(it, f, S)
  PROVE  /\ it[{}] = 0
         /\ \A s \in SUBSET S : s # {} =>
              /\ AnElement(s) \in s
              /\ it[s] = f[AnElement(s)] + it[s \ {AnElement(s)}]
<1>1. \A s \in SUBSET S :
        it[s] = IF s = {} THEN 0 ELSE f[AnElement(s)] + it[s \ {AnElement(s)}]
  BY DEF IsSumTable
<1>2. \A s \in SUBSET S : s # {} => AnElement(s) \in s
  BY DEF AnElement
<1> QED
  BY <1>1, <1>2

\* The sums are natural numbers when the terms are.
LEMMA SumTableType ==
  ASSUME NEW S, IsFiniteSet(S), NEW f, \A x \in S : f[x] \in Nat,
         NEW it, IsSumTable(it, f, S)
  PROVE  \A s \in SUBSET S : it[s] \in Nat
<1> DEFINE P == { s \in SUBSET S : it[s] \in Nat }
<1>0. /\ it[{}] = 0
      /\ \A s \in SUBSET S : s # {} =>
           /\ AnElement(s) \in s
           /\ it[s] = f[AnElement(s)] + it[s \ {AnElement(s)}]
  BY SumTableEntry
<1>1. {} \in P
  BY <1>0
<1>2. ASSUME NEW s \in SUBSET S, s # {}, \A x \in s : s \ {x} \in P
      PROVE  s \in P
  <2>1. PICK x \in s : it[s] = f[x] + it[s \ {x}]
    BY <1>0, <1>2
  <2>2. f[x] \in Nat /\ it[s \ {x}] \in Nat
    BY <1>2
  <2> QED
    BY <2>1, <2>2, SMT
<1> HIDE DEF P
<1>3. SUBSET S \subseteq P
  BY <1>1, <1>2, InductionOnSubsets
<1> QED
  BY <1>3 DEF P

\* There is a table.
LEMMA SumTableExists ==
  ASSUME NEW S, IsFiniteSet(S), NEW f, \A x \in S : f[x] \in Nat
  PROVE  \E it : IsSumTable(it, f, S)
<1> DEFINE Entry(it, s) == IF s = {} THEN 0 ELSE f[AnElement(s)] + it[s \ {AnElement(s)}]
           Q == { k \in Nat : \E it : /\ it = [s \in SUBSET S |-> it[s]]
                                      /\ \A s \in SUBSET S :
                                           Cardinality(s) <= k => it[s] = Entry(it, s) }
<1>0. \A s \in SUBSET S : IsFiniteSet(s) /\ Cardinality(s) \in Nat
  BY FS_Subset, FS_CardinalityType
<1>a. \A s \in SUBSET S : s # {} => AnElement(s) \in s
  BY DEF AnElement
<1>1. 0 \in Q
  <2> DEFINE it == [s \in SUBSET S |-> 0]
  <2>1. it = [s \in SUBSET S |-> it[s]]
    OBVIOUS
  <2>2. ASSUME NEW s \in SUBSET S, Cardinality(s) <= 0
        PROVE  it[s] = Entry(it, s)
    <3>1. s = {}
      BY <1>0, <2>2, FS_EmptySet, SMT
    <3> QED
      BY <3>1
  <2> HIDE DEF it, Entry
  <2> QED
    BY <2>1, <2>2
<1>2. ASSUME NEW k \in Nat, k \in Q
      PROVE  k + 1 \in Q
  <2>1. PICK it : /\ it = [s \in SUBSET S |-> it[s]]
                  /\ \A s \in SUBSET S : Cardinality(s) <= k => it[s] = Entry(it, s)
    BY <1>2
  <2> DEFINE jt == [s \in SUBSET S |-> Entry(it, s)]
  <2>2. jt = [s \in SUBSET S |-> jt[s]]
    OBVIOUS
  <2>3. ASSUME NEW s \in SUBSET S, Cardinality(s) <= k + 1
        PROVE  jt[s] = Entry(jt, s)
    <3>1. CASE s = {}
      BY <3>1
    <3>2. CASE s # {}
      <4> DEFINE x == AnElement(s)
                 r == s \ {x}
      <4>1. x \in s
        BY <1>a, <3>2
      <4>2. r \in SUBSET S /\ Cardinality(r) <= k
        <5> HIDE DEF x
        <5> QED
          BY <2>3, <4>1, Smaller, SMT
      <4>3. jt[r] = Entry(it, r) /\ it[r] = Entry(it, r)
        BY <2>1, <4>2
      <4>4. jt[s] = f[x] + it[r]
        BY <3>2
      <4>5. Entry(jt, s) = f[x] + jt[r]
        BY <3>2
      <4> QED
        BY <4>3, <4>4, <4>5
    <3> QED
      BY <3>1, <3>2
  <2> HIDE DEF jt, Entry
  <2>4. k + 1 \in Nat
    BY SMT
  <2> QED
    BY <2>2, <2>3, <2>4, Zenon
<1>3. Cardinality(S) \in Q
  <2> HIDE DEF Q
  <2>1. Nat \subseteq Q
    BY <1>1, <1>2, InductionNat
  <2> QED
    BY <1>0, <2>1
<1>4. PICK it : /\ it = [s \in SUBSET S |-> it[s]]
                /\ \A s \in SUBSET S : Cardinality(s) <= Cardinality(S) => it[s] = Entry(it, s)
  BY <1>3
<1>5. ASSUME NEW s \in SUBSET S
      PROVE  it[s] = Entry(it, s)
  <2>1. Cardinality(s) <= Cardinality(S)
    BY FS_Subset
  <2> QED
    BY <1>4, <2>1
<1>6. it = [s \in SUBSET S |-> Entry(it, s)]
  <2> HIDE DEF Entry
  <2> QED
    BY <1>4, <1>5
<1> QED
  BY <1>6 DEF IsSumTable

\* Two tables agree where their terms do.
LEMMA SumTablesAgree ==
  ASSUME NEW S, NEW T, IsFiniteSet(S), T \subseteq S, NEW f, NEW g,
         \A x \in T : f[x] = g[x],
         NEW it, IsSumTable(it, f, S), NEW jt, IsSumTable(jt, g, T)
  PROVE  \A s \in SUBSET T : it[s] = jt[s]
<1> DEFINE P == { s \in SUBSET T : it[s] = jt[s] }
           Entry(kt, h, s) == /\ AnElement(s) \in s
                              /\ kt[s] = h[AnElement(s)] + kt[s \ {AnElement(s)}]
<1>0. /\ it[{}] = 0 /\ \A s \in SUBSET S : s # {} => Entry(it, f, s)
      /\ jt[{}] = 0 /\ \A s \in SUBSET T : s # {} => Entry(jt, g, s)
  BY SumTableEntry
<1>1. {} \in P
  BY <1>0
<1>2. ASSUME NEW s \in SUBSET T, s # {}, \A x \in s : s \ {x} \in P
      PROVE  s \in P
  <2> DEFINE x == AnElement(s)
  <2>1. s \in SUBSET S
    OBVIOUS
  <2>2. x \in s /\ it[s] = f[x] + it[s \ {x}]
    BY <1>0, <1>2, <2>1
  <2>3. jt[s] = g[x] + jt[s \ {x}]
    BY <1>0, <1>2
  <2>4. it[s \ {x}] = jt[s \ {x}] /\ f[x] = g[x]
    BY <1>2, <2>2
  <2> HIDE DEF x
  <2> QED
    BY <2>2, <2>3, <2>4
<1> HIDE DEF P
<1>3. IsFiniteSet(T)
  BY FS_Subset
<1>4. SUBSET T \subseteq P
  BY <1>1, <1>2, <1>3, InductionOnSubsets
<1> QED
  BY <1>4 DEF P

\* The order in which the terms are added does not matter.
LEMMA SumTableAnyOrder ==
  ASSUME NEW S, IsFiniteSet(S), NEW f, \A x \in S : f[x] \in Nat,
         NEW it, IsSumTable(it, f, S), NEW t \in SUBSET S, NEW y \in t
  PROVE  it[t] = f[y] + it[t \ {y}]
<1> DEFINE P == { s \in SUBSET S : \A x \in s : it[s] = f[x] + it[s \ {x}] }
<1>0. \A s \in SUBSET S : s # {} =>
        /\ AnElement(s) \in s
        /\ it[s] = f[AnElement(s)] + it[s \ {AnElement(s)}]
  BY SumTableEntry
<1>1. {} \in P
  OBVIOUS
<1>2. ASSUME NEW s \in SUBSET S, s # {}, \A x \in s : s \ {x} \in P
      PROVE  s \in P
  <2> SUFFICES ASSUME NEW x \in s
               PROVE  it[s] = f[x] + it[s \ {x}]
    OBVIOUS
  <2>1. PICK c \in s : it[s] = f[c] + it[s \ {c}]
    BY <1>0, <1>2
  <2>2. CASE x = c
    BY <2>1, <2>2
  <2>3. CASE x # c
    <3>1. it[s \ {c}] = f[x] + it[(s \ {c}) \ {x}]
      BY <1>2, <2>3
    <3>2. it[s \ {x}] = f[c] + it[(s \ {x}) \ {c}]
      BY <1>2, <2>3
    <3>3. (s \ {c}) \ {x} = (s \ {x}) \ {c}
      OBVIOUS
    <3> DEFINE rest == it[(s \ {c}) \ {x}]
    <3>4. rest \in Nat /\ f[c] \in Nat /\ f[x] \in Nat
      BY SumTableType
    <3>5. it[s] = f[c] + (f[x] + rest) /\ it[s \ {x}] = f[c] + rest
      BY <2>1, <3>1, <3>2, <3>3
    <3> HIDE DEF rest
    <3> QED
      BY <3>4, <3>5, SMT
  <2> QED
    BY <2>2, <2>3
<1> HIDE DEF P
<1>3. SUBSET S \subseteq P
  BY <1>1, <1>2, InductionOnSubsets
<1> QED
  BY <1>3 DEF P

\* SumFunctionOnSet is what such a table holds for the whole set.
LEMMA SumIsInTable ==
  ASSUME NEW S, IsFiniteSet(S), NEW f, \A x \in S : f[x] \in Nat
  PROVE  \E it : IsSumTable(it, f, S) /\ SumFunctionOnSet(f, S) = it[S]
<1> DEFINE it == CHOOSE it : it = [s \in SUBSET S |->
                   IF s = {} THEN 0
                             ELSE LET x == CHOOSE x \in s : TRUE IN f[x] + it[s \ {x}]]
           Table(jt) == jt = [s \in SUBSET S |->
                   IF s = {} THEN 0
                             ELSE LET x == CHOOSE x \in s : TRUE IN f[x] + jt[s \ {x}]]
<1>1. SumFunctionOnSet(f, S) = it[S]
  BY DEF SumFunctionOnSet, FoldFunctionOnSet, MapThenFoldSet
<1>2. \A jt : IsSumTable(jt, f, S) <=> Table(jt)
  BY DEF IsSumTable, AnElement
<1>3. PICK jt : IsSumTable(jt, f, S)
  BY SumTableExists
<1>4. Table(it)
  <2>1. Table(jt)
    BY <1>2, <1>3
  <2> QED
    BY <2>1
<1> QED
  BY <1>1, <1>2, <1>4

-----------------------------------------------------------------------------
\* A sum of natural numbers is one, and the empty sum is zero.
LEMMA SumType ==
  ASSUME NEW S, IsFiniteSet(S), NEW f, \A x \in S : f[x] \in Nat
  PROVE  SumFunctionOnSet(f, S) \in Nat
<1>1. PICK it : IsSumTable(it, f, S) /\ SumFunctionOnSet(f, S) = it[S]
  BY SumIsInTable
<1>2. \A s \in SUBSET S : it[s] \in Nat
  BY <1>1, SumTableType
<1> QED
  BY <1>1, <1>2

\* The sum over nothing is 0.
LEMMA SumEmpty ==
  ASSUME NEW f
  PROVE  SumFunctionOnSet(f, {}) = 0
<1>1. IsFiniteSet({}) /\ \A x \in {} : f[x] \in Nat
  BY FS_EmptySet
<1>2. PICK it : IsSumTable(it, f, {}) /\ SumFunctionOnSet(f, {}) = it[{}]
  BY <1>1, SumIsInTable
<1> QED
  BY <1>2, SumTableEntry

\* Sums over the same set of the same terms are the same.
LEMMA SumEqual ==
  ASSUME NEW S, IsFiniteSet(S), NEW f, NEW g,
         \A x \in S : f[x] \in Nat /\ g[x] = f[x]
  PROVE  SumFunctionOnSet(f, S) = SumFunctionOnSet(g, S)
<1>1. PICK it : IsSumTable(it, f, S) /\ SumFunctionOnSet(f, S) = it[S]
  BY SumIsInTable
<1>2. \A x \in S : g[x] \in Nat
  OBVIOUS
<1>3. PICK jt : IsSumTable(jt, g, S) /\ SumFunctionOnSet(g, S) = jt[S]
  BY <1>2, SumIsInTable
<1>4. \A s \in SUBSET S : it[s] = jt[s]
  BY <1>1, <1>3, SumTablesAgree
<1> QED
  BY <1>1, <1>3, <1>4

\* One more element, one more term.
LEMMA SumAdd ==
  ASSUME NEW S, IsFiniteSet(S), NEW x, x \notin S, NEW f,
         \A y \in S \cup {x} : f[y] \in Nat
  PROVE  SumFunctionOnSet(f, S \cup {x}) = SumFunctionOnSet(f, S) + f[x]
<1> DEFINE T == S \cup {x}
<1>1. IsFiniteSet(T)
  BY FS_AddElement
<1>2. PICK it : IsSumTable(it, f, T) /\ SumFunctionOnSet(f, T) = it[T]
  BY <1>1, SumIsInTable
<1>3. PICK jt : IsSumTable(jt, f, S) /\ SumFunctionOnSet(f, S) = jt[S]
  BY SumIsInTable
<1>4. \A s \in SUBSET S : it[s] = jt[s]
  <2>1. S \subseteq T /\ \A y \in S : f[y] = f[y]
    OBVIOUS
  <2> HIDE DEF T
  <2> QED
    BY <1>1, <1>2, <1>3, <2>1, SumTablesAgree
<1>5. it[T] = f[x] + it[T \ {x}]
  <2>1. (\A y \in T : f[y] \in Nat) /\ x \in T /\ T \in SUBSET T
    OBVIOUS
  <2> HIDE DEF T
  <2> QED
    BY <1>1, <1>2, <2>1, SumTableAnyOrder
<1>6. it[T] = f[x] + it[S]
  <2>1. T \ {x} = S
    OBVIOUS
  <2> QED
    BY <1>5, <2>1
<1>7. f[x] \in Nat /\ SumFunctionOnSet(f, S) \in Nat
  BY SumType
<1>8. it[S] = SumFunctionOnSet(f, S)
  BY <1>3, <1>4
<1> QED
  BY <1>2, <1>6, <1>7, <1>8, SMT

(***************************************************************************)
(* If every term f[x] is at most g[x] + c, the sum of the f[x] exceeds     *)
(* that of the g[x] by at most c for each element.                         *)
(***************************************************************************)
LEMMA SumBounded ==
  ASSUME NEW S, IsFiniteSet(S), NEW f, NEW g, NEW c \in Nat,
         \A x \in S : f[x] \in Nat /\ g[x] \in Nat /\ f[x] <= g[x] + c
  PROVE  SumFunctionOnSet(f, S) <= SumFunctionOnSet(g, S) + Cardinality(S) * c
<1> DEFINE P == { s \in SUBSET S :
                    SumFunctionOnSet(f, s) <= SumFunctionOnSet(g, s) + Cardinality(s) * c }
<1>1. {} \in P
  BY SumEmpty, FS_EmptySet, SMT
<1>2. ASSUME NEW s \in SUBSET S, s # {}, \A x \in s : s \ {x} \in P
      PROVE  s \in P
  <2>1. PICK x \in s : TRUE
    BY <1>2
  <2> DEFINE r == s \ {x}
             n == Cardinality(r)
             F == SumFunctionOnSet(f, r)
             G == SumFunctionOnSet(g, r)
  <2>2. IsFiniteSet(r) /\ n \in Nat /\ Cardinality(s) = n + 1
    BY Smaller, FS_Subset
  <2>3. r \cup {x} = s /\ x \notin r
    OBVIOUS
  <2>4. /\ f[x] \in Nat /\ g[x] \in Nat /\ f[x] <= g[x] + c
        /\ \A y \in r \cup {x} : f[y] \in Nat /\ g[y] \in Nat
    OBVIOUS
  <2>5. F <= G + n * c
    BY <1>2
  <2> HIDE DEF r, n
  <2>6. F \in Nat /\ G \in Nat
    BY <2>2, <2>4, SumType
  <2>7. SumFunctionOnSet(f, r \cup {x}) = F + f[x] /\ SumFunctionOnSet(g, r \cup {x}) = G + g[x]
    BY <2>2, <2>3, <2>4, SumAdd
  <2>8. (n + 1) * c = n * c + c /\ n * c \in Nat
    BY <2>2, SMT
  <2> HIDE DEF F, G
  <2>9. F + f[x] <= G + g[x] + (n + 1) * c
    BY <2>4, <2>5, <2>6, <2>8, SMT
  <2> QED
    BY <2>2, <2>3, <2>7, <2>9
<1> HIDE DEF P
<1>3. SUBSET S \subseteq P
  BY <1>1, <1>2, InductionOnSubsets
<1> QED
  BY <1>3 DEF P

\* A function bounded by the sum of two has a sum bounded by their sums.
LEMMA SumPlus ==
  ASSUME NEW S, IsFiniteSet(S), NEW f, NEW g, NEW h,
         \A x \in S : f[x] \in Nat /\ g[x] \in Nat /\ h[x] \in Nat /\ f[x] <= g[x] + h[x]
  PROVE  SumFunctionOnSet(f, S) <= SumFunctionOnSet(g, S) + SumFunctionOnSet(h, S)
<1> DEFINE P == { s \in SUBSET S :
                    SumFunctionOnSet(f, s) <= SumFunctionOnSet(g, s) + SumFunctionOnSet(h, s) }
<1>1. {} \in P
  BY SumEmpty, SMT
<1>2. ASSUME NEW s \in SUBSET S, s # {}, \A x \in s : s \ {x} \in P
      PROVE  s \in P
  <2>1. PICK x \in s : TRUE
    BY <1>2
  <2> DEFINE r == s \ {x}
             F == SumFunctionOnSet(f, r)
             G == SumFunctionOnSet(g, r)
             H == SumFunctionOnSet(h, r)
  <2>2. IsFiniteSet(r)
    BY FS_Subset
  <2>3. r \cup {x} = s /\ x \notin r
    OBVIOUS
  <2>4. /\ f[x] \in Nat /\ g[x] \in Nat /\ h[x] \in Nat /\ f[x] <= g[x] + h[x]
        /\ \A y \in r \cup {x} : f[y] \in Nat /\ g[y] \in Nat /\ h[y] \in Nat
    OBVIOUS
  <2>5. F <= G + H
    BY <1>2
  <2> HIDE DEF r
  <2>6. F \in Nat /\ G \in Nat /\ H \in Nat
    BY <2>2, <2>4, SumType
  <2>7. /\ SumFunctionOnSet(f, r \cup {x}) = F + f[x]
        /\ SumFunctionOnSet(g, r \cup {x}) = G + g[x]
        /\ SumFunctionOnSet(h, r \cup {x}) = H + h[x]
    BY <2>2, <2>3, <2>4, SumAdd
  <2> HIDE DEF F, G, H
  <2>8. F + f[x] <= (G + g[x]) + (H + h[x])
    BY <2>4, <2>5, <2>6, SMT
  <2> QED
    BY <2>3, <2>7, <2>8
<1> HIDE DEF P
<1>3. SUBSET S \subseteq P
  BY <1>1, <1>2, InductionOnSubsets
<1> QED
  BY <1>3 DEF P

\* If k times every f[x] is at most c times g[x], so it is with the sums.
LEMMA SumScaled ==
  ASSUME NEW S, IsFiniteSet(S), NEW f, NEW g, NEW k \in Nat, NEW c \in Nat,
         \A x \in S : f[x] \in Nat /\ g[x] \in Nat /\ k * f[x] <= c * g[x]
  PROVE  k * SumFunctionOnSet(f, S) <= c * SumFunctionOnSet(g, S)
<1> DEFINE P == { s \in SUBSET S :
                    k * SumFunctionOnSet(f, s) <= c * SumFunctionOnSet(g, s) }
<1>1. {} \in P
  BY SumEmpty, SMT
<1>2. ASSUME NEW s \in SUBSET S, s # {}, \A x \in s : s \ {x} \in P
      PROVE  s \in P
  <2>1. PICK x \in s : TRUE
    BY <1>2
  <2> DEFINE r == s \ {x}
             F == SumFunctionOnSet(f, r)
             G == SumFunctionOnSet(g, r)
  <2>2. IsFiniteSet(r)
    BY FS_Subset
  <2>3. r \cup {x} = s /\ x \notin r
    OBVIOUS
  <2>4. /\ f[x] \in Nat /\ g[x] \in Nat /\ k * f[x] <= c * g[x]
        /\ \A y \in r \cup {x} : f[y] \in Nat /\ g[y] \in Nat
    OBVIOUS
  <2>5. k * F <= c * G
    BY <1>2
  <2> HIDE DEF r
  <2>6. F \in Nat /\ G \in Nat
    BY <2>2, <2>4, SumType
  <2>7. SumFunctionOnSet(f, r \cup {x}) = F + f[x] /\ SumFunctionOnSet(g, r \cup {x}) = G + g[x]
    BY <2>2, <2>3, <2>4, SumAdd
  <2> HIDE DEF F, G
  <2> DEFINE fx == f[x]
             gx == g[x]
  <2>8. fx \in Nat /\ gx \in Nat /\ k * fx <= c * gx
    BY <2>4
  <2> HIDE DEF fx, gx
  <2>9. k * (F + fx) = k * F + k * fx /\ c * (G + gx) = c * G + c * gx
    BY <2>6, <2>8, SMT
  <2>10. k * F \in Nat /\ k * fx \in Nat /\ c * G \in Nat /\ c * gx \in Nat
    BY <2>6, <2>8, SMT
  <2>11. k * (F + fx) <= c * (G + gx)
    BY <2>5, <2>8, <2>9, <2>10, SMT
  <2> QED
    BY <2>3, <2>7, <2>11 DEF fx, gx
<1> HIDE DEF P
<1>3. SUBSET S \subseteq P
  BY <1>1, <1>2, InductionOnSubsets
<1> QED
  BY <1>3 DEF P
=============================================================================
