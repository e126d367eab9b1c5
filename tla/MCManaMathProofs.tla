-------------------------- MODULE MCManaMathProofs --------------------------
(***************************************************************************)
(* The lazy meter is the eager one, for every word, gain, cap and number   *)
(* of blocks, and however often the record is written in between.          *)
(***************************************************************************)
EXTENDS MCManaMath, ManaKeeperProofs

\* The meter n blocks after the start, in plain integers.
After(n) == ClampedSum(current, perBlock, n, maxMana)

(***************************************************************************)
(* Before the first block a meter may be above its cap; from then on it is *)
(* cut, which is why block 0 is set apart.                                 *)
(***************************************************************************)
LazyInv ==
  /\ current \in Uint64 /\ perBlock \in Uint64 /\ maxMana \in Uint64
  /\ elapsed \in Nat /\ stamp \in Nat /\ stamp <= elapsed
  /\ stored = IF stamp = 0 THEN current ELSE After(stamp)
  /\ eager  = IF elapsed = 0 THEN current ELSE After(elapsed)

\* What fits the register is a natural number.
LEMMA WordsAreNaturals ==
  ASSUME LazyInv
  PROVE  current \in Nat /\ perBlock \in Nat /\ maxMana \in Nat
  BY MathAssumption, SMT DEF LazyInv, Uint64, MathAssumption

\* One addition more, whether of one block or of several.
LEMMA AdditionAdvances ==
  ASSUME LazyInv, NEW j \in Nat, NEW k \in Nat \ {0}, NEW m,
         m = IF j = 0 THEN current ELSE After(j)
  PROVE  ClampedSum(m, perBlock, k, maxMana) = After(j + k)
<1>1. current \in Nat /\ perBlock \in Nat /\ maxMana \in Nat
  BY WordsAreNaturals
<1>2. CASE j = 0
  BY <1>2, SMT DEF After
<1>3. CASE j # 0
  BY <1>1, <1>3, LazyUpdateComposes DEF After
<1> QED
  BY <1>2, <1>3

\* What is stored fits the register, so adding to it is exact.
LEMMA StoredFits ==
  ASSUME LazyInv
  PROVE  stored \in Uint64
<1>1. CASE stamp = 0
  BY <1>1 DEF LazyInv
<1>2. CASE stamp # 0
  <2>1. current \in Nat /\ perBlock \in Nat /\ maxMana \in Nat /\ stamp \in Nat
    BY WordsAreNaturals DEF LazyInv
  <2>2. After(stamp) \in Nat /\ After(stamp) <= maxMana
    BY <2>1, ClampedSumBounds DEF After
  <2>3. maxMana \in Uint64 /\ MaxUint64 \in Nat /\ stored = After(stamp)
    BY <1>2, MathAssumption DEF LazyInv, MathAssumption
  <2> HIDE DEF LazyInv
  <2> QED
    BY <2>1, <2>2, <2>3, SMT DEF Uint64
<1> QED
  BY <1>1, <1>2

\* A block, and a record written in between, keep the two meters in step.
LEMMA LazyInvStep ==
  ASSUME LazyInv, [NewBlock \/ Persist \/ AtBound]_vars
  PROVE  LazyInv'
<1>1. CASE NewBlock
  <2>1. /\ elapsed' = elapsed + 1
        /\ eager' = ClampedSum(eager, perBlock, 1, maxMana)
        /\ UNCHANGED <<current, perBlock, maxMana, stamp, stored>>
    BY <1>1 DEF NewBlock
  <2>2. elapsed \in Nat /\ stamp \in Nat /\ stamp <= elapsed
    BY DEF LazyInv
  <2>3. eager' = After(elapsed + 1)
    <3>1. eager = IF elapsed = 0 THEN current ELSE After(elapsed)
      BY DEF LazyInv
    <3>2. 1 \in Nat \ {0}
      OBVIOUS
    <3> QED
      BY <2>1, <2>2, <3>1, <3>2, AdditionAdvances
  <2>4. elapsed + 1 \in Nat /\ stamp <= elapsed + 1 /\ elapsed + 1 # 0
    BY <2>2, SMT
  <2> QED
    BY <2>1, <2>2, <2>3, <2>4 DEF LazyInv, After
<1>2. CASE Persist
  <2>1. /\ stamp < elapsed /\ stamp' = elapsed
        /\ stored' = AddManaSaturating(stored, perBlock, elapsed - stamp, maxMana)
        /\ UNCHANGED <<current, perBlock, maxMana, elapsed, eager>>
    BY <1>2 DEF Persist
  <2>2. elapsed \in Nat /\ stamp \in Nat
    BY DEF LazyInv
  <2> DEFINE k == elapsed - stamp
  <2>3. k \in Nat \ {0} /\ stamp + k = elapsed /\ elapsed # 0 /\ elapsed <= elapsed
    BY <2>1, <2>2, SMT
  <2> HIDE DEF k
  <2>4. stored' = ClampedSum(stored, perBlock, k, maxMana)
    <3>1. perBlock \in Nat /\ maxMana \in Uint64
      BY WordsAreNaturals DEF LazyInv
    <3> QED
      BY <2>1, <2>3, <3>1, StoredFits, SaturationIsExact DEF k
  <2>5. stored' = After(elapsed)
    <3>1. stored = IF stamp = 0 THEN current ELSE After(stamp)
      BY DEF LazyInv
    <3> QED
      BY <2>2, <2>3, <2>4, <3>1, AdditionAdvances
  <2> QED
    BY <2>1, <2>2, <2>3, <2>5 DEF LazyInv, After
<1>3. CASE UNCHANGED vars
  BY <1>3 DEF vars, LazyInv, After
<1> QED
  BY <1>1, <1>2, <1>3 DEF AtBound

\* Before the first block neither meter has moved.
LEMMA LazyInvInit ==
  ASSUME Init
  PROVE  LazyInv
  BY SMT DEF Init, LazyInv

(***************************************************************************)
(* For every word, current, gain, cap and number of blocks, the saturating *)
(* addition is the clamped sum of integers (keeper.go:207-225).            *)
(***************************************************************************)
THEOREM SaturatesExactlyHolds == Spec => []SaturatesExactly
<1>1. LazyInv => SaturatesExactly
  <2> SUFFICES ASSUME LazyInv
               PROVE  SaturatesExactly
    OBVIOUS
  <2>1. current \in Uint64 /\ perBlock \in Nat /\ elapsed \in Nat /\ maxMana \in Uint64
    BY WordsAreNaturals DEF LazyInv
  <2> QED
    BY <2>1, SaturationIsExact DEF SaturatesExactly
<1> QED
  BY <1>1, LazyInvInit, LazyInvStep, PTL DEF Spec

(***************************************************************************)
(* However many blocks pass between two writes of a record, and wherever   *)
(* the writes fall, reading it gives what topping it up at every block     *)
(* would have given (keeper.go:100-105, 152-206).                          *)
(***************************************************************************)
THEOREM LazyEqualsEagerHolds == Spec => []LazyEqualsEager
<1>1. LazyInv => LazyEqualsEager
  <2> SUFFICES ASSUME LazyInv, elapsed > 0
               PROVE  /\ AddManaSaturating(current, perBlock, elapsed, maxMana) = eager
                      /\ (IF stamp = elapsed
                            THEN stored
                            ELSE AddManaSaturating(stored, perBlock, elapsed - stamp, maxMana))
                           = eager
    BY DEF LazyEqualsEager
  <2>1. /\ current \in Uint64 /\ perBlock \in Nat /\ maxMana \in Uint64
        /\ elapsed \in Nat /\ stamp \in Nat /\ stamp <= elapsed
        /\ stored = IF stamp = 0 THEN current ELSE After(stamp)
    BY WordsAreNaturals DEF LazyInv
  <2>2. elapsed # 0
    BY <2>1, SMT
  <2>3. eager = After(elapsed)
    BY <2>2 DEF LazyInv
  <2>4. AddManaSaturating(current, perBlock, elapsed, maxMana) = eager
    BY <2>1, <2>3, SaturationIsExact DEF After
  <2>5. CASE stamp = elapsed
    BY <2>1, <2>2, <2>3, <2>4, <2>5
  <2>6. CASE stamp # elapsed
    <3> DEFINE k == elapsed - stamp
    <3>1. k \in Nat \ {0} /\ stamp + k = elapsed
      BY <2>1, <2>6, SMT
    <3> HIDE DEF k
    <3>2. AddManaSaturating(stored, perBlock, k, maxMana) = ClampedSum(stored, perBlock, k, maxMana)
      BY <2>1, <3>1, StoredFits, SaturationIsExact
    <3>3. ClampedSum(stored, perBlock, k, maxMana) = After(elapsed)
      BY <2>1, <3>1, AdditionAdvances
    <3> QED
      BY <2>3, <2>4, <2>6, <3>2, <3>3 DEF k
  <2> QED
    BY <2>5, <2>6
<1> QED
  BY <1>1, LazyInvInit, LazyInvStep, PTL DEF Spec
=============================================================================
