--------------------------- MODULE PowChokeProofs ---------------------------
(***************************************************************************)
(* Theorems about the proof-of-work choke, for every maximum difficulty,   *)
(* every pair of watermarks, any load and any number of wallets and        *)
(* restarts.  Its liveness is left to the model checker.                   *)
(***************************************************************************)
EXTENDS PowChoke, TLAPS

\* Between two blocks nothing is pending: the next difficulty is computed
\* from the one that was committed.
NothingPending == ~ executing => pending = difficulty

\* The safety properties hold together or not at all: a block's difficulty
\* is bounded through the one before, the mempool's work through both.
PowInv == /\ TypeOK
          /\ NothingPending
          /\ EngagesOnlyWhenBusy
          /\ DecaysWhenCalm
          /\ AdmittedHaveWork

\* One block moves the difficulty by at most one bit, inside its range.
LEMMA NextDifficultyStep ==
  ASSUME NEW d \in Difficulty, NEW txs \in Nat
  PROVE  /\ NextDifficulty(d, txs) \in Difficulty
         /\ NextDifficulty(d, txs) <= d + 1
         /\ txs <= PowHighWatermarkTxPerBlock => NextDifficulty(d, txs) <= d
         /\ txs < PowLowWatermarkTxPerBlock /\ d > 0 => NextDifficulty(d, txs) = d - 1
         /\ txs < PowLowWatermarkTxPerBlock /\ d = 0 => NextDifficulty(d, txs) = 0
<1>1. /\ PowMaxDifficulty \in Nat /\ PowHighWatermarkTxPerBlock \in Nat
      /\ PowLowWatermarkTxPerBlock \in Nat
      /\ PowLowWatermarkTxPerBlock <= PowHighWatermarkTxPerBlock
  BY PowAssumption, SMT DEF PowAssumption
<1>2. CASE txs > PowHighWatermarkTxPerBlock /\ d < PowMaxDifficulty
  BY <1>1, <1>2, SMT DEF NextDifficulty, Difficulty
<1>3. CASE txs < PowLowWatermarkTxPerBlock /\ d > 0
  BY <1>1, <1>3, SMT DEF NextDifficulty, Difficulty
<1>4. CASE /\ ~ (txs > PowHighWatermarkTxPerBlock /\ d < PowMaxDifficulty)
           /\ ~ (txs < PowLowWatermarkTxPerBlock /\ d > 0)
  BY <1>1, <1>4, SMT DEF NextDifficulty, Difficulty
<1> QED
  BY <1>2, <1>3, <1>4

\* The difficulty moves by one at most, and up only when congested.
LEMMA CountedStep ==
  ASSUME NEW n \in Difficulty
  PROVE  /\ CountedUpTo(n) \in Difficulty
         /\ n <= CountedUpTo(n)
         /\ n < PowMaxDifficulty => CountedUpTo(n) = n + 1
         /\ ~ (n < PowMaxDifficulty) => CountedUpTo(n) = PowMaxDifficulty
  BY PowAssumption, SMT DEF PowAssumption, CountedUpTo, Difficulty

\* The chain starts at difficulty 0 with an empty mempool.
LEMMA PowInit ==
  ASSUME Init
  PROVE  PowInv
<1>1. 0 \in Difficulty /\ 0 \in 0..MaxRestarts
  BY PowAssumption, SMT DEF PowAssumption, Difficulty
<1>2. TypeOK
  BY <1>1 DEF Init, TypeOK
<1> QED
  BY <1>2, PowAssumption, SMT DEF PowAssumption, Init, PowInv, NothingPending,
       EngagesOnlyWhenBusy, DecaysWhenCalm, AdmittedHaveWork

\* A block announces the difficulty that its commit will bring.
LEMMA FinalizeStep ==
  ASSUME PowInv, FinalizeBlock
  PROVE  PowInv'
<1>1. /\ difficulty \in Difficulty /\ pending = difficulty
      /\ busy \in Difficulty /\ calm \in Difficulty
      /\ load' \in Nat /\ PowMaxDifficulty \in Nat
  BY PowAssumption DEF PowAssumption, PowInv, TypeOK, NothingPending, FinalizeBlock
<1>2. /\ pending' = NextDifficulty(difficulty, load')
      /\ difficulty' = difficulty
      /\ busy' = IF load' > PowHighWatermarkTxPerBlock THEN CountedUpTo(busy) ELSE busy
      /\ calm' = IF load' < PowLowWatermarkTxPerBlock THEN CountedUpTo(calm) ELSE 0
  BY DEF FinalizeBlock
<1>3. /\ pending' \in Difficulty /\ pending' <= difficulty + 1
      /\ load' <= PowHighWatermarkTxPerBlock => pending' <= difficulty
      /\ load' < PowLowWatermarkTxPerBlock /\ difficulty > 0 => pending' = difficulty - 1
      /\ load' < PowLowWatermarkTxPerBlock /\ difficulty = 0 => pending' = 0
  BY <1>1, <1>2, NextDifficultyStep
<1>4. /\ CountedUpTo(busy) \in Difficulty /\ busy <= CountedUpTo(busy)
      /\ busy < PowMaxDifficulty => CountedUpTo(busy) = busy + 1
      /\ ~ (busy < PowMaxDifficulty) => CountedUpTo(busy) = PowMaxDifficulty
      /\ CountedUpTo(calm) \in Difficulty
      /\ calm < PowMaxDifficulty => CountedUpTo(calm) = calm + 1
      /\ ~ (calm < PowMaxDifficulty) => CountedUpTo(calm) = PowMaxDifficulty
  BY <1>1, CountedStep
<1>5. PowHighWatermarkTxPerBlock \in Nat /\ PowLowWatermarkTxPerBlock \in Nat
  BY PowAssumption, SMT DEF PowAssumption
<1>6. TypeOK'
  <2>1. busy' \in Difficulty /\ calm' \in Difficulty
    BY <1>1, <1>2, <1>4, SMT DEF Difficulty
  <2>2. wallet' \in [Wallets -> {"idle", "mining", "admitted", "inBlock"}]
    BY DEF FinalizeBlock, PowInv, TypeOK
  <2> QED
    BY <1>1, <1>2, <1>3, <2>1, <2>2 DEF FinalizeBlock, PowInv, TypeOK
<1>7. EngagesOnlyWhenBusy'
  <2>1. difficulty <= busy
    BY DEF PowInv, EngagesOnlyWhenBusy
  <2>2. CASE load' > PowHighWatermarkTxPerBlock
    BY <1>1, <1>2, <1>3, <1>4, <2>1, <2>2, SMT DEF EngagesOnlyWhenBusy, Difficulty
  <2>3. CASE load' <= PowHighWatermarkTxPerBlock
    BY <1>1, <1>2, <1>3, <1>5, <2>1, <2>3, SMT DEF EngagesOnlyWhenBusy, Difficulty
  <2> QED
    BY <1>1, <1>5, <2>2, <2>3, SMT
<1>8. DecaysWhenCalm'
  <2>1. difficulty + calm <= PowMaxDifficulty
    BY <1>1 DEF PowInv, DecaysWhenCalm
  <2>2. CASE load' < PowLowWatermarkTxPerBlock
    BY <1>1, <1>2, <1>3, <1>4, <2>1, <2>2, SMT DEF DecaysWhenCalm, Difficulty
  <2>3. CASE ~ (load' < PowLowWatermarkTxPerBlock)
    BY <1>1, <1>2, <1>3, <2>3, SMT DEF DecaysWhenCalm, Difficulty
  <2> QED
    BY <2>2, <2>3
<1>9. NothingPending' /\ AdmittedHaveWork'
  BY DEF FinalizeBlock, NothingPending, PowInv, AdmittedHaveWork, TypeOK
<1> QED
  BY <1>6, <1>7, <1>8, <1>9 DEF PowInv

\* Commit rechecks what waits against the new difficulty.
LEMMA CommitStep ==
  ASSUME PowInv, Commit
  PROVE  PowInv'
<1>1. TypeOK'
  BY DEF Commit, PowInv, TypeOK
<1>2. NothingPending' /\ EngagesOnlyWhenBusy' /\ DecaysWhenCalm'
  BY DEF Commit, PowInv, NothingPending, EngagesOnlyWhenBusy, DecaysWhenCalm
<1>3. AdmittedHaveWork'
  <2> SUFFICES ASSUME NEW w \in Wallets, wallet'[w] = "admitted"
               PROVE  work'[w] >= difficulty'
    BY DEF AdmittedHaveWork
  <2>1. wallet[w] = "admitted" /\ ~ (work[w] < pending)
    BY DEF Commit
  <2>2. work[w] \in Nat /\ pending \in Nat
    BY PowAssumption, SMT DEF PowAssumption, PowInv, TypeOK, Difficulty
  <2> QED
    BY <2>1, <2>2, SMT DEF Commit
<1> QED
  BY <1>1, <1>2, <1>3 DEF PowInv

\* CheckTx, wallets and restarts leave the controller alone.
LEMMA NodeStep ==
  ASSUME PowInv, Restart \/ \E w \in Wallets : Query(w) \/ Submit(w)
  PROVE  PowInv'
<1>1. CASE Restart
  <2>1. restarts' \in 0..MaxRestarts
    BY <1>1, PowAssumption, SMT DEF PowAssumption, PowInv, TypeOK, Restart
  <2>2. TypeOK'
    BY <1>1, <2>1 DEF PowInv, TypeOK, Restart, chainVars
  <2> QED
    BY <1>1, <2>2 DEF PowInv, Restart, chainVars, NothingPending, EngagesOnlyWhenBusy,
                      DecaysWhenCalm, AdmittedHaveWork
<1>2. ASSUME NEW w \in Wallets, Query(w)
      PROVE  PowInv'
  <2>1. TypeOK'
    BY <1>2 DEF PowInv, TypeOK, Query, chainVars
  <2>2. AdmittedHaveWork'
    BY <1>2 DEF PowInv, TypeOK, Query, chainVars, AdmittedHaveWork
  <2> QED
    BY <1>2, <2>1, <2>2 DEF PowInv, Query, chainVars, NothingPending, EngagesOnlyWhenBusy,
                            DecaysWhenCalm
<1>3. ASSUME NEW w \in Wallets, Submit(w)
      PROVE  PowInv'
  <2>1. TypeOK'
    BY <1>3 DEF PowInv, TypeOK, Submit, chainVars
  <2>2. AdmittedHaveWork'
    BY <1>3 DEF PowInv, TypeOK, Submit, chainVars, AdmittedHaveWork, PowAccepts
  <2> QED
    BY <1>3, <2>1, <2>2 DEF PowInv, Submit, chainVars, NothingPending, EngagesOnlyWhenBusy,
                            DecaysWhenCalm
<1> QED
  BY <1>1, <1>2, <1>3

\* The invariant holds in every reachable state.
LEMMA PowInvHolds == Spec => []PowInv
<1>1. Init => PowInv
  BY PowInit
<1>2. PowInv /\ [Next]_vars => PowInv'
  <2> SUFFICES ASSUME PowInv, [Next]_vars
               PROVE  PowInv'
    OBVIOUS
  <2>1. CASE UNCHANGED vars
    BY <2>1 DEF vars, chainVars, PowInv, TypeOK, NothingPending, EngagesOnlyWhenBusy,
                DecaysWhenCalm, AdmittedHaveWork
  <2> QED
    BY <2>1, FinalizeStep, CommitStep, NodeStep DEF Next
<1> QED
  BY <1>1, <1>2, PTL DEF Spec

\* The difficulty and the work wallets do stay between 0 and the maximum
\* (keeper.go:346-358).
THEOREM PowTypeCorrect == Spec => []TypeOK
<1>1. PowInv => TypeOK
  BY DEF PowInv
<1> QED
  BY <1>1, PowInvHolds, PTL

\* The difficulty never exceeds the number of congested blocks there were
\* (types.go:52-54, README.md:67).
THEOREM EngagesOnlyWhenBusyHolds == Spec => []EngagesOnlyWhenBusy
<1>1. PowInv => EngagesOnlyWhenBusy
  BY DEF PowInv
<1> QED
  BY <1>1, PowInvHolds, PTL

\* A row of calm blocks takes the difficulty down bit by bit from the
\* maximum, whatever came before (types.go:56-58).
THEOREM DecaysWhenCalmHolds == Spec => []DecaysWhenCalm
<1>1. PowInv => DecaysWhenCalm
  BY DEF PowInv
<1> QED
  BY <1>1, PowInvHolds, PTL

\* Whatever waits in the mempool after a commit has the work the committed
\* difficulty asks for (keeper.go:311-313, config.toml:26).
THEOREM AdmittedHaveWorkHolds == Spec => []AdmittedHaveWork
<1>1. PowInv => AdmittedHaveWork
  BY DEF PowInv
<1> QED
  BY <1>1, PowInvHolds, PTL
=============================================================================
