------------------------------ MODULE ManaMath ------------------------------
(***************************************************************************)
(* The arithmetic of x/mana: how a balance becomes a regeneration rate, a  *)
(* rate becomes a cap and a per-block gain, and how a gain is added to a   *)
(* meter without leaving uint64.  Pure operators; no state.                *)
(*                                                                         *)
(* Sources: x/mana/keeper/rate.go, the arithmetic half of                  *)
(* x/mana/keeper/keeper.go and the constants of x/mana/types/types.go.     *)
(***************************************************************************)
EXTENDS Integers

CONSTANTS
  MaxUint64,               \* the largest value of the word the code computes in
  MinManaFloor,            \* types.MinManaFloor: the free allowance
  ManaRegenWindowBlocks,   \* types.ManaRegenWindowBlocks
  DefaultBlocksPerYear,    \* types.DefaultBlocksPerYear
  DefaultManaBaseCost,     \* types.DefaultManaBaseCost
  DefaultManaCostPerByte,  \* types.DefaultManaCostPerByte
  TotalManaPool,           \* Params.total_mana_pool
  BlocksPerYear,           \* Params.blocks_per_year
  ManaRegenMultiplier      \* Params.mana_regen_multiplier

(***************************************************************************)
(* What the constants of types.go and Params.Validate guarantee.  The      *)
(* multiplier may be zero: Validate does not look at it.                   *)
(***************************************************************************)
ASSUME MathAssumption ==
  /\ MaxUint64 \in Nat
  /\ MinManaFloor \in 1..MaxUint64
  /\ ManaRegenWindowBlocks \in Nat \ {0}
  /\ DefaultBlocksPerYear \in Nat \ {0}
  /\ DefaultManaBaseCost \in Nat
  /\ DefaultManaCostPerByte \in Nat
  /\ TotalManaPool \in Nat \ {0}
  /\ BlocksPerYear \in Nat
  /\ ManaRegenMultiplier \in Nat

Uint64 == 0..MaxUint64

\* What a uint64 register holds after an operation whose exact result is n.
Wrap(n) == IF n <= MaxUint64 THEN n ELSE n % (MaxUint64 + 1)

-----------------------------------------------------------------------------
(***************************************************************************)
(* rate.go: (balance * pool / supply) * multiplier in arbitrary precision. *)
(* A multiplier of zero means one.  A zero balance or supply means rate 0. *)
(***************************************************************************)
Multiplier == IF ManaRegenMultiplier > 0 THEN ManaRegenMultiplier ELSE 1

ExactRate(balance, supply) ==
  IF balance = 0 \/ supply = 0
    THEN 0
    ELSE ((balance * TotalManaPool) \div supply) * Multiplier

\* computeManaRate returns an error when the rate is not a uint64.
RateFits(balance, supply) == ExactRate(balance, supply) <= MaxUint64

\* The largest rate any holder can have: that of the whole supply.
PeakRate == TotalManaPool * Multiplier

-----------------------------------------------------------------------------
\* The cap of a holder whose rate is r: never below the free allowance.
MaxMana(r) == IF r < MinManaFloor THEN MinManaFloor ELSE r

\* The least an account gains per block, whatever it holds.
MinPerBlock == MinManaFloor \div ManaRegenWindowBlocks

PerBlock(r) ==
  LET blocksPerYear == IF BlocksPerYear = 0 THEN DefaultBlocksPerYear
                                            ELSE BlocksPerYear
      perBlock      == r \div blocksPerYear
  IN  IF perBlock < MinPerBlock THEN MinPerBlock ELSE perBlock

\* No account ever gains more than this in one block.
PeakPerBlock == PerBlock(PeakRate)

-----------------------------------------------------------------------------
\* The product taken in the register, without the overflow test.
AddManaSaturating_Wraps(current, perBlock, blocksElapsed, maxMana) ==
  IF current >= maxMana
    THEN maxMana
    ELSE LET gained == Wrap(perBlock * blocksElapsed)
         IN  IF gained > maxMana - current THEN maxMana ELSE current + gained

\* A meter above its cap is left where it is.
AddManaSaturating_KeepsExcess(current, perBlock, blocksElapsed, maxMana) ==
  IF current + perBlock * blocksElapsed >= maxMana
    THEN IF current > maxMana THEN current ELSE maxMana
    ELSE current + perBlock * blocksElapsed

\* The cap is tested before the gain is added, not after.
AddManaSaturating_Overshoots(current, perBlock, blocksElapsed, maxMana) ==
  IF current >= maxMana THEN maxMana ELSE Wrap(current + perBlock * blocksElapsed)

(***************************************************************************)
(* addManaSaturating, in the order of the code: a full meter stays at its  *)
(* cap; a product that would overflow saturates; the headroom is compared  *)
(* before the sum is formed.                                               *)
(***************************************************************************)
AddManaSaturating(current, perBlock, blocksElapsed, maxMana) ==
  IF current >= maxMana
    THEN maxMana
    ELSE LET gained == IF perBlock # 0 /\ blocksElapsed > MaxUint64 \div perBlock
                         THEN MaxUint64
                         ELSE Wrap(perBlock * blocksElapsed)
         IN  IF gained > maxMana - current THEN maxMana
                                           ELSE Wrap(current + gained)

\* The reference the saturating sum is compared with: plain integers.
ClampedSum(current, perBlock, blocksElapsed, maxMana) ==
  IF current + perBlock * blocksElapsed < maxMana
    THEN current + perBlock * blocksElapsed
    ELSE maxMana

-----------------------------------------------------------------------------
\* ComputeTxManaCost: the price of a transaction of txSize bytes.
ComputeTxManaCost(txSize) ==
  IF txSize <= 0
    THEN DefaultManaBaseCost
    ELSE DefaultManaBaseCost + txSize * DefaultManaCostPerByte
=============================================================================
