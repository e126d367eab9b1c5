----------------------------- MODULE MCManaChain -----------------------------
(***************************************************************************)
(* Small instances of ManaChain.  Pool, supply and blocks per year are     *)
(* scaled so that both branches of every comparison in regenerateMana are  *)
(* taken: a whole-supply holder gains more than the floor, a poor one less.*)
(***************************************************************************)
EXTENDS ManaChain

CONSTANTS alice, bob

MCRecord(mana, updated) == [FreshAccount EXCEPT !.mana = mana, !.lastUpdateHeight = updated]

\* alice starts with a grant above every cap; bob has no record.
MCGenesisStore == [a \in {alice} |-> MCRecord(10, 0)]

MCBank(a, b, s) ==
  [balance |-> [x \in Accounts |-> IF x = alice THEN a ELSE b], supply |-> s]

\* All of the supply with one holder, split, partly or wholly staked.
MCBankStates == { MCBank(4, 0, 4), MCBank(2, 2, 4), MCBank(0, 4, 4), MCBank(0, 0, 4),
                  MCBank(4, 0, 5) }

\* The chain goes on; the model ends after MaxHeight blocks.
AtBound == height = MaxHeight /\ phase = "committed" /\ UNCHANGED vars

MCSpec == Init /\ [][Next \/ AtBound]_vars

(***************************************************************************)
(* For the meter: blocks per year make everybody gain the minimum.  The    *)
(* supply is minted up from 4 to 5 and then 6, which costs the holder of 4 *)
(* part of its cap; holders of 2 or less have the floor for a cap, and     *)
(* their coins change hands or are staked.                                 *)
(***************************************************************************)
MCMeterBanks == { MCBank(4, 0, 4), MCBank(4, 0, 5), MCBank(4, 0, 6), MCBank(2, 1, 4),
                  MCBank(1, 2, 4), MCBank(2, 2, 4), MCBank(0, 2, 4), MCBank(2, 2, 5) }

MCMeterSpec == Init /\ [][(Next \/ AtBound) /\ Calm]_vars
=============================================================================
