---------------------------- MODULE MCManaNetwork ----------------------------
(***************************************************************************)
(* Three accounts that pass the whole supply round inside a block.  A      *)
(* block's worth of refill fills the largest cap from nothing, so that a   *)
(* wallet that never signed can spend the rate of coins it has just        *)
(* received; alice starts with a grant above every cap.                    *)
(***************************************************************************)
EXTENDS ManaNetwork

CONSTANTS alice, bob, carol

MCGenesisStore ==
  [a \in {alice} |-> [FreshAccount EXCEPT !.mana = 24]]

MCBank(a, b, c, s) ==
  [balance |-> [x \in Accounts |-> IF x = alice THEN a ELSE IF x = bob THEN b ELSE c],
   supply  |-> s]

\* One holder of everything, some of it staked, minted, burned.
MCBankStates == { MCBank(4, 0, 0, 4), MCBank(0, 4, 0, 4), MCBank(0, 1, 3, 4),
                  MCBank(0, 1, 3, 5), MCBank(0, 2, 0, 2) }

\* The chain goes on; the model ends after MaxHeight blocks.
AtBound == height = MaxHeight /\ phase = "committed" /\ UNCHANGED networkVars

MCNetworkSpec == NetworkInit /\ [][NetworkNext \/ AtBound]_networkVars

ASSUME MCBankIsConsistent == BankIsConsistent
=============================================================================
