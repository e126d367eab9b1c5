---------------------------- MODULE MCManaMainnet ----------------------------
(***************************************************************************)
(* ManaChain with the constants of types.go and the parameters and records *)
(* of config/genesis.json, for two statements README.md makes about them.  *)
(*                                                                         *)
(* TLC's integers have 32 bits: the word is cut at 2^31 - 1, and balances  *)
(* are in units of which the supply has two or eight (the founder's        *)
(* 30,875,000 of 247,000,000 JEE are one eighth).                          *)
(***************************************************************************)
EXTENDS ManaChain

CONSTANTS founder, validator

MCGenesisStore ==
  [a \in {founder, validator} |-> [FreshAccount EXCEPT !.mana = 500000000]]

MCBank(f, v, s) ==
  [balance |-> [a \in Accounts |-> IF a = founder THEN f ELSE v], supply |-> s]

\* The genesis allocation; the validator's liquid coins round to nothing.
MCLaunchBank == { MCBank(1, 0, 8) }

\* One account holds every coin there is.
MCWholeSupply == { MCBank(2, 0, 2) }

(***************************************************************************)
(* README.md:109 calls the 500,000,000 mana of the treasury accounts extra *)
(* headroom at launch: in the first block, an account that has not spent   *)
(* any of its grant has all of it to spend.                                *)
(***************************************************************************)
BonusIsHeadroom ==
  phase = "deliver" /\ height = 1 =>
    \A a \in Accounts :
      spent[a] = 0 => GetAccountMana(store, bank, height, a).mana >= Grant(a).mana

(***************************************************************************)
(* README.md:105 says very large holders can regenerate faster than the    *)
(* floor.  None can be larger than the holder of the whole supply: once it *)
(* has spent something, a block gives it more than the minimum.            *)
(***************************************************************************)
LargeHolderBeatsFloor ==
  \A a \in Accounts :
    LET now == GetAccountMana(store, bank, height, a)
    IN  /\ phase = "deliver"
        /\ bank.balance[a] = bank.supply
        /\ now.mana < MaxMana(ExactRate(bank.balance[a], bank.supply)) - MinPerBlock
        => RegenerateMana(now, bank.balance[a], bank.supply, height + 1).mana
             > now.mana + MinPerBlock
=============================================================================
