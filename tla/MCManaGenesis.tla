---------------------------- MODULE MCManaGenesis ----------------------------
(***************************************************************************)
(* Small instances of ManaGenesis, with the accounts, bank states and      *)
(* records of MCManaChain.                                                 *)
(***************************************************************************)
EXTENDS ManaGenesis, MCManaChain

\* Coins with alice, or staked; rewards bring them back.
MCRewardBank == { MCBank(4, 0, 4), MCBank(0, 0, 4) }

GenesisAtBound == /\ Running
                  /\ height = MaxHeight
                  /\ phase = "committed"
                  /\ exports = MaxExports
                  /\ UNCHANGED genesisVars

MCGenesisSpec == GenesisInit /\ [][GenesisNext \/ GenesisAtBound]_genesisVars
=============================================================================
