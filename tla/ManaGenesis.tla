----------------------------- MODULE ManaGenesis -----------------------------
(***************************************************************************)
(* Restarting the chain from an exported state: the node is stopped after  *)
(* a commit, its state is written to a genesis file, and a new chain is    *)
(* started from that file, either at the height after the commit or, after *)
(* a zero-height export, at height 1.                                      *)
(*                                                                         *)
(* A zero-height export pays out rewards and resets the heights that the   *)
(* staking, distribution and slashing modules keep.  The mana records are  *)
(* exported as they are stored in either case.                             *)
(*                                                                         *)
(* The exported file names all modules; restricting the list of modules    *)
(* is the operator's decision to drop state and is not modelled.           *)
(*                                                                         *)
(* Sources: app/export.go, x/mana/keeper/genesis.go, app/app.go            *)
(* (InitChainer), x/mana/module.go.                                        *)
(***************************************************************************)
EXTENDS ManaChain

CONSTANTS
  ExportKinds,   \* the exports made: TRUE is one for zero height
  MaxExports     \* bound: exports

ASSUME GenesisAssumption == ExportKinds \subseteq BOOLEAN /\ MaxExports \in Nat

VARIABLES
  files,     \* the genesis file of a stopped chain; empty while one is running
  exports,   \* exports so far
  lived,     \* history: blocks executed by all the chains together
  idle,      \* history: blocks since each account last signed
  rebased    \* history: whether a zero-height file was ever started from

restartVars == <<files, exports, rebased>>
genesisVars == <<vars, restartVars, lived, idle>>

-----------------------------------------------------------------------------
Running == files = {}

GenesisInit ==
  /\ Init
  /\ files = {}
  /\ exports = 0
  /\ lived = 0
  /\ idle = [a \in Accounts |-> 0]
  /\ rebased = FALSE

\* A step of the running chain.
RunBeginBlock ==
  /\ Running
  /\ BeginBlock
  /\ lived' = lived + 1
  /\ idle' = [a \in Accounts |-> idle[a] + 1]
  /\ UNCHANGED restartVars

RunDeliver(tx) ==
  /\ Running
  /\ \/ /\ DeliverAccepted(tx)
        /\ idle' = [a \in Accounts |-> IF a \in tx.signers THEN 0 ELSE idle[a]]
     \/ /\ DeliverRejected(tx)
        /\ UNCHANGED idle
  /\ UNCHANGED <<restartVars, lived>>

RunEndBlock ==
  /\ Running
  /\ EndBlock
  /\ UNCHANGED <<restartVars, lived, idle>>

-----------------------------------------------------------------------------
\* What prepForZeroHeightGenesis does to balances: commissions and rewards
\* are withdrawn.  It touches no mana record.
PrepForZeroHeightGenesis ==
  { b \in BankStates : /\ b.supply = bank.supply
                       /\ \A a \in Accounts : b.balance[a] >= bank.balance[a] }

\* ExportGenesis lists the records with their addresses; InitGenesis stores
\* each of them under its address.
ExportGenesis == { [address |-> a, record |-> store[a]] : a \in DOMAIN store }

InitGenesis(accountManas) ==
  [ a \in { m.address : m \in accountManas } |->
      (CHOOSE m \in accountManas : m.address = a).record ]

\* ExportAppStateAndValidators, between two blocks.
Export(forZeroHeight) ==
  /\ Running
  /\ phase = "committed"
  /\ exports < MaxExports
  /\ exports' = exports + 1
  /\ \E b \in IF forZeroHeight THEN PrepForZeroHeightGenesis ELSE {bank} :
       files' = { [height       |-> IF forZeroHeight THEN 0 ELSE height + 1,
                   bank         |-> b,
                   accountManas |-> ExportGenesis] }
  /\ UNCHANGED <<vars, lived, idle, rebased>>

\* The records lose their time stamps on the way through the file.
InitChain_DropsStamps(file) ==
  /\ height' = IF file.height = 0 THEN 0 ELSE file.height - 1
  /\ phase' = "committed"
  /\ txsLeft' = 0
  /\ store' = InitGenesis({ [m EXCEPT !.record.lastUpdateHeight = 0] :
                              m \in file.accountManas })
  /\ bank' = file.bank
  /\ included' = [a \in Accounts |-> 0]
  /\ files' = {}
  /\ rebased' = (rebased \/ file.height = 0)
  /\ idle' = IF file.height = 0 THEN [a \in Accounts |-> 0] ELSE idle
  /\ UNCHANGED <<spent, exports, lived>>

\* The initial height of the file is ignored: every chain starts at block 1.
InitChain_AtBlockOne(file) ==
  /\ height' = 0
  /\ phase' = "committed"
  /\ txsLeft' = 0
  /\ store' = InitGenesis(file.accountManas)
  /\ bank' = file.bank
  /\ included' = [a \in Accounts |-> 0]
  /\ files' = {}
  /\ rebased' = (rebased \/ file.height = 0)
  /\ idle' = IF file.height = 0 THEN [a \in Accounts |-> 0] ELSE idle
  /\ UNCHANGED <<spent, exports, lived>>

\* InitChainer on the file: the bank first, then InitGenesis of the mana
\* module.  The first block of the new chain is the file's height, or block 1.
InitChain(file) ==
  /\ height' = IF file.height = 0 THEN 0 ELSE file.height - 1
  /\ phase' = "committed"
  /\ txsLeft' = 0
  /\ store' = InitGenesis(file.accountManas)
  /\ bank' = file.bank
  /\ included' = [a \in Accounts |-> 0]
  /\ files' = {}
  /\ rebased' = (rebased \/ file.height = 0)
  /\ idle' = IF file.height = 0 THEN [a \in Accounts |-> 0] ELSE idle
  /\ UNCHANGED <<spent, exports, lived>>

GenesisNext ==
  \/ RunBeginBlock
  \/ RunEndBlock
  \/ \E tx \in Tx : RunDeliver(tx)
  \/ \E forZeroHeight \in ExportKinds : Export(forZeroHeight)
  \/ \E file \in files : InitChain(file)

GenesisSpec == GenesisInit /\ [][GenesisNext]_genesisVars

-----------------------------------------------------------------------------
(***************************************************************************)
(* Restarting the chain is no way to refill: over all the chains together  *)
(* an account spends and can spend no more than its first grant and one    *)
(* peak gain per block executed, zero-height exports included              *)
(* (export.go:18-47, genesis.go:12-48, keeper.go:158).                     *)
(***************************************************************************)
NoFreeMana ==
  \A a \in Accounts :
    CanGetAccountMana(store, bank, height, a) =>
      spent[a] + GetAccountMana(store, bank, height, a).mana
        <= Grant(a).mana + PeakPerBlock * lived

(***************************************************************************)
(* keeper.go:124 says drained accounts recover gradually via the per-block *)
(* floor: an account that has not signed for n blocks has n times the      *)
(* minimum gain, or its free allowance.  A restart at the same height      *)
(* keeps what was accrued before it.                                       *)
(***************************************************************************)
Recovered(a) ==
  GetAccountMana(store, bank, height, a).mana
    >= ClampedSum(0, MinPerBlock, idle[a], MinManaFloor)

RecoversGradually == ~ rebased => \A a \in Accounts : Recovered(a)

(***************************************************************************)
(* The same on every chain.  After a zero-height start only the blocks of  *)
(* the new chain are asked for.                                            *)
(***************************************************************************)
RecoversOnAnyChain == \A a \in Accounts : Running => Recovered(a)
=============================================================================
