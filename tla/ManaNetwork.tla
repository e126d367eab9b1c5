----------------------------- MODULE ManaNetwork -----------------------------
(***************************************************************************)
(* Block execution with what one block costs all accounts together: a      *)
(* history of the mana charged and of the coins moved inside the block.    *)
(*                                                                         *)
(* The keeper works out a rate from the balance of the moment of the read  *)
(* (keeper.go:170-178) and accounts for every block since the last update  *)
(* at that rate.  A coin that has paid for its holder's bandwidth may be   *)
(* sent on inside the block, and then pays for the receiver's.             *)
(*                                                                         *)
(* Sources: those of ManaChain.                                            *)
(***************************************************************************)
EXTENDS ManaChain, FiniteSets, Functions

VARIABLES
  opening,    \* history: the bank before the first transaction of the block
  charged,    \* history: mana charged to each account in this block
  arrived     \* history: coins each account received from messages in this block

networkVars == <<vars, opening, charged, arrived>>

NetworkInit ==
  /\ Init
  /\ opening = bank
  /\ charged = [a \in Accounts |-> 0]
  /\ arrived = [a \in Accounts |-> 0]

NetworkBeginBlock ==
  /\ BeginBlock
  /\ opening' = bank'
  /\ charged' = [a \in Accounts |-> 0]
  /\ arrived' = [a \in Accounts |-> 0]

Inflow(a) == IF bank'.balance[a] > bank.balance[a]
               THEN bank'.balance[a] - bank.balance[a]
               ELSE 0

NetworkDeliver(tx) ==
  \/ /\ DeliverAccepted(tx)
     /\ charged' = [charged EXCEPT ![tx.payer] = @ + Cost(tx)]
     /\ arrived' = [a \in Accounts |-> arrived[a] + Inflow(a)]
     /\ UNCHANGED opening
  \/ /\ DeliverRejected(tx)
     /\ UNCHANGED <<opening, charged, arrived>>

NetworkEndBlock ==
  /\ EndBlock
  /\ UNCHANGED <<opening, charged, arrived>>

NetworkNext == \/ NetworkBeginBlock
               \/ NetworkEndBlock
               \/ \E tx \in Tx : NetworkDeliver(tx)

NetworkSpec == NetworkInit /\ [][NetworkNext]_networkVars

-----------------------------------------------------------------------------
\* The bank has handed out no more coins than there are, and there are some.
BankIsConsistent ==
  \A b \in BankStates : b.supply > 0 /\ SumFunction(b.balance) <= b.supply

(***************************************************************************)
(* The network's bandwidth is bounded by its parameters (README.md:32,80): *)
(* what all accounts together are charged in one block is at most the rate *)
(* of the coins there were, each counted once more for every time it moved *)
(* to another account inside the block, and one free allowance per account *)
(* -- whatever was granted at genesis, minted, burned or staked.  In a     *)
(* block without transfers or burning that is the whole pool and the       *)
(* allowances.                                                             *)
(***************************************************************************)
NetworkBandwidth ==
  SumFunction(charged)
    <= ExactRate(opening.supply + SumFunction(arrived), bank.supply)
         + Cardinality(Accounts) * MinManaFloor
=============================================================================
