------------------------------ MODULE ManaMeter ------------------------------
(***************************************************************************)
(* The meter README.md:47-56 describes to a wallet: every account has one, *)
(* it is refilled at every block by the account's own gain and up to the   *)
(* account's own cap, and a transaction takes exactly its cost out of the  *)
(* payer's meter.  Nothing here is lazy: there is no "last update".        *)
(***************************************************************************)
EXTENDS ManaMath

CONSTANTS Accounts

VARIABLES
  clock,    \* blocks so far
  bank,     \* balances and supply, which the meter only reads
  meter,    \* meter[a]: the mana account a can spend now
  spent     \* spent[a]: what account a has spent since the beginning

vars == <<clock, bank, meter, spent>>

RateOf(b, a) == ExactRate(b.balance[a], b.supply)

Init == /\ clock = 0
        /\ meter \in [Accounts -> Uint64]
        /\ spent = [a \in Accounts |-> 0]

Tick == /\ clock' = clock + 1
        /\ meter' = [a \in Accounts |-> ClampedSum(meter[a], PerBlock(RateOf(bank', a)), 1,
                                                   MaxMana(RateOf(bank', a)))]
        /\ UNCHANGED spent

Spend(a, cost) ==
  /\ cost \in 0..meter[a]
  /\ meter' = [meter EXCEPT ![a] = @ - cost]
  /\ spent' = [spent EXCEPT ![a] = @ + cost]
  /\ UNCHANGED clock

\* Coins change hands or are minted: the meters wait for the next block.
MoveCoins == UNCHANGED <<clock, meter, spent>>

Next == \/ Tick
        \/ \E a \in Accounts : Spend(a, spent'[a] - spent[a])
        \/ MoveCoins

Spec == Init /\ [][Next]_vars
=============================================================================
