----------------------------- MODULE ManaKeeper -----------------------------
(***************************************************************************)
(* The mana keeper's account records and the operations the ante handler   *)
(* runs on them, as functions from one store to the next.  A caller states *)
(* when an operation succeeds (CanConsume, CanIncrement) and, if it does,  *)
(* what it writes (ConsumeMana, IncrementTxCount).                         *)
(*                                                                         *)
(* A store maps the accounts that have a record to that record.  The bank  *)
(* is read-only here, as the keeper's ViewBankKeeper interface has it:     *)
(* a record of the balance of every account and of the total supply.       *)
(*                                                                         *)
(* Source: x/mana/keeper/keeper.go and query.go.  The JSON encoding of a   *)
(* record, and the error of decoding one the keeper did not write, are     *)
(* left out.                                                               *)
(***************************************************************************)
EXTENDS ManaMath

CONSTANTS
  Accounts,        \* the addresses that sign transactions
  MaxTxPerBlock    \* Params.max_tx_per_block

ASSUME KeeperAssumption == MaxTxPerBlock \in Nat \ {0}

AccountMana == [ mana             : Uint64,
                 lastUpdateHeight : Nat,
                 txCountThisBlock : Nat,
                 lastTxBlock      : Nat ]

IsStore(s) == /\ DOMAIN s \subseteq Accounts
              /\ s \in [DOMAIN s -> AccountMana]

IsBank(b) == /\ b.supply \in Nat
             /\ b.balance \in [Accounts -> Nat]
             /\ \A a \in Accounts : b.balance[a] <= b.supply

-----------------------------------------------------------------------------
\* The record of an account that was never written.
FreshAccount == [ mana             |-> 0,
                  lastUpdateHeight |-> 0,
                  txCountThisBlock |-> 0,
                  lastTxBlock      |-> 0 ]

\* The refill the comment at keeper.go:122 says was taken out.
LoadAccountMana_RefillsDrained(store, a) ==
  IF a \notin DOMAIN store
    THEN FreshAccount
    ELSE IF store[a].mana = 0 THEN [store[a] EXCEPT !.lastUpdateHeight = 0]
                              ELSE store[a]

LoadAccountMana(store, a) == IF a \in DOMAIN store THEN store[a] ELSE FreshAccount

SetAccountMana(store, a, acct) ==
  [x \in DOMAIN store \cup {a} |-> IF x = a THEN acct ELSE store[x]]

-----------------------------------------------------------------------------
\* regenerateMana fails only on a rate that is not a uint64.
CanRegenerate(acct, balance, supply, height) ==
  height > acct.lastUpdateHeight => RateFits(balance, supply)

\* The gain without the new time stamp: it would be given again.
RegenerateMana_ForgetsTime(acct, balance, supply, height) ==
  IF height <= acct.lastUpdateHeight
    THEN acct
    ELSE LET rate == ExactRate(balance, supply)
         IN  [acct EXCEPT !.mana = AddManaSaturating(@, PerBlock(rate),
                                     height - acct.lastUpdateHeight, MaxMana(rate))]

RegenerateMana(acct, balance, supply, height) ==
  IF height <= acct.lastUpdateHeight
    THEN acct
    ELSE LET rate == ExactRate(balance, supply)
         IN  [acct EXCEPT
                !.mana = AddManaSaturating(@, PerBlock(rate),
                           height - acct.lastUpdateHeight, MaxMana(rate)),
                !.lastUpdateHeight = height]

CanGetAccountMana(store, bank, height, a) ==
  CanRegenerate(LoadAccountMana(store, a), bank.balance[a], bank.supply, height)

\* The account as of `height`: a read, nothing is written.
GetAccountMana(store, bank, height, a) ==
  RegenerateMana(LoadAccountMana(store, a), bank.balance[a], bank.supply, height)

\* The floor is left to the keeper.
ShownCap_NoFloor(balance, supply) ==
  IF balance = 0 \/ supply = 0 THEN 0 ELSE ExactRate(balance, supply)

\* The cap as query.go works it out, apart from the keeper's MaxMana.
ShownCap(balance, supply) ==
  LET rate == IF balance = 0 \/ supply = 0 THEN 0 ELSE ExactRate(balance, supply)
  IN  IF rate >= MinManaFloor THEN rate ELSE MinManaFloor

\* What the REST end point shows: the meter, and that cap.
QueryMana(store, bank, height, a) ==
  [ mana    |-> GetAccountMana(store, bank, height, a).mana,
    maxMana |-> ShownCap(bank.balance[a], bank.supply) ]

-----------------------------------------------------------------------------
\* The balance is not compared with the cost.
CanConsume_AnyMeter(store, bank, height, a, cost) ==
  CanGetAccountMana(store, bank, height, a)

CanConsume(store, bank, height, a, cost) ==
  /\ CanGetAccountMana(store, bank, height, a)
  /\ GetAccountMana(store, bank, height, a).mana >= cost

ConsumeMana(store, bank, height, a, cost) ==
  SetAccountMana(store, a,
    [GetAccountMana(store, bank, height, a) EXCEPT !.mana = @ - cost])

-----------------------------------------------------------------------------
\* The count of a stale block is not cleared.
TxCount_NeverReset(acct, height) == acct.txCountThisBlock

\* How many transactions of block `height` the account has signed so far.
TxCount(acct, height) ==
  IF acct.lastTxBlock # height THEN 0 ELSE acct.txCountThisBlock

CanIncrement(store, bank, height, a) ==
  /\ CanGetAccountMana(store, bank, height, a)
  /\ TxCount(GetAccountMana(store, bank, height, a), height) < MaxTxPerBlock

Counted(acct, height) ==
  [acct EXCEPT !.txCountThisBlock = TxCount(acct, height) + 1,
               !.lastTxBlock      = height]

\* Stamps the stored record with the height but drops what it regenerated.
IncrementTxCount_LosesRegen(store, bank, height, signers) ==
  [x \in DOMAIN store \cup signers |->
     IF x \in signers
       THEN [Counted(LoadAccountMana(store, x), height)
               EXCEPT !.lastUpdateHeight = height]
       ELSE store[x]]

(***************************************************************************)
(* IncrementTxCount for each of a set of signers.  The decorator calls it  *)
(* for one signer after the other; signers are distinct and a call touches *)
(* only its own record, so the order does not show.                        *)
(***************************************************************************)
IncrementTxCount(store, bank, height, signers) ==
  [x \in DOMAIN store \cup signers |->
     IF x \in signers THEN Counted(GetAccountMana(store, bank, height, x), height)
                      ELSE store[x]]
=============================================================================
