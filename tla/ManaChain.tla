------------------------------ MODULE ManaChain ------------------------------
(***************************************************************************)
(* Block execution on one node, which is the same on every node: the       *)
(* store of mana records, the bank it reads, and the transactions of a     *)
(* block going through the ante pipeline one after the other.              *)
(*                                                                         *)
(* A transaction runs on a branch of the store that is written back only   *)
(* if the whole pipeline succeeds; if one of its messages then fails, the  *)
(* messages' writes are dropped and the pipeline's stay.  Both are what    *)
(* BaseApp does around the decorators of app/ante/ante.go.                 *)
(*                                                                         *)
(* The proof-of-work difficulty, which block execution updates but never   *)
(* reads, is in module PowChoke.                                           *)
(*                                                                         *)
(* Sources: app/ante/ante.go, app/app.go (block lifecycle),                *)
(* x/mana/keeper/genesis.go (InitGenesis).                                 *)
(***************************************************************************)
EXTENDS ManaKeeper

CONSTANTS
  GenesisStore,   \* the records of app_state.mana.account_manas
  BankStates,     \* the balances and supplies the bank can hold
  TxSizes,        \* the sizes in bytes of the transactions submitted
  MaxTxBytes,     \* types.MaxTxBytes
  MaxBlockTxs,    \* bound: transactions in one block
  MaxHeight       \* bound: blocks executed

ASSUME ChainAssumption ==
  /\ IsStore(GenesisStore)
  /\ \A b \in BankStates : IsBank(b)
  /\ TxSizes \subseteq Nat
  /\ MaxTxBytes \in Nat
  /\ MaxBlockTxs \in Nat
  /\ MaxHeight \in Nat

VARIABLES
  height,     \* the block being executed, or the last one committed
  phase,      \* "committed" between two blocks, "deliver" inside one
  txsLeft,    \* transactions of this block still to execute
  store,      \* the mana module's account records
  bank,       \* the bank module's balances and supply
  spent,      \* history: mana charged to each account since genesis
  included    \* history: transactions signed by each account in this block

vars == <<height, phase, txsLeft, store, bank, spent, included>>

\* The payer is the first signer; `sound` stands for every decorator this
\* repository takes from the SDK: stateless checks, signatures, sequence.
Tx == { tx \in [ payer : Accounts, signers : SUBSET Accounts,
                 size : TxSizes, sound : BOOLEAN ] : tx.payer \in tx.signers }

-----------------------------------------------------------------------------
\* The ante pipeline at the height being executed.

Cost(tx) == ComputeTxManaCost(tx.size)

\* TxSpamLimit runs on what ManaConsume wrote.
AfterConsume(tx) == ConsumeMana(store, bank, height, tx.payer, Cost(tx))

\* The cap is left to mana alone.
AnteAccepts_NoSpamLimit(tx) ==
  /\ tx.size <= MaxTxBytes
  /\ CanConsume(store, bank, height, tx.payer, Cost(tx))
  /\ tx.sound

AnteAccepts(tx) ==
  /\ tx.size <= MaxTxBytes
  /\ CanConsume(store, bank, height, tx.payer, Cost(tx))
  /\ \A a \in tx.signers : CanIncrement(AfterConsume(tx), bank, height, a)
  /\ tx.sound

AnteWrites(tx) == IncrementTxCount(AfterConsume(tx), bank, height, tx.signers)

\* What the messages of a transaction can do to the bank: move coins out of
\* the signers' balances, to others, to no balance (delegation) or out of the
\* supply (burning).
MsgOutcomes(tx) ==
  { b \in BankStates : /\ b.supply <= bank.supply
                       /\ \A a \in Accounts \ tx.signers : b.balance[a] >= bank.balance[a] }

-----------------------------------------------------------------------------
\* InitChainer: the bank's genesis, then the mana records.
Init == /\ height = 0
        /\ phase = "committed"
        /\ txsLeft = 0
        /\ store = GenesisStore
        /\ bank \in BankStates
        /\ spent = [a \in Accounts |-> 0]
        /\ included = [a \in Accounts |-> 0]

\* FinalizeBlock up to the first transaction: minting and slashing change
\* the supply, not a signer's balance.
BeginBlock ==
  /\ phase = "committed"
  /\ height < MaxHeight
  /\ phase' = "deliver"
  /\ height' = height + 1
  /\ txsLeft' \in 0..MaxBlockTxs
  /\ bank' \in { b \in BankStates : b.balance = bank.balance }
  /\ included' = [a \in Accounts |-> 0]
  /\ UNCHANGED <<store, spent>>

\* The pipeline accepts; the messages then succeed or fail.
DeliverAccepted(tx) ==
  /\ phase = "deliver"
  /\ txsLeft > 0
  /\ AnteAccepts(tx)
  /\ txsLeft' = txsLeft - 1
  /\ store' = AnteWrites(tx)
  /\ bank' \in MsgOutcomes(tx) \cup {bank}
  /\ spent' = [spent EXCEPT ![tx.payer] = @ + Cost(tx)]
  /\ included' = [a \in Accounts |-> included[a] + (IF a \in tx.signers THEN 1 ELSE 0)]
  /\ UNCHANGED <<height, phase>>

\* A decorator rejects: nothing the ones before it wrote is kept.
DeliverRejected(tx) ==
  /\ phase = "deliver"
  /\ txsLeft > 0
  /\ ~ AnteAccepts(tx)
  /\ txsLeft' = txsLeft - 1
  /\ UNCHANGED <<height, phase, store, bank, spent, included>>

\* EndBlock and Commit: unbonding completes, deposits are returned or burned.
EndBlock ==
  /\ phase = "deliver"
  /\ txsLeft = 0
  /\ phase' = "committed"
  /\ bank' \in { b \in BankStates : /\ b.supply <= bank.supply
                                    /\ \A a \in Accounts : b.balance[a] >= bank.balance[a] }
  /\ UNCHANGED <<height, txsLeft, store, spent, included>>

Next == \/ BeginBlock
        \/ EndBlock
        \/ \E tx \in Tx : DeliverAccepted(tx) \/ DeliverRejected(tx)

Spec == Init /\ [][Next]_vars

-----------------------------------------------------------------------------
\* What the properties are said about.

Record(a) == LoadAccountMana(store, a)
Grant(a)  == LoadAccountMana(GenesisStore, a)

\* The type invariant.
TypeOK ==
  /\ height \in Nat
  /\ phase \in {"committed", "deliver"}
  /\ txsLeft \in Nat
  /\ IsStore(store)
  /\ bank \in BankStates
  /\ spent \in [Accounts -> Nat]
  /\ included \in [Accounts -> Nat]

(***************************************************************************)
(* No account signs more than MaxTxPerBlock transactions of one block,     *)
(* first signer or not: IncrementTxCount, keeper.go:249-272.               *)
(***************************************************************************)
PerBlockLimit == \A a \in Accounts : included[a] <= MaxTxPerBlock

(***************************************************************************)
(* The counter IncrementTxCount compares with the limit is the number of   *)
(* transactions the account has signed in the block being executed: a      *)
(* count left over from an earlier block refuses nobody, and a rejected    *)
(* transaction uses up nothing (ante.go:44-46, keeper.go:259-262).         *)
(***************************************************************************)
CountExact ==
  phase = "deliver" => \A a \in Accounts : TxCount(Record(a), height) = included[a]

(***************************************************************************)
(* The cap the REST end point shows (query.go:19-33) is the one the keeper *)
(* refills to (keeper.go:181-186), in the time README.md:85 gives, rounded *)
(* up to a block: from whatever a record holds, a wallet that waits        *)
(* reaches exactly that cap.                                               *)
(***************************************************************************)
RefillTime(mana) == (mana * ManaRegenWindowBlocks + (MinManaFloor - 1)) \div MinManaFloor

ShownCapIsReached ==
  phase = "committed" =>
    \A a \in Accounts :
      LET shown == QueryMana(store, bank, height, a).maxMana
      IN  QueryMana(store, bank, height + RefillTime(shown), a).mana = shown

(***************************************************************************)
(* Draining is no way to refill: whatever an account has been charged plus *)
(* what its record still holds never exceeds its genesis grant plus one    *)
(* peak gain per block up to the record's time stamp.  This is what the    *)
(* NOTE at keeper.go:122-125 says the removed recovery path broke.         *)
(***************************************************************************)
RateLimited ==
  \A a \in Accounts :
    spent[a] + Record(a).mana + PeakPerBlock * Grant(a).lastUpdateHeight
      <= Grant(a).mana + PeakPerBlock * Record(a).lastUpdateHeight

(***************************************************************************)
(* The lazily updated records implement a rate limiter, whatever the bank  *)
(* does: an account's bucket is its record, refilled at the peak gain for  *)
(* the blocks since its time stamp and cut off at the larger of the peak   *)
(* cap and its grant.  (keeper.go:152-247)                                 *)
(***************************************************************************)
Elapsed(a) == IF height > Record(a).lastUpdateHeight
                THEN height - Record(a).lastUpdateHeight
                ELSE 0

PeakCap == MaxMana(PeakRate)

Burst == [a \in Accounts |-> IF Grant(a).mana > PeakCap THEN Grant(a).mana ELSE PeakCap]

Tokens == [a \in Accounts |->
             ClampedSum(Record(a).mana, PeakPerBlock, Elapsed(a), Burst[a])]

Bucket == INSTANCE TokenBucket WITH
            Rate   <- PeakPerBlock,
            Burst  <- Burst,
            clock  <- height,
            tokens <- Tokens

ImplementsTokenBucket == Bucket!Spec

(***************************************************************************)
(* What GetAccountMana answers is a meter that is refilled at every block  *)
(* and charged exactly the price of a transaction, as README.md:47-56 says *)
(* to wallets, in every behaviour whose steps are Calm.  The keeper does   *)
(* not promise it of others: it accounts for all the blocks since the last *)
(* update at the balance of the read, so that coins that arrive raise a    *)
(* meter at once (keeper.go:118-120 says so of a newly funded wallet).     *)
(*                                                                         *)
(* A step is calm when it leaves every account its gain and raises nobody's*)
(* cap; within a block it leaves the caps alone.  Minting is calm wherever *)
(* everybody gains the minimum, as with the shipped parameters (run        *)
(* large_holder), and so are transfers among holders whose cap is the      *)
(* floor.                                                                  *)
(***************************************************************************)
RateOf(b, a) == ExactRate(b.balance[a], b.supply)

Calm ==
  \A a \in Accounts :
    /\ PerBlock(RateOf(bank', a)) = PerBlock(RateOf(bank, a))
    /\ MaxMana(RateOf(bank', a)) <= MaxMana(RateOf(bank, a))
    /\ height' = height => MaxMana(RateOf(bank', a)) = MaxMana(RateOf(bank, a))

Meter == INSTANCE ManaMeter WITH
           clock <- height,
           meter <- [a \in Accounts |-> GetAccountMana(store, bank, height, a).mana]

ImplementsMeter == Meter!Spec
=============================================================================
