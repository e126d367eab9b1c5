------------------------------- MODULE JeeNode -------------------------------
(***************************************************************************)
(* One node between CometBFT and the chain: the state CheckTx runs on, the *)
(* mana-priority mempool of the application next to CometBFT's own one,    *)
(* proposals, block execution, commit, recheck and restart.                *)
(*                                                                         *)
(* The same ante pipeline runs on four states: the check state, which is   *)
(* at the height of the last commit (or at 0 after a restart); the         *)
(* throw-away states of PrepareProposal and ProcessProposal and the state  *)
(* of FinalizeBlock, which are one block higher.  ABCI calls exclude each  *)
(* other, so each is one step.  CometBFT puts a transaction into its own   *)
(* mempool after the call of CheckTx has returned, so calls that overlap   *)
(* may get there in another order than they were charged.                  *)
(*                                                                         *)
(* What this repository gives the SDK is the pipeline (app/ante/ante.go),  *)
(* the mempool's priority and size, and the proposal handlers (app/app.go, *)
(* setupMempool).  What the SDK and CometBFT do with them is marked        *)
(* external in the map.  Transactions have one signer here, ManaChain has  *)
(* the co-signers; the network is calm, PowChoke has the filter.           *)
(***************************************************************************)
EXTENDS ManaKeeper, SequencesExt

CONSTANTS
  FirstStore,      \* the mana records when the first block is committed
  BankStates,      \* the balances and supplies the bank can hold
  Tx,              \* the transactions accounts may sign
  MaxTxBytes,      \* types.MaxTxBytes
  MaxMempoolTxs,   \* MaxMempoolTxs: the bound of the application's mempool
  CometSize,       \* mempool.size of config.toml: the bound of CometBFT's
  MaxBlockBytes,   \* consensus parameter block.max_bytes
  MaxNonce,        \* bound: transactions of one account
  MaxCalls,        \* bound: calls of CheckTx that overlap
  MaxBlockTxs,     \* bound: transactions of a block another node proposes
  MaxHeight,       \* bound: blocks committed
  MaxRestarts      \* bound: restarts

ASSUME NodeAssumption ==
  /\ IsStore(FirstStore)
  /\ \A b \in BankStates : IsBank(b)
  /\ Tx \subseteq [payer : Accounts, nonce : 0..MaxNonce-1, size : Nat, timeout : Nat]
  /\ MaxTxBytes \in Nat
  /\ MaxMempoolTxs \in Nat \ {0}
  /\ CometSize \in Nat
  /\ MaxBlockBytes \in Nat \ {0}
  /\ MaxNonce \in Nat
  /\ MaxCalls \in Nat
  /\ MaxBlockTxs \in Nat
  /\ MaxHeight \in Nat \ {0}
  /\ MaxRestarts \in Nat

\* What a context of the application gives to read: its height, and a branch
\* of the stores of the mana, bank and auth modules.
IsState(st) == /\ st.height \in 0..MaxHeight
               /\ IsStore(st.store)
               /\ st.bank \in BankStates
               /\ st.seq \in [Accounts -> 0..MaxNonce]

VARIABLES
  committed,   \* the state of the last commit
  delivered,   \* the block executed and not yet committed: none, or one
  check,       \* the state CheckTx runs on
  calls,       \* CheckTx has accepted these, CometBFT has not enqueued them yet
  comet,       \* CometBFT's mempool, in order of arrival
  pool,        \* the application's mempool: transactions with a priority
  dropped,     \* history: charged since the last commit, lost to CometBFT
  orphaned,    \* history: left in pool when comet lost or never had them
  expelled,    \* history: still in comet when a proposal threw them out of pool
  restarts     \* restarts so far

vars == <<committed, delivered, check, calls, comet, pool, dropped, orphaned,
          expelled, restarts>>

-----------------------------------------------------------------------------
\* The ante pipeline.  Mana and the limit are not looked at in height 0.

Cost(tx) == ComputeTxManaCost(tx.size)

Meter(st, a) == GetAccountMana(st.store, st.bank, st.height, a).mana

Charged(st, tx) == ConsumeMana(st.store, st.bank, st.height, tx.payer, Cost(tx))

\* A timeout height of 0 is none.  Block 0 does not exist: nothing has expired.
Expired(st, tx) == tx.timeout # 0 /\ st.height > tx.timeout

AnteAccepts(st, tx) ==
  /\ tx.size <= MaxTxBytes
  /\ ~ Expired(st, tx)
  /\ st.height # 0 =>
       /\ CanConsume(st.store, st.bank, st.height, tx.payer, Cost(tx))
       /\ CanIncrement(Charged(st, tx), st.bank, st.height, tx.payer)
  /\ tx.nonce = st.seq[tx.payer]

\* The limit decorator writes over the store from before the charge.
AnteWrites_LosesCharge(st, tx) ==
  [st EXCEPT !.store = IF st.height = 0
                         THEN @
                         ELSE IncrementTxCount(@, st.bank, st.height, {tx.payer}),
             !.seq[tx.payer] = @ + 1]

AnteWrites(st, tx) ==
  [st EXCEPT !.store = IF st.height = 0
                         THEN @
                         ELSE IncrementTxCount(Charged(st, tx), st.bank, st.height, {tx.payer}),
             !.seq[tx.payer] = @ + 1]

\* The pipeline for one transaction after the other; a rejected one leaves
\* nothing behind but the note of the state it was rejected in.
RunTx(run, tx) ==
  IF AnteAccepts(run.state, tx)
    THEN [run EXCEPT !.state = AnteWrites(@, tx)]
    ELSE [run EXCEPT !.rejected = @ \cup {[tx |-> tx, state |-> run.state]}]

RunsTo(st, txs) ==
  LET run[i \in 0..Len(txs)] ==
        IF i = 0 THEN [state |-> st, rejected |-> {}] ELSE RunTx(run[i-1], txs[i])
  IN  run

RunTxs(st, txs) == RunsTo(st, txs)[Len(txs)]

Rejected(run) == { r.tx : r \in run.rejected }

-----------------------------------------------------------------------------
\* The application's mempool: one entry per sender and nonce.

MaxInt64 == MaxUint64 \div 2

\* manaTxPriority: what the payer has left in the state given, 0 on error.
TxPriority(st, tx) ==
  IF CanGetAccountMana(st.store, st.bank, st.height, tx.payer)
    THEN IF Meter(st, tx.payer) > MaxInt64 THEN MaxInt64 ELSE Meter(st, tx.payer)
    ELSE 0

Key(tx) == <<tx.payer, tx.nonce>>

\* Removal looks for another key than insertion has used.
Without_FindsNothing(entries, txs) == entries

\* Removal goes by sender.
Without_Sender(entries, txs) == { e \in entries : \A tx \in txs : e.tx.payer # tx.payer }

Without(entries, txs) == { e \in entries : \A tx \in txs : Key(e.tx) # Key(tx) }

Insert(entries, st, tx) ==
  Without(entries, {tx}) \cup {[tx |-> tx, priority |-> TxPriority(st, tx)]}

HasRoom == Cardinality(pool) < MaxMempoolTxs

Waiting == { e.tx : e \in pool }

\* What CometBFT's mempool holds or is about to, and all that is charged for.
Queued == Range(comet) \cup calls

Sent == Queued \cup dropped

(***************************************************************************)
(* The orders in which PriorityNonceMempool may list its entries: higher   *)
(* priorities first, but never a nonce of a sender before a lower one, so  *)
(* an entry ranks no higher than the entries it has to wait for.           *)
(***************************************************************************)
Rank(e) == Min({ f.priority : f \in
                   { g \in pool : g.tx.payer = e.tx.payer /\ g.tx.nonce <= e.tx.nonce } })

SelectOrders ==
  { order \in SetToSeqs(pool) :
      \A i, j \in DOMAIN order : i < j =>
        /\ Rank(order[i]) >= Rank(order[j])
        /\ order[i].tx.payer = order[j].tx.payer => order[i].tx.nonce < order[j].tx.nonce }

-----------------------------------------------------------------------------
\* Proposals are built and judged on the committed state, one block higher.
NextBlock == [committed EXCEPT !.height = @ + 1]

\* Each transaction is judged alone.
ProcessProposal_OneByOne(txs) ==
  \A i \in DOMAIN txs : RunTxs(NextBlock, <<txs[i]>>).rejected = {}

ProcessProposal(txs) == RunTxs(NextBlock, txs).rejected = {}

Bytes(txs) == FoldLeft(LAMBDA n, tx : n + tx.size, 0, txs)

\* The nonces already selected are not kept track of.
Consider_IgnoresNonces(build, e) ==
  IF Bytes(build.txs) >= MaxBlockBytes
    THEN build
    ELSE IF AnteAccepts(build.state, e.tx)
           THEN [build EXCEPT !.state = AnteWrites(@, e.tx),
                              !.txs   = IF Bytes(@) + e.tx.size <= MaxBlockBytes
                                          THEN Append(@, e.tx) ELSE @]
           ELSE [build EXCEPT !.invalid = @ \cup {e.tx}]

(***************************************************************************)
(* One turn of PrepareProposalHandler.  `last` is the nonce a transaction  *)
(* has to follow, for the senders seen so far: that of the sender's latest *)
(* transaction in the proposal or, if its first one did not fit, one that  *)
(* nothing in the mempool follows.                                         *)
(***************************************************************************)
Consider(build, e) ==
  LET tx      == e.tx
      seen    == tx.payer \in DOMAIN build.last
      last(n) == [a \in DOMAIN build.last \cup {tx.payer} |->
                    IF a = tx.payer THEN n ELSE build.last[a]]
  IN  IF \/ Bytes(build.txs) >= MaxBlockBytes
         \/ seen /\ tx.nonce # build.last[tx.payer] + 1
        THEN build
        ELSE IF ~ AnteAccepts(build.state, tx)
          THEN [build EXCEPT !.invalid = @ \cup {tx}]
          ELSE IF Bytes(build.txs) + tx.size <= MaxBlockBytes
            THEN [build EXCEPT !.state = AnteWrites(@, tx),
                               !.txs   = Append(@, tx),
                               !.last  = last(tx.nonce)]
            ELSE [build EXCEPT !.state = AnteWrites(@, tx),
                               !.last  = IF seen THEN @ ELSE last(tx.nonce - 1)]

BuildsTo(order) ==
  LET build[i \in 0..Len(order)] ==
        IF i = 0
          THEN [state |-> NextBlock, txs |-> <<>>, invalid |-> {}, last |-> <<>>]
          ELSE Consider(build[i-1], order[i])
  IN  build

Build(order) == BuildsTo(order)[Len(order)]

-----------------------------------------------------------------------------
\* GET /jee/mana/v1/mana/{address}: what a wallet is told, at the last commit.
ShownMana(a) == QueryMana(committed.store, committed.bank, committed.height, a).mana

\* What the SDK's modules do to the bank around and between the pipelines.

\* BeginBlock mints and slashes: the supply moves, a signer's balance does not.
BeginOutcomes(b) == { c \in BankStates : c.balance = b.balance }

\* Messages move coins out of the signer's balance, burn some, or fail.
MsgOutcomes(b, tx) ==
  {b} \cup { c \in BankStates :
               /\ c.supply <= b.supply
               /\ \A a \in Accounts \ {tx.payer} : c.balance[a] >= b.balance[a] }

\* EndBlock completes unbonding and burns deposits.
EndOutcomes(b) ==
  { c \in BankStates : /\ c.supply <= b.supply
                       /\ \A a \in Accounts : c.balance[a] >= b.balance[a] }

\* What a transaction makes of the ways the block can have gone so far: the
\* pipeline, then its messages.
Execute(runs, tx) ==
  UNION { LET after == RunTx(run, tx)
          IN  IF tx \in Rejected(after)
                THEN {after}
                ELSE { [after EXCEPT !.state.bank = b] :
                         b \in MsgOutcomes(after.state.bank, tx) } : run \in runs }

ExecutionsTo(st, txs) ==
  LET runs[i \in 0..Len(txs)] ==
        IF i = 0 THEN {[state |-> st, rejected |-> {}]} ELSE Execute(runs[i-1], txs[i])
  IN  runs

ExecuteAll(st, txs) == ExecutionsTo(st, txs)[Len(txs)]

\* The blocks that get a majority: those ProcessProposal accepts.
DecidedBlocks ==
  { txs \in UNION { [1..n -> Tx] : n \in 0..MaxBlockTxs } :
      Bytes(txs) <= MaxBlockBytes /\ ProcessProposal(txs) }

-----------------------------------------------------------------------------
(***************************************************************************)
(* The first block has been committed: before that CheckTx has no accounts *)
(* to check against.  Nonces count from here.                              *)
(***************************************************************************)
Init ==
  /\ \E b \in BankStates :
       committed = [height |-> 1, store |-> FirstStore, bank |-> b,
                    seq |-> [a \in Accounts |-> 0]]
  /\ delivered = {}
  /\ check = committed
  /\ calls = {}
  /\ comet = <<>>
  /\ pool = {}
  /\ dropped = {}
  /\ orphaned = {}
  /\ expelled = {}
  /\ restarts = 0

(***************************************************************************)
(* CheckTx of a transaction the pipeline accepts.  The check state is      *)
(* charged first; a rejected transaction changes nothing.  The call may    *)
(* find the check state of before a block that is executed and not         *)
(* committed: the transaction may be in that block already.                *)
(***************************************************************************)
CheckTxCharges(tx) ==
  /\ AnteAccepts(check, tx)
  /\ check' = AnteWrites(check, tx)
  /\ orphaned' = IF \E block \in delivered : tx \in block.txs
                   THEN orphaned \cup {tx}
                   ELSE orphaned
  /\ UNCHANGED <<committed, delivered, comet, expelled, restarts>>

CheckTxAdmitted(tx) ==
  /\ CheckTxCharges(tx)
  /\ HasRoom
  /\ Cardinality(calls) < MaxCalls
  /\ pool' = Insert(pool, check', tx)
  /\ calls' = calls \cup {tx}
  /\ UNCHANGED dropped

(***************************************************************************)
(* The application's mempool is full, or the transaction's own gas, which  *)
(* pays for reading its priority (app.go:519), runs out there.  The charge *)
(* stays.                                                                  *)
(***************************************************************************)
CheckTxRefused(tx) ==
  /\ CheckTxCharges(tx)
  /\ dropped' = dropped \cup {tx}
  /\ UNCHANGED <<pool, calls>>

(***************************************************************************)
(* CometBFT enqueues what CheckTx has accepted.  It had room when the call *)
(* began; calls that overlap may have filled it.                           *)
(***************************************************************************)
Enqueue(tx) ==
  /\ calls' = calls \ {tx}
  /\ IF Len(comet) < CometSize
       THEN comet' = Append(comet, tx) /\ UNCHANGED dropped
       ELSE dropped' = dropped \cup {tx} /\ UNCHANGED comet
  /\ UNCHANGED <<committed, delivered, check, pool, orphaned, expelled, restarts>>

\* This node is the proposer.  Transactions that fail leave its own mempool.
PrepareProposal ==
  /\ delivered = {}
  /\ committed.height < MaxHeight
  /\ \E order \in SelectOrders :
       LET invalid == Build(order).invalid
       IN  /\ pool' = Without(pool, invalid)
           /\ expelled' = expelled \cup (invalid \cap Queued)
  /\ UNCHANGED <<committed, delivered, check, calls, comet, dropped, orphaned, restarts>>

\* A decided block is executed: BeginBlock, its transactions, EndBlock.
FinalizeBlock ==
  /\ delivered = {}
  /\ committed.height < MaxHeight
  /\ \E txs \in DecidedBlocks, begin \in BeginOutcomes(committed.bank) :
     \E run \in ExecuteAll([NextBlock EXCEPT !.bank = begin], txs) :
       /\ \E end \in EndOutcomes(run.state.bank) :
            delivered' = {[state  |-> [run.state EXCEPT !.bank = end],
                           opened |-> begin,
                           txs    |-> Range(txs),
                           failed |-> run.rejected]}
       /\ pool' = Without(pool, Range(txs) \ Rejected(run))
  /\ UNCHANGED <<committed, check, calls, comet, dropped, orphaned, expelled, restarts>>

\* The transactions of a mempool without those that leave it, in their order.
LeftTo(txs, gone) ==
  LET left[i \in 0..Len(txs)] ==
        IF i = 0 THEN <<>>
                 ELSE IF txs[i] \in gone THEN left[i-1] ELSE Append(left[i-1], txs[i])
  IN  left

TakeOut(txs, gone) == LeftTo(txs, gone)[Len(txs)]

\* recheck = false in config.toml.
Recheck_Off(st, txs) == [state |-> st, rejected |-> {}]

\* What rechecking leaves of the check state, and what it throws out.
Recheck(st, txs) == RunTxs(st, txs)

(***************************************************************************)
(* Commit, under CometBFT's mempool lock, which waits for the calls under  *)
(* way: a fresh check state, the block's transactions leave CometBFT's     *)
(* mempool, the others are checked again in order of arrival.              *)
(***************************************************************************)
Commit(block) ==
  LET rest == TakeOut(comet, block.txs)
      run  == Recheck(block.state, rest)
  IN  /\ calls = {}
      /\ committed' = block.state
      /\ delivered' = {}
      /\ check' = run.state
      /\ comet' = TakeOut(rest, Rejected(run))
      /\ pool' = Without(pool, Rejected(run))
      /\ orphaned' = Waiting' \cap (orphaned \cup { r.tx : r \in block.failed } \cup dropped)
      /\ expelled' = expelled \cap Range(comet')
      /\ dropped' = {}
      /\ UNCHANGED <<calls, restarts>>

(***************************************************************************)
(* The node is restarted.  Both mempools were in memory.  A decided block  *)
(* is executed and committed again before CheckTx is served; otherwise the *)
(* check state has no height until the next commit.                        *)
(***************************************************************************)
Restart ==
  /\ restarts < MaxRestarts
  /\ restarts' = restarts + 1
  /\ \/ /\ delivered = {}
        /\ check' = [committed EXCEPT !.height = 0]
        /\ UNCHANGED committed
     \/ \E block \in delivered :
          /\ check' = block.state
          /\ committed' = block.state
  /\ delivered' = {}
  /\ calls' = {}
  /\ comet' = <<>>
  /\ pool' = {}
  /\ dropped' = {}
  /\ orphaned' = {}
  /\ expelled' = {}

Next ==
  \/ \E tx \in Tx : CheckTxAdmitted(tx) \/ CheckTxRefused(tx)
  \/ \E tx \in calls : Enqueue(tx)
  \/ PrepareProposal
  \/ FinalizeBlock
  \/ \E block \in delivered : Commit(block)
  \/ Restart

Spec == Init /\ [][Next]_vars

-----------------------------------------------------------------------------
\* The type invariant.
TypeOK ==
  /\ IsState(committed)
  /\ IsState(check)
  /\ \A block \in delivered : IsState(block.state) /\ block.txs \subseteq Tx
  /\ delivered # {} => Cardinality(delivered) = 1
  /\ calls \subseteq Tx
  /\ comet \in Seq(Tx) /\ Len(comet) <= CometSize
  /\ \A e \in pool : e.tx \in Tx /\ e.priority \in 0..MaxInt64
  /\ dropped \subseteq Tx
  /\ orphaned \subseteq Tx
  /\ expelled \subseteq Tx
  /\ restarts \in 0..MaxRestarts

(***************************************************************************)
(* The check state never drifts from the committed one: it is at the same  *)
(* height, and an account's sequence, meter and count differ from what is  *)
(* committed by exactly the transactions that wait in CometBFT's mempool   *)
(* or on their way there, and those dropped since the last commit, whose   *)
(* charges are forgotten at the next: what CheckTx lets an account spend   *)
(* is what wallets are shown less what they have sent (ante.go:182,        *)
(* app.go:637-660).  The count includes the block just committed: CheckTx  *)
(* measures the limit of ante.go:235-239 over that block and the mempool   *)
(* together.                                                               *)
(***************************************************************************)
Outstanding(a) == { tx \in Sent : tx.payer = a }

CheckStateExact ==
  check.height # 0 =>
    /\ check.height = committed.height
    /\ \A a \in Accounts :
         LET pending == Outstanding(a)
             now     == LoadAccountMana(check.store, a)
             before  == LoadAccountMana(committed.store, a)
         IN  /\ check.seq[a] = committed.seq[a] + Cardinality(pending)
             /\ Meter(check, a) + SumFunction([tx \in pending |-> Cost(tx)]) = ShownMana(a)
             /\ TxCount(now, check.height)
                  = TxCount(before, check.height) + Cardinality(pending)

(***************************************************************************)
(* An honest proposer's block is accepted: whatever order the mempool      *)
(* lists its transactions in, what PrepareProposal selects from it passes  *)
(* ProcessProposal on every validator (app.go:501-503).                    *)
(***************************************************************************)
ProposalAccepted ==
  \A order \in SelectOrders : ProcessProposal(Build(order).txs)

(***************************************************************************)
(* Minting between the judgement of a block and its execution lowers what  *)
(* the account may hold or gains per block.  It does neither to a holder   *)
(* whose rate is below the floors of keeper.go:181-186 and 196-200.        *)
(***************************************************************************)
Diluted(a, supply) ==
  LET before == ExactRate(committed.bank.balance[a], committed.bank.supply)
      now    == ExactRate(committed.bank.balance[a], supply)
  IN  MaxMana(now) < MaxMana(before) \/ PerBlock(now) < PerBlock(before)

(***************************************************************************)
(* What validators have accepted is executed.  The pipeline rejects a      *)
(* transaction of a decided block only if minting has diluted the payer,   *)
(* whose meter is then below the price; if coins that have reached the     *)
(* payer in this block, or a burn, took its rate out of uint64 (rate.go:21); *)
(* or if it follows a transaction of the same payer rejected for one of    *)
(* these.  Neither the limit per block nor a timeout, and nothing that     *)
(* other accounts did, is ever a reason.                                   *)
(***************************************************************************)
DecidedIsExecuted ==
  \A block \in delivered : \A r \in block.failed :
    LET payer == r.tx.payer
        bank  == r.state.bank
    IN  \/ /\ Diluted(payer, block.opened.supply)
           /\ Meter(r.state, payer) < Cost(r.tx)
        \/ /\ ~ RateFits(bank.balance[payer], bank.supply)
           /\ \/ bank.balance[payer] > committed.bank.balance[payer]
              \/ bank.supply < committed.bank.supply
        \/ \E q \in block.failed : q.tx.payer = payer /\ q.tx.nonce < r.tx.nonce

(***************************************************************************)
(* What CheckTx lets in can be proposed: in whatever order the mempool     *)
(* lists its transactions, the proposer throws out none that CometBFT      *)
(* holds (ante.go:71, ante.go:182, ante.go:235, app.go:501-502).  A sender *)
(* is an exception whose rate has left uint64 or whose meter is above its  *)
(* cap, which the next block cuts; one with a transaction whose timeout is *)
(* the last block, which CheckTx still accepts; and one that lacks an      *)
(* earlier transaction: dropped since the last commit, or thrown out by an *)
(* earlier proposal.  After a restart the check state has no height, and   *)
(* lets in anything until the next commit.                                 *)
(***************************************************************************)
Steady(a) ==
  LET balance == committed.bank.balance[a]
      supply  == committed.bank.supply
  IN  RateFits(balance, supply) /\ Meter(committed, a) <= MaxMana(ExactRate(balance, supply))

Excused(a) ==
  \/ ~ Steady(a)
  \/ \E tx \in Queued : tx.payer = a /\ Expired(NextBlock, tx)
  \/ \E tx \in dropped \cup expelled : tx.payer = a

AdmittedIsProposable ==
  delivered = {} /\ check.height # 0 =>
    \A order \in SelectOrders : \A tx \in Build(order).invalid \cap Queued : Excused(tx.payer)

(***************************************************************************)
(* The two mempools agree: the application's mempool, which is what        *)
(* proposals are made of, holds nothing that CometBFT's has given up,      *)
(* except for transactions a block failed to execute, those that arrived   *)
(* between the execution and the commit of their block, and those whose    *)
(* call was overtaken when CometBFT's mempool filled up (app.go:494-503).  *)
(***************************************************************************)
NothingLeftBehind == Waiting \subseteq Queued \cup dropped \cup orphaned

(***************************************************************************)
(* Nor the other way round: what CometBFT holds, gossips and rechecks, and *)
(* its sender stays charged for, this node can propose itself.  Entries of *)
(* the application's mempool are replaced and removed by sender and nonce, *)
(* CometBFT's by transaction, on other occasions.  Exceptions are what a   *)
(* proposal has thrown out, and, until the commit, a transaction whose     *)
(* nonce the block just executed has used (app.go:494-503).                *)
(***************************************************************************)
NothingForgotten ==
  \A tx \in Queued :
    \/ tx \in Waiting \cup expelled
    \/ \E block \in delivered :
         \E other \in block.txs \ { r.tx : r \in block.failed } : Key(other) = Key(tx)

(***************************************************************************)
(* app.go:490-492: "transactions from higher-Mana (higher-stake) accounts  *)
(* are proposed first", ranked "by the first signer's current Mana         *)
(* balance" (app.go:506).  Of two senders in a proposal, the one that      *)
(* comes first has no less mana, at the last block or at the next.         *)
(***************************************************************************)
First(txs, i) == \A j \in 1..i-1 : txs[j].payer # txs[i].payer

HigherManaFirst ==
  \A order \in SelectOrders :
    LET txs == Build(order).txs
    IN  \A i, j \in DOMAIN txs :
          i < j /\ First(txs, i) /\ First(txs, j)
            => \E st \in {committed, NextBlock} :
                 Meter(st, txs[i].payer) >= Meter(st, txs[j].payer)
=============================================================================
