--------------------------- MODULE JeeNodeProofs ----------------------------
(***************************************************************************)
(* Theorems about JeeNode, for every set of accounts, parameters, bank,    *)
(* bounds and sizes of the mempools, in every order of CheckTx calls,      *)
(* proposals, blocks, commits and restarts.                                *)
(*                                                                         *)
(* Each property has an invariant of its own next to NodeInv, which has    *)
(* the shapes: PoolInv, LeftInv, CheckInv, SpentInv, StampInv.             *)
(* ProposalAccepted and AdmittedIsProposable are not inductive and need    *)
(* not be: they hold in every state of the right shape, by an invariant of *)
(* the turns of PrepareProposal (InStep, Fair).                            *)
(***************************************************************************)
EXTENDS JeeRunProofs

\* An entry has its sender and nonce to itself, and there are finitely many.
PoolInv ==
  /\ IsFiniteSet(pool)
  /\ \A e, f \in pool : Key(e.tx) = Key(f.tx) => e = f

\* Taking entries out leaves the keys different.
LEMMA RemovalKeepsPool ==
  ASSUME PoolInv, pool' \subseteq pool
  PROVE  PoolInv'
<1>1. IsFiniteSet(pool')
  BY FS_Subset DEF PoolInv
<1> QED
  BY <1>1 DEF PoolInv, Key

\* The entry added has its key to itself.
LEMMA InsertionKeepsPool ==
  ASSUME PoolInv, NEW st, NEW tx, pool' = Insert(pool, st, tx)
  PROVE  PoolInv'
<1> DEFINE entry == [tx |-> tx, priority |-> TxPriority(st, tx)]
           rest  == Without(pool, {tx})
<1>1. pool' = rest \cup {entry} /\ entry.tx = tx
  BY DEF Insert
<1>2. rest \subseteq pool /\ \A g \in rest : Key(g.tx) # Key(tx)
  BY DEF Without
<1> HIDE DEF rest, entry
<1>3. IsFiniteSet(pool')
  BY <1>1, <1>2, FS_Subset, FS_AddElement DEF PoolInv
<1>4. ASSUME NEW e \in pool', NEW f \in pool', Key(e.tx) = Key(f.tx)
      PROVE  e = f
  BY <1>1, <1>2, <1>4 DEF PoolInv
<1> QED
  BY <1>3, <1>4 DEF PoolInv, Key

\* The mempool of a node that has just started is empty.
LEMMA PoolInit ==
  ASSUME Init
  PROVE  PoolInv
  BY FS_EmptySet DEF Init, PoolInv

\* CheckTx is the only call that adds to the mempool.
LEMMA PoolStep ==
  ASSUME PoolInv, [Next]_vars
  PROVE  PoolInv'
<1>1. ASSUME NEW tx \in Tx, CheckTxAdmitted(tx)
      PROVE  PoolInv'
  BY <1>1, InsertionKeepsPool DEF CheckTxAdmitted
<1>2. PrepareProposal => pool' \subseteq pool
  BY DEF PrepareProposal, Without
<1>3. FinalizeBlock => pool' \subseteq pool
  BY DEF FinalizeBlock, Without
<1>4. ASSUME NEW block \in delivered, Commit(block)
      PROVE  pool' \subseteq pool
  BY <1>4 DEF Commit, Without
<1>5. Restart => pool' \subseteq pool
  BY DEF Restart
<1>6. ASSUME NEW tx, CheckTxRefused(tx) \/ Enqueue(tx)
      PROVE  pool' \subseteq pool
  BY <1>6 DEF CheckTxRefused, Enqueue
<1>7. UNCHANGED vars => pool' \subseteq pool
  BY DEF vars
<1> QED
  BY <1>1, <1>2, <1>3, <1>4, <1>5, <1>6, <1>7, RemovalKeepsPool DEF Next

-----------------------------------------------------------------------------
\* A block executed and not yet committed.
Blocks == [state : NodeStates, opened : BankStates, txs : SUBSET Tx,
           failed : SUBSET [tx : Tx, state : NodeStates]]

\* TypeOK with the shape of the records, and the height a block is executed at.
NodeInv ==
  /\ committed \in NodeStates /\ committed.height \in 1..MaxHeight
  /\ check \in NodeStates /\ check.height \in 0..MaxHeight
  /\ delivered = {} \/ \E block \in Blocks : delivered = {block}
  /\ \A block \in delivered :
       /\ block.state.height = committed.height + 1
       /\ block.state.height \in 1..MaxHeight
  /\ comet \in Seq(Tx) /\ Len(comet) <= CometSize
  /\ pool \subseteq [tx : Tx, priority : 0..MaxInt64]
  /\ calls \subseteq Tx
  /\ dropped \subseteq Tx
  /\ orphaned \subseteq Tx
  /\ expelled \subseteq Tx
  /\ restarts \in 0..MaxRestarts

\* The shapes imply the types.
LEMMA NodeInvTypes ==
  ASSUME NodeInv
  PROVE  TypeOK
<1>1. \A st \in NodeStates : st.height \in 0..MaxHeight => IsState(st)
  BY StateParts DEF IsState
<1>2. \A h \in 1..MaxHeight : h \in 0..MaxHeight
  BY SMT
<1>3. IsState(committed) /\ IsState(check)
  BY <1>1, <1>2 DEF NodeInv
<1>4. delivered \subseteq Blocks
  BY DEF NodeInv
<1>5. \A block \in delivered : IsState(block.state) /\ block.txs \subseteq Tx
  BY <1>1, <1>2, <1>4 DEF NodeInv, Blocks
<1>6. delivered # {} => Cardinality(delivered) = 1
  BY FS_Singleton DEF NodeInv
<1> QED
  BY <1>3, <1>5, <1>6 DEF NodeInv, TypeOK

\* The first commit has the shape.
LEMMA NodeInvInit ==
  ASSUME Init
  PROVE  NodeInv
<1> DEFINE seq == [a \in Accounts |-> 0]
<1>1. PICK b \in BankStates : committed = [height |-> 1, store |-> FirstStore, bank |-> b, seq |-> seq]
  BY DEF Init
<1>2. seq \in [Accounts -> 0..MaxNonce]
  BY NodeAssumption, SMT DEF NodeAssumption
<1>3. FirstStore \in Stores
  BY NodeAssumption, StoreType DEF NodeAssumption
<1>4. committed \in NodeStates /\ committed.height = 1
  BY <1>1, <1>2, <1>3 DEF NodeStates
<1>5. 1 \in 1..MaxHeight /\ 1 \in 0..MaxHeight /\ 0 \in 0..MaxRestarts /\ 0 <= CometSize
  BY NodeAssumption, SMT DEF NodeAssumption
<1>6. comet \in Seq(Tx) /\ Len(comet) = 0
  BY EmptySeq DEF Init
<1> QED
  BY <1>4, <1>5, <1>6 DEF Init, NodeInv

\* The state proposals are built on: the committed one, a block higher.
LEMMA NextBlockType ==
  ASSUME NodeInv
  PROVE  /\ NextBlock \in NodeStates
         /\ NextBlock.height = committed.height + 1
         /\ NextBlock.store = committed.store
         /\ NextBlock.bank = committed.bank
         /\ NextBlock.seq = committed.seq
         /\ NextBlock.height \in Nat \ {0}
<1>1. committed \in NodeStates /\ committed.height \in Nat
  BY StateParts DEF NodeInv
<1> DEFINE h == committed.height + 1
<1>2. h \in Nat \ {0}
  BY <1>1, SMT
<1>3. NextBlock = [committed EXCEPT !.height = h]
  BY <1>1 DEF NextBlock, NodeStates
<1> HIDE DEF h
<1>4. /\ NextBlock \in NodeStates /\ NextBlock.height = h
      /\ NextBlock.store = committed.store
      /\ NextBlock.bank = committed.bank
      /\ NextBlock.seq = committed.seq
  BY <1>1, <1>2, <1>3 DEF NodeStates
<1> QED
  BY <1>2, <1>4 DEF h

\* An order of the mempool lists each of its entries once.
LEMMA SelectedOrder ==
  ASSUME NodeInv, NEW order \in SelectOrders
  PROVE  order \in [1..Cardinality(pool) -> pool]
  BY DEF SelectOrders, SetToSeqs

\* The blocks decided are lists of transactions that passed ProcessProposal.
LEMMA DecidedParts ==
  ASSUME NEW txs \in DecidedBlocks
  PROVE  txs \in Seq(Tx) /\ ProcessProposal(txs) /\ Range(txs) \subseteq Tx
<1>1. PICK n \in 0..MaxBlockTxs : txs \in [1..n -> Tx]
  BY DEF DecidedBlocks
<1>2. n \in Nat
  BY NodeAssumption, SMT DEF NodeAssumption
<1>3. txs \in Seq(Tx)
  BY <1>1, <1>2, SeqDef
<1> QED
  BY <1>1, <1>3 DEF DecidedBlocks, Range

\* What FinalizeBlock does, in one piece.
LEMMA FinalizeParts ==
  ASSUME NodeInv, FinalizeBlock
  PROVE  \E txs \in DecidedBlocks, begin \in BeginOutcomes(committed.bank), block \in Blocks :
         \E run \in ExecuteAll([NextBlock EXCEPT !.bank = begin], txs) :
           /\ txs \in Seq(Tx)
           /\ [NextBlock EXCEPT !.bank = begin] \in NodeStates
           /\ run \in Runs
           /\ delivered' = {block}
           /\ block.state.height = committed.height + 1
           /\ block.state.height = run.state.height
           /\ block.state.store = run.state.store
           /\ block.state.seq = run.state.seq
           /\ block.opened = begin
           /\ block.txs = Range(txs)
           /\ block.failed = run.rejected
           /\ pool' = Without(pool, Range(txs) \ Rejected(run))
<1>1. PICK txs \in DecidedBlocks, begin \in BeginOutcomes(committed.bank) :
           \E run \in ExecuteAll([NextBlock EXCEPT !.bank = begin], txs) :
             /\ \E end \in EndOutcomes(run.state.bank) :
                  delivered' = {[state  |-> [run.state EXCEPT !.bank = end],
                                 opened |-> begin,
                                 txs    |-> Range(txs),
                                 failed |-> run.rejected]}
             /\ pool' = Without(pool, Range(txs) \ Rejected(run))
  BY DEF FinalizeBlock
<1> DEFINE st == [NextBlock EXCEPT !.bank = begin]
<1>2. PICK run \in ExecuteAll(st, txs) :
             /\ \E end \in EndOutcomes(run.state.bank) :
                  delivered' = {[state  |-> [run.state EXCEPT !.bank = end],
                                 opened |-> begin,
                                 txs    |-> Range(txs),
                                 failed |-> run.rejected]}
             /\ pool' = Without(pool, Range(txs) \ Rejected(run))
  BY <1>1
<1>3. PICK end \in EndOutcomes(run.state.bank) :
                  delivered' = {[state  |-> [run.state EXCEPT !.bank = end],
                                 opened |-> begin,
                                 txs    |-> Range(txs),
                                 failed |-> run.rejected]}
  BY <1>2
<1>4. txs \in Seq(Tx) /\ Range(txs) \subseteq Tx
  BY DecidedParts
<1>5. begin \in BankStates /\ end \in BankStates
  BY DEF BeginOutcomes, EndOutcomes
<1>6. NextBlock \in NodeStates /\ NextBlock.height = committed.height + 1
  BY NextBlockType
<1>7. st \in NodeStates /\ st.height = NextBlock.height
  BY <1>5, <1>6 DEF NodeStates
<1>a. run \in ExecuteAll([NextBlock EXCEPT !.bank = begin], txs)
      /\ [NextBlock EXCEPT !.bank = begin] \in NodeStates
  BY <1>7
<1> HIDE DEF st
<1>8. run \in Runs /\ run.state.height = st.height
  BY <1>2, <1>4, <1>7, ExecuteAllType, ExecuteHeight
<1> DEFINE done  == [run.state EXCEPT !.bank = end]
           block == [state |-> done, opened |-> begin, txs |-> Range(txs), failed |-> run.rejected]
<1>9. run.state \in NodeStates /\ run.rejected \in SUBSET [tx : Tx, state : NodeStates]
  BY <1>8 DEF Runs
<1>10. /\ done \in NodeStates /\ done.height = run.state.height
       /\ done.store = run.state.store /\ done.seq = run.state.seq
  BY <1>5, <1>9 DEF NodeStates
<1>11. delivered' = {block}
  BY <1>3
<1> HIDE DEF done
<1>12. /\ block \in Blocks /\ block.state = done /\ block.opened = begin
       /\ block.txs = Range(txs) /\ block.failed = run.rejected
  BY <1>4, <1>5, <1>9, <1>10 DEF Blocks
<1> HIDE DEF block
<1>13. block.state.height = committed.height + 1
  BY <1>6, <1>7, <1>8, <1>10, <1>12
<1> QED
  BY <1>2, <1>4, <1>8, <1>10, <1>11, <1>12, <1>13, <1>a

\* Charging a transaction leaves a check state behind.
LEMMA NodeInvCheckTx ==
  ASSUME NodeInv, NEW tx \in Tx, CheckTxCharges(tx)
  PROVE  /\ check' \in NodeStates /\ check'.height \in 0..MaxHeight
         /\ orphaned' \subseteq Tx
  BY WritesType DEF NodeInv, CheckTxCharges

\* What an account has left at the least and at the most.
LEMMA PriorityType ==
  ASSUME NEW st \in NodeStates, NEW tx \in Tx
  PROVE  TxPriority(st, tx) \in 0..MaxInt64
<1>1. MaxInt64 \in Nat
  BY MathAssumption, DivBounds DEF MaxInt64, MathAssumption
<1>2. CASE CanGetAccountMana(st.store, st.bank, st.height, tx.payer)
  <2>1. Meter(st, tx.payer) \in Nat
    <3>1. Read(st, tx.payer) \in AccountMana
      BY <1>2, TxParts, ReadParts
    <3> QED
      BY <3>1, MathAssumption, SMT DEF Meter, Read, AccountMana, Uint64, MathAssumption
  <2> QED
    BY <1>1, <1>2, <2>1, SMT DEF TxPriority
<1>3. CASE ~ CanGetAccountMana(st.store, st.bank, st.height, tx.payer)
  BY <1>1, <1>3, SMT DEF TxPriority
<1> QED
  BY <1>2, <1>3

\* An entry is a transaction with an int64.
LEMMA InsertType ==
  ASSUME NodeInv, NEW st \in NodeStates, NEW tx \in Tx
  PROVE  Insert(pool, st, tx) \subseteq [tx : Tx, priority : 0..MaxInt64]
<1>1. [tx |-> tx, priority |-> TxPriority(st, tx)] \in [tx : Tx, priority : 0..MaxInt64]
  BY PriorityType
<1>2. Without(pool, {tx}) \subseteq pool
  BY DEF Without
<1> QED
  BY <1>1, <1>2 DEF Insert, NodeInv

\* Every step keeps the shape.
LEMMA NodeInvStep ==
  ASSUME NodeInv, [Next]_vars
  PROVE  NodeInv'
<1> DEFINE Entries == [tx : Tx, priority : 0..MaxInt64]
<1>a. /\ committed \in NodeStates /\ check \in NodeStates
      /\ committed.height \in 1..MaxHeight /\ check.height \in 0..MaxHeight
      /\ comet \in Seq(Tx) /\ Len(comet) <= CometSize
      /\ pool \subseteq Entries /\ dropped \subseteq Tx /\ orphaned \subseteq Tx
      /\ calls \subseteq Tx /\ expelled \subseteq Tx
      /\ restarts \in 0..MaxRestarts
  BY DEF NodeInv
<1>b. \A block \in delivered : block \in Blocks
  BY DEF NodeInv
<1>c. \A txs : Without(pool, txs) \subseteq Entries
  BY <1>a DEF Without
<1>d. CometSize \in Nat /\ MaxRestarts \in Nat /\ MaxHeight \in Nat \ {0}
  BY NodeAssumption DEF NodeAssumption
<1>1. ASSUME NEW tx \in Tx, CheckTxAdmitted(tx)
      PROVE  NodeInv'
  <2>1. CheckTxCharges(tx)
    BY <1>1 DEF CheckTxAdmitted
  <2>2. check' \in NodeStates /\ check'.height \in 0..MaxHeight /\ orphaned' \subseteq Tx
    BY <2>1, NodeInvCheckTx
  <2>3. pool' \subseteq Entries /\ calls' \subseteq Tx
    BY <1>1, <1>a, <2>2, InsertType DEF CheckTxAdmitted
  <2>4. UNCHANGED <<committed, delivered, comet, expelled, restarts, dropped>>
    BY <1>1, <2>1 DEF CheckTxAdmitted, CheckTxCharges
  <2> QED
    BY <2>2, <2>3, <2>4 DEF NodeInv
<1>2. ASSUME NEW tx \in Tx, CheckTxRefused(tx)
      PROVE  NodeInv'
  <2>1. CheckTxCharges(tx)
    BY <1>2 DEF CheckTxRefused
  <2>2. check' \in NodeStates /\ check'.height \in 0..MaxHeight /\ orphaned' \subseteq Tx
    BY <2>1, NodeInvCheckTx
  <2>3. dropped' \subseteq Tx
    BY <1>a, <1>2 DEF CheckTxRefused
  <2>4. UNCHANGED <<committed, delivered, comet, expelled, restarts, pool, calls>>
    BY <1>2, <2>1 DEF CheckTxRefused, CheckTxCharges
  <2> QED
    BY <2>2, <2>3, <2>4 DEF NodeInv
<1>3. ASSUME NEW tx \in calls, Enqueue(tx)
      PROVE  NodeInv'
  <2>1. tx \in Tx /\ calls' \subseteq Tx /\ dropped' \subseteq Tx
    BY <1>a, <1>3 DEF Enqueue
  <2>2. UNCHANGED <<committed, delivered, check, pool, orphaned, expelled, restarts>>
    BY <1>3 DEF Enqueue
  <2>3. comet' \in Seq(Tx) /\ Len(comet') <= CometSize
    <3>1. CASE Len(comet) < CometSize
      <4>1. comet' \in Seq(Tx) /\ Len(comet') = Len(comet) + 1 /\ Len(comet) \in Nat
        BY <1>a, <1>3, <2>1, <3>1, AppendProperties, LenProperties DEF Enqueue
      <4> QED
        BY <1>d, <3>1, <4>1, SMT
    <3>2. CASE ~ (Len(comet) < CometSize)
      BY <1>a, <1>3, <3>2 DEF Enqueue
    <3> QED
      BY <3>1, <3>2
  <2> QED
    BY <2>1, <2>2, <2>3 DEF NodeInv
<1>4. ASSUME PrepareProposal
      PROVE  NodeInv'
  <2>1. PICK order \in SelectOrders : /\ pool' = Without(pool, Build(order).invalid)
                                      /\ expelled' = expelled \cup (Build(order).invalid \cap Queued)
    BY <1>4 DEF PrepareProposal
  <2>2. Queued \subseteq Tx
    BY <1>a, FiniteRange, LenProperties DEF Queued, Range
  <2>3. pool' \subseteq Entries /\ expelled' \subseteq Tx
    BY <1>a, <1>c, <2>1, <2>2
  <2>4. UNCHANGED <<committed, delivered, check, calls, comet, dropped, orphaned, restarts>>
    BY <1>4 DEF PrepareProposal
  <2> QED
    BY <2>3, <2>4 DEF NodeInv
<1>5. ASSUME FinalizeBlock
      PROVE  NodeInv'
  <2>1. PICK block \in Blocks : /\ delivered' = {block}
                                /\ block.state.height = committed.height + 1
    BY <1>5, FinalizeParts
  <2>2. \E txs : pool' = Without(pool, txs)
    BY <1>5 DEF FinalizeBlock
  <2>3. committed.height + 1 \in 1..MaxHeight
    BY <1>5, <1>a, <1>d, SMT DEF FinalizeBlock
  <2>4. pool' \subseteq Entries
    BY <1>c, <2>2
  <2>5. UNCHANGED <<committed, check, calls, comet, dropped, orphaned, expelled, restarts>>
    BY <1>5 DEF FinalizeBlock
  <2> QED
    BY <2>1, <2>3, <2>4, <2>5 DEF NodeInv
<1>6. ASSUME NEW block \in delivered, Commit(block)
      PROVE  NodeInv'
  <2> DEFINE rest == TakeOut(comet, block.txs)
             run  == Recheck(block.state, rest)
             kept == TakeOut(rest, Rejected(run))
  <2>1. /\ committed' = block.state /\ delivered' = {} /\ check' = run.state
        /\ comet' = kept /\ pool' = Without(pool, Rejected(run))
        /\ orphaned' \subseteq Waiting' /\ dropped' = {} /\ restarts' = restarts
        /\ calls' = calls /\ expelled' \subseteq expelled
    BY <1>6 DEF Commit
  <2>2. block.state \in NodeStates /\ block.state.height \in 1..MaxHeight
    BY <1>b DEF Blocks, NodeInv
  <2>3. rest \in Seq(Tx) /\ Len(rest) <= Len(comet)
    BY <1>a, TakeOutResult
  <2> HIDE DEF rest
  <2>4. run \in Runs /\ run.state.height = block.state.height
    <3>1. Len(rest) \in 0..Len(rest)
      BY <2>3, LenProperties, SMT
    <3> QED
      BY <2>2, <2>3, <3>1, RunTxsType, RunTxsHeight DEF Recheck, RunTxs
  <2> HIDE DEF run
  <2>5. kept \in Seq(Tx) /\ Len(kept) <= Len(rest)
    BY <2>3, TakeOutResult
  <2> HIDE DEF kept
  <2>6. Len(kept) <= CometSize
    <3>1. Len(kept) \in Nat /\ Len(rest) \in Nat /\ Len(comet) \in Nat
      BY <1>a, <2>3, <2>5, LenProperties
    <3> QED
      BY <1>a, <1>d, <2>3, <2>5, <3>1, SMT
  <2>7. pool' \subseteq Entries /\ Waiting' \subseteq Tx
    BY <1>c, <2>1 DEF Waiting
  <2>8. \A h \in 1..MaxHeight : h \in 0..MaxHeight
    BY SMT
  <2>9. run.state \in NodeStates
    BY <2>4 DEF Runs
  <2> QED
    BY <1>a, <2>1, <2>2, <2>4, <2>5, <2>6, <2>7, <2>8, <2>9 DEF NodeInv
<1>7. ASSUME Restart
      PROVE  NodeInv'
  <2>1. /\ delivered' = {} /\ comet' = <<>> /\ pool' = {} /\ dropped' = {} /\ orphaned' = {}
        /\ calls' = {} /\ expelled' = {}
        /\ restarts' = restarts + 1 /\ restarts < MaxRestarts
    BY <1>7 DEF Restart
  <2>2. restarts' \in 0..MaxRestarts
    BY <1>a, <1>d, <2>1, SMT
  <2>3. comet' \in Seq(Tx) /\ Len(comet') <= CometSize
    <3>1. comet' \in Seq(Tx) /\ Len(comet') = 0
      BY <2>1, EmptySeq
    <3> QED
      BY <1>d, <3>1, SMT
  <2>4. 0 \in 0..MaxHeight /\ \A h \in 1..MaxHeight : h \in 0..MaxHeight
    BY <1>d, SMT
  <2>5. /\ committed' \in NodeStates /\ committed'.height \in 1..MaxHeight
        /\ check' \in NodeStates /\ check'.height \in 0..MaxHeight
    <3>1. CASE check' = [committed EXCEPT !.height = 0] /\ UNCHANGED committed
      BY <1>a, <2>4, <3>1 DEF NodeStates
    <3>2. ASSUME NEW block \in delivered, check' = block.state, committed' = block.state
          PROVE  /\ committed' \in NodeStates /\ committed'.height \in 1..MaxHeight
                 /\ check' \in NodeStates /\ check'.height \in 0..MaxHeight
      BY <1>b, <2>4, <3>2 DEF Blocks, NodeInv
    <3> QED
      BY <1>7, <3>1, <3>2 DEF Restart
  <2> QED
    BY <2>1, <2>2, <2>3, <2>5 DEF NodeInv
<1>8. ASSUME UNCHANGED vars
      PROVE  NodeInv'
  BY <1>8 DEF NodeInv, vars
<1> QED
  BY <1>1, <1>2, <1>3, <1>4, <1>5, <1>6, <1>7, <1>8 DEF Next

(***************************************************************************)
(* Every state the node works on has its type, in every order of admission,*)
(* proposals, blocks, commits and restarts: no store gets a record that is *)
(* not one, no sequence leaves its range, neither mempool holds anything   *)
(* but transactions, and CometBFT's stays within its size.                 *)
(***************************************************************************)
THEOREM TypeCorrect == Spec => []TypeOK
<1> QED
  BY NodeInvInit, NodeInvStep, NodeInvTypes, PTL DEF Spec

-----------------------------------------------------------------------------
\* What has been executed and is still waiting has failed, or came late.
LeftInv ==
  /\ NothingLeftBehind
  /\ \A block \in delivered :
       Waiting \cap block.txs \subseteq orphaned \cup { r.tx : r \in block.failed }

\* What is removed no longer waits.
LEMMA RemovedAreGone ==
  ASSUME NEW txs, pool' = Without(pool, txs)
  PROVE  Waiting' \subseteq Waiting \ txs
  BY DEF Without, Waiting

\* Insertion adds one transaction to those that wait, and may replace another.
LEMMA InsertedWaits ==
  ASSUME NEW st, NEW tx, pool' = Insert(pool, st, tx)
  PROVE  Waiting' \subseteq Waiting \cup {tx}
  BY DEF Insert, Without, Waiting

\* Queueing moves a transaction from the calls to one of the other two sets.
LEMMA EnqueueMoves ==
  ASSUME NodeInv, NEW tx \in calls, Enqueue(tx)
  PROVE  /\ calls' = calls \ {tx}
         /\ \/ /\ comet' = Append(comet, tx)
               /\ Range(comet') = Range(comet) \cup {tx}
               /\ dropped' = dropped
            \/ comet' = comet /\ dropped' = dropped \cup {tx}
         /\ Sent' = Sent
         /\ UNCHANGED <<committed, delivered, check, pool, orphaned, expelled>>
<1>1. comet \in Seq(Tx) /\ tx \in Tx
  BY DEF NodeInv
<1>2. /\ calls' = calls \ {tx}
      /\ \/ comet' = Append(comet, tx) /\ dropped' = dropped
         \/ comet' = comet /\ dropped' = dropped \cup {tx}
      /\ UNCHANGED <<committed, delivered, check, pool, orphaned, expelled>>
  BY DEF Enqueue
<1>3. comet' = Append(comet, tx) => Range(comet') = Range(comet) \cup {tx}
  BY <1>1, AppendedRange
<1>4. comet' = comet => Range(comet') = Range(comet)
  OBVIOUS
<1>5. Sent' = Sent
  BY <1>2, <1>3, <1>4 DEF Sent, Queued
<1> QED
  BY <1>2, <1>3, <1>5

\* Every step keeps the two mempools together.
LEMMA LeftInvStep ==
  ASSUME NodeInv, LeftInv, [Next]_vars
  PROVE  LeftInv'
<1>a. comet \in Seq(Tx)
  BY DEF NodeInv
<1>b. /\ Waiting \subseteq Sent \cup orphaned
      /\ \A block \in delivered :
           Waiting \cap block.txs \subseteq orphaned \cup { r.tx : r \in block.failed }
  BY DEF LeftInv, NothingLeftBehind, Sent
<1>c. ASSUME Waiting' \subseteq Sent' \cup orphaned',
             \A block \in delivered' :
               Waiting' \cap block.txs \subseteq orphaned' \cup { r.tx : r \in block.failed }
      PROVE  LeftInv'
  BY <1>c DEF LeftInv, NothingLeftBehind, Sent
<1>d. ASSUME NEW tx \in Tx, CheckTxCharges(tx), Waiting' \subseteq Waiting \cup {tx},
             Sent' = Sent \cup {tx}
      PROVE  LeftInv'
  <2>1. delivered' = delivered /\ orphaned \subseteq orphaned'
        /\ \A block \in delivered : tx \in block.txs => tx \in orphaned'
    BY <1>d DEF CheckTxCharges
  <2> QED
    BY <1>b, <1>c, <1>d, <2>1
<1>1. ASSUME NEW tx \in Tx, CheckTxAdmitted(tx)
      PROVE  LeftInv'
  <2>1. Waiting' \subseteq Waiting \cup {tx}
    BY <1>1, InsertedWaits DEF CheckTxAdmitted
  <2>2. Sent' = Sent \cup {tx}
    BY <1>1 DEF CheckTxAdmitted, CheckTxCharges, Sent, Queued
  <2> QED
    BY <1>d, <1>1, <2>1, <2>2 DEF CheckTxAdmitted
<1>2. ASSUME NEW tx \in Tx, CheckTxRefused(tx)
      PROVE  LeftInv'
  <2>1. Waiting' = Waiting /\ Sent' = Sent \cup {tx}
    BY <1>2 DEF CheckTxRefused, CheckTxCharges, Waiting, Sent, Queued
  <2> QED
    BY <1>d, <1>2, <2>1 DEF CheckTxRefused
<1>3. ASSUME NEW tx \in calls, Enqueue(tx)
      PROVE  LeftInv'
  <2>1. Waiting' = Waiting /\ Sent' = Sent /\ delivered' = delivered /\ orphaned' = orphaned
    BY <1>3, EnqueueMoves DEF Waiting
  <2> QED
    BY <1>b, <1>c, <2>1
<1>4. ASSUME PrepareProposal
      PROVE  LeftInv'
  <2>1. Waiting' \subseteq Waiting
    BY <1>4, RemovedAreGone DEF PrepareProposal
  <2>2. Sent' = Sent /\ delivered' = delivered /\ orphaned' = orphaned
    BY <1>4 DEF PrepareProposal, Sent, Queued
  <2> QED
    BY <1>b, <1>c, <2>1, <2>2
<1>5. ASSUME FinalizeBlock
      PROVE  LeftInv'
  <2>1. PICK txs \in DecidedBlocks, begin \in BeginOutcomes(committed.bank), block \in Blocks :
        \E run \in ExecuteAll([NextBlock EXCEPT !.bank = begin], txs) :
          /\ delivered' = {block}
          /\ block.txs = Range(txs)
          /\ block.failed = run.rejected
          /\ pool' = Without(pool, Range(txs) \ Rejected(run))
    BY <1>5, FinalizeParts
  <2>2. PICK run : /\ block.failed = run.rejected
                   /\ pool' = Without(pool, Range(txs) \ Rejected(run))
    BY <2>1
  <2>3. Waiting' \subseteq Waiting \ (Range(txs) \ Rejected(run))
    BY <2>2, RemovedAreGone
  <2>4. Sent' = Sent /\ orphaned' = orphaned
    BY <1>5 DEF FinalizeBlock, Sent, Queued
  <2>5. Rejected(run) = { r.tx : r \in block.failed }
    BY <2>2 DEF Rejected
  <2> QED
    BY <1>b, <1>c, <2>1, <2>3, <2>4, <2>5
<1>6. ASSUME NEW block \in delivered, Commit(block)
      PROVE  LeftInv'
  <2> DEFINE rest == TakeOut(comet, block.txs)
             run  == Recheck(block.state, rest)
             kept == TakeOut(rest, Rejected(run))
  <2>1. /\ delivered' = {} /\ calls = {} /\ calls' = calls /\ dropped' = {}
        /\ comet' = kept /\ pool' = Without(pool, Rejected(run))
        /\ orphaned' = Waiting' \cap (orphaned \cup { r.tx : r \in block.failed } \cup dropped)
    BY <1>6 DEF Commit
  <2>2. rest \in Seq(Tx) /\ Range(rest) = Range(comet) \ block.txs
    BY <1>a, TakeOutResult
  <2> HIDE DEF rest
  <2> HIDE DEF run
  <2>3. Range(kept) = Range(rest) \ Rejected(run)
    BY <2>2, TakeOutResult
  <2> HIDE DEF kept
  <2>4. Waiting' \subseteq Waiting \ Rejected(run)
    BY <2>1, RemovedAreGone
  <2>5. Sent = Range(comet) \cup dropped /\ Sent' = Range(kept)
    BY <2>1 DEF Sent, Queued
  <2> QED
    BY <1>b, <1>c, <2>1, <2>2, <2>3, <2>4, <2>5
<1>7. ASSUME Restart
      PROVE  LeftInv'
  BY <1>7 DEF Restart, LeftInv, NothingLeftBehind, Waiting
<1>8. ASSUME UNCHANGED vars
      PROVE  LeftInv'
  <2>1. Waiting' = Waiting /\ Sent' = Sent /\ delivered' = delivered /\ orphaned' = orphaned
    BY <1>8 DEF vars, Waiting, Sent, Queued
  <2> QED
    BY <1>b, <1>c, <2>1
<1> QED
  BY <1>1, <1>2, <1>3, <1>4, <1>5, <1>6, <1>7, <1>8 DEF Next

(***************************************************************************)
(* The application's mempool holds nothing that CometBFT's has given up,   *)
(* except for what a block failed to execute, what arrived between         *)
(* execution and commit, and what was overtaken (app.go:494-503).          *)
(***************************************************************************)
THEOREM NothingLeftBehindHolds == Spec => []NothingLeftBehind
<1>1. Init => LeftInv
  BY DEF Init, LeftInv, NothingLeftBehind, Waiting
<1>2. LeftInv => NothingLeftBehind
  BY DEF LeftInv
<1> QED
  BY NodeInvInit, NodeInvStep, LeftInvStep, <1>1, <1>2, PTL DEF Spec

-----------------------------------------------------------------------------
\* The nonces to follow, and the proposals being put together.
Lasts == UNION { [D -> Int] : D \in SUBSET Accounts }

\* What a proposal being put together can look like.
Builds == [state : NodeStates, txs : Seq(Tx), invalid : SUBSET Tx, last : Lasts]

\* The nonces to follow, with one set.
Follow(last, a, n) ==
  [x \in DOMAIN last \cup {a} |-> IF x = a THEN n ELSE last[x]]

\* Setting one gives nonces to follow.
LEMMA FollowType ==
  ASSUME NEW last \in Lasts, NEW a \in Accounts, NEW n \in Int
  PROVE  Follow(last, a, n) \in Lasts
<1>1. PICK D \in SUBSET Accounts : last \in [D -> Int]
  BY DEF Lasts
<1>2. Follow(last, a, n) \in [D \cup {a} -> Int]
  BY <1>1 DEF Follow
<1>3. D \cup {a} \in SUBSET Accounts
  OBVIOUS
<1> QED
  BY <1>2, <1>3 DEF Lasts

\* A transaction that is passed over.
Skips(build, tx) ==
  \/ Bytes(build.txs) >= MaxBlockBytes
  \/ tx.payer \in DOMAIN build.last /\ tx.nonce # build.last[tx.payer] + 1

\* One turn of PrepareProposal: passed over, thrown out, or charged.
LEMMA ConsiderResult ==
  ASSUME NEW b \in Builds, NEW e, e.tx \in Tx
  PROVE  LET tx == e.tx
             c  == Consider(b, e)
         IN  /\ c \in Builds
             /\ Skips(b, tx) => c = b
             /\ ~ Skips(b, tx) /\ ~ AnteAccepts(b.state, tx) =>
                  /\ c.state = b.state /\ c.txs = b.txs /\ c.last = b.last
                  /\ c.invalid = b.invalid \cup {tx}
             /\ ~ Skips(b, tx) /\ AnteAccepts(b.state, tx) =>
                  /\ c.state = AnteWrites(b.state, tx)
                  /\ c.invalid = b.invalid
                  /\ \/ /\ c.txs = Append(b.txs, tx)
                        /\ c.last = Follow(b.last, tx.payer, tx.nonce)
                     \/ /\ c.txs = b.txs
                        /\ c.last = IF tx.payer \in DOMAIN b.last
                                      THEN b.last
                                      ELSE Follow(b.last, tx.payer, tx.nonce - 1)
<1> DEFINE tx == e.tx
           c  == Consider(b, e)
           fits == Bytes(b.txs) + tx.size <= MaxBlockBytes
           put  == Follow(b.last, tx.payer, tx.nonce)
           gap  == IF tx.payer \in DOMAIN b.last
                     THEN b.last
                     ELSE Follow(b.last, tx.payer, tx.nonce - 1)
           w    == AnteWrites(b.state, tx)
<1>1. c = IF Skips(b, tx)
            THEN b
            ELSE IF ~ AnteAccepts(b.state, tx)
              THEN [b EXCEPT !.invalid = b.invalid \cup {tx}]
              ELSE IF fits
                THEN [b EXCEPT !.state = w, !.txs = Append(b.txs, tx), !.last = put]
                ELSE [b EXCEPT !.state = w, !.last = gap]
  BY DEF Consider, Skips, Follow, Builds
<1>2. tx \in Tx /\ tx.payer \in Accounts /\ tx.nonce \in Int /\ tx.nonce - 1 \in Int
  BY TxParts, SMT
<1>3. b.state \in NodeStates /\ b.txs \in Seq(Tx) /\ b.invalid \in SUBSET Tx /\ b.last \in Lasts
  BY DEF Builds
<1>4. put \in Lasts /\ gap \in Lasts
  BY <1>2, <1>3, FollowType
<1>5. Append(b.txs, tx) \in Seq(Tx)
  BY <1>2, <1>3, AppendProperties
<1>6. AnteAccepts(b.state, tx) => w \in NodeStates
  BY <1>2, <1>3, WritesType
<1>7. b.invalid \cup {tx} \in SUBSET Tx
  BY <1>2, <1>3
<1> HIDE DEF w, put, gap, fits, tx, c
<1>8. CASE Skips(b, tx)
  BY <1>1, <1>8 DEF c, tx
<1>9. CASE ~ Skips(b, tx) /\ ~ AnteAccepts(b.state, tx)
  <2>1. c = [b EXCEPT !.invalid = b.invalid \cup {tx}]
    BY <1>1, <1>9
  <2>2. /\ c \in Builds /\ c.state = b.state /\ c.txs = b.txs /\ c.last = b.last
        /\ c.invalid = b.invalid \cup {tx}
    BY <1>7, <2>1 DEF Builds
  <2> QED
    BY <1>9, <2>2 DEF c, tx
<1>10. CASE ~ Skips(b, tx) /\ AnteAccepts(b.state, tx) /\ fits
  <2>1. c = [b EXCEPT !.state = w, !.txs = Append(b.txs, tx), !.last = put]
    BY <1>1, <1>10
  <2>2. /\ c \in Builds /\ c.state = w /\ c.txs = Append(b.txs, tx) /\ c.last = put
        /\ c.invalid = b.invalid
    BY <1>4, <1>5, <1>6, <1>10, <2>1 DEF Builds
  <2> QED
    BY <1>10, <2>2 DEF c, tx, w, put
<1>11. CASE ~ Skips(b, tx) /\ AnteAccepts(b.state, tx) /\ ~ fits
  <2>1. c = [b EXCEPT !.state = w, !.last = gap]
    BY <1>1, <1>11
  <2>2. /\ c \in Builds /\ c.state = w /\ c.txs = b.txs /\ c.last = gap
        /\ c.invalid = b.invalid
    BY <1>4, <1>6, <1>11, <2>1 DEF Builds
  <2> QED
    BY <1>11, <2>2 DEF c, tx, w, gap
<1> QED
  BY <1>8, <1>9, <1>10, <1>11

\* The recursion of BuildsTo is what it says.
LEMMA BuildsToStep ==
  ASSUME NextBlock \in NodeStates, NEW order, NEW n \in Nat, Len(order) = n,
         \A i \in 1..n : order[i].tx \in Tx
  PROVE  /\ BuildsTo(order)[0] = [state |-> NextBlock, txs |-> <<>>, invalid |-> {}, last |-> <<>>]
         /\ \A i \in 0..n : BuildsTo(order)[i] \in Builds
         /\ \A i \in 1..n : BuildsTo(order)[i] = Consider(BuildsTo(order)[i-1], order[i])
<1> DEFINE base  == [state |-> NextBlock, txs |-> <<>>, invalid |-> {}, last |-> <<>>]
           Eq(r) == r = [i \in 0..n |-> IF i = 0 THEN base ELSE Consider(r[i-1], order[i])]
           next  == [p \in (1..n) \X Builds |-> Consider(p[2], order[p[1]])]
<1>2. base \in Builds
  <2>1. <<>> \in Seq(Tx)
    BY EmptySeq
  <2>2. <<>> \in Lasts
    <3>1. <<>> \in Seq(Int) /\ Len(<<>>) = 0
      BY EmptySeq
    <3>2. <<>> \in [1..0 -> Int]
      BY <3>1, LenProperties
    <3>3. 1..0 = {}
      BY SMT
    <3>4. {} \in SUBSET Accounts
      OBVIOUS
    <3> QED
      BY <3>2, <3>3, <3>4 DEF Lasts
  <2> QED
    BY <2>1, <2>2 DEF Builds
<1>b. \A i \in 1..n : \A v \in Builds : Consider(v, order[i]) \in Builds
  BY ConsiderResult
<1>c. BuildsTo(order) = CHOOSE r : Eq(r)
  BY DEF BuildsTo
<1> HIDE DEF base
<1>3. next \in [(1..n) \X Builds -> Builds]
  BY <1>b
<1> HIDE DEF next
<1>a. PICK f : IsRecursion(f, n, Builds, base, next)
  BY <1>2, <1>3, RecursionExists
<1>4. /\ f \in [0..n -> Builds]
      /\ f[0] = base
      /\ \A i \in 1..n : f[i] = next[<<i, f[i-1]>>]
  BY <1>a DEF IsRecursion
<1>5. Eq(f)
  <2>1. \A i \in 0..n : f[i] = IF i = 0 THEN base ELSE Consider(f[i-1], order[i])
    <3> SUFFICES ASSUME NEW i \in 0..n
                 PROVE  f[i] = IF i = 0 THEN base ELSE Consider(f[i-1], order[i])
      OBVIOUS
    <3>1. i # 0 => i \in 1..n /\ i - 1 \in 0..n
      BY SMT
    <3>2. i # 0 => next[<<i, f[i-1]>>] = Consider(f[i-1], order[i])
      BY <1>4, <3>1 DEF next
    <3> QED
      BY <1>4, <3>1, <3>2
  <2>2. f = [i \in 0..n |-> f[i]]
    BY <1>4
  <2> QED
    BY <2>1, <2>2
<1> DEFINE g == BuildsTo(order)
<1> HIDE DEF g
<1>6. Eq(g)
  <2> HIDE DEF Eq
  <2> QED
    BY <1>5, <1>c DEF g
<1>7. \A i \in 0..n : g[i] = IF i = 0 THEN base ELSE Consider(g[i-1], order[i])
  BY <1>6
<1>8. /\ g[0] = base
      /\ \A i \in 1..n : g[i] = Consider(g[i-1], order[i])
  <2>1. 0 \in 0..n /\ \A i \in 1..n : i \in 0..n /\ i # 0
    BY SMT
  <2> QED
    BY <1>7, <2>1
<1>9. \A i \in 0..n : g[i] \in Builds
  <2> DEFINE P == { i \in 0..n : g[i] \in Builds }
  <2>1. 0 \in P
    <3>1. 0 \in 0..n
      BY SMT
    <3> QED
      BY <1>2, <1>8, <3>1
  <2>2. ASSUME NEW i \in 1..n, i - 1 \in P
        PROVE  i \in P
    <3>1. i \in 0..n
      BY SMT
    <3> QED
      BY <1>b, <1>8, <2>2, <3>1
  <2> HIDE DEF P
  <2>3. 0..n \subseteq P
    BY <2>1, <2>2, InductionUpTo
  <2> QED
    BY <2>3 DEF P
<1> QED
  BY <1>8, <1>9 DEF base, g

(***************************************************************************)
(* What holds of a proposal after each turn: the transactions selected     *)
(* pass the pipeline, and every account has had from them what it has had  *)
(* from the proposer's pipeline, or waits for a nonce that cannot come.    *)
(***************************************************************************)
Out(b, order, i, a) ==
  /\ a \in DOMAIN b.last
  /\ \A j \in DOMAIN order :
       j > i /\ order[j].tx.payer = a => order[j].tx.nonce > b.last[a] + 1

InStep(b, order, i) ==
  LET run == RunTxs(NextBlock, b.txs)
  IN  /\ run.rejected = {}
      /\ run.state.height = b.state.height
      /\ run.state.bank = b.state.bank
      /\ b.state.height = NextBlock.height
      /\ \A a \in Accounts : Agree(b.state, run.state, a) \/ Out(b, order, i, a)

\* No turn takes the proposal and its replay apart.
LEMMA TurnKeepsStep ==
  ASSUME NextBlock \in NodeStates, NextBlock.height # 0,
         NEW order, NEW n \in Nat, DOMAIN order = 1..n,
         \A j \in 1..n : order[j].tx \in Tx,
         \A j, k \in 1..n : j < k /\ order[j].tx.payer = order[k].tx.payer
                              => order[j].tx.nonce < order[k].tx.nonce,
         NEW i \in 1..n, NEW b \in Builds, InStep(b, order, i-1)
  PROVE  InStep(Consider(b, order[i]), order, i)
<1> DEFINE tx  == order[i].tx
           p   == tx.payer
           c   == Consider(b, order[i])
           run == RunTxs(NextBlock, b.txs)
<1>1. tx \in Tx /\ p \in Accounts /\ tx.nonce \in Nat /\ i \in DOMAIN order
  BY TxParts
<1>2. b.state \in NodeStates /\ b.txs \in Seq(Tx) /\ b.last \in Lasts
  BY DEF Builds
<1>3. run \in Runs /\ run.state \in NodeStates
  BY <1>2, RunTxsType DEF Runs
<1>4. /\ run.rejected = {}
      /\ run.state.height = b.state.height
      /\ run.state.bank = b.state.bank
      /\ b.state.height = NextBlock.height
      /\ \A a \in Accounts : Agree(b.state, run.state, a) \/ Out(b, order, i-1, a)
  BY DEF InStep
<1>5. \A j \in DOMAIN order : j > i => j > i - 1
  BY SMT
<1>6. \A a : Out(b, order, i-1, a) => Out(b, order, i, a)
  BY <1>5 DEF Out
<1>7. i > i - 1
  BY SMT
<1>8. CASE Skips(b, tx) \/ ~ AnteAccepts(b.state, tx)
  <2>1. c.state = b.state /\ c.txs = b.txs /\ c.last = b.last
    BY <1>1, <1>8, ConsiderResult
  <2>2. \A a : Out(b, order, i, a) => Out(c, order, i, a)
    BY <2>1 DEF Out
  <2> QED
    BY <1>4, <1>6, <2>1, <2>2 DEF InStep
<1>9. CASE ~ Skips(b, tx) /\ AnteAccepts(b.state, tx)
  <2>1. /\ c.state = AnteWrites(b.state, tx)
        /\ \/ /\ c.txs = Append(b.txs, tx)
              /\ c.last = Follow(b.last, p, tx.nonce)
           \/ /\ c.txs = b.txs
              /\ c.last = IF p \in DOMAIN b.last
                            THEN b.last
                            ELSE Follow(b.last, p, tx.nonce - 1)
    BY <1>1, <1>9, ConsiderResult
  <2>2. PICK D \in SUBSET Accounts : b.last \in [D -> Int]
    BY <1>2 DEF Lasts
  <2>3. p \in DOMAIN b.last => tx.nonce = b.last[p] + 1 /\ b.last[p] \in Int
    BY <1>9, <2>2 DEF Skips
  <2>4. ~ Out(b, order, i-1, p)
    <3> SUFFICES ASSUME Out(b, order, i-1, p)
                 PROVE  FALSE
      OBVIOUS
    <3>1. p \in DOMAIN b.last /\ tx.nonce > b.last[p] + 1
      BY <1>1, <1>7 DEF Out
    <3> QED
      BY <1>1, <2>3, <3>1, SMT
  <2>5. Agree(b.state, run.state, p)
    BY <1>1, <1>4, <2>4
  <2>6. /\ c.state \in NodeStates
        /\ c.state.height = b.state.height /\ c.state.bank = b.state.bank
    BY <1>1, <1>2, <1>9, <2>1, WritesKeep
  <2>7. \A a \in Accounts : a # p => Agree(c.state, b.state, a)
    BY <1>1, <1>2, <1>9, <2>1, OtherAccount
  <2>8. \A a : Out(b, order, i, a) /\ a # p /\ a \in DOMAIN c.last /\ c.last[a] = b.last[a]
                 => Out(c, order, i, a)
    BY DEF Out
  <2>9. \A a \in DOMAIN b.last : a # p => a \in DOMAIN c.last /\ c.last[a] = b.last[a]
    BY <2>1 DEF Follow
  <2>10. \A a \in Accounts : a # p /\ Out(b, order, i-1, a) => Out(c, order, i, a)
    BY <1>6, <2>8, <2>9 DEF Out
  <2>11. CASE c.txs = Append(b.txs, tx)
    <3> DEFINE longer == RunTxs(NextBlock, c.txs)
    <3>1. longer = RunTx(run, tx)
      BY <1>1, <1>2, <2>11, RunTxsAppend
    <3>2. /\ AnteAccepts(run.state, tx)
          /\ Agree(AnteWrites(b.state, tx), AnteWrites(run.state, tx), p)
      BY <1>1, <1>2, <1>3, <1>4, <1>9, <2>5, SameAccount
    <3>3. longer.state = AnteWrites(run.state, tx) /\ longer.rejected = {}
      BY <1>1, <1>3, <1>4, <3>1, <3>2, RunTxResult
    <3>4. longer.state.height = run.state.height /\ longer.state.bank = run.state.bank
      BY <1>1, <1>3, <3>2, <3>3, WritesKeep
    <3>5. \A a \in Accounts : a # p => Agree(longer.state, run.state, a)
      BY <1>1, <1>3, <3>2, <3>3, OtherAccount
    <3>6. Agree(c.state, longer.state, p)
      BY <2>1, <3>2, <3>3
    <3> HIDE DEF longer, c, run
    <3>7. \A a \in Accounts : Agree(c.state, longer.state, a) \/ Out(c, order, i, a)
      <4> SUFFICES ASSUME NEW a \in Accounts, a # p
                   PROVE  Agree(c.state, longer.state, a) \/ Out(c, order, i, a)
        BY <3>6
      <4>1. CASE Agree(b.state, run.state, a)
        BY <2>7, <3>5, <4>1 DEF Agree
      <4> QED
        BY <1>4, <2>10, <4>1
    <3> QED
      BY <1>4, <2>6, <3>3, <3>4, <3>7 DEF InStep, longer, c
  <2>12. CASE /\ c.txs = b.txs
              /\ c.last = IF p \in DOMAIN b.last
                            THEN b.last
                            ELSE Follow(b.last, p, tx.nonce - 1)
    <3>1. p \in DOMAIN c.last /\ tx.nonce = c.last[p] + 1
      <4>1. CASE p \in DOMAIN b.last
        BY <2>3, <2>12, <4>1
      <4>2. CASE p \notin DOMAIN b.last
        <5>1. p \in DOMAIN c.last /\ c.last[p] = tx.nonce - 1
          BY <2>12, <4>2 DEF Follow
        <5> QED
          BY <1>1, <5>1, SMT
      <4> QED
        BY <4>1, <4>2
    <3>2. ASSUME NEW j \in DOMAIN order, j > i, order[j].tx.payer = p
          PROVE  order[j].tx.nonce > c.last[p] + 1
      <4>1. i < j
        BY <3>2, SMT
      <4>2. tx.nonce < order[j].tx.nonce
        BY <3>2, <4>1
      <4>3. order[j].tx.nonce \in Nat
        BY <3>2, TxParts
      <4> QED
        BY <1>1, <3>1, <4>2, <4>3, SMT
    <3>3. Out(c, order, i, p)
      BY <3>1, <3>2 DEF Out
    <3>4. \A a \in Accounts : Agree(c.state, run.state, a) \/ Out(c, order, i, a)
      <4> SUFFICES ASSUME NEW a \in Accounts, a # p
                   PROVE  Agree(c.state, run.state, a) \/ Out(c, order, i, a)
        BY <3>3
      <4> HIDE DEF c, run
      <4>1. CASE Agree(b.state, run.state, a)
        BY <2>7, <4>1 DEF Agree
      <4> QED
        BY <1>4, <2>10, <4>1
    <3> QED
      BY <1>4, <2>6, <2>12, <3>4 DEF InStep
  <2> QED
    BY <2>1, <2>11, <2>12
<1> QED
  BY <1>8, <1>9

\* An honest proposal is accepted, in every state of the right type.
LEMMA ProposalPasses ==
  ASSUME NodeInv, IsFiniteSet(pool), NEW order \in SelectOrders
  PROVE  ProcessProposal(Build(order).txs)
<1> DEFINE n == Cardinality(pool)
           g == BuildsTo(order)
           P == { i \in 0..n : InStep(g[i], order, i) }
<1>1. n \in Nat
  BY FS_CardinalityType
<1>2. order \in [1..n -> pool]
  BY SelectedOrder
<1>3. order \in Seq(pool) /\ Len(order) = n
  BY <1>1, <1>2, SeqDef, LenProperties
<1>4. \A j \in 1..n : order[j].tx \in Tx
  BY <1>2 DEF NodeInv
<1>5. \A j, k \in 1..n : j < k /\ order[j].tx.payer = order[k].tx.payer
                           => order[j].tx.nonce < order[k].tx.nonce
  BY <1>2 DEF SelectOrders
<1>6. NextBlock \in NodeStates /\ NextBlock.height # 0
  BY NextBlockType
<1>7. /\ g[0] = [state |-> NextBlock, txs |-> <<>>, invalid |-> {}, last |-> <<>>]
      /\ \A i \in 0..n : g[i] \in Builds
      /\ \A i \in 1..n : g[i] = Consider(g[i-1], order[i])
  BY <1>1, <1>3, <1>4, <1>6, BuildsToStep
<1>8. Build(order) = g[n]
  BY <1>3 DEF Build
<1> HIDE DEF g, n
<1>9. 0 \in P
  <2>1. 0 \in 0..n
    BY <1>1, SMT
  <2>2. RunTxs(NextBlock, <<>>) = [state |-> NextBlock, rejected |-> {}]
    BY <1>6, RunTxsEmpty
  <2>3. g[0].state = NextBlock /\ g[0].txs = <<>>
    BY <1>7
  <2>4. InStep(g[0], order, 0)
    BY <2>2, <2>3 DEF InStep, Agree
  <2> QED
    BY <2>1, <2>4
<1>10. ASSUME NEW i \in 1..n, i - 1 \in P
       PROVE  i \in P
  <2>1. i \in 0..n /\ i - 1 \in 0..n
    BY <1>1, SMT
  <2>2. g[i-1] \in Builds /\ InStep(g[i-1], order, i-1) /\ g[i] = Consider(g[i-1], order[i])
    BY <1>7, <1>10, <2>1
  <2>3. DOMAIN order = 1..n
    BY <1>2
  <2>4. InStep(Consider(g[i-1], order[i]), order, i)
    BY <1>1, <1>4, <1>5, <1>6, <2>2, <2>3, TurnKeepsStep
  <2> QED
    BY <2>1, <2>2, <2>4
<1> HIDE DEF P
<1>11. 0..n \subseteq P
  BY <1>1, <1>9, <1>10, InductionUpTo
<1>12. InStep(g[n], order, n)
  <2>1. n \in 0..n
    BY <1>1, SMT
  <2> QED
    BY <1>11, <2>1 DEF P
<1> QED
  BY <1>8, <1>12 DEF InStep, ProcessProposal

(***************************************************************************)
(* An honest proposer's block is accepted by every validator: whatever is  *)
(* in the mempool, and in whatever order it is listed, what PrepareProposal*)
(* selects passes ProcessProposal (app.go:501-503).                        *)
(***************************************************************************)
THEOREM ProposalAcceptedHolds == Spec => []ProposalAccepted
<1>1. NodeInv /\ PoolInv => ProposalAccepted
  BY ProposalPasses DEF ProposalAccepted, PoolInv
<1> QED
  BY NodeInvInit, NodeInvStep, PoolInit, PoolStep, <1>1, PTL DEF Spec

-----------------------------------------------------------------------------
\* Only FinalizeBlock makes a block, and the state it is judged by stays.
LEMMA DecidedStep ==
  ASSUME NodeInv, DecidedIsExecuted, [Next]_vars
  PROVE  DecidedIsExecuted'
<1>1. CASE UNCHANGED <<delivered, committed>>
  BY <1>1 DEF DecidedIsExecuted, Diluted, Meter
<1>2. CASE delivered' = {}
  BY <1>2 DEF DecidedIsExecuted
<1>3. CASE FinalizeBlock
  <2>1. PICK txs \in DecidedBlocks, begin \in BeginOutcomes(committed.bank), block \in Blocks :
        \E run \in ExecuteAll([NextBlock EXCEPT !.bank = begin], txs) :
          /\ delivered' = {block}
          /\ block.opened = begin
          /\ block.failed = run.rejected
    BY <1>3, FinalizeParts
  <2>2. PICK run \in ExecuteAll([NextBlock EXCEPT !.bank = begin], txs) :
          block.failed = run.rejected
    BY <2>1
  <2>3. txs \in Seq(Tx) /\ RunTxs(NextBlock, txs).rejected = {}
    BY DecidedParts DEF ProcessProposal
  <2>4. NextBlock \in NodeStates /\ NextBlock.height # 0 /\ NextBlock.bank = committed.bank
    BY NextBlockType
  <2>5. \A r \in block.failed : Explained(r, block.failed, begin.supply)
    BY <2>2, <2>3, <2>4, BlockAbreast
  <2>6. committed' = committed
    BY <1>3 DEF FinalizeBlock
  <2>7. ASSUME NEW r \in block.failed
        PROVE  LET payer == r.tx.payer
                   bank  == r.state.bank
               IN  \/ /\ Diluted(payer, block.opened.supply)'
                      /\ Meter(r.state, payer) < Cost(r.tx)
                   \/ /\ ~ RateFits(bank.balance[payer], bank.supply)
                      /\ \/ bank.balance[payer] > committed'.bank.balance[payer]
                         \/ bank.supply < committed'.bank.supply
                   \/ \E q \in block.failed : q.tx.payer = payer /\ q.tx.nonce < r.tx.nonce
    <3>1. Diluted(r.tx.payer, begin.supply) => Diluted(r.tx.payer, block.opened.supply)'
      BY <2>1, <2>6 DEF Diluted
    <3> QED
      BY <2>5, <2>6, <3>1 DEF Explained, Poor, Rateless
  <2> QED
    BY <2>1, <2>7 DEF DecidedIsExecuted, Meter
<1>4. ASSUME NEW tx \in Tx, CheckTxCharges(tx)
      PROVE  UNCHANGED <<delivered, committed>>
  BY <1>4 DEF CheckTxCharges
<1>5. ASSUME NEW block \in delivered, Commit(block)
      PROVE  delivered' = {}
  BY <1>5 DEF Commit
<1>6. Restart => delivered' = {}
  BY DEF Restart
<1>7. PrepareProposal \/ UNCHANGED vars => UNCHANGED <<delivered, committed>>
  BY DEF PrepareProposal, vars
<1>8. ASSUME NEW tx, Enqueue(tx)
      PROVE  UNCHANGED <<delivered, committed>>
  BY <1>8 DEF Enqueue
<1> QED
  BY <1>1, <1>2, <1>3, <1>4, <1>5, <1>6, <1>7, <1>8 DEF Next, CheckTxAdmitted, CheckTxRefused

(***************************************************************************)
(* What validators have accepted is executed.  However BeginBlock mints    *)
(* and messages move coins, the pipeline rejects a transaction of a decided*)
(* block only if minting has lowered its payer's cap or gain and the meter *)
(* is below the price, if the payer's rate has left uint64 because coins   *)
(* reached it or were burned, or if it follows a transaction of the payer's*)
(* rejected for one of these (ante.go:182, ante.go:235, app.go:501-503).   *)
(***************************************************************************)
THEOREM DecidedIsExecutedHolds == Spec => []DecidedIsExecuted
<1>1. Init => DecidedIsExecuted
  BY DEF Init, DecidedIsExecuted
<1> QED
  BY NodeInvInit, NodeInvStep, DecidedStep, <1>1, PTL DEF Spec

-----------------------------------------------------------------------------
(***************************************************************************)
(* The check state, inductively: what waits in CometBFT's mempool or on    *)
(* the way there and what was dropped leads from the committed state to    *)
(* it, accounts for all of the drift, and keeps to the limit.              *)
(***************************************************************************)
CheckInv ==
  /\ Distinct(comet)
  /\ Range(comet) \cap calls = {}
  /\ IsFiniteSet(calls) /\ IsFiniteSet(dropped)
  /\ Lined(committed, check, Sent)
  /\ check.height # 0 => Drift(committed, check, Sent) /\ Limited(committed, check)

\* What has been sent is a finite set of transactions.
LEMMA SentType ==
  ASSUME NodeInv, CheckInv
  PROVE  Sent \in SUBSET Tx /\ IsFiniteSet(Sent)
<1>1. comet \in Seq(Tx) /\ calls \in SUBSET Tx /\ dropped \in SUBSET Tx
  BY DEF NodeInv
<1>2. Range(comet) \in SUBSET Tx
  BY <1>1, LenProperties, ElementOfSeq DEF Range
<1>3. IsFiniteSet(Range(comet)) /\ IsFiniteSet(calls) /\ IsFiniteSet(dropped)
  BY <1>1, FiniteRange DEF CheckInv
<1>4. IsFiniteSet(Range(comet) \cup calls)
  BY <1>3, FS_Union
<1>5. IsFiniteSet((Range(comet) \cup calls) \cup dropped)
  BY <1>3, <1>4, FS_Union
<1> QED
  BY <1>1, <1>2, <1>5 DEF Sent, Queued

\* A check state with the committed sequences and nothing sent is in order.
LEMMA FreshCheck ==
  ASSUME NEW st \in NodeStates, committed' = st, comet' = <<>>, calls' = {}, dropped' = {},
         check' = st \/ (check'.seq = st.seq /\ check'.height = 0)
  PROVE  CheckInv'
<1>1. comet' \in Seq(Tx) /\ Len(comet') = 0
  BY EmptySeq
<1>2. DOMAIN comet' = 1..0
  BY <1>1, LenProperties
<1>3. 1..0 = {}
  BY SMT
<1>4. Sent' = {} /\ Distinct(comet)' /\ (Range(comet) \cap calls = {})'
  BY <1>2, <1>3 DEF Sent, Queued, Range, Distinct
<1>5. check'.seq = st.seq
  OBVIOUS
<1>6. Lined(st, check', {}) /\ Limited(st, check')
  BY <1>5, LinedEmpty
<1>7. check' = st => Drift(st, check', {})
  BY NoDrift
<1>8. Lined(committed, check, Sent)'
  BY <1>4, <1>6 DEF Lined
<1>9. Limited(committed, check)'
  BY <1>6 DEF Limited, Held
<1>10. check'.height # 0 => Drift(committed, check, Sent)'
  BY <1>4, <1>7 DEF Drift, Held, From, Costs, Meter
<1> QED
  BY <1>4, <1>8, <1>9, <1>10, FS_EmptySet DEF CheckInv

\* At the first commit nothing has been sent.
LEMMA CheckInvInit ==
  ASSUME Init
  PROVE  CheckInv
<1>1. committed \in NodeStates /\ check = committed
  BY NodeInvInit DEF NodeInv, Init
<1>2. comet = <<>> /\ calls = {} /\ dropped = {}
  BY DEF Init
<1>3. comet \in Seq(Tx) /\ Len(comet) = 0
  BY <1>2, EmptySeq
<1>4. DOMAIN comet = 1..0
  BY <1>3, LenProperties
<1>5. 1..0 = {}
  BY SMT
<1>6. Sent = {} /\ Distinct(comet) /\ Range(comet) \cap calls = {}
  BY <1>2, <1>4, <1>5 DEF Sent, Queued, Range, Distinct
<1>7. Lined(committed, check, {}) /\ Limited(committed, check) /\ Drift(committed, check, {})
  BY <1>1, LinedEmpty, NoDrift
<1> QED
  BY <1>2, <1>6, <1>7, FS_EmptySet DEF CheckInv

\* CheckTx adds one transaction to those that account for the drift.
LEMMA CheckInvCharges ==
  ASSUME NodeInv, CheckInv, NEW tx \in Tx, CheckTxCharges(tx),
         Sent' = Sent \cup {tx}
  PROVE  /\ tx \notin Sent
         /\ Lined(committed, check, Sent)'
         /\ check'.height # 0 => (Drift(committed, check, Sent) /\ Limited(committed, check))'
<1>1. /\ check \in NodeStates /\ AnteAccepts(check, tx)
      /\ check' = AnteWrites(check, tx) /\ committed' = committed
      /\ committed \in NodeStates
  BY DEF CheckTxCharges, NodeInv
<1>2. Sent \in SUBSET Tx /\ IsFiniteSet(Sent)
  BY SentType
<1>3. tx \notin Sent /\ Lined(committed, check', Sent \cup {tx})
  BY <1>1, <1>2, LinedGrows DEF CheckInv
<1>4. check'.height = check.height
  BY <1>1, WritesKeep
<1>5. ASSUME check.height # 0
      PROVE  Drift(committed, check', Sent \cup {tx}) /\ Limited(committed, check')
  BY <1>1, <1>2, <1>3, <1>5, DriftGrows, LimitedGrows DEF CheckInv
<1>6. Lined(committed, check', Sent') <=> Lined(committed, check, Sent)'
  BY <1>1 DEF Lined
<1>7. Drift(committed', check', Sent') <=> Drift(committed, check, Sent)'
  BY DEF Drift, Held, From, Costs, Meter
<1>8. Limited(committed', check') <=> Limited(committed, check)'
  BY DEF Limited, Held
<1> QED
  BY <1>1, <1>3, <1>4, <1>5, <1>6, <1>7, <1>8

\* What is said of the states and of what was sent stays with them.
LEMMA SameCheck ==
  ASSUME CheckInv, UNCHANGED <<committed, check>>, Sent' = Sent
  PROVE  /\ Lined(committed, check, Sent)'
         /\ check'.height # 0 => (Drift(committed, check, Sent) /\ Limited(committed, check))'
<1>1. Lined(committed, check, Sent)'
  BY DEF CheckInv, Lined
<1>2. check'.height # 0 => Drift(committed, check, Sent)'
  BY DEF CheckInv, Drift, Held, From, Costs, Meter
<1>3. check'.height # 0 => Limited(committed, check)'
  BY DEF CheckInv, Limited, Held
<1> QED
  BY <1>1, <1>2, <1>3

\* Every step keeps the account: Commit starts a new one.
LEMMA CheckInvStep ==
  ASSUME NodeInv, CheckInv, [Next]_vars
  PROVE  CheckInv'
<1>a. /\ comet \in Seq(Tx) /\ dropped \subseteq Tx /\ calls \subseteq Tx
      /\ committed \in NodeStates /\ check \in NodeStates
      /\ Distinct(comet) /\ Range(comet) \cap calls = {}
      /\ IsFiniteSet(calls) /\ IsFiniteSet(dropped)
  BY DEF NodeInv, CheckInv
<1>1. ASSUME NEW tx \in Tx, CheckTxAdmitted(tx)
      PROVE  CheckInv'
  <2>1. /\ CheckTxCharges(tx) /\ comet' = comet /\ dropped' = dropped
        /\ calls' = calls \cup {tx}
    BY <1>1 DEF CheckTxAdmitted, CheckTxCharges
  <2>2. Sent' = Sent \cup {tx}
    BY <2>1 DEF Sent, Queued
  <2>3. /\ tx \notin Sent /\ Lined(committed, check, Sent)'
        /\ check'.height # 0 => (Drift(committed, check, Sent) /\ Limited(committed, check))'
    BY <2>1, <2>2, CheckInvCharges
  <2>4. (Range(comet) \cap calls = {})'
    BY <1>a, <2>1, <2>3 DEF Sent, Queued
  <2>5. IsFiniteSet(calls')
    BY <1>a, <2>1, FS_AddElement
  <2> QED
    BY <1>a, <2>1, <2>3, <2>4, <2>5 DEF CheckInv, Distinct
<1>2. ASSUME NEW tx \in Tx, CheckTxRefused(tx)
      PROVE  CheckInv'
  <2>1. /\ CheckTxCharges(tx) /\ comet' = comet /\ dropped' = dropped \cup {tx}
        /\ calls' = calls
    BY <1>2 DEF CheckTxRefused, CheckTxCharges
  <2>2. Sent' = Sent \cup {tx}
    BY <2>1 DEF Sent, Queued
  <2>3. /\ Lined(committed, check, Sent)'
        /\ check'.height # 0 => (Drift(committed, check, Sent) /\ Limited(committed, check))'
    BY <2>1, <2>2, CheckInvCharges
  <2>4. IsFiniteSet(dropped')
    BY <1>a, <2>1, FS_AddElement
  <2> QED
    BY <1>a, <2>1, <2>3, <2>4 DEF CheckInv, Distinct
<1>3. ASSUME NEW tx \in calls, Enqueue(tx)
      PROVE  CheckInv'
  <2>1. /\ calls' = calls \ {tx}
        /\ \/ /\ comet' = Append(comet, tx)
              /\ Range(comet') = Range(comet) \cup {tx}
              /\ dropped' = dropped
           \/ comet' = comet /\ dropped' = dropped \cup {tx}
        /\ Sent' = Sent
        /\ UNCHANGED <<committed, check>>
    BY <1>3, EnqueueMoves
  <2>2. tx \in Tx /\ tx \notin Range(comet)
    BY <1>a
  <2>3. Distinct(comet)'
    <3>1. comet' = Append(comet, tx) => Distinct(comet')
      BY <1>a, <2>2, AppendDistinct
    <3> QED
      BY <1>a, <2>1, <3>1 DEF Distinct
  <2>4. (Range(comet) \cap calls = {})' /\ IsFiniteSet(calls') /\ IsFiniteSet(dropped')
    BY <1>a, <2>1, FS_Subset, FS_AddElement
  <2>5. /\ Lined(committed, check, Sent)'
        /\ check'.height # 0 => (Drift(committed, check, Sent) /\ Limited(committed, check))'
    BY <2>1, SameCheck
  <2> QED
    BY <2>3, <2>4, <2>5 DEF CheckInv
<1>4. ASSUME NEW block \in delivered, Commit(block)
      PROVE  CheckInv'
  <2> DEFINE st   == block.state
             rest == TakeOut(comet, block.txs)
             run  == RunTxs(st, rest)
             kept == TakeOut(rest, Rejected(run))
  <2>1. /\ committed' = st /\ check' = run.state
        /\ comet' = kept /\ dropped' = {} /\ calls' = {}
    BY <1>4 DEF Commit, Recheck
  <2>2. block \in Blocks /\ block.state.height \in 1..MaxHeight
    BY DEF NodeInv
  <2>3. st \in NodeStates /\ st.height # 0
    BY <2>2, SMT DEF Blocks
  <2>4. rest \in Seq(Tx) /\ Distinct(rest)
    <3>1. rest \in Seq(Tx)
      BY <1>a, TakeOutResult
    <3>2. Len(comet) \in 0..Len(comet)
      BY <1>a, LenProperties, SMT
    <3>3. Distinct(rest)
      BY <1>a, <3>2, LeftToResult DEF TakeOut
    <3> QED
      BY <3>1, <3>3
  <2> HIDE DEF st, rest
  <2>5. /\ kept \in Seq(Tx) /\ Distinct(kept)
        /\ Lined(st, run.state, Range(kept))
        /\ Drift(st, run.state, Range(kept)) /\ Limited(st, run.state)
    BY <2>3, <2>4, RecheckResult
  <2> HIDE DEF run, kept
  <2>6. Sent' = Range(kept)
    BY <2>1 DEF Sent, Queued
  <2>7. /\ Distinct(comet)' /\ IsFiniteSet(dropped') /\ IsFiniteSet(calls')
        /\ (Range(comet) \cap calls = {})'
    BY <2>1, <2>5, FS_EmptySet DEF Distinct
  <2>8. Lined(committed, check, Sent)'
    BY <2>1, <2>5, <2>6 DEF Lined
  <2>9. Drift(committed, check, Sent)'
    BY <2>1, <2>5, <2>6 DEF Drift, Held, From, Costs, Meter
  <2>10. Limited(committed, check)'
    BY <2>1, <2>5 DEF Limited, Held
  <2> QED
    BY <2>7, <2>8, <2>9, <2>10 DEF CheckInv
<1>5. ASSUME Restart
      PROVE  CheckInv'
  <2>1. comet' = <<>> /\ calls' = {} /\ dropped' = {}
    BY <1>5 DEF Restart
  <2>2. CASE check' = [committed EXCEPT !.height = 0] /\ committed' = committed
    <3>1. check'.seq = committed.seq /\ check'.height = 0
      BY <1>a, <2>2 DEF NodeStates
    <3> QED
      BY <1>a, <2>1, <2>2, <3>1, FreshCheck
  <2>3. ASSUME NEW block \in delivered, check' = block.state, committed' = block.state
        PROVE  CheckInv'
    <3> DEFINE st == block.state
    <3>1. st \in NodeStates
      BY DEF NodeInv, Blocks
    <3>2. check' = st /\ committed' = st
      BY <2>3
    <3> HIDE DEF st
    <3> QED
      BY <2>1, <3>1, <3>2, FreshCheck
  <2> QED
    BY <1>5, <2>2, <2>3 DEF Restart
<1>6. ASSUME UNCHANGED <<committed, check, calls, comet, dropped>>
      PROVE  CheckInv'
  <2>1. Sent' = Sent
    BY <1>6 DEF Sent, Queued
  <2>2. /\ Lined(committed, check, Sent)'
        /\ check'.height # 0 => (Drift(committed, check, Sent) /\ Limited(committed, check))'
    BY <1>6, <2>1, SameCheck
  <2> QED
    BY <1>a, <1>6, <2>2 DEF CheckInv, Distinct
<1>7. PrepareProposal \/ FinalizeBlock \/ UNCHANGED vars
        => UNCHANGED <<committed, check, calls, comet, dropped>>
  BY DEF PrepareProposal, FinalizeBlock, vars
<1> QED
  BY <1>1, <1>2, <1>3, <1>4, <1>5, <1>6, <1>7 DEF Next

\* The account is what the property says.
LEMMA CheckInvExact ==
  ASSUME NodeInv, CheckInv
  PROVE  CheckStateExact
<1> SUFFICES ASSUME check.height # 0
             PROVE  /\ check.height = committed.height
                    /\ \A a \in Accounts :
                         LET pending == Outstanding(a)
                             now     == LoadAccountMana(check.store, a)
                             before  == LoadAccountMana(committed.store, a)
                         IN  /\ check.seq[a] = committed.seq[a] + Cardinality(pending)
                             /\ Meter(check, a) + SumFunction([tx \in pending |-> Cost(tx)])
                                  = ShownMana(a)
                             /\ TxCount(now, check.height)
                                  = TxCount(before, check.height) + Cardinality(pending)
  BY DEF CheckStateExact
<1>1. Drift(committed, check, Sent)
  BY DEF CheckInv
<1>2. check.height = committed.height
  BY <1>1 DEF Drift
<1>3. ASSUME NEW a \in Accounts
      PROVE  /\ check.seq[a] = committed.seq[a] + Cardinality(Outstanding(a))
             /\ Meter(check, a) + Costs(Outstanding(a)) = ShownMana(a)
             /\ TxCount(Held(check, a), check.height)
                  = TxCount(Held(committed, a), check.height) + Cardinality(Outstanding(a))
  <2>1. Outstanding(a) = From(Sent, a)
    BY DEF Outstanding, From
  <2>2. ShownMana(a) = Meter(committed, a)
    BY DEF ShownMana, QueryMana, Meter
  <2> QED
    BY <1>1, <1>2, <2>1, <2>2 DEF Drift
<1> QED
  BY <1>2, <1>3 DEF Costs, Held

(***************************************************************************)
(* The check state never drifts from the committed one by anything but the *)
(* transactions waiting in CometBFT's mempool, or on their way there, and  *)
(* those dropped since the last commit (ante.go:182, ante.go:235-239,      *)
(* app.go:637-660).                                                        *)
(***************************************************************************)
THEOREM CheckStateExactHolds == Spec => []CheckStateExact
<1> QED
  BY NodeInvInit, NodeInvStep, CheckInvInit, CheckInvStep, CheckInvExact, PTL DEF Spec

-----------------------------------------------------------------------------
\* What has been executed cannot be executed again.
SpentInv ==
  \A block \in delivered : \A tx \in block.txs \ { r.tx : r \in block.failed } :
    tx.nonce < block.state.seq[tx.payer]

\* Only FinalizeBlock makes a block, and its state is past what it executed.
LEMMA SpentInvStep ==
  ASSUME NodeInv, SpentInv, [Next]_vars
  PROVE  SpentInv'
<1>1. CASE UNCHANGED delivered
  BY <1>1 DEF SpentInv
<1>2. CASE delivered' = {}
  BY <1>2 DEF SpentInv
<1>3. CASE FinalizeBlock
  <2>1. PICK txs \in DecidedBlocks, begin \in BeginOutcomes(committed.bank), block \in Blocks :
        \E run \in ExecuteAll([NextBlock EXCEPT !.bank = begin], txs) :
          /\ txs \in Seq(Tx)
          /\ [NextBlock EXCEPT !.bank = begin] \in NodeStates
          /\ delivered' = {block}
          /\ block.state.seq = run.state.seq
          /\ block.txs = Range(txs)
          /\ block.failed = run.rejected
    BY <1>3, FinalizeParts
  <2> DEFINE st == [NextBlock EXCEPT !.bank = begin]
  <2>2. PICK run \in ExecuteAll(st, txs) :
          /\ block.state.seq = run.state.seq
          /\ block.txs = Range(txs)
          /\ block.failed = run.rejected
    BY <2>1
  <2>3. st \in NodeStates /\ txs \in Seq(Tx)
    BY <2>1
  <2> HIDE DEF st
  <2>4. \A tx \in Range(txs) \ Rejected(run) : tx.nonce < run.state.seq[tx.payer]
    BY <2>2, <2>3, ExecutedSpent
  <2> QED
    BY <2>1, <2>2, <2>4 DEF SpentInv, Rejected
<1>4. ASSUME NEW tx \in Tx, CheckTxCharges(tx)
      PROVE  UNCHANGED delivered
  BY <1>4 DEF CheckTxCharges
<1>5. ASSUME NEW block \in delivered, Commit(block)
      PROVE  delivered' = {}
  BY <1>5 DEF Commit
<1>6. Restart => delivered' = {}
  BY DEF Restart
<1>7. PrepareProposal \/ UNCHANGED vars => UNCHANGED delivered
  BY DEF PrepareProposal, vars
<1>8. ASSUME NEW tx, Enqueue(tx)
      PROVE  UNCHANGED delivered
  BY <1>8 DEF Enqueue
<1> QED
  BY <1>1, <1>2, <1>3, <1>4, <1>5, <1>6, <1>7, <1>8 DEF Next, CheckTxAdmitted, CheckTxRefused

\* A proposer throws out nothing but what waits.
LEMMA InvalidWaits ==
  ASSUME NodeInv, IsFiniteSet(pool), NEW order \in SelectOrders
  PROVE  Build(order).invalid \subseteq Waiting
<1> DEFINE n == Cardinality(pool)
           g == BuildsTo(order)
           P == { i \in 0..n : g[i].invalid \subseteq Waiting }
<1>1. n \in Nat
  BY FS_CardinalityType
<1>2. order \in [1..n -> pool]
  BY SelectedOrder
<1>3. order \in Seq(pool) /\ Len(order) = n
  BY <1>1, <1>2, SeqDef, LenProperties
<1>4. \A j \in 1..n : order[j].tx \in Tx /\ order[j].tx \in Waiting
  BY <1>2 DEF NodeInv, Waiting
<1>5. NextBlock \in NodeStates
  BY NextBlockType
<1>6. /\ g[0].invalid = {}
      /\ \A i \in 0..n : g[i] \in Builds
      /\ \A i \in 1..n : g[i] = Consider(g[i-1], order[i])
  BY <1>1, <1>3, <1>4, <1>5, BuildsToStep
<1>7. Build(order) = g[n]
  BY <1>3 DEF Build
<1> HIDE DEF g, n
<1>8. 0 \in P
  BY <1>1, <1>6, SMT
<1>9. ASSUME NEW i \in 1..n, i - 1 \in P
      PROVE  i \in P
  <2>1. i \in 0..n /\ i - 1 \in 0..n
    BY <1>1, SMT
  <2> DEFINE b == g[i-1]
             e == order[i]
  <2>2. b \in Builds /\ e.tx \in Tx /\ e.tx \in Waiting /\ b.invalid \subseteq Waiting
        /\ g[i] = Consider(b, e)
    BY <1>4, <1>6, <1>9, <2>1
  <2> HIDE DEF b, e
  <2>3. Consider(b, e).invalid \subseteq b.invalid \cup {e.tx}
    BY <2>2, ConsiderResult
  <2> QED
    BY <2>1, <2>2, <2>3
<1> HIDE DEF P
<1>10. 0..n \subseteq P
  BY <1>1, <1>8, <1>9, InductionUpTo
<1>11. n \in 0..n
  BY <1>1, SMT
<1> QED
  BY <1>7, <1>10, <1>11 DEF P

\* What is removed by a key goes, and nothing else.
LEMMA RemovalSpares ==
  ASSUME NEW txs, pool' = Without(pool, txs), NEW tx \in Waiting,
         \A other \in txs : Key(other) # Key(tx)
  PROVE  tx \in Waiting'
<1>1. PICK e \in pool : e.tx = tx
  BY DEF Waiting
<1>2. e \in pool'
  BY <1>1 DEF Without, Key
<1> QED
  BY <1>1, <1>2 DEF Waiting

\* Every step keeps what CometBFT holds in the application's mempool.
LEMMA ForgottenStep ==
  ASSUME NodeInv, PoolInv, CheckInv, SpentInv, NothingForgotten, [Next]_vars
  PROVE  NothingForgotten'
<1> DEFINE Used(block, tx) ==
             \E other \in block.txs \ { r.tx : r \in block.failed } : Key(other) = Key(tx)
<1>a. \A tx \in Queued : tx \in Waiting \cup expelled \/ \E block \in delivered : Used(block, tx)
  BY DEF NothingForgotten
<1>b. ASSUME \A tx \in Queued' : \/ tx \in Waiting' \cup expelled'
                                 \/ \E block \in delivered' : Used(block, tx)
      PROVE  NothingForgotten'
  BY <1>b DEF NothingForgotten, Key
<1> HIDE DEF Used
<1>c. \A tx, other \in Sent : Key(tx) = Key(other) => tx = other
  BY DEF CheckInv, Lined
<1>d. Queued \subseteq Sent
  BY DEF Sent
<1>1. ASSUME NEW tx \in Tx, CheckTxAdmitted(tx)
      PROVE  NothingForgotten'
  <2>1. /\ CheckTxCharges(tx) /\ UNCHANGED <<delivered, expelled, committed>>
        /\ Queued' = Queued \cup {tx} /\ Sent' = Sent \cup {tx}
        /\ pool' = Insert(pool, check', tx)
    BY <1>1 DEF CheckTxAdmitted, CheckTxCharges, Sent, Queued
  <2>2. tx \notin Sent /\ Lined(committed, check, Sent)'
    BY <2>1, CheckInvCharges
  <2>3. \A t \in Sent : Key(t) # Key(tx)
    BY <2>1, <2>2 DEF Lined, Key
  <2>4. tx \in Waiting'
    <3> DEFINE entry == [tx |-> tx, priority |-> TxPriority(check', tx)]
    <3>1. entry \in pool' /\ entry.tx = tx
      BY <2>1 DEF Insert
    <3> HIDE DEF entry
    <3> QED
      BY <3>1 DEF Waiting
  <2>5. ASSUME NEW t \in Queued, t \in Waiting
        PROVE  t \in Waiting'
    <3>1. PICK e \in pool : e.tx = t
      BY <2>5 DEF Waiting
    <3>2. Key(e.tx) # Key(tx)
      BY <1>d, <2>3, <3>1
    <3>3. e \in pool'
      BY <2>1, <3>2 DEF Insert, Without
    <3> QED
      BY <3>1, <3>3 DEF Waiting
  <2> QED
    BY <1>a, <1>b, <2>1, <2>4, <2>5
<1>2. ASSUME NEW tx \in Tx, CheckTxRefused(tx)
      PROVE  NothingForgotten'
  <2>1. Queued' = Queued /\ Waiting' = Waiting /\ UNCHANGED <<delivered, expelled>>
    BY <1>2 DEF CheckTxRefused, CheckTxCharges, Queued, Waiting
  <2> QED
    BY <1>a, <1>b, <2>1
<1>3. ASSUME NEW tx \in calls, Enqueue(tx)
      PROVE  NothingForgotten'
  <2>1. Queued' \subseteq Queued /\ Waiting' = Waiting /\ UNCHANGED <<delivered, expelled>>
    BY <1>3, EnqueueMoves DEF Queued, Waiting
  <2> QED
    BY <1>a, <1>b, <2>1
<1>4. ASSUME PrepareProposal
      PROVE  NothingForgotten'
  <2>1. PICK order \in SelectOrders : /\ pool' = Without(pool, Build(order).invalid)
                                      /\ expelled' = expelled \cup (Build(order).invalid \cap Queued)
    BY <1>4 DEF PrepareProposal
  <2> DEFINE invalid == Build(order).invalid
  <2>2. invalid \subseteq Waiting
    BY InvalidWaits DEF PoolInv
  <2>3. Queued' = Queued /\ delivered' = delivered
    BY <1>4 DEF PrepareProposal, Queued
  <2> HIDE DEF invalid
  <2>4. ASSUME NEW tx \in Queued, tx \in Waiting
        PROVE  tx \in Waiting' \cup expelled'
    <3>1. CASE tx \in invalid
      BY <2>1, <3>1 DEF invalid
    <3>2. CASE tx \notin invalid
      <4>1. ASSUME NEW other \in invalid, Key(other) = Key(tx)
            PROVE  FALSE
        <5>1. PICK e \in pool : e.tx = tx
          BY <2>4 DEF Waiting
        <5>2. PICK f \in pool : f.tx = other
          BY <2>2 DEF Waiting
        <5>3. e = f
          BY <4>1, <5>1, <5>2 DEF PoolInv
        <5> QED
          BY <3>2, <5>1, <5>2, <5>3
      <4> QED
        BY <2>1, <2>4, <4>1, RemovalSpares DEF invalid
    <3> QED
      BY <3>1, <3>2
  <2> QED
    BY <1>a, <1>b, <2>1, <2>3, <2>4
<1>5. ASSUME FinalizeBlock
      PROVE  NothingForgotten'
  <2>1. PICK txs \in DecidedBlocks, begin \in BeginOutcomes(committed.bank), block \in Blocks :
        \E run \in ExecuteAll([NextBlock EXCEPT !.bank = begin], txs) :
          /\ delivered' = {block}
          /\ block.txs = Range(txs)
          /\ block.failed = run.rejected
          /\ pool' = Without(pool, Range(txs) \ Rejected(run))
    BY <1>5, FinalizeParts
  <2>2. PICK run : /\ block.failed = run.rejected
                   /\ pool' = Without(pool, Range(txs) \ Rejected(run))
    BY <2>1
  <2>3. Rejected(run) = { r.tx : r \in block.failed }
    BY <2>2 DEF Rejected
  <2>4. delivered = {} /\ Queued' = Queued /\ expelled' = expelled
    BY <1>5 DEF FinalizeBlock, Queued
  <2>5. ASSUME NEW tx \in Waiting
        PROVE  tx \in Waiting' \/ Used(block, tx)
    BY <2>1, <2>2, <2>3, RemovalSpares DEF Used
  <2> QED
    BY <1>a, <1>b, <2>1, <2>4, <2>5
<1>6. ASSUME NEW block \in delivered, Commit(block)
      PROVE  NothingForgotten'
  <2> DEFINE st   == block.state
             rest == TakeOut(comet, block.txs)
             run  == RunTxs(st, rest)
             kept == TakeOut(rest, Rejected(run))
  <2>1. /\ calls' = {} /\ calls = {} /\ comet' = kept
        /\ pool' = Without(pool, Rejected(run))
        /\ expelled' = expelled \cap Range(kept)
    BY <1>6 DEF Commit, Recheck
  <2>a. comet \in Seq(Tx) /\ Distinct(comet)
    BY DEF NodeInv, CheckInv
  <2>2. st \in NodeStates
    BY DEF NodeInv, Blocks
  <2>3. rest \in Seq(Tx) /\ Range(rest) = Range(comet) \ block.txs
    BY <2>a, TakeOutResult
  <2>4. Distinct(rest)
    <3>1. Len(comet) \in 0..Len(comet)
      BY <2>a, LenProperties, SMT
    <3> QED
      BY <2>a, <3>1, LeftToResult DEF TakeOut
  <2>5. /\ \A b \in delivered : b = block
        /\ \A tx \in block.txs \ { r.tx : r \in block.failed } : tx \in Tx /\ tx.nonce < st.seq[tx.payer]
    BY DEF NodeInv, SpentInv, Blocks
  <2> HIDE DEF st, rest
  <2>6. Rejected(run) \subseteq Range(rest) /\ Lined(st, run.state, Range(kept))
    BY <2>2, <2>3, <2>4, RecheckResult
  <2> HIDE DEF run
  <2>7. Range(kept) = Range(rest) \ Rejected(run)
    BY <2>3, TakeOutResult
  <2> HIDE DEF kept
  <2>8. Queued' = Range(kept) /\ Queued = Range(comet)
    BY <2>1 DEF Queued
  <2>9. ASSUME NEW tx \in Range(kept)
        PROVE  tx \in Waiting' \cup expelled'
    <3>1. tx \in Queued /\ tx \notin Rejected(run) /\ Rejected(run) \subseteq Sent /\ tx \in Sent
      BY <1>d, <2>3, <2>6, <2>7, <2>8
    <3>2. CASE tx \in expelled
      BY <2>1, <3>2
    <3>3. CASE tx \in Waiting
      <4>1. \A other \in Rejected(run) : Key(other) # Key(tx)
        BY <1>c, <3>1
      <4> QED
        BY <2>1, <3>3, <4>1, RemovalSpares
    <3>4. ASSUME NEW b \in delivered, Used(b, tx)
          PROVE  FALSE
      <4>1. PICK other \in block.txs \ { r.tx : r \in block.failed } : Key(other) = Key(tx)
        BY <2>5, <3>4 DEF Used
      <4>2. other.payer = tx.payer /\ other.nonce = tx.nonce
        BY <4>1 DEF Key
      <4>3. tx.nonce < st.seq[tx.payer]
        BY <2>5, <4>1, <4>2
      <4>4. st.seq[tx.payer] <= tx.nonce
        BY <2>6 DEF Lined
      <4>5. tx \in Tx
        BY <2>3, <2>7, <2>a, LenProperties, ElementOfSeq DEF Range
      <4>6. tx.nonce \in Nat /\ st.seq[tx.payer] \in Nat
        BY <2>2, <4>5, TxParts, StateParts
      <4> QED
        BY <4>3, <4>4, <4>6, SMT
    <3> QED
      BY <1>a, <3>1, <3>2, <3>3, <3>4
  <2> QED
    BY <1>b, <2>8, <2>9
<1>7. ASSUME Restart
      PROVE  NothingForgotten'
  <2>1. comet' = <<>> /\ calls' = {}
    BY <1>7 DEF Restart
  <2>2. comet' \in Seq(Tx) /\ Len(comet') = 0
    BY <2>1, EmptySeq
  <2>3. DOMAIN comet' = 1..0
    BY <2>2, LenProperties
  <2>4. 1..0 = {}
    BY SMT
  <2>5. Queued' = {}
    BY <2>1, <2>3, <2>4 DEF Queued, Range
  <2> QED
    BY <1>b, <2>5
<1>8. ASSUME UNCHANGED vars
      PROVE  NothingForgotten'
  <2>1. Queued' = Queued /\ Waiting' = Waiting /\ UNCHANGED <<delivered, expelled>>
    BY <1>8 DEF vars, Queued, Waiting
  <2> QED
    BY <1>a, <1>b, <2>1
<1> QED
  BY <1>1, <1>2, <1>3, <1>4, <1>5, <1>6, <1>7, <1>8 DEF Next

\* At the first commit nothing is queued.
LEMMA ForgottenInit ==
  ASSUME Init
  PROVE  SpentInv /\ NothingForgotten
<1>1. comet = <<>> /\ calls = {} /\ delivered = {}
  BY DEF Init
<1>2. comet \in Seq(Tx) /\ Len(comet) = 0
  BY <1>1, EmptySeq
<1>3. DOMAIN comet = 1..0
  BY <1>2, LenProperties
<1>4. 1..0 = {}
  BY SMT
<1>5. Queued = {}
  BY <1>1, <1>3, <1>4 DEF Queued, Range
<1> QED
  BY <1>1, <1>5 DEF SpentInv, NothingForgotten

(***************************************************************************)
(* What CometBFT holds, gossips and rechecks, and its sender stays charged *)
(* for, this node can propose itself: it is in the application's mempool,  *)
(* unless a proposal has thrown it out, or, until the commit, its nonce    *)
(* has been used in the block just executed (app.go:494-503).              *)
(***************************************************************************)
THEOREM NothingForgottenHolds == Spec => []NothingForgotten
<1> QED
  BY NodeInvInit, NodeInvStep, PoolInit, PoolStep, CheckInvInit, CheckInvStep, SpentInvStep,
     ForgottenStep, ForgottenInit, PTL DEF Spec

-----------------------------------------------------------------------------
\* No count is ahead of its state, in what is or will be committed.
StampInv ==
  /\ Stamped(committed)
  /\ \A block \in delivered : Stamped(block.state)

(***************************************************************************)
(* The chain is a new one: no record has a count of a block that is still  *)
(* to come.  Genesis would import one (GenesisState.Validate does not look *)
(* at heights), and then an account could be at its limit in a block it    *)
(* has not signed for.                                                     *)
(***************************************************************************)
FirstCounts == \A a \in DOMAIN FirstStore : FirstStore[a].lastTxBlock <= 1

\* At the first commit no count is ahead.
LEMMA StampInvInit ==
  ASSUME Init, FirstCounts
  PROVE  StampInv
<1>1. committed.height = 1 /\ committed.store = FirstStore /\ delivered = {}
  BY DEF Init
<1>2. \A a \in Accounts : Held(committed, a).lastTxBlock <= 1
  BY <1>1, SMT DEF FirstCounts, Held, LoadAccountMana, FreshAccount
<1> QED
  BY <1>1, <1>2 DEF StampInv, Stamped

\* Every step keeps the counts behind.
LEMMA StampInvStep ==
  ASSUME NodeInv, StampInv, [Next]_vars
  PROVE  StampInv'
<1>1. CASE UNCHANGED <<delivered, committed>>
  BY <1>1 DEF StampInv, Stamped, Held
<1>2. CASE delivered' = {} /\ committed' = committed
  BY <1>2 DEF StampInv, Stamped, Held
<1>3. ASSUME NEW block \in delivered, delivered' = {}, committed' = block.state
      PROVE  StampInv'
  BY <1>3 DEF StampInv, Stamped, Held
<1>4. CASE FinalizeBlock
  <2>1. PICK txs \in DecidedBlocks, begin \in BeginOutcomes(committed.bank), block \in Blocks :
        \E run \in ExecuteAll([NextBlock EXCEPT !.bank = begin], txs) :
          /\ txs \in Seq(Tx)
          /\ [NextBlock EXCEPT !.bank = begin] \in NodeStates
          /\ delivered' = {block}
          /\ block.state.height = run.state.height
          /\ block.state.store = run.state.store
    BY <1>4, FinalizeParts
  <2> DEFINE st == [NextBlock EXCEPT !.bank = begin]
  <2>2. PICK run \in ExecuteAll(st, txs) :
          /\ block.state.height = run.state.height
          /\ block.state.store = run.state.store
    BY <2>1
  <2>3. /\ NextBlock \in NodeStates /\ NextBlock.height = committed.height + 1
        /\ NextBlock.store = committed.store /\ NextBlock.height \in Nat \ {0}
    BY NextBlockType
  <2>4. /\ st \in NodeStates /\ st.height = NextBlock.height /\ st.store = committed.store
        /\ st.height # 0 /\ txs \in Seq(Tx)
    BY <2>1, <2>3 DEF NodeStates
  <2> HIDE DEF st
  <2>5. Stamped(st)
    <3> SUFFICES ASSUME NEW a \in Accounts
                 PROVE  Held(st, a).lastTxBlock <= st.height
      BY DEF Stamped
    <3> DEFINE l == Held(committed, a).lastTxBlock
               h == committed.height
    <3>1. Held(committed, a) \in AccountMana /\ h \in Nat
      BY StateParts, LoadType DEF NodeInv, Held
    <3>2. l \in Nat /\ h \in Nat /\ l <= h
      BY <3>1 DEF AccountMana, StampInv, Stamped
    <3>3. Held(st, a).lastTxBlock = l /\ st.height = h + 1
      BY <2>3, <2>4 DEF Held
    <3> HIDE DEF l, h
    <3> QED
      BY <3>2, <3>3, SMT
  <2>6. Stamped(run.state)
    BY <2>2, <2>4, <2>5, StampedExecution
  <2>7. Stamped(block.state)
    BY <2>2, <2>6 DEF Stamped, Held
  <2>8. Stamped(committed)'
    BY <1>4 DEF StampInv, Stamped, Held, FinalizeBlock
  <2> QED
    BY <2>1, <2>7, <2>8 DEF StampInv, Stamped, Held
<1>5. ASSUME NEW tx \in Tx, CheckTxCharges(tx)
      PROVE  UNCHANGED <<delivered, committed>>
  BY <1>5 DEF CheckTxCharges
<1>6. ASSUME NEW block \in delivered, Commit(block)
      PROVE  StampInv'
  <2>1. delivered' = {} /\ committed' = block.state
    BY <1>6 DEF Commit
  <2> QED
    BY <1>3, <2>1
<1>7. ASSUME Restart
      PROVE  StampInv'
  BY <1>2, <1>3, <1>7 DEF Restart
<1>8. PrepareProposal \/ UNCHANGED vars => UNCHANGED <<delivered, committed>>
  BY DEF PrepareProposal, vars
<1>9. ASSUME NEW tx, Enqueue(tx)
      PROVE  UNCHANGED <<delivered, committed>>
  BY <1>9 DEF Enqueue
<1> QED
  BY <1>1, <1>4, <1>5, <1>6, <1>7, <1>8, <1>9 DEF Next, CheckTxAdmitted, CheckTxRefused

-----------------------------------------------------------------------------
\* What an account has sent, from a nonce on.
Rest(a, k) == { tx \in From(Sent, a) : tx.nonce >= k }

(***************************************************************************)
(* What an account that is not excused has sent, and where it stands in an *)
(* order of the mempool: the nonces between its committed sequence and the *)
(* one in the check state, one of each, all of them listed, and nothing    *)
(* else listed in between.                                                 *)
(***************************************************************************)
Backed(order, a) ==
  LET lo   == committed.seq[a]
      hi   == check.seq[a]
      sent == From(Sent, a)
  IN  /\ a \in Accounts /\ lo \in Nat /\ hi \in Nat /\ hi <= lo + MaxTxPerBlock
      /\ RateFits(committed.bank.balance[a], committed.bank.supply)
      /\ sent \in SUBSET Tx /\ IsFiniteSet(sent)
      /\ \A tx \in sent : /\ tx.size <= MaxTxBytes
                          /\ ~ Expired(NextBlock, tx)
                          /\ lo <= tx.nonce /\ tx.nonce < hi
      /\ \A tx, other \in sent : tx.nonce = other.nonce => tx = other
      /\ \A m \in Nat : lo <= m /\ m < hi =>
           \E j \in DOMAIN order : order[j].tx \in sent /\ order[j].tx.nonce = m
      /\ \A j \in DOMAIN order :
           order[j].tx.payer = a /\ order[j].tx \notin sent =>
             order[j].tx.nonce < lo \/ hi <= order[j].tx.nonce
      /\ Meter(check, a) \in Nat

(***************************************************************************)
(* After each turn nothing of the account's has been thrown out that       *)
(* CometBFT holds, and none will be: nothing of it is to come, or the block*)
(* is full, or it waits for a nonce that cannot come, or it is in line,    *)
(* with enough mana and room under the limit for all that is to come.      *)
(***************************************************************************)
Done(order, i, a) ==
  \A j \in DOMAIN order : j > i => order[j].tx \notin From(Sent, a)

InLine(b, order, i, a) ==
  LET k == b.state.seq[a]
  IN  /\ committed.seq[a] <= k
      /\ \A j \in DOMAIN order :
           order[j].tx \in From(Sent, a) => IF j <= i THEN order[j].tx.nonce < k
                                                      ELSE order[j].tx.nonce >= k
      /\ Meter(check, a) + Costs(Rest(a, k)) <= Meter(b.state, a)
      /\ committed.seq[a] + TxCount(Held(b.state, a), b.state.height) <= k
      /\ a \in DOMAIN b.last => b.last[a] + 1 = k

Fair(b, order, i, a) ==
  /\ b.state.height = NextBlock.height
  /\ b.state.bank = NextBlock.bank
  /\ \A tx \in b.invalid \cap Queued : tx.payer # a
  /\ \/ Done(order, i, a)
     \/ Bytes(b.txs) >= MaxBlockBytes
     \/ Out(b, order, i, a)
     \/ InLine(b, order, i, a)

\* The price of what is to come is that of the next transaction and the rest.
LEMMA RestStep ==
  ASSUME NEW order, NEW a, Backed(order, a), NEW tx \in From(Sent, a)
  PROVE  /\ Costs(Rest(a, tx.nonce + 1)) \in Nat
         /\ Costs(Rest(a, tx.nonce)) = Costs(Rest(a, tx.nonce + 1)) + Cost(tx)
<1> DEFINE S == Rest(a, tx.nonce + 1)
<1>1. From(Sent, a) \in SUBSET Tx /\ IsFiniteSet(From(Sent, a)) /\ tx \in Tx
      /\ \A one, other \in From(Sent, a) : one.nonce = other.nonce => one = other
  BY DEF Backed
<1>2. \A one \in From(Sent, a) : one.nonce \in Nat
  BY <1>1, TxParts
<1>3. S \in SUBSET Tx /\ IsFiniteSet(S)
  BY <1>1, FS_Subset DEF Rest
<1>4. tx \notin S
  BY <1>2, SMT DEF Rest
<1>5. \A one \in From(Sent, a) : one.nonce >= tx.nonce <=> one.nonce >= tx.nonce + 1 \/ one = tx
  BY <1>1, <1>2, SMT
<1>6. Rest(a, tx.nonce) = S \cup {tx}
  BY <1>5 DEF Rest
<1> HIDE DEF S
<1> QED
  BY <1>1, <1>3, <1>4, <1>6, CostsOneMore DEF S

\* A sender in line whose turn it is passes.
LEMMA InLinePasses ==
  ASSUME NodeInv, NEW order, NEW n \in Nat, DOMAIN order = 1..n,
         \A j, k \in 1..n : j < k /\ order[j].tx.payer = order[k].tx.payer
                              => order[j].tx.nonce < order[k].tx.nonce,
         NEW a, Backed(order, a), NEW i \in 1..n, order[i].tx \in From(Sent, a),
         NEW b \in Builds, InLine(b, order, i-1, a),
         b.state.height = NextBlock.height, b.state.bank = NextBlock.bank
  PROVE  /\ order[i].tx.nonce = b.state.seq[a]
         /\ AnteAccepts(b.state, order[i].tx)
<1> DEFINE tx == order[i].tx
           k  == b.state.seq[a]
           lo == committed.seq[a]
           hi == check.seq[a]
           st == b.state
           c  == TxCount(Held(st, a), st.height)
<1>1. /\ a \in Accounts /\ lo \in Nat /\ hi \in Nat /\ hi <= lo + MaxTxPerBlock
      /\ RateFits(committed.bank.balance[a], committed.bank.supply)
      /\ tx \in Tx /\ tx.payer = a
      /\ tx.size <= MaxTxBytes /\ ~ Expired(NextBlock, tx)
      /\ lo <= tx.nonce /\ tx.nonce < hi
      /\ \A m \in Nat : lo <= m /\ m < hi =>
           \E j \in 1..n : order[j].tx \in From(Sent, a) /\ order[j].tx.nonce = m
      /\ Meter(check, a) \in Nat
  BY DEF Backed, From
<1>2. st \in NodeStates /\ st.height # 0 /\ k \in Nat
  BY <1>1, StateParts, NextBlockType DEF Builds
<1>3. /\ lo <= k
      /\ \A j \in 1..n : order[j].tx \in From(Sent, a) => IF j <= i - 1 THEN order[j].tx.nonce < k
                                                                    ELSE order[j].tx.nonce >= k
      /\ Meter(check, a) + Costs(Rest(a, k)) <= Meter(st, a)
      /\ lo + c <= k
  BY DEF InLine
<1>4. tx.nonce \in Nat /\ Cost(tx) \in Nat
  BY <1>1, TxParts
<1>5. tx.nonce = k
  <2>1. tx.nonce >= k
    <3>1. ~ (i <= i - 1)
      BY SMT
    <3> QED
      BY <1>3, <3>1
  <2>2. ASSUME k < tx.nonce
        PROVE  FALSE
    <3>1. k < hi
      BY <1>1, <1>2, <1>4, <2>2, SMT
    <3>2. PICK j \in 1..n : order[j].tx \in From(Sent, a) /\ order[j].tx.nonce = k
      BY <1>1, <1>2, <1>3, <3>1
    <3>3. ~ (j <= i - 1)
      <4>1. ~ (k < k)
        BY <1>2, SMT
      <4> QED
        BY <1>3, <3>2, <4>1
    <3>4. j = i \/ i < j
      BY <3>3, SMT
    <3>5. j # i
      BY <1>2, <2>2, <3>2, SMT
    <3>6. order[j].tx.payer = a
      BY <3>2 DEF From
    <3>7. tx.nonce < k
      BY <1>1, <3>2, <3>4, <3>5, <3>6
    <3> QED
      BY <1>2, <1>4, <2>2, <3>7, SMT
  <2> QED
    BY <1>2, <1>4, <2>1, <2>2, SMT
<1>6. CanGetAccountMana(st.store, st.bank, st.height, a)
  BY <1>1, NextBlockType DEF CanGetAccountMana, CanRegenerate
<1>7. Read(st, a).mana >= Cost(tx)
  <2>1. /\ Costs(Rest(a, tx.nonce + 1)) \in Nat
        /\ Costs(Rest(a, k)) = Costs(Rest(a, tx.nonce + 1)) + Cost(tx)
    BY <1>5, RestStep
  <2>2. Meter(st, a) = Read(st, a).mana
    BY DEF Meter, Read
  <2>3. Meter(st, a) \in Int
    BY <1>1, <1>2, MeterType
  <2> HIDE DEF tx, k, st
  <2> QED
    BY <1>1, <1>3, <1>4, <2>1, <2>2, <2>3, SMT
<1>8. c < MaxTxPerBlock
  <2>1. Held(st, a) \in AccountMana
    BY <1>1, <1>2, StateParts, LoadType DEF Held
  <2>2. c \in Nat
    BY <1>2, <2>1, StateParts, CountedParts
  <2>3. MaxTxPerBlock \in Nat
    BY KeeperAssumption DEF KeeperAssumption
  <2> HIDE DEF tx, k, st, c
  <2> QED
    BY <1>1, <1>2, <1>3, <1>4, <1>5, <2>2, <2>3, SMT
<1>9. ~ Expired(st, tx)
  BY <1>1 DEF Expired
<1> QED
  BY <1>1, <1>2, <1>5, <1>6, <1>7, <1>8, <1>9, AcceptsRecord

\* No turn puts an account behind that is backed.
LEMMA FairTurn ==
  ASSUME NodeInv, NEW order, NEW n \in Nat, DOMAIN order = 1..n,
         \A j \in 1..n : order[j].tx \in Tx,
         \A j, k \in 1..n : j < k /\ order[j].tx.payer = order[k].tx.payer
                              => order[j].tx.nonce < order[k].tx.nonce,
         NEW a, Backed(order, a), NEW i \in 1..n,
         NEW b \in Builds, Fair(b, order, i-1, a)
  PROVE  Fair(Consider(b, order[i]), order, i, a)
<1> DEFINE e    == order[i]
           tx   == e.tx
           c    == Consider(b, e)
           mine == tx \in From(Sent, a)
<1>1. tx \in Tx /\ tx.payer \in Accounts /\ tx.nonce \in Nat /\ i \in DOMAIN order
  BY TxParts
<1>2. a \in Accounts /\ b.state \in NodeStates /\ b.last \in Lasts
      /\ b.state.height = NextBlock.height /\ b.state.bank = NextBlock.bank
      /\ b.state.height # 0
  BY NextBlockType DEF Backed, Builds, Fair
<1>3. \A j \in DOMAIN order : j > i => j > i - 1
  BY SMT
<1>4. i > i - 1 /\ ~ (i <= i - 1) /\ i <= i
  BY SMT
<1>5. /\ Done(order, i-1, a) => Done(order, i, a) /\ ~ mine
      /\ Out(b, order, i-1, a) => Out(b, order, i, a)
  BY <1>1, <1>3, <1>4 DEF Done, Out
<1>6. ASSUME Out(b, order, i-1, a), tx.payer = a
      PROVE  Skips(b, tx)
  <2>1. a \in DOMAIN b.last /\ tx.nonce > b.last[a] + 1
    BY <1>1, <1>4, <1>6 DEF Out
  <2>2. b.last[a] \in Int
    BY <2>1 DEF Builds, Lasts
  <2>3. tx.nonce # b.last[a] + 1
    BY <1>1, <2>1, <2>2, SMT
  <2> QED
    BY <1>6, <2>1, <2>3 DEF Skips
<1>7. \A x : Queued \cap {x} \subseteq Sent
  BY DEF Sent
<1>8. ASSUME InLine(b, order, i-1, a), mine
      PROVE  tx.nonce = b.state.seq[a] /\ AnteAccepts(b.state, tx)
  BY <1>2, <1>8, InLinePasses
<1>9. ASSUME NEW d \in Builds, InLine(b, order, i-1, a), ~ mine, Agree(d.state, b.state, a),
             Meter(d.state, a) = Meter(b.state, a), d.state.height = b.state.height,
             a \in DOMAIN d.last => a \in DOMAIN b.last /\ d.last[a] = b.last[a]
      PROVE  InLine(d, order, i, a)
  <2>1. \A j \in DOMAIN order : j # i => (j <= i <=> j <= i - 1)
    BY SMT
  <2>2. \A j \in DOMAIN order : order[j].tx \in From(Sent, a) => j # i
    BY <1>9
  <2> QED
    BY <1>9, <2>1, <2>2 DEF InLine, Agree
<1>10. CASE Skips(b, tx)
  <2>1. c = b
    BY <1>1, <1>10, ConsiderResult
  <2>2. ASSUME InLine(b, order, i-1, a), ~ (Bytes(b.txs) >= MaxBlockBytes)
        PROVE  InLine(b, order, i, a)
    <3>1. tx.payer \in DOMAIN b.last /\ tx.nonce # b.last[tx.payer] + 1
      BY <1>10, <2>2 DEF Skips
    <3>2. ~ mine
      <4> SUFFICES ASSUME mine PROVE FALSE
        OBVIOUS
      <4>1. tx.payer = a /\ tx.nonce = b.state.seq[a]
        BY <1>8, <2>2 DEF From
      <4> QED
        BY <2>2, <3>1, <4>1 DEF InLine
    <3> QED
      BY <1>9, <2>2, <3>2 DEF Agree
  <2> QED
    BY <1>5, <2>1, <2>2 DEF Fair
<1>11. CASE ~ Skips(b, tx) /\ ~ AnteAccepts(b.state, tx)
  <2>1. /\ c \in Builds /\ c.state = b.state /\ c.txs = b.txs /\ c.last = b.last
        /\ c.invalid = b.invalid \cup {tx}
    BY <1>1, <1>11, ConsiderResult
  <2>2. ~ (Bytes(b.txs) >= MaxBlockBytes)
    BY <1>11 DEF Skips
  <2>3. ~ mine
    <3> SUFFICES ASSUME mine PROVE FALSE
      OBVIOUS
    <3>1. tx.payer = a
      BY DEF From
    <3> QED
      BY <1>5, <1>6, <1>8, <1>11, <2>2, <3>1 DEF Fair
  <2>4. tx \in Queued => tx.payer # a
    BY <1>7, <2>3 DEF From
  <2>5. \A x \in c.invalid \cap Queued : x.payer # a
    BY <2>1, <2>4 DEF Fair
  <2>6. InLine(b, order, i-1, a) => InLine(c, order, i, a)
    BY <1>9, <2>1, <2>3 DEF Agree
  <2>7. Out(b, order, i, a) => Out(c, order, i, a)
    BY <2>1 DEF Out
  <2> HIDE DEF c
  <2> QED
    BY <1>2, <1>5, <2>1, <2>2, <2>5, <2>6, <2>7 DEF Fair, c
<1>12. CASE ~ Skips(b, tx) /\ AnteAccepts(b.state, tx)
  <2>1. /\ c \in Builds
        /\ c.state = AnteWrites(b.state, tx)
        /\ c.invalid = b.invalid
        /\ \/ /\ c.txs = Append(b.txs, tx)
              /\ c.last = Follow(b.last, tx.payer, tx.nonce)
           \/ /\ c.txs = b.txs
              /\ c.last = IF tx.payer \in DOMAIN b.last
                            THEN b.last
                            ELSE Follow(b.last, tx.payer, tx.nonce - 1)
    BY <1>1, <1>12, ConsiderResult
  <2>2. ~ (Bytes(b.txs) >= MaxBlockBytes)
    BY <1>12 DEF Skips
  <2>3. c.state.height = b.state.height /\ c.state.bank = b.state.bank
    BY <1>1, <1>2, <1>12, <2>1, WritesKeep
  <2>4. /\ Meter(c.state, tx.payer) = Meter(b.state, tx.payer) - Cost(tx)
        /\ TxCount(Held(c.state, tx.payer), b.state.height)
             = TxCount(Held(b.state, tx.payer), b.state.height) + 1
        /\ c.state.seq[tx.payer] = b.state.seq[tx.payer] + 1
        /\ \A x \in Accounts : x # tx.payer =>
             /\ Meter(c.state, x) = Meter(b.state, x)
             /\ Held(c.state, x) = Held(b.state, x)
             /\ c.state.seq[x] = b.state.seq[x]
    BY <1>1, <1>2, <1>12, <2>1, MeterAfter
  <2>5. tx.nonce = b.state.seq[tx.payer]
    BY <1>12 DEF AnteAccepts
  <2>6. /\ a # tx.payer => /\ a \in DOMAIN c.last <=> a \in DOMAIN b.last
                           /\ a \in DOMAIN b.last => c.last[a] = b.last[a]
    BY <2>1 DEF Follow
  <2> HIDE DEF c
  <2>7. \/ Done(order, i, a)
        \/ Out(c, order, i, a)
        \/ InLine(c, order, i, a)
    <3>1. CASE tx.payer # a
      <4>1. ~ mine
        BY <3>1 DEF From
      <4>2. Agree(c.state, b.state, a)
        BY <1>2, <2>4, <3>1 DEF Agree
      <4>3. InLine(b, order, i-1, a) => InLine(c, order, i, a)
        BY <1>2, <1>9, <2>1, <2>3, <2>4, <2>6, <3>1, <4>1, <4>2
      <4>4. Out(b, order, i, a) => Out(c, order, i, a)
        BY <2>6, <3>1 DEF Out
      <4> QED
        BY <1>5, <2>2, <4>3, <4>4 DEF Fair
    <3>2. CASE tx.payer = a /\ Done(order, i-1, a)
      BY <1>5, <3>2
    <3>3. CASE tx.payer = a /\ InLine(b, order, i-1, a) /\ ~ mine
      <4> DEFINE lo == committed.seq[a]
                 hi == check.seq[a]
      <4>1. /\ tx.nonce < lo \/ hi <= tx.nonce
            /\ lo \in Nat /\ hi \in Nat
            /\ \A x \in From(Sent, a) : x.nonce < hi
        BY <1>1, <3>3 DEF Backed
      <4>2. lo <= tx.nonce
        BY <2>5, <3>3 DEF InLine
      <4>3. hi <= tx.nonce
        BY <1>1, <4>1, <4>2, SMT
      <4>4. ASSUME NEW j \in DOMAIN order, j > i, order[j].tx \in From(Sent, a)
            PROVE  FALSE
        <5>1. i < j
          BY <4>4, SMT
        <5>2. order[j].tx.payer = a
          BY <4>4 DEF From
        <5>3. tx.nonce < order[j].tx.nonce
          BY <3>3, <5>1, <5>2
        <5>4. order[j].tx.nonce < hi /\ order[j].tx.nonce \in Nat
          BY <4>1, <4>4, TxParts
        <5> QED
          BY <1>1, <4>1, <4>3, <5>3, <5>4, SMT
      <4> QED
        BY <4>4 DEF Done
    <3>4. CASE tx.payer = a /\ InLine(b, order, i-1, a) /\ mine
      <4> DEFINE k == b.state.seq[a]
      <4>1. tx.nonce = k /\ k \in Nat
        BY <1>1, <2>5, <3>4
      <4>2. \A j \in DOMAIN order : order[j].tx.payer = a /\ j > i => order[j].tx.nonce > k
        <5> SUFFICES ASSUME NEW j \in DOMAIN order, order[j].tx.payer = a, j > i
                     PROVE  order[j].tx.nonce > k
          OBVIOUS
        <5>1. i < j
          BY SMT
        <5>2. tx.nonce < order[j].tx.nonce
          BY <3>4, <5>1
        <5>3. order[j].tx.nonce \in Nat
          BY TxParts
        <5> QED
          BY <4>1, <5>2, <5>3, SMT
      <4>3. CASE c.txs = Append(b.txs, tx) /\ c.last = Follow(b.last, tx.payer, tx.nonce)
        <5>1. a \in DOMAIN c.last /\ c.last[a] = k
          BY <3>4, <4>1, <4>3 DEF Follow
        <5>2. c.state.seq[a] = k + 1
          BY <2>4, <3>4
        <5>3. committed.seq[a] <= k + 1
          <6>1. committed.seq[a] <= k /\ committed.seq[a] \in Nat
            BY <3>4 DEF InLine, Backed
          <6> QED
            BY <4>1, <6>1, SMT
        <5>4. ASSUME NEW j \in DOMAIN order, order[j].tx \in From(Sent, a)
              PROVE  IF j <= i THEN order[j].tx.nonce < k + 1
                               ELSE order[j].tx.nonce >= k + 1
          <6>1. order[j].tx.nonce \in Nat /\ order[j].tx.payer = a
            BY <5>4, TxParts DEF From
          <6>2. CASE j = i
            BY <4>1, <6>2, SMT
          <6>3. CASE j > i
            <7>1. order[j].tx.nonce > k
              BY <4>2, <6>1, <6>3
            <7> QED
              BY <4>1, <6>1, <6>3, <7>1, SMT
          <6>4. CASE j <= i - 1
            <7>1. order[j].tx.nonce < k
              BY <3>4, <5>4, <6>4 DEF InLine
            <7> QED
              BY <4>1, <6>1, <6>4, <7>1, SMT
          <6>5. j = i \/ j > i \/ j <= i - 1
            BY SMT
          <6> QED
            BY <6>2, <6>3, <6>4, <6>5
        <5>5. Meter(check, a) + Costs(Rest(a, k + 1)) <= Meter(c.state, a)
          <6>1. Meter(check, a) + Costs(Rest(a, k)) <= Meter(b.state, a)
            BY <3>4 DEF InLine
          <6>2. /\ Costs(Rest(a, k + 1)) \in Nat
                /\ Costs(Rest(a, k)) = Costs(Rest(a, k + 1)) + Cost(tx)
            BY <3>4, <4>1, RestStep
          <6>3. Meter(c.state, a) = Meter(b.state, a) - Cost(tx)
            BY <2>4, <3>4
          <6>4. Meter(check, a) \in Nat /\ Meter(b.state, a) \in Int /\ Cost(tx) \in Nat
            BY <1>1, <1>2, MeterType, TxParts DEF Backed
          <6> HIDE DEF k
          <6> QED
            BY <6>1, <6>2, <6>3, <6>4, SMT
        <5>6. committed.seq[a] + TxCount(Held(c.state, a), c.state.height) <= k + 1
          <6>1. committed.seq[a] + TxCount(Held(b.state, a), b.state.height) <= k
            BY <3>4 DEF InLine
          <6>2. TxCount(Held(c.state, a), c.state.height) = TxCount(Held(b.state, a), b.state.height) + 1
            BY <2>3, <2>4, <3>4
          <6>3. TxCount(Held(b.state, a), b.state.height) \in Nat /\ committed.seq[a] \in Nat
            <7>1. Held(b.state, a) \in AccountMana /\ b.state.height \in Nat
              BY <1>2, StateParts, LoadType DEF Held
            <7> QED
              BY <7>1, CountedParts DEF Backed
          <6> QED
            BY <4>1, <6>1, <6>2, <6>3, SMT
        <5> HIDE DEF k
        <5> QED
          BY <5>1, <5>2, <5>3, <5>4, <5>5, <5>6 DEF InLine
      <4>4. CASE c.txs = b.txs /\ c.last = IF tx.payer \in DOMAIN b.last
                                             THEN b.last
                                             ELSE Follow(b.last, tx.payer, tx.nonce - 1)
        <5>1. a \in DOMAIN c.last /\ c.last[a] + 1 = k
          <6>1. CASE a \in DOMAIN b.last
            BY <3>4, <4>4, <6>1 DEF InLine
          <6>2. CASE a \notin DOMAIN b.last
            <7>1. a \in DOMAIN c.last /\ c.last[a] = tx.nonce - 1
              BY <3>4, <4>4, <6>2 DEF Follow
            <7> QED
              BY <4>1, <7>1, SMT
          <6> QED
            BY <6>1, <6>2
        <5> QED
          BY <4>2, <5>1 DEF Out
      <4> QED
        BY <2>1, <4>3, <4>4
    <3> QED
      BY <1>6, <1>12, <2>2, <3>1, <3>2, <3>3, <3>4 DEF Fair
  <2> QED
    BY <1>2, <2>1, <2>3, <2>7 DEF Fair, c
<1> QED
  BY <1>10, <1>11, <1>12

\* What CheckTx has charged an account for is listed, in line, and paid for.
LEMMA SentIsBacked ==
  ASSUME NodeInv, PoolInv, CheckInv, NothingForgotten, delivered = {}, check.height # 0,
         NEW order \in SelectOrders, NEW a \in Accounts, ~ Excused(a)
  PROVE  Backed(order, a)
<1> DEFINE lo   == committed.seq[a]
           hi   == check.seq[a]
           sent == From(Sent, a)
           n    == Cardinality(pool)
<1>1. /\ committed \in NodeStates /\ check \in NodeStates /\ lo \in Nat /\ hi \in Nat
      /\ Sent \in SUBSET Tx /\ IsFiniteSet(Sent)
  BY SentType, StateParts DEF NodeInv
<1>2. /\ Lined(committed, check, Sent) /\ Drift(committed, check, Sent)
      /\ Limited(committed, check)
  BY DEF CheckInv
<1>3. sent \in SUBSET Tx /\ IsFiniteSet(sent)
  BY <1>1, FS_Subset DEF From
<1>4. /\ Steady(a)
      /\ \A tx \in Queued : tx.payer = a => ~ Expired(NextBlock, tx)
      /\ \A tx \in dropped \cup expelled : tx.payer # a
  BY DEF Excused
<1>5. RateFits(committed.bank.balance[a], committed.bank.supply)
  BY <1>4 DEF Steady
<1>6. \A tx \in sent : tx \in Queued /\ tx \in Waiting
  BY <1>4 DEF From, Sent, NothingForgotten
<1>7. n \in Nat /\ order \in [1..n -> pool]
      /\ \A i, j \in 1..n : order[i] = order[j] => i = j
  BY FS_CardinalityType, SelectedOrder DEF PoolInv, SelectOrders, SetToSeqs
<1>8. \A e \in pool : \E j \in DOMAIN order : order[j] = e
  <2> DEFINE T == { order[j] : j \in 1..n }
  <2>1. IsFiniteSet(1..n) /\ Cardinality(1..n) = n
    BY <1>7, FS_Interval, SMT
  <2>2. order \in Surjection(1..n, T) /\ order \in Injection(1..n, T)
    BY <1>7 DEF Surjection, Injection, IsInjective
  <2>3. IsFiniteSet(T) /\ Cardinality(T) = n
    BY <2>1, <2>2, FS_Surjection
  <2>4. T \in SUBSET pool
    BY <1>7
  <2>5. T = pool
    BY <2>3, <2>4, FS_Subset DEF PoolInv
  <2> QED
    BY <1>7, <2>5
<1>9. \A tx \in sent : /\ tx.size <= MaxTxBytes
                       /\ ~ Expired(NextBlock, tx)
                       /\ lo <= tx.nonce /\ tx.nonce < hi
  BY <1>2, <1>4, <1>6 DEF Lined, From
<1>10. \A tx, other \in sent : tx.nonce = other.nonce => tx = other
  BY <1>2 DEF Lined, From, Key
<1>11. ASSUME NEW m \in Nat, lo <= m, m < hi
       PROVE  \E tx \in sent : Key(tx) = <<a, m>>
  <2>1. PICK tx \in Sent : Key(tx) = <<a, m>>
    BY <1>2, <1>11 DEF Lined
  <2> QED
    BY <2>1 DEF From, Key
<1>12. ASSUME NEW m \in Nat, lo <= m, m < hi
       PROVE  \E j \in DOMAIN order : order[j].tx \in sent /\ order[j].tx.nonce = m
  <2>1. PICK tx \in sent : Key(tx) = <<a, m>>
    BY <1>11, <1>12
  <2>2. PICK e \in pool : e.tx = tx
    BY <1>6 DEF Waiting
  <2>3. PICK j \in DOMAIN order : order[j] = e
    BY <1>8
  <2> QED
    BY <2>1, <2>2, <2>3 DEF Key
<1>13. ASSUME NEW j \in DOMAIN order, order[j].tx.payer = a, order[j].tx \notin sent
       PROVE  order[j].tx.nonce < lo \/ hi <= order[j].tx.nonce
  <2> DEFINE m == order[j].tx.nonce
  <2>1. order[j] \in pool /\ m \in Nat
    BY <1>7, TxParts DEF NodeInv
  <2>2. ASSUME lo <= m, m < hi
        PROVE  FALSE
    <3>1. PICK tx \in sent : Key(tx) = <<a, m>>
      BY <1>11, <2>1, <2>2
    <3>2. PICK e \in pool : e.tx = tx
      BY <1>6 DEF Waiting
    <3>3. Key(order[j].tx) = Key(e.tx)
      BY <1>13, <3>1, <3>2 DEF Key
    <3>4. order[j] = e
      BY <2>1, <3>3 DEF PoolInv
    <3> QED
      BY <1>13, <3>1, <3>2, <3>4
  <2> QED
    BY <1>1, <2>1, <2>2, SMT
<1>14. Meter(check, a) \in Nat
  <2>1. check.bank = committed.bank
    BY <1>2 DEF Drift
  <2>2. CanGetAccountMana(check.store, check.bank, check.height, a)
    BY <1>5, <2>1 DEF CanGetAccountMana, CanRegenerate
  <2>3. Read(check, a) \in AccountMana
    BY <1>1, <2>2, ReadParts
  <2> QED
    BY <2>3, MathAssumption, SMT DEF Meter, Read, AccountMana, Uint64, MathAssumption
<1>15. hi <= lo + MaxTxPerBlock
  <2> DEFINE c == Cardinality(sent)
             now == TxCount(Held(check, a), committed.height)
             was == TxCount(Held(committed, a), committed.height)
  <2>1. c \in Nat /\ MaxTxPerBlock \in Nat
    BY <1>3, FS_CardinalityType, KeeperAssumption DEF KeeperAssumption
  <2>2. hi = lo + c /\ now = was + c /\ check.height = committed.height
    BY <1>2 DEF Drift
  <2>3. was \in Nat
    <3>1. Held(committed, a) \in AccountMana /\ committed.height \in Nat
      BY <1>1, StateParts, LoadType DEF Held
    <3> QED
      BY <3>1, CountedParts
  <2>4. hi = lo \/ now <= MaxTxPerBlock
    BY <1>2, <2>2 DEF Limited
  <2> HIDE DEF lo, hi, c, now, was
  <2> QED
    BY <1>1, <2>1, <2>2, <2>3, <2>4, SMT
<1> QED
  BY <1>1, <1>3, <1>5, <1>9, <1>10, <1>12, <1>13, <1>14, <1>15 DEF Backed

\* Before the first turn a backed account is in line.
LEMMA FairStart ==
  ASSUME NodeInv, CheckInv, StampInv, check.height # 0, NEW n, NEW order, DOMAIN order = 1..n,
         NEW a, Backed(order, a), ~ Excused(a), NEW b, b.state = NextBlock, b.last = <<>>
  PROVE  InLine(b, order, 0, a)
<1> DEFINE lo == committed.seq[a]
           h  == committed.height
<1>1. /\ a \in Accounts /\ lo \in Nat
      /\ RateFits(committed.bank.balance[a], committed.bank.supply)
      /\ From(Sent, a) \in SUBSET Tx
      /\ \A tx \in From(Sent, a) : lo <= tx.nonce
  BY DEF Backed
<1>2. /\ committed \in NodeStates /\ NextBlock \in NodeStates /\ NextBlock.height = h + 1
      /\ NextBlock.store = committed.store /\ NextBlock.bank = committed.bank
      /\ NextBlock.seq = committed.seq /\ h \in Nat
  BY NextBlockType, StateParts DEF NodeInv
<1>3. \A tx \in From(Sent, a) : tx.nonce >= lo
  BY <1>1, TxParts, SMT
<1>4. Rest(a, lo) = From(Sent, a)
  BY <1>3 DEF Rest
<1>5. Meter(check, a) + Costs(From(Sent, a)) = Meter(committed, a)
  BY <1>1 DEF CheckInv, Drift
<1>6. Meter(committed, a) <= Meter(NextBlock, a)
  <2> DEFINE acct == Held(committed, a)
             bal  == committed.bank.balance[a]
             sup  == committed.bank.supply
  <2>1. acct \in AccountMana
    BY <1>1, <1>2, StateParts, LoadType DEF Held
  <2>2. bal \in Nat /\ sup \in Nat /\ bal <= sup
    BY <1>1, <1>2, BankParts
  <2>3. /\ Meter(committed, a) = RegenerateMana(acct, bal, sup, h).mana
        /\ Meter(NextBlock, a) = RegenerateMana(acct, bal, sup, h + 1).mana
    BY <1>2 DEF Meter, GetAccountMana, Held
  <2>4. Meter(committed, a) <= MaxMana(ExactRate(bal, sup))
    BY DEF Excused, Steady
  <2>5. RateFits(bal, sup)
    BY <1>1
  <2> HIDE DEF acct, bal, sup, h
  <2>6. RegenerateMana(acct, bal, sup, h).mana <= MaxMana(ExactRate(bal, sup))
    BY <2>3, <2>4
  <2> QED
    BY <1>2, <2>1, <2>2, <2>3, <2>5, <2>6, OneBlockMore
<1>7. TxCount(Held(NextBlock, a), NextBlock.height) = 0
  <2> DEFINE l == Held(committed, a).lastTxBlock
  <2>1. Held(committed, a) \in AccountMana
    BY <1>1, <1>2, StateParts, LoadType DEF Held
  <2>2. l \in Nat /\ l <= h
    BY <1>1, <2>1 DEF AccountMana, StampInv, Stamped
  <2>3. l # h + 1
    BY <1>2, <2>2, SMT
  <2>4. Held(NextBlock, a) = Held(committed, a)
    BY <1>2 DEF Held
  <2> QED
    BY <1>2, <2>3, <2>4 DEF TxCount
<1>8. a \notin DOMAIN b.last
  <2>1. <<>> \in Seq(Tx) /\ Len(<<>>) = 0
    BY EmptySeq
  <2>2. DOMAIN <<>> = 1..0
    BY <2>1, LenProperties
  <2>3. 1..0 = {}
    BY SMT
  <2> QED
    BY <2>2, <2>3
<1>9. \A j \in DOMAIN order : order[j].tx \in From(Sent, a) =>
        IF j <= 0 THEN order[j].tx.nonce < lo ELSE order[j].tx.nonce >= lo
  <2>1. \A j \in DOMAIN order : ~ (j <= 0)
    BY SMT
  <2> QED
    BY <1>3, <2>1
<1>10. lo <= lo /\ lo + 0 <= lo
  BY <1>1, SMT
<1>11. Meter(check, a) + Costs(Rest(a, lo)) <= Meter(NextBlock, a)
  BY <1>4, <1>5, <1>6
<1> QED
  BY <1>2, <1>7, <1>8, <1>9, <1>10, <1>11 DEF InLine

\* In every state of the right shape, what is thrown out is excused.
LEMMA AdmittedPasses ==
  ASSUME NodeInv, PoolInv, CheckInv, StampInv, NothingForgotten
  PROVE  AdmittedIsProposable
<1> SUFFICES ASSUME delivered = {}, check.height # 0, NEW order \in SelectOrders,
                    NEW tx \in Build(order).invalid \cap Queued, ~ Excused(tx.payer)
             PROVE  FALSE
  BY DEF AdmittedIsProposable
<1> DEFINE a == tx.payer
           n == Cardinality(pool)
           g == BuildsTo(order)
           P == { i \in 0..n : Fair(g[i], order, i, a) }
<1>1. n \in Nat
  BY FS_CardinalityType DEF PoolInv
<1>2. order \in [1..n -> pool]
  BY SelectedOrder
<1>3. order \in Seq(pool) /\ Len(order) = n
  BY <1>1, <1>2, SeqDef, LenProperties
<1>4. \A j \in 1..n : order[j].tx \in Tx
  BY <1>2 DEF NodeInv
<1>5. \A j, k \in 1..n : j < k /\ order[j].tx.payer = order[k].tx.payer
                           => order[j].tx.nonce < order[k].tx.nonce
  BY <1>2 DEF SelectOrders
<1>6. NextBlock \in NodeStates
  BY NextBlockType
<1>7. /\ g[0] = [state |-> NextBlock, txs |-> <<>>, invalid |-> {}, last |-> <<>>]
      /\ \A i \in 0..n : g[i] \in Builds
      /\ \A i \in 1..n : g[i] = Consider(g[i-1], order[i])
  BY <1>1, <1>3, <1>4, <1>6, BuildsToStep
<1>8. tx \in g[n].invalid
  BY <1>3 DEF Build
<1>9. a \in Accounts
  <2>1. Queued \subseteq Tx
    BY SentType DEF Sent
  <2> QED
    BY <2>1, TxParts
<1>10. ~ Excused(a)
  OBVIOUS
<1>11. Backed(order, a)
  BY <1>9, <1>10, SentIsBacked
<1> HIDE DEF g, n, a
<1>12. 0 \in P
  <2>1. 0 \in 0..n
    BY <1>1, SMT
  <2>2. g[0].state = NextBlock /\ g[0].last = <<>> /\ g[0].invalid = {}
    BY <1>7
  <2>3. DOMAIN order = 1..n
    BY <1>2
  <2>4. InLine(g[0], order, 0, a)
    BY <1>10, <1>11, <2>2, <2>3, FairStart
  <2> QED
    BY <2>1, <2>2, <2>4 DEF Fair
<1>13. ASSUME NEW i \in 1..n, i - 1 \in P
       PROVE  i \in P
  <2>1. i \in 0..n /\ i - 1 \in 0..n
    BY <1>1, SMT
  <2>2. g[i-1] \in Builds /\ Fair(g[i-1], order, i-1, a) /\ g[i] = Consider(g[i-1], order[i])
    BY <1>7, <1>13, <2>1
  <2>3. DOMAIN order = 1..n
    BY <1>2
  <2>4. Fair(Consider(g[i-1], order[i]), order, i, a)
    BY <1>1, <1>4, <1>5, <1>11, <2>2, <2>3, FairTurn
  <2> QED
    BY <2>1, <2>2, <2>4
<1> HIDE DEF P
<1>14. 0..n \subseteq P
  BY <1>1, <1>12, <1>13, InductionUpTo
<1>15. n \in 0..n
  BY <1>1, SMT
<1> QED
  BY <1>8, <1>14, <1>15 DEF P, Fair, a

(***************************************************************************)
(* What CheckTx lets in can be proposed: in whatever order the mempool     *)
(* lists its transactions, those of others before or between included, the *)
(* proposer throws out none that CometBFT holds, unless its sender is one  *)
(* of the exceptions of the property (ante.go:71, 182, 235, app.go:501).   *)
(***************************************************************************)
THEOREM AdmittedIsProposableHolds ==
  ASSUME FirstCounts
  PROVE  Spec => []AdmittedIsProposable
<1>1. Init => StampInv
  BY FirstCounts, StampInvInit
<1>2. Init => SpentInv /\ NothingForgotten
  BY ForgottenInit
<1> QED
  BY NodeInvInit, NodeInvStep, PoolInit, PoolStep, CheckInvInit, CheckInvStep, SpentInvStep,
     ForgottenStep, StampInvStep, AdmittedPasses, <1>1, <1>2, PTL DEF Spec
=============================================================================
