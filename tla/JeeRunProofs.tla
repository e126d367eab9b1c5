---------------------------- MODULE JeeRunProofs ----------------------------
(***************************************************************************)
(* What one transaction, a list of them and the execution of a block make  *)
(* of a state of the node, for every state: the facts the invariants of    *)
(* JeeNodeProofs are made of.                                              *)
(*                                                                         *)
(* The argument: the pipeline looks at the payer alone and writes the      *)
(* payer alone (AcceptsRecord, WritesType), so two runs through the same   *)
(* list can be compared one account at a time.  Relations between two      *)
(* states are kept by a transaction that the first accepts: Agree (the     *)
(* same), Lined and Drift (different by a set of transactions) and Abreast *)
(* (what validators saw of a block, and how it is executed).  Each is      *)
(* carried along a list by InductionUpTo.                                  *)
(***************************************************************************)
EXTENDS JeeNode, ManaKeeperProofs, Induction, SequenceTheorems

\* The stores there can be: records for some of the accounts.
Stores == UNION { [D -> AccountMana] : D \in SUBSET Accounts }

\* The states a pipeline can run on, and the runs through a list.
NodeStates == [height : Nat, store : Stores, bank : BankStates,
               seq : [Accounts -> 0..MaxNonce]]

\* What a run can have come to.
Runs == [state : NodeStates, rejected : SUBSET [tx : Tx, state : NodeStates]]

\* A store is what the keeper takes for one.
LEMMA StoreType ==
  ASSUME NEW s
  PROVE  s \in Stores <=> IsStore(s)
  BY DEF Stores, IsStore

\* What there is to know of a state.
LEMMA StateParts ==
  ASSUME NEW st \in NodeStates
  PROVE  /\ st.height \in Nat
         /\ IsStore(st.store)
         /\ st.bank \in BankStates /\ IsBank(st.bank)
         /\ st.seq \in [Accounts -> 0..MaxNonce]
         /\ \A a \in Accounts : st.seq[a] \in Nat
  BY StoreType, NodeAssumption, SMT DEF NodeStates, NodeAssumption

\* What there is to know of a transaction.
LEMMA TxParts ==
  ASSUME NEW tx \in Tx
  PROVE  /\ tx.payer \in Accounts
         /\ tx.nonce \in 0..MaxNonce-1 /\ tx.nonce \in Nat
         /\ tx.size \in Nat
         /\ Cost(tx) \in Nat
<1>1. tx.payer \in Accounts /\ tx.nonce \in 0..MaxNonce-1 /\ tx.size \in Nat
  BY NodeAssumption DEF NodeAssumption
<1>2. tx.size * DefaultManaCostPerByte \in Nat
  BY <1>1, MathAssumption, SMT DEF MathAssumption
<1> QED
  BY <1>1, <1>2, MathAssumption, NodeAssumption, SMT
     DEF MathAssumption, NodeAssumption, Cost, ComputeTxManaCost

\* A read of an account at the height of a state.
Read(st, a) == GetAccountMana(st.store, st.bank, st.height, a)

\* An account's record as the store of a state has it.
Held(st, a) == LoadAccountMana(st.store, a)

\* A read brings the record up to the height, and leaves the count alone.
LEMMA ReadParts ==
  ASSUME NEW st \in NodeStates, NEW a \in Accounts,
         CanGetAccountMana(st.store, st.bank, st.height, a)
  PROVE  /\ Held(st, a) \in AccountMana
         /\ Read(st, a) \in AccountMana
         /\ Read(st, a).txCountThisBlock = Held(st, a).txCountThisBlock
         /\ Read(st, a).lastTxBlock = Held(st, a).lastTxBlock
         /\ Read(st, a).lastUpdateHeight >= st.height
         /\ st.height <= Held(st, a).lastUpdateHeight => Read(st, a) = Held(st, a)
<1>1. Held(st, a) \in AccountMana
  BY StateParts, LoadType DEF Held
<1>2. /\ st.bank.balance[a] \in Nat /\ st.bank.supply \in Nat
      /\ st.bank.balance[a] <= st.bank.supply
  BY StateParts DEF IsBank
<1>3. CanRegenerate(Held(st, a), st.bank.balance[a], st.bank.supply, st.height)
  BY DEF CanGetAccountMana, Held
<1>4. Read(st, a) = RegenerateMana(Held(st, a), st.bank.balance[a], st.bank.supply, st.height)
  BY DEF Read, Held, GetAccountMana
<1>5. st.height \in Nat /\ Held(st, a).lastUpdateHeight \in Nat
  BY <1>1, StateParts DEF AccountMana
<1> DEFINE r == RegenerateMana(Held(st, a), st.bank.balance[a], st.bank.supply, st.height)
<1>6. /\ r \in AccountMana
      /\ r.txCountThisBlock = Held(st, a).txCountThisBlock
      /\ r.lastTxBlock = Held(st, a).lastTxBlock
      /\ st.height <= Held(st, a).lastUpdateHeight => r = Held(st, a)
      /\ st.height > Held(st, a).lastUpdateHeight => r.lastUpdateHeight = st.height
  BY <1>1, <1>2, <1>3, <1>5, RegenerateResult
<1>7. r.lastUpdateHeight >= st.height
  <2> HIDE DEF r
  <2> QED
    BY <1>5, <1>6, SMT
<1> QED
  BY <1>1, <1>4, <1>6, <1>7

\* What the bank has for an account.
LEMMA BankParts ==
  ASSUME NEW st \in NodeStates, NEW a \in Accounts
  PROVE  /\ st.bank.balance[a] \in Nat /\ st.bank.supply \in Nat
         /\ st.bank.balance[a] <= st.bank.supply
  BY StateParts DEF IsBank

-----------------------------------------------------------------------------
\* A counted record has one transaction more in the block.
LEMMA CountedParts ==
  ASSUME NEW acct \in AccountMana, NEW h \in Nat
  PROVE  /\ TxCount(acct, h) \in Nat
         /\ Counted(acct, h) \in AccountMana
         /\ Counted(acct, h).mana = acct.mana
         /\ Counted(acct, h).lastUpdateHeight = acct.lastUpdateHeight
         /\ Counted(acct, h).txCountThisBlock = TxCount(acct, h) + 1
         /\ Counted(acct, h).lastTxBlock = h
<1> DEFINE n == TxCount(acct, h)
           m == n + 1
<1>1. n \in Nat
  BY SMT DEF TxCount, AccountMana
<1>2. m \in Nat
  BY <1>1, SMT
<1>3. Counted(acct, h) = [acct EXCEPT !.txCountThisBlock = m, !.lastTxBlock = h]
  BY DEF Counted
<1> HIDE DEF m, n
<1>4. /\ Counted(acct, h) \in AccountMana
      /\ Counted(acct, h).mana = acct.mana
      /\ Counted(acct, h).lastUpdateHeight = acct.lastUpdateHeight
      /\ Counted(acct, h).txCountThisBlock = m
      /\ Counted(acct, h).lastTxBlock = h
  BY <1>2, <1>3 DEF AccountMana
<1> QED
  BY <1>1, <1>4 DEF m, n

\* The record a transaction is charged to, before the count.
LEMMA ChargedResult ==
  ASSUME NEW st \in NodeStates, NEW tx \in Tx,
         CanConsume(st.store, st.bank, st.height, tx.payer, Cost(tx))
  PROVE  LET p == tx.payer
             r == LoadAccountMana(Charged(st, tx), p)
         IN  /\ IsStore(Charged(st, tx))
             /\ \A a \in Accounts : a # p => LoadAccountMana(Charged(st, tx), a) = Held(st, a)
             /\ r = [Read(st, p) EXCEPT !.mana = @ - Cost(tx)]
             /\ r \in AccountMana
             /\ CanGetAccountMana(Charged(st, tx), st.bank, st.height, p)
             /\ GetAccountMana(Charged(st, tx), st.bank, st.height, p) = r
<1> DEFINE p   == tx.payer
           old == Read(st, p)
           new == [old EXCEPT !.mana = @ - Cost(tx)]
<1>1. p \in Accounts /\ Cost(tx) \in Nat
  BY TxParts
<1>2. CanGetAccountMana(st.store, st.bank, st.height, p) /\ old.mana >= Cost(tx)
  BY DEF CanConsume, Read
<1>3. old \in AccountMana /\ old.lastUpdateHeight >= st.height
  BY <1>1, <1>2, ReadParts
<1>4. new \in AccountMana /\ new.lastUpdateHeight = old.lastUpdateHeight
  <2>1. old.mana - Cost(tx) \in Uint64
    BY <1>1, <1>2, <1>3, MathAssumption, SMT DEF AccountMana, Uint64, MathAssumption
  <2> HIDE DEF old
  <2> QED
    BY <1>3, <2>1 DEF AccountMana
<1>5. Charged(st, tx) = SetAccountMana(st.store, p, new)
  BY DEF Charged, ConsumeMana, Read
<1> HIDE DEF new, old
<1>6. IsStore(Charged(st, tx))
  BY <1>1, <1>4, <1>5, StateParts, SetType
<1>7. \A a : LoadAccountMana(Charged(st, tx), a) = IF a = p THEN new ELSE Held(st, a)
  BY <1>5, SetLoad DEF Held
<1>8. st.height <= new.lastUpdateHeight /\ ~ (st.height > new.lastUpdateHeight)
  BY <1>3, <1>4, StateParts, SMT DEF AccountMana
<1>9. CanGetAccountMana(Charged(st, tx), st.bank, st.height, p)
  BY <1>7, <1>8 DEF CanGetAccountMana, CanRegenerate
<1>10. GetAccountMana(Charged(st, tx), st.bank, st.height, p) = new
  BY <1>7, <1>8 DEF GetAccountMana, RegenerateMana
<1> QED
  BY <1>4, <1>6, <1>7, <1>9, <1>10 DEF new, old

(***************************************************************************)
(* What it takes to be accepted above height 0, in terms of the payer's    *)
(* record alone.                                                           *)
(***************************************************************************)
LEMMA AcceptsRecord ==
  ASSUME NEW st \in NodeStates, st.height # 0, NEW tx \in Tx
  PROVE  AnteAccepts(st, tx) <=>
           /\ tx.size <= MaxTxBytes
           /\ ~ Expired(st, tx)
           /\ CanGetAccountMana(st.store, st.bank, st.height, tx.payer)
           /\ Read(st, tx.payer).mana >= Cost(tx)
           /\ TxCount(Held(st, tx.payer), st.height) < MaxTxPerBlock
           /\ tx.nonce = st.seq[tx.payer]
<1> DEFINE p == tx.payer
           able == CanConsume(st.store, st.bank, st.height, p, Cost(tx))
           new  == LoadAccountMana(Charged(st, tx), p)
<1>1. able <=> /\ CanGetAccountMana(st.store, st.bank, st.height, p)
               /\ Read(st, p).mana >= Cost(tx)
  BY DEF CanConsume, Read
<1>2. ASSUME able
      PROVE  CanIncrement(Charged(st, tx), st.bank, st.height, p)
               <=> TxCount(Held(st, p), st.height) < MaxTxPerBlock
  <2>1. /\ CanGetAccountMana(Charged(st, tx), st.bank, st.height, p)
        /\ GetAccountMana(Charged(st, tx), st.bank, st.height, p) = new
        /\ new = [Read(st, p) EXCEPT !.mana = @ - Cost(tx)]
    BY <1>2, ChargedResult
  <2>2. p \in Accounts
    BY TxParts
  <2>3. /\ Read(st, p) \in AccountMana
        /\ Read(st, p).txCountThisBlock = Held(st, p).txCountThisBlock
        /\ Read(st, p).lastTxBlock = Held(st, p).lastTxBlock
    BY <1>1, <1>2, <2>2, ReadParts
  <2>4. TxCount(new, st.height) = TxCount(Held(st, p), st.height)
    <3> DEFINE old == Read(st, p)
    <3>1. [old EXCEPT !.mana = @ - Cost(tx)].txCountThisBlock = old.txCountThisBlock
      BY <2>3 DEF AccountMana
    <3>2. [old EXCEPT !.mana = @ - Cost(tx)].lastTxBlock = old.lastTxBlock
      BY <2>3 DEF AccountMana
    <3> QED
      BY <2>1, <2>3, <3>1, <3>2 DEF TxCount
  <2> QED
    BY <2>1, <2>4 DEF CanIncrement
<1> HIDE DEF able, p
<1>3. AnteAccepts(st, tx) <=>
        /\ tx.size <= MaxTxBytes
        /\ ~ Expired(st, tx)
        /\ able
        /\ CanIncrement(Charged(st, tx), st.bank, st.height, p)
        /\ tx.nonce = st.seq[p]
  BY DEF AnteAccepts, able, p
<1> QED
  BY <1>1, <1>2, <1>3 DEF p

(***************************************************************************)
(* What an accepted transaction writes: at height 0 the sequence alone,    *)
(* otherwise also its payer's record, which is brought up to the height,   *)
(* charged and counted.                                                    *)
(***************************************************************************)
LEMMA WritesType ==
  ASSUME NEW st \in NodeStates, NEW tx \in Tx, AnteAccepts(st, tx)
  PROVE  /\ AnteWrites(st, tx) \in NodeStates
         /\ AnteWrites(st, tx).height = st.height
         /\ AnteWrites(st, tx).bank = st.bank
         /\ AnteWrites(st, tx).seq = [st.seq EXCEPT ![tx.payer] = @ + 1]
         /\ \A a \in Accounts : a # tx.payer => Held(AnteWrites(st, tx), a) = Held(st, a)
         /\ st.height = 0 => AnteWrites(st, tx).store = st.store
         /\ st.height # 0 =>
              LET old == Read(st, tx.payer)
              IN  Held(AnteWrites(st, tx), tx.payer)
                    = [ mana             |-> old.mana - Cost(tx),
                        lastUpdateHeight |-> old.lastUpdateHeight,
                        txCountThisBlock |-> TxCount(Held(st, tx.payer), st.height) + 1,
                        lastTxBlock      |-> st.height ]
<1> DEFINE p   == tx.payer
           w   == AnteWrites(st, tx)
           sq  == [st.seq EXCEPT ![p] = @ + 1]
           mid == Charged(st, tx)
           new == IncrementTxCount(mid, st.bank, st.height, {p})
<1>1. p \in Accounts /\ tx.nonce \in 0..MaxNonce-1 /\ tx.nonce = st.seq[p]
  BY TxParts DEF AnteAccepts
<1>2. sq \in [Accounts -> 0..MaxNonce]
  <2>1. st.seq[p] + 1 \in 0..MaxNonce
    BY <1>1, NodeAssumption, SMT DEF NodeAssumption
  <2> QED
    BY <2>1, StateParts
<1>3. w = [st EXCEPT !.store = IF st.height = 0 THEN st.store ELSE new, !.seq = sq]
  BY DEF AnteWrites, NodeStates
<1>4. /\ w.height = st.height /\ w.bank = st.bank /\ w.seq = sq
      /\ w.store = IF st.height = 0 THEN st.store ELSE new
  BY <1>3 DEF NodeStates
<1>5. ASSUME w.store \in Stores
      PROVE  w \in NodeStates
  BY <1>2, <1>3, <1>4, <1>5 DEF NodeStates
<1> HIDE DEF w, sq, new
<1>6. CASE st.height = 0
  <2>1. w.store = st.store /\ st.store \in Stores
    BY <1>4, <1>6, StateParts, StoreType
  <2>2. \A a \in Accounts : Held(w, a) = Held(st, a)
    BY <2>1 DEF Held
  <2> QED
    BY <1>4, <1>5, <1>6, <2>1, <2>2 DEF w, sq
<1>7. CASE st.height # 0
  <2> DEFINE old == Read(st, p)
             chg == LoadAccountMana(mid, p)
  <2>1. CanConsume(st.store, st.bank, st.height, p, Cost(tx))
    BY <1>7 DEF AnteAccepts
  <2>2. /\ IsStore(mid)
        /\ \A a \in Accounts : a # p => LoadAccountMana(mid, a) = Held(st, a)
        /\ chg = [old EXCEPT !.mana = @ - Cost(tx)]
        /\ chg \in AccountMana
        /\ GetAccountMana(mid, st.bank, st.height, p) = chg
    BY <2>1, ChargedResult
  <2>3. /\ old \in AccountMana
        /\ old.txCountThisBlock = Held(st, p).txCountThisBlock
        /\ old.lastTxBlock = Held(st, p).lastTxBlock
    BY <1>1, <2>1, ReadParts DEF CanConsume
  <2>4. new = [x \in DOMAIN mid \cup {p} |->
                 IF x = p THEN Counted(chg, st.height) ELSE mid[x]]
    BY <2>2 DEF new, IncrementTxCount
  <2>5. TxCount(chg, st.height) = TxCount(Held(st, p), st.height)
    <3> HIDE DEF old
    <3>1. chg.txCountThisBlock = old.txCountThisBlock /\ chg.lastTxBlock = old.lastTxBlock
      BY <2>2, <2>3 DEF AccountMana
    <3> QED
      BY <2>3, <3>1 DEF TxCount
  <2>6. TxCount(chg, st.height) \in Nat
    BY <2>2, SMT DEF TxCount, AccountMana
  <2> DEFINE rec == [ mana             |-> old.mana - Cost(tx),
                      lastUpdateHeight |-> old.lastUpdateHeight,
                      txCountThisBlock |-> TxCount(Held(st, p), st.height) + 1,
                      lastTxBlock      |-> st.height ]
  <2>7. Counted(chg, st.height) = rec
    <3> DEFINE c == Counted(chg, st.height)
    <3> HIDE DEF chg, old
    <3>1. st.height \in Nat
      BY StateParts
    <3>2. /\ c \in AccountMana /\ c.mana = chg.mana
          /\ c.lastUpdateHeight = chg.lastUpdateHeight
          /\ c.txCountThisBlock = TxCount(chg, st.height) + 1
          /\ c.lastTxBlock = st.height
      BY <2>2, <3>1, CountedParts
    <3>3. chg.mana = old.mana - Cost(tx) /\ chg.lastUpdateHeight = old.lastUpdateHeight
      BY <2>2, <2>3 DEF AccountMana
    <3> HIDE DEF c
    <3>4. c = [ mana             |-> c.mana,
                lastUpdateHeight |-> c.lastUpdateHeight,
                txCountThisBlock |-> c.txCountThisBlock,
                lastTxBlock      |-> c.lastTxBlock ]
      BY <3>2 DEF AccountMana
    <3> QED
      BY <2>5, <3>2, <3>3, <3>4 DEF c
  <2>8. rec \in AccountMana
    <3>1. chg.mana = old.mana - Cost(tx) /\ chg.lastUpdateHeight = old.lastUpdateHeight
      <4> HIDE DEF old
      <4> QED
        BY <2>2, <2>3 DEF AccountMana
    <3>2. /\ old.mana - Cost(tx) \in Uint64 /\ old.lastUpdateHeight \in Nat
          /\ st.height \in Nat /\ TxCount(Held(st, p), st.height) + 1 \in Nat
      BY <2>2, <2>5, <2>6, <3>1, StateParts, SMT DEF AccountMana
    <3> QED
      BY <3>2 DEF AccountMana
  <2> HIDE DEF rec
  <2>9. IsStore(new)
    <3>1. DOMAIN new = DOMAIN mid \cup {p}
      BY <2>4
    <3>2. \A x \in DOMAIN new : new[x] \in AccountMana
      BY <2>2, <2>4, <2>7, <2>8 DEF IsStore
    <3>3. new = [x \in DOMAIN new |-> new[x]]
      BY <2>4
    <3> QED
      BY <1>1, <2>2, <3>1, <3>2, <3>3 DEF IsStore
  <2>10. Held(w, p) = rec
    BY <1>4, <1>7, <2>4, <2>7 DEF Held, LoadAccountMana
  <2>11. \A a \in Accounts : a # p => Held(w, a) = Held(st, a)
    <3> SUFFICES ASSUME NEW a \in Accounts, a # p
                 PROVE  Held(w, a) = Held(st, a)
      OBVIOUS
    <3>1. Held(w, a) = LoadAccountMana(mid, a)
      BY <1>4, <1>7, <2>4 DEF Held, LoadAccountMana
    <3> QED
      BY <2>2, <3>1
  <2>12. w \in NodeStates
    BY <1>4, <1>5, <1>7, <2>9, StoreType
  <2> QED
    BY <1>4, <1>7, <2>10, <2>11, <2>12 DEF w, sq, rec
<1> QED
  BY <1>6, <1>7

\* Neither the height nor the bank is written.
LEMMA WritesKeep ==
  ASSUME NEW st \in NodeStates, NEW tx \in Tx, AnteAccepts(st, tx)
  PROVE  /\ AnteWrites(st, tx) \in NodeStates
         /\ AnteWrites(st, tx).height = st.height
         /\ AnteWrites(st, tx).bank = st.bank
  BY WritesType

\* What an accepted transaction leaves to its payer, above height 0.
LEMMA PayerAfter ==
  ASSUME NEW st \in NodeStates, st.height # 0, NEW tx \in Tx, AnteAccepts(st, tx)
  PROVE  LET p   == tx.payer
             new == Held(AnteWrites(st, tx), p)
         IN  /\ new \in AccountMana
             /\ new.mana = Read(st, p).mana - Cost(tx)
             /\ new.lastUpdateHeight = Read(st, p).lastUpdateHeight
             /\ new.lastUpdateHeight >= st.height
             /\ new.txCountThisBlock = TxCount(Held(st, p), st.height) + 1
             /\ new.lastTxBlock = st.height
             /\ AnteWrites(st, tx).seq[p] = st.seq[p] + 1
<1> DEFINE p   == tx.payer
           w   == AnteWrites(st, tx)
           new == Held(w, p)
<1>1. p \in Accounts
  BY TxParts
<1>2. new = [ mana             |-> Read(st, p).mana - Cost(tx),
              lastUpdateHeight |-> Read(st, p).lastUpdateHeight,
              txCountThisBlock |-> TxCount(Held(st, p), st.height) + 1,
              lastTxBlock      |-> st.height ]
  BY WritesType
<1>3. w \in NodeStates /\ w.seq = [st.seq EXCEPT ![p] = @ + 1]
  BY WritesType
<1>4. new \in AccountMana
  BY <1>1, <1>3, StateParts, LoadType DEF Held
<1>5. w.seq[p] = st.seq[p] + 1
  BY <1>1, <1>3, StateParts
<1>6. Read(st, p).lastUpdateHeight >= st.height
  <2>1. CanGetAccountMana(st.store, st.bank, st.height, p)
    BY AcceptsRecord
  <2> QED
    BY <1>1, <2>1, ReadParts
<1> HIDE DEF new, w
<1>7. /\ new.mana = Read(st, p).mana - Cost(tx)
      /\ new.lastUpdateHeight = Read(st, p).lastUpdateHeight
      /\ new.txCountThisBlock = TxCount(Held(st, p), st.height) + 1
      /\ new.lastTxBlock = st.height
  BY <1>2
<1> QED
  BY <1>4, <1>5, <1>6, <1>7 DEF new, w

-----------------------------------------------------------------------------
\* The two states are the same to an account.
Agree(st, su, a) == Held(st, a) = Held(su, a) /\ st.seq[a] = su.seq[a]

\* The pipeline looks at nothing but the payer, and treats equals the same.
LEMMA SameAccount ==
  ASSUME NEW st \in NodeStates, NEW su \in NodeStates, NEW tx \in Tx,
         st.height = su.height, st.height # 0, st.bank = su.bank,
         Agree(st, su, tx.payer)
  PROVE  /\ AnteAccepts(st, tx) <=> AnteAccepts(su, tx)
         /\ AnteAccepts(st, tx) => Agree(AnteWrites(st, tx), AnteWrites(su, tx), tx.payer)
<1> DEFINE p == tx.payer
<1>1. p \in Accounts
  BY TxParts
<1>2. Held(st, p) = Held(su, p) /\ st.seq[p] = su.seq[p]
  BY DEF Agree
<1>3. /\ Read(st, p) = Read(su, p)
      /\ CanGetAccountMana(st.store, st.bank, st.height, p)
           <=> CanGetAccountMana(su.store, su.bank, su.height, p)
      /\ TxCount(Held(st, p), st.height) = TxCount(Held(su, p), su.height)
  BY <1>2 DEF Read, Held, GetAccountMana, CanGetAccountMana
<1>4. AnteAccepts(st, tx) <=> AnteAccepts(su, tx)
  <2>1. Expired(st, tx) <=> Expired(su, tx)
    BY DEF Expired
  <2> QED
    BY <1>2, <1>3, <2>1, AcceptsRecord
<1>5. ASSUME AnteAccepts(st, tx)
      PROVE  Agree(AnteWrites(st, tx), AnteWrites(su, tx), p)
  <2> DEFINE rec(s) == [ mana             |-> Read(s, p).mana - Cost(tx),
                         lastUpdateHeight |-> Read(s, p).lastUpdateHeight,
                         txCountThisBlock |-> TxCount(Held(s, p), s.height) + 1,
                         lastTxBlock      |-> s.height ]
  <2>1. Held(AnteWrites(st, tx), p) = Held(AnteWrites(su, tx), p)
    <3>1. Held(AnteWrites(st, tx), p) = rec(st)
      BY <1>5, WritesType
    <3>2. AnteAccepts(su, tx) /\ su.height # 0
      BY <1>4, <1>5
    <3>3. Held(AnteWrites(su, tx), p) = rec(su)
      BY <3>2, WritesType
    <3>4. rec(st) = rec(su)
      BY <1>3
    <3> HIDE DEF rec
    <3> QED
      BY <3>1, <3>3, <3>4
  <2>2. AnteWrites(st, tx).seq = [st.seq EXCEPT ![p] = @ + 1]
        /\ AnteWrites(su, tx).seq = [su.seq EXCEPT ![p] = @ + 1]
    BY <1>4, <1>5, WritesType
  <2>3. st.seq \in [Accounts -> 0..MaxNonce] /\ su.seq \in [Accounts -> 0..MaxNonce]
    BY StateParts
  <2>4. AnteWrites(st, tx).seq[p] = AnteWrites(su, tx).seq[p]
    BY <1>1, <1>2, <2>2, <2>3
  <2> QED
    BY <2>1, <2>4 DEF Agree
<1> QED
  BY <1>4, <1>5

\* To the other accounts nothing has happened.
LEMMA OtherAccount ==
  ASSUME NEW st \in NodeStates, NEW tx \in Tx, AnteAccepts(st, tx),
         NEW a \in Accounts, a # tx.payer
  PROVE  Agree(AnteWrites(st, tx), st, a)
<1>1. Held(AnteWrites(st, tx), a) = Held(st, a)
  BY WritesType
<1>2. AnteWrites(st, tx).seq = [st.seq EXCEPT ![tx.payer] = @ + 1]
  BY WritesType
<1>3. st.seq \in [Accounts -> 0..MaxNonce]
  BY StateParts
<1>4. AnteWrites(st, tx).seq[a] = st.seq[a]
  BY <1>2, <1>3
<1> QED
  BY <1>1, <1>4 DEF Agree

-----------------------------------------------------------------------------
\* One transaction more in a run.
LEMMA RunTxResult ==
  ASSUME NEW run \in Runs, NEW tx \in Tx
  PROVE  /\ run.state \in NodeStates
         /\ RunTx(run, tx) \in Runs
         /\ AnteAccepts(run.state, tx) =>
              /\ RunTx(run, tx).state = AnteWrites(run.state, tx)
              /\ RunTx(run, tx).rejected = run.rejected
         /\ ~ AnteAccepts(run.state, tx) =>
              /\ RunTx(run, tx).state = run.state
              /\ RunTx(run, tx).rejected
                   = run.rejected \cup {[tx |-> tx, state |-> run.state]}
<1>1. run.state \in NodeStates
  BY DEF Runs
<1>2. CASE AnteAccepts(run.state, tx)
  <2>1. RunTx(run, tx) = [run EXCEPT !.state = AnteWrites(run.state, tx)]
    BY <1>2 DEF RunTx
  <2>2. AnteWrites(run.state, tx) \in NodeStates
    BY <1>1, <1>2, WritesType
  <2> QED
    BY <1>1, <1>2, <2>1, <2>2 DEF Runs
<1>3. CASE ~ AnteAccepts(run.state, tx)
  <2> DEFINE note == [tx |-> tx, state |-> run.state]
  <2>1. RunTx(run, tx) = [run EXCEPT !.rejected = run.rejected \cup {note}]
    BY <1>3 DEF RunTx
  <2>2. note \in [tx : Tx, state : NodeStates]
    BY <1>1
  <2> HIDE DEF note
  <2>3. run.rejected \cup {note} \in SUBSET [tx : Tx, state : NodeStates]
    BY <2>2 DEF Runs
  <2>4. /\ RunTx(run, tx) \in Runs
        /\ RunTx(run, tx).state = run.state
        /\ RunTx(run, tx).rejected = run.rejected \cup {note}
    BY <2>1, <2>3 DEF Runs
  <2> QED
    BY <1>1, <1>3, <2>4 DEF note
<1> QED
  BY <1>2, <1>3

\* What the pipeline leaves of the height and the bank of a run: everything.
LEMMA RunTxKeeps ==
  ASSUME NEW run \in Runs, NEW tx \in Tx
  PROVE  /\ RunTx(run, tx) \in Runs
         /\ RunTx(run, tx).state \in NodeStates
         /\ RunTx(run, tx).state.height = run.state.height
         /\ RunTx(run, tx).state.bank = run.state.bank
<1>1. /\ run.state \in NodeStates
      /\ RunTx(run, tx) \in Runs
  BY RunTxResult
<1>2. CASE AnteAccepts(run.state, tx)
  <2>1. RunTx(run, tx).state = AnteWrites(run.state, tx)
    BY <1>2, RunTxResult
  <2>2. AnteWrites(run.state, tx).height = run.state.height
        /\ AnteWrites(run.state, tx).bank = run.state.bank
    BY <1>1, <1>2, WritesType
  <2> QED
    BY <1>1, <2>1, <2>2 DEF Runs
<1>3. CASE ~ AnteAccepts(run.state, tx)
  BY <1>1, <1>3, RunTxResult DEF Runs
<1> QED
  BY <1>2, <1>3

\* The recursion of RunsTo is what it says.
LEMMA RunsToStep ==
  ASSUME NEW st \in NodeStates, NEW txs \in Seq(Tx)
  PROVE  /\ RunsTo(st, txs)[0] = [state |-> st, rejected |-> {}]
         /\ \A i \in 0..Len(txs) : RunsTo(st, txs)[i] \in Runs
         /\ \A i \in 1..Len(txs) : RunsTo(st, txs)[i] = RunTx(RunsTo(st, txs)[i-1], txs[i])
<1> DEFINE n     == Len(txs)
           base  == [state |-> st, rejected |-> {}]
           Eq(r) == r = [i \in 0..n |-> IF i = 0 THEN base ELSE RunTx(r[i-1], txs[i])]
           next  == [p \in (1..n) \X Runs |-> RunTx(p[2], txs[p[1]])]
<1>1. n \in Nat /\ \A i \in 1..n : txs[i] \in Tx
  BY ElementOfSeq, LenProperties
<1>2. base \in Runs
  BY DEF Runs
<1>3. next \in [(1..n) \X Runs -> Runs]
  BY <1>1, RunTxResult
<1> HIDE DEF n, base, next
<1>a. PICK f : IsRecursion(f, n, Runs, base, next)
  BY <1>1, <1>2, <1>3, RecursionExists
<1>4. /\ f \in [0..n -> Runs]
      /\ f[0] = base
      /\ \A i \in 1..n : f[i] = next[<<i, f[i-1]>>]
  BY <1>a DEF IsRecursion
<1>5. Eq(f)
  <2>1. \A i \in 0..n : f[i] = IF i = 0 THEN base ELSE RunTx(f[i-1], txs[i])
    <3> SUFFICES ASSUME NEW i \in 0..n
                 PROVE  f[i] = IF i = 0 THEN base ELSE RunTx(f[i-1], txs[i])
      OBVIOUS
    <3>1. i # 0 => i \in 1..n /\ i - 1 \in 0..n
      BY <1>1, SMT
    <3>2. i # 0 => next[<<i, f[i-1]>>] = RunTx(f[i-1], txs[i])
      BY <1>4, <3>1 DEF next
    <3> QED
      BY <1>4, <3>1, <3>2
  <2>2. f = [i \in 0..n |-> f[i]]
    BY <1>4
  <2> QED
    BY <2>1, <2>2
<1> DEFINE g == RunsTo(st, txs)
<1>6. Eq(g)
  <2>1. g = CHOOSE r : Eq(r)
    BY DEF RunsTo, n, base
  <2> HIDE DEF g, Eq
  <2> QED
    BY <1>5, <2>1
<1>7. \A i \in 0..n : g[i] = IF i = 0 THEN base ELSE RunTx(g[i-1], txs[i])
  <2> HIDE DEF g
  <2> QED
    BY <1>6
<1>8. /\ g[0] = base
      /\ \A i \in 1..n : g[i] = RunTx(g[i-1], txs[i])
  <2> HIDE DEF g
  <2>1. 0 \in 0..n /\ \A i \in 1..n : i \in 0..n /\ i # 0
    BY <1>1, SMT
  <2> QED
    BY <1>7, <2>1
<1>9. \A i \in 0..n : g[i] \in Runs
  <2> DEFINE P == { i \in 0..n : g[i] \in Runs }
  <2> HIDE DEF g
  <2>1. 0 \in P
    BY <1>1, <1>2, <1>8, SMT
  <2>2. ASSUME NEW i \in 1..n, i - 1 \in P
        PROVE  i \in P
    <3>1. i \in 0..n
      BY SMT
    <3>2. g[i] = RunTx(g[i-1], txs[i]) /\ g[i-1] \in Runs /\ txs[i] \in Tx
      BY <1>1, <1>8, <2>2
    <3> QED
      BY <3>1, <3>2, RunTxResult
  <2> HIDE DEF P
  <2>3. 0..n \subseteq P
    BY <1>1, <2>1, <2>2, InductionUpTo
  <2> QED
    BY <2>3 DEF P
<1> QED
  BY <1>8, <1>9 DEF n, base

\* A run through a list begins like a run through any list that begins like it.
LEMMA RunsToPrefix ==
  ASSUME NEW st \in NodeStates, NEW txs \in Seq(Tx), NEW more \in Seq(Tx),
         Len(txs) <= Len(more), \A i \in 1..Len(txs) : more[i] = txs[i]
  PROVE  \A i \in 0..Len(txs) : RunsTo(st, more)[i] = RunsTo(st, txs)[i]
<1> DEFINE n == Len(txs)
           f == RunsTo(st, txs)
           g == RunsTo(st, more)
           P == { i \in 0..n : g[i] = f[i] }
<1>1. n \in Nat /\ Len(more) \in Nat
  BY LenProperties
<1>2. /\ f[0] = [state |-> st, rejected |-> {}] /\ g[0] = f[0]
      /\ \A i \in 1..n : f[i] = RunTx(f[i-1], txs[i])
      /\ \A i \in 1..Len(more) : g[i] = RunTx(g[i-1], more[i])
  BY RunsToStep
<1> HIDE DEF f, g
<1>3. 0 \in P
  BY <1>1, <1>2, SMT
<1>4. ASSUME NEW i \in 1..n, i - 1 \in P
      PROVE  i \in P
  <2>1. i \in 0..n /\ i \in 1..Len(more)
    BY <1>1, SMT DEF n
  <2>2. g[i] = RunTx(g[i-1], more[i]) /\ f[i] = RunTx(f[i-1], txs[i])
    BY <1>2, <2>1
  <2>3. more[i] = txs[i] /\ g[i-1] = f[i-1]
    BY <1>4
  <2> QED
    BY <2>1, <2>2, <2>3
<1> HIDE DEF P, n
<1>5. 0..n \subseteq P
  BY <1>1, <1>3, <1>4, InductionUpTo
<1> QED
  BY <1>5 DEF P, n, f, g

\* A run through a longer list is a run through the list and one step.
LEMMA RunTxsAppend ==
  ASSUME NEW st \in NodeStates, NEW txs \in Seq(Tx), NEW tx \in Tx
  PROVE  /\ RunTxs(st, txs) \in Runs
         /\ RunTxs(st, Append(txs, tx)) = RunTx(RunTxs(st, txs), tx)
<1> DEFINE n    == Len(txs)
           more == Append(txs, tx)
<1>1. /\ n \in Nat /\ more \in Seq(Tx) /\ Len(more) = n + 1
      /\ \A i \in 1..n : more[i] = txs[i]
      /\ more[n+1] = tx
  BY AppendProperties, LenProperties, SMT
<1> HIDE DEF more
<1>2. RunsTo(st, more)[n] = RunsTo(st, txs)[n]
  <2>1. n <= Len(more) /\ n \in 0..n
    BY <1>1, SMT
  <2> QED
    BY <1>1, <2>1, RunsToPrefix
<1>3. RunsTo(st, more)[n+1] = RunTx(RunsTo(st, more)[n], tx)
  <2>1. n + 1 \in 1..Len(more) /\ (n + 1) - 1 = n
    BY <1>1, SMT
  <2> QED
    BY <1>1, <2>1, RunsToStep
<1>4. RunsTo(st, txs)[n] \in Runs
  <2>1. n \in 0..n
    BY <1>1, SMT
  <2> QED
    BY <2>1, RunsToStep
<1> QED
  BY <1>1, <1>2, <1>3, <1>4 DEF RunTxs, more

\* A run through nothing leaves everything as it was.
LEMMA RunTxsEmpty ==
  ASSUME NEW st \in NodeStates
  PROVE  RunTxs(st, <<>>) = [state |-> st, rejected |-> {}]
<1>1. <<>> \in Seq(Tx) /\ Len(<<>>) = 0
  BY EmptySeq
<1> QED
  BY <1>1, RunsToStep DEF RunTxs

\* A run through a list is a run.
LEMMA RunTxsType ==
  ASSUME NEW st \in NodeStates, NEW txs \in Seq(Tx)
  PROVE  RunTxs(st, txs) \in Runs
<1>1. Len(txs) \in 0..Len(txs)
  BY LenProperties, SMT
<1> QED
  BY <1>1, RunsToStep DEF RunTxs

\* The pipeline changes neither the height nor the bank.
LEMMA RunTxsHeight ==
  ASSUME NEW st \in NodeStates, NEW txs \in Seq(Tx)
  PROVE  \A i \in 0..Len(txs) : /\ RunsTo(st, txs)[i].state.height = st.height
                                /\ RunsTo(st, txs)[i].state.bank = st.bank
<1> DEFINE n == Len(txs)
           f == RunsTo(st, txs)
           P == { i \in 0..n : f[i].state.height = st.height /\ f[i].state.bank = st.bank }
<1>1. n \in Nat /\ \A i \in 1..n : txs[i] \in Tx
  BY ElementOfSeq, LenProperties
<1>2. /\ f[0] = [state |-> st, rejected |-> {}]
      /\ \A i \in 0..n : f[i] \in Runs
      /\ \A i \in 1..n : f[i] = RunTx(f[i-1], txs[i])
  BY RunsToStep
<1> HIDE DEF f
<1>3. 0 \in P
  <2>1. 0 \in 0..n
    BY <1>1, SMT
  <2> QED
    BY <1>2, <2>1
<1>4. ASSUME NEW i \in 1..n, i - 1 \in P
      PROVE  i \in P
  <2>1. i \in 0..n /\ i - 1 \in 0..n
    BY <1>1, SMT
  <2> DEFINE run == f[i-1]
             tx  == txs[i]
  <2>2. run \in Runs /\ tx \in Tx /\ f[i] = RunTx(run, tx)
        /\ run.state.height = st.height /\ run.state.bank = st.bank
    BY <1>1, <1>2, <1>4, <2>1
  <2> HIDE DEF run, tx
  <2>3. f[i].state.height = run.state.height /\ f[i].state.bank = run.state.bank
    BY <2>2, RunTxKeeps
  <2> QED
    BY <2>1, <2>2, <2>3
<1> HIDE DEF P
<1>5. 0..n \subseteq P
  BY <1>1, <1>3, <1>4, InductionUpTo
<1> QED
  BY <1>5 DEF P, n, f

\* A run without rejections is one in which each transaction is accepted.
LEMMA NoneRejected ==
  ASSUME NEW st \in NodeStates, NEW txs \in Seq(Tx), RunTxs(st, txs).rejected = {}
  PROVE  \A i \in 1..Len(txs) :
           /\ RunsTo(st, txs)[i-1].state \in NodeStates
           /\ AnteAccepts(RunsTo(st, txs)[i-1].state, txs[i])
           /\ RunsTo(st, txs)[i].state = AnteWrites(RunsTo(st, txs)[i-1].state, txs[i])
<1> DEFINE n == Len(txs)
           f == RunsTo(st, txs)
           P == { k \in 0..n : f[n-k].rejected = {} }
<1>1. n \in Nat /\ \A i \in 1..n : txs[i] \in Tx
  BY LenProperties, ElementOfSeq
<1>2. /\ \A i \in 0..n : f[i] \in Runs
      /\ \A i \in 1..n : f[i] = RunTx(f[i-1], txs[i])
  BY RunsToStep
<1>3. f[n].rejected = {}
  BY DEF RunTxs
<1> HIDE DEF f
<1>4. ASSUME NEW i \in 1..n, f[i].rejected = {}
      PROVE  /\ f[i-1].state \in NodeStates
             /\ AnteAccepts(f[i-1].state, txs[i])
             /\ f[i].state = AnteWrites(f[i-1].state, txs[i])
             /\ f[i-1].rejected = {}
  <2>1. i - 1 \in 0..n
    BY <1>1, SMT
  <2>2. f[i-1] \in Runs /\ txs[i] \in Tx /\ f[i] = RunTx(f[i-1], txs[i])
    BY <1>1, <1>2, <2>1
  <2> DEFINE run == f[i-1]
             tx  == txs[i]
  <2> HIDE DEF run, tx, P
  <2>3. run \in Runs /\ tx \in Tx /\ f[i] = RunTx(run, tx)
    BY <2>2 DEF run, tx
  <2>4. AnteAccepts(run.state, tx)
    <3> SUFFICES ASSUME ~ AnteAccepts(run.state, tx)
                 PROVE  FALSE
      OBVIOUS
    <3>1. f[i].rejected = run.rejected \cup {[tx |-> tx, state |-> run.state]}
      BY <2>3, RunTxResult
    <3> QED
      BY <1>4, <3>1
  <2>5. /\ run.state \in NodeStates
        /\ f[i].state = AnteWrites(run.state, tx)
        /\ f[i].rejected = run.rejected
    BY <2>3, <2>4, RunTxResult
  <2> QED
    BY <1>4, <2>4, <2>5 DEF run, tx
<1>5. 0 \in P
  BY <1>1, <1>3, SMT
<1>6. ASSUME NEW k \in 1..n, k - 1 \in P
      PROVE  k \in P
  <2> DEFINE i == n - (k - 1)
  <2>1. i \in 1..n /\ i - 1 = n - k /\ k \in 0..n
    BY <1>1, SMT
  <2>2. f[i].rejected = {}
    BY <1>6
  <2> HIDE DEF i
  <2> QED
    BY <1>4, <2>1, <2>2
<1> HIDE DEF P
<1>7. 0..n \subseteq P
  BY <1>1, <1>5, <1>6, InductionUpTo
<1>8. ASSUME NEW i \in 1..n
      PROVE  f[i].rejected = {}
  <2>1. n - i \in 0..n /\ n - (n - i) = i
    BY <1>1, SMT
  <2> QED
    BY <1>7, <2>1 DEF P
<1> QED
  BY <1>4, <1>8 DEF f

-----------------------------------------------------------------------------
\* The banks a transaction's messages leave.
LEMMA MsgOutcomesType ==
  ASSUME NEW b \in BankStates, NEW tx
  PROVE  MsgOutcomes(b, tx) \subseteq BankStates /\ b \in MsgOutcomes(b, tx)
  BY DEF MsgOutcomes

\* How the execution of a block goes on from a run.
Follows(q, r, tx) ==
  LET after == RunTx(q, tx)
  IN  \/ tx \in Rejected(after) /\ r = after
      \/ /\ tx \notin Rejected(after)
         /\ \E b \in MsgOutcomes(after.state.bank, tx) : r = [after EXCEPT !.state.bank = b]

(***************************************************************************)
(* One transaction of a block: rejected, which leaves the state alone, or  *)
(* accepted, after which its messages move coins of its payer's to others. *)
(***************************************************************************)
LEMMA FollowsResult ==
  ASSUME NEW q \in Runs, NEW tx \in Tx, NEW r, Follows(q, r, tx)
  PROVE  \/ /\ ~ AnteAccepts(q.state, tx)
            /\ r.state = q.state
            /\ r.rejected = q.rejected \cup {[tx |-> tx, state |-> q.state]}
         \/ /\ AnteAccepts(q.state, tx)
            /\ r.state \in NodeStates
            /\ r.rejected = q.rejected
            /\ r.state.height = q.state.height
            /\ \A a \in Accounts : Agree(r.state, AnteWrites(q.state, tx), a)
            /\ r.state.bank.supply <= q.state.bank.supply
            /\ \A a \in Accounts \ {tx.payer} :
                 r.state.bank.balance[a] >= q.state.bank.balance[a]
<1> DEFINE after == RunTx(q, tx)
           w     == AnteWrites(q.state, tx)
<1>1. q.state \in NodeStates
  BY DEF Runs
<1>2. CASE ~ AnteAccepts(q.state, tx)
  <2>1. after.state = q.state
        /\ after.rejected = q.rejected \cup {[tx |-> tx, state |-> q.state]}
    BY <1>2, RunTxResult
  <2>2. tx \in Rejected(after)
    BY <2>1 DEF Rejected
  <2> HIDE DEF after
  <2> QED
    BY <1>2, <2>1, <2>2 DEF Follows, after
<1>3. CASE AnteAccepts(q.state, tx)
  <2>1. after \in Runs /\ after.state = w /\ after.rejected = q.rejected
    BY <1>3, RunTxResult
  <2>2. w \in NodeStates /\ w.height = q.state.height /\ w.bank = q.state.bank
    BY <1>1, <1>3, WritesKeep
  <2>3. IsBank(q.state.bank)
    BY <1>1, StateParts
  <2>4. q.state.bank.balance \in [Accounts -> Nat] /\ q.state.bank.supply \in Nat
    BY <2>3 DEF IsBank
  <2>a. q.state.bank.supply <= q.state.bank.supply
    BY <2>4, SMT
  <2> HIDE DEF after, w
  <2>5. CASE r = after
    <3>1. \A a \in Accounts : q.state.bank.balance[a] >= q.state.bank.balance[a]
      <4> SUFFICES ASSUME NEW a \in Accounts
                   PROVE  q.state.bank.balance[a] >= q.state.bank.balance[a]
        OBVIOUS
      <4>1. q.state.bank.balance[a] \in Nat
        BY <2>4
      <4> QED
        BY <4>1, SMT
    <3> QED
      BY <1>3, <2>1, <2>2, <2>5, <2>a, <3>1 DEF Agree, w
  <2>6. ASSUME NEW b \in MsgOutcomes(after.state.bank, tx),
               r = [after EXCEPT !.state.bank = b]
        PROVE  /\ r.state \in NodeStates
               /\ r.rejected = q.rejected
               /\ r.state.height = q.state.height
               /\ \A a \in Accounts : Agree(r.state, w, a)
               /\ r.state.bank.supply <= q.state.bank.supply
               /\ \A a \in Accounts \ {tx.payer} :
                    r.state.bank.balance[a] >= q.state.bank.balance[a]
    <3>1. b \in MsgOutcomes(q.state.bank, tx)
      BY <2>1, <2>2, <2>6
    <3>2. b \in BankStates
      BY <1>1, <3>1, StateParts, MsgOutcomesType
    <3>3. /\ b.supply <= q.state.bank.supply
          /\ \A a \in Accounts \ {tx.payer} : b.balance[a] >= q.state.bank.balance[a]
      <4>1. CASE b = q.state.bank
        <5> SUFFICES ASSUME NEW a \in Accounts
                     PROVE  q.state.bank.balance[a] >= q.state.bank.balance[a]
          BY <2>a, <4>1
        <5>1. q.state.bank.balance[a] \in Nat
          BY <2>4
        <5> QED
          BY <5>1, SMT
      <4> QED
        BY <3>1, <4>1 DEF MsgOutcomes
    <3>4. r.state = [w EXCEPT !.bank = b] /\ r.rejected = q.rejected
      BY <2>1, <2>6 DEF Runs
    <3>5. /\ r.state \in NodeStates /\ r.state.height = w.height /\ r.state.bank = b
          /\ r.state.store = w.store /\ r.state.seq = w.seq
      BY <2>2, <3>2, <3>4 DEF NodeStates
    <3> QED
      BY <2>2, <3>3, <3>4, <3>5 DEF Agree, Held
  <2> QED
    BY <1>3, <2>5, <2>6 DEF Follows, after, w
<1> QED
  BY <1>2, <1>3

\* One transaction more in the execution of a block: rejected, or accepted and
\* its messages executed.
LEMMA ExecuteResult ==
  ASSUME NEW runs \in SUBSET Runs, NEW tx \in Tx
  PROVE  /\ Execute(runs, tx) \in SUBSET Runs
         /\ \A r \in Execute(runs, tx) : \E q \in runs : Follows(q, r, tx)
<1>1. ASSUME NEW r \in Execute(runs, tx)
      PROVE  \E q \in runs : Follows(q, r, tx)
  <2> DEFINE Ways(q) ==
               LET after == RunTx(q, tx)
               IN  IF tx \in Rejected(after)
                     THEN {after}
                     ELSE { [after EXCEPT !.state.bank = b] :
                              b \in MsgOutcomes(after.state.bank, tx) }
  <2>1. PICK q \in runs : r \in Ways(q)
    BY <1>1 DEF Execute
  <2> QED
    BY <2>1 DEF Follows
<1>2. ASSUME NEW r \in Execute(runs, tx)
      PROVE  r \in Runs
  <2>1. PICK q \in runs : Follows(q, r, tx)
    BY <1>1, <1>2
  <2> DEFINE after == RunTx(q, tx)
  <2>2. after \in Runs
    BY RunTxResult
  <2>3. after.state \in NodeStates /\ after.state.bank \in BankStates
    BY <2>2, StateParts DEF Runs
  <2> HIDE DEF after
  <2>4. CASE r = after
    BY <2>2, <2>4
  <2>5. ASSUME NEW b \in MsgOutcomes(after.state.bank, tx),
               r = [after EXCEPT !.state.bank = b]
        PROVE  r \in Runs
    <3>1. b \in BankStates
      BY <2>3, MsgOutcomesType
    <3> DEFINE s == [after.state EXCEPT !.bank = b]
    <3>2. s \in NodeStates
      BY <2>3, <3>1 DEF NodeStates
    <3>3. r = [after EXCEPT !.state = s]
      BY <2>2, <2>5 DEF Runs
    <3> HIDE DEF s
    <3> QED
      BY <2>2, <3>2, <3>3 DEF Runs
  <2> QED
    BY <2>1, <2>4, <2>5 DEF after, Follows
<1> QED
  BY <1>1, <1>2

\* The recursion of ExecutionsTo is what it says.
LEMMA ExecutionsToStep ==
  ASSUME NEW st \in NodeStates, NEW txs \in Seq(Tx)
  PROVE  /\ ExecutionsTo(st, txs)[0] = {[state |-> st, rejected |-> {}]}
         /\ \A i \in 0..Len(txs) : ExecutionsTo(st, txs)[i] \in SUBSET Runs
         /\ \A i \in 1..Len(txs) :
              ExecutionsTo(st, txs)[i] = Execute(ExecutionsTo(st, txs)[i-1], txs[i])
<1> DEFINE n     == Len(txs)
           V     == SUBSET Runs
           base  == {[state |-> st, rejected |-> {}]}
           Eq(r) == r = [i \in 0..n |-> IF i = 0 THEN base ELSE Execute(r[i-1], txs[i])]
           next  == [p \in (1..n) \X V |-> Execute(p[2], txs[p[1]])]
<1>1. n \in Nat /\ \A i \in 1..n : txs[i] \in Tx
  BY ElementOfSeq, LenProperties
<1>2. base \in V
  BY DEF Runs
<1>b. \A i \in 1..n : \A v \in V : Execute(v, txs[i]) \in V
  BY <1>1, ExecuteResult
<1>c. ExecutionsTo(st, txs) = CHOOSE r : Eq(r)
  BY DEF ExecutionsTo
<1> HIDE DEF n, base, V
<1>3. next \in [(1..n) \X V -> V]
  BY <1>b
<1> HIDE DEF next
<1>a. PICK f : IsRecursion(f, n, V, base, next)
  BY <1>1, <1>2, <1>3, RecursionExists
<1>4. /\ f \in [0..n -> V]
      /\ f[0] = base
      /\ \A i \in 1..n : f[i] = next[<<i, f[i-1]>>]
  BY <1>a DEF IsRecursion
<1>5. Eq(f)
  <2>1. \A i \in 0..n : f[i] = IF i = 0 THEN base ELSE Execute(f[i-1], txs[i])
    <3> SUFFICES ASSUME NEW i \in 0..n
                 PROVE  f[i] = IF i = 0 THEN base ELSE Execute(f[i-1], txs[i])
      OBVIOUS
    <3>1. i # 0 => i \in 1..n /\ i - 1 \in 0..n
      BY <1>1, SMT
    <3>2. i # 0 => next[<<i, f[i-1]>>] = Execute(f[i-1], txs[i])
      BY <1>4, <3>1 DEF next
    <3> QED
      BY <1>4, <3>1, <3>2
  <2>2. f = [i \in 0..n |-> f[i]]
    BY <1>4
  <2> QED
    BY <2>1, <2>2
<1> DEFINE g == ExecutionsTo(st, txs)
<1> HIDE DEF g
<1>6. Eq(g)
  <2> HIDE DEF Eq
  <2> QED
    BY <1>5, <1>c DEF g
<1>7. \A i \in 0..n : g[i] = IF i = 0 THEN base ELSE Execute(g[i-1], txs[i])
  BY <1>6
<1>8. /\ g[0] = base
      /\ \A i \in 1..n : g[i] = Execute(g[i-1], txs[i])
  <2>1. 0 \in 0..n /\ \A i \in 1..n : i \in 0..n /\ i # 0
    BY <1>1, SMT
  <2> QED
    BY <1>7, <2>1
<1>9. \A i \in 0..n : g[i] \in V
  <2> DEFINE P == { i \in 0..n : g[i] \in V }
  <2>1. 0 \in P
    <3>1. 0 \in 0..n
      BY <1>1, SMT
    <3> QED
      BY <1>2, <1>8, <3>1
  <2>2. ASSUME NEW i \in 1..n, i - 1 \in P
        PROVE  i \in P
    <3>1. i \in 0..n
      BY SMT
    <3> QED
      BY <1>b, <1>8, <2>2, <3>1
  <2> HIDE DEF P
  <2>3. 0..n \subseteq P
    BY <1>1, <2>1, <2>2, InductionUpTo
  <2> QED
    BY <2>3 DEF P
<1> QED
  BY <1>8, <1>9 DEF n, base, V, g

\* Executing a list gives runs.
LEMMA ExecuteAllType ==
  ASSUME NEW st \in NodeStates, NEW txs \in Seq(Tx)
  PROVE  ExecuteAll(st, txs) \subseteq Runs
<1>1. Len(txs) \in 0..Len(txs)
  BY LenProperties, SMT
<1> QED
  BY <1>1, ExecutionsToStep DEF ExecuteAll

\* Nor does the execution of a block change the height.
LEMMA ExecuteHeight ==
  ASSUME NEW st \in NodeStates, NEW txs \in Seq(Tx), NEW run \in ExecuteAll(st, txs)
  PROVE  run.state.height = st.height
<1> DEFINE n == Len(txs)
           f == ExecutionsTo(st, txs)
           P == { i \in 0..n : \A r \in f[i] : r.state.height = st.height }
<1>1. n \in Nat /\ \A i \in 1..n : txs[i] \in Tx
  BY ElementOfSeq, LenProperties
<1>2. /\ f[0] = {[state |-> st, rejected |-> {}]}
      /\ \A i \in 0..n : f[i] \in SUBSET Runs
      /\ \A i \in 1..n : f[i] = Execute(f[i-1], txs[i])
  BY ExecutionsToStep
<1>a. run \in f[n]
  BY DEF ExecuteAll
<1> HIDE DEF f
<1>3. 0 \in P
  <2>1. 0 \in 0..n
    BY <1>1, SMT
  <2> QED
    BY <1>2, <2>1
<1>4. ASSUME NEW i \in 1..n, i - 1 \in P
      PROVE  i \in P
  <2>1. i \in 0..n /\ i - 1 \in 0..n
    BY <1>1, SMT
  <2> DEFINE runs == f[i-1]
             tx   == txs[i]
  <2>2. runs \in SUBSET Runs /\ tx \in Tx /\ f[i] = Execute(runs, tx)
        /\ \A q \in runs : q.state.height = st.height
    BY <1>1, <1>2, <1>4, <2>1
  <2> HIDE DEF runs, tx
  <2>3. ASSUME NEW r \in Execute(runs, tx)
        PROVE  r.state.height = st.height
    <3>1. PICK q \in runs : Follows(q, r, tx)
      BY <2>2, <2>3, ExecuteResult
    <3> DEFINE after == RunTx(q, tx)
    <3>2. after \in Runs /\ after.state.height = q.state.height
      BY <2>2, RunTxKeeps
    <3>3. after.state \in NodeStates
      BY <3>2 DEF Runs
    <3> HIDE DEF after
    <3>4. ASSUME NEW b, r = [after EXCEPT !.state.bank = b]
          PROVE  r.state.height = after.state.height
      BY <3>2, <3>3, <3>4 DEF Runs, NodeStates
    <3> QED
      BY <2>2, <3>1, <3>2, <3>4 DEF after, Follows
  <2> QED
    BY <2>1, <2>2, <2>3
<1> HIDE DEF P
<1>5. 0..n \subseteq P
  BY <1>1, <1>3, <1>4, InductionUpTo
<1>6. n \in 0..n
  BY <1>1, SMT
<1> QED
  BY <1>5, <1>6, <1>a DEF P

-----------------------------------------------------------------------------
\* The recursion of LeftTo is what it says.
LEMMA LeftToStep ==
  ASSUME NEW txs \in Seq(Tx), NEW gone
  PROVE  /\ LeftTo(txs, gone)[0] = <<>>
         /\ \A i \in 0..Len(txs) : LeftTo(txs, gone)[i] \in Seq(Tx)
         /\ \A i \in 1..Len(txs) :
              LeftTo(txs, gone)[i] = IF txs[i] \in gone
                                       THEN LeftTo(txs, gone)[i-1]
                                       ELSE Append(LeftTo(txs, gone)[i-1], txs[i])
<1> DEFINE n     == Len(txs)
           Go(left, i) == IF txs[i] \in gone THEN left ELSE Append(left, txs[i])
           Eq(r) == r = [i \in 0..n |-> IF i = 0 THEN <<>> ELSE Go(r[i-1], i)]
           next  == [p \in (1..n) \X Seq(Tx) |-> Go(p[2], p[1])]
<1>1. n \in Nat /\ \A i \in 1..n : txs[i] \in Tx
  BY ElementOfSeq, LenProperties
<1>2. <<>> \in Seq(Tx)
  BY EmptySeq
<1>b. ASSUME NEW i \in 1..n, NEW left \in Seq(Tx)
      PROVE  Go(left, i) \in Seq(Tx)
  BY <1>1, AppendProperties
<1>3. next \in [(1..n) \X Seq(Tx) -> Seq(Tx)]
  BY <1>b
<1>c. LeftTo(txs, gone) = CHOOSE r : Eq(r)
  BY DEF LeftTo
<1> HIDE DEF n, next, Go
<1>a. PICK f : IsRecursion(f, n, Seq(Tx), <<>>, next)
  BY <1>1, <1>2, <1>3, RecursionExists
<1>4. /\ f \in [0..n -> Seq(Tx)]
      /\ f[0] = <<>>
      /\ \A i \in 1..n : f[i] = next[<<i, f[i-1]>>]
  BY <1>a DEF IsRecursion
<1>5. Eq(f)
  <2>1. \A i \in 0..n : f[i] = IF i = 0 THEN <<>> ELSE Go(f[i-1], i)
    <3> SUFFICES ASSUME NEW i \in 0..n
                 PROVE  f[i] = IF i = 0 THEN <<>> ELSE Go(f[i-1], i)
      OBVIOUS
    <3>1. i # 0 => i \in 1..n /\ i - 1 \in 0..n
      BY <1>1, SMT
    <3>2. i # 0 => next[<<i, f[i-1]>>] = Go(f[i-1], i)
      BY <1>4, <3>1 DEF next
    <3> QED
      BY <1>4, <3>1, <3>2
  <2>2. f = [i \in 0..n |-> f[i]]
    BY <1>4
  <2> QED
    BY <2>1, <2>2
<1> DEFINE g == LeftTo(txs, gone)
<1> HIDE DEF g
<1>6. Eq(g)
  <2> HIDE DEF Eq
  <2> QED
    BY <1>5, <1>c DEF g
<1>7. \A i \in 0..n : g[i] = IF i = 0 THEN <<>> ELSE Go(g[i-1], i)
  BY <1>6
<1>8. /\ g[0] = <<>>
      /\ \A i \in 1..n : g[i] = Go(g[i-1], i)
  <2>1. 0 \in 0..n /\ \A i \in 1..n : i \in 0..n /\ i # 0
    BY <1>1, SMT
  <2> QED
    BY <1>7, <2>1
<1>9. \A i \in 0..n : g[i] \in Seq(Tx)
  <2> DEFINE P == { i \in 0..n : g[i] \in Seq(Tx) }
  <2>1. 0 \in P
    <3>1. 0 \in 0..n
      BY <1>1, SMT
    <3> QED
      BY <1>2, <1>8, <3>1
  <2>2. ASSUME NEW i \in 1..n, i - 1 \in P
        PROVE  i \in P
    <3>1. i \in 0..n
      BY SMT
    <3> QED
      BY <1>b, <1>8, <2>2, <3>1
  <2> HIDE DEF P
  <2>3. 0..n \subseteq P
    BY <1>1, <2>1, <2>2, InductionUpTo
  <2> QED
    BY <2>3 DEF P
<1> QED
  BY <1>8, <1>9 DEF n, g, Go

\* What is left is what was there and is not gone, and no longer a list.
LEMMA TakeOutResult ==
  ASSUME NEW txs \in Seq(Tx), NEW gone
  PROVE  /\ TakeOut(txs, gone) \in Seq(Tx)
         /\ Len(TakeOut(txs, gone)) <= Len(txs)
         /\ Range(TakeOut(txs, gone)) = Range(txs) \ gone
<1> DEFINE n == Len(txs)
           g == LeftTo(txs, gone)
           Kept(i) == { txs[j] : j \in 1..i } \ gone
           P == { i \in 0..n : Len(g[i]) <= i /\ Range(g[i]) = Kept(i) }
<1>1. n \in Nat /\ \A i \in 1..n : txs[i] \in Tx
  BY ElementOfSeq, LenProperties
<1>2. /\ g[0] = <<>>
      /\ \A i \in 0..n : g[i] \in Seq(Tx)
      /\ \A i \in 1..n : g[i] = IF txs[i] \in gone THEN g[i-1] ELSE Append(g[i-1], txs[i])
  BY LeftToStep
<1> HIDE DEF g
<1>3. 0 \in P
  <2>1. Len(g[0]) = 0 /\ Range(g[0]) = {}
    BY <1>2, EmptySeq DEF Range
  <2>2. Kept(0) = {}
    BY SMT
  <2>3. 0 \in 0..n /\ 0 <= 0
    BY <1>1, SMT
  <2>4. Len(g[0]) <= 0
    BY <2>1, <2>3
  <2>5. Range(g[0]) = Kept(0)
    BY <2>1, <2>2
  <2> HIDE DEF Kept
  <2> QED
    BY <2>3, <2>4, <2>5, Zenon
<1>4. ASSUME NEW i \in 1..n, i - 1 \in P
      PROVE  i \in P
  <2>1. i \in 0..n /\ i - 1 \in 0..n /\ i \in Nat
    BY <1>1, SMT
  <2>2. g[i-1] \in Seq(Tx) /\ Len(g[i-1]) <= i - 1 /\ Range(g[i-1]) = Kept(i-1) /\ txs[i] \in Tx
    BY <1>1, <1>2, <1>4, <2>1
  <2>3. Kept(i) = Kept(i-1) \cup ({txs[i]} \ gone)
    <3>1. 1..i = (1..(i-1)) \cup {i}
      BY <2>1, SMT
    <3> QED
      BY <3>1
  <2> DEFINE s == g[i-1]
             tx == txs[i]
  <2> HIDE DEF Kept, s, tx, P
  <2>4. CASE tx \in gone
    <3>1. g[i] = s /\ Kept(i) = Kept(i-1)
      BY <1>2, <2>3, <2>4 DEF s, tx
    <3>2. Len(s) \in Nat /\ Len(s) <= i
      BY <2>1, <2>2, LenProperties, SMT DEF s
    <3> QED
      BY <2>1, <2>2, <3>1, <3>2 DEF P, s
  <2>5. CASE tx \notin gone
    <3>1. g[i] = Append(s, tx) /\ Kept(i) = Kept(i-1) \cup {tx}
      BY <1>2, <2>3, <2>5 DEF s, tx
    <3>2. s \in Seq(Tx) /\ tx \in Tx
      BY <2>2 DEF s, tx
    <3>3. /\ Append(s, tx) \in Seq(Tx) /\ Len(s) \in Nat
          /\ Len(Append(s, tx)) = Len(s) + 1
          /\ \A j \in 1..Len(s) : Append(s, tx)[j] = s[j]
          /\ Append(s, tx)[Len(s)+1] = tx
      BY <3>2, AppendProperties, LenProperties
    <3>4. Range(Append(s, tx)) = Range(s) \cup {tx}
      <4>1. DOMAIN s = 1..Len(s) /\ DOMAIN Append(s, tx) = 1..(Len(s)+1)
        BY <3>2, <3>3, LenProperties
      <4>2. 1..(Len(s)+1) = (1..Len(s)) \cup {Len(s)+1}
        BY <3>3, SMT
      <4> DEFINE t == Append(s, tx)
      <4> HIDE DEF t
      <4> QED
        BY <3>3, <4>1, <4>2 DEF Range, t
    <3>5. Len(Append(s, tx)) <= i
      <4>1. Len(s) <= i - 1
        BY <2>2 DEF s
      <4> QED
        BY <2>1, <3>3, <4>1, SMT
    <3> QED
      BY <2>1, <2>2, <3>1, <3>4, <3>5 DEF P, s
  <2> QED
    BY <2>4, <2>5
<1> HIDE DEF P
<1>5. 0..n \subseteq P
  BY <1>1, <1>3, <1>4, InductionUpTo
<1>6. n \in P /\ n \in 0..n
  BY <1>1, <1>5, SMT
<1>7. Kept(n) = Range(txs) \ gone
  BY LenProperties DEF Range
<1> QED
  BY <1>2, <1>6, <1>7 DEF P, g, TakeOut

\* Appending to a list adds one element to what it holds.
LEMMA AppendedRange ==
  ASSUME NEW txs \in Seq(Tx), NEW tx \in Tx
  PROVE  Range(Append(txs, tx)) = Range(txs) \cup {tx}
<1> DEFINE t == Append(txs, tx)
<1>1. /\ t \in Seq(Tx) /\ Len(txs) \in Nat /\ Len(t) = Len(txs) + 1
      /\ \A j \in 1..Len(txs) : t[j] = txs[j]
      /\ t[Len(txs)+1] = tx
  BY AppendProperties, LenProperties
<1> HIDE DEF t
<1>2. DOMAIN txs = 1..Len(txs) /\ DOMAIN t = 1..(Len(txs)+1)
  BY <1>1, LenProperties
<1>3. 1..(Len(txs)+1) = (1..Len(txs)) \cup {Len(txs)+1}
  BY <1>1, SMT
<1>4. Range(t) = Range(txs) \cup {tx}
  BY <1>1, <1>2, <1>3 DEF Range
<1> QED
  BY <1>4 DEF t

\* No two elements are the same.
Distinct(txs) == \A i, j \in DOMAIN txs : i # j => txs[i] # txs[j]

\* The first transactions of a list.
Heads(txs, i) == { txs[j] : j \in 1..i }

\* One head more.
LEMMA HeadsStep ==
  ASSUME NEW txs, NEW i \in Nat \ {0}
  PROVE  Heads(txs, 0) = {} /\ Heads(txs, i) = Heads(txs, i-1) \cup {txs[i]}
<1>1. 1..i = (1..(i-1)) \cup {i} /\ 1..0 = {}
  BY SMT
<1> QED
  BY <1>1 DEF Heads

\* A list holds finitely many elements.
LEMMA FiniteRange ==
  ASSUME NEW txs \in Seq(Tx)
  PROVE  IsFiniteSet(Range(txs)) /\ Range(txs) = Heads(txs, Len(txs))
<1> DEFINE n == Len(txs)
           P == { i \in 0..n : IsFiniteSet(Heads(txs, i)) }
<1>1. n \in Nat
  BY LenProperties
<1> HIDE DEF n
<1>2. 0 \in P
  <2>1. 0 \in 0..n /\ 1 \in Nat \ {0}
    BY <1>1, SMT
  <2> QED
    BY <2>1, HeadsStep, FS_EmptySet
<1>3. ASSUME NEW i \in 1..n, i - 1 \in P
      PROVE  i \in P
  <2>1. i \in 0..n /\ i \in Nat \ {0}
    BY <1>1, SMT
  <2>2. IsFiniteSet(Heads(txs, i-1)) /\ Heads(txs, i) = Heads(txs, i-1) \cup {txs[i]}
    BY <1>3, <2>1, HeadsStep
  <2> QED
    BY <2>1, <2>2, FS_AddElement
<1> HIDE DEF P
<1>4. 0..n \subseteq P
  BY <1>1, <1>2, <1>3, InductionUpTo
<1>5. n \in P
  BY <1>1, <1>4, SMT
<1>6. Range(txs) = Heads(txs, n)
  BY LenProperties DEF Range, Heads, n
<1> QED
  BY <1>5, <1>6 DEF P, n

\* Appending a new element leaves all different.
LEMMA AppendDistinct ==
  ASSUME NEW txs \in Seq(Tx), NEW tx \in Tx, Distinct(txs), tx \notin Range(txs)
  PROVE  Distinct(Append(txs, tx))
<1> DEFINE t == Append(txs, tx)
           n == Len(txs)
<1>1. /\ t \in Seq(Tx) /\ n \in Nat /\ Len(t) = n + 1
      /\ \A j \in 1..n : t[j] = txs[j]
      /\ t[n+1] = tx
  BY AppendProperties, LenProperties
<1>2. DOMAIN txs = 1..n
  BY LenProperties
<1> HIDE DEF t, n
<1>3. DOMAIN t = 1..(n+1)
  BY <1>1, LenProperties
<1>4. \A j \in 1..(n+1) : j \in 1..n \/ j = n + 1
  BY <1>1, SMT
<1>5. \A j \in 1..n : txs[j] # tx /\ j # n + 1
  <2>1. \A j \in 1..n : j # n + 1
    BY <1>1, SMT
  <2> QED
    BY <1>2, <2>1 DEF Range
<1>6. ASSUME NEW i \in DOMAIN t, NEW j \in DOMAIN t, i # j
      PROVE  t[i] # t[j]
  BY <1>1, <1>2, <1>3, <1>4, <1>5, <1>6 DEF Distinct
<1> QED
  BY <1>6 DEF Distinct, t

\* What is left of a list of different transactions, step by step.
LEMMA LeftToResult ==
  ASSUME NEW txs \in Seq(Tx), NEW gone, Distinct(txs)
  PROVE  \A i \in 0..Len(txs) :
           /\ LeftTo(txs, gone)[i] \in Seq(Tx)
           /\ Distinct(LeftTo(txs, gone)[i])
           /\ Range(LeftTo(txs, gone)[i]) = Heads(txs, i) \ gone
<1> DEFINE n == Len(txs)
           g == LeftTo(txs, gone)
           P == { i \in 0..n : Distinct(g[i]) /\ Range(g[i]) = Heads(txs, i) \ gone }
<1>1. n \in Nat /\ DOMAIN txs = 1..n /\ \A i \in 1..n : txs[i] \in Tx
  BY ElementOfSeq, LenProperties
<1>2. /\ g[0] = <<>>
      /\ \A i \in 0..n : g[i] \in Seq(Tx)
      /\ \A i \in 1..n : g[i] = IF txs[i] \in gone THEN g[i-1] ELSE Append(g[i-1], txs[i])
  BY LeftToStep
<1> HIDE DEF g, n
<1>3. 0 \in P
  <2>1. 0 \in 0..n /\ 1 \in Nat \ {0}
    BY <1>1, SMT
  <2>2. Heads(txs, 0) = {}
    BY <2>1, HeadsStep
  <2>3. DOMAIN g[0] = {}
    <3>1. g[0] \in Seq(Tx) /\ Len(g[0]) = 0
      BY <1>2, EmptySeq
    <3>2. DOMAIN g[0] = 1..0
      BY <3>1, LenProperties
    <3> QED
      BY <3>2, SMT
  <2>4. Distinct(g[0]) /\ Range(g[0]) = {}
    BY <2>3 DEF Distinct, Range
  <2> QED
    BY <2>1, <2>2, <2>4
<1>4. ASSUME NEW i \in 1..n, i - 1 \in P
      PROVE  i \in P
  <2>1. i \in 0..n /\ i - 1 \in 0..n /\ i \in Nat \ {0}
    BY <1>1, SMT
  <2> DEFINE s  == g[i-1]
             tx == txs[i]
  <2>2. /\ s \in Seq(Tx) /\ Distinct(s) /\ Range(s) = Heads(txs, i-1) \ gone
        /\ tx \in Tx
        /\ g[i] = IF tx \in gone THEN s ELSE Append(s, tx)
    BY <1>1, <1>2, <1>4, <2>1
  <2>3. Heads(txs, i) = Heads(txs, i-1) \cup {tx}
    BY <2>1, HeadsStep
  <2>4. tx \notin Heads(txs, i-1)
    <3>1. \A j \in 1..(i-1) : j \in 1..n /\ j # i
      BY <1>1, SMT
    <3> QED
      BY <1>1, <3>1 DEF Heads, Distinct
  <2> HIDE DEF s, tx
  <2>5. CASE tx \in gone
    BY <2>1, <2>2, <2>3, <2>5
  <2>6. CASE tx \notin gone
    <3>1. Range(Append(s, tx)) = Range(s) \cup {tx}
      BY <2>2, AppendedRange
    <3>2. Distinct(Append(s, tx))
      BY <2>2, <2>4, AppendDistinct
    <3> QED
      BY <2>1, <2>2, <2>3, <2>6, <3>1, <3>2
  <2> QED
    BY <2>5, <2>6
<1> HIDE DEF P
<1>5. 0..n \subseteq P
  BY <1>1, <1>3, <1>4, InductionUpTo
<1> QED
  BY <1>2, <1>5 DEF P, g, n

\* In a run through different transactions, the rejected ones are those that
\* were not accepted when their turn came.
LEMMA RejectedExactly ==
  ASSUME NEW st \in NodeStates, NEW txs \in Seq(Tx), Distinct(txs)
  PROVE  /\ \A i \in 1..Len(txs) :
              txs[i] \in Rejected(RunTxs(st, txs))
                <=> ~ AnteAccepts(RunsTo(st, txs)[i-1].state, txs[i])
         /\ Rejected(RunTxs(st, txs)) \subseteq Range(txs)
<1> DEFINE n == Len(txs)
           f == RunsTo(st, txs)
           No(i) == { j \in 1..i : ~ AnteAccepts(f[j-1].state, txs[j]) }
           P == { i \in 0..n : Rejected(f[i]) = { txs[j] : j \in No(i) } }
<1>1. n \in Nat /\ DOMAIN txs = 1..n /\ \A i \in 1..n : txs[i] \in Tx
  BY ElementOfSeq, LenProperties
<1>2. /\ f[0] = [state |-> st, rejected |-> {}]
      /\ \A i \in 0..n : f[i] \in Runs
      /\ \A i \in 1..n : f[i] = RunTx(f[i-1], txs[i])
  BY RunsToStep
<1>a. RunTxs(st, txs) = f[n]
  BY DEF RunTxs
<1> HIDE DEF f, n
<1>3. 0 \in P
  <2>1. 0 \in 0..n /\ 1..0 = {}
    BY <1>1, SMT
  <2>2. No(0) = {}
    BY <2>1
  <2>3. Rejected(f[0]) = {}
    BY <1>2 DEF Rejected
  <2> HIDE DEF No
  <2> QED
    BY <2>1, <2>2, <2>3
<1>4. ASSUME NEW i \in 1..n, i - 1 \in P
      PROVE  i \in P
  <2>1. i \in 0..n /\ i - 1 \in 0..n /\ 1..i = (1..(i-1)) \cup {i}
    BY <1>1, SMT
  <2>2. f[i-1] \in Runs /\ txs[i] \in Tx /\ f[i] = RunTx(f[i-1], txs[i])
        /\ Rejected(f[i-1]) = { txs[j] : j \in No(i-1) }
    BY <1>1, <1>2, <1>4, <2>1
  <2> DEFINE q  == f[i-1]
             tx == txs[i]
  <2>3. No(i) = No(i-1) \cup (IF AnteAccepts(q.state, tx) THEN {} ELSE {i})
    BY <2>1
  <2>4. Rejected(f[i]) = Rejected(q) \cup (IF AnteAccepts(q.state, tx) THEN {} ELSE {tx})
    <3>a. q \in Runs /\ tx \in Tx /\ f[i] = RunTx(q, tx)
      BY <2>2
    <3> HIDE DEF q, tx
    <3>1. CASE AnteAccepts(q.state, tx)
      <4>1. f[i].rejected = q.rejected
        BY <3>a, <3>1, RunTxResult
      <4> QED
        BY <3>1, <4>1 DEF Rejected
    <3>2. CASE ~ AnteAccepts(q.state, tx)
      <4> DEFINE note == [tx |-> tx, state |-> q.state]
      <4>1. f[i].rejected = q.rejected \cup {note}
        BY <3>a, <3>2, RunTxResult
      <4>2. note.tx = tx
        OBVIOUS
      <4> HIDE DEF note
      <4>3. Rejected(f[i]) = Rejected(q) \cup {tx}
        BY <4>1, <4>2 DEF Rejected
      <4> QED
        BY <3>2, <4>3
    <3> QED
      BY <3>1, <3>2
  <2>5. Rejected(f[i]) = { txs[j] : j \in No(i) }
    <3>1. CASE AnteAccepts(q.state, tx)
      <4>1. No(i) = No(i-1) /\ Rejected(f[i]) = Rejected(q)
        BY <2>3, <2>4, <3>1
      <4> HIDE DEF No
      <4> QED
        BY <2>2, <4>1
    <3>2. CASE ~ AnteAccepts(q.state, tx)
      <4>1. No(i) = No(i-1) \cup {i} /\ Rejected(f[i]) = Rejected(q) \cup {tx}
        BY <2>3, <2>4, <3>2
      <4> HIDE DEF No
      <4> QED
        BY <2>2, <4>1
    <3> QED
      BY <3>1, <3>2
  <2> HIDE DEF No
  <2> QED
    BY <2>1, <2>5
<1> HIDE DEF P
<1>5. 0..n \subseteq P
  BY <1>1, <1>3, <1>4, InductionUpTo
<1>6. n \in P
  BY <1>1, <1>5, SMT
<1>7. Rejected(f[n]) = { txs[j] : j \in No(n) }
  BY <1>6 DEF P
<1>8. ASSUME NEW i \in 1..n
      PROVE  txs[i] \in Rejected(f[n]) <=> ~ AnteAccepts(f[i-1].state, txs[i])
  <2>1. \A j \in 1..n : txs[j] = txs[i] => j = i
    BY <1>1 DEF Distinct
  <2> QED
    BY <1>7, <2>1
<1>9. Rejected(f[n]) \subseteq Range(txs)
  BY <1>1, <1>7 DEF Range
<1> QED
  BY <1>a, <1>8, <1>9 DEF f, n

-----------------------------------------------------------------------------
\* What the transactions of a set cost, and those of one account.
Costs(S) == SumFunction([tx \in S |-> Cost(tx)])

From(S, a) == { tx \in S : tx.payer = a }

\* Nothing costs nothing.
LEMMA CostsNone == Costs({}) = 0
<1> DEFINE f == [tx \in {} |-> Cost(tx)]
<1>1. DOMAIN f = {}
  OBVIOUS
<1>2. Costs({}) = SumFunctionOnSet(f, DOMAIN f)
  BY DEF Costs, SumFunction
<1> HIDE DEF f
<1> QED
  BY <1>1, <1>2, SumEmpty

\* One transaction more of an account costs its cost more.
LEMMA CostsOneMore ==
  ASSUME NEW S \in SUBSET Tx, IsFiniteSet(S), NEW tx \in Tx, tx \notin S
  PROVE  Costs(S) \in Nat /\ Costs(S \cup {tx}) = Costs(S) + Cost(tx)
<1> DEFINE T == S \cup {tx}
           f == [x \in S |-> Cost(x)]
           g == [x \in T |-> Cost(x)]
<1>1. \A x \in T : Cost(x) \in Nat
  BY TxParts
<1>2. Costs(S) = SumFunctionOnSet(f, S) /\ Costs(T) = SumFunctionOnSet(g, T)
  BY DEF Costs, SumFunction
<1>3. /\ \A x \in S : f[x] \in Nat /\ g[x] = f[x]
      /\ \A x \in S \cup {tx} : g[x] \in Nat
      /\ g[tx] = Cost(tx)
  BY <1>1
<1> HIDE DEF f, g
<1>4. SumFunctionOnSet(f, S) = SumFunctionOnSet(g, S)
  BY <1>3, SumEqual
<1>5. SumFunctionOnSet(g, S \cup {tx}) = SumFunctionOnSet(g, S) + g[tx]
  BY <1>3, SumAdd
<1>6. SumFunctionOnSet(f, S) \in Nat
  BY <1>3, SumType
<1> QED
  BY <1>2, <1>3, <1>4, <1>5, <1>6

\* A meter is a number, whether it can be read or not.
LEMMA MeterType ==
  ASSUME NEW st \in NodeStates, NEW a \in Accounts
  PROVE  Meter(st, a) \in Int
<1> DEFINE acct == Held(st, a)
           rate == ExactRate(st.bank.balance[a], st.bank.supply)
           k    == st.height - acct.lastUpdateHeight
           m    == acct.mana
           sum  == AddManaSaturating(m, PerBlock(rate), k, MaxMana(rate))
<1>1. acct \in AccountMana /\ st.height \in Nat
  BY StateParts, LoadType DEF Held
<1>2. m \in Nat /\ acct.lastUpdateHeight \in Nat
  BY <1>1, MathAssumption, SMT DEF AccountMana, Uint64, MathAssumption
<1>3. Meter(st, a) = RegenerateMana(acct, st.bank.balance[a], st.bank.supply, st.height).mana
  BY DEF Meter, GetAccountMana, Held
<1>4. rate \in Nat
  BY BankParts, RateBounded
<1> HIDE DEF acct, rate
<1>5. CASE st.height <= acct.lastUpdateHeight
  <2>1. Meter(st, a) = m
    BY <1>3, <1>5 DEF RegenerateMana
  <2> QED
    BY <1>2, <2>1, SMT
<1>6. CASE ~ (st.height <= acct.lastUpdateHeight)
  <2>1. k \in Nat
    BY <1>1, <1>2, <1>6, SMT
  <2>2. RegenerateMana(acct, st.bank.balance[a], st.bank.supply, st.height)
          = [acct EXCEPT !.mana = sum, !.lastUpdateHeight = st.height]
    BY <1>6 DEF RegenerateMana, rate
  <2> HIDE DEF k
  <2> DEFINE pb == PerBlock(rate)
             mm == MaxMana(rate)
  <2>3. pb \in Nat /\ mm \in Nat
    BY <1>4, PerBlockMonotone, MaxManaMonotone, SMT
  <2>4. sum = AddManaSaturating(m, pb, k, mm)
    OBVIOUS
  <2> HIDE DEF pb, mm, m
  <2>5. \A n \in Nat : Wrap(n) \in Nat
    BY MathAssumption, SMT DEF Wrap, MathAssumption
  <2>6. sum \in Int
    <3> DEFINE gained == IF pb # 0 /\ k > MaxUint64 \div pb THEN MaxUint64 ELSE Wrap(pb * k)
    <3>1. pb * k \in Nat
      BY <2>1, <2>3, SMT
    <3>2. gained \in Nat
      BY <2>5, <3>1, MathAssumption DEF MathAssumption
    <3>3. sum = IF m >= mm THEN mm
                  ELSE IF gained > mm - m THEN mm ELSE Wrap(m + gained)
      BY <2>4 DEF AddManaSaturating
    <3> HIDE DEF gained, sum
    <3>4. m + gained \in Nat
      BY <1>2, <3>2, SMT
    <3>5. Wrap(m + gained) \in Nat
      BY <2>5, <3>4
    <3> QED
      BY <2>3, <3>3, <3>5, SMT
  <2> HIDE DEF sum
  <2>7. Meter(st, a) = sum
    BY <1>1, <1>3, <2>2 DEF AccountMana
  <2> QED
    BY <2>6, <2>7
<1> QED
  BY <1>5, <1>6

\* The pipeline takes the cost off its payer's meter, and counts it.
LEMMA MeterAfter ==
  ASSUME NEW st \in NodeStates, st.height # 0, NEW tx \in Tx, AnteAccepts(st, tx)
  PROVE  LET p == tx.payer
             w == AnteWrites(st, tx)
         IN  /\ Meter(w, p) = Meter(st, p) - Cost(tx)
             /\ TxCount(Held(w, p), st.height) = TxCount(Held(st, p), st.height) + 1
             /\ w.seq[p] = st.seq[p] + 1
             /\ \A a \in Accounts : a # p =>
                  /\ Meter(w, a) = Meter(st, a)
                  /\ Held(w, a) = Held(st, a)
                  /\ w.seq[a] = st.seq[a]
<1> DEFINE p == tx.payer
           w == AnteWrites(st, tx)
           new == Held(w, p)
<1>1. /\ w \in NodeStates /\ w.height = st.height /\ w.bank = st.bank
      /\ p \in Accounts /\ st.height \in Nat
  BY WritesKeep, TxParts, StateParts
<1>2. /\ new \in AccountMana
      /\ new.mana = Read(st, p).mana - Cost(tx)
      /\ new.lastUpdateHeight >= st.height
      /\ new.txCountThisBlock = TxCount(Held(st, p), st.height) + 1
      /\ new.lastTxBlock = st.height
      /\ w.seq[p] = st.seq[p] + 1
  BY PayerAfter
<1>3. \A a \in Accounts : a # p => Agree(w, st, a)
  BY OtherAccount
<1> HIDE DEF w
<1>4. Meter(w, p) = new.mana
  <2>1. st.height <= new.lastUpdateHeight
    <3>1. new.lastUpdateHeight \in Nat
      BY <1>2 DEF AccountMana
    <3> HIDE DEF new
    <3> QED
      BY <1>1, <1>2, <3>1, SMT
  <2>2. Meter(w, p) = RegenerateMana(new, w.bank.balance[p], w.bank.supply, st.height).mana
    BY <1>1 DEF Meter, GetAccountMana, Held
  <2> QED
    BY <2>1, <2>2 DEF RegenerateMana
<1>5. Meter(st, p) = Read(st, p).mana
  BY DEF Meter, Read
<1>6. ASSUME NEW a \in Accounts, a # p
      PROVE  /\ Meter(w, a) = Meter(st, a)
             /\ Held(w, a) = Held(st, a)
             /\ w.seq[a] = st.seq[a]
  <2>1. Held(w, a) = Held(st, a) /\ w.seq[a] = st.seq[a]
    BY <1>3, <1>6 DEF Agree
  <2> QED
    BY <1>1, <2>1 DEF Meter, GetAccountMana, Held
<1>7. TxCount(new, st.height) = TxCount(Held(st, p), st.height) + 1
  BY <1>2 DEF TxCount
<1> QED
  BY <1>2, <1>4, <1>5, <1>6, <1>7 DEF w

(***************************************************************************)
(* A state has drifted from another by exactly the transactions of a set:  *)
(* sequences, meters and counts differ by them and by nothing else.        *)
(***************************************************************************)
Drift(st, now, S) ==
  /\ now.height = st.height
  /\ now.bank = st.bank
  /\ \A a \in Accounts :
       /\ now.seq[a] = st.seq[a] + Cardinality(From(S, a))
       /\ Meter(now, a) + Costs(From(S, a)) = Meter(st, a)
       /\ TxCount(Held(now, a), st.height)
            = TxCount(Held(st, a), st.height) + Cardinality(From(S, a))

(***************************************************************************)
(* The transactions of a set lead from one state to the other: each nonce  *)
(* used in between belongs to one of them, and to one only.                *)
(***************************************************************************)
Lined(st, now, S) ==
  /\ \A a \in Accounts : st.seq[a] <= now.seq[a]
  /\ \A tx \in S : /\ tx.size <= MaxTxBytes
                   /\ st.seq[tx.payer] <= tx.nonce
                   /\ tx.nonce < now.seq[tx.payer]
  /\ \A a \in Accounts, n \in Nat :
       st.seq[a] <= n /\ n < now.seq[a] => \E tx \in S : Key(tx) = <<a, n>>
  /\ \A tx, other \in S : Key(tx) = Key(other) => tx = other

\* An account that has sent something is within the limit.
Limited(st, now) ==
  \A a \in Accounts : \/ now.seq[a] = st.seq[a]
                      \/ TxCount(Held(now, a), now.height) <= MaxTxPerBlock

\* Nothing sent, no drift.
LEMMA NoDrift ==
  ASSUME NEW st \in NodeStates
  PROVE  Drift(st, st, {})
<1> SUFFICES ASSUME NEW a \in Accounts
             PROVE  /\ st.seq[a] = st.seq[a] + Cardinality(From({}, a))
                    /\ Meter(st, a) + Costs(From({}, a)) = Meter(st, a)
                    /\ TxCount(Held(st, a), st.height)
                         = TxCount(Held(st, a), st.height) + Cardinality(From({}, a))
  BY DEF Drift
<1>1. From({}, a) = {}
  BY DEF From
<1>2. Cardinality({}) = 0 /\ Costs({}) = 0
  BY FS_EmptySet, CostsNone
<1>3. st.seq[a] \in Nat /\ Meter(st, a) \in Int
  BY StateParts, MeterType
<1>4. TxCount(Held(st, a), st.height) \in Nat
  BY StateParts, LoadType, CountedParts DEF Held
<1> QED
  BY <1>1, <1>2, <1>3, <1>4, SMT

\* A transaction accepted adds itself to the drift.
LEMMA DriftGrows ==
  ASSUME NEW st \in NodeStates, NEW now \in NodeStates, now.height # 0,
         NEW S \in SUBSET Tx, IsFiniteSet(S), NEW tx \in Tx, tx \notin S,
         Drift(st, now, S), AnteAccepts(now, tx)
  PROVE  Drift(st, AnteWrites(now, tx), S \cup {tx})
<1> DEFINE w == AnteWrites(now, tx)
           p == tx.payer
           T == S \cup {tx}
<1>1. w \in NodeStates /\ w.height = st.height /\ w.bank = st.bank /\ now.height = st.height
  BY WritesKeep DEF Drift
<1>2. /\ Meter(w, p) = Meter(now, p) - Cost(tx)
      /\ TxCount(Held(w, p), st.height) = TxCount(Held(now, p), st.height) + 1
      /\ w.seq[p] = now.seq[p] + 1
      /\ \A a \in Accounts : a # p =>
           /\ Meter(w, a) = Meter(now, a)
           /\ Held(w, a) = Held(now, a)
           /\ w.seq[a] = now.seq[a]
  BY <1>1, MeterAfter
<1> HIDE DEF w
<1>3. ASSUME NEW a \in Accounts, a # p
      PROVE  From(T, a) = From(S, a)
  BY <1>3 DEF From
<1>4. From(T, p) = From(S, p) \cup {tx} /\ From(S, p) \in SUBSET Tx /\ tx \notin From(S, p)
  BY DEF From
<1>5. IsFiniteSet(From(S, p))
  <2>1. From(S, p) \in SUBSET S
    BY DEF From
  <2> QED
    BY <2>1, FS_Subset
<1>6. /\ Cardinality(From(T, p)) = Cardinality(From(S, p)) + 1
      /\ Cardinality(From(S, p)) \in Nat
  BY <1>4, <1>5, FS_AddElement, FS_CardinalityType
<1>7. Costs(From(T, p)) = Costs(From(S, p)) + Cost(tx) /\ Costs(From(S, p)) \in Nat
  BY <1>4, <1>5, CostsOneMore
<1>8. p \in Accounts /\ Cost(tx) \in Nat
  BY TxParts
<1>9. /\ now.seq[p] = st.seq[p] + Cardinality(From(S, p))
      /\ Meter(now, p) + Costs(From(S, p)) = Meter(st, p)
      /\ TxCount(Held(now, p), st.height)
           = TxCount(Held(st, p), st.height) + Cardinality(From(S, p))
  BY <1>8 DEF Drift
<1>10. /\ st.seq[p] \in Nat /\ Meter(now, p) \in Int
       /\ TxCount(Held(st, p), st.height) \in Nat
  <2>1. Held(st, p) \in AccountMana /\ st.height \in Nat
    BY <1>8, StateParts, LoadType DEF Held
  <2> QED
    BY <1>8, <2>1, StateParts, MeterType, CountedParts
<1>11. w.seq[p] = st.seq[p] + Cardinality(From(T, p))
  BY <1>2, <1>6, <1>9, <1>10, SMT
<1>12. Meter(w, p) + Costs(From(T, p)) = Meter(st, p)
  BY <1>2, <1>7, <1>8, <1>9, <1>10, SMT
<1>13. TxCount(Held(w, p), st.height)
         = TxCount(Held(st, p), st.height) + Cardinality(From(T, p))
  BY <1>2, <1>6, <1>9, <1>10, SMT
<1>14. ASSUME NEW a \in Accounts, a # p
       PROVE  /\ w.seq[a] = st.seq[a] + Cardinality(From(T, a))
              /\ Meter(w, a) + Costs(From(T, a)) = Meter(st, a)
              /\ TxCount(Held(w, a), st.height)
                   = TxCount(Held(st, a), st.height) + Cardinality(From(T, a))
  BY <1>2, <1>3, <1>14 DEF Drift
<1> HIDE DEF T
<1>15. Drift(st, w, T)
  BY <1>1, <1>11, <1>12, <1>13, <1>14 DEF Drift
<1> QED
  BY <1>15 DEF w, T

\* States with the same sequences are lined up by nothing.
LEMMA LinedEmpty ==
  ASSUME NEW st \in NodeStates, NEW now, now.seq = st.seq
  PROVE  Lined(st, now, {}) /\ Limited(st, now)
<1>1. \A a \in Accounts : st.seq[a] \in Nat
  BY StateParts
<1>2. \A a \in Accounts : st.seq[a] <= st.seq[a]
  BY <1>1, SMT
<1>3. \A a \in Accounts, n \in Nat : ~ (st.seq[a] <= n /\ n < st.seq[a])
  BY <1>1, SMT
<1> QED
  BY <1>2, <1>3 DEF Lined, Limited

\* A transaction accepted is a new one, and the next of its payer's.
LEMMA LinedGrows ==
  ASSUME NEW st \in NodeStates, NEW now \in NodeStates, NEW S \in SUBSET Tx, NEW tx \in Tx,
         Lined(st, now, S), AnteAccepts(now, tx)
  PROVE  tx \notin S /\ Lined(st, AnteWrites(now, tx), S \cup {tx})
<1> DEFINE p == tx.payer
           T == S \cup {tx}
<1>1. /\ tx.nonce = now.seq[p] /\ p \in Accounts /\ tx.nonce \in Nat
      /\ tx.size <= MaxTxBytes
  BY TxParts DEF AnteAccepts
<1>2. \A a \in Accounts : st.seq[a] \in Nat /\ now.seq[a] \in Nat /\ st.seq[a] <= now.seq[a]
  BY StateParts DEF Lined
<1>3. \A x \in S : x.payer \in Accounts /\ x.nonce \in Nat
  BY TxParts
<1>4. \A x \in S : /\ x.size <= MaxTxBytes
                   /\ st.seq[x.payer] <= x.nonce /\ x.nonce < now.seq[x.payer]
  BY DEF Lined
<1>5. ASSUME NEW x \in S, x.payer = p
      PROVE  x.nonce # tx.nonce
  <2>1. x.nonce < now.seq[p] /\ x.nonce \in Nat /\ now.seq[p] \in Nat
    BY <1>1, <1>2, <1>3, <1>4, <1>5
  <2> QED
    BY <1>1, <2>1, SMT
<1> DEFINE sq == AnteWrites(now, tx).seq
<1>6. \A a \in Accounts : sq[a] = IF a = p THEN now.seq[a] + 1 ELSE now.seq[a]
  <2>1. sq = [now.seq EXCEPT ![p] = @ + 1]
    BY WritesType
  <2>2. now.seq \in [Accounts -> 0..MaxNonce]
    BY StateParts
  <2> QED
    BY <1>1, <2>1, <2>2
<1> HIDE DEF sq
<1>7. \A a \in Accounts : now.seq[a] <= sq[a] /\ sq[a] \in Nat
  BY <1>2, <1>6, SMT
<1>8. \A a \in Accounts : st.seq[a] <= sq[a]
  BY <1>2, <1>7, SMT
<1>9. ASSUME NEW x \in T
      PROVE  /\ x.size <= MaxTxBytes
             /\ st.seq[x.payer] <= x.nonce /\ x.nonce < sq[x.payer]
  <2>1. CASE x = tx
    <3>1. st.seq[p] <= tx.nonce /\ tx.nonce < sq[p]
      BY <1>1, <1>2, <1>6, SMT
    <3> QED
      BY <1>1, <2>1, <3>1
  <2>2. CASE x \in S
    <3>1. x.payer \in Accounts /\ x.nonce \in Nat /\ x.nonce < now.seq[x.payer]
      BY <1>3, <1>4, <2>2
    <3>2. x.nonce < sq[x.payer]
      BY <1>2, <1>7, <3>1, SMT
    <3> QED
      BY <1>4, <2>2, <3>2
  <2> QED
    BY <2>1, <2>2
<1>10. ASSUME NEW a \in Accounts, NEW n \in Nat, st.seq[a] <= n, n < sq[a]
       PROVE  \E x \in T : Key(x) = <<a, n>>
  <2>1. CASE n < now.seq[a]
    <3>1. \E x \in S : Key(x) = <<a, n>>
      BY <1>10, <2>1 DEF Lined
    <3> QED
      BY <3>1
  <2>2. CASE ~ (n < now.seq[a])
    <3>1. a = p /\ n = now.seq[a]
      BY <1>2, <1>6, <1>10, <2>2, SMT
    <3> QED
      BY <1>1, <3>1 DEF Key
  <2> QED
    BY <2>1, <2>2
<1>11. ASSUME NEW x \in T, NEW y \in T, Key(x) = Key(y)
       PROVE  x = y
  <2>1. x.payer = y.payer /\ x.nonce = y.nonce
    BY <1>11 DEF Key
  <2>2. CASE x \in S /\ y \in S
    BY <1>11, <2>2 DEF Lined
  <2>3. CASE x = tx \/ y = tx
    BY <1>5, <2>1, <2>3
  <2> QED
    BY <2>2, <2>3
<1>12. tx \notin S
  BY <1>5
<1> HIDE DEF T
<1>13. Lined(st, AnteWrites(now, tx), T)
  BY <1>8, <1>9, <1>10, <1>11 DEF Lined, sq
<1> QED
  BY <1>12, <1>13 DEF T

\* Nor does it exceed the limit.
LEMMA LimitedGrows ==
  ASSUME NEW st, NEW now \in NodeStates, now.height # 0, NEW tx \in Tx,
         Limited(st, now), AnteAccepts(now, tx)
  PROVE  Limited(st, AnteWrites(now, tx))
<1> DEFINE w == AnteWrites(now, tx)
<1>1. w.height = now.height
  BY WritesKeep
<1>2. /\ TxCount(Held(w, tx.payer), now.height) = TxCount(Held(now, tx.payer), now.height) + 1
      /\ \A a \in Accounts : a # tx.payer => Held(w, a) = Held(now, a) /\ w.seq[a] = now.seq[a]
  BY MeterAfter
<1> HIDE DEF w
<1>3. TxCount(Held(w, tx.payer), now.height) <= MaxTxPerBlock
  <2>1. TxCount(Held(now, tx.payer), now.height) < MaxTxPerBlock
    BY AcceptsRecord
  <2>2. TxCount(Held(now, tx.payer), now.height) \in Nat /\ MaxTxPerBlock \in Nat
    <3>1. Held(now, tx.payer) \in AccountMana /\ now.height \in Nat
      BY TxParts, StateParts, LoadType DEF Held
    <3>2. MaxTxPerBlock \in Nat
      BY KeeperAssumption, SMT DEF KeeperAssumption
    <3> QED
      BY <3>1, <3>2, CountedParts
  <2> QED
    BY <1>2, <2>1, <2>2, SMT
<1>4. Limited(st, w)
  BY <1>1, <1>2, <1>3 DEF Limited
<1> QED
  BY <1>4 DEF w

(***************************************************************************)
(* Checking different transactions again: those that are kept account for  *)
(* the state that comes out of it.                                         *)
(***************************************************************************)
LEMMA RecheckResult ==
  ASSUME NEW st \in NodeStates, NEW txs \in Seq(Tx), Distinct(txs)
  PROVE  LET run  == RunTxs(st, txs)
             kept == TakeOut(txs, Rejected(run))
         IN  /\ run.state \in NodeStates
             /\ run.state.height = st.height
             /\ kept \in Seq(Tx) /\ Distinct(kept)
             /\ Rejected(run) \subseteq Range(txs)
             /\ Lined(st, run.state, Range(kept))
             /\ st.height # 0 => Drift(st, run.state, Range(kept)) /\ Limited(st, run.state)
<1> DEFINE n    == Len(txs)
           f    == RunsTo(st, txs)
           gone == Rejected(RunTxs(st, txs))
           g    == LeftTo(txs, gone)
           Fine(i) == /\ Lined(st, f[i].state, Range(g[i]))
                      /\ st.height # 0 => /\ Drift(st, f[i].state, Range(g[i]))
                                          /\ Limited(st, f[i].state)
           P == { i \in 0..n : Fine(i) }
<1>1. n \in Nat /\ \A i \in 1..n : txs[i] \in Tx
  BY ElementOfSeq, LenProperties
<1>2. /\ f[0] = [state |-> st, rejected |-> {}]
      /\ \A i \in 0..n : f[i] \in Runs
      /\ \A i \in 1..n : f[i] = RunTx(f[i-1], txs[i])
  BY RunsToStep
<1>3. /\ g[0] = <<>>
      /\ \A i \in 1..n : g[i] = IF txs[i] \in gone THEN g[i-1] ELSE Append(g[i-1], txs[i])
  BY LeftToStep
<1>4. \A i \in 0..n : /\ g[i] \in Seq(Tx) /\ Distinct(g[i])
  BY LeftToResult
<1>5. /\ \A i \in 1..n : txs[i] \in gone <=> ~ AnteAccepts(f[i-1].state, txs[i])
      /\ gone \subseteq Range(txs)
  BY RejectedExactly
<1>6. RunTxs(st, txs) = f[n] /\ TakeOut(txs, gone) = g[n]
  BY DEF RunTxs, TakeOut
<1>7. \A i \in 0..n : f[i].state.height = st.height
  BY RunTxsHeight
<1> HIDE DEF n, f, g, gone
<1>8. 0 \in P
  <2>1. 0 \in 0..n
    BY <1>1, SMT
  <2>2. Range(g[0]) = {}
    <3>1. g[0] \in Seq(Tx) /\ Len(g[0]) = 0
      BY <1>3, EmptySeq
    <3>2. DOMAIN g[0] = 1..0
      BY <3>1, LenProperties
    <3>3. 1..0 = {}
      BY SMT
    <3> QED
      BY <3>2, <3>3 DEF Range
  <2>3. f[0].state = st
    BY <1>2
  <2>4. Lined(st, st, {}) /\ Limited(st, st) /\ Drift(st, st, {})
    BY NoDrift, LinedEmpty
  <2>5. Fine(0)
    BY <2>2, <2>3, <2>4
  <2> QED
    BY <2>1, <2>5
<1>9. ASSUME NEW i \in 1..n, i - 1 \in P
      PROVE  i \in P
  <2>1. i \in 0..n /\ i - 1 \in 0..n
    BY <1>1, SMT
  <2> DEFINE q  == f[i-1]
             s  == g[i-1]
             tx == txs[i]
             S  == Range(s)
  <2>2. /\ q \in Runs /\ s \in Seq(Tx) /\ tx \in Tx
        /\ f[i] = RunTx(q, tx) /\ q.state.height = st.height
        /\ Lined(st, q.state, S)
        /\ st.height # 0 => Drift(st, q.state, S) /\ Limited(st, q.state)
        /\ g[i] = IF AnteAccepts(q.state, tx) THEN Append(s, tx) ELSE s
    BY <1>1, <1>2, <1>3, <1>4, <1>5, <1>7, <1>9, <2>1
  <2>3. q.state \in NodeStates
    BY <2>2 DEF Runs
  <2>4. IsFiniteSet(S) /\ S \in SUBSET Tx
    <3>1. IsFiniteSet(S)
      BY <2>2, FiniteRange
    <3>2. S \in SUBSET Tx
      BY <2>2, LenProperties, ElementOfSeq DEF Range
    <3> QED
      BY <3>1, <3>2
  <2> HIDE DEF q, tx, s
  <2>5. CASE ~ AnteAccepts(q.state, tx)
    <3>1. f[i].state = q.state
      BY <2>2, <2>5, RunTxResult
    <3>2. g[i] = s
      BY <2>2, <2>5
    <3>3. Fine(i)
      BY <2>2, <3>1, <3>2
    <3> QED
      BY <2>1, <3>3
  <2>6. CASE AnteAccepts(q.state, tx)
    <3>1. f[i].state = AnteWrites(q.state, tx)
      BY <2>2, <2>6, RunTxResult
    <3>2. g[i] = Append(s, tx) /\ Range(g[i]) = S \cup {tx}
      BY <2>2, <2>6, AppendedRange
    <3>3. tx \notin S /\ Lined(st, f[i].state, S \cup {tx})
      <4> DEFINE now  == q.state
                 sent == S
      <4>1. now \in NodeStates /\ sent \in SUBSET Tx /\ Lined(st, now, sent) /\ AnteAccepts(now, tx)
        BY <2>2, <2>3, <2>4, <2>6
      <4>2. tx \in Tx
        BY <2>2
      <4> HIDE DEF now, sent
      <4>3. tx \notin sent /\ Lined(st, AnteWrites(now, tx), sent \cup {tx})
        BY <4>1, <4>2, LinedGrows
      <4> QED
        BY <3>1, <4>3 DEF now, sent
    <3>4. ASSUME st.height # 0
          PROVE  Drift(st, f[i].state, S \cup {tx}) /\ Limited(st, f[i].state)
      BY <2>2, <2>3, <2>4, <2>6, <3>1, <3>3, <3>4, DriftGrows, LimitedGrows
    <3>6. Fine(i)
      BY <3>2, <3>3, <3>4
    <3> QED
      BY <2>1, <3>6
  <2> QED
    BY <2>5, <2>6
<1> HIDE DEF P
<1>10. 0..n \subseteq P
  BY <1>1, <1>8, <1>9, InductionUpTo
<1>11. n \in P /\ n \in 0..n
  BY <1>1, <1>10, SMT
<1>12. Fine(n) /\ f[n] \in Runs
  BY <1>2, <1>11 DEF P
<1>13. f[n].state \in NodeStates
  BY <1>12 DEF Runs
<1>14. Rejected(f[n]) = gone
  BY <1>6 DEF gone
<1> QED
  BY <1>4, <1>5, <1>6, <1>7, <1>11, <1>12, <1>13, <1>14

-----------------------------------------------------------------------------
(***************************************************************************)
(* A block as its validators saw it, p, and as it is executed, e, to one   *)
(* account: it has had the same from both and has no less left in the      *)
(* second, unless minting up to `supply` has diluted it; or it is behind   *)
(* since a transaction of its that was rejected.                           *)
(***************************************************************************)
Untouched(p, e, a) ==
  /\ Held(e, a) = Held(p, a)
  /\ p.bank.balance[a] <= e.bank.balance[a]

Touched(p, e, a, supply) ==
  /\ Held(p, a).lastUpdateHeight >= p.height
  /\ Held(e, a).lastUpdateHeight >= p.height
  /\ Held(p, a).mana <= Held(e, a).mana \/ Diluted(a, supply)

Even(p, e, a, supply) ==
  /\ e.seq[a] = p.seq[a]
  /\ Held(e, a).txCountThisBlock = Held(p, a).txCountThisBlock
  /\ Held(e, a).lastTxBlock = Held(p, a).lastTxBlock
  /\ Untouched(p, e, a) \/ Touched(p, e, a, supply)

Behind(p, run, a) ==
  /\ run.state.seq[a] < p.seq[a]
  /\ \E q \in run.rejected : q.tx.payer = a /\ q.tx.nonce < p.seq[a]

\* The reasons for a rejection that DecidedIsExecuted knows.
Poor(r, supply) ==
  /\ Diluted(r.tx.payer, supply)
  /\ Meter(r.state, r.tx.payer) < Cost(r.tx)

Rateless(r) ==
  LET bank == r.state.bank
  IN  /\ ~ RateFits(bank.balance[r.tx.payer], bank.supply)
      /\ \/ bank.balance[r.tx.payer] > committed.bank.balance[r.tx.payer]
         \/ bank.supply < committed.bank.supply

Explained(r, failed, supply) ==
  \/ Poor(r, supply)
  \/ Rateless(r)
  \/ \E q \in failed : q.tx.payer = r.tx.payer /\ q.tx.nonce < r.tx.nonce

Abreast(p, run, supply) ==
  /\ p.bank = committed.bank
  /\ run.state.height = p.height
  /\ run.state.bank.supply <= supply
  /\ \A a \in Accounts : Even(p, run.state, a, supply) \/ Behind(p, run, a)
  /\ \A r \in run.rejected : Explained(r, run.rejected, supply)

\* An account that is even reads no less, if it is not diluted.
LEMMA EvenReads ==
  ASSUME NEW p \in NodeStates, NEW e \in NodeStates, NEW a \in Accounts, NEW supply \in Nat,
         p.bank = committed.bank, e.height = p.height, e.bank.supply <= supply,
         Even(p, e, a, supply), ~ Diluted(a, supply),
         CanGetAccountMana(p.store, p.bank, p.height, a),
         CanGetAccountMana(e.store, e.bank, e.height, a)
  PROVE  Read(p, a).mana <= Read(e, a).mana
<1>1. /\ p.height \in Nat
      /\ Held(p, a) \in AccountMana /\ Held(e, a) \in AccountMana
  BY StateParts, LoadType DEF Held
<1>2. /\ Read(p, a) = RegenerateMana(Held(p, a), p.bank.balance[a], p.bank.supply, p.height)
      /\ Read(e, a) = RegenerateMana(Held(e, a), e.bank.balance[a], e.bank.supply, p.height)
  BY DEF Read, Held, GetAccountMana
<1>3. /\ CanRegenerate(Held(p, a), p.bank.balance[a], p.bank.supply, p.height)
      /\ CanRegenerate(Held(e, a), e.bank.balance[a], e.bank.supply, p.height)
  BY DEF Held, CanGetAccountMana
<1>4. /\ p.bank.balance[a] \in Nat /\ p.bank.supply \in Nat
      /\ p.bank.balance[a] <= p.bank.supply
      /\ e.bank.balance[a] \in Nat /\ e.bank.supply \in Nat
      /\ e.bank.balance[a] <= e.bank.supply
  BY BankParts
<1>5. CASE Untouched(p, e, a)
  <2> DEFINE acct == Held(p, a)
             b == p.bank.balance[a]
             s == p.bank.supply
             c == e.bank.balance[a]
             t == e.bank.supply
             h == p.height
             before == ExactRate(b, s)
             now    == ExactRate(b, supply)
             here   == ExactRate(c, t)
  <2>1. /\ acct \in AccountMana /\ h \in Nat
        /\ b \in Nat /\ s \in Nat /\ c \in Nat /\ t \in Nat
        /\ b <= s /\ b <= c /\ c <= t /\ t <= supply
        /\ CanRegenerate(acct, b, s, h) /\ CanRegenerate(acct, c, t, h)
    BY <1>1, <1>3, <1>4, <1>5 DEF Untouched
  <2>2. Read(p, a) = RegenerateMana(acct, b, s, h) /\ Read(e, a) = RegenerateMana(acct, c, t, h)
    BY <1>2, <1>5 DEF Untouched
  <2>3. ~ (MaxMana(now) < MaxMana(before) \/ PerBlock(now) < PerBlock(before))
    BY DEF Diluted
  <2> HIDE DEF acct, b, s, c, t, h
  <2>4. b <= supply
    BY <2>1, SMT
  <2>5. before \in Nat /\ now \in Nat /\ here \in Nat /\ now <= here
    BY <2>1, <2>4, RateBounded, RateMonotone
  <2> HIDE DEF before, now, here
  <2>6. /\ MaxMana(now) \in Nat /\ MaxMana(here) \in Nat /\ MaxMana(now) <= MaxMana(here)
        /\ PerBlock(now) \in Nat /\ PerBlock(here) \in Nat /\ PerBlock(now) <= PerBlock(here)
    BY <2>5, MaxManaMonotone, PerBlockMonotone
  <2>7. MaxMana(before) \in Nat /\ PerBlock(before) \in Nat
    <3>1. before <= before
      BY <2>5, SMT
    <3> QED
      BY <2>5, <3>1, MaxManaMonotone, PerBlockMonotone
  <2>8. MaxMana(before) <= MaxMana(here) /\ PerBlock(before) <= PerBlock(here)
    BY <2>3, <2>6, <2>7, SMT
  <2>9. RegenerateMana(acct, b, s, h).mana <= RegenerateMana(acct, c, t, h).mana
    BY <2>1, <2>8, ReadMonotone DEF before, here
  <2> QED
    BY <2>2, <2>9
<1>6. CASE Touched(p, e, a, supply)
  <2>1. p.height <= Held(p, a).lastUpdateHeight /\ p.height <= Held(e, a).lastUpdateHeight
    <3>1. Held(p, a).lastUpdateHeight \in Nat /\ Held(e, a).lastUpdateHeight \in Nat
      BY <1>1 DEF AccountMana
    <3> QED
      BY <1>1, <1>6, <3>1, SMT DEF Touched
  <2>2. Read(p, a) = Held(p, a) /\ Read(e, a) = Held(e, a)
    BY <1>2, <2>1 DEF RegenerateMana
  <2> QED
    BY <1>6, <2>2 DEF Touched
<1> QED
  BY <1>5, <1>6 DEF Even

\* Coins that reach an account, or a burn, can take its rate out of the word.
LEMMA RateLost ==
  ASSUME NEW p \in NodeStates, NEW e \in NodeStates, NEW a \in Accounts, NEW supply,
         e.height = p.height, Even(p, e, a, supply),
         CanGetAccountMana(p.store, p.bank, p.height, a),
         ~ CanGetAccountMana(e.store, e.bank, e.height, a)
  PROVE  /\ ~ RateFits(e.bank.balance[a], e.bank.supply)
         /\ \/ e.bank.balance[a] > p.bank.balance[a]
            \/ e.bank.supply < p.bank.supply
<1> DEFINE b == p.bank.balance[a]
           s == p.bank.supply
           c == e.bank.balance[a]
           t == e.bank.supply
<1>1. /\ p.height \in Nat /\ Held(e, a) \in AccountMana
      /\ b \in Nat /\ s \in Nat /\ b <= s /\ c \in Nat /\ t \in Nat /\ c <= t
  BY StateParts, LoadType, BankParts DEF Held
<1>2. p.height > Held(e, a).lastUpdateHeight /\ ~ RateFits(c, t)
  BY DEF CanGetAccountMana, CanRegenerate, Held
<1>3. ~ (Held(e, a).lastUpdateHeight >= p.height)
  <2>1. Held(e, a).lastUpdateHeight \in Nat
    BY <1>1 DEF AccountMana
  <2> QED
    BY <1>1, <1>2, <2>1, SMT
<1>4. Held(e, a) = Held(p, a)
  BY <1>3 DEF Even, Touched, Untouched
<1>5. RateFits(b, s)
  BY <1>2, <1>4 DEF CanGetAccountMana, CanRegenerate, Held
<1> HIDE DEF b, s, c, t
<1>6. ASSUME ~ (c > b), ~ (t < s)
      PROVE  FALSE
  <2>1. c <= b /\ s <= t
    BY <1>1, <1>6, SMT
  <2> DEFINE u == ExactRate(c, t)
             v == ExactRate(b, s)
  <2>2. u <= v
    BY <1>1, <2>1, RateMonotone
  <2>3. u \in Nat /\ v \in Nat
    BY <1>1, RateBounded
  <2>4. ~ (u <= MaxUint64) /\ v <= MaxUint64
    BY <1>2, <1>5 DEF RateFits
  <2> HIDE DEF u, v
  <2> QED
    BY <2>2, <2>3, <2>4, MathAssumption, SMT DEF MathAssumption
<1> QED
  BY <1>2, <1>6 DEF b, s, c, t

\* An even account is charged alike, or there is a reason.
LEMMA EvenAccepts ==
  ASSUME NEW p \in NodeStates, NEW e \in NodeStates, NEW tx \in Tx, NEW supply \in Nat,
         p.bank = committed.bank, e.height = p.height, p.height # 0, e.bank.supply <= supply,
         Even(p, e, tx.payer, supply), AnteAccepts(p, tx)
  PROVE  /\ ~ AnteAccepts(e, tx) =>
              LET r == [tx |-> tx, state |-> e] IN Poor(r, supply) \/ Rateless(r)
         /\ AnteAccepts(e, tx) =>
              LET new == Held(AnteWrites(e, tx), tx.payer)
                  old == Held(AnteWrites(p, tx), tx.payer)
              IN  /\ AnteWrites(e, tx).seq[tx.payer] = AnteWrites(p, tx).seq[tx.payer]
                  /\ new.txCountThisBlock = old.txCountThisBlock
                  /\ new.lastTxBlock = old.lastTxBlock
                  /\ old.lastUpdateHeight >= p.height
                  /\ new.lastUpdateHeight >= p.height
                  /\ old.mana <= new.mana \/ Diluted(tx.payer, supply)
<1> DEFINE a == tx.payer
<1>1. a \in Accounts /\ Cost(tx) \in Nat
  BY TxParts
<1>2. /\ tx.size <= MaxTxBytes
      /\ ~ Expired(p, tx)
      /\ CanGetAccountMana(p.store, p.bank, p.height, a)
      /\ Read(p, a).mana >= Cost(tx)
      /\ TxCount(Held(p, a), p.height) < MaxTxPerBlock
      /\ tx.nonce = p.seq[a]
  BY AcceptsRecord
<1>3. e.seq[a] = p.seq[a] /\ TxCount(Held(e, a), e.height) = TxCount(Held(p, a), p.height)
  BY DEF Even, TxCount
<1>4. ~ Expired(e, tx)
  BY <1>2 DEF Expired
<1>5. ASSUME CanGetAccountMana(e.store, e.bank, e.height, a)
      PROVE  /\ Read(p, a).mana \in Nat /\ Read(e, a).mana \in Nat
             /\ Read(p, a).mana <= Read(e, a).mana \/ Diluted(a, supply)
  <2>1. Read(p, a) \in AccountMana /\ Read(e, a) \in AccountMana
    BY <1>1, <1>2, <1>5, ReadParts
  <2>2. Read(p, a).mana \in Nat /\ Read(e, a).mana \in Nat
    BY <2>1, MathAssumption, SMT DEF AccountMana, Uint64, MathAssumption
  <2> QED
    BY <1>1, <1>2, <1>5, <2>2, EvenReads
<1>6. ASSUME ~ AnteAccepts(e, tx)
      PROVE  LET r == [tx |-> tx, state |-> e] IN Poor(r, supply) \/ Rateless(r)
  <2> DEFINE r == [tx |-> tx, state |-> e]
  <2>a. r.tx = tx /\ r.state = e
    OBVIOUS
  <2> HIDE DEF r
  <2>1. CASE CanGetAccountMana(e.store, e.bank, e.height, a)
    <3>1. ~ (Read(e, a).mana >= Cost(tx))
      BY <1>2, <1>3, <1>4, <1>6, <2>1, AcceptsRecord
    <3>2. Read(e, a).mana < Cost(tx) /\ ~ (Read(p, a).mana <= Read(e, a).mana)
      BY <1>1, <1>2, <1>5, <2>1, <3>1, SMT
    <3>3. Meter(e, a) = Read(e, a).mana
      BY DEF Meter, Read
    <3>4. Poor(r, supply)
      BY <1>5, <2>1, <2>a, <3>2, <3>3 DEF Poor
    <3> QED
      BY <3>4 DEF r
  <2>2. CASE ~ CanGetAccountMana(e.store, e.bank, e.height, a)
    <3>1. /\ ~ RateFits(e.bank.balance[a], e.bank.supply)
          /\ \/ e.bank.balance[a] > p.bank.balance[a]
             \/ e.bank.supply < p.bank.supply
      BY <1>1, <1>2, <2>2, RateLost
    <3>2. Rateless(r)
      BY <2>a, <3>1 DEF Rateless
    <3> QED
      BY <3>2 DEF r
  <2> QED
    BY <2>1, <2>2
<1>7. ASSUME AnteAccepts(e, tx)
      PROVE  LET new == Held(AnteWrites(e, tx), a)
                 old == Held(AnteWrites(p, tx), a)
             IN  /\ AnteWrites(e, tx).seq[a] = AnteWrites(p, tx).seq[a]
                 /\ new.txCountThisBlock = old.txCountThisBlock
                 /\ new.lastTxBlock = old.lastTxBlock
                 /\ old.lastUpdateHeight >= p.height
                 /\ new.lastUpdateHeight >= p.height
                 /\ old.mana <= new.mana \/ Diluted(a, supply)
  <2> DEFINE new == Held(AnteWrites(e, tx), a)
             old == Held(AnteWrites(p, tx), a)
  <2>1. /\ old.mana = Read(p, a).mana - Cost(tx)
        /\ old.lastUpdateHeight >= p.height
        /\ old.txCountThisBlock = TxCount(Held(p, a), p.height) + 1
        /\ old.lastTxBlock = p.height
        /\ AnteWrites(p, tx).seq[a] = p.seq[a] + 1
    BY PayerAfter
  <2>2. /\ new.mana = Read(e, a).mana - Cost(tx)
        /\ new.lastUpdateHeight >= e.height
        /\ new.txCountThisBlock = TxCount(Held(e, a), e.height) + 1
        /\ new.lastTxBlock = e.height
        /\ AnteWrites(e, tx).seq[a] = e.seq[a] + 1
    BY <1>7, PayerAfter
  <2>3. CanGetAccountMana(e.store, e.bank, e.height, a)
    BY <1>7, AcceptsRecord
  <2>4. old.mana <= new.mana \/ Diluted(a, supply)
    <3>1. CASE Read(p, a).mana <= Read(e, a).mana
      BY <1>1, <1>5, <2>1, <2>2, <2>3, <3>1, SMT
    <3> QED
      BY <1>5, <2>3, <3>1
  <2> QED
    BY <1>3, <2>1, <2>2, <2>4
<1> QED
  BY <1>6, <1>7

\* Step by step, the execution stays abreast of what the validators saw.
LEMMA AbreastStep ==
  ASSUME NEW p \in NodeStates, p.height # 0, NEW q \in Runs, NEW r \in Runs, NEW tx \in Tx,
         NEW supply \in Nat, Abreast(p, q, supply), AnteAccepts(p, tx), Follows(q, r, tx)
  PROVE  Abreast(AnteWrites(p, tx), r, supply)
<1> DEFINE a  == tx.payer
           e  == q.state
           f  == r.state
           pw == AnteWrites(p, tx)
           ew == AnteWrites(e, tx)
<1>1. /\ a \in Accounts /\ e \in NodeStates /\ f \in NodeStates
      /\ pw \in NodeStates /\ pw.height = p.height /\ pw.bank = p.bank
  BY TxParts, WritesKeep DEF Runs
<1>2. /\ p.bank = committed.bank
      /\ e.height = p.height /\ e.height # 0 /\ e.bank.supply <= supply
      /\ \A x \in Accounts : Even(p, e, x, supply) \/ Behind(p, q, x)
      /\ \A note \in q.rejected : Explained(note, q.rejected, supply)
  BY DEF Abreast
<1>3. \A x \in Accounts : x # a => Agree(pw, p, x)
  BY OtherAccount
<1>4. pw.seq[a] = p.seq[a] + 1 /\ p.seq[a] \in Nat /\ e.seq[a] \in Nat /\ tx.nonce = p.seq[a]
  BY <1>1, PayerAfter, StateParts DEF AnteAccepts
<1> HIDE DEF a, e, f, pw, ew
<1>5. CASE ~ AnteAccepts(e, tx)
  <2> DEFINE note == [tx |-> tx, state |-> e]
  <2>1. f = e /\ r.rejected = q.rejected \cup {note}
    BY <1>5, FollowsResult DEF e, f
  <2>2. note.tx = tx
    OBVIOUS
  <2>3. Explained(note, r.rejected, supply)
    <3>1. CASE Even(p, e, a, supply)
      <4>1. Poor(note, supply) \/ Rateless(note)
        BY <1>1, <1>2, <1>5, <3>1, EvenAccepts DEF a
      <4> QED
        BY <4>1 DEF Explained
    <3>2. CASE Behind(p, q, a)
      <4>1. PICK old \in q.rejected : old.tx.payer = a /\ old.tx.nonce < p.seq[a]
        BY <3>2 DEF Behind
      <4>2. old \in r.rejected /\ old.tx.payer = note.tx.payer /\ old.tx.nonce < note.tx.nonce
        BY <1>4, <2>1, <2>2, <4>1 DEF a
      <4> HIDE DEF note
      <4> QED
        BY <4>2 DEF Explained
    <3> QED
      BY <1>1, <1>2, <3>1, <3>2
  <2> HIDE DEF note
  <2>4. \A old \in r.rejected : Explained(old, r.rejected, supply)
    BY <1>2, <2>1, <2>3 DEF Explained
  <2>5. Behind(pw, r, a)
    <3>1. f.seq[a] < pw.seq[a]
      <4>1. e.seq[a] <= p.seq[a]
        BY <1>1, <1>2, <1>4, SMT DEF Even, Behind, e
      <4> QED
        BY <1>4, <2>1, <4>1, SMT
    <3>2. note \in r.rejected /\ note.tx.payer = a /\ note.tx.nonce < pw.seq[a]
      <4>1. tx.nonce < pw.seq[a]
        BY <1>4, SMT
      <4> QED
        BY <2>1, <2>2, <4>1 DEF a, note
    <3> QED
      BY <3>1, <3>2 DEF Behind, f
  <2>6. ASSUME NEW x \in Accounts, x # a
        PROVE  Even(pw, f, x, supply) \/ Behind(pw, r, x)
    <3>1. Agree(pw, p, x)
      BY <1>3, <2>6
    <3>2. CASE Even(p, e, x, supply)
      BY <1>1, <2>1, <3>1, <3>2 DEF Agree, Even, Untouched, Touched
    <3>3. CASE Behind(p, q, x)
      BY <2>1, <3>1, <3>3 DEF Agree, Behind, e, f
    <3> QED
      BY <1>2, <3>2, <3>3
  <2> QED
    BY <1>1, <1>2, <2>1, <2>4, <2>5, <2>6 DEF Abreast, f, pw
<1>6. CASE AnteAccepts(e, tx)
  <2>1. /\ r.rejected = q.rejected
        /\ f.height = e.height
        /\ \A x \in Accounts : Agree(f, ew, x)
        /\ f.bank.supply <= e.bank.supply
        /\ \A x \in Accounts \ {a} : f.bank.balance[x] >= e.bank.balance[x]
    BY <1>6, FollowsResult DEF a, e, f, ew
  <2>2. Even(p, e, a, supply)
    <3>1. tx.nonce = e.seq[a]
      BY <1>6 DEF AnteAccepts, a
    <3>2. ~ (e.seq[a] < p.seq[a])
      BY <1>4, <3>1, SMT
    <3> QED
      BY <1>1, <1>2, <3>2 DEF Behind, e
  <2>3. Even(pw, f, a, supply)
    <3>1. /\ ew.seq[a] = pw.seq[a]
          /\ Held(ew, a).txCountThisBlock = Held(pw, a).txCountThisBlock
          /\ Held(ew, a).lastTxBlock = Held(pw, a).lastTxBlock
          /\ Held(pw, a).lastUpdateHeight >= p.height
          /\ Held(ew, a).lastUpdateHeight >= p.height
          /\ Held(pw, a).mana <= Held(ew, a).mana \/ Diluted(a, supply)
      BY <1>1, <1>2, <1>6, <2>2, EvenAccepts DEF a, ew, pw
    <3> QED
      BY <1>1, <2>1, <3>1 DEF Agree, Even, Touched
  <2>4. ASSUME NEW x \in Accounts, x # a
        PROVE  Even(pw, f, x, supply) \/ Behind(pw, r, x)
    <3>1. Agree(ew, e, x)
      BY <1>1, <1>6, <2>4, OtherAccount DEF a, ew
    <3>2. Agree(f, e, x) /\ Agree(pw, p, x)
      BY <1>3, <2>1, <2>4, <3>1 DEF Agree
    <3>3. /\ f.bank.balance[x] \in Nat /\ e.bank.balance[x] \in Nat /\ p.bank.balance[x] \in Nat
      BY <1>1, BankParts
    <3>4. p.bank.balance[x] <= e.bank.balance[x] => p.bank.balance[x] <= f.bank.balance[x]
      <4>1. f.bank.balance[x] >= e.bank.balance[x]
        BY <2>1, <2>4
      <4> QED
        BY <3>3, <4>1, SMT
    <3>5. CASE Even(p, e, x, supply)
      BY <1>1, <3>2, <3>4, <3>5 DEF Even, Untouched, Touched, Agree
    <3>6. CASE Behind(p, q, x)
      BY <2>1, <3>2, <3>6 DEF Behind, Agree, e, f
    <3> QED
      BY <1>2, <3>5, <3>6
  <2>5. f.bank.supply <= supply
    <3>1. f.bank.supply \in Nat /\ e.bank.supply \in Nat
      BY <1>1, BankParts
    <3> QED
      BY <1>2, <2>1, <3>1, SMT
  <2>6. \A old \in r.rejected : Explained(old, r.rejected, supply)
    BY <1>2, <2>1
  <2> QED
    BY <1>1, <1>2, <2>1, <2>3, <2>4, <2>5, <2>6 DEF Abreast, f, pw
<1> QED
  BY <1>5, <1>6

\* Step by step to the end of the block: each rejection has its reason.
LEMMA BlockAbreast ==
  ASSUME NEW p \in NodeStates, p.height # 0, p.bank = committed.bank, NEW txs \in Seq(Tx),
         RunTxs(p, txs).rejected = {}, NEW begin \in BeginOutcomes(committed.bank),
         NEW run \in ExecuteAll([p EXCEPT !.bank = begin], txs)
  PROVE  \A r \in run.rejected : Explained(r, run.rejected, begin.supply)
<1> DEFINE e == [p EXCEPT !.bank = begin]
           n == Len(txs)
           f == ExecutionsTo(e, txs)
           g == RunsTo(p, txs)
           P == { i \in 0..n : \A r \in f[i] : Abreast(g[i].state, r, begin.supply) }
<1>1. begin \in BankStates /\ begin.balance = committed.bank.balance
  BY DEF BeginOutcomes
<1>2. begin.supply \in Nat /\ \A a \in Accounts : begin.balance[a] \in Nat
  BY <1>1, NodeAssumption DEF IsBank
<1>3. e \in NodeStates /\ e.height = p.height /\ e.bank = begin /\ e.seq = p.seq /\ e.store = p.store
  BY <1>1 DEF NodeStates
<1>4. n \in Nat /\ \A i \in 1..n : txs[i] \in Tx
  BY ElementOfSeq, LenProperties
<1>a. run \in f[n]
  BY DEF ExecuteAll
<1> HIDE DEF e
<1>5. /\ f[0] = {[state |-> e, rejected |-> {}]}
      /\ \A i \in 0..n : f[i] \in SUBSET Runs
      /\ \A i \in 1..n : f[i] = Execute(f[i-1], txs[i])
  BY <1>3, ExecutionsToStep
<1>6. /\ g[0] = [state |-> p, rejected |-> {}]
      /\ \A i \in 1..n : /\ g[i-1].state \in NodeStates
                         /\ AnteAccepts(g[i-1].state, txs[i])
                         /\ g[i].state = AnteWrites(g[i-1].state, txs[i])
      /\ \A i \in 0..n : g[i].state.height = p.height
  BY RunsToStep, NoneRejected, RunTxsHeight
<1> HIDE DEF f, g
<1>7. 0 \in P
  <2>1. 0 \in 0..n
    BY <1>4, SMT
  <2> DEFINE q == [state |-> e, rejected |-> {}]
  <2>2. q.state = e /\ q.rejected = {}
    OBVIOUS
  <2>3. \A a \in Accounts : Even(p, e, a, begin.supply)
    <3> SUFFICES ASSUME NEW a \in Accounts PROVE Even(p, e, a, begin.supply)
      OBVIOUS
    <3>1. Held(e, a) = Held(p, a)
      BY <1>3 DEF Held
    <3>2. p.bank.balance[a] <= e.bank.balance[a]
      <4>1. p.bank.balance[a] = e.bank.balance[a] /\ p.bank.balance[a] \in Nat
        BY <1>1, <1>2, <1>3
      <4> QED
        BY <4>1, SMT
    <3> QED
      BY <1>3, <3>1, <3>2 DEF Even, Untouched
  <2>4. e.bank.supply <= begin.supply
    BY <1>2, <1>3, SMT
  <2>5. g[0].state = p
    BY <1>6
  <2>6. \A r \in f[0] : r = q
    BY <1>5
  <2> HIDE DEF q
  <2>7. Abreast(p, q, begin.supply)
    BY <1>3, <2>2, <2>3, <2>4 DEF Abreast
  <2> QED
    BY <2>1, <2>5, <2>6, <2>7
<1>8. ASSUME NEW i \in 1..n, i - 1 \in P
      PROVE  i \in P
  <2>1. i \in 0..n /\ i - 1 \in 0..n
    BY <1>4, SMT
  <2> DEFINE runs == f[i-1]
             tx   == txs[i]
             now  == g[i-1].state
  <2>2. runs \in SUBSET Runs /\ tx \in Tx /\ f[i] = Execute(runs, tx) /\ f[i] \in SUBSET Runs
        /\ \A q \in runs : Abreast(now, q, begin.supply)
    BY <1>4, <1>5, <1>8, <2>1
  <2>3. /\ now \in NodeStates /\ now.height # 0 /\ AnteAccepts(now, tx)
        /\ g[i].state = AnteWrites(now, tx)
    BY <1>6, <2>1
  <2> HIDE DEF runs, tx, now
  <2>4. ASSUME NEW r \in Execute(runs, tx)
        PROVE  Abreast(AnteWrites(now, tx), r, begin.supply)
    <3>1. PICK q \in runs : Follows(q, r, tx)
      BY <2>2, <2>4, ExecuteResult
    <3>2. q \in Runs /\ r \in Runs
      BY <2>2, <2>4
    <3>3. Abreast(now, q, begin.supply)
      BY <2>2
    <3> QED
      BY <1>2, <2>2, <2>3, <3>1, <3>2, <3>3, AbreastStep
  <2> QED
    BY <2>1, <2>2, <2>3, <2>4
<1> HIDE DEF P
<1>9. 0..n \subseteq P
  BY <1>4, <1>7, <1>8, InductionUpTo
<1>10. n \in 0..n
  BY <1>4, SMT
<1>11. Abreast(g[n].state, run, begin.supply)
  BY <1>9, <1>10, <1>a DEF P
<1> QED
  BY <1>11 DEF Abreast

(***************************************************************************)
(* What a block has executed, the sequence of its payer has passed.        *)
(***************************************************************************)
LEMMA ExecutedSpent ==
  ASSUME NEW st \in NodeStates, NEW txs \in Seq(Tx), NEW run \in ExecuteAll(st, txs)
  PROVE  /\ \A tx \in Range(txs) \ Rejected(run) : tx.nonce < run.state.seq[tx.payer]
         /\ Rejected(run) \subseteq Range(txs)
<1> DEFINE n == Len(txs)
           f == ExecutionsTo(st, txs)
           P == { i \in 0..n : \A r \in f[i] :
                    /\ \A j \in 1..i : \/ txs[j] \in Rejected(r)
                                       \/ txs[j].nonce < r.state.seq[txs[j].payer]
                    /\ Rejected(r) \subseteq Range(txs) }
<1>1. n \in Nat /\ \A i \in 1..n : txs[i] \in Tx /\ txs[i] \in Range(txs)
  BY ElementOfSeq, LenProperties DEF Range
<1>2. /\ f[0] = {[state |-> st, rejected |-> {}]}
      /\ \A i \in 0..n : f[i] \in SUBSET Runs
      /\ \A i \in 1..n : f[i] = Execute(f[i-1], txs[i])
  BY ExecutionsToStep
<1>a. run \in f[n]
  BY DEF ExecuteAll
<1> HIDE DEF f
<1>3. 0 \in P
  <2>1. 0 \in 0..n /\ 1..0 = {}
    BY <1>1, SMT
  <2>2. \A r \in f[0] : Rejected(r) = {}
    BY <1>2 DEF Rejected
  <2> QED
    BY <2>1, <2>2
<1>4. ASSUME NEW i \in 1..n, i - 1 \in P
      PROVE  i \in P
  <2>1. i \in 0..n /\ i - 1 \in 0..n /\ \A j \in 1..i : j = i \/ j \in 1..(i-1)
    BY <1>1, SMT
  <2>a. \A j \in 1..i : txs[j] \in Tx /\ j \in 1..n
    BY <1>1, SMT
  <2> DEFINE runs == f[i-1]
             tx   == txs[i]
  <2>2. runs \in SUBSET Runs /\ tx \in Tx /\ tx \in Range(txs) /\ f[i] = Execute(runs, tx)
    BY <1>1, <1>2, <2>1
  <2>3. \A q \in runs : /\ \A j \in 1..(i-1) : \/ txs[j] \in Rejected(q)
                                               \/ txs[j].nonce < q.state.seq[txs[j].payer]
                        /\ Rejected(q) \subseteq Range(txs)
    BY <1>4
  <2> HIDE DEF runs
  <2>4. ASSUME NEW r \in Execute(runs, tx)
        PROVE  /\ \A j \in 1..i : \/ txs[j] \in Rejected(r)
                                  \/ txs[j].nonce < r.state.seq[txs[j].payer]
               /\ Rejected(r) \subseteq Range(txs)
    <3>1. PICK q \in runs : Follows(q, r, tx)
      BY <2>2, <2>4, ExecuteResult
    <3>2. q \in Runs /\ q.state \in NodeStates
      BY <2>2 DEF Runs
    <3>3. CASE /\ r.state = q.state
               /\ r.rejected = q.rejected \cup {[tx |-> tx, state |-> q.state]}
      <4> DEFINE note == [tx |-> tx, state |-> q.state]
      <4>1. note.tx = tx /\ r.rejected = q.rejected \cup {note}
        BY <3>3
      <4> HIDE DEF note, tx
      <4>2. Rejected(r) = Rejected(q) \cup {tx}
        BY <4>1 DEF Rejected
      <4> QED
        BY <2>1, <2>2, <2>3, <3>3, <4>2 DEF tx
    <3>4. CASE /\ AnteAccepts(q.state, tx)
               /\ r.rejected = q.rejected
               /\ \A a \in Accounts : Agree(r.state, AnteWrites(q.state, tx), a)
      <4>1. Rejected(r) = Rejected(q)
        BY <3>4 DEF Rejected
      <4> DEFINE w == AnteWrites(q.state, tx)
      <4>a. q.state.seq \in [Accounts -> 0..MaxNonce] /\ tx.payer \in Accounts
            /\ \A a \in Accounts : q.state.seq[a] \in Nat
        BY <2>2, <3>2, StateParts, TxParts
      <4>b. w.seq = [q.state.seq EXCEPT ![tx.payer] = @ + 1]
        BY <2>2, <3>2, <3>4, WritesType
      <4>c. \A a \in Accounts : r.state.seq[a] = w.seq[a]
        BY <3>4 DEF Agree
      <4>d. tx.nonce = q.state.seq[tx.payer]
        BY <3>4 DEF AnteAccepts
      <4> HIDE DEF w, tx
      <4>2. ASSUME NEW a \in Accounts, NEW k \in Nat, k < q.state.seq[a]
            PROVE  k < r.state.seq[a]
        <5>1. r.state.seq[a] = IF a = tx.payer THEN q.state.seq[a] + 1 ELSE q.state.seq[a]
          BY <4>a, <4>b, <4>c
        <5>2. q.state.seq[a] \in Nat
          BY <4>a
        <5> QED
          BY <4>2, <5>1, <5>2, SMT
      <4>3. tx.nonce < r.state.seq[tx.payer]
        <5>1. r.state.seq[tx.payer] = q.state.seq[tx.payer] + 1
          BY <4>a, <4>b, <4>c
        <5>2. q.state.seq[tx.payer] \in Nat
          BY <4>a
        <5> QED
          BY <4>d, <5>1, <5>2, SMT
      <4>4. ASSUME NEW j \in 1..(i-1), txs[j] \notin Rejected(q)
            PROVE  txs[j].nonce < r.state.seq[txs[j].payer]
        <5> DEFINE t == txs[j]
        <5>1. j \in 1..i
          BY <1>1, SMT
        <5>2. t \in Tx
          BY <2>a, <5>1
        <5>3. t.payer \in Accounts /\ t.nonce \in Nat
          BY <5>2, TxParts
        <5>4. t.nonce < q.state.seq[t.payer]
          BY <2>3, <4>4
        <5> HIDE DEF t
        <5>5. t.nonce < r.state.seq[t.payer]
          BY <4>2, <5>3, <5>4
        <5> QED
          BY <5>5 DEF t
      <4> QED
        <5> HIDE DEF tx
        <5>1. \A j \in 1..i : \/ txs[j] \in Rejected(r)
                              \/ txs[j].nonce < r.state.seq[txs[j].payer]
          <6> SUFFICES ASSUME NEW j \in 1..i, txs[j] \notin Rejected(r)
                       PROVE  txs[j].nonce < r.state.seq[txs[j].payer]
            OBVIOUS
          <6>1. CASE j = i
            BY <4>3, <6>1 DEF tx
          <6>2. CASE j \in 1..(i-1)
            BY <4>1, <4>4, <6>2
          <6> QED
            BY <2>1, <6>1, <6>2
        <5> QED
          BY <2>3, <4>1, <5>1
    <3> QED
      BY <2>2, <3>1, <3>2, <3>3, <3>4, FollowsResult
  <2> QED
    BY <2>1, <2>2, <2>4
<1> HIDE DEF P
<1>5. 0..n \subseteq P
  BY <1>1, <1>3, <1>4, InductionUpTo
<1>6. n \in 0..n
  BY <1>1, SMT
<1>7. /\ \A j \in 1..n : \/ txs[j] \in Rejected(run)
                         \/ txs[j].nonce < run.state.seq[txs[j].payer]
      /\ Rejected(run) \subseteq Range(txs)
  BY <1>5, <1>6, <1>a DEF P
<1>8. \A tx \in Range(txs) : \E j \in 1..n : txs[j] = tx
  BY <1>1, LenProperties DEF Range
<1> QED
  BY <1>7, <1>8

-----------------------------------------------------------------------------
\* No account has a count of a block that is still to come.
Stamped(st) == \A a \in Accounts : Held(st, a).lastTxBlock <= st.height

\* An accepted transaction is counted in the block at hand.
LEMMA StampedWrites ==
  ASSUME NEW st \in NodeStates, st.height # 0, Stamped(st), NEW tx \in Tx, AnteAccepts(st, tx)
  PROVE  \A a \in Accounts : Held(AnteWrites(st, tx), a).lastTxBlock <= st.height
<1> SUFFICES ASSUME NEW a \in Accounts
             PROVE  Held(AnteWrites(st, tx), a).lastTxBlock <= st.height
  OBVIOUS
<1>1. CASE a = tx.payer
  <2>1. Held(AnteWrites(st, tx), a).lastTxBlock = st.height
    BY <1>1, PayerAfter
  <2>2. st.height \in Nat
    BY StateParts
  <2> QED
    BY <2>1, <2>2, SMT
<1>2. CASE a # tx.payer
  <2>1. Held(AnteWrites(st, tx), a) = Held(st, a)
    BY <1>2, OtherAccount DEF Agree
  <2> QED
    BY <2>1 DEF Stamped
<1> QED
  BY <1>1, <1>2

\* So is a whole block, however it goes.
LEMMA StampedExecution ==
  ASSUME NEW st \in NodeStates, st.height # 0, Stamped(st), NEW txs \in Seq(Tx),
         NEW run \in ExecuteAll(st, txs)
  PROVE  Stamped(run.state)
<1> DEFINE n == Len(txs)
           f == ExecutionsTo(st, txs)
           P == { i \in 0..n : \A r \in f[i] : Stamped(r.state) /\ r.state.height = st.height }
<1>1. n \in Nat /\ \A i \in 1..n : txs[i] \in Tx
  BY ElementOfSeq, LenProperties
<1>2. /\ f[0] = {[state |-> st, rejected |-> {}]}
      /\ \A i \in 0..n : f[i] \in SUBSET Runs
      /\ \A i \in 1..n : f[i] = Execute(f[i-1], txs[i])
  BY ExecutionsToStep
<1>a. run \in f[n]
  BY DEF ExecuteAll
<1> HIDE DEF f
<1>3. 0 \in P
  <2>1. 0 \in 0..n
    BY <1>1, SMT
  <2> QED
    BY <1>2, <2>1
<1>4. ASSUME NEW i \in 1..n, i - 1 \in P
      PROVE  i \in P
  <2>1. i \in 0..n /\ i - 1 \in 0..n
    BY <1>1, SMT
  <2> DEFINE runs == f[i-1]
             tx   == txs[i]
  <2>2. runs \in SUBSET Runs /\ tx \in Tx /\ f[i] = Execute(runs, tx)
        /\ \A q \in runs : Stamped(q.state) /\ q.state.height = st.height
    BY <1>1, <1>2, <1>4, <2>1
  <2> HIDE DEF runs, tx
  <2>3. ASSUME NEW r \in Execute(runs, tx)
        PROVE  Stamped(r.state) /\ r.state.height = st.height
    <3>1. PICK q \in runs : Follows(q, r, tx)
      BY <2>2, <2>3, ExecuteResult
    <3>2. q \in Runs /\ q.state \in NodeStates /\ Stamped(q.state) /\ q.state.height = st.height
      BY <2>2 DEF Runs
    <3>3. CASE r.state = q.state
      BY <3>2, <3>3
    <3>4. CASE /\ AnteAccepts(q.state, tx)
               /\ r.state.height = q.state.height
               /\ \A a \in Accounts : Agree(r.state, AnteWrites(q.state, tx), a)
      <4>1. \A a \in Accounts : Held(AnteWrites(q.state, tx), a).lastTxBlock <= q.state.height
        BY <2>2, <3>2, <3>4, StampedWrites
      <4> QED
        BY <3>2, <3>4, <4>1 DEF Stamped, Agree
    <3> QED
      BY <2>2, <3>1, <3>2, <3>3, <3>4, FollowsResult
  <2> QED
    BY <2>1, <2>2, <2>3
<1> HIDE DEF P
<1>5. 0..n \subseteq P
  BY <1>1, <1>3, <1>4, InductionUpTo
<1>6. n \in 0..n
  BY <1>1, SMT
<1> QED
  BY <1>5, <1>6, <1>a DEF P
=============================================================================
