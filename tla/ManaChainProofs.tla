--------------------------- MODULE ManaChainProofs ---------------------------
(***************************************************************************)
(* Theorems about ManaChain, for every set of accounts, genesis, bank,     *)
(* parameters and bounds.                                                  *)
(*                                                                         *)
(* The argument: an accepted transaction replaces the records of its       *)
(* signers by what regenerateMana returns, less the cost in the payer's    *)
(* record and with one more transaction counted (lemma AcceptedRecords);   *)
(* every other step leaves all the records alone.                          *)
(*                                                                         *)
(* A read at a height not before the stamp gives a record of that height   *)
(* (lemma ReadResult), so a meter is the clamped sum of a record over the  *)
(* blocks since its stamp.  As long as the gain stands and the cap does    *)
(* not rise, one block more is one more term (lemma CapMayFall), and       *)
(* ManaChain implements ManaMeter.  A record can be read only up to the    *)
(* cap of the coins of that moment; that bounds what all accounts together *)
(* spend in a block (ManaNetwork) by the coins there are and those that    *)
(* moved.                                                                  *)
(***************************************************************************)
EXTENDS ManaNetwork, ManaKeeperProofs, Induction

\* What the keeper reads from the bank, in every state of the chain.
LEMMA BankRead ==
  ASSUME bank \in BankStates, NEW a \in Accounts
  PROVE  /\ bank.balance[a] \in Nat
         /\ bank.supply \in Nat
         /\ bank.balance[a] <= bank.supply
  BY ChainAssumption DEF ChainAssumption, IsBank

\* A price is a natural number.
LEMMA CostType ==
  ASSUME NEW tx \in Tx
  PROVE  Cost(tx) \in Nat
<1>1. tx.size \in Nat
  BY ChainAssumption DEF ChainAssumption, Tx
<1>2. /\ DefaultManaBaseCost \in Nat
      /\ DefaultManaCostPerByte \in Nat
  BY MathAssumption DEF MathAssumption
<1>3. tx.size * DefaultManaCostPerByte \in Nat
  BY <1>1, <1>2, SMT
<1> QED
  BY <1>1, <1>2, <1>3, SMT DEF Cost, ComputeTxManaCost

\* The record GetAccountMana computes at the height being executed.
Now(a) == GetAccountMana(store, bank, height, a)

\* Reading keeps the count and yields at most a peak gain per block since the stamp.
LEMMA NowResult ==
  ASSUME TypeOK, NEW a \in Accounts, CanGetAccountMana(store, bank, height, a)
  PROVE  /\ Now(a) \in AccountMana
         /\ Record(a) \in AccountMana
         /\ Now(a).txCountThisBlock = Record(a).txCountThisBlock
         /\ Now(a).lastTxBlock = Record(a).lastTxBlock
         /\ height <= Now(a).lastUpdateHeight
         /\ Now(a).mana + PeakPerBlock * Record(a).lastUpdateHeight
              <= Record(a).mana + PeakPerBlock * Now(a).lastUpdateHeight
<1>1. /\ bank.balance[a] \in Nat /\ bank.supply \in Nat
      /\ bank.balance[a] <= bank.supply
  BY BankRead DEF TypeOK
<1>2. height \in Nat /\ Record(a) \in AccountMana
  BY LoadType DEF TypeOK, Record
<1>3. CanRegenerate(Record(a), bank.balance[a], bank.supply, height)
  BY DEF CanGetAccountMana, Record
<1>4. Now(a) = RegenerateMana(Record(a), bank.balance[a], bank.supply, height)
  BY DEF Now, GetAccountMana, Record
<1>5. /\ Now(a) \in AccountMana
      /\ Now(a).txCountThisBlock = Record(a).txCountThisBlock
      /\ Now(a).lastTxBlock = Record(a).lastTxBlock
      /\ height <= Record(a).lastUpdateHeight => Now(a) = Record(a)
      /\ height > Record(a).lastUpdateHeight => Now(a).lastUpdateHeight = height
  BY <1>1, <1>2, <1>3, <1>4, RegenerateResult
<1>6. height <= Now(a).lastUpdateHeight
  <2>1. Record(a).lastUpdateHeight \in Nat /\ Now(a).lastUpdateHeight \in Nat
    BY <1>2, <1>5 DEF AccountMana
  <2> QED
    BY <1>2, <1>5, <2>1, SMT
<1>7. Now(a).mana + PeakPerBlock * Record(a).lastUpdateHeight
        <= Record(a).mana + PeakPerBlock * Now(a).lastUpdateHeight
  BY <1>1, <1>2, <1>3, <1>4, RegenerateBounded
<1> QED
  BY <1>2, <1>5, <1>6, <1>7

-----------------------------------------------------------------------------
(***************************************************************************)
(* Two assumptions on the instance that some theorems need.  The code      *)
(* checks neither: every rate the bank can give fits the word              *)
(* (Params.Validate does not look at the multiplier), and no genesis       *)
(* record is stamped (GenesisState.Validate does not look at stamps).      *)
(***************************************************************************)
RatesFit == \A b \in BankStates : \A a \in Accounts : RateFits(b.balance[a], b.supply)

FreshStamps == \A a \in Accounts : Grant(a).lastUpdateHeight = 0

\* With the constants of types.go every rate fits: it is enough that the
\* holder of the whole supply has one.
LEMMA PeakRateFits ==
  ASSUME PeakRate <= MaxUint64
  PROVE  RatesFit
<1> SUFFICES ASSUME NEW b \in BankStates, NEW a \in Accounts
             PROVE  ExactRate(b.balance[a], b.supply) <= MaxUint64
  BY DEF RatesFit, RateFits
<1> DEFINE r == ExactRate(b.balance[a], b.supply)
<1>1. /\ b.balance[a] \in Nat /\ b.supply \in Nat /\ b.balance[a] <= b.supply
  BY ChainAssumption DEF ChainAssumption, IsBank
<1>2. r \in Nat /\ r <= PeakRate
  BY <1>1, RateBounded
<1>3. PeakRate \in Nat /\ MaxUint64 \in Nat
  BY PeakRateType, MathAssumption DEF MathAssumption
<1> HIDE DEF r
<1>4. r <= MaxUint64
  BY <1>2, <1>3, SMT
<1> QED
  BY <1>4 DEF r

-----------------------------------------------------------------------------
\* The mana a transaction takes from account a.
Charge(tx, a) == IF a = tx.payer THEN Cost(tx) ELSE 0

(***************************************************************************)
(* The whole ante pipeline, one record at a time.  A signer's record was   *)
(* readable, had the mana and was below the limit; it becomes the record   *)
(* of this height, charged and counted.  No other record is touched.       *)
(***************************************************************************)
LEMMA AcceptedRecords ==
  ASSUME TypeOK, NEW tx \in Tx, AnteAccepts(tx)
  PROVE  /\ IsStore(AnteWrites(tx))
         /\ \A a \in Accounts \ tx.signers : LoadAccountMana(AnteWrites(tx), a) = Record(a)
         /\ \A a \in tx.signers :
              LET new == LoadAccountMana(AnteWrites(tx), a)
              IN  /\ a \in Accounts
                  /\ CanGetAccountMana(store, bank, height, a)
                  /\ Charge(tx, a) <= Now(a).mana
                  /\ new.mana = Now(a).mana - Charge(tx, a)
                  /\ new.lastUpdateHeight = Now(a).lastUpdateHeight
                  /\ TxCount(Now(a), height) < MaxTxPerBlock
                  /\ new.txCountThisBlock = TxCount(Now(a), height) + 1
                  /\ new.lastTxBlock = height
<1> DEFINE p       == tx.payer
           paid    == [Now(p) EXCEPT !.mana = @ - Cost(tx)]
           mid     == AfterConsume(tx)
<1>1. p \in Accounts /\ p \in tx.signers /\ tx.signers \subseteq Accounts
  BY DEF Tx
<1>2. CanGetAccountMana(store, bank, height, p) /\ Now(p).mana >= Cost(tx)
  BY DEF AnteAccepts, CanConsume, Now
<1>3. Cost(tx) \in Nat /\ height \in Nat /\ IsStore(store) /\ MaxUint64 \in Nat
  BY CostType, MathAssumption DEF TypeOK, MathAssumption
<1>4. Now(p) \in AccountMana /\ height <= Now(p).lastUpdateHeight
  BY <1>1, <1>2, NowResult
<1>5. Now(p).mana \in Nat /\ Now(p).mana <= MaxUint64
  BY <1>3, <1>4, SMT DEF AccountMana, Uint64
<1>6. Now(p).mana - Cost(tx) \in Uint64
  BY <1>2, <1>3, <1>5, SMT DEF Uint64
<1>7. /\ paid \in AccountMana
      /\ paid.mana = Now(p).mana - Cost(tx)
      /\ paid.lastUpdateHeight = Now(p).lastUpdateHeight
      /\ paid.txCountThisBlock = Now(p).txCountThisBlock
      /\ paid.lastTxBlock = Now(p).lastTxBlock
  BY <1>4, <1>6 DEF AccountMana
<1> HIDE DEF paid
<1>8. mid = SetAccountMana(store, p, paid)
  BY DEF AfterConsume, ConsumeMana, Now, paid
<1> HIDE DEF mid
<1>9. IsStore(mid)
  BY <1>1, <1>3, <1>7, <1>8, SetType
<1>10. \A x : LoadAccountMana(mid, x) = IF x = p THEN paid ELSE Record(x)
  BY <1>8, SetLoad DEF Record
\* A second read at the same height finds what the first one left.
<1>11. ASSUME NEW a \in tx.signers
       PROVE  /\ CanGetAccountMana(store, bank, height, a)
              /\ GetAccountMana(mid, bank, height, a) = IF a = p THEN paid ELSE Now(a)
              /\ TxCount(GetAccountMana(mid, bank, height, a), height) < MaxTxPerBlock
  <2>1. /\ CanGetAccountMana(mid, bank, height, a)
        /\ TxCount(GetAccountMana(mid, bank, height, a), height) < MaxTxPerBlock
    BY <1>11 DEF AnteAccepts, CanIncrement, mid
  <2>2. CASE a = p
    <3>1. LoadAccountMana(mid, a) = paid
      BY <1>10, <2>2
    <3>2. height <= paid.lastUpdateHeight
      BY <1>4, <1>7
    <3>3. GetAccountMana(mid, bank, height, a) = paid
      BY <3>1, <3>2 DEF GetAccountMana, RegenerateMana
    <3> QED
      BY <1>2, <2>1, <2>2, <3>3
  <2>3. CASE a # p
    <3>1. LoadAccountMana(mid, a) = LoadAccountMana(store, a)
      BY <1>10, <2>3 DEF Record
    <3>2. /\ CanGetAccountMana(store, bank, height, a)
          /\ GetAccountMana(mid, bank, height, a) = Now(a)
      BY <2>1, <3>1 DEF CanGetAccountMana, GetAccountMana, Now
    <3> QED
      BY <2>1, <2>3, <3>2
  <2> QED
    BY <2>2, <2>3
<1> DEFINE base(a) == IF a = p THEN paid ELSE Now(a)
<1>12. ASSUME NEW a \in tx.signers
       PROVE  /\ base(a) \in AccountMana
              /\ Charge(tx, a) <= Now(a).mana
              /\ base(a).mana = Now(a).mana - Charge(tx, a)
              /\ base(a).lastUpdateHeight = Now(a).lastUpdateHeight
              /\ TxCount(base(a), height) = TxCount(Now(a), height)
  <2>1. CASE a = p
    BY <1>2, <1>3, <1>5, <1>7, <2>1, SMT DEF Charge, TxCount
  <2>2. CASE a # p
    <3>1. Now(a) \in AccountMana
      BY <1>1, <1>11, NowResult
    <3>2. Now(a).mana \in Nat
      BY <3>1, MathAssumption, SMT DEF AccountMana, Uint64, MathAssumption
    <3> QED
      BY <2>2, <3>1, <3>2, SMT DEF Charge
  <2> QED
    BY <2>1, <2>2
<1>13. ASSUME NEW a \in tx.signers
       PROVE  LET new == LoadAccountMana(AnteWrites(tx), a)
              IN  /\ new = Counted(base(a), height)
                  /\ new \in AccountMana
                  /\ new.mana = base(a).mana
                  /\ new.lastUpdateHeight = base(a).lastUpdateHeight
                  /\ new.txCountThisBlock = TxCount(base(a), height) + 1
                  /\ new.lastTxBlock = height
  <2>1. LoadAccountMana(AnteWrites(tx), a) = Counted(base(a), height)
    BY <1>11, <1>13 DEF AnteWrites, IncrementTxCount, LoadAccountMana, mid
  <2>2. base(a) \in AccountMana
    BY <1>12
  <2> HIDE DEF base
  <2>3. TxCount(base(a), height) \in Nat
    BY <1>3, <2>2, SMT DEF TxCount, AccountMana
  <2>4. TxCount(base(a), height) + 1 \in Nat
    BY <2>3, SMT
  <2> QED
    BY <1>3, <2>1, <2>2, <2>4 DEF Counted, AccountMana
<1>14. \A a \in Accounts \ tx.signers : LoadAccountMana(AnteWrites(tx), a) = Record(a)
  <2> SUFFICES ASSUME NEW a \in Accounts \ tx.signers
               PROVE  LoadAccountMana(AnteWrites(tx), a) = Record(a)
    OBVIOUS
  <2>1. LoadAccountMana(AnteWrites(tx), a) = LoadAccountMana(mid, a)
    BY DEF AnteWrites, IncrementTxCount, LoadAccountMana, mid
  <2> QED
    BY <1>1, <1>10, <2>1
<1>15. IsStore(AnteWrites(tx))
  <2> DEFINE w == AnteWrites(tx)
  <2>1. DOMAIN w = DOMAIN mid \cup tx.signers /\ DOMAIN mid \subseteq Accounts
    BY <1>9 DEF AnteWrites, IncrementTxCount, IsStore, mid
  <2>2. ASSUME NEW a \in DOMAIN w
        PROVE  w[a] \in AccountMana
    <3>1. w[a] = LoadAccountMana(w, a)
      BY <2>2 DEF LoadAccountMana
    <3>2. CASE a \in tx.signers
      BY <1>13, <3>1, <3>2
    <3>3. CASE a \notin tx.signers
      BY <1>9, <2>1, <2>2, <3>3 DEF AnteWrites, IncrementTxCount, IsStore, mid
    <3> QED
      BY <3>2, <3>3
  <2>3. w = [a \in DOMAIN w |-> w[a]]
    BY DEF AnteWrites, IncrementTxCount
  <2> HIDE DEF w
  <2>4. IsStore(w)
    BY <1>1, <2>1, <2>2, <2>3 DEF IsStore
  <2> QED
    BY <2>4 DEF w
<1>16. \A a \in tx.signers :
              LET new == LoadAccountMana(AnteWrites(tx), a)
              IN  /\ a \in Accounts
                  /\ CanGetAccountMana(store, bank, height, a)
                  /\ Charge(tx, a) <= Now(a).mana
                  /\ new.mana = Now(a).mana - Charge(tx, a)
                  /\ new.lastUpdateHeight = Now(a).lastUpdateHeight
                  /\ TxCount(Now(a), height) < MaxTxPerBlock
                  /\ new.txCountThisBlock = TxCount(Now(a), height) + 1
                  /\ new.lastTxBlock = height
  BY <1>1, <1>11, <1>12, <1>13
<1> QED
  BY <1>14, <1>15, <1>16
-----------------------------------------------------------------------------
(***************************************************************************)
(* Type correctness.                                                       *)
(***************************************************************************)
LEMMA InitType ==
  ASSUME Init
  PROVE  TypeOK
  BY ChainAssumption DEF Init, TypeOK, ChainAssumption

\* No step takes a record out of the word, nor the bank out of its states.
LEMMA TypeStep ==
  ASSUME TypeOK, [Next]_vars
  PROVE  TypeOK'
<1>1. CASE BeginBlock
  <2>1. height' \in Nat
    BY <1>1, SMT DEF TypeOK, BeginBlock
  <2>2. txsLeft' \in Nat
    BY <1>1, ChainAssumption, SMT DEF BeginBlock, ChainAssumption
  <2> QED
    BY <1>1, <2>1, <2>2 DEF TypeOK, BeginBlock
<1>2. CASE EndBlock
  BY <1>2 DEF TypeOK, EndBlock
<1>3. ASSUME NEW tx \in Tx, DeliverAccepted(tx)
      PROVE  TypeOK'
  <2>1. txsLeft' \in Nat
    BY <1>3, SMT DEF TypeOK, DeliverAccepted
  <2>2. IsStore(store')
    BY <1>3, AcceptedRecords DEF DeliverAccepted
  <2>3. bank' \in BankStates
    BY <1>3 DEF TypeOK, DeliverAccepted, MsgOutcomes
  <2>4. spent' \in [Accounts -> Nat]
    BY <1>3, CostType, SMT DEF TypeOK, DeliverAccepted, Tx
  <2>5. included' \in [Accounts -> Nat]
    BY <1>3, SMT DEF TypeOK, DeliverAccepted
  <2> QED
    BY <1>3, <2>1, <2>2, <2>3, <2>4, <2>5 DEF TypeOK, DeliverAccepted
<1>4. ASSUME NEW tx \in Tx, DeliverRejected(tx)
      PROVE  TypeOK'
  <2>1. txsLeft' \in Nat
    BY <1>4, SMT DEF TypeOK, DeliverRejected
  <2> QED
    BY <1>4, <2>1 DEF TypeOK, DeliverRejected
<1>5. CASE UNCHANGED vars
  BY <1>5 DEF TypeOK, vars
<1> QED
  BY <1>1, <1>2, <1>3, <1>4, <1>5 DEF Next

\* The state of the chain is always of its type: no write path of the keeper
\* leaves a meter outside uint64 or a record under a foreign key.
THEOREM TypeCorrect == Spec => []TypeOK
<1>1. Init => TypeOK
  BY InitType
<1>2. TypeOK /\ [Next]_vars => TypeOK'
  BY TypeStep
<1> QED
  BY <1>1, <1>2, PTL DEF Spec

-----------------------------------------------------------------------------
(***************************************************************************)
(* RateLimited is inductive together with the types: a signer's record     *)
(* trades mana for charges at par and gains at most the peak per block of  *)
(* its time stamp.                                                         *)
(***************************************************************************)
LEMMA RateLimitedInit ==
  ASSUME Init
  PROVE  RateLimited
<1> SUFFICES ASSUME NEW a \in Accounts
             PROVE  spent[a] + Record(a).mana + PeakPerBlock * Grant(a).lastUpdateHeight
                      <= Grant(a).mana + PeakPerBlock * Record(a).lastUpdateHeight
  BY DEF RateLimited
<1>1. Record(a) = Grant(a) /\ spent[a] = 0
  BY DEF Init, Record, Grant
<1>2. Grant(a) \in AccountMana
  BY ChainAssumption, LoadType DEF ChainAssumption, Grant
<1>3. Grant(a).mana \in Nat /\ Grant(a).lastUpdateHeight \in Nat
  BY <1>2, MathAssumption, SMT DEF AccountMana, Uint64, MathAssumption
<1>4. PeakPerBlock \in Nat
  BY PeakRateType, PerBlockMonotone DEF PeakPerBlock
<1>5. PeakPerBlock * Grant(a).lastUpdateHeight \in Nat
  BY <1>3, <1>4, SMT
<1> QED
  BY <1>1, <1>3, <1>5, SMT

\* Spending moves mana from held to spent; a block adds to both sides.
LEMMA RateLimitedStep ==
  ASSUME TypeOK, RateLimited, [Next]_vars
  PROVE  RateLimited'
<1>1. CASE BeginBlock \/ EndBlock \/ UNCHANGED vars
  BY <1>1 DEF RateLimited, Record, BeginBlock, EndBlock, vars
<1>2. ASSUME NEW tx \in Tx, DeliverRejected(tx)
      PROVE  RateLimited'
  BY <1>2 DEF RateLimited, Record, DeliverRejected
<1>3. ASSUME NEW tx \in Tx, DeliverAccepted(tx)
      PROVE  RateLimited'
  <2> SUFFICES ASSUME NEW a \in Accounts
               PROVE  spent'[a] + Record(a)'.mana + PeakPerBlock * Grant(a).lastUpdateHeight
                        <= Grant(a).mana + PeakPerBlock * Record(a)'.lastUpdateHeight
    BY DEF RateLimited, Grant
  <2>1. /\ spent[a] + Record(a).mana + PeakPerBlock * Grant(a).lastUpdateHeight
             <= Grant(a).mana + PeakPerBlock * Record(a).lastUpdateHeight
        /\ spent \in [Accounts -> Nat]
        /\ Cost(tx) \in Nat
    BY CostType DEF RateLimited, TypeOK
  <2>2. AnteAccepts(tx) /\ Record(a)' = LoadAccountMana(AnteWrites(tx), a)
    BY <1>3 DEF DeliverAccepted, Record
  <2>3. spent'[a] = spent[a] + Charge(tx, a) /\ Charge(tx, a) \in Nat
    BY <1>3, <2>1, SMT DEF DeliverAccepted, Charge
  <2>4. CASE a \notin tx.signers
    <3>1. Record(a)' = Record(a)
      BY <2>2, <2>4, AcceptedRecords
    <3>2. Charge(tx, a) = 0
      BY <2>4 DEF Charge, Tx
    <3> QED
      BY <2>1, <2>3, <3>1, <3>2, SMT
  <2>5. CASE a \in tx.signers
    <3>1. /\ CanGetAccountMana(store, bank, height, a)
          /\ Charge(tx, a) <= Now(a).mana
          /\ Record(a)'.mana = Now(a).mana - Charge(tx, a)
          /\ Record(a)'.lastUpdateHeight = Now(a).lastUpdateHeight
      BY <2>2, <2>5, AcceptedRecords
    <3>2. /\ Now(a).mana + PeakPerBlock * Record(a).lastUpdateHeight
               <= Record(a).mana + PeakPerBlock * Now(a).lastUpdateHeight
          /\ Now(a) \in AccountMana
          /\ Record(a) \in AccountMana
      BY <3>1, NowResult
    <3>3. /\ Now(a).mana \in Nat /\ Now(a).lastUpdateHeight \in Nat
          /\ Record(a).mana \in Nat /\ Record(a).lastUpdateHeight \in Nat
      BY <3>2, MathAssumption, SMT DEF AccountMana, Uint64, MathAssumption
    <3>4. Grant(a) \in AccountMana
      BY ChainAssumption, LoadType DEF ChainAssumption, Grant
    <3>5. Grant(a).mana \in Nat /\ Grant(a).lastUpdateHeight \in Nat
      BY <3>4, MathAssumption, SMT DEF AccountMana, Uint64, MathAssumption
    <3>6. PeakPerBlock \in Nat
      BY PeakRateType, PerBlockMonotone DEF PeakPerBlock
    <3>7. /\ PeakPerBlock * Grant(a).lastUpdateHeight \in Nat
          /\ PeakPerBlock * Record(a).lastUpdateHeight \in Nat
          /\ PeakPerBlock * Now(a).lastUpdateHeight \in Nat
      BY <3>3, <3>5, <3>6, SMT
    <3> QED
      BY <2>1, <2>3, <3>1, <3>2, <3>3, <3>5, <3>7, SMT
  <2> QED
    BY <2>4, <2>5
<1> QED
  BY <1>1, <1>2, <1>3 DEF Next

(***************************************************************************)
(* No account ever spends more than its grant and one peak gain per block, *)
(* whatever transactions are sent and however coins move: what the removed *)
(* "refill when drained" path broke (keeper.go:122-125).                   *)
(***************************************************************************)
THEOREM RateLimitHolds == Spec => []RateLimited
<1>1. Init => RateLimited
  BY RateLimitedInit
<1>2. TypeOK /\ RateLimited /\ [Next]_vars => RateLimited'
  BY RateLimitedStep
<1> QED
  BY <1>1, <1>2, TypeCorrect, PTL DEF Spec
-----------------------------------------------------------------------------
(***************************************************************************)
(* PerBlockLimit is not inductive: it says nothing of the counter that is  *)
(* compared with the limit.  While a block is executed that counter has    *)
(* seen every transaction the account signed; it may have seen more, if    *)
(* the genesis record carries a count stamped with a height to come.       *)
(***************************************************************************)
CountCovers ==
  phase = "deliver" => \A a \in Accounts : included[a] <= TxCount(Record(a), height)

\* The number of transactions of an account in a block is a natural number.
LEMMA CountType ==
  ASSUME TypeOK, NEW a \in Accounts
  PROVE  TxCount(Record(a), height) \in Nat
<1>1. Record(a) \in AccountMana
  BY LoadType DEF TypeOK, Record
<1> QED
  BY <1>1, SMT DEF AccountMana, TxCount

\* How an accepted transaction moves the counters of an account.
LEMMA AcceptedCounts ==
  ASSUME TypeOK, NEW tx \in Tx, DeliverAccepted(tx), NEW a \in Accounts
  PROVE  /\ height' = height /\ phase' = "deliver"
         /\ a \in tx.signers =>
              /\ included'[a] = included[a] + 1
              /\ TxCount(Record(a), height) < MaxTxPerBlock
              /\ TxCount(Record(a)', height) = TxCount(Record(a), height) + 1
              /\ Record(a)'.lastTxBlock = height
         /\ a \notin tx.signers =>
              /\ included'[a] = included[a]
              /\ Record(a)' = Record(a)
<1>1. AnteAccepts(tx) /\ Record(a)' = LoadAccountMana(AnteWrites(tx), a)
  BY DEF DeliverAccepted, Record
<1>2. height' = height /\ phase' = "deliver" /\ included[a] \in Nat
  BY DEF DeliverAccepted, TypeOK
<1>3. included'[a] = included[a] + (IF a \in tx.signers THEN 1 ELSE 0)
  BY DEF DeliverAccepted
<1>4. CASE a \in tx.signers
  <2>1. /\ CanGetAccountMana(store, bank, height, a)
        /\ TxCount(Now(a), height) < MaxTxPerBlock
        /\ Record(a)'.txCountThisBlock = TxCount(Now(a), height) + 1
        /\ Record(a)'.lastTxBlock = height
    BY <1>1, <1>4, AcceptedRecords
  <2>2. TxCount(Now(a), height) = TxCount(Record(a), height)
    BY <2>1, NowResult DEF TxCount
  <2>3. TxCount(Record(a)', height) = TxCount(Now(a), height) + 1
    BY <2>1 DEF TxCount
  <2> QED
    BY <1>2, <1>3, <1>4, <2>1, <2>2, <2>3
<1>5. CASE a \notin tx.signers
  <2>1. Record(a)' = Record(a)
    BY <1>1, <1>5, AcceptedRecords
  <2> QED
    BY <1>2, <1>3, <1>5, <2>1, SMT
<1> QED
  BY <1>4, <1>5

\* Nothing has been included before the first block.
LEMMA CountCoversInit ==
  ASSUME Init
  PROVE  PerBlockLimit /\ CountCovers
  BY KeeperAssumption, SMT DEF KeeperAssumption, Init, PerBlockLimit, CountCovers

\* Every transaction included raises the counts of all its signers.
LEMMA CountCoversStep ==
  ASSUME TypeOK, PerBlockLimit, CountCovers, [Next]_vars
  PROVE  PerBlockLimit' /\ CountCovers'
<1>1. CASE BeginBlock
  <2>1. TypeOK'
    BY TypeStep
  <2>2. \A a \in Accounts : included'[a] = 0
    BY <1>1 DEF BeginBlock
  <2>3. \A a \in Accounts : TxCount(Record(a), height)' \in Nat
    <3> SUFFICES ASSUME NEW a \in Accounts
                 PROVE  TxCount(Record(a), height)' \in Nat
      OBVIOUS
    <3>1. IsStore(store')
      BY <2>1 DEF TypeOK
    <3>2. LoadAccountMana(store', a) \in AccountMana
      BY <3>1, LoadType
    <3> QED
      BY <3>2, SMT DEF AccountMana, TxCount, Record
  <2> QED
    BY <2>2, <2>3, KeeperAssumption, SMT DEF KeeperAssumption, PerBlockLimit, CountCovers
<1>2. CASE EndBlock
  BY <1>2 DEF EndBlock, PerBlockLimit, CountCovers
<1>3. ASSUME NEW tx \in Tx, DeliverAccepted(tx)
      PROVE  PerBlockLimit' /\ CountCovers'
  <2>1. phase = "deliver" /\ height' = height
    BY <1>3 DEF DeliverAccepted
  <2>2. ASSUME NEW a \in Accounts
        PROVE  /\ included'[a] <= MaxTxPerBlock
               /\ included'[a] <= TxCount(Record(a)', height)
    <3>1. /\ included[a] <= MaxTxPerBlock
          /\ included[a] <= TxCount(Record(a), height)
          /\ included[a] \in Nat
          /\ TxCount(Record(a), height) \in Nat
      BY <2>1, CountType DEF PerBlockLimit, CountCovers, TypeOK
    <3>2. MaxTxPerBlock \in Nat
      BY KeeperAssumption DEF KeeperAssumption
    <3>3. CASE a \in tx.signers
      <4>1. /\ included'[a] = included[a] + 1
            /\ TxCount(Record(a), height) < MaxTxPerBlock
            /\ TxCount(Record(a)', height) = TxCount(Record(a), height) + 1
        BY <1>3, <3>3, AcceptedCounts
      <4> QED
        BY <3>1, <3>2, <4>1, SMT
    <3>4. CASE a \notin tx.signers
      <4>1. included'[a] = included[a] /\ Record(a)' = Record(a)
        BY <1>3, <3>4, AcceptedCounts
      <4> QED
        BY <3>1, <4>1
    <3> QED
      BY <3>3, <3>4
  <2> QED
    BY <2>1, <2>2 DEF PerBlockLimit, CountCovers
<1>4. ASSUME NEW tx \in Tx, DeliverRejected(tx)
      PROVE  PerBlockLimit' /\ CountCovers'
  BY <1>4 DEF DeliverRejected, PerBlockLimit, CountCovers, Record
<1>5. CASE UNCHANGED vars
  BY <1>5 DEF vars, PerBlockLimit, CountCovers, Record
<1> QED
  BY <1>1, <1>2, <1>3, <1>4, <1>5 DEF Next

(***************************************************************************)
(* No account signs more than MaxTxPerBlock transactions of a block        *)
(* (keeper.go:249-272), whatever the genesis records hold.                 *)
(***************************************************************************)
THEOREM PerBlockLimitHolds == Spec => []PerBlockLimit
<1>1. Init => PerBlockLimit /\ CountCovers
  BY CountCoversInit
<1>2. TypeOK /\ PerBlockLimit /\ CountCovers /\ [Next]_vars => PerBlockLimit' /\ CountCovers'
  BY CountCoversStep
<1> QED
  BY <1>1, <1>2, TypeCorrect, PTL DEF Spec
-----------------------------------------------------------------------------
(***************************************************************************)
(* CountExact needs the genesis records to carry no count of their own, as *)
(* those of config/genesis.json do not; then no record is ever stamped     *)
(* with a block that has not begun.                                        *)
(***************************************************************************)
FreshCounts == \A a \in Accounts : Grant(a).lastTxBlock = 0

StampsPast == \A a \in Accounts : Record(a).lastTxBlock <= height

\* The counter and the history move together, and stay stamped in the past.
LEMMA CountExactStep ==
  ASSUME TypeOK, StampsPast, CountExact, [Next]_vars
  PROVE  StampsPast' /\ CountExact'
<1>1. CASE BeginBlock
  <2>1. \A a \in Accounts : included'[a] = 0 /\ Record(a)' = Record(a)
    BY <1>1 DEF BeginBlock, Record
  <2>2. ASSUME NEW a \in Accounts
        PROVE  Record(a)'.lastTxBlock <= height' /\ Record(a)'.lastTxBlock # height'
    <3>1. Record(a) \in AccountMana /\ Record(a).lastTxBlock <= height
      BY LoadType DEF TypeOK, Record, StampsPast
    <3>2. Record(a).lastTxBlock \in Nat /\ height \in Nat /\ height' = height + 1
      BY <1>1, <3>1 DEF AccountMana, TypeOK, BeginBlock
    <3> QED
      BY <2>1, <3>1, <3>2, SMT
  <2> QED
    BY <2>1, <2>2 DEF StampsPast, CountExact, TxCount
<1>2. CASE EndBlock
  BY <1>2 DEF EndBlock, StampsPast, CountExact, Record
<1>3. ASSUME NEW tx \in Tx, DeliverAccepted(tx)
      PROVE  StampsPast' /\ CountExact'
  <2>1. phase = "deliver" /\ height' = height /\ height \in Nat
    BY <1>3 DEF DeliverAccepted, TypeOK
  <2>2. ASSUME NEW a \in Accounts
        PROVE  /\ Record(a)'.lastTxBlock <= height
               /\ TxCount(Record(a)', height) = included'[a]
    <3>1. /\ TxCount(Record(a), height) = included[a]
          /\ Record(a).lastTxBlock <= height
      BY <2>1 DEF CountExact, StampsPast
    <3>2. CASE a \in tx.signers
      <4>1. /\ included'[a] = included[a] + 1
            /\ TxCount(Record(a)', height) = TxCount(Record(a), height) + 1
            /\ Record(a)'.lastTxBlock = height
        BY <1>3, <3>2, AcceptedCounts
      <4> QED
        BY <2>1, <3>1, <4>1, SMT
    <3>3. CASE a \notin tx.signers
      <4>1. included'[a] = included[a] /\ Record(a)' = Record(a)
        BY <1>3, <3>3, AcceptedCounts
      <4> QED
        BY <3>1, <4>1
    <3> QED
      BY <3>2, <3>3
  <2> QED
    BY <2>1, <2>2 DEF StampsPast, CountExact
<1>4. ASSUME NEW tx \in Tx, DeliverRejected(tx)
      PROVE  StampsPast' /\ CountExact'
  BY <1>4 DEF DeliverRejected, StampsPast, CountExact, Record
<1>5. CASE UNCHANGED vars
  BY <1>5 DEF vars, StampsPast, CountExact, Record
<1> QED
  BY <1>1, <1>2, <1>3, <1>4, <1>5 DEF Next

(***************************************************************************)
(* The counter compared with the limit is the number of transactions the   *)
(* account signed in this block: the limit refuses nobody early, and       *)
(* rejected transactions use up nothing (keeper.go:259-262, ante.go:44-46).*)
(***************************************************************************)
THEOREM CountIsExact ==
  ASSUME FreshCounts
  PROVE  Spec => []CountExact
<1>1. Init => StampsPast /\ CountExact
  <2> SUFFICES ASSUME Init
               PROVE  StampsPast /\ CountExact
    OBVIOUS
  <2>1. \A a \in Accounts : Record(a) = Grant(a)
    BY DEF Init, Record, Grant
  <2>2. phase = "committed" /\ height = 0
    BY DEF Init
  <2> QED
    BY <2>1, <2>2, FreshCounts, SMT DEF FreshCounts, StampsPast, CountExact
<1>2. TypeOK /\ StampsPast /\ CountExact /\ [Next]_vars => StampsPast' /\ CountExact'
  BY CountExactStep
<1> QED
  BY <1>1, <1>2, TypeCorrect, PTL DEF Spec
-----------------------------------------------------------------------------
(***************************************************************************)
(* The refinement of TokenBucket.  A bucket holds what a record would hold *)
(* if its owner had gained the peak for every block since the time stamp,  *)
(* so the record GetAccountMana computes never holds more than the bucket. *)
(***************************************************************************)
LEMMA BucketTypes ==
  ASSUME NEW a \in Accounts
  PROVE  /\ PeakPerBlock \in Nat
         /\ PeakCap \in Nat
         /\ Grant(a).mana \in Nat
         /\ Burst[a] \in Nat
         /\ PeakCap <= Burst[a]
         /\ Grant(a).mana <= Burst[a]
<1>1. PeakPerBlock \in Nat
  BY PeakRateType, PerBlockMonotone DEF PeakPerBlock
<1>2. PeakCap \in Nat
  BY PeakRateType, MaxManaMonotone DEF PeakCap
<1>3. Grant(a) \in AccountMana
  BY ChainAssumption, LoadType DEF ChainAssumption, Grant
<1>4. Grant(a).mana \in Nat
  BY <1>3, MathAssumption, SMT DEF AccountMana, Uint64, MathAssumption
<1>5. Burst[a] = IF Grant(a).mana > PeakCap THEN Grant(a).mana ELSE PeakCap
  BY DEF Burst
<1> QED
  BY <1>1, <1>2, <1>4, <1>5, SMT

\* The numbers of a record.
LEMMA RecordTypes ==
  ASSUME IsStore(store), height \in Nat, NEW a \in Accounts
  PROVE  /\ Record(a).mana \in Nat
         /\ Record(a).lastUpdateHeight \in Nat
         /\ Elapsed(a) \in Nat
         /\ height <= Record(a).lastUpdateHeight => Elapsed(a) = 0
         /\ height > Record(a).lastUpdateHeight =>
               Elapsed(a) = height - Record(a).lastUpdateHeight
         /\ Tokens[a] = ClampedSum(Record(a).mana, PeakPerBlock, Elapsed(a), Burst[a])
         /\ Tokens[a] \in Nat
         /\ Tokens[a] <= Burst[a]
<1>1. Record(a) \in AccountMana
  BY LoadType DEF Record
<1>2. Record(a).mana \in Nat /\ Record(a).lastUpdateHeight \in Nat
  BY <1>1, MathAssumption, SMT DEF AccountMana, Uint64, MathAssumption
<1>3. /\ Elapsed(a) \in Nat
      /\ height <= Record(a).lastUpdateHeight => Elapsed(a) = 0
      /\ height > Record(a).lastUpdateHeight =>
            Elapsed(a) = height - Record(a).lastUpdateHeight
  BY <1>2, SMT DEF Elapsed
<1>4. Tokens[a] = ClampedSum(Record(a).mana, PeakPerBlock, Elapsed(a), Burst[a])
  BY DEF Tokens
<1>5. /\ ClampedSum(Record(a).mana, PeakPerBlock, Elapsed(a), Burst[a]) \in Nat
      /\ ClampedSum(Record(a).mana, PeakPerBlock, Elapsed(a), Burst[a]) <= Burst[a]
  BY <1>2, <1>3, BucketTypes, ClampedSumBounds
<1> QED
  BY <1>2, <1>3, <1>4, <1>5

\* A record never holds more than its bucket can.
MetersBounded == \A a \in Accounts : Record(a).mana <= Burst[a]

\* What an account can spend is no more than the bucket of the mapping holds.
LEMMA NowWithinTokens ==
  ASSUME TypeOK, MetersBounded, NEW a \in Accounts,
         CanGetAccountMana(store, bank, height, a)
  PROVE  /\ Now(a).mana \in Nat
         /\ Now(a).mana <= Tokens[a]
<1> DEFINE rate == ExactRate(bank.balance[a], bank.supply)
<1>1. /\ bank.balance[a] \in Nat /\ bank.supply \in Nat
      /\ bank.balance[a] <= bank.supply
  BY BankRead DEF TypeOK
<1>2. /\ height \in Nat /\ IsStore(store)
      /\ Record(a) \in AccountMana
      /\ CanRegenerate(Record(a), bank.balance[a], bank.supply, height)
      /\ Now(a) = RegenerateMana(Record(a), bank.balance[a], bank.supply, height)
  BY LoadType DEF TypeOK, Record, CanGetAccountMana, Now, GetAccountMana
<1>3. Now(a) \in AccountMana
  BY NowResult
<1>4. Now(a).mana \in Nat
  BY <1>3, MathAssumption, SMT DEF AccountMana, Uint64, MathAssumption
<1>5. CASE height <= Record(a).lastUpdateHeight
  <2>1. Now(a) = Record(a) /\ Elapsed(a) = 0
    BY <1>2, <1>5, RecordTypes DEF RegenerateMana
  <2>2. Tokens[a] = ClampedSum(Record(a).mana, PeakPerBlock, 0, Burst[a])
    BY <1>2, <2>1, RecordTypes
  <2>3. PeakPerBlock * 0 = 0 /\ Record(a).mana <= Burst[a] /\ Burst[a] \in Nat
    BY BucketTypes, SMT DEF MetersBounded
  <2> QED
    BY <1>4, <2>1, <2>2, <2>3, SMT DEF ClampedSum
<1>6. CASE height > Record(a).lastUpdateHeight
  <2>1. Elapsed(a) \in Nat /\ Elapsed(a) = height - Record(a).lastUpdateHeight
    BY <1>2, <1>6, RecordTypes
  <2>2. Now(a).mana = ClampedSum(Record(a).mana, PerBlock(rate), Elapsed(a), MaxMana(rate))
    BY <1>1, <1>2, <1>6, <2>1, RegenerateResult
  <2>3. rate \in Nat /\ PeakRate \in Nat /\ rate <= PeakRate
    BY <1>1, RateBounded, PeakRateType
  <2> HIDE DEF rate
  <2>4. /\ PerBlock(rate) \in Nat /\ PeakPerBlock \in Nat /\ PerBlock(rate) <= PeakPerBlock
        /\ MaxMana(rate) \in Nat /\ PeakCap \in Nat /\ MaxMana(rate) <= PeakCap
    BY <2>3, PerBlockMonotone, MaxManaMonotone DEF PeakPerBlock, PeakCap
  <2>5. Burst[a] \in Nat /\ MaxMana(rate) <= Burst[a] /\ Record(a).mana \in Nat
    BY <1>2, <2>4, BucketTypes, RecordTypes, SMT
  <2>6. ClampedSum(Record(a).mana, PerBlock(rate), Elapsed(a), MaxMana(rate))
          <= ClampedSum(Record(a).mana, PeakPerBlock, Elapsed(a), Burst[a])
    BY <2>1, <2>4, <2>5, ClampedSumMonotone
  <2> QED
    BY <1>2, <1>4, <2>2, <2>6, RecordTypes
<1> QED
  BY <1>2, <1>5, <1>6, RecordTypes, SMT

\* What an accepted transaction does to an account's record and bucket.
LEMMA AcceptedBucket ==
  ASSUME TypeOK, TypeOK', MetersBounded, NEW tx \in Tx, DeliverAccepted(tx), NEW a \in Accounts
  PROVE  /\ Charge(tx, a) \in Nat /\ Charge(tx, a) <= Tokens[a]
         /\ spent'[a] = spent[a] + Charge(tx, a)
         /\ Tokens'[a] \in Nat
         /\ Tokens'[a] + Charge(tx, a) <= Tokens[a]
         /\ Record(a)'.mana <= Burst[a]
<1>1. /\ AnteAccepts(tx) /\ Record(a)' = LoadAccountMana(AnteWrites(tx), a)
      /\ height' = height /\ height \in Nat
      /\ IsStore(store) /\ IsStore(store')
  BY DEF DeliverAccepted, Record, TypeOK
<1>2. Charge(tx, a) \in Nat
  BY CostType, SMT DEF Charge
<1>3. spent'[a] = spent[a] + Charge(tx, a)
  BY <1>2, SMT DEF DeliverAccepted, Charge, TypeOK
<1>4. Tokens[a] \in Nat /\ Tokens[a] <= Burst[a] /\ Burst[a] \in Nat
  BY <1>1, RecordTypes, BucketTypes
<1>5. Tokens'[a] = ClampedSum(Record(a)'.mana, PeakPerBlock, Elapsed(a)', Burst[a])
  BY DEF Tokens
<1>6. CASE a \notin tx.signers
  <2>1. Record(a)' = Record(a)
    BY <1>1, <1>6, AcceptedRecords
  <2>2. Elapsed(a)' = Elapsed(a)
    BY <1>1, <2>1 DEF Elapsed
  <2>3. Tokens'[a] = Tokens[a]
    BY <1>1, <1>5, <2>1, <2>2, RecordTypes
  <2>4. Charge(tx, a) = 0
    BY <1>6 DEF Charge, Tx
  <2> QED
    BY <1>3, <1>4, <2>1, <2>3, <2>4, SMT DEF MetersBounded
<1>7. CASE a \in tx.signers
  <2>1. /\ CanGetAccountMana(store, bank, height, a)
        /\ Charge(tx, a) <= Now(a).mana
        /\ Record(a)'.mana = Now(a).mana - Charge(tx, a)
        /\ Record(a)'.lastUpdateHeight = Now(a).lastUpdateHeight
    BY <1>1, <1>7, AcceptedRecords
  <2>2. Now(a).mana \in Nat /\ Now(a).mana <= Tokens[a]
    BY <2>1, NowWithinTokens
  <2>3. height <= Now(a).lastUpdateHeight /\ Now(a).lastUpdateHeight \in Nat
    BY <2>1, NowResult DEF AccountMana
  <2>4. Elapsed(a)' = 0
    BY <1>1, <2>1, <2>3, SMT DEF Elapsed
  <2>5. Record(a)'.mana \in Nat
    BY <1>2, <2>1, <2>2, SMT
  <2>6. /\ ClampedSum(Record(a)'.mana, PeakPerBlock, 0, Burst[a]) \in Nat
        /\ ClampedSum(Record(a)'.mana, PeakPerBlock, 0, Burst[a])
             <= Record(a)'.mana + PeakPerBlock * 0
    BY <2>5, BucketTypes, ClampedSumBounds
  <2>7. PeakPerBlock * 0 = 0
    BY BucketTypes, SMT
  <2>8. /\ Tokens'[a] \in Nat
        /\ Tokens'[a] <= Record(a)'.mana + PeakPerBlock * 0
    BY <1>5, <2>4, <2>6
  <2> QED
    BY <1>2, <1>3, <1>4, <2>1, <2>2, <2>5, <2>7, <2>8, SMT
<1> QED
  BY <1>2, <1>6, <1>7
\* Between two blocks a bucket gains at most one peak gain.
LEMMA TickRefines ==
  ASSUME TypeOK, TypeOK', MetersBounded, BeginBlock
  PROVE  Bucket!Tick /\ MetersBounded'
<1>1. /\ height' = height + 1 /\ UNCHANGED <<store, spent>>
      /\ height \in Nat /\ height' \in Nat /\ IsStore(store) /\ IsStore(store')
  BY DEF BeginBlock, TypeOK
<1>2. ASSUME NEW a \in Accounts
      PROVE  /\ Tokens'[a] \in Nat
             /\ Tokens'[a] <= Tokens[a] + PeakPerBlock
             /\ Tokens'[a] <= Burst[a]
             /\ Record(a)'.mana <= Burst[a]
  <2> DEFINE m == Record(a).mana
             e == Elapsed(a)
             f == Elapsed(a)'
  <2>1. Record(a)' = Record(a)
    BY <1>1 DEF Record
  <2>2. /\ m \in Nat /\ e \in Nat /\ Record(a).lastUpdateHeight \in Nat
        /\ Tokens[a] = ClampedSum(m, PeakPerBlock, e, Burst[a])
    BY <1>1, RecordTypes
  <2>3. f \in Nat /\ f <= e + 1
    BY <1>1, <2>1, <2>2, SMT DEF Elapsed
  <2>4. Tokens'[a] = ClampedSum(m, PeakPerBlock, f, Burst[a])
    BY <2>1 DEF Tokens
  <2>5. PeakPerBlock \in Nat /\ Burst[a] \in Nat
    BY BucketTypes
  <2>6. m <= Burst[a]
    BY DEF MetersBounded
  <2> HIDE DEF m, e, f
  <2>7. /\ PeakPerBlock * f <= PeakPerBlock * (e + 1)
        /\ PeakPerBlock * (e + 1) = PeakPerBlock * e + PeakPerBlock
        /\ PeakPerBlock * f \in Nat /\ PeakPerBlock * e \in Nat
    BY <2>2, <2>3, <2>5, MulMonotone, SMT
  <2>8. /\ ClampedSum(m, PeakPerBlock, f, Burst[a]) \in Nat
        /\ ClampedSum(m, PeakPerBlock, f, Burst[a]) <= Burst[a]
    BY <2>2, <2>3, <2>5, ClampedSumBounds
  <2>9. ClampedSum(m, PeakPerBlock, f, Burst[a])
          <= ClampedSum(m, PeakPerBlock, e, Burst[a]) + PeakPerBlock
    BY <2>2, <2>5, <2>7, SMT DEF ClampedSum
  <2> QED
    BY <2>1, <2>2, <2>4, <2>6, <2>8, <2>9 DEF m
<1>3. Tokens' \in [Accounts -> Nat]
  BY <1>2 DEF Tokens
<1> QED
  BY <1>1, <1>2, <1>3 DEF Bucket!Tick, MetersBounded

\* An accepted transaction spends its cost out of the payer's bucket.
LEMMA SpendRefines ==
  ASSUME TypeOK, TypeOK', MetersBounded, NEW tx \in Tx, DeliverAccepted(tx)
  PROVE  /\ \E a \in Accounts : Bucket!Spend(a, spent'[a] - spent[a])
         /\ MetersBounded'
<1> DEFINE p == tx.payer
<1>1. p \in Accounts /\ Charge(tx, p) = Cost(tx)
  BY DEF Tx, Charge
<1>2. \A a \in Accounts :
        /\ Charge(tx, a) \in Nat /\ Charge(tx, a) <= Tokens[a]
        /\ spent'[a] = spent[a] + Charge(tx, a)
        /\ Tokens'[a] \in Nat
        /\ Tokens'[a] + Charge(tx, a) <= Tokens[a]
        /\ Record(a)'.mana <= Burst[a]
  BY AcceptedBucket
<1>3. \A a \in Accounts : /\ spent[a] \in Nat
                          /\ Tokens[a] \in Nat
                          /\ spent'[a] - spent[a] = Charge(tx, a)
  <2> SUFFICES ASSUME NEW a \in Accounts
               PROVE  /\ spent[a] \in Nat
                      /\ Tokens[a] \in Nat
                      /\ spent'[a] - spent[a] = Charge(tx, a)
    OBVIOUS
  <2>1. spent[a] \in Nat /\ Tokens[a] \in Nat
    BY RecordTypes DEF TypeOK
  <2> QED
    BY <1>2, <2>1, SMT
<1>4. spent'[p] - spent[p] \in 0..Tokens[p]
  BY <1>1, <1>2, <1>3, SMT
<1>5. spent' = [spent EXCEPT ![p] = @ + (spent'[p] - spent[p])]
  <2>1. spent' = [spent EXCEPT ![p] = @ + Cost(tx)]
    BY DEF DeliverAccepted
  <2> QED
    BY <1>1, <1>3, <2>1
<1>6. Tokens' \in [Accounts -> Nat]
  BY <1>2 DEF Tokens
<1>7. \A a \in Accounts : Tokens'[a] + (spent'[a] - spent[a]) <= Tokens[a]
  BY <1>2, <1>3
<1>8. UNCHANGED height
  BY DEF DeliverAccepted
<1>9. Bucket!Spend(p, spent'[p] - spent[p])
  BY <1>4, <1>5, <1>6, <1>7, <1>8 DEF Bucket!Spend
<1> QED
  BY <1>1, <1>2, <1>9 DEF MetersBounded

\* The first state maps to the bucket's, and no grant is above its burst.
LEMMA BucketInit ==
  ASSUME Init
  PROVE  Bucket!Init /\ MetersBounded
<1>1. IsStore(store) /\ height \in Nat /\ height = 0 /\ spent = [a \in Accounts |-> 0]
  BY ChainAssumption DEF Init, ChainAssumption
<1>2. \A a \in Accounts : Tokens[a] \in Nat /\ Tokens[a] <= Burst[a]
  BY <1>1, RecordTypes
<1>3. Tokens \in [Accounts -> Nat]
  BY <1>2 DEF Tokens
<1>4. \A a \in Accounts : Record(a).mana <= Burst[a]
  BY BucketTypes DEF Init, Record, Grant
<1> QED
  BY <1>1, <1>2, <1>3, <1>4 DEF Bucket!Init, MetersBounded

\* A block fills the bucket, a transaction empties it, a transfer is a stutter.
LEMMA BucketStep ==
  ASSUME TypeOK, TypeOK', MetersBounded, [Next]_vars
  PROVE  [Bucket!Next]_(Bucket!vars) /\ MetersBounded'
<1>1. CASE BeginBlock
  BY <1>1, TickRefines DEF Bucket!Next
<1>2. ASSUME NEW tx \in Tx, DeliverAccepted(tx)
      PROVE  [Bucket!Next]_(Bucket!vars) /\ MetersBounded'
  BY <1>2, SpendRefines DEF Bucket!Next
<1>3. CASE UNCHANGED <<height, store, spent>>
  BY <1>3 DEF Bucket!vars, Tokens, Elapsed, Record, MetersBounded
<1>4. CASE EndBlock
  BY <1>3, <1>4 DEF EndBlock
<1>5. ASSUME NEW tx \in Tx, DeliverRejected(tx)
      PROVE  [Bucket!Next]_(Bucket!vars) /\ MetersBounded'
  BY <1>3, <1>5 DEF DeliverRejected
<1>6. CASE UNCHANGED vars
  BY <1>3, <1>6 DEF vars
<1> QED
  BY <1>1, <1>2, <1>4, <1>5, <1>6 DEF Next

(***************************************************************************)
(* The records implement a rate limiter: over any run of k blocks, an      *)
(* account spends at most its burst and k peak gains (keeper.go:152-247).  *)
(***************************************************************************)
THEOREM RefinesTokenBucket == Spec => ImplementsTokenBucket
<1>1. Init => Bucket!Init /\ MetersBounded
  BY BucketInit
<1>2. TypeOK /\ TypeOK' /\ MetersBounded /\ [Next]_vars
        => [Bucket!Next]_(Bucket!vars) /\ MetersBounded'
  BY BucketStep
<1> QED
  BY <1>1, <1>2, TypeCorrect, PTL DEF Spec, ImplementsTokenBucket, Bucket!Spec

-----------------------------------------------------------------------------
\* No record is stamped by a block that has not begun.
NotAhead == \A a \in Accounts : Record(a).lastUpdateHeight <= height

\* A read of any store at any height that is not before the record's stamp.
LEMMA ReadResult ==
  ASSUME RatesFit, NEW s, IsStore(s), NEW b \in BankStates, NEW h \in Nat,
         NEW a \in Accounts, LoadAccountMana(s, a).lastUpdateHeight <= h
  PROVE  LET acct == LoadAccountMana(s, a)
             now  == GetAccountMana(s, b, h, a)
             rate == ExactRate(b.balance[a], b.supply)
         IN  /\ acct \in AccountMana
             /\ acct.mana \in Nat
             /\ acct.lastUpdateHeight \in Nat
             /\ now \in AccountMana
             /\ now.mana \in Nat
             /\ now.lastUpdateHeight = h
             /\ rate \in Nat
             /\ PerBlock(rate) \in Nat
             /\ MaxMana(rate) \in Nat
             /\ h = acct.lastUpdateHeight => now = acct
             /\ h > acct.lastUpdateHeight =>
                  now.mana = ClampedSum(acct.mana, PerBlock(rate),
                                        h - acct.lastUpdateHeight, MaxMana(rate))
<1> DEFINE acct == LoadAccountMana(s, a)
           now  == GetAccountMana(s, b, h, a)
           rate == ExactRate(b.balance[a], b.supply)
<1>1. /\ b.balance[a] \in Nat /\ b.supply \in Nat /\ b.balance[a] <= b.supply
  BY ChainAssumption DEF ChainAssumption, IsBank
<1>2. acct \in AccountMana
  BY LoadType
<1>3. acct.lastUpdateHeight \in Nat /\ acct.mana \in Nat
  BY <1>2, MathAssumption, SMT DEF AccountMana, Uint64, MathAssumption
<1>4. CanRegenerate(acct, b.balance[a], b.supply, h)
  BY DEF RatesFit, CanRegenerate
<1>5. now = RegenerateMana(acct, b.balance[a], b.supply, h)
  BY DEF GetAccountMana
<1>6. /\ now \in AccountMana
      /\ h <= acct.lastUpdateHeight => now = acct
      /\ h > acct.lastUpdateHeight =>
           /\ now.lastUpdateHeight = h
           /\ now.mana = ClampedSum(acct.mana, PerBlock(rate),
                                    h - acct.lastUpdateHeight, MaxMana(rate))
  BY <1>1, <1>2, <1>4, <1>5, RegenerateResult
<1>7. now.mana \in Nat
  BY <1>6, MathAssumption, SMT DEF AccountMana, Uint64, MathAssumption
<1>8. rate \in Nat
  BY <1>1, RateBounded
<1> HIDE DEF now, rate
<1>9. PerBlock(rate) \in Nat /\ MaxMana(rate) \in Nat
  BY <1>8, PerBlockMonotone, MaxManaMonotone
<1> HIDE DEF acct
<1>10. /\ now.lastUpdateHeight = h
       /\ h = acct.lastUpdateHeight => now = acct
  <2>1. CASE h = acct.lastUpdateHeight
    BY <1>3, <1>6, <2>1, SMT
  <2>2. CASE h > acct.lastUpdateHeight
    BY <1>3, <1>6, <2>2, SMT
  <2> QED
    BY <1>3, <2>1, <2>2, SMT DEF acct
<1> QED
  BY <1>2, <1>3, <1>6, <1>7, <1>8, <1>9, <1>10 DEF acct, now, rate

-----------------------------------------------------------------------------
\* The meter of ManaMeter, as the mapping in ManaChain has it.
Levels == [a \in Accounts |-> GetAccountMana(store, bank, height, a).mana]

\* ManaMeter's own copies of the functions of a rate.
LEMMA MeterFunctions ==
  /\ \A b, a : Meter!RateOf(b, a) = RateOf(b, a)
  /\ \A r : Meter!PerBlock(r) = PerBlock(r)
  /\ \A r : Meter!MaxMana(r) = MaxMana(r)
  /\ \A m, g, n, c : Meter!ClampedSum(m, g, n, c) = ClampedSum(m, g, n, c)
  BY DEF Meter!RateOf, RateOf, Meter!ExactRate, ExactRate, Meter!Multiplier, Multiplier,
         Meter!PerBlock, PerBlock, Meter!MinPerBlock, MinPerBlock,
         Meter!MaxMana, MaxMana, Meter!ClampedSum, ClampedSum

\* A last gain under a cap that has not risen needs no memory of the old cap.
LEMMA CapMayFall ==
  ASSUME NEW m \in Nat, NEW g \in Nat, NEW k \in Nat, NEW c \in Nat, NEW d \in Nat, d <= c
  PROVE  ClampedSum(ClampedSum(m, g, k, c), g, 1, d) = ClampedSum(m, g, k + 1, d)
<1> DEFINE u == g * k
<1>1. u \in Nat /\ g * (k + 1) = u + g /\ g * 1 = g
  BY SMT
<1>2. /\ ClampedSum(m, g, k, c) = IF m + u < c THEN m + u ELSE c
      /\ ClampedSum(m, g, k + 1, d) = IF m + (u + g) < d THEN m + (u + g) ELSE d
  BY <1>1 DEF ClampedSum
<1> HIDE DEF u
<1>3. CASE m + u < c
  <2>1. ClampedSum(m + u, g, 1, d) = IF (m + u) + g < d THEN (m + u) + g ELSE d
    BY <1>1 DEF ClampedSum
  <2> QED
    BY <1>1, <1>2, <1>3, <2>1, SMT
<1>4. CASE ~ (m + u < c)
  <2>1. ClampedSum(c, g, 1, d) = IF c + g < d THEN c + g ELSE d
    BY <1>1 DEF ClampedSum
  <2> QED
    BY <1>1, <1>2, <1>4, <2>1, SMT
<1> QED
  BY <1>3, <1>4

\* A block refills every meter by one gain.
LEMMA MeterTick ==
  ASSUME RatesFit, TypeOK, TypeOK', NotAhead, BeginBlock, Calm
  PROVE  Meter!Tick /\ NotAhead'
<1>1. /\ height' = height + 1 /\ UNCHANGED <<store, spent>>
      /\ height \in Nat /\ height' \in Nat /\ IsStore(store)
      /\ bank \in BankStates /\ bank' \in BankStates
  BY DEF BeginBlock, TypeOK
<1>2. ASSUME NEW a \in Accounts
      PROVE  /\ Record(a)'.lastUpdateHeight <= height'
             /\ Levels'[a] = ClampedSum(Levels[a], PerBlock(RateOf(bank', a)), 1,
                                        MaxMana(RateOf(bank', a)))
  <2> DEFINE acct == LoadAccountMana(store, a)
             last == acct.lastUpdateHeight
             m    == acct.mana
             gain == PerBlock(RateOf(bank, a))
             cap  == MaxMana(RateOf(bank, a))
             low  == MaxMana(RateOf(bank', a))
             now  == GetAccountMana(store, bank, height, a)
             next == GetAccountMana(store, bank', height + 1, a)
  <2>1. last <= height /\ Record(a)' = acct
    BY <1>1 DEF NotAhead, Record
  <2>2. /\ m \in Nat /\ last \in Nat /\ gain \in Nat /\ cap \in Nat
        /\ height = last => now.mana = m
        /\ height > last => now.mana = ClampedSum(m, gain, height - last, cap)
    BY <1>1, <2>1, ReadResult DEF RateOf
  <2>3. last <= height + 1 /\ height + 1 > last /\ height + 1 \in Nat
    BY <1>1, <2>1, <2>2, SMT
  <2>4. /\ next.mana = ClampedSum(m, PerBlock(RateOf(bank', a)), (height + 1) - last, low)
        /\ low \in Nat
    BY <1>1, <2>3, ReadResult DEF RateOf
  <2>5. PerBlock(RateOf(bank', a)) = gain /\ low <= cap
    BY DEF Calm
  <2>6. Levels[a] = now.mana /\ Levels'[a] = next.mana
    BY <1>1 DEF Levels
  <2> HIDE DEF acct, m, gain, cap, low, now, next
  <2>7. next.mana = ClampedSum(now.mana, gain, 1, low)
    <3> HIDE DEF last
    <3>1. CASE height = last
      <4>1. (height + 1) - last = 1
        BY <1>1, <2>2, <3>1, SMT
      <4> QED
        BY <2>2, <2>4, <2>5, <3>1, <4>1
    <3>2. CASE height > last
      <4> DEFINE k == height - last
      <4>1. k \in Nat /\ (height + 1) - last = k + 1
        BY <1>1, <2>2, <3>2, SMT
      <4>2. /\ now.mana = ClampedSum(m, gain, k, cap)
            /\ next.mana = ClampedSum(m, gain, k + 1, low)
        BY <2>2, <2>4, <2>5, <3>2, <4>1
      <4> HIDE DEF k
      <4>3. ClampedSum(ClampedSum(m, gain, k, cap), gain, 1, low)
              = ClampedSum(m, gain, k + 1, low)
        BY <2>2, <2>4, <2>5, <4>1, CapMayFall
      <4> QED
        BY <4>2, <4>3
    <3> QED
      BY <1>1, <2>1, <2>2, <3>1, <3>2, SMT
  <2> QED
    BY <1>1, <2>1, <2>3, <2>5, <2>6, <2>7 DEF gain, low
<1>3. Levels' = [a \in Accounts |->
                   Meter!ClampedSum(Levels[a], Meter!PerBlock(Meter!RateOf(bank', a)), 1,
                                    Meter!MaxMana(Meter!RateOf(bank', a)))]
  <2>1. \A a \in Accounts :
          Levels'[a] = Meter!ClampedSum(Levels[a], Meter!PerBlock(Meter!RateOf(bank', a)), 1,
                                        Meter!MaxMana(Meter!RateOf(bank', a)))
    BY <1>2, MeterFunctions
  <2> QED
    BY <2>1 DEF Levels
<1> QED
  BY <1>1, <1>2, <1>3 DEF Meter!Tick, NotAhead, Levels

\* Inside a block a calm bank shows on no meter.
LEMMA CalmRead ==
  ASSUME RatesFit, TypeOK, TypeOK', NotAhead, Calm, height' = height,
         NEW a \in Accounts, Record(a)' = Record(a)
  PROVE  Levels'[a] = Levels[a]
<1> DEFINE last == Record(a).lastUpdateHeight
<1>1. /\ height \in Nat /\ IsStore(store) /\ IsStore(store')
      /\ bank \in BankStates /\ bank' \in BankStates
  BY DEF TypeOK
<1>2. last <= height
  BY DEF NotAhead
<1>3. /\ last \in Nat
      /\ height = last => Now(a) = Record(a)
      /\ height > last => Now(a).mana = ClampedSum(Record(a).mana, PerBlock(RateOf(bank, a)),
                                                   height - last, MaxMana(RateOf(bank, a)))
  BY <1>1, <1>2, ReadResult DEF Record, Now, RateOf
<1>4. LoadAccountMana(store', a) = Record(a)
  BY DEF Record
<1> DEFINE next == GetAccountMana(store', bank', height, a)
<1>5. /\ height = last => next = Record(a)
      /\ height > last => next.mana = ClampedSum(Record(a).mana, PerBlock(RateOf(bank', a)),
                                                 height - last, MaxMana(RateOf(bank', a)))
  BY <1>1, <1>2, <1>4, ReadResult DEF RateOf
<1>6. PerBlock(RateOf(bank', a)) = PerBlock(RateOf(bank, a))
      /\ MaxMana(RateOf(bank', a)) = MaxMana(RateOf(bank, a))
  BY DEF Calm
<1>7. Levels[a] = Now(a).mana /\ Levels'[a] = next.mana
  BY DEF Levels, Now
<1> HIDE DEF next, last
<1>8. height = last \/ height > last
  BY <1>1, <1>2, <1>3, SMT
<1> QED
  BY <1>3, <1>5, <1>6, <1>7, <1>8

\* A transaction takes its cost out of the payer's meter and nothing else.
LEMMA MeterSpend ==
  ASSUME RatesFit, TypeOK, TypeOK', NotAhead, NEW tx \in Tx, DeliverAccepted(tx), Calm
  PROVE  (\E a \in Accounts : Meter!Spend(a, spent'[a] - spent[a])) /\ NotAhead'
<1> DEFINE p == tx.payer
<1>1. /\ height' = height /\ height \in Nat /\ AnteAccepts(tx) /\ store' = AnteWrites(tx)
      /\ IsStore(store) /\ IsStore(store') /\ bank \in BankStates
      /\ spent \in [Accounts -> Nat] /\ spent' = [spent EXCEPT ![p] = @ + Cost(tx)]
  BY DEF DeliverAccepted, TypeOK
<1>2. p \in Accounts /\ p \in tx.signers /\ Cost(tx) \in Nat
  BY CostType DEF Tx
<1>3. ASSUME NEW a \in Accounts
      PROVE  /\ Record(a)'.lastUpdateHeight <= height'
             /\ Levels[a] \in Nat
             /\ Charge(tx, a) \in Nat /\ Charge(tx, a) <= Levels[a]
             /\ Levels'[a] = Levels[a] - Charge(tx, a)
  <2>1. Record(a).lastUpdateHeight <= height
    BY DEF NotAhead
  <2>2. /\ Now(a).mana \in Nat /\ Now(a).lastUpdateHeight = height
    BY <1>1, <2>1, ReadResult DEF Now, Record
  <2>3. Levels[a] = Now(a).mana /\ Levels'[a] = GetAccountMana(store', bank', height, a).mana
    BY <1>1 DEF Levels, Now
  <2>4. Charge(tx, a) \in Nat
    BY <1>2, SMT DEF Charge
  <2>5. Record(a)' = LoadAccountMana(AnteWrites(tx), a)
    BY <1>1 DEF Record
  <2>6. CASE a \notin tx.signers
    <3>1. Record(a)' = Record(a) /\ Charge(tx, a) = 0
      BY <1>1, <1>2, <2>5, <2>6, AcceptedRecords DEF Charge
    <3>2. Levels'[a] = Levels[a]
      BY <1>1, <3>1, CalmRead
    <3> QED
      BY <1>1, <2>1, <2>2, <2>3, <3>1, <3>2, SMT
  <2>7. CASE a \in tx.signers
    <3>1. /\ Charge(tx, a) <= Now(a).mana
          /\ Record(a)'.mana = Now(a).mana - Charge(tx, a)
          /\ Record(a)'.lastUpdateHeight = height
      BY <1>1, <2>2, <2>5, <2>7, AcceptedRecords
    <3>2. GetAccountMana(store', bank', height, a) = Record(a)'
      <4>1. height <= LoadAccountMana(store', a).lastUpdateHeight
        BY <1>1, <2>5, <3>1, SMT
      <4> QED
        BY <1>1, <2>5, <4>1 DEF GetAccountMana, RegenerateMana
    <3> QED
      BY <1>1, <2>2, <2>3, <2>4, <3>1, <3>2, SMT
  <2> QED
    BY <2>6, <2>7
<1>4. \A a \in Accounts : a # p => Levels'[a] = Levels[a]
  <2> SUFFICES ASSUME NEW a \in Accounts, a # p
               PROVE  Levels'[a] = Levels[a]
    OBVIOUS
  <2>1. Charge(tx, a) = 0 /\ Levels[a] \in Nat /\ Levels'[a] = Levels[a] - Charge(tx, a)
    BY <1>3 DEF Charge
  <2> QED
    BY <2>1, SMT
<1>5. /\ Cost(tx) <= Levels[p] /\ Levels[p] \in Nat
      /\ Levels'[p] = Levels[p] - Cost(tx)
  BY <1>2, <1>3 DEF Charge
<1>6. spent'[p] - spent[p] = Cost(tx)
  <2>1. spent'[p] = spent[p] + Cost(tx) /\ spent[p] \in Nat
    BY <1>1, <1>2
  <2> QED
    BY <1>2, <2>1, SMT
<1>7. Levels' = [Levels EXCEPT ![p] = @ - Cost(tx)]
  BY <1>2, <1>4, <1>5 DEF Levels
<1>8. Cost(tx) \in 0..Levels[p]
  BY <1>2, <1>5, SMT
<1>9. Meter!Spend(p, Cost(tx))
  BY <1>1, <1>7, <1>8 DEF Meter!Spend, Levels
<1> QED
  BY <1>2, <1>3, <1>6, <1>9 DEF NotAhead

\* The first state maps to the grants.
LEMMA MeterInit ==
  ASSUME RatesFit, FreshStamps, Init
  PROVE  Meter!Init /\ NotAhead
<1>1. /\ IsStore(store) /\ store = GenesisStore /\ height = 0 /\ height \in Nat
      /\ bank \in BankStates /\ spent = [a \in Accounts |-> 0]
  BY ChainAssumption DEF Init, ChainAssumption
<1>2. \A a \in Accounts : Record(a).lastUpdateHeight = 0
  BY <1>1, FreshStamps DEF FreshStamps, Record, Grant
<1>3. NotAhead
  BY <1>1, <1>2, SMT DEF NotAhead
<1>4. \A a \in Accounts : GetAccountMana(store, bank, height, a) \in AccountMana
  BY <1>1, <1>3, ReadResult DEF NotAhead, Record
<1>5. Levels \in [Accounts -> Meter!Uint64]
  BY <1>4 DEF Levels, AccountMana, Uint64, Meter!Uint64
<1> QED
  BY <1>1, <1>3, <1>5 DEF Meter!Init, Levels

\* A block refills every meter, a transaction charges one, all else stutters.
LEMMA MeterStep ==
  ASSUME RatesFit, TypeOK, TypeOK', NotAhead, [Next]_vars, [Calm]_vars
  PROVE  [Meter!Next]_(Meter!vars) /\ NotAhead'
<1>1. CASE UNCHANGED vars
  BY <1>1 DEF vars, Meter!vars, NotAhead, Record
<1>2. ASSUME Calm, height' = height, store' = store, spent' = spent
      PROVE  [Meter!Next]_(Meter!vars) /\ NotAhead'
  <2>1. \A a \in Accounts : Record(a)' = Record(a)
    BY <1>2 DEF Record
  <2>2. \A a \in Accounts : Levels'[a] = Levels[a]
    BY <1>2, <2>1, CalmRead
  <2>3. Levels' = Levels
    BY <2>2 DEF Levels
  <2>4. Meter!MoveCoins
    BY <1>2, <2>3 DEF Meter!MoveCoins, Levels
  <2>5. NotAhead'
    BY <1>2, <2>1 DEF NotAhead
  <2> QED
    BY <2>4, <2>5 DEF Meter!Next
<1>3. CASE Calm /\ Next
  <2>1. CASE BeginBlock
    BY <1>3, <2>1, MeterTick DEF Meter!Next
  <2>2. ASSUME NEW tx \in Tx, DeliverAccepted(tx)
        PROVE  [Meter!Next]_(Meter!vars) /\ NotAhead'
    BY <1>3, <2>2, MeterSpend DEF Meter!Next
  <2>3. CASE EndBlock
    BY <1>2, <1>3, <2>3 DEF EndBlock
  <2>4. ASSUME NEW tx \in Tx, DeliverRejected(tx)
        PROVE  [Meter!Next]_(Meter!vars) /\ NotAhead'
    BY <1>2, <1>3, <2>4 DEF DeliverRejected
  <2> QED
    BY <1>3, <2>1, <2>2, <2>3, <2>4 DEF Next
<1> QED
  BY <1>1, <1>3

(***************************************************************************)
(* In every behaviour whose steps are calm the lazily updated records      *)
(* implement a meter that is refilled at every block and charged exactly   *)
(* the price of each transaction, if rates fit the word and genesis        *)
(* records carry no stamp (keeper.go:152-247, README.md:47-56).            *)
(***************************************************************************)
THEOREM RefinesMeter ==
  ASSUME RatesFit, FreshStamps
  PROVE  Spec /\ [][Calm]_vars => ImplementsMeter
<1>1. Init => Meter!Init /\ NotAhead
  BY RatesFit, FreshStamps, MeterInit
<1>2. TypeOK /\ TypeOK' /\ NotAhead /\ [Next]_vars /\ [Calm]_vars
        => [Meter!Next]_(Meter!vars) /\ NotAhead'
  BY RatesFit, MeterStep
<1> QED
  BY <1>1, <1>2, TypeCorrect, PTL DEF Spec, ImplementsMeter, Meter!Spec

\* Everybody gains the minimum, the holder of the whole supply included: so
\* with the shipped parameters, as the run large_holder shows.
FlatGain == PeakPerBlock = MinPerBlock

(***************************************************************************)
(* What a bank may do to an account: change its rate below the floor, or,  *)
(* between two blocks, mint (app.go:370) and slash nothing of its balance. *)
(***************************************************************************)
Ordinary ==
  \A a \in Accounts :
    \/ RateOf(bank, a) <= MinManaFloor /\ RateOf(bank', a) <= MinManaFloor
    \/ RateOf(bank', a) = RateOf(bank, a)
    \/ /\ height' # height
       /\ bank'.balance[a] = bank.balance[a]
       /\ bank'.supply >= bank.supply
       /\ bank.supply > 0

\* Where the gain is flat that is calm.
LEMMA OrdinaryIsCalm ==
  ASSUME FlatGain, bank \in BankStates, bank' \in BankStates, Ordinary
  PROVE  Calm
<1> SUFFICES ASSUME NEW a \in Accounts
             PROVE  /\ PerBlock(RateOf(bank', a)) = PerBlock(RateOf(bank, a))
                    /\ MaxMana(RateOf(bank', a)) <= MaxMana(RateOf(bank, a))
                    /\ height' = height => MaxMana(RateOf(bank', a)) = MaxMana(RateOf(bank, a))
  BY DEF Calm
<1> DEFINE r == RateOf(bank, a)
           n == RateOf(bank', a)
<1>1. /\ bank.balance[a] \in Nat /\ bank.supply \in Nat /\ bank.balance[a] <= bank.supply
      /\ bank'.balance[a] \in Nat /\ bank'.supply \in Nat /\ bank'.balance[a] <= bank'.supply
  BY ChainAssumption DEF ChainAssumption, IsBank
<1>2. r \in Nat /\ r <= PeakRate /\ n \in Nat /\ n <= PeakRate
  BY <1>1, RateBounded DEF RateOf
<1>3. \A q \in Nat : q <= PeakRate => PerBlock(q) = MinPerBlock
  <2> SUFFICES ASSUME NEW q \in Nat, q <= PeakRate
               PROVE  PerBlock(q) = MinPerBlock
    OBVIOUS
  <2>1. PerBlock(q) \in Nat /\ PerBlock(q) <= PeakPerBlock
    BY PeakRateType, PerBlockMonotone DEF PeakPerBlock
  <2>2. MinPerBlock \in Nat /\ MinPerBlock <= PerBlock(q)
    BY MinPerBlockIsLeast
  <2>3. PerBlock(q) <= MinPerBlock
    BY <2>1 DEF FlatGain
  <2> QED
    BY <2>1, <2>2, <2>3, SMT
<1>4. MaxMana(r) \in Nat /\ MaxMana(n) \in Nat
  BY <1>2, MaxManaMonotone, SMT
<1> HIDE DEF r, n
<1>5. CASE r <= MinManaFloor /\ n <= MinManaFloor
  <2>1. MaxMana(r) = MinManaFloor /\ MaxMana(n) = MinManaFloor
    BY <1>2, <1>5, MathAssumption, SMT DEF MaxMana, MathAssumption
  <2> QED
    BY <1>2, <1>3, <1>4, <2>1, SMT DEF r, n
<1>6. CASE n = r
  BY <1>4, <1>6, SMT DEF r, n
<1>7. CASE /\ height' # height /\ bank'.balance[a] = bank.balance[a]
           /\ bank'.supply >= bank.supply /\ bank.supply > 0
  <2>1. bank'.balance[a] <= bank.balance[a] /\ bank.supply <= bank'.supply
    BY <1>1, <1>7, SMT
  <2>2. n <= r
    BY <1>1, <2>1, RateMonotone DEF n, r, RateOf
  <2>3. MaxMana(n) <= MaxMana(r)
    BY <1>2, <2>2, MaxManaMonotone
  <2> QED
    BY <1>2, <1>3, <1>7, <2>3 DEF r, n
<1> QED
  BY <1>5, <1>6, <1>7 DEF Ordinary, r, n

(***************************************************************************)
(* With the shipped parameters, then, the chain implements the meter as    *)
(* long as nobody's cap leaves the floor or changes inside a block: what   *)
(* is minted at every block, and what wallets below the floor send each    *)
(* other, shows on no meter.                                               *)
(***************************************************************************)
THEOREM RefinesMeterWhenGainIsFlat ==
  ASSUME RatesFit, FreshStamps, FlatGain
  PROVE  Spec /\ [][Ordinary]_vars => ImplementsMeter
<1>1. Spec /\ [][Calm]_vars => ImplementsMeter
  BY RatesFit, FreshStamps, RefinesMeter
<1>2. TypeOK /\ TypeOK' /\ [Ordinary]_vars => [Calm]_vars
  BY FlatGain, OrdinaryIsCalm DEF TypeOK
<1> QED
  BY <1>1, <1>2, TypeCorrect, PTL

-----------------------------------------------------------------------------
\* A block stamps nothing with a later height than its own.
LEMMA NotAheadStep ==
  ASSUME RatesFit, TypeOK, NotAhead, [Next]_vars
  PROVE  NotAhead'
<1>1. CASE store' = store /\ height' = height
  BY <1>1 DEF NotAhead, Record
<1>2. CASE BeginBlock
  <2>1. height' = height + 1 /\ store' = store /\ height \in Nat /\ IsStore(store)
    BY <1>2 DEF BeginBlock, TypeOK
  <2> SUFFICES ASSUME NEW a \in Accounts
               PROVE  Record(a)'.lastUpdateHeight <= height'
    BY DEF NotAhead
  <2> DEFINE l == Record(a).lastUpdateHeight
  <2>2. Record(a)' = Record(a)
    BY <2>1 DEF Record
  <2>3. l \in Nat
    BY <2>1, LoadType DEF Record, AccountMana
  <2>4. l <= height
    BY DEF NotAhead
  <2> HIDE DEF l
  <2>5. l <= height + 1
    BY <2>1, <2>3, <2>4, SMT
  <2> QED
    BY <2>1, <2>2, <2>5 DEF l
<1>3. ASSUME NEW tx \in Tx, DeliverAccepted(tx)
      PROVE  NotAhead'
  <2>1. /\ height' = height /\ height \in Nat /\ AnteAccepts(tx) /\ store' = AnteWrites(tx)
        /\ IsStore(store) /\ bank \in BankStates
    BY <1>3 DEF DeliverAccepted, TypeOK
  <2> SUFFICES ASSUME NEW a \in Accounts
               PROVE  Record(a)'.lastUpdateHeight <= height'
    BY DEF NotAhead
  <2>2. Record(a).lastUpdateHeight <= height
    BY DEF NotAhead
  <2>3. Record(a)' = LoadAccountMana(AnteWrites(tx), a)
    BY <2>1 DEF Record
  <2>4. CASE a \in tx.signers
    <3>1. Now(a).lastUpdateHeight = height
      BY <2>1, <2>2, ReadResult DEF Now, Record
    <3>2. LoadAccountMana(AnteWrites(tx), a).lastUpdateHeight = height
      BY <2>1, <2>4, <3>1, AcceptedRecords
    <3> QED
      BY <2>1, <2>3, <3>2, SMT
  <2>5. CASE a \notin tx.signers
    <3>1. LoadAccountMana(AnteWrites(tx), a) = Record(a)
      BY <2>1, <2>5, AcceptedRecords
    <3> QED
      BY <2>1, <2>2, <2>3, <3>1
  <2> QED
    BY <2>4, <2>5
<1>4. ASSUME NEW tx \in Tx, DeliverRejected(tx)
      PROVE  NotAhead'
  BY <1>1, <1>4 DEF DeliverRejected
<1>5. CASE EndBlock
  BY <1>1, <1>5 DEF EndBlock
<1>6. CASE UNCHANGED vars
  BY <1>1, <1>6 DEF vars
<1> QED
  BY <1>2, <1>3, <1>4, <1>5, <1>6 DEF Next

\* Nor does a genesis without stamps.
LEMMA NotAheadInit ==
  ASSUME FreshStamps, Init
  PROVE  NotAhead
<1> SUFFICES ASSUME NEW a \in Accounts
             PROVE  Record(a).lastUpdateHeight <= height
  BY DEF NotAhead
<1>1. Record(a) = Grant(a) /\ height = 0
  BY DEF Init, Record, Grant
<1>2. Grant(a).lastUpdateHeight = 0
  BY DEF FreshStamps
<1> QED
  BY <1>1, <1>2, SMT

-----------------------------------------------------------------------------
\* As in types.go, where the floor is refilled in exactly the window.
WindowDividesFloor == MinManaFloor = MinPerBlock * ManaRegenWindowBlocks

\* Whoever waits that long has gained as much at the least gain per block.
LEMMA RefillTimeSuffices ==
  ASSUME NEW m \in Nat \ {0}, WindowDividesFloor
  PROVE  /\ RefillTime(m) \in Nat \ {0}
         /\ m <= MinPerBlock * RefillTime(m)
<1> DEFINE w == ManaRegenWindowBlocks
           k == MinPerBlock
           f == MinManaFloor
           x == m * w + (f - 1)
           t == x \div f
<1>1. w \in Nat \ {0} /\ f \in Nat \ {0}
  BY MathAssumption, SMT DEF MathAssumption
<1>2. k \in Nat
  BY <1>1, DivBounds DEF MinPerBlock
<1>3. m * w \in Nat \ {0}
  BY <1>1, SMT
<1>4. x \in Nat
  <2> DEFINE y == m * w
  <2>1. y \in Nat
    BY <1>3
  <2> HIDE DEF y, f
  <2>2. y + (f - 1) \in Nat
    BY <1>1, <2>1, SMT
  <2> QED
    BY <2>2 DEF y, f
<1>5. f = k * w
  BY DEF WindowDividesFloor
<1> HIDE DEF w, k, f, x
<1>6. t \in Nat /\ x < f * (t + 1)
  BY <1>1, <1>4, DivBounds
<1> HIDE DEF t
<1>7. m * w <= f * t
  <2> DEFINE y == m * w
             z == f * t
  <2>1. y \in Nat /\ z \in Nat
    BY <1>1, <1>3, <1>6, SMT
  <2>2. f * (t + 1) = z + f
    BY <1>1, <1>6, SMT
  <2>3. x = y + (f - 1)
    BY DEF x, f
  <2> HIDE DEF y, z
  <2>4. y <= z
    BY <1>1, <1>6, <2>1, <2>2, <2>3, SMT
  <2> QED
    BY <2>4 DEF y, z
<1>8. m <= k * t
  <2>1. f * t = (k * t) * w
    BY <1>1, <1>2, <1>5, <1>6, SMT
  <2> DEFINE g == k * t
  <2>2. g \in Nat /\ m * w <= g * w
    BY <1>2, <1>6, <1>7, <2>1, SMT
  <2> HIDE DEF g
  <2>3. m <= g
    <3> SUFFICES ASSUME g + 1 <= m
                 PROVE  FALSE
      BY <2>2, SMT
    <3>1. (g + 1) * w <= m * w
      BY <1>1, <2>2, SMT
    <3>2. (g + 1) * w = g * w + w
      BY <1>1, <2>2, SMT
    <3> DEFINE u == g * w
               v == m * w
    <3>3. u \in Nat /\ v \in Nat /\ v <= u /\ u + w <= v
      BY <1>1, <2>2, <3>1, <3>2, SMT
    <3> HIDE DEF u, v
    <3> QED
      BY <1>1, <3>3, SMT
  <2> QED
    BY <2>3 DEF g
<1>9. t # 0
  <2>1. t = 0 => k * t = 0
    BY <1>2, SMT
  <2> QED
    BY <1>8, <2>1, SMT
<1> QED
  BY <1>6, <1>8, <1>9 DEF RefillTime, t, x, w, f, k

\* From whatever the record holds, the wait fills it to the cap that was shown.
LEMMA WaitingFills ==
  ASSUME RatesFit, WindowDividesFloor, TypeOK, NotAhead
  PROVE  ShownCapIsReached
<1> SUFFICES ASSUME NEW a \in Accounts
             PROVE  LET shown == QueryMana(store, bank, height, a).maxMana
                    IN  QueryMana(store, bank, height + RefillTime(shown), a).mana = shown
  BY DEF ShownCapIsReached
<1> DEFINE rate  == ExactRate(bank.balance[a], bank.supply)
           shown == MaxMana(rate)
           t     == RefillTime(shown)
           acct  == LoadAccountMana(store, a)
           m     == acct.mana
           p     == PerBlock(rate)
           h     == height + t
           n     == h - acct.lastUpdateHeight
           next  == GetAccountMana(store, bank, h, a)
<1>1. height \in Nat /\ IsStore(store) /\ bank \in BankStates
  BY DEF TypeOK
<1>2. rate \in Nat
  BY <1>1, BankRead, RateBounded
<1>3. acct.lastUpdateHeight <= height
  BY DEF NotAhead, Record
<1> HIDE DEF rate
<1>4. shown \in Nat \ {0} /\ MinPerBlock <= p /\ p \in Nat /\ MinPerBlock \in Nat
  <2>1. p \in Nat /\ MaxMana(rate) \in Nat
    BY <1>2, PerBlockMonotone, MaxManaMonotone
  <2>2. MinPerBlock \in Nat /\ MinPerBlock <= p
    BY <1>2, MinPerBlockIsLeast
  <2>3. MaxMana(rate) # 0
    BY <1>2, MathAssumption, SMT DEF MaxMana, MathAssumption
  <2> QED
    BY <2>1, <2>2, <2>3
<1> HIDE DEF shown
<1>5. t \in Nat \ {0} /\ shown <= MinPerBlock * t
  BY <1>4, RefillTimeSuffices
<1> HIDE DEF t, p
<1>6. shown <= p * t
  <2> DEFINE u == MinPerBlock * t
             v == p * t
  <2>1. u \in Nat /\ v \in Nat /\ u <= v
    <3>1. u = t * MinPerBlock /\ v = t * p
      BY <1>4, <1>5, SMT
    <3> QED
      BY <1>4, <1>5, <3>1, MulMonotone
  <2> HIDE DEF u, v
  <2>2. shown <= v
    BY <1>4, <1>5, <2>1, SMT DEF u
  <2> QED
    BY <2>2 DEF v
<1>7. acct.lastUpdateHeight \in Nat /\ m \in Nat
  BY <1>1, <1>3, ReadResult
<1> DEFINE l == acct.lastUpdateHeight
<1>8. l <= h /\ h > l /\ h \in Nat /\ n \in Nat /\ t <= n
  <2> HIDE DEF l
  <2>1. l \in Nat /\ l <= height
    BY <1>3, <1>7 DEF l
  <2>2. /\ l <= height + t /\ height + t > l /\ height + t \in Nat
        /\ (height + t) - l \in Nat /\ t <= (height + t) - l
    BY <1>1, <1>5, <2>1, SMT
  <2> QED
    BY <2>2 DEF l
<1>9. next.mana = ClampedSum(m, p, n, shown)
  BY <1>1, <1>8, ReadResult DEF rate, shown, p
<1>10. QueryMana(store, bank, height, a).maxMana = shown
  BY <1>1, BankRead, ShownCapIsMaxMana DEF QueryMana, shown, rate
<1>11. QueryMana(store, bank, h, a).mana = next.mana
  BY DEF QueryMana
<1> HIDE DEF m, n, h, next
<1>12. p * t <= p * n /\ p * t \in Nat /\ p * n \in Nat
  BY <1>4, <1>5, <1>8, MulMonotone
<1>13. ClampedSum(m, p, n, shown) = shown
  <2> DEFINE u == p * t
             v == p * n
  <2>1. u \in Nat /\ v \in Nat /\ u <= v /\ shown <= u
    BY <1>6, <1>12
  <2>2. ClampedSum(m, p, n, shown) = IF m + v < shown THEN m + v ELSE shown
    BY DEF ClampedSum
  <2>3. m \in Nat
    BY <1>7
  <2> HIDE DEF u, v
  <2> QED
    BY <1>4, <2>1, <2>2, <2>3, SMT
<1> QED
  BY <1>9, <1>10, <1>11, <1>13 DEF h, t

(***************************************************************************)
(* A wallet that waits as long as README.md:85 says finds the cap it was   *)
(* shown, if the window divides the floor as it does in types.go.          *)
(***************************************************************************)
THEOREM ShownCapIsReachedHolds ==
  ASSUME RatesFit, FreshStamps, WindowDividesFloor
  PROVE  Spec => []ShownCapIsReached
<1>1. Init => NotAhead
  BY NotAheadInit
<1>2. TypeOK /\ NotAhead /\ [Next]_vars => NotAhead'
  BY NotAheadStep
<1>3. TypeOK /\ NotAhead => ShownCapIsReached
  BY WaitingFills
<1> QED
  BY <1>1, <1>2, <1>3, TypeCorrect, PTL DEF Spec

-----------------------------------------------------------------------------
\* The rates of shares of a number of coins add up to no more than the rate
\* of all of them: division rounds down.
LEMMA RatesShareThePool ==
  ASSUME IsFiniteSet(Accounts), NEW coins, \A a \in Accounts : coins[a] \in Nat,
         NEW s \in Nat \ {0}
  PROVE  SumFunctionOnSet([a \in Accounts |-> ExactRate(coins[a], s)], Accounts)
           <= ExactRate(SumFunctionOnSet(coins, Accounts), s)
<1> DEFINE q(n)  == (n * TotalManaPool) \div s
           share == [a \in Accounts |-> q(coins[a])]
           rate  == [a \in Accounts |-> ExactRate(coins[a], s)]
           all   == SumFunctionOnSet(coins, Accounts)
           parts == SumFunctionOnSet(share, Accounts)
           sum   == SumFunctionOnSet(rate, Accounts)
<1>1. Multiplier \in Nat \ {0} /\ TotalManaPool \in Nat \ {0}
  BY PeakRateType, MathAssumption DEF MathAssumption
<1>2. \A n \in Nat : q(n) \in Nat /\ s * q(n) <= TotalManaPool * n
                     /\ ExactRate(n, s) = q(n) * Multiplier
  <2> SUFFICES ASSUME NEW n \in Nat
               PROVE  q(n) \in Nat /\ s * q(n) <= TotalManaPool * n
                      /\ ExactRate(n, s) = q(n) * Multiplier
    OBVIOUS
  <2> DEFINE x == n * TotalManaPool
             y == q(n)
  <2>1. x \in Nat /\ x = TotalManaPool * n
    BY <1>1, SMT
  <2>2. y \in Nat /\ s * y <= x
    BY <2>1, DivBounds
  <2>3. ExactRate(n, s) = y * Multiplier
    <3>1. CASE n = 0
      <4>1. x = 0
        BY <1>1, <3>1, SMT
      <4>2. y = 0
        <5> HIDE DEF x
        <5>1. y = x \div s
          BY DEF x
        <5> QED
          BY <4>1, <5>1, SMT
      <4>3. 0 * Multiplier = 0
        BY <1>1, SMT
      <4> QED
        BY <3>1, <4>2, <4>3 DEF ExactRate
    <3>2. CASE n # 0
      BY <3>2 DEF ExactRate
    <3> QED
      BY <3>1, <3>2
  <2> QED
    BY <2>1, <2>2, <2>3
<1>3. \A a \in Accounts : /\ share[a] \in Nat /\ rate[a] \in Nat
                          /\ s * share[a] <= TotalManaPool * coins[a]
                          /\ 1 * rate[a] <= Multiplier * share[a]
  <2> SUFFICES ASSUME NEW a \in Accounts
               PROVE  /\ share[a] \in Nat /\ rate[a] \in Nat
                      /\ s * share[a] <= TotalManaPool * coins[a]
                      /\ 1 * rate[a] <= Multiplier * share[a]
    OBVIOUS
  <2>1. /\ share[a] \in Nat /\ s * share[a] <= TotalManaPool * coins[a]
        /\ rate[a] = share[a] * Multiplier
    BY <1>2
  <2> HIDE DEF share, rate
  <2> QED
    BY <1>1, <2>1, SMT
<1>4. all \in Nat /\ parts \in Nat /\ sum \in Nat
  BY <1>3, SumType
<1>5. s * parts <= TotalManaPool * all /\ 1 * sum <= Multiplier * parts
  <2> HIDE DEF share, rate
  <2> QED
    BY <1>1, <1>3, SumScaled
<1>6. q(all) \in Nat /\ ExactRate(all, s) = q(all) * Multiplier
  BY <1>2, <1>4
<1>7. parts <= q(all)
  <2> DEFINE y == q(all)
             x == all * TotalManaPool
  <2> HIDE DEF all, parts
  <2>1. x \in Nat /\ x = TotalManaPool * all
    BY <1>1, <1>4, SMT
  <2>2. y \in Nat /\ x < s * (y + 1)
    BY <2>1, DivBounds
  <2> HIDE DEF y, x
  <2> SUFFICES ASSUME y + 1 <= parts
               PROVE  FALSE
    BY <1>4, <2>2, SMT DEF y
  <2>3. s * (y + 1) <= s * parts /\ s * (y + 1) \in Nat /\ s * parts \in Nat
    BY <1>4, <2>2, MulMonotone
  <2> DEFINE u == s * (y + 1)
             v == s * parts
  <2>4. u \in Nat /\ v \in Nat /\ u <= v /\ v <= x /\ x < u
    BY <1>5, <2>1, <2>2, <2>3
  <2> HIDE DEF u, v
  <2> QED
    BY <2>1, <2>4, SMT
<1> HIDE DEF parts, sum, q
<1>8. Multiplier * parts <= Multiplier * q(all)
  BY <1>1, <1>4, <1>6, <1>7, MulMonotone
<1>9. sum <= q(all) * Multiplier
  <2> DEFINE u == Multiplier * parts
             v == Multiplier * q(all)
  <2>1. u \in Nat /\ v \in Nat /\ v = q(all) * Multiplier /\ sum <= u
    BY <1>1, <1>4, <1>5, <1>6, SMT
  <2> HIDE DEF u, v
  <2>2. u <= v
    BY <1>8 DEF u, v
  <2>3. sum <= v
    BY <1>4, <2>1, <2>2, SMT
  <2> QED
    BY <2>1, <2>3
<1> QED
  BY <1>6, <1>9 DEF sum, all

-----------------------------------------------------------------------------
(***************************************************************************)
(* The invariant behind NetworkBandwidth.  An account's coins in a block   *)
(* are those it held at its beginning and those that arrived; the rate of  *)
(* that many coins caps what the account is charged in the block and, once *)
(* its record is stamped with the block's height, what the record still    *)
(* holds besides.  Nothing regenerates such a record again, and a record   *)
(* with an older stamp has not been charged in this block.                 *)
(***************************************************************************)
CoinsIn(a)   == opening.balance[a] + arrived[a]
Spendable(a) == MaxMana(ExactRate(CoinsIn(a), bank.supply))

HistoryType ==
  /\ opening \in BankStates
  /\ charged \in [Accounts -> Nat]
  /\ arrived \in [Accounts -> Nat]

ChargedWithin == \A a \in Accounts : charged[a] <= Spendable(a)

InBlock ==
  phase = "deliver" =>
    \A a \in Accounts :
      /\ bank.balance[a] <= CoinsIn(a)
      /\ IF Record(a).lastUpdateHeight = height
           THEN charged[a] + Record(a).mana <= Spendable(a)
           ELSE charged[a] = 0

NetworkInv == HistoryType /\ ChargedWithin /\ InBlock

\* What an account can spend grows with the coins that came in and with the
\* coins that were burned.
LEMMA SpendableGrows ==
  ASSUME NEW b \in Nat, NEW s \in Nat \ {0}, NEW c \in Nat, NEW t \in Nat \ {0}, b <= c, t <= s
  PROVE  /\ MaxMana(ExactRate(b, s)) \in Nat /\ MaxMana(ExactRate(c, t)) \in Nat
         /\ MaxMana(ExactRate(b, s)) <= MaxMana(ExactRate(c, t))
<1>1. ExactRate(b, s) \in Nat /\ ExactRate(c, t) \in Nat
  BY RateType
<1>2. ExactRate(b, s) <= ExactRate(c, t)
  BY RateMonotone
<1> QED
  BY <1>1, <1>2, MaxManaMonotone

\* The banks of a state, as numbers.
LEMMA BankNumbers ==
  ASSUME BankIsConsistent, NEW b \in BankStates
  PROVE  /\ b.supply \in Nat \ {0}
         /\ \A a \in Accounts : b.balance[a] \in Nat /\ b.balance[a] <= b.supply
<1>1. b.supply \in Nat /\ b.supply > 0
  BY ChainAssumption DEF ChainAssumption, IsBank, BankIsConsistent
<1>2. \A a \in Accounts : b.balance[a] \in Nat /\ b.balance[a] <= b.supply
  BY ChainAssumption DEF ChainAssumption, IsBank
<1> QED
  BY <1>1, <1>2, SMT

LEMMA NetworkInitInv ==
  ASSUME BankIsConsistent, NetworkInit
  PROVE  NetworkInv
<1>1. /\ bank \in BankStates /\ opening = bank /\ phase = "committed"
      /\ charged = [a \in Accounts |-> 0] /\ arrived = [a \in Accounts |-> 0]
  BY DEF NetworkInit, Init
<1>2. HistoryType
  BY <1>1 DEF HistoryType
<1>3. ASSUME NEW a \in Accounts
      PROVE  charged[a] <= Spendable(a)
  <2>1. CoinsIn(a) \in Nat /\ bank.supply \in Nat
    <3>1. bank.balance[a] \in Nat /\ bank.supply \in Nat
      BY <1>1, BankNumbers
    <3> QED
      BY <1>1, <3>1, SMT DEF CoinsIn
  <2>2. ExactRate(CoinsIn(a), bank.supply) \in Nat
    BY <2>1, RateType
  <2>3. Spendable(a) \in Nat
    BY <2>2, MaxManaMonotone, SMT DEF Spendable
  <2> QED
    BY <1>1, <2>3, SMT
<1> QED
  BY <1>1, <1>2, <1>3 DEF NetworkInv, ChargedWithin, InBlock

\* A block begins with nothing charged and no record of its height.
LEMMA NetworkBeginInv ==
  ASSUME BankIsConsistent, TypeOK, TypeOK', NotAhead, NetworkInv, NetworkBeginBlock
  PROVE  NetworkInv'
<1>1. /\ bank' \in BankStates /\ opening' = bank' /\ height' = height + 1 /\ store' = store
      /\ charged' = [a \in Accounts |-> 0] /\ arrived' = [a \in Accounts |-> 0]
      /\ height \in Nat /\ IsStore(store)
  BY DEF NetworkBeginBlock, BeginBlock, TypeOK
<1>2. HistoryType'
  BY <1>1 DEF HistoryType
<1>3. ASSUME NEW a \in Accounts
      PROVE  /\ charged'[a] <= Spendable(a)'
             /\ bank'.balance[a] <= CoinsIn(a)'
             /\ charged'[a] = 0
             /\ Record(a)'.lastUpdateHeight # height'
  <2>1. bank'.balance[a] \in Nat /\ bank'.supply \in Nat
    BY <1>1, BankNumbers
  <2>2. CoinsIn(a)' = bank'.balance[a] + 0 /\ charged'[a] = 0
    BY <1>1 DEF CoinsIn
  <2>3. CoinsIn(a)' \in Nat /\ bank'.balance[a] <= CoinsIn(a)'
    BY <2>1, <2>2, SMT
  <2>4. ExactRate(CoinsIn(a)', bank'.supply) \in Nat
    BY <2>1, <2>3, RateType
  <2>5. Spendable(a)' \in Nat
    BY <2>4, MaxManaMonotone, SMT DEF Spendable
  <2>6. Record(a)'.lastUpdateHeight # height'
    <3> DEFINE l == Record(a).lastUpdateHeight
    <3>1. Record(a)' = Record(a) /\ l \in Nat /\ l <= height
      BY <1>1, LoadType DEF Record, NotAhead, AccountMana
    <3> HIDE DEF l
    <3>2. l # height + 1
      BY <1>1, <3>1, SMT
    <3> QED
      BY <1>1, <3>1, <3>2 DEF l
  <2> QED
    BY <2>2, <2>3, <2>5, <2>6, SMT
<1> QED
  BY <1>2, <1>3 DEF NetworkInv, ChargedWithin, InBlock

\* Inside a block what an account can spend never shrinks.
LEMMA SpendableStep ==
  ASSUME BankIsConsistent, TypeOK, TypeOK', HistoryType, HistoryType',
         bank'.supply <= bank.supply, opening' = opening,
         NEW a \in Accounts, arrived[a] <= arrived'[a]
  PROVE  /\ Spendable(a) \in Nat /\ Spendable(a)' \in Nat
         /\ Spendable(a) <= Spendable(a)'
         /\ CoinsIn(a) \in Nat /\ CoinsIn(a)' \in Nat
<1>1. bank.supply \in Nat \ {0} /\ bank'.supply \in Nat \ {0}
  BY BankNumbers DEF TypeOK
<1>2. opening.balance[a] \in Nat /\ arrived[a] \in Nat /\ arrived'[a] \in Nat
  BY BankNumbers DEF HistoryType
<1>3. /\ CoinsIn(a) \in Nat /\ CoinsIn(a)' \in Nat
      /\ CoinsIn(a) <= CoinsIn(a)'
  BY <1>2, SMT DEF CoinsIn
<1> QED
  BY <1>1, <1>3, SpendableGrows DEF Spendable

\* A transaction: what is charged leaves the record of a signer, and a record
\* of an earlier block is regenerated with coins that are counted.
LEMMA NetworkDeliverInv ==
  ASSUME RatesFit, BankIsConsistent, TypeOK, TypeOK', NotAhead, NetworkInv,
         NEW tx \in Tx, DeliverAccepted(tx), NetworkDeliver(tx)
  PROVE  NetworkInv'
<1>1. /\ phase = "deliver" /\ height' = height /\ height \in Nat
      /\ AnteAccepts(tx) /\ store' = AnteWrites(tx) /\ IsStore(store) /\ IsStore(store')
      /\ bank \in BankStates /\ bank' \in BankStates
      /\ txsLeft' = txsLeft - 1 /\ txsLeft \in Nat
  BY DEF DeliverAccepted, TypeOK
<1>2. /\ charged' = [charged EXCEPT ![tx.payer] = @ + Cost(tx)]
      /\ arrived' = [a \in Accounts |-> arrived[a] + Inflow(a)]
      /\ opening' = opening
  <2>1. spent' = [spent EXCEPT ![tx.payer] = @ + Cost(tx)] /\ txsLeft' # txsLeft
    BY <1>1, SMT DEF DeliverAccepted
  <2>2. ~ DeliverRejected(tx)
    BY <1>1 DEF DeliverRejected
  <2> QED
    BY <2>2 DEF NetworkDeliver
<1>3. bank'.supply <= bank.supply
  <2>1. bank.supply \in Nat
    BY <1>1, BankNumbers
  <2> QED
    BY <2>1, SMT DEF DeliverAccepted, MsgOutcomes
<1>4. tx.payer \in Accounts /\ tx.payer \in tx.signers /\ Cost(tx) \in Nat
  BY CostType DEF Tx
<1>5. ASSUME NEW a \in Accounts
      PROVE  /\ Inflow(a) \in Nat /\ bank'.balance[a] <= bank.balance[a] + Inflow(a)
             /\ arrived[a] \in Nat /\ arrived'[a] = arrived[a] + Inflow(a)
             /\ charged[a] \in Nat /\ Charge(tx, a) \in Nat
             /\ charged'[a] = charged[a] + Charge(tx, a)
  <2>1. bank.balance[a] \in Nat /\ bank'.balance[a] \in Nat
    BY <1>1, BankNumbers
  <2>2. Inflow(a) \in Nat /\ bank'.balance[a] <= bank.balance[a] + Inflow(a)
    BY <2>1, SMT DEF Inflow
  <2>3. arrived[a] \in Nat /\ charged[a] \in Nat /\ Charge(tx, a) \in Nat
    BY <1>4, SMT DEF NetworkInv, HistoryType, Charge
  <2>4. charged'[a] = charged[a] + Charge(tx, a)
    <3>1. CASE a = tx.payer
      BY <1>2, <1>4, <3>1 DEF Charge, NetworkInv, HistoryType
    <3>2. CASE a # tx.payer
      <4>1. charged'[a] = charged[a] /\ Charge(tx, a) = 0
        BY <1>2, <3>2 DEF Charge, NetworkInv, HistoryType
      <4> QED
        BY <2>3, <4>1, SMT
    <3> QED
      BY <3>1, <3>2
  <2> QED
    BY <1>2, <2>2, <2>3, <2>4
<1>6. HistoryType'
  <2>1. charged' \in [Accounts -> Nat]
    BY <1>2, <1>4, SMT DEF NetworkInv, HistoryType
  <2>2. arrived' \in [Accounts -> Nat]
    <3>1. \A a \in Accounts : arrived[a] + Inflow(a) \in Nat
      BY <1>5, SMT
    <3> QED
      BY <1>2, <3>1
  <2> QED
    BY <1>2, <2>1, <2>2 DEF NetworkInv, HistoryType
<1>7. ASSUME NEW a \in Accounts
      PROVE  /\ bank'.balance[a] <= CoinsIn(a)'
             /\ charged'[a] <= Spendable(a)'
             /\ IF Record(a)'.lastUpdateHeight = height'
                  THEN charged'[a] + Record(a)'.mana <= Spendable(a)'
                  ELSE charged'[a] = 0
  <2> DEFINE c == charged[a]
             k == Charge(tx, a)
             v == Spendable(a)
             w == Spendable(a)'
             m == Now(a).mana
  <2>1. arrived[a] <= arrived'[a]
    BY <1>5, SMT
  <2>2. v \in Nat /\ w \in Nat /\ v <= w /\ CoinsIn(a) \in Nat /\ CoinsIn(a)' \in Nat
    BY <1>2, <1>3, <1>6, <2>1, SpendableStep DEF NetworkInv
  <2>3. bank.balance[a] <= CoinsIn(a) /\ c <= v
    BY <1>1 DEF NetworkInv, InBlock, ChargedWithin
  <2>4. bank'.balance[a] <= CoinsIn(a)'
    <3>1. bank.balance[a] \in Nat /\ bank'.balance[a] \in Nat /\ opening.balance[a] \in Nat
      BY <1>1, BankNumbers DEF NetworkInv, HistoryType
    <3>2. CoinsIn(a) = opening.balance[a] + arrived[a]
          /\ CoinsIn(a)' = opening.balance[a] + (arrived[a] + Inflow(a))
      BY <1>2, <1>5 DEF CoinsIn
    <3> QED
      BY <1>5, <2>3, <3>1, <3>2, SMT
  <2>5. Record(a).lastUpdateHeight <= height
    BY DEF NotAhead
  <2>6. /\ m \in Nat /\ Now(a).lastUpdateHeight = height
        /\ Record(a).lastUpdateHeight \in Nat
    BY <1>1, <2>5, ReadResult DEF Now, Record
  <2>7. Record(a)' = LoadAccountMana(AnteWrites(tx), a)
    BY <1>1 DEF Record
  <2>8. c \in Nat /\ k \in Nat /\ charged'[a] = c + k
    BY <1>5
  <2>9. CASE a \notin tx.signers
    <3>1. Record(a)' = Record(a) /\ k = 0
      BY <1>1, <1>4, <2>7, <2>9, AcceptedRecords DEF Charge
    <3>2. charged'[a] = c
      BY <2>8, <3>1, SMT
    <3>3. IF Record(a).lastUpdateHeight = height THEN c + Record(a).mana <= v ELSE c = 0
      BY <1>1 DEF NetworkInv, InBlock
    <3>4. Record(a).mana \in Nat
      BY <1>1, <2>5, ReadResult DEF Record
    <3> HIDE DEF c, k, v, w, m
    <3>5. c <= w
      BY <2>2, <2>3, <2>8, SMT
    <3>6. IF Record(a).lastUpdateHeight = height THEN c + Record(a).mana <= w ELSE c = 0
      <4>1. CASE Record(a).lastUpdateHeight = height
        <5>1. c + Record(a).mana <= v
          BY <3>3, <4>1
        <5> QED
          BY <2>2, <2>8, <3>4, <4>1, <5>1, SMT
      <4>2. CASE Record(a).lastUpdateHeight # height
        BY <3>3, <4>2
      <4> QED
        BY <4>1, <4>2
    <3> QED
      BY <1>1, <2>4, <3>1, <3>2, <3>5, <3>6 DEF w
  <2>10. CASE a \in tx.signers
    <3>1. /\ k <= m
          /\ Record(a)'.mana = m - k
          /\ Record(a)'.lastUpdateHeight = height
      BY <1>1, <2>6, <2>7, <2>10, AcceptedRecords
    <3>2. c + m <= v
      <4>1. CASE Record(a).lastUpdateHeight = height
        <5>1. Now(a) = Record(a)
          BY <1>1, <4>1, ReadResult, SMT DEF Now, Record
        <5>2. c + Record(a).mana <= v
          BY <1>1, <4>1 DEF NetworkInv, InBlock
        <5> QED
          BY <5>1, <5>2
      <4>2. CASE Record(a).lastUpdateHeight # height
        <5>1. c = 0
          BY <1>1, <4>2 DEF NetworkInv, InBlock
        <5>2. m <= MaxMana(RateOf(bank, a))
          <6> DEFINE l == Record(a).lastUpdateHeight
                     g == PerBlock(RateOf(bank, a))
                     d == MaxMana(RateOf(bank, a))
          <6>1. height > l
            BY <1>1, <2>5, <2>6, <4>2, SMT
          <6>2. /\ m = ClampedSum(Record(a).mana, g, height - l, d)
                /\ Record(a).mana \in Nat /\ g \in Nat /\ d \in Nat
            BY <1>1, <2>5, <6>1, ReadResult DEF Now, Record, RateOf
          <6>3. height - l \in Nat
            BY <1>1, <2>6, <6>1, SMT
          <6> HIDE DEF l, g, d
          <6>4. ClampedSum(Record(a).mana, g, height - l, d) <= d
            BY <6>2, <6>3, ClampedSumBounds
          <6> QED
            BY <6>2, <6>4 DEF d
        <5>3. MaxMana(RateOf(bank, a)) \in Nat /\ MaxMana(RateOf(bank, a)) <= v
          <6>1. bank.balance[a] \in Nat /\ bank.supply \in Nat \ {0} /\ bank.supply <= bank.supply
            BY <1>1, BankNumbers, SMT
          <6> QED
            BY <2>2, <2>3, <6>1, SpendableGrows DEF Spendable, RateOf
        <5> HIDE DEF c, m, v
        <5> QED
          BY <2>2, <2>6, <5>1, <5>2, <5>3, SMT DEF m
      <4> QED
        BY <4>1, <4>2
    <3> HIDE DEF c, k, v, w, m
    <3>3. (c + k) + (m - k) <= w /\ c + k <= w
      BY <2>2, <2>6, <2>8, <3>1, <3>2, SMT DEF m
    <3> QED
      BY <1>1, <2>4, <2>8, <3>1, <3>3 DEF w
  <2> QED
    BY <2>9, <2>10
<1> QED
  BY <1>6, <1>7 DEF NetworkInv, ChargedWithin, InBlock

\* After the last transaction coins may be burned, which raises every rate.
LEMMA NetworkEndInv ==
  ASSUME BankIsConsistent, TypeOK, TypeOK', NetworkInv, NetworkEndBlock
  PROVE  NetworkInv'
<1>1. /\ phase' = "committed" /\ UNCHANGED <<opening, charged, arrived>>
      /\ bank'.supply <= bank.supply /\ bank \in BankStates
  BY DEF NetworkEndBlock, EndBlock, TypeOK
<1>2. HistoryType'
  BY <1>1 DEF NetworkInv, HistoryType
<1>3. ASSUME NEW a \in Accounts
      PROVE  charged'[a] <= Spendable(a)'
  <2>1. charged[a] \in Nat /\ arrived[a] \in Nat /\ charged[a] <= Spendable(a)
        /\ charged'[a] = charged[a] /\ arrived'[a] = arrived[a]
    BY <1>1 DEF NetworkInv, HistoryType, ChargedWithin
  <2>2. arrived[a] <= arrived'[a]
    BY <2>1, SMT
  <2>3. Spendable(a) \in Nat /\ Spendable(a)' \in Nat /\ Spendable(a) <= Spendable(a)'
    BY <1>1, <1>2, <2>2, SpendableStep DEF NetworkInv
  <2> DEFINE v == Spendable(a)
             w == Spendable(a)'
  <2>4. v \in Nat /\ w \in Nat /\ v <= w /\ charged[a] <= v
    BY <2>1, <2>3
  <2> HIDE DEF v, w
  <2>5. charged[a] <= w
    BY <2>1, <2>4, SMT
  <2> QED
    BY <2>1, <2>5 DEF w
<1> QED
  BY <1>1, <1>2, <1>3 DEF NetworkInv, ChargedWithin, InBlock

LEMMA NetworkInvStep ==
  ASSUME RatesFit, BankIsConsistent, TypeOK, TypeOK', NotAhead, NetworkInv,
         [NetworkNext]_networkVars
  PROVE  NetworkInv'
<1>1. CASE UNCHANGED <<height, phase, store, bank, opening, charged, arrived>>
  BY <1>1 DEF NetworkInv, HistoryType, ChargedWithin, InBlock, Spendable, CoinsIn, Record
<1>2. CASE NetworkBeginBlock
  BY <1>2, NetworkBeginInv
<1>3. CASE NetworkEndBlock
  BY <1>3, NetworkEndInv
<1>4. ASSUME NEW tx \in Tx, NetworkDeliver(tx)
      PROVE  NetworkInv'
  <2>1. CASE DeliverAccepted(tx)
    BY <1>4, <2>1, NetworkDeliverInv
  <2>2. CASE ~ DeliverAccepted(tx)
    BY <1>1, <1>4, <2>2 DEF NetworkDeliver, DeliverRejected
  <2> QED
    BY <2>1, <2>2
<1>5. CASE UNCHANGED networkVars
  BY <1>1, <1>5 DEF networkVars, vars
<1> QED
  BY <1>2, <1>3, <1>4, <1>5 DEF NetworkNext

\* All accounts together: the rates of their coins share the pool.
LEMMA BandwidthBounded ==
  ASSUME IsFiniteSet(Accounts), BankIsConsistent, TypeOK, NetworkInv
  PROVE  NetworkBandwidth
<1> DEFINE s     == bank.supply
           f     == MinManaFloor
           coins == [a \in Accounts |-> CoinsIn(a)]
           rate  == [a \in Accounts |-> ExactRate(coins[a], s)]
           had   == opening.balance
           C     == SumFunctionOnSet(coins, Accounts)
           H     == SumFunctionOnSet(had, Accounts)
           A     == SumFunctionOnSet(arrived, Accounts)
           R     == SumFunctionOnSet(rate, Accounts)
           X     == SumFunctionOnSet(charged, Accounts)
<1>1. /\ s \in Nat \ {0} /\ opening \in BankStates /\ opening.supply \in Nat
      /\ \A a \in Accounts : had[a] \in Nat /\ arrived[a] \in Nat /\ charged[a] \in Nat
      /\ had \in [Accounts -> Nat] /\ arrived \in [Accounts -> Nat] /\ charged \in [Accounts -> Nat]
  <2>1. opening \in BankStates /\ bank \in BankStates
        /\ arrived \in [Accounts -> Nat] /\ charged \in [Accounts -> Nat]
    BY DEF TypeOK, NetworkInv, HistoryType
  <2>2. had \in [Accounts -> Nat]
    BY <2>1, ChainAssumption DEF ChainAssumption, IsBank
  <2> QED
    BY <2>1, <2>2, BankNumbers
<1>2. f \in Nat
  BY MathAssumption, SMT DEF MathAssumption
<1>3. ASSUME NEW a \in Accounts
      PROVE  /\ coins[a] \in Nat /\ coins[a] <= had[a] + arrived[a]
             /\ rate[a] \in Nat /\ charged[a] <= rate[a] + f
  <2>1. coins[a] = had[a] + arrived[a]
    BY DEF CoinsIn
  <2>2. coins[a] \in Nat /\ coins[a] <= had[a] + arrived[a]
    BY <1>1, <2>1, SMT
  <2>3. rate[a] = ExactRate(coins[a], s) /\ rate[a] \in Nat
    BY <1>1, <2>2, RateType
  <2>4. charged[a] <= MaxMana(rate[a])
    BY <2>3 DEF NetworkInv, ChargedWithin, Spendable
  <2> DEFINE r == rate[a]
  <2> HIDE DEF rate, coins, f
  <2>5. MaxMana(r) \in Nat /\ MaxMana(r) <= r + f
    BY <1>2, <2>3, SMT DEF MaxMana, f
  <2>6. charged[a] <= r + f
    BY <1>1, <1>2, <2>3, <2>4, <2>5, SMT
  <2> QED
    BY <2>2, <2>3, <2>6
<1> HIDE DEF s, f, had
<1>4. R <= ExactRate(C, s)
  <2> HIDE DEF coins
  <2> QED
    BY <1>1, <1>3, RatesShareThePool
<1> HIDE DEF rate, coins
<1>5. X <= R + Cardinality(Accounts) * f
  BY <1>1, <1>2, <1>3, SumBounded
<1>6. C <= H + A
  BY <1>1, <1>3, SumPlus
<1>7. /\ C \in Nat /\ H \in Nat /\ A \in Nat /\ R \in Nat /\ X \in Nat
      /\ Cardinality(Accounts) * f \in Nat
  <2>1. C \in Nat /\ H \in Nat /\ A \in Nat /\ R \in Nat /\ X \in Nat
    BY <1>1, <1>3, SumType
  <2>2. Cardinality(Accounts) \in Nat
    BY FS_CardinalityType
  <2> QED
    BY <1>2, <2>1, <2>2, SMT
<1>8. H <= opening.supply
  <2>1. SumFunction(opening.balance) = H
    BY <1>1 DEF SumFunction, had
  <2> QED
    BY <1>1, <2>1 DEF BankIsConsistent
<1>9. SumFunction(arrived) = A /\ SumFunction(charged) = X
  BY <1>1 DEF SumFunction
<1> DEFINE w == Cardinality(Accounts) * f
           B == opening.supply + A
           P == ExactRate(B, s)
<1> HIDE DEF C, H, A, R, X, w
<1>10. B \in Nat /\ C <= B
  BY <1>1, <1>6, <1>7, <1>8, SMT
<1>11. ExactRate(C, s) \in Nat /\ P \in Nat /\ ExactRate(C, s) <= P
  <2> HIDE DEF B
  <2>1. s <= s
    BY <1>1, SMT
  <2> QED
    BY <1>1, <1>7, <1>10, <2>1, RateType, RateMonotone
<1> HIDE DEF B, P
<1>12. X <= P + w
  <2>1. w \in Nat /\ X <= R + w
    BY <1>5, <1>7 DEF w
  <2> QED
    BY <1>4, <1>7, <1>11, <2>1, SMT
<1> QED
  BY <1>9, <1>12 DEF NetworkBandwidth, P, B, w, s, f

(***************************************************************************)
(* In one block the accounts together are charged at most the rate of the  *)
(* coins there were and of those that moved inside the block, and one free *)
(* allowance each, for any finite number of accounts and transactions      *)
(* (README.md:32, 80).                                                     *)
(***************************************************************************)
THEOREM NetworkBandwidthHolds ==
  ASSUME RatesFit, FreshStamps, IsFiniteSet(Accounts), BankIsConsistent
  PROVE  NetworkSpec => []NetworkBandwidth
<1>1. NetworkInit => Init
  BY DEF NetworkInit
<1>2. [NetworkNext]_networkVars => [Next]_vars
  BY DEF NetworkNext, networkVars, NetworkBeginBlock, NetworkEndBlock, NetworkDeliver, Next
<1>3. Init => NotAhead
  BY FreshStamps, NotAheadInit
<1>4. TypeOK /\ NotAhead /\ [Next]_vars => NotAhead'
  BY RatesFit, NotAheadStep
<1>5. NetworkInit => NetworkInv
  BY BankIsConsistent, NetworkInitInv
<1>6. TypeOK /\ TypeOK' /\ NotAhead /\ NetworkInv /\ [NetworkNext]_networkVars => NetworkInv'
  BY RatesFit, BankIsConsistent, NetworkInvStep
<1>7. TypeOK /\ NetworkInv => NetworkBandwidth
  BY IsFiniteSet(Accounts), BankIsConsistent, BandwidthBounded
<1> QED
  BY <1>1, <1>2, <1>3, <1>4, <1>5, <1>6, <1>7, TypeCorrect, PTL DEF Spec, NetworkSpec
=============================================================================
