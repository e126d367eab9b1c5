-------------------------- MODULE ManaGenesisProofs --------------------------
(***************************************************************************)
(* NoFreeMana and RecoversGradually for every genesis, bank, number of     *)
(* restarts and kind of export.                                            *)
(*                                                                         *)
(* The argument: a restart keeps every record and never moves the height   *)
(* forward, so the blocks a record can still be paid for never grow by a   *)
(* restart; a block adds one to them and one to the blocks lived.          *)
(***************************************************************************)
EXTENDS ManaGenesis, ManaChainProofs

\* What an account spent, holds, and could still be paid at the peak gain.
Accrued ==
  \A a \in Accounts :
    spent[a] + Record(a).mana + PeakPerBlock * Elapsed(a)
      <= Grant(a).mana + PeakPerBlock * lived

\* The file of a stopped chain has the chain's records and a height not ahead
\* of its next block.
FilesFaithful ==
  \A f \in files : /\ InitGenesis(f.accountManas) = store
                   /\ f.bank \in BankStates
                   /\ f.height \in 0..(height + 1)

GenesisInv == TypeOK /\ lived \in Nat /\ FilesFaithful /\ Accrued

-----------------------------------------------------------------------------
\* The genesis file brings back the records that were written to it.
LEMMA RoundTrip ==
  ASSUME TypeOK
  PROVE  InitGenesis(ExportGenesis) = store
<1> DEFINE line(a) == [address |-> a, record |-> store[a]]
           listed  == { line(a) : a \in DOMAIN store }
<1>1. \A a : line(a).address = a /\ line(a).record = store[a]
  OBVIOUS
<1> HIDE DEF line
<1>2. { m.address : m \in listed } = DOMAIN store
  <2>1. ASSUME NEW a \in DOMAIN store
        PROVE  a \in { m.address : m \in listed }
    <3>1. line(a) \in listed /\ line(a).address = a
      BY <1>1, <2>1
    <3> HIDE DEF listed
    <3> QED
      BY <3>1
  <2>2. ASSUME NEW m \in listed
        PROVE  m.address \in DOMAIN store
    BY <1>1, <2>2
  <2> HIDE DEF listed
  <2> QED
    BY <2>1, <2>2
<1>3. ASSUME NEW a \in DOMAIN store
      PROVE  (CHOOSE m \in listed : m.address = a).record = store[a]
  <2>1. \E m \in listed : m.address = a
    BY <1>1, <1>3
  <2>2. \A m \in listed : m.address = a => m.record = store[a]
    BY <1>1, <1>3
  <2> HIDE DEF listed
  <2>3. /\ (CHOOSE m \in listed : m.address = a) \in listed
        /\ (CHOOSE m \in listed : m.address = a).address = a
    BY <2>1
  <2> QED
    BY <2>2, <2>3
<1>4. store = [a \in DOMAIN store |-> store[a]]
  BY DEF TypeOK, IsStore
<1>5. ExportGenesis = listed
  BY DEF ExportGenesis, line
<1> HIDE DEF listed
<1>6. InitGenesis(listed) = [a \in DOMAIN store |-> store[a]]
  BY <1>2, <1>3 DEF InitGenesis
<1> QED
  BY <1>4, <1>5, <1>6

\* The types of the products in Accrued.
LEMMA AccruedTypes ==
  ASSUME TypeOK, lived \in Nat, NEW a \in Accounts
  PROVE  /\ spent[a] \in Nat
         /\ Grant(a).mana \in Nat
         /\ Record(a).mana \in Nat
         /\ Elapsed(a) \in Nat
         /\ PeakPerBlock \in Nat
         /\ PeakPerBlock * Elapsed(a) \in Nat
         /\ PeakPerBlock * lived \in Nat
         /\ PeakPerBlock * (Elapsed(a) + 1) = PeakPerBlock * Elapsed(a) + PeakPerBlock
         /\ PeakPerBlock * (lived + 1) = PeakPerBlock * lived + PeakPerBlock
<1>1. /\ spent[a] \in Nat /\ Grant(a).mana \in Nat /\ PeakPerBlock \in Nat
      /\ Record(a).mana \in Nat /\ Elapsed(a) \in Nat
  BY BucketTypes, RecordTypes DEF TypeOK
<1> QED
  BY <1>1, SMT

\* A read is worth at most the record and the peak gain since its stamp.
LEMMA NowWithinAccrued ==
  ASSUME TypeOK, NEW a \in Accounts, CanGetAccountMana(store, bank, height, a)
  PROVE  /\ Now(a).mana \in Nat
         /\ Now(a).mana <= Record(a).mana + PeakPerBlock * Elapsed(a)
<1> DEFINE last == Record(a).lastUpdateHeight
<1>1. /\ bank.balance[a] \in Nat /\ bank.supply \in Nat
      /\ bank.balance[a] <= bank.supply
  BY BankRead DEF TypeOK
<1>2. /\ height \in Nat /\ Record(a) \in AccountMana
      /\ CanRegenerate(Record(a), bank.balance[a], bank.supply, height)
      /\ Now(a) = RegenerateMana(Record(a), bank.balance[a], bank.supply, height)
  BY LoadType DEF TypeOK, Record, CanGetAccountMana, Now, GetAccountMana
<1>3. /\ Record(a).mana \in Nat /\ last \in Nat /\ Elapsed(a) \in Nat
      /\ height <= last => Elapsed(a) = 0
      /\ height > last => Elapsed(a) = height - last
      /\ PeakPerBlock \in Nat
  BY RecordTypes, BucketTypes DEF TypeOK
<1>4. /\ Now(a) \in AccountMana
      /\ Now(a).mana + PeakPerBlock * last
           <= Record(a).mana + PeakPerBlock * Now(a).lastUpdateHeight
  BY NowResult
<1>5. Now(a).mana \in Nat
  BY <1>4, MathAssumption, SMT DEF AccountMana, Uint64, MathAssumption
<1>6. /\ height <= last => Now(a) = Record(a)
      /\ height > last => Now(a).lastUpdateHeight = height
  BY <1>1, <1>2, RegenerateResult
<1> HIDE DEF last
<1>7. CASE height <= last
  <2>1. PeakPerBlock * 0 = 0
    BY <1>3, SMT
  <2> QED
    BY <1>3, <1>5, <1>6, <1>7, <2>1, SMT
<1>8. CASE height > last
  <2>1. height = last + Elapsed(a)
    BY <1>2, <1>3, <1>8, SMT
  <2>2. PeakPerBlock * height = PeakPerBlock * last + PeakPerBlock * Elapsed(a)
    BY <1>3, <2>1, SMT
  <2>3. PeakPerBlock * last \in Nat /\ PeakPerBlock * Elapsed(a) \in Nat
    BY <1>3, SMT
  <2> QED
    BY <1>3, <1>4, <1>5, <1>6, <1>8, <2>2, <2>3, SMT
<1> QED
  BY <1>2, <1>3, <1>7, <1>8, SMT

-----------------------------------------------------------------------------
\* The first chain starts with its grants and nothing spent.
LEMMA GenesisInvInit ==
  ASSUME GenesisInit
  PROVE  GenesisInv
<1>1. TypeOK /\ lived = 0 /\ files = {} /\ height = 0
  BY InitType DEF GenesisInit, Init
<1>2. ASSUME NEW a \in Accounts
      PROVE  spent[a] + Record(a).mana + PeakPerBlock * Elapsed(a)
               <= Grant(a).mana + PeakPerBlock * lived
  <2>1. Record(a) = Grant(a) /\ spent[a] = 0
    BY DEF GenesisInit, Init, Record, Grant
  <2>2. Elapsed(a) = 0
    BY <1>1, RecordTypes, SMT DEF TypeOK
  <2> QED
    BY <1>1, <2>1, <2>2, AccruedTypes, SMT
<1> QED
  BY <1>1, <1>2 DEF GenesisInv, Accrued, FilesFaithful

\* A block: one more block to be paid for, one more block lived.
LEMMA BeginAccrues ==
  ASSUME GenesisInv, RunBeginBlock
  PROVE  Accrued'
<1>1. /\ TypeOK /\ lived \in Nat /\ lived' = lived + 1
      /\ height' = height + 1 /\ UNCHANGED <<store, spent>>
  BY DEF GenesisInv, RunBeginBlock, BeginBlock
<1> SUFFICES ASSUME NEW a \in Accounts
             PROVE  spent'[a] + Record(a)'.mana + PeakPerBlock * Elapsed(a)'
                      <= Grant(a).mana + PeakPerBlock * lived'
  BY DEF Accrued, Grant
<1>2. spent[a] + Record(a).mana + PeakPerBlock * Elapsed(a)
        <= Grant(a).mana + PeakPerBlock * lived
  BY DEF GenesisInv, Accrued
<1>3. Record(a)' = Record(a) /\ spent'[a] = spent[a]
  BY <1>1 DEF Record
<1>4. height \in Nat /\ Record(a).lastUpdateHeight \in Nat
  BY <1>1, RecordTypes DEF TypeOK
<1>5. Elapsed(a)' \in Nat /\ Elapsed(a)' <= Elapsed(a) + 1 /\ Elapsed(a) \in Nat
  BY <1>1, <1>3, <1>4, SMT DEF Elapsed
<1>6. Elapsed(a)' = Elapsed(a) + 1 \/ Elapsed(a)' = Elapsed(a)
  BY <1>1, <1>3, <1>4, SMT DEF Elapsed
<1>7. \/ PeakPerBlock * Elapsed(a)' = PeakPerBlock * Elapsed(a)
      \/ PeakPerBlock * Elapsed(a)' = PeakPerBlock * Elapsed(a) + PeakPerBlock
  BY <1>1, <1>6, AccruedTypes
<1>8. PeakPerBlock * lived' = PeakPerBlock * lived + PeakPerBlock
  BY <1>1, AccruedTypes
<1> QED
  BY <1>1, <1>2, <1>3, <1>7, <1>8, AccruedTypes, SMT

\* A transaction: a signer is paid what it had accrued, less the charge.
LEMMA DeliverAccrues ==
  ASSUME GenesisInv, NEW tx \in Tx, DeliverAccepted(tx), lived' = lived
  PROVE  Accrued'
<1>1. /\ TypeOK /\ lived \in Nat /\ AnteAccepts(tx) /\ height' = height
      /\ height \in Nat /\ spent \in [Accounts -> Nat]
  BY DEF GenesisInv, TypeOK, DeliverAccepted
<1> SUFFICES ASSUME NEW a \in Accounts
             PROVE  spent'[a] + Record(a)'.mana + PeakPerBlock * Elapsed(a)'
                      <= Grant(a).mana + PeakPerBlock * lived'
  BY DEF Accrued, Grant
<1>2. spent[a] + Record(a).mana + PeakPerBlock * Elapsed(a)
        <= Grant(a).mana + PeakPerBlock * lived
  BY DEF GenesisInv, Accrued
<1>3. Record(a)' = LoadAccountMana(AnteWrites(tx), a)
  BY DEF DeliverAccepted, Record
<1>4. spent'[a] = spent[a] + Charge(tx, a) /\ Charge(tx, a) \in Nat
  BY <1>1, CostType, SMT DEF DeliverAccepted, Charge
<1>5. CASE a \notin tx.signers
  <2>1. Record(a)' = Record(a) /\ Charge(tx, a) = 0
    BY <1>1, <1>3, <1>5, AcceptedRecords DEF Charge, Tx
  <2>2. Elapsed(a)' = Elapsed(a)
    BY <1>1, <2>1 DEF Elapsed
  <2> QED
    BY <1>1, <1>2, <1>4, <2>1, <2>2, AccruedTypes, SMT
<1>6. CASE a \in tx.signers
  <2>1. /\ CanGetAccountMana(store, bank, height, a)
        /\ Charge(tx, a) <= Now(a).mana
        /\ Record(a)'.mana = Now(a).mana - Charge(tx, a)
        /\ Record(a)'.lastUpdateHeight = Now(a).lastUpdateHeight
    BY <1>1, <1>3, <1>6, AcceptedRecords
  <2>2. /\ Now(a).mana \in Nat
        /\ Now(a).mana <= Record(a).mana + PeakPerBlock * Elapsed(a)
    BY <1>1, <2>1, NowWithinAccrued
  <2>3. height <= Now(a).lastUpdateHeight /\ Now(a).lastUpdateHeight \in Nat
    BY <1>1, <2>1, NowResult DEF AccountMana
  <2>4. Elapsed(a)' = 0
    BY <1>1, <2>1, <2>3, SMT DEF Elapsed
  <2>5. PeakPerBlock * Elapsed(a)' = 0
    BY <1>1, <2>4, AccruedTypes, SMT
  <2> QED
    BY <1>1, <1>2, <1>4, <2>1, <2>2, <2>5, AccruedTypes, SMT
<1> QED
  BY <1>5, <1>6

\* A restart: the same records, at a height that is not later.
LEMMA RestartAccrues ==
  ASSUME GenesisInv, NEW file \in files, InitChain(file)
  PROVE  GenesisInv'
<1>1. /\ TypeOK /\ lived \in Nat /\ lived' = lived /\ files' = {}
      /\ file.height \in 0..(height + 1) /\ file.bank \in BankStates
      /\ height \in Nat /\ IsStore(store) /\ spent \in [Accounts -> Nat]
      /\ spent' = spent /\ bank' = file.bank
  BY DEF GenesisInv, FilesFaithful, TypeOK, InitChain
<1>2. store' = store
  BY DEF GenesisInv, FilesFaithful, InitChain
<1>3. height' \in Nat /\ height' <= height
  BY <1>1, SMT DEF InitChain
<1>4. TypeOK'
  BY <1>1, <1>2, <1>3 DEF TypeOK, InitChain
<1>5. ASSUME NEW a \in Accounts
      PROVE  spent'[a] + Record(a)'.mana + PeakPerBlock * Elapsed(a)'
               <= Grant(a).mana + PeakPerBlock * lived'
  <2>1. spent[a] + Record(a).mana + PeakPerBlock * Elapsed(a)
          <= Grant(a).mana + PeakPerBlock * lived
    BY DEF GenesisInv, Accrued
  <2>2. Record(a)' = Record(a) /\ Record(a).lastUpdateHeight \in Nat
    BY <1>1, <1>2, RecordTypes DEF Record
  <2>3. Elapsed(a) \in Nat /\ Elapsed(a)' \in Nat /\ Elapsed(a)' <= Elapsed(a)
    BY <1>1, <1>3, <2>2, SMT DEF Elapsed
  <2>4. /\ Elapsed(a)' * PeakPerBlock <= Elapsed(a) * PeakPerBlock
        /\ Elapsed(a)' * PeakPerBlock = PeakPerBlock * Elapsed(a)'
        /\ Elapsed(a) * PeakPerBlock = PeakPerBlock * Elapsed(a)
        /\ PeakPerBlock * Elapsed(a)' \in Nat
    BY <1>1, <2>3, AccruedTypes, MulMonotone, SMT
  <2> QED
    BY <1>1, <2>1, <2>2, <2>4, AccruedTypes, SMT
<1>6. Accrued'
  BY <1>5 DEF Accrued, Grant
<1> QED
  BY <1>1, <1>4, <1>6 DEF GenesisInv, FilesFaithful

\* A block, an export and a new chain each keep the account of mana.
LEMMA GenesisInvStep ==
  ASSUME GenesisInv, [GenesisNext]_genesisVars
  PROVE  GenesisInv'
<1>1. CASE RunBeginBlock
  <2>1. TypeOK'
    BY <1>1, TypeStep DEF GenesisInv, RunBeginBlock, Next
  <2>2. lived' \in Nat
    BY <1>1, SMT DEF GenesisInv, RunBeginBlock
  <2>3. files' = {}
    BY <1>1 DEF RunBeginBlock, Running, restartVars
  <2> QED
    BY <1>1, <2>1, <2>2, <2>3, BeginAccrues DEF GenesisInv, FilesFaithful
<1>2. ASSUME NEW tx \in Tx, RunDeliver(tx)
      PROVE  GenesisInv'
  <2>1. /\ DeliverAccepted(tx) \/ DeliverRejected(tx)
        /\ lived' = lived /\ files' = {}
    BY <1>2 DEF RunDeliver, Running, restartVars
  <2>2. TypeOK'
    BY <2>1, TypeStep DEF GenesisInv, Next
  <2>3. CASE DeliverRejected(tx)
    BY <2>1, <2>2, <2>3
       DEF GenesisInv, FilesFaithful, Accrued, Record, Elapsed, DeliverRejected
  <2>4. CASE DeliverAccepted(tx)
    BY <2>1, <2>2, <2>4, DeliverAccrues DEF GenesisInv, FilesFaithful
  <2> QED
    BY <2>1, <2>3, <2>4
<1>3. CASE RunEndBlock
  <2>1. TypeOK'
    BY <1>3, TypeStep DEF GenesisInv, RunEndBlock, Next
  <2> QED
    BY <1>3, <2>1 DEF GenesisInv, FilesFaithful, Accrued, Record, Elapsed,
                      RunEndBlock, EndBlock, Running, restartVars
<1>4. ASSUME NEW forZeroHeight \in ExportKinds, Export(forZeroHeight)
      PROVE  GenesisInv'
  <2>1. PICK b \in IF forZeroHeight THEN PrepForZeroHeightGenesis ELSE {bank} :
          files' = { [height       |-> IF forZeroHeight THEN 0 ELSE height + 1,
                      bank         |-> b,
                      accountManas |-> ExportGenesis] }
    BY <1>4 DEF Export
  <2>2. b \in BankStates
    BY <2>1 DEF GenesisInv, TypeOK, PrepForZeroHeightGenesis
  <2>3. (IF forZeroHeight THEN 0 ELSE height + 1) \in 0..(height + 1)
    BY SMT DEF GenesisInv, TypeOK
  <2>4. UNCHANGED <<vars, lived>>
    BY <1>4 DEF Export
  <2>5. InitGenesis(ExportGenesis) = store
    BY RoundTrip DEF GenesisInv
  <2>6. FilesFaithful'
    BY <2>1, <2>2, <2>3, <2>4, <2>5 DEF FilesFaithful, vars
  <2> QED
    BY <2>4, <2>6 DEF GenesisInv, TypeOK, Accrued, Record, Elapsed, vars
<1>5. CASE \E file \in files : InitChain(file)
  BY <1>5, RestartAccrues
<1>6. CASE UNCHANGED genesisVars
  BY <1>6 DEF GenesisInv, FilesFaithful, TypeOK, Accrued, Record, Elapsed,
              genesisVars, restartVars, vars
<1> QED
  BY <1>1, <1>2, <1>3, <1>4, <1>5, <1>6 DEF GenesisNext

(***************************************************************************)
(* Exporting the state and starting a new chain from it, at whatever       *)
(* height, gives nobody mana (export.go:18-47, genesis.go:12-48).          *)
(***************************************************************************)
THEOREM NoFreeManaHolds == GenesisSpec => []NoFreeMana
<1>1. GenesisInit => GenesisInv
  BY GenesisInvInit
<1>2. GenesisInv /\ [GenesisNext]_genesisVars => GenesisInv'
  BY GenesisInvStep
<1>3. GenesisInv => NoFreeMana
  <2> SUFFICES ASSUME GenesisInv, NEW a \in Accounts,
                      CanGetAccountMana(store, bank, height, a)
               PROVE  spent[a] + GetAccountMana(store, bank, height, a).mana
                        <= Grant(a).mana + PeakPerBlock * lived
    BY DEF NoFreeMana
  <2>1. TypeOK /\ lived \in Nat
    BY DEF GenesisInv
  <2>2. spent[a] + Record(a).mana + PeakPerBlock * Elapsed(a)
          <= Grant(a).mana + PeakPerBlock * lived
    BY DEF GenesisInv, Accrued
  <2>3. /\ Now(a).mana \in Nat
        /\ Now(a).mana <= Record(a).mana + PeakPerBlock * Elapsed(a)
    BY <2>1, NowWithinAccrued
  <2>4. spent[a] + Now(a).mana <= Grant(a).mana + PeakPerBlock * lived
    BY <2>1, <2>2, <2>3, AccruedTypes, SMT
  <2> QED
    BY <2>4 DEF Now
<1> QED
  BY <1>1, <1>2, <1>3, PTL DEF GenesisSpec

-----------------------------------------------------------------------------
(***************************************************************************)
(* As long as no chain was started at height zero, a record is stamped     *)
(* with the block its account last signed in: the height of every record   *)
(* is known from how long its account has been idle.                       *)
(***************************************************************************)
StampedWhenSigned ==
  /\ idle \in [Accounts -> Nat]
  /\ \A f \in files : f.height = 0 \/ f.height = height + 1
  /\ ~ rebased => \A a \in Accounts : height = Record(a).lastUpdateHeight + idle[a]

\* The stamp a read gives: the height, unless the record is from the future.
LEMMA NowStamp ==
  ASSUME TypeOK, NEW a \in Accounts, CanGetAccountMana(store, bank, height, a)
  PROVE  LET last == Record(a).lastUpdateHeight
             rate == ExactRate(bank.balance[a], bank.supply)
         IN  /\ height <= last => Now(a) = Record(a)
             /\ height > last =>
                  /\ Now(a).lastUpdateHeight = height
                  /\ Now(a).mana = ClampedSum(Record(a).mana, PerBlock(rate),
                                              height - last, MaxMana(rate))
<1>1. /\ bank.balance[a] \in Nat /\ bank.supply \in Nat
      /\ bank.balance[a] <= bank.supply
  BY BankRead DEF TypeOK
<1>2. /\ height \in Nat /\ Record(a) \in AccountMana
      /\ CanRegenerate(Record(a), bank.balance[a], bank.supply, height)
      /\ Now(a) = RegenerateMana(Record(a), bank.balance[a], bank.supply, height)
  BY LoadType DEF TypeOK, Record, CanGetAccountMana, Now, GetAccountMana
<1> QED
  BY <1>1, <1>2, RegenerateResult

\* A transaction restarts the count of its signers and nobody else's.
LEMMA DeliverStamps ==
  ASSUME TypeOK, StampedWhenSigned, NEW tx \in Tx, DeliverAccepted(tx),
         idle' = [a \in Accounts |-> IF a \in tx.signers THEN 0 ELSE idle[a]],
         UNCHANGED <<files, rebased>>
  PROVE  StampedWhenSigned'
<1>1. height' = height /\ AnteAccepts(tx) /\ height \in Nat /\ IsStore(store)
  BY DEF DeliverAccepted, TypeOK
<1>2. idle' \in [Accounts -> Nat]
  BY SMT DEF StampedWhenSigned
<1>3. ASSUME ~ rebased, NEW a \in Accounts
      PROVE  height = Record(a)'.lastUpdateHeight + idle'[a]
  <2>1. height = Record(a).lastUpdateHeight + idle[a] /\ idle[a] \in Nat
    BY <1>3 DEF StampedWhenSigned
  <2>2. Record(a)' = LoadAccountMana(AnteWrites(tx), a)
    BY DEF DeliverAccepted, Record
  <2>3. CASE a \notin tx.signers
    <3>1. Record(a)' = Record(a)
      BY <1>1, <2>2, <2>3, AcceptedRecords
    <3> QED
      BY <2>1, <2>3, <3>1
  <2>4. CASE a \in tx.signers
    <3>1. /\ CanGetAccountMana(store, bank, height, a)
          /\ Record(a)'.lastUpdateHeight = Now(a).lastUpdateHeight
      BY <1>1, <2>2, <2>4, AcceptedRecords
    <3>2. Record(a).lastUpdateHeight \in Nat
      BY <1>1, RecordTypes
    <3>3. Now(a).lastUpdateHeight = height
      BY <1>1, <2>1, <3>1, <3>2, NowStamp, SMT
    <3>4. idle'[a] = 0
      BY <2>4
    <3> QED
      BY <1>1, <3>1, <3>3, <3>4, SMT
  <2> QED
    BY <2>3, <2>4
<1> QED
  BY <1>1, <1>2, <1>3 DEF StampedWhenSigned

\* A block is idle for an account until it signs in it, which stamps its record.
LEMMA StampsStep ==
  ASSUME GenesisInv, StampedWhenSigned, [GenesisNext]_genesisVars
  PROVE  StampedWhenSigned'
<1>1. TypeOK /\ height \in Nat /\ IsStore(store)
  BY DEF GenesisInv, TypeOK
<1>2. CASE RunBeginBlock
  <2>1. /\ height' = height + 1 /\ store' = store /\ files' = {} /\ rebased' = rebased
        /\ idle' = [a \in Accounts |-> idle[a] + 1]
    BY <1>2 DEF RunBeginBlock, BeginBlock, Running, restartVars
  <2>2. idle' \in [Accounts -> Nat]
    BY <2>1, SMT DEF StampedWhenSigned
  <2>3. ASSUME ~ rebased, NEW a \in Accounts
        PROVE  height' = Record(a)'.lastUpdateHeight + idle'[a]
    <3>1. height = Record(a).lastUpdateHeight + idle[a] /\ idle[a] \in Nat
      BY <2>3 DEF StampedWhenSigned
    <3>2. Record(a)' = Record(a) /\ Record(a).lastUpdateHeight \in Nat
      BY <1>1, <2>1, RecordTypes DEF Record
    <3>3. idle'[a] = idle[a] + 1
      BY <2>1
    <3> QED
      BY <1>1, <2>1, <3>1, <3>2, <3>3, SMT
  <2> QED
    BY <2>1, <2>2, <2>3 DEF StampedWhenSigned
<1>3. ASSUME NEW tx \in Tx, RunDeliver(tx)
      PROVE  StampedWhenSigned'
  <2>1. UNCHANGED <<files, rebased>>
    BY <1>3 DEF RunDeliver, restartVars
  <2>2. CASE DeliverRejected(tx) /\ UNCHANGED idle
    BY <2>1, <2>2 DEF StampedWhenSigned, DeliverRejected, Record
  <2>3. CASE /\ DeliverAccepted(tx)
             /\ idle' = [a \in Accounts |-> IF a \in tx.signers THEN 0 ELSE idle[a]]
    BY <1>1, <2>1, <2>3, DeliverStamps
  <2> QED
    BY <1>3, <2>2, <2>3 DEF RunDeliver
<1>4. CASE RunEndBlock
  BY <1>4 DEF StampedWhenSigned, RunEndBlock, EndBlock, Record, restartVars
<1>5. ASSUME NEW forZeroHeight \in ExportKinds, Export(forZeroHeight)
      PROVE  StampedWhenSigned'
  <2>1. /\ UNCHANGED <<vars, idle, rebased>>
        /\ \A f \in files' : f.height = IF forZeroHeight THEN 0 ELSE height + 1
    BY <1>5 DEF Export
  <2> QED
    BY <2>1 DEF StampedWhenSigned, Record, vars
<1>6. ASSUME NEW file \in files, InitChain(file)
      PROVE  StampedWhenSigned'
  <2>1. /\ files' = {} /\ store' = store /\ idle' \in [Accounts -> Nat]
    BY <1>6, SMT DEF InitChain, GenesisInv, FilesFaithful, StampedWhenSigned
  <2>2. CASE file.height = 0
    BY <1>6, <2>1, <2>2 DEF InitChain, StampedWhenSigned
  <2>3. CASE file.height # 0
    <3>1. file.height = height + 1
      BY <2>3 DEF StampedWhenSigned
    <3>2. height' = height /\ idle' = idle /\ (~ rebased' => ~ rebased)
      <4>1. height' = file.height - 1 /\ idle' = idle /\ (~ rebased' => ~ rebased)
        BY <1>6, <2>3 DEF InitChain
      <4>2. height' = height
        BY <1>1, <3>1, <4>1, SMT
      <4> QED
        BY <4>1, <4>2
    <3> QED
      BY <2>1, <3>2 DEF StampedWhenSigned, Record
  <2> QED
    BY <2>2, <2>3
<1>7. CASE UNCHANGED genesisVars
  BY <1>7 DEF StampedWhenSigned, Record, genesisVars, restartVars, vars
<1> QED
  BY <1>2, <1>3, <1>4, <1>5, <1>6, <1>7 DEF GenesisNext

\* What a stamp is worth: at least the floor's gain for every block since.
LEMMA StampsRecover ==
  ASSUME RatesFit, TypeOK, StampedWhenSigned, ~ rebased, NEW a \in Accounts
  PROVE  Recovered(a)
<1> DEFINE rate == ExactRate(bank.balance[a], bank.supply)
           last == Record(a).lastUpdateHeight
<1>1. /\ height = last + idle[a] /\ idle[a] \in Nat /\ height \in Nat
      /\ last \in Nat /\ Record(a).mana \in Nat
  BY RecordTypes DEF StampedWhenSigned, TypeOK
<1>2. /\ bank.balance[a] \in Nat /\ bank.supply \in Nat
      /\ bank.balance[a] <= bank.supply
      /\ RateFits(bank.balance[a], bank.supply)
  BY BankRead DEF TypeOK, RatesFit
<1>3. CanGetAccountMana(store, bank, height, a)
  BY <1>2 DEF CanGetAccountMana, CanRegenerate
<1>4. rate \in Nat
  BY <1>2, RateBounded
<1>5. /\ MinManaFloor \in Nat \ {0} /\ ManaRegenWindowBlocks \in Nat \ {0}
      /\ MinPerBlock \in Nat
  BY MathAssumption, SMT DEF MathAssumption, MinPerBlock
<1>6. CASE idle[a] = 0
  <2>1. ClampedSum(0, MinPerBlock, 0, MinManaFloor) = 0
    BY <1>5, SMT DEF ClampedSum
  <2>2. Now(a) = Record(a)
    BY <1>1, <1>3, <1>6, NowStamp, SMT
  <2> QED
    BY <1>1, <1>6, <2>1, <2>2, SMT DEF Recovered, Now
<1>7. CASE idle[a] # 0
  <2>1. height > last /\ height - last = idle[a]
    BY <1>1, <1>7, SMT
  <2>2. Now(a).mana = ClampedSum(Record(a).mana, PerBlock(rate), idle[a], MaxMana(rate))
    BY <1>3, <2>1, NowStamp
  <2>3. PerBlock(rate) \in Nat /\ MinPerBlock <= PerBlock(rate)
    <3>1. PerBlock(rate) \in Nat
      BY <1>4, PerBlockMonotone
    <3> DEFINE gain == rate \div (IF BlocksPerYear = 0 THEN DefaultBlocksPerYear
                                                       ELSE BlocksPerYear)
    <3>2. PerBlock(rate) = IF gain < MinPerBlock THEN MinPerBlock ELSE gain
      BY DEF PerBlock
    <3>3. PerBlock(rate) = MinPerBlock \/ (PerBlock(rate) = gain /\ ~ (gain < MinPerBlock))
      BY <3>2
    <3> HIDE DEF gain
    <3> QED
      BY <1>5, <3>1, <3>3, SMT
  <2>4. MaxMana(rate) \in Nat /\ MinManaFloor <= MaxMana(rate)
    BY <1>4, <1>5, SMT DEF MaxMana
  <2> HIDE DEF rate
  <2>5. ClampedSum(0, MinPerBlock, idle[a], MinManaFloor)
          <= ClampedSum(0, PerBlock(rate), idle[a], MaxMana(rate))
    BY <1>1, <1>5, <2>3, <2>4, ClampedSumMonotone
  <2>6. ClampedSum(0, PerBlock(rate), idle[a], MaxMana(rate))
          <= ClampedSum(Record(a).mana, PerBlock(rate), idle[a], MaxMana(rate))
    <3>1. PerBlock(rate) * idle[a] \in Nat
      BY <1>1, <2>3, SMT
    <3> QED
      BY <1>1, <2>4, <3>1, SMT DEF ClampedSum
  <2>7. /\ ClampedSum(0, MinPerBlock, idle[a], MinManaFloor) \in Nat
        /\ ClampedSum(0, PerBlock(rate), idle[a], MaxMana(rate)) \in Nat
        /\ ClampedSum(Record(a).mana, PerBlock(rate), idle[a], MaxMana(rate)) \in Nat
    BY <1>1, <1>5, <2>3, <2>4, ClampedSumBounds
  <2>8. ClampedSum(0, MinPerBlock, idle[a], MinManaFloor) <= Now(a).mana
    BY <2>2, <2>5, <2>6, <2>7, SMT
  <2> QED
    BY <2>2, <2>7, <2>8, SMT DEF Recovered, Now
<1> QED
  BY <1>6, <1>7

(***************************************************************************)
(* An account that has not signed for n blocks has n times the minimum     *)
(* gain or its free allowance, through any number of restarts at the same  *)
(* height (keeper.go:122-125, export.go:17-47, genesis.go:12-48).          *)
(***************************************************************************)
THEOREM RecoversGraduallyHolds ==
  ASSUME RatesFit, FreshStamps
  PROVE  GenesisSpec => []RecoversGradually
<1>1. GenesisInit => GenesisInv /\ StampedWhenSigned
  <2> SUFFICES ASSUME GenesisInit
               PROVE  StampedWhenSigned
    BY GenesisInvInit
  <2>1. /\ files = {} /\ height = 0 /\ idle = [a \in Accounts |-> 0]
        /\ store = GenesisStore
    BY DEF GenesisInit, Init
  <2>2. \A a \in Accounts : Record(a).lastUpdateHeight = 0
    BY <2>1, FreshStamps DEF FreshStamps, Record, Grant
  <2> QED
    BY <2>1, <2>2, SMT DEF StampedWhenSigned
<1>2. GenesisInv /\ StampedWhenSigned /\ [GenesisNext]_genesisVars
        => GenesisInv' /\ StampedWhenSigned'
  BY GenesisInvStep, StampsStep
<1>3. GenesisInv /\ StampedWhenSigned => RecoversGradually
  BY StampsRecover, RatesFit DEF GenesisInv, RecoversGradually
<1> QED
  BY <1>1, <1>2, <1>3, PTL DEF GenesisSpec
=============================================================================
