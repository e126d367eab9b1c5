# JEE Chain in TLA+

JEE Chain is a Cosmos SDK application without transaction fees. What it adds to
the SDK is a bandwidth meter ("mana") per account, a limit on transactions per
account and block, an adaptive proof-of-work filter in front of the mempool, and
a mempool ordered by mana. This directory specifies that part of the program:
TLA+ modules translated from the Go code, TLC configurations that check them on
small instances, and TLAPS proofs for every value of the constants.

All paths are relative to the repository root. `PROJECT.json` maps every
definition to the lines it models and lists runs, mutants, findings, hazards and
theorems.

## 1. Inventory

### Components

| Component | Code | State | Operations |
|---|---|---|---|
| Mana arithmetic | `x/mana/keeper/rate.go`, `keeper.go:184-232,274-280`, `types/types.go` | none | rate of a balance, cap, gain per block, saturating addition, price of a transaction |
| Mana keeper | `x/mana/keeper/keeper.go:38-292` | `account/<addr>`: mana, last update height, count of transactions, block of that count; params | load, regenerate, read, consume, count, write |
| Block execution | `app/ante/ante.go`, `app/app.go:544-570` | the mana store, the bank, the height | BeginBlock, the ante pipeline for each transaction, its messages, EndBlock, Commit; InitChain |
| Proof-of-work choke | `keeper.go:305-412`, `ante.go:240-308`, `app.go:544-552,622-660` | `pow/difficulty`, the check state's copy of it, the mempool, what wallets mine | PreBlocker update, CheckTx filter, recheck, query |
| CheckTx state and mempool | `app/app.go:486-540`, `ante.go` | check state, priority mempool of at most 10,000 with a priority per entry, CometBFT's own mempool | CheckTx, ReCheckTx, PrepareProposal, ProcessProposal, FinalizeBlock, Commit, restart |
| Genesis and export | `x/mana/keeper/genesis.go`, `x/mana/types/types.go:120-150`, `app/export.go` | the exported file | InitGenesis, ExportGenesis, zero-height preparation |
| Queries | `x/mana/keeper/query.go`, `app/app.go:600-661` | none | QueryMana, the two REST end points |
| Application wiring | `app/app.go:95-480`, `app/params*.go`, `app/encoding.go`, `app/config.go` | none after start-up | construction |
| Codec and module registration | `x/mana/module.go`, `x/mana/types/codec.go` | none | registration |
| SDK modules (bank, staking, mint, auth, ...) | not in the repository | balances, supply, sequences | seen through `ViewBankKeeper` only |

### Interactions

The ante handler calls the keeper with the context of the transaction: a branch
of the block's state (DeliverTx) or of the check state (CheckTx). BaseApp writes
the branch back only if every decorator succeeds; writes of failing messages are
dropped, writes of the ante handler are not. The keeper reads the bank at the
moment of the call and never writes it. PreBlocker writes the difficulty before
the first transaction; CheckTx and the REST end points see it after Commit.
After each Commit the check state is replaced and CometBFT rechecks what its
mempool holds.

Execution of a block is sequential and deterministic. The interleavings of this
system are those of CheckTx, queries and wallets with blocks, of bank movements
with lazy updates, and of restarts with all of them.

### What is hard here, and what must hold

* **Lazy meters** (`keeper.go:152-208`). A record is brought up to date only when
  it is touched, with the balance of that moment. Parts must compose
  (`LazyEqualsEager`); the laziness must not show where gains stand still
  (`ImplementsMeter`); a sequence of drains, transfers and reads must never yield more
  than the rate allows (`RateLimited`, `ImplementsTokenBucket`). Coins that are passed
  on inside a block raise the receiver's meter at once, so the same coins can pay for
  several accounts; what all accounts together spend in a block must still be bounded by
  the coins and their moves (`NetworkBandwidth`).
* **Word-sized arithmetic** (`keeper.go:216-231`). A dormant account's gain does
  not fit in the word (`SaturatesExactly`).
* **A counter without a reset** (`keeper.go:259-262`). The per-block count lives in
  the account record next to the block it belongs to, and is cleared by whoever
  next increments it (`CountExact`, `PerBlockLimit`).
* **Charges before verification** (`ante.go:64-82`). Mana and counts are written
  before signatures are checked; rejection must undo them (`CountExact`,
  `ImplementsMeter`).
* **A feedback controller with a delay** (`keeper.go:346-360`). Its watermarks,
  clamps and return to zero (`EngagesOnlyWhenBusy`, `DecaysWhenCalm`,
  `CalmSwitchesOff`), the wallet that mined for the previous difficulty
  (`WalletsGetIn`), the transaction admitted at a lower one (`AdmittedHaveWork`).
* **Restart** (`ante.go:149,218,271`). The check state has height 0 until the next
  commit, and every filter of this repository is skipped at height 0.
* **Restart from an exported state** (`export.go:17-181`, `genesis.go:12-48`).
  Meters, stamps and counts only mean something together with a height. A restart
  must give nobody mana (`NoFreeMana`) and take nobody's recovery away
  (`RecoversGradually`).
* **A cap computed twice** (`query.go:18-33`, `keeper.go:167-186`): what wallets are
  shown must be what they reach, with a gain that is rounded down (`ShownCapIsReached`).
* **A second copy of the state** (`ante.go:149-182`, `app.go:416-418`). CheckTx runs the
  pipeline on the check state: at another height than the block, over the
  transactions that wait, thrown away and rebuilt at every commit. What it lets in
  must pass the next block (`AdmittedIsProposable`), and it must differ from the
  committed state by nothing but what is outstanding (`CheckStateExact`). A timeout
  height is judged one block early (`ante.go:71`), calls that overlap are enqueued in
  another order than they were charged, and a transaction can be refused after its charge.
* **Two mempools** (`app.go:494-503`). CometBFT's decides what is rechecked, the
  application's what is proposed; each drops transactions on its own occasions, one by
  transaction and the other by sender and nonce. They must agree in both directions
  (`NothingLeftBehind`, `NothingForgotten`).
* **Judged before it is executed** (`app.go:501-503`). A proposal is built and
  validated on the committed state; the block first mints. What is built must be
  accepted (`ProposalAccepted`), and what is accepted must execute unless minting has
  really cost the payer the price (`DecidedIsExecuted`).
* **A priority taken once** (`app.go:519`). It is the meter of one moment, compared
  with meters of other moments (`HigherManaFirst`).
* **Rate errors** (`rate.go:21`). A rate out of the word makes every read of that account
  fail, from one transaction of a block to the next (`DecidedIsExecuted`).

The full list, each at its line, is `hazards` in `PROJECT.json`.

## 2. Modules

```
ManaMath ── ManaKeeper ── ManaChain ── ManaGenesis ── MCManaGenesis
   │                         ├── ManaNetwork ── MCManaNetwork
   │                         ├── MCManaChain, MCManaMainnet
   │                         ├── INSTANCE TokenBucket
   │                         └── INSTANCE ManaMeter (EXTENDS ManaMath)
   │             └── JeeNode ── MCJeeNode
   └─ MCManaMath
PowChoke
proofs: ManaKeeperProofs ─┬─────────── ManaChainProofs ── ManaGenesisProofs
        Induction ────────┼──────┘     (ManaNetwork's, too)
                          ├── JeeRunProofs (and Induction) ── JeeNodeProofs
                          └── MCManaMathProofs
        PowChokeProofs
```

**ManaMath** — pure operators. `ExactRate` is `computeManaRate` in arbitrary
precision; `RateFits` is its only error. `MaxMana`, `PerBlock` and
`AddManaSaturating` are the three parts of `regenerateMana`, the last one with
the overflow test and the order of comparisons of the code, in a word whose
largest value is the constant `MaxUint64`. `ClampedSum` is the reference in plain
integers.

**ManaKeeper** — the account record and each keeper operation as a function from
a store to a store, with its error as a separate predicate: `CanConsume` /
`ConsumeMana`, `CanIncrement` / `IncrementTxCount`, `GetAccountMana`. An account
without a record reads as `FreshAccount`, last updated at height 0, as in
`loadAccountMana`. The price is subtracted in plain integers under the guard that
makes the subtraction fit. `QueryMana` has its own cap, `ShownCap`, written from
`query.go` and not from the keeper's `MaxMana`, so that the two can disagree.

**ManaChain** — block execution. `BeginBlock`, `DeliverAccepted`,
`DeliverRejected`, `EndBlock`. A transaction has a payer (the first signer), a
set of signers, a size, and a flag `sound` for all the decorators of the SDK
around ours. `AnteAccepts` and `AnteWrites` are the pipeline: the payer is
charged, then every signer's count is raised *on the store the charge has
written*. On acceptance the messages may change the bank or fail and change
nothing. The decorators' order is kept where it shows: `ManaConsume` before
`TxSpamLimit`. The bank is an environment: it moves among the
states in `BankStates`, in the ways the SDK's modules can move it in that phase
(minting at BeginBlock, coins leaving only signers' balances or burned, completed
unbonding and burned deposits at EndBlock). `spent` and `included` are history
variables and guard nothing. The action `Calm` names the steps over which the meter of
the README is exact: they change nobody's gain per block and raise nobody's cap.

**ManaNetwork** — ManaChain with three history variables for one block: the bank before
its first transaction, the mana charged to each account, the coins that reached each
account from messages. It is what `NetworkBandwidth` is said about, and guards nothing.

**ManaGenesis** — ManaChain's steps while a chain is running, and two more: `Export`
stops it between two blocks and leaves a genesis file (the records with their
addresses, the bank, the next height or 0), `InitChain` starts a chain from that
file. For zero height the bank has first been through
`prepForZeroHeightGenesis`, of which the mana module sees the withdrawn rewards;
what it resets in staking, distribution and slashing is not visible here, and it
resets nothing in the mana records. `lived`, `idle` and `rebased` are history
variables. The difficulty is not exported at all: `PowChoke!Init` is its restart.

**TokenBucket** and **ManaMeter** — what the meter promises, without records,
time stamps or stores. TokenBucket is an upper bound that must hold whatever the
bank does: at most `Burst + k * Rate` in any `k` blocks. ManaMeter is the exact
meter of `README.md:47-56`: refilled each block, charged exactly the price. The code
does not promise it when coins arrive: the keeper accounts for all the blocks since the
last update at the balance of the read, which `keeper.go:118-120` documents for a newly
funded wallet. `ImplementsMeter` is therefore said of behaviours with calm steps.

**PowChoke** — the controller (`NextDifficulty`), FinalizeBlock and Commit as
separate steps, the CheckTx filter, CometBFT's recheck (`config.toml:26`),
restarts, and wallets that ask for the difficulty, mine exactly that many bits
and submit. The hash is abstracted to the number of leading zero bits a memo
achieves. `checkReady` is "the check state has a height other than 0".

**JeeNode** — one node between CometBFT and the chain. A *state* is what a context
gives to read: a height, the mana store, the bank, the sequences. `committed` is the
last commit, `delivered` the block executed and not yet committed, `check` the state
CheckTx runs on. The pipeline is one pair of operators, `AnteAccepts(state, tx)` and
`AnteWrites(state, tx)`, used on all of them; at height 0 it skips mana and limit as
`ante.go:149,218` do. `comet` is CometBFT's mempool, in order of arrival; `pool` the
application's, entries with the priority `manaTxPriority` gave at insertion. ABCI calls
exclude each other, so each is one action; CometBFT enqueues a transaction after the call
has returned, so that is another, and `calls` holds what is in between:

| Action | Code |
|---|---|
| `CheckTxAdmitted` | the pipeline on the check state, which is charged; then insertion into the application's mempool |
| `CheckTxRefused` | the same charge, but `MaxTx` is reached, or reading the priority (`app.go:519`) runs out of the transaction's gas |
| `Enqueue` | CometBFT lists the transaction, in any order of the calls under way, or drops it if they have filled its mempool |
| `PrepareProposal` | the handler of `app.go:501`: the iterator's order (`SelectOrders`, ties in any order), the pipeline on a branch of the committed state, the byte limit, the sender's nonces; failing transactions leave `pool` |
| `FinalizeBlock` | any block that passes `ProcessProposal`, from this node or another: BeginBlock moves the supply, each transaction runs pipeline and messages, EndBlock |
| `Commit` | waits for the calls under way; new check state; the block leaves CometBFT's mempool, the rest is rechecked in order of arrival |
| `Restart` | both mempools are lost; an uncommitted block is executed again; otherwise the check state is at height 0 |

`dropped` (charged by CheckTx since the last commit, but lost to CometBFT's mempool),
`orphaned` (left in the application's mempool when CometBFT's lost or never had them) and
`expelled` (thrown out by a proposal, still in CometBFT's) are history variables. A block
notes the state in which each failed transaction was rejected, which is what
`DecidedIsExecuted` gives the reasons of. A transaction has a timeout height (0: none),
compared with the height of the state it runs on (`Expired`). `ShownMana` is the REST end point for an account. Transactions have one signer (ManaChain has
co-signers), and the network is calm (PowChoke has the filter).

**MCManaMath, MCManaChain, MCManaNetwork, MCManaMainnet, MCManaGenesis, MCJeeNode** — instances
for TLC and the properties that need an instance to be stated. Most properties are stated
in the component's own module. `MCSpec` adds a stuttering step at the last
height, so that deadlock anywhere else is still an error.

Definitions named `X_Something` before an `X` are the faulty variants the
mutation checks use; each is a slip one could make in that function.

## 3. Runs

| Run | Shows |
|---|---|
| `math` | For all 4-bit meters, caps, gains and up to 4 blocks: the saturating sum is the clamped integer sum, and updating in two parts equals updating at once. Every overflow branch is taken. |
| `chain` | Under all bank movements, co-signers, failing messages and rejections: per-block limit, exact counters, rate limits, the cap shown by the query, and TokenBucket as an abstract specification. |
| `meter` | Over calm steps - minting where everybody gains the minimum, transfers and staking among holders at the floor - the lazy records implement ManaMeter. |
| `network` | Three accounts pass the whole supply round inside a block: together they are charged at most the rate of the coins there were plus those that moved, and one floor each. |
| `genesis_bonus` | *Violation.* The 500,000,000 mana granted at genesis are cut to the cap before the first transaction. |
| `large_holder` | *Violation.* With the shipped parameters no holder regenerates faster than the floor. |
| `genesis` | Over restarts from exported states, zero-height ones included, nobody gains mana; restarts at the same height lose nobody's recovery. |
| `genesis_zero_height` | *Violation.* After a zero-height export a record stamped by the old chain gains nothing until the new chain has passed that height: on a chain exported at block 10,000,000, some four months. |
| `pow` | Difficulty engages only after congestion, is bounded, decays and switches off; nothing stays in the mempool below it; wallets that retry get in. |
| `pow_midband` | *Violation.* A load between the watermarks keeps proof-of-work on for ever. |
| `node` | CheckTx calls that overlap, transactions that expire, proposals, blocks of other nodes, commits with recheck and a restart in any order: the check state is exact, the mempools agree up to the cases the properties name, and what is admitted, proposed and decided passes the next judge. |
| `node_priority` | *Violation.* Priorities of different blocks are compared: a transaction that has waited is proposed behind one of an account that has less mana now. |

The five violations are differences between what `README.md` or a comment says and
what the code does, described under `findings`. The code's behaviour in each is
deterministic and does not split validators.

### Bounds

* `chain`, `meter`: two accounts, one with a grant above
  every cap and one without a record; 3 blocks of at most 3 transactions; limit 2
  per block (so the limit is met and exceeded, and a count of one block is left
  over in the next); sizes 0, 3 and 4 with `MaxTxBytes` 3 (base price, per-byte
  price, too large); five bank states (all coins with either account, split,
  partly or wholly staked, more supply after minting). Pool 8, floor 4, window 4 and
  4 blocks per year make a whole-supply holder gain 2 and cap at 8, a poor one
  gain 1 and cap at 4: both branches of both comparisons in `regenerateMana`.
  Three blocks suffice to drain, skip a block, and be touched again after a
  transfer. The word (1,023) is never left; overflow is the business of `math`,
  and of the proofs, which are for every word.
  `meter` has 8 blocks per year, so that everybody gains the minimum, and eight bank
  states: the supply is minted up from 4 to 5 and 6, which costs a holder of 4 part of its
  cap, and holders of at most 2 send and stake.
* `network`: three accounts, one with a grant of 24; five bank states, with
  all or most of the coins in one hand, one of them minted and one burned; a block's refill fills the largest cap, so
  that an account that never signed can spend the rate of coins it has just received;
  2 blocks of at most 3 transactions. The bound without the coins that moved fails here.
* `genesis`, `genesis_zero_height`: the same accounts and parameters, coins either with
  alice or staked, one transaction per block, 3 blocks per chain, one export at any
  point. Export after block 1 leaves the new chain two blocks beyond the old stamps,
  so both sides of the comparison at `keeper.go:158` are taken.
* `math`: a 4-bit word, so that all of the operator's inputs are enumerated.
* `genesis_bonus`, `large_holder`: the real constants and genesis parameters. TLC
  computes in 32 bits, so balances are counted in units of which the supply has 8
  or 2, which leaves every quotient unchanged.
* `pow`, `pow_midband`: the real watermarks with loads on, just above and just
  below each; two wallets; maximum 3 instead of 24 (the controller moves by one, so
  3 has a bottom, a middle and a top); one restart.

* `node`: two accounts, two nonces each, five transactions: two of alice's, of size 2 and 1,
  and three of bob's, two of which share his first nonce, one of them with timeout height 2.
  The application's mempool holds 3 and CometBFT's 2, two calls overlap; blocks of at most
  two transactions and three bytes (so that not every pair fits), heights 1 to 3, one
  restart. Limit 2 per block, and one account starts with a count of the block just
  committed and above its cap. The word is 15 and the multiplier 2, so that one of the three bank
  states has a rate out of the word, and one has a minted supply. The reasons for which
  a decided transaction may fail (`DecidedIsExecuted`) occur, and so does each exception of
  `AdmittedIsProposable`, `NothingLeftBehind` and `NothingForgotten`. With the shipped
  configuration CometBFT's mempool (`config.toml:31`, 5,000) is smaller than the application's
  (10,000), so the latter is only reached with transactions left behind.
* `node_priority`: the same accounts within their caps, a bank that stands still, four
  transactions of one size without timeouts, both mempools of 3, calls that do not overlap, no restart.

`AdmittedHaveWork` (run `pow`) is about CometBFT's mempool, which is what recheck goes
through. Entries that only the application's mempool still holds (`orphaned` in
JeeNode) are not rechecked, and validators do not look at proof-of-work either.

The model of `genesis_bonus` and `large_holder` ends at its last height, so
those two do not check deadlock. All other runs do.

### Fairness

Safety runs assume none, `node` among them: nothing in this repository makes a
transaction leave the mempools in the end. `PowChoke!FairSpec` assumes weak fairness of FinalizeBlock
and Commit (consensus keeps deciding blocks; the height is not bounded in this
module), and of Query and Submit for each wallet (a client that keeps trying; both are
enabled until taken, except across a step of its own). It assumes nothing about
loads or about which admitted transactions a proposer picks; restarts are bounded by
`MaxRestarts` and not fair. `WalletsGetIn` adds in its own hypothesis that the
load settles on one side of the watermarks: under a load that keeps rising a
wallet may always be one bit late, which the code permits.

## 4. Proofs

Every invariant and refinement that a passing run checks is also a theorem, for every value of the constants. What a theorem needs beyond the
assumptions of its module is in its statement.

**`Induction`** — no theorem of its own. The library's induction theorems take a
predicate as a parameter, which the provers cannot instantiate; that every set of
natural numbers has a least element can be cited, and a set `{ i \in 0..n : ... }` is
what a predicate becomes. From this follow `InductionUpTo` and `InductionOnSubsets`;
`RecursionExists`, that a function given by its first value and by each next one
exists, so that a recursive function can be unfolded one step at a time; and the sums: `SumFunction` over a
finite set is a number, adds an element at a time, is monotone (`SumBounded`), takes a
common factor out (`SumScaled`) and splits over a sum of two functions (`SumPlus`).

**`ManaKeeperProofs`** — the arithmetic and the keeper.

* `SaturationIsExact`: `AddManaSaturating = ClampedSum` for every word, meter, gain
  and cap that fit it and every number of blocks. The case analysis is that of the
  code; multiplication is handled by monotonicity lemmas, since the product of
  two variables is beyond linear arithmetic.
* `RegenerationComposes`: `RegenerateMana` at one height and then at a later one gives the
  record, stamp included, that it gives at the later one alone, with the same balance and
  supply. It covers stamps in the future (`keeper.go:158`) and meters above the cap; the
  arithmetic inside is the lemma `LazyUpdateComposes`.
* Lemmas: operations keep stores well typed; what a record holds after regeneration is
  a `ClampedSum`; the peak rate bounds every rate (from `balance <= supply`); a
  rate grows with the balance and falls with the supply (`RateMonotone`), and
  a read with the rate and the block (`ReadMonotone`, `OneBlockMore`).

**`MCManaMathProofs`** — `SaturatesExactlyHolds`, `LazyEqualsEagerHolds`: what the run
`math` checks for a 4-bit word. The invariant `LazyInv` gives both meters in closed form:
the clamped sum from the start to the block they were last brought up to. Block 0
is set apart, since a meter above its cap is cut by the first update and not before.

**`ManaChainProofs`**

* `TypeCorrect`: `Spec => []TypeOK`. The meter stays inside the word.
* `PerBlockLimitHolds`: from the invariant `CountCovers`, that the stored count of
  this block is at least the number of transactions included. Equality is not
  needed and does not hold for a genesis file that carries counts.
* `CountIsExact`: equality, under `FreshCounts`, that genesis records
  carry no count. The strengthening `StampsPast` says that no record is stamped
  with a block that has not begun: this is what makes a left-over count stale as soon
  as the height moves.
* `RateLimitHolds`: `RateLimited` is inductive with typing. A touched account's meter
  and time stamp move together; the lemma `AcceptedRecords` reduces an accepted
  transaction to what happens to one record.
* `RefinesTokenBucket`: ManaChain implements TokenBucket under the mapping in
  `ManaChain.tla`. The mapping adds to a record the gain the account could have since
  its time stamp at the peak rate, so a transfer, which changes the true gain,
  is a stutter. `MetersBounded` (no meter above its burst) is the strengthening.
* `RefinesMeter`: behaviours with calm steps implement ManaMeter, under `RatesFit` and
  `FreshStamps`. The strengthening `NotAhead` says that no stamp lies beyond the
  height; then every read is a clamped sum over the blocks since the stamp, a block adds
  a term to it, and a signer's new record is the one it read less the charge. A cap that
  falls between two blocks cuts the lazy sum and the running one alike (`CapMayFall`); one that
  rises does not, which is why calm steps raise none.
* `RefinesMeterWhenGainIsFlat`: what this means for the chain as shipped, where even the
  whole supply gains no more than the floor (`FlatGain`; run `large_holder`) and every
  block mints. `Ordinary` steps mint between blocks, or move coins of accounts whose rate is
  below the floor before and after; `OrdinaryIsCalm` reduces it to `RefinesMeter`.
* `ShownCapIsReachedHolds`: the cap of the query is the keeper's cap, computed a second
  time, and waiting `RefillTime` at the smallest gain fills it (`RefillTimeSuffices`).
  Needs `NotAhead`, since nothing is gained up to a stamp in the future, and
  `WindowDividesFloor`: the gain per block is rounded down, and the promised time is
  right because the floor is a multiple of the window (1,000,000 and 1,000 in
  `types.go`). If it were not, the account would gain less than the floor in a window.
* `NetworkBandwidthHolds`: for any finite set of accounts. The invariant `NetworkInv` gives
  each account its `Spendable` mana of the block: the cap of the coins it held at the
  beginning and those that arrived since. A record stamped with this height regenerates no
  more, so what was charged and what it holds stay below that; a record with an older
  stamp has not been charged. The caps add up to at most the rate of all these coins and the
  floors (`RatesShareThePool`: each rate is rounded down, so the sum of the quotients is
  at most the quotient of the sum). Needs `RatesFit`, `FreshStamps` and `BankIsConsistent`.

**`ManaGenesisProofs`**

* `NoFreeManaHolds`: the invariant is `Accrued`: spent, plus held, plus what could
  still be paid since the record's stamp, is at most the grant plus a peak gain per
  block lived. A block adds one to both sides, a transaction moves mana from held
  to spent, a restart keeps the records (`RoundTrip`) at a height that is not later.
  `FilesFaithful` carries the records through the file.
* `RecoversGraduallyHolds`: from `StampedWhenSigned`, that a record's stamp is the block
  its owner last signed in, as long as no chain was started at height zero: then the
  height minus the stamp is exactly the number of idle blocks, and the clamped sum over
  them is at least that of the floor. Needs `RatesFit` and `FreshStamps`.

**`PowChokeProofs`**: `PowTypeCorrect`, `EngagesOnlyWhenBusyHolds`, `DecaysWhenCalmHolds`,
`AdmittedHaveWorkHolds`, all from `PowInv`, which adds to the properties how
`pending` relates to `difficulty` inside and outside a block.

**`JeeRunProofs`** — lemmas about one transaction, a list of them, and the execution of a
block, on any state. The pipeline reads and writes the payer only, so two runs
through the same list can be compared one account at a time. Relations between two states
are kept by a transaction the first one accepts, and carried along a list by `InductionUpTo`:

| Relation | Says | Used for |
|---|---|---|
| `Agree` | an account's record and sequence are the same | proposals and their replay |
| `Drift` | sequence, meter and count differ by a set of transactions | the check state |
| `Lined` | a set of transactions fills the nonces between two states, one each | recheck, in whatever order it goes |
| `Abreast` | each account is `Even` (it has had the same from both, and has no less or is diluted) or `Behind` since a rejected transaction; every rejection is `Explained` | a block as judged and as executed |

**`JeeNodeProofs`**

* `TypeCorrect`: from `NodeInv`, which says that each of the states is a `NodeStates`
  record and which transactions a block notes. It needs that a run of any length
  keeps a state well typed, which is the first use of the induction.
* `NothingLeftBehindHolds`: from `LeftInv`: what waits in the application's mempool and is in the
  block being executed is orphaned or has failed. Without it `Commit`, which
  takes the block out of CometBFT's mempool, could leave it in the other one.
* `ProposalAcceptedHolds`: holds in every state of the right shape. The invariant is one of
  the handler's turns, `InStep`: the transactions selected so far pass the pipeline, and
  every account has had the same from them as from the proposer's own run, or waits for a
  nonce that cannot come (`Out`). The second case is a transaction that was charged to the
  proposer's state and then did not fit: the proposer's state is ahead of the
  replay for that sender, and only the bookkeeping of nonces keeps the rest of its
  transactions out.
* `DecidedIsExecutedHolds`: the block as validators ran it and as it is executed go side by
  side (`Abreast`). The bank moves in between: BeginBlock mints, messages and their
  transfers succeed or fail. Balances of accounts that have not signed do not fall, so an
  account that has not been touched stays even unless its rate leaves the word; a touched one
  has no less mana unless minting lowered its cap or gain (`Diluted`), and then it is
  rejected only if the meter really is below the price. Minting itself is no excuse: holders at
  the floor are never diluted.
* `CheckStateExactHolds`: from `CheckInv`. Besides the drift it says that what was sent is
  distinct, fills the nonces between the committed and the check state (`Lined`) and
  keeps to the limit. Recheck re-establishes it at every commit, from the run it makes, in
  whatever order the overlapping calls were enqueued.
* `NothingForgottenHolds`: from `SpentInv`, `CheckInv` and `PoolInv`: an entry can only be
  replaced or removed by another one of its sender and nonce, and such another is not
  accepted while the first is charged for, unless a block has used the nonce.
* `AdmittedIsProposableHolds`: holds by an invariant of the handler's turns, `Fair`: a sender
  that is not excused has nothing more to come, or the block is full, or it waits for a
  nonce that cannot come, or it is `InLine`: the next of its nonces is next in the order, and
  mana and limit suffice for all the rest of what it has sent. `Backed` says that at
  the start, from `CheckInv` and `NothingForgotten`. The check state was one block lower, where every
  account that is not above its cap reads no more and every count started earlier. Needs
  `FirstCounts`: no record of the first state counts a block to come.
  `GenesisState.Validate` (`types.go:140-150`) does not look, and such an account
  would be at its limit in a block it has not signed for.

### Hypotheses

Assumptions of modules: `MathAssumption` (constants of `types.go`
and what `Params.Validate` guarantees; the multiplier is unrestricted),
`KeeperAssumption`, `ChainAssumption` (the genesis records are well typed; no
balance exceeds the supply, which the SDK's bank maintains), `GenesisAssumption`,
`PowAssumption`, `NodeAssumption`. TLC evaluates those in every run of their module.

Hypotheses of single theorems, all of which hold in the runs of the properties concerned
(`FlatGain` and `Calm` in the run `meter`; `node` has a bank in which a rate leaves the word):

| Hypothesis | Says | Why it is a hypothesis |
|---|---|---|
| `FreshCounts`, `FreshStamps`, `FirstCounts` | genesis records carry no count, no stamp, no count of a block to come | the code does not check the file for it |
| `RatesFit` | no rate the bank can give leaves the word | `Params.Validate` does not bound the multiplier; it follows from `PeakRate <= MaxUint64` (lemma `PeakRateFits`), as shipped |
| `[][Calm]_vars` | no step changes a gain or raises a cap | the keeper accounts for past blocks at the balance of the read (`keeper.go:118-120`) |
| `FlatGain`, `[][Ordinary]_vars` | the whole supply gains no more than the floor; apart from minting, only rates below the floor move | as shipped; a large transfer changes meters at once |
| `WindowDividesFloor` | the floor is a multiple of the window | constants of `types.go` |
| `BankIsConsistent`, finite `Accounts` | balances add up to at most the supply | maintained by the SDK's bank; evaluated by the run `network` |

### Only model-checked

* `CalmSwitchesOff` and `WalletsGetIn`: liveness, which needs fairness and ENABLED, is
  outside the prover.
* The five violations, which are existence claims, and what they say of the shipped
  parameters.

## 5. Plan

1. *Done:* every component of this repository with state of its own is modelled; every
   property of the passing runs is proved but for the two liveness properties.
2. *Open:* a theorem that JeeNode's pipeline is ManaChain's for transactions with one
   signer. The two modules are written from the same lines and share ManaKeeper, but that
   they agree is shown by reading only.

## 6. Not modelled, and why

* Co-signers and proof-of-work in JeeNode: ManaChain and PowChoke have them. The
  mempools use the first signer only.
* What `JeeNode` assumes of the SDK (v0.50) and CometBFT (v0.38), as the versions in `go.mod`:
  PriorityNonceMempool keys by sender and nonce and never lists a nonce before a lower one; the
  default proposal handler drops a transaction whose pipeline fails and skips one that does
  not follow the sender's last; a transaction executed in a block, or failing recheck,
  leaves the application's mempool; ABCI calls are serialised. These definitions are marked external.
* Exports restricted to a list of modules: dropping the mana module's state is the
  operator's choice and drops every limit with it.
* Simulation: it skips every decorator of this repository and keeps no writes.
* JSON of records, bech32, the hash puzzle bit by bit, events, REST formatting:
  data the properties do not distinguish.
* Gas as a number: a transaction that runs out of it in the pipeline is one that is not
  `sound`, in its messages one whose messages fail, and while its priority is read
  one that `CheckTxRefused` refuses. JeeNode's transactions are sound: their gas
  suffices for the pipeline in every state, whatever the length of the records read.
* Consensus, gossip and the SDK's modules: not in this repository. The models
  quantify over what they can do: loads, order and number of transactions,
  balances, supply, recheck.
* `RejectFeeDecorator` and `BlockTxCountKey`: defined, wired nowhere.
* Application wiring and codec registration: no state after start-up.
