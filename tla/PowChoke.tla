------------------------------ MODULE PowChoke ------------------------------
(***************************************************************************)
(* The adaptive proof-of-work choke: a feedback loop between the load of   *)
(* the blocks, the difficulty stored in the mana module, the mempool       *)
(* filter that reads it and the wallets that mine for it.                  *)
(*                                                                         *)
(* A block's PreBlocker writes the new difficulty into the state of the    *)
(* block; CheckTx and the REST queries see it when the block is committed. *)
(* A wallet therefore mines for a difficulty that may have moved by the    *)
(* time its transaction arrives, and CometBFT rechecks what is already in  *)
(* the mempool after every commit (config.toml:26).                        *)
(*                                                                         *)
(* Sources: x/mana/keeper/keeper.go:305-376, app/ante/ante.go:262-308,     *)
(* app/app.go:544-552 and 622-660.                                         *)
(***************************************************************************)
EXTENDS Integers

CONSTANTS
  Wallets,                      \* clients, with one transaction each in flight
  PowMaxDifficulty,             \* types.PowMaxDifficulty
  PowHighWatermarkTxPerBlock,   \* types.PowHighWatermarkTxPerBlock
  PowLowWatermarkTxPerBlock,    \* types.PowLowWatermarkTxPerBlock
  Loads,                        \* the transaction counts a block can have
  MaxRestarts                   \* bound: restarts of the node

ASSUME PowAssumption ==
  /\ PowMaxDifficulty \in Nat
  /\ PowHighWatermarkTxPerBlock \in Nat
  /\ PowLowWatermarkTxPerBlock \in 0..PowHighWatermarkTxPerBlock
  /\ Loads \subseteq Nat
  /\ MaxRestarts \in Nat

Difficulty == 0..PowMaxDifficulty

VARIABLES
  difficulty,   \* as of the last commit: what CheckTx and queries read
  pending,      \* as written by the block being executed
  executing,    \* whether a block is between FinalizeBlock and Commit
  load,         \* len(req.Txs) of the latest block
  checkReady,   \* whether the check state has a height other than 0
  wallet,       \* wallet[w]: "idle", "mining", "admitted" or "inBlock"
  work,         \* work[w]: leading zero bits of w's current transaction
  restarts,     \* restarts so far
  busy,         \* history: congested blocks, counted up to the maximum
  calm          \* history: calm blocks in a row, counted up to the maximum

chainVars == <<difficulty, pending, executing, load, busy, calm>>
vars == <<chainVars, checkReady, wallet, work, restarts>>

-----------------------------------------------------------------------------
\* The clamp at the top is missing.
NextDifficulty_Unclamped(d, txs) ==
  CASE txs > PowHighWatermarkTxPerBlock           -> d + 1
    [] txs < PowLowWatermarkTxPerBlock /\ d > 0   -> d - 1
    [] OTHER                                      -> d

\* A block at the high watermark counts as congested.
NextDifficulty_AtWatermark(d, txs) ==
  CASE txs >= PowHighWatermarkTxPerBlock /\ d < PowMaxDifficulty -> d + 1
    [] txs < PowLowWatermarkTxPerBlock /\ d > 0                  -> d - 1
    [] OTHER                                                     -> d

\* The last bit is never given back.
NextDifficulty_KeepsLastBit(d, txs) ==
  CASE txs > PowHighWatermarkTxPerBlock /\ d < PowMaxDifficulty -> d + 1
    [] txs < PowLowWatermarkTxPerBlock /\ d > 1                 -> d - 1
    [] OTHER                                                    -> d

\* UpdatePowDifficulty: one bit up per congested block, one down per calm one.
NextDifficulty(d, txs) ==
  CASE txs > PowHighWatermarkTxPerBlock /\ d < PowMaxDifficulty -> d + 1
    [] txs < PowLowWatermarkTxPerBlock /\ d > 0                 -> d - 1
    [] OTHER                                                    -> d

\* One bit more than the difficulty is asked for.
PowAccepts_Strict(bits) == checkReady => bits > difficulty

\* PowChoke in CheckTx, and VerifyPow behind it.
PowAccepts(bits) == checkReady => bits >= difficulty

CountedUpTo(n) == IF n < PowMaxDifficulty THEN n + 1 ELSE PowMaxDifficulty

-----------------------------------------------------------------------------
Init == /\ difficulty = 0
        /\ pending = 0
        /\ executing = FALSE
        /\ load = 0
        /\ checkReady = FALSE
        /\ wallet = [w \in Wallets |-> "idle"]
        /\ work = [w \in Wallets |-> 0]
        /\ restarts = 0
        /\ busy = 0
        /\ calm = 0

\* A wallet asks /jee/mana/v1/difficulty and mines a memo for the answer.
Query(w) ==
  /\ wallet[w] = "idle"
  /\ wallet' = [wallet EXCEPT ![w] = "mining"]
  /\ work' = [work EXCEPT ![w] = difficulty]
  /\ UNCHANGED <<chainVars, checkReady, restarts>>

\* CheckTx: the transaction is admitted, or rejected with ErrInsufficientPow.
Submit(w) ==
  /\ wallet[w] = "mining"
  /\ wallet' = [wallet EXCEPT ![w] = IF PowAccepts(work[w]) THEN "admitted" ELSE "idle"]
  /\ UNCHANGED <<chainVars, checkReady, work, restarts>>

\* FinalizeBlock.  PowChoke passes every transaction here.
FinalizeBlock ==
  /\ ~ executing
  /\ executing' = TRUE
  /\ load' \in Loads
  /\ pending' = NextDifficulty(difficulty, load')
  /\ \E included \in SUBSET { w \in Wallets : wallet[w] = "admitted" } :
       wallet' = [w \in Wallets |-> IF w \in included THEN "inBlock" ELSE wallet[w]]
  /\ busy' = IF load' > PowHighWatermarkTxPerBlock THEN CountedUpTo(busy) ELSE busy
  /\ calm' = IF load' < PowLowWatermarkTxPerBlock THEN CountedUpTo(calm) ELSE 0
  /\ UNCHANGED <<difficulty, checkReady, work, restarts>>

\* The difficulty is published, but what was admitted before stays.
Commit_NoRecheck ==
  /\ executing
  /\ executing' = FALSE
  /\ difficulty' = pending
  /\ checkReady' = TRUE
  /\ wallet' = [w \in Wallets |-> IF wallet[w] = "inBlock" THEN "idle" ELSE wallet[w]]
  /\ UNCHANGED <<pending, load, busy, calm, work, restarts>>

\* Commit publishes the difficulty; the mempool is rechecked against it.
Commit ==
  /\ executing
  /\ executing' = FALSE
  /\ difficulty' = pending
  /\ checkReady' = TRUE
  /\ wallet' = [w \in Wallets |->
                  IF \/ wallet[w] = "inBlock"
                     \/ wallet[w] = "admitted" /\ work[w] < pending
                    THEN "idle" ELSE wallet[w]]
  /\ UNCHANGED <<pending, load, busy, calm, work, restarts>>

\* The mempool is lost and the check state has height 0 until the next
\* commit.  A block that was being executed is executed again, from the same
\* committed state and with the same transactions.
Restart ==
  /\ restarts < MaxRestarts
  /\ restarts' = restarts + 1
  /\ checkReady' = FALSE
  /\ wallet' = [w \in Wallets |-> IF wallet[w] = "admitted" THEN "idle" ELSE wallet[w]]
  /\ UNCHANGED <<chainVars, work>>

Next == \/ FinalizeBlock
        \/ Commit
        \/ Restart
        \/ \E w \in Wallets : Query(w) \/ Submit(w)

Spec == Init /\ [][Next]_vars

(***************************************************************************)
(* Consensus keeps deciding blocks and the node keeps committing them;     *)
(* a wallet keeps asking and sending.  Nothing is assumed of the load or   *)
(* of which admitted transactions a proposer picks.                        *)
(***************************************************************************)
FairSpec == /\ Spec
            /\ WF_vars(FinalizeBlock)
            /\ WF_vars(Commit)
            /\ \A w \in Wallets : WF_vars(Query(w)) /\ WF_vars(Submit(w))

-----------------------------------------------------------------------------
\* The type invariant.
TypeOK ==
  /\ difficulty \in Difficulty
  /\ pending \in Difficulty
  /\ executing \in BOOLEAN
  /\ load \in Nat
  /\ checkReady \in BOOLEAN
  /\ wallet \in [Wallets -> {"idle", "mining", "admitted", "inBlock"}]
  /\ work \in [Wallets -> Difficulty]
  /\ restarts \in 0..MaxRestarts
  /\ busy \in Difficulty
  /\ calm \in Difficulty

(***************************************************************************)
(* Work is asked for only after congestion: the difficulty is never higher *)
(* than the number of blocks that had more transactions than the high      *)
(* watermark (types.go:52-54, README.md:67).                               *)
(***************************************************************************)
EngagesOnlyWhenBusy == pending <= busy /\ difficulty <= busy

(***************************************************************************)
(* Every calm block in a row takes the difficulty a bit further below its  *)
(* maximum, so PowMaxDifficulty calm blocks switch it off whatever         *)
(* happened before (types.go:56-58, keeper.go:340-344).                    *)
(***************************************************************************)
DecaysWhenCalm == pending + calm <= PowMaxDifficulty

(***************************************************************************)
(* No transaction waits in the mempool with less work than the committed   *)
(* difficulty asks for, however long ago it was admitted, once the check   *)
(* state has a height again (keeper.go:311-313, ante.go:248-253).          *)
(***************************************************************************)
AdmittedHaveWork ==
  checkReady => \A w \in Wallets : wallet[w] = "admitted" => work[w] >= difficulty

(***************************************************************************)
(* When the network stays calm, proof-of-work is switched off for good     *)
(* (README.md:69, ante.go:251-253).                                        *)
(***************************************************************************)
CalmSwitchesOff ==
  <>[](load < PowLowWatermarkTxPerBlock) => <>[](difficulty = 0)

(***************************************************************************)
(* Once the load has settled on one side of the watermarks, a wallet that  *)
(* keeps mining what the node tells it gets its transactions admitted      *)
(* again and again: the filter chokes spam, not wallets (types.go:48-50).  *)
(***************************************************************************)
SettledLoad == \/ <>[](load < PowLowWatermarkTxPerBlock)
               \/ <>[](load > PowHighWatermarkTxPerBlock)
               \/ <>[](load \in PowLowWatermarkTxPerBlock..PowHighWatermarkTxPerBlock)

WalletsGetIn ==
  SettledLoad => \A w \in Wallets : []<>(wallet[w] \in {"admitted", "inBlock"})

(***************************************************************************)
(* README.md:67-69: proof-of-work is there only while blocks carry more    *)
(* than the high watermark, and turns off again when traffic calms.        *)
(***************************************************************************)
OnlyWhileVeryBusy ==
  <>[](load <= PowHighWatermarkTxPerBlock) => <>[](difficulty = 0)
=============================================================================
