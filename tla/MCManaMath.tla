----------------------------- MODULE MCManaMath -----------------------------
(***************************************************************************)
(* addManaSaturating against two references, for every meter, gain and cap *)
(* of a small word: the plain integer sum, and a meter that is topped up   *)
(* once per block.  The second matters because the keeper does not store   *)
(* an update per block: whoever is read after 1, 2, 3... blocks must find  *)
(* the same meter, in whatever steps the blocks were accounted for.        *)
(***************************************************************************)
EXTENDS ManaMath

CONSTANT MaxElapsed   \* bound: blocks since the last update

VARIABLES
  current, perBlock, maxMana,   \* the arguments, chosen once
  elapsed,                      \* blocks since the record was written
  stamp, stored,                \* a record rewritten after `stamp` blocks
  eager                         \* the meter topped up at every block

vars == <<current, perBlock, maxMana, elapsed, stamp, stored, eager>>

Init == /\ current \in Uint64 /\ perBlock \in Uint64 /\ maxMana \in Uint64
        /\ elapsed = 0
        /\ stamp = 0
        /\ stored = current
        /\ eager = current

NewBlock == /\ elapsed < MaxElapsed
            /\ elapsed' = elapsed + 1
            /\ eager' = ClampedSum(eager, perBlock, 1, maxMana)
            /\ UNCHANGED <<current, perBlock, maxMana, stamp, stored>>

\* A write path (IncrementTxCount) persists the regenerated meter.
Persist == /\ stamp < elapsed
           /\ stored' = AddManaSaturating(stored, perBlock, elapsed - stamp, maxMana)
           /\ stamp' = elapsed
           /\ UNCHANGED <<current, perBlock, maxMana, elapsed, eager>>

\* The model ends after MaxElapsed blocks.
AtBound == elapsed = MaxElapsed /\ stamp = elapsed /\ UNCHANGED vars

Spec == Init /\ [][NewBlock \/ Persist \/ AtBound]_vars

(***************************************************************************)
(* The comment at keeper.go:208-212: the result is                         *)
(* min(current + perBlock*blocksElapsed, maxMana) as if uint64 were        *)
(* unbounded, on both sides of the overflow test.                          *)
(***************************************************************************)
SaturatesExactly ==
  AddManaSaturating(current, perBlock, elapsed, maxMana)
    = ClampedSum(current, perBlock, elapsed, maxMana)

(***************************************************************************)
(* One lazy addition, or any number of them with a write in between, give  *)
(* what one addition per block gives (keeper.go:100-105: reads do not      *)
(* write, so how often an account is touched must not show).               *)
(***************************************************************************)
LazyEqualsEager ==
  elapsed > 0 =>
    /\ AddManaSaturating(current, perBlock, elapsed, maxMana) = eager
    /\ (IF stamp = elapsed
          THEN stored
          ELSE AddManaSaturating(stored, perBlock, elapsed - stamp, maxMana)) = eager
=============================================================================
