----------------------------- MODULE MCJeeNode -----------------------------
(***************************************************************************)
(* Small instances of JeeNode: two accounts, mempools of two and three     *)
(* transactions, blocks in which not every pair of transactions fits.      *)
(***************************************************************************)
EXTENDS JeeNode

CONSTANTS alice, bob

MCRecord(mana, updated) == [FreshAccount EXCEPT !.mana = mana, !.lastUpdateHeight = updated]

\* alice starts poor; bob, who has signed in the first block and then moved
\* coins to her, with a count of that block and above his cap.
MCFirstStore ==
  [a \in {alice, bob} |->
     IF a = alice THEN MCRecord(2, 1)
                  ELSE [mana |-> 9, lastUpdateHeight |-> 1,
                        txCountThisBlock |-> 1, lastTxBlock |-> 1]]

\* Both within their caps.
MCModestStore ==
  [a \in {alice, bob} |->
     MCRecord(IF a = alice THEN 0 ELSE 4, 1)]

MCBank(a, b, s) ==
  [balance |-> [x \in Accounts |-> IF x = alice THEN a ELSE b], supply |-> s]

\* Split; the same after minting; after a transfer of all coins, which takes
\* the receiver's rate out of the word.
MCBankStates == { MCBank(3, 1, 4), MCBank(3, 1, 13), MCBank(4, 0, 4) }

MCFrozenBank == { MCBank(3, 1, 4) }

\* Small ones that never expire, and large ones that must be in block 2 at the
\* latest; two of them compete for bob's first nonce.
MCTx(a, n, size, timeout) == [payer |-> a, nonce |-> n, size |-> size, timeout |-> timeout]

MCTxs == { MCTx(alice, 0, 2, 0), MCTx(alice, 1, 1, 0),
           MCTx(bob, 0, 1, 0), MCTx(bob, 0, 2, 2), MCTx(bob, 1, 1, 0) }

MCOneForm == { MCTx(a, n, 1, 0) : a \in Accounts, n \in 0..MaxNonce-1 }

\* The chain goes on; the model ends after MaxHeight blocks.
AtBound == committed.height = MaxHeight /\ UNCHANGED vars

MCSpec == Init /\ [][Next \/ AtBound]_vars
=============================================================================
