----------------------------- MODULE TokenBucket -----------------------------
(***************************************************************************)
(* What a rate limiter promises, and nothing about how: each account owns  *)
(* a bucket that holds at most Burst[a] tokens and gains at most Rate of   *)
(* them when the clock ticks, and whatever the account spends comes out of *)
(* its bucket.  Over any k ticks an account therefore spends no more than  *)
(* Burst[a] + k * Rate.  A bucket may leak: the promise is an upper bound. *)
(***************************************************************************)
EXTENDS Integers

CONSTANTS
  Accounts,
  Rate,     \* a natural number
  Burst     \* a natural number for each account

VARIABLES
  clock,    \* blocks so far
  tokens,   \* tokens[a]: what account a could spend now
  spent     \* spent[a]: what account a has spent since the beginning

vars == <<clock, tokens, spent>>

Init == /\ clock = 0
        /\ tokens \in [Accounts -> Nat]
        /\ \A a \in Accounts : tokens[a] <= Burst[a]
        /\ spent = [a \in Accounts |-> 0]

Tick == /\ clock' = clock + 1
        /\ tokens' \in [Accounts -> Nat]
        /\ \A a \in Accounts : /\ tokens'[a] <= tokens[a] + Rate
                               /\ tokens'[a] <= Burst[a]
        /\ UNCHANGED spent

Spend(a, cost) ==
  /\ cost \in 0..tokens[a]
  /\ spent' = [spent EXCEPT ![a] = @ + cost]
  /\ tokens' \in [Accounts -> Nat]
  /\ \A x \in Accounts : tokens'[x] + (spent'[x] - spent[x]) <= tokens[x]
  /\ UNCHANGED clock

Next == Tick \/ \E a \in Accounts : Spend(a, spent'[a] - spent[a])

Spec == Init /\ [][Next]_vars
=============================================================================
