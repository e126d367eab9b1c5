-------------------------- MODULE ManaKeeperProofs --------------------------
(***************************************************************************)
(* Facts about ManaMath and ManaKeeper for every value of the constants.   *)
(*                                                                         *)
(* The arithmetic: rates and gains are bounded by those of the whole       *)
(* supply and grow with the balance, the saturating addition is the        *)
(* clamped sum, and adding block by block gives what adding once gives.    *)
(*                                                                         *)
(* The keeper: what its operations do to a record, for every store, bank   *)
(* and height.  The theorems about the chain and the node rest on these.   *)
(***************************************************************************)
EXTENDS ManaKeeper, TLAPS

\* x \div y is the largest natural number whose product with y is at most x.
LEMMA DivBounds ==
  ASSUME NEW x \in Nat, NEW y \in Nat \ {0}
  PROVE  /\ x \div y \in Nat
         /\ y * (x \div y) <= x
         /\ x < y * ((x \div y) + 1)
  BY SMT

\* Multiplication by a natural number keeps the order.
LEMMA MulMonotone ==
  ASSUME NEW x \in Nat, NEW y \in Nat, NEW k \in Nat, x <= y
  PROVE  /\ k * x \in Nat /\ k * y \in Nat
         /\ k * x <= k * y
  BY SMT

\* So does integer division.
LEMMA DivMonotone ==
  ASSUME NEW x \in Nat, NEW y \in Nat, NEW k \in Nat \ {0}, x <= y
  PROVE  x \div k <= y \div k
  BY SMT

\* A fraction x/y of k is at most k when x is at most y.
LEMMA DivCancels ==
  ASSUME NEW x \in Nat, NEW k \in Nat, NEW y \in Nat \ {0}, x <= y
  PROVE  (x * k) \div y <= k
  BY SMT

\* A larger divisor never gives more.
LEMMA DivAntitone ==
  ASSUME NEW x \in Nat, NEW j \in Nat \ {0}, NEW k \in Nat \ {0}, j <= k
  PROVE  x \div k <= x \div j
<1> DEFINE q == x \div k
           d == x \div j
<1>1. q \in Nat /\ k * q <= x
  BY DivBounds
<1>2. d \in Nat /\ x < j * (d + 1)
  BY DivBounds
<1> HIDE DEF q, d
<1>3. q * j <= q * k /\ q * j \in Nat /\ q * k \in Nat
  BY <1>1, MulMonotone
<1>4. ASSUME d + 1 <= q
      PROVE  FALSE
  <2>1. j * (d + 1) <= j * q /\ j * (d + 1) \in Nat /\ j * q \in Nat
    <3>1. d + 1 \in Nat
      BY <1>2, SMT
    <3> QED
      BY <1>1, <1>4, <3>1, MulMonotone
  <2>2. q * j = j * q /\ q * k = k * q
    BY <1>1, SMT
  <2> DEFINE u == j * (d + 1)
             v == j * q
             w == k * q
  <2>3. u <= v /\ x < u /\ v <= w /\ w <= x /\ u \in Nat /\ v \in Nat /\ w \in Nat
    BY <1>1, <1>2, <1>3, <2>1, <2>2
  <2> HIDE DEF u, v, w
  <2> QED
    BY <2>3, SMT
<1>5. q <= d
  BY <1>1, <1>2, <1>4, SMT
<1> QED
  BY <1>5 DEF q, d

-----------------------------------------------------------------------------
\* The multiplier in effect, and with it the peak rate, is positive.
LEMMA PeakRateType == Multiplier \in Nat \ {0} /\ PeakRate \in Nat \ {0}
<1>1. Multiplier \in Nat \ {0}
  BY MathAssumption DEF MathAssumption, Multiplier
<1> QED
  BY <1>1, MathAssumption, SMT DEF MathAssumption, PeakRate

(***************************************************************************)
(* computeManaRate: no holder has a higher rate than that of the whole     *)
(* supply.                                                                 *)
(***************************************************************************)
LEMMA RateBounded ==
  ASSUME NEW balance \in Nat, NEW supply \in Nat, balance <= supply
  PROVE  /\ ExactRate(balance, supply) \in Nat
         /\ ExactRate(balance, supply) <= PeakRate
<1>1. CASE balance = 0 \/ supply = 0
  BY <1>1, PeakRateType DEF ExactRate
<1>2. CASE balance # 0 /\ supply # 0
  <2> DEFINE share == (balance * TotalManaPool) \div supply
  <2>1. TotalManaPool \in Nat
    BY MathAssumption DEF MathAssumption
  <2>2. balance * TotalManaPool \in Nat
    BY <2>1, SMT
  <2>3. share \in Nat /\ share <= TotalManaPool
    BY <1>2, <2>1, <2>2, DivBounds, DivCancels
  <2>4. Multiplier \in Nat
    BY PeakRateType
  <2> HIDE DEF share
  <2>5. Multiplier * share \in Nat /\ Multiplier * share <= Multiplier * TotalManaPool
    BY <2>1, <2>3, <2>4, MulMonotone
  <2>6. share * Multiplier = Multiplier * share /\ PeakRate = Multiplier * TotalManaPool
    BY <2>1, <2>3, <2>4, SMT DEF PeakRate
  <2>7. ExactRate(balance, supply) = share * Multiplier
    BY <1>2 DEF ExactRate, share
  <2> QED
    BY <2>5, <2>6, <2>7
<1> QED
  BY <1>1, <1>2

\* The cap is a word when the rate is one, and at least the free allowance.
LEMMA MaxManaType ==
  ASSUME NEW r \in Uint64
  PROVE  MaxMana(r) \in Uint64 /\ MaxMana(r) >= MinManaFloor
  BY MathAssumption, SMT DEF MathAssumption, MaxMana, Uint64

\* A higher rate never means a lower cap.
LEMMA MaxManaMonotone ==
  ASSUME NEW r \in Nat, NEW s \in Nat, r <= s
  PROVE  MaxMana(r) \in Nat /\ MaxMana(s) \in Nat /\ MaxMana(r) <= MaxMana(s)
  BY MathAssumption, SMT DEF MathAssumption, MaxMana

\* A higher rate never means a lower gain per block.
LEMMA PerBlockMonotone ==
  ASSUME NEW r \in Nat, NEW s \in Nat, r <= s
  PROVE  PerBlock(r) \in Nat /\ PerBlock(s) \in Nat /\ PerBlock(r) <= PerBlock(s)
<1> DEFINE years == IF BlocksPerYear = 0 THEN DefaultBlocksPerYear ELSE BlocksPerYear
<1>1. years \in Nat \ {0}
  BY MathAssumption DEF MathAssumption
<1>2. MinPerBlock \in Nat
  BY MathAssumption, DivBounds, SMT DEF MathAssumption, MinPerBlock
<1> HIDE DEF years
<1>3. r \div years \in Nat /\ s \div years \in Nat /\ r \div years <= s \div years
  BY <1>1, DivBounds, DivMonotone
<1>4. /\ PerBlock(r) = IF r \div years < MinPerBlock THEN MinPerBlock ELSE r \div years
      /\ PerBlock(s) = IF s \div years < MinPerBlock THEN MinPerBlock ELSE s \div years
  BY DEF PerBlock, years
<1> QED
  BY <1>2, <1>3, <1>4, SMT

-----------------------------------------------------------------------------
(***************************************************************************)
(* addManaSaturating is min(current + perBlock*blocksElapsed, maxMana) as  *)
(* the comment at keeper.go:208-212 says: neither the product nor the sum  *)
(* ever wraps around.                                                      *)
(***************************************************************************)
THEOREM SaturationIsExact ==
  ASSUME NEW current \in Uint64, NEW perBlock \in Nat,
         NEW blocksElapsed \in Nat, NEW maxMana \in Uint64
  PROVE  AddManaSaturating(current, perBlock, blocksElapsed, maxMana)
           = ClampedSum(current, perBlock, blocksElapsed, maxMana)
<1> DEFINE gain == perBlock * blocksElapsed
<1>1. MaxUint64 \in Nat /\ current \in Nat /\ maxMana \in Nat
  BY MathAssumption, SMT DEF MathAssumption, Uint64
<1>2. current <= MaxUint64 /\ maxMana <= MaxUint64
  BY <1>1, SMT DEF Uint64
<1>3. gain \in Nat
  BY SMT
<1>4. CASE current >= maxMana
  BY <1>1, <1>3, <1>4, SMT DEF AddManaSaturating, ClampedSum
<1>5. CASE ~ (current >= maxMana) /\ perBlock # 0 /\ blocksElapsed > MaxUint64 \div perBlock
  <2> DEFINE q == MaxUint64 \div perBlock
  <2>1. q \in Nat /\ MaxUint64 < perBlock * (q + 1)
    BY <1>1, <1>5, DivBounds
  <2>2. perBlock * (q + 1) <= gain
    BY <1>5, <2>1, MulMonotone
  <2>3. gain > MaxUint64
    BY <1>1, <1>3, <2>1, <2>2, SMT
  <2>4. AddManaSaturating(current, perBlock, blocksElapsed, maxMana)
          = IF MaxUint64 > maxMana - current THEN maxMana
                                             ELSE Wrap(current + MaxUint64)
    BY <1>5 DEF AddManaSaturating
  <2>5. MaxUint64 > maxMana - current \/ (current = 0 /\ maxMana = MaxUint64)
    BY <1>1, <1>2, <1>5, SMT
  <2>6. Wrap(MaxUint64) = MaxUint64
    BY <1>1 DEF Wrap
  <2>7. AddManaSaturating(current, perBlock, blocksElapsed, maxMana) = maxMana
    BY <1>1, <2>4, <2>5, <2>6, SMT
  <2>8. ClampedSum(current, perBlock, blocksElapsed, maxMana) = maxMana
    BY <1>1, <1>2, <1>3, <2>3, SMT DEF ClampedSum
  <2> QED
    BY <2>7, <2>8
<1>6. CASE ~ (current >= maxMana) /\ (perBlock = 0 \/ ~ (blocksElapsed > MaxUint64 \div perBlock))
  <2>1. gain <= MaxUint64
    <3>1. CASE perBlock = 0
      BY <1>1, <3>1, SMT
    <3>2. CASE perBlock # 0
      <4> DEFINE q == MaxUint64 \div perBlock
      <4>1. q \in Nat /\ perBlock * q <= MaxUint64
        BY <1>1, <3>2, DivBounds
      <4>2. blocksElapsed <= q
        BY <1>6, <3>2, <4>1, SMT
      <4>3. gain <= perBlock * q /\ perBlock * q \in Nat
        BY <4>1, <4>2, MulMonotone
      <4> QED
        BY <1>1, <1>3, <4>1, <4>3, SMT
    <3> QED
      BY <3>1, <3>2
  <2>2. Wrap(gain) = gain
    BY <2>1 DEF Wrap
  <2>3. AddManaSaturating(current, perBlock, blocksElapsed, maxMana)
          = IF gain > maxMana - current THEN maxMana ELSE Wrap(current + gain)
    BY <1>6, <2>2 DEF AddManaSaturating
  <2>4. ~ (gain > maxMana - current) => Wrap(current + gain) = current + gain
    BY <1>1, <1>2, <1>3, SMT DEF Wrap
  <2> HIDE DEF gain
  <2>5. ClampedSum(current, perBlock, blocksElapsed, maxMana)
          = IF current + gain < maxMana THEN current + gain ELSE maxMana
    BY DEF ClampedSum, gain
  <2> QED
    BY <1>1, <1>3, <2>3, <2>4, <2>5, SMT
<1> QED
  BY <1>4, <1>5, <1>6

\* The clamped sum is a natural number, at most the cap and at most the sum.
LEMMA ClampedSumBounds ==
  ASSUME NEW current \in Nat, NEW perBlock \in Nat, NEW k \in Nat, NEW maxMana \in Nat
  PROVE  /\ ClampedSum(current, perBlock, k, maxMana) \in Nat
         /\ ClampedSum(current, perBlock, k, maxMana) <= maxMana
         /\ ClampedSum(current, perBlock, k, maxMana) <= current + perBlock * k
         /\ perBlock * k \in Nat
<1>1. perBlock * k \in Nat
  BY SMT
<1> QED
  BY <1>1, SMT DEF ClampedSum

\* A larger gain or a larger cap never gives less.
LEMMA ClampedSumMonotone ==
  ASSUME NEW current \in Nat, NEW p \in Nat, NEW q \in Nat, NEW k \in Nat,
         NEW m \in Nat, NEW n \in Nat, p <= q, m <= n
  PROVE  ClampedSum(current, p, k, m) <= ClampedSum(current, q, k, n)
<1>1. k * p \in Nat /\ k * q \in Nat /\ k * p <= k * q
  BY MulMonotone
<1>2. p * k = k * p /\ q * k = k * q
  BY SMT
<1> QED
  BY <1>1, <1>2, SMT DEF ClampedSum

\* A clamped sum of j + k gains is one of k gains on top of one of j.
LEMMA LazyUpdateComposes ==
  ASSUME NEW current \in Nat, NEW perBlock \in Nat, NEW maxMana \in Nat,
         NEW j \in Nat, NEW k \in Nat
  PROVE  ClampedSum(ClampedSum(current, perBlock, j, maxMana), perBlock, k, maxMana)
           = ClampedSum(current, perBlock, j + k, maxMana)
<1>1. perBlock * (j + k) = perBlock * j + perBlock * k
  BY SMT
<1>2. perBlock * j \in Nat /\ perBlock * k \in Nat
  BY SMT
<1> QED
  BY <1>1, <1>2, SMT DEF ClampedSum

\* A rate is a natural number, of any number of coins.
LEMMA RateType ==
  ASSUME NEW b \in Nat, NEW s \in Nat
  PROVE  ExactRate(b, s) \in Nat
<1>1. CASE b = 0 \/ s = 0
  BY <1>1, SMT DEF ExactRate
<1>2. CASE b # 0 /\ s # 0
  <2> DEFINE q == (b * TotalManaPool) \div s
  <2>1. b * TotalManaPool \in Nat /\ s \in Nat \ {0}
    BY <1>2, MathAssumption, SMT DEF MathAssumption
  <2>2. q \in Nat /\ Multiplier \in Nat
    BY <2>1, DivBounds, PeakRateType
  <2>3. ExactRate(b, s) = q * Multiplier
    BY <1>2 DEF ExactRate
  <2> HIDE DEF q
  <2> QED
    BY <2>2, <2>3, SMT
<1> QED
  BY <1>1, <1>2

(***************************************************************************)
(* computeManaRate: more coins, or fewer in all, never mean a lower rate.  *)
(***************************************************************************)
LEMMA RateMonotone ==
  ASSUME NEW b \in Nat, NEW s \in Nat, NEW c \in Nat, NEW t \in Nat,
         b <= c, t <= s, c <= t \/ t # 0
  PROVE  ExactRate(b, s) <= ExactRate(c, t)
<1>1. /\ ExactRate(b, s) \in Nat /\ ExactRate(c, t) \in Nat
  BY RateType
<1>2. CASE b = 0
  <2>1. ExactRate(b, s) = 0
    BY <1>2 DEF ExactRate
  <2> QED
    BY <1>1, <2>1, SMT
<1>3. CASE b # 0
  <2>1. c # 0 /\ t # 0 /\ s # 0
    BY <1>3, SMT
  <2> DEFINE x == b * TotalManaPool
             y == c * TotalManaPool
  <2>2. x \in Nat /\ y \in Nat /\ x <= y
    <3>1. TotalManaPool \in Nat
      BY MathAssumption DEF MathAssumption
    <3>2. TotalManaPool * b \in Nat /\ TotalManaPool * c \in Nat /\ TotalManaPool * b <= TotalManaPool * c
      BY <3>1, MulMonotone
    <3>3. x = TotalManaPool * b /\ y = TotalManaPool * c
      BY <3>1, SMT
    <3> QED
      BY <3>2, <3>3
  <2>3. ExactRate(b, s) = (x \div s) * Multiplier /\ ExactRate(c, t) = (y \div t) * Multiplier
    BY <1>3, <2>1 DEF ExactRate
  <2> HIDE DEF x, y
  <2>4. x \div s \in Nat /\ y \div s \in Nat /\ y \div t \in Nat
    BY <2>1, <2>2, DivBounds
  <2>5. x \div s <= y \div s /\ y \div s <= y \div t
    BY <2>1, <2>2, DivMonotone, DivAntitone
  <2> DEFINE u == x \div s
             v == y \div t
  <2>6. u \in Nat /\ v \in Nat /\ u <= v
    BY <2>4, <2>5, SMT
  <2> HIDE DEF u, v
  <2>7. Multiplier \in Nat
    BY PeakRateType
  <2>8. Multiplier * u <= Multiplier * v
    BY <2>6, <2>7, MulMonotone
  <2>9. Multiplier * u = u * Multiplier /\ Multiplier * v = v * Multiplier
    BY <2>6, <2>7, SMT
  <2> QED
    BY <2>3, <2>8, <2>9 DEF u, v
<1> QED
  BY <1>2, <1>3

-----------------------------------------------------------------------------
\* Every account has a record to load, written or fresh.
LEMMA LoadType ==
  ASSUME NEW s, IsStore(s), NEW a \in Accounts
  PROVE  LoadAccountMana(s, a) \in AccountMana
<1>1. FreshAccount \in AccountMana
  BY MathAssumption, SMT DEF FreshAccount, AccountMana, Uint64, MathAssumption
<1> QED
  BY <1>1 DEF LoadAccountMana, IsStore

\* Writing one record leaves a store, in which only that record is new.
LEMMA SetType ==
  ASSUME NEW s, IsStore(s), NEW a \in Accounts, NEW acct \in AccountMana
  PROVE  IsStore(SetAccountMana(s, a, acct))
  BY DEF IsStore, SetAccountMana

\* A record that is written is the one read back, and no other changes.
LEMMA SetLoad ==
  ASSUME NEW s, NEW a, NEW acct, NEW x
  PROVE  LoadAccountMana(SetAccountMana(s, a, acct), x)
           = IF x = a THEN acct ELSE LoadAccountMana(s, x)
  BY DEF LoadAccountMana, SetAccountMana

-----------------------------------------------------------------------------
(***************************************************************************)
(* What regenerateMana returns: a record stamped with the height unless    *)
(* the height is in its past, with the same counter, and with a meter that *)
(* is the clamped sum of what was there and the gain of the blocks since.  *)
(***************************************************************************)
LEMMA RegenerateResult ==
  ASSUME NEW acct \in AccountMana, NEW balance \in Nat, NEW supply \in Nat,
         balance <= supply, NEW height \in Nat,
         CanRegenerate(acct, balance, supply, height)
  PROVE  LET r    == RegenerateMana(acct, balance, supply, height)
             rate == ExactRate(balance, supply)
         IN  /\ r \in AccountMana
             /\ r.txCountThisBlock = acct.txCountThisBlock
             /\ r.lastTxBlock = acct.lastTxBlock
             /\ height <= acct.lastUpdateHeight => r = acct
             /\ height > acct.lastUpdateHeight =>
                  /\ r.lastUpdateHeight = height
                  /\ r.mana = ClampedSum(acct.mana, PerBlock(rate),
                                height - acct.lastUpdateHeight, MaxMana(rate))
<1> DEFINE r    == RegenerateMana(acct, balance, supply, height)
           rate == ExactRate(balance, supply)
           k    == height - acct.lastUpdateHeight
<1>1. CASE height <= acct.lastUpdateHeight
  <2>1. r = acct
    BY <1>1 DEF RegenerateMana
  <2>2. ~ (height > acct.lastUpdateHeight)
    BY <1>1, SMT DEF AccountMana
  <2> QED
    BY <2>1, <2>2
<1>2. CASE height > acct.lastUpdateHeight
  <2>1. acct.mana \in Uint64 /\ acct.lastUpdateHeight \in Nat
    BY DEF AccountMana
  <2>2. k \in Nat /\ ~ (height <= acct.lastUpdateHeight)
    BY <1>2, <2>1, SMT
  <2>3. rate \in Nat /\ rate <= MaxUint64
    BY <1>2, RateBounded DEF CanRegenerate, RateFits
  <2>4. rate \in Uint64
    BY <2>3, MathAssumption, SMT DEF Uint64, MathAssumption
  <2> HIDE DEF rate, k
  <2>5. MaxMana(rate) \in Uint64 /\ PerBlock(rate) \in Nat
    BY <2>3, <2>4, MaxManaType, PerBlockMonotone
  <2>6. AddManaSaturating(acct.mana, PerBlock(rate), k, MaxMana(rate))
          = ClampedSum(acct.mana, PerBlock(rate), k, MaxMana(rate))
    BY <2>1, <2>2, <2>5, SaturationIsExact
  <2> DEFINE sum == ClampedSum(acct.mana, PerBlock(rate), k, MaxMana(rate))
  <2>7. r = [acct EXCEPT !.mana = sum, !.lastUpdateHeight = height]
    BY <2>2, <2>6 DEF RegenerateMana, rate, k
  <2>8. MaxMana(rate) \in Nat /\ MaxMana(rate) <= MaxUint64 /\ acct.mana \in Nat /\ MaxUint64 \in Nat
    BY <2>1, <2>5, MathAssumption, SMT DEF Uint64, MathAssumption
  <2>9. sum \in Nat /\ sum <= MaxMana(rate)
    BY <2>2, <2>5, <2>8, ClampedSumBounds
  <2> HIDE DEF sum
  <2>10. sum \in Uint64
    BY <2>8, <2>9, SMT DEF Uint64
  <2>11. /\ r \in AccountMana
         /\ r.txCountThisBlock = acct.txCountThisBlock
         /\ r.lastTxBlock = acct.lastTxBlock
         /\ r.lastUpdateHeight = height
         /\ r.mana = sum
    BY <2>7, <2>10 DEF AccountMana
  <2> QED
    BY <2>2, <2>11 DEF sum, rate, k
<1>3. height <= acct.lastUpdateHeight \/ height > acct.lastUpdateHeight
  BY SMT DEF AccountMana
<1> QED
  BY <1>1, <1>2, <1>3

(***************************************************************************)
(* The gain of a record is at most the peak gain of the blocks between its *)
(* two time stamps.                                                        *)
(***************************************************************************)
LEMMA RegenerateBounded ==
  ASSUME NEW acct \in AccountMana, NEW balance \in Nat, NEW supply \in Nat,
         balance <= supply, NEW height \in Nat,
         CanRegenerate(acct, balance, supply, height)
  PROVE  LET r == RegenerateMana(acct, balance, supply, height)
         IN  r.mana + PeakPerBlock * acct.lastUpdateHeight
               <= acct.mana + PeakPerBlock * r.lastUpdateHeight
<1> DEFINE r    == RegenerateMana(acct, balance, supply, height)
           rate == ExactRate(balance, supply)
           last == acct.lastUpdateHeight
           k    == height - last
<1>1. acct.mana \in Nat /\ last \in Nat
  BY MathAssumption, SMT DEF AccountMana, Uint64, MathAssumption
<1>2. /\ rate \in Nat /\ PeakRate \in Nat /\ rate <= PeakRate
  BY RateBounded, PeakRateType
<1>3. /\ PerBlock(rate) \in Nat /\ PeakPerBlock \in Nat
      /\ PerBlock(rate) <= PeakPerBlock
  BY <1>2, PerBlockMonotone DEF PeakPerBlock
<1>4. CASE height <= last
  <2>1. r = acct
    BY <1>4 DEF RegenerateMana
  <2>2. PeakPerBlock * last \in Nat
    BY <1>1, <1>3, SMT
  <2> QED
    BY <1>1, <2>1, <2>2, SMT
<1>5. CASE height > last
  <2>1. k \in Nat /\ height = last + k
    BY <1>1, <1>5, SMT
  <2>2. r.lastUpdateHeight = height
    BY <1>5, RegenerateResult
  <2>3. r.mana = ClampedSum(acct.mana, PerBlock(rate), k, MaxMana(rate))
    BY <1>5, RegenerateResult
  <2>4. MaxMana(rate) \in Nat
    BY <1>2, MaxManaMonotone
  <2> DEFINE sum == ClampedSum(acct.mana, PerBlock(rate), k, MaxMana(rate))
  <2> HIDE DEF rate, k, last, r
  <2>5. sum \in Nat /\ sum <= acct.mana + PerBlock(rate) * k /\ PerBlock(rate) * k \in Nat
    BY <1>1, <1>3, <2>1, <2>4, ClampedSumBounds
  <2> HIDE DEF sum
  <2>6. /\ k * PerBlock(rate) <= k * PeakPerBlock
        /\ k * PerBlock(rate) = PerBlock(rate) * k
        /\ k * PeakPerBlock = PeakPerBlock * k
        /\ PeakPerBlock * k \in Nat
    BY <1>3, <2>1, MulMonotone, SMT
  <2>7. PeakPerBlock * height = PeakPerBlock * last + PeakPerBlock * k
    BY <1>1, <1>3, <2>1, SMT
  <2>8. PeakPerBlock * last \in Nat
    BY <1>1, <1>3, SMT
  <2>9. r.mana + PeakPerBlock * last <= acct.mana + PeakPerBlock * height
    BY <1>1, <2>3, <2>5, <2>6, <2>7, <2>8, SMT DEF sum
  <2> QED
    BY <2>2, <2>9 DEF r, last
<1> QED
  BY <1>1, <1>4, <1>5, SMT

(***************************************************************************)
(* Where the cap and the gain per block are no lower, no less is read from *)
(* a record.                                                               *)
(***************************************************************************)
LEMMA ReadMonotone ==
  ASSUME NEW acct \in AccountMana, NEW h \in Nat,
         NEW b \in Nat, NEW s \in Nat, NEW c \in Nat, NEW t \in Nat, b <= s, c <= t,
         MaxMana(ExactRate(b, s)) <= MaxMana(ExactRate(c, t)),
         PerBlock(ExactRate(b, s)) <= PerBlock(ExactRate(c, t)),
         CanRegenerate(acct, b, s, h), CanRegenerate(acct, c, t, h)
  PROVE  RegenerateMana(acct, b, s, h).mana <= RegenerateMana(acct, c, t, h).mana
<1> DEFINE r == ExactRate(b, s)
           q == ExactRate(c, t)
           k == h - acct.lastUpdateHeight
<1>1. acct.mana \in Nat /\ acct.lastUpdateHeight \in Nat
  BY MathAssumption, SMT DEF AccountMana, Uint64, MathAssumption
<1>2. MaxMana(r) <= MaxMana(q) /\ PerBlock(r) <= PerBlock(q)
  OBVIOUS
<1>3. CASE h <= acct.lastUpdateHeight
  <2>1. RegenerateMana(acct, b, s, h) = acct /\ RegenerateMana(acct, c, t, h) = acct
    BY <1>3 DEF RegenerateMana
  <2> QED
    BY <1>1, <2>1, SMT
<1>4. CASE h > acct.lastUpdateHeight
  <2>1. r \in Nat /\ q \in Nat
    BY RateBounded
  <2>2. k \in Nat
    BY <1>1, <1>4, SMT
  <2>3. /\ RegenerateMana(acct, b, s, h).mana = ClampedSum(acct.mana, PerBlock(r), k, MaxMana(r))
        /\ RegenerateMana(acct, c, t, h).mana = ClampedSum(acct.mana, PerBlock(q), k, MaxMana(q))
    BY <1>4, RegenerateResult
  <2> HIDE DEF r, q, k
  <2>4. /\ PerBlock(r) \in Nat /\ PerBlock(q) \in Nat
        /\ MaxMana(r) \in Nat /\ MaxMana(q) \in Nat
    <3>1. r <= r /\ q <= q
      BY <2>1, SMT
    <3> QED
      BY <2>1, <3>1, PerBlockMonotone, MaxManaMonotone
  <2>5. ClampedSum(acct.mana, PerBlock(r), k, MaxMana(r))
          <= ClampedSum(acct.mana, PerBlock(q), k, MaxMana(q))
    BY <1>1, <1>2, <2>2, <2>4, ClampedSumMonotone
  <2> QED
    BY <2>3, <2>5
<1> QED
  BY <1>1, <1>3, <1>4, SMT

(***************************************************************************)
(* Writing a record in between changes nothing: what regenerateMana        *)
(* (keeper.go:152-206) makes of a record at height h is what it makes, at  *)
(* h, of what it made at any height before, stamp and meter, as long as    *)
(* the balance and the supply it reads stand still.                        *)
(***************************************************************************)
THEOREM RegenerationComposes ==
  ASSUME NEW acct \in AccountMana, NEW b \in Nat, NEW s \in Nat, b <= s, RateFits(b, s),
         NEW k \in Nat, NEW h \in Nat, k <= h
  PROVE  RegenerateMana(RegenerateMana(acct, b, s, k), b, s, h) = RegenerateMana(acct, b, s, h)
<1> DEFINE l     == acct.lastUpdateHeight
           m     == acct.mana
           p     == PerBlock(ExactRate(b, s))
           c     == MaxMana(ExactRate(b, s))
           early == RegenerateMana(acct, b, s, k)
           twice == RegenerateMana(early, b, s, h)
           once  == RegenerateMana(acct, b, s, h)
<1>1. m \in Nat /\ l \in Nat
  BY MathAssumption, SMT DEF AccountMana, Uint64, MathAssumption
<1>2. p \in Nat /\ c \in Nat
  <2>1. ExactRate(b, s) \in Nat
    BY RateBounded
  <2> QED
    BY <2>1, PerBlockMonotone, MaxManaMonotone, SMT
<1>3. /\ early \in AccountMana
      /\ early.txCountThisBlock = acct.txCountThisBlock /\ early.lastTxBlock = acct.lastTxBlock
      /\ k <= l => early = acct
      /\ k > l => early.lastUpdateHeight = k /\ early.mana = ClampedSum(m, p, k - l, c)
  BY RegenerateResult DEF CanRegenerate
<1>4. /\ once \in AccountMana
      /\ once.txCountThisBlock = acct.txCountThisBlock /\ once.lastTxBlock = acct.lastTxBlock
      /\ h > l => once.lastUpdateHeight = h /\ once.mana = ClampedSum(m, p, h - l, c)
  BY RegenerateResult DEF CanRegenerate
<1>5. /\ twice \in AccountMana
      /\ twice.txCountThisBlock = early.txCountThisBlock /\ twice.lastTxBlock = early.lastTxBlock
      /\ h <= early.lastUpdateHeight => twice = early
      /\ h > early.lastUpdateHeight =>
           /\ twice.lastUpdateHeight = h
           /\ twice.mana = ClampedSum(early.mana, p, h - early.lastUpdateHeight, c)
  BY <1>3, RegenerateResult DEF CanRegenerate
<1>6. CASE k <= l
  BY <1>3, <1>6
<1>7. CASE k > l /\ h = k
  <2>1. early = once
    BY <1>7
  <2>2. h <= early.lastUpdateHeight
    BY <1>3, <1>7, SMT
  <2> QED
    BY <1>5, <2>1, <2>2
<1>8. CASE k > l /\ h > k
  <2> HIDE DEF early, twice, once, p, c, l, m
  <2>1. h > l /\ h > early.lastUpdateHeight /\ early.lastUpdateHeight = k
    BY <1>1, <1>3, <1>8, SMT
  <2>2. k - l \in Nat /\ h - k \in Nat /\ (k - l) + (h - k) = h - l
    BY <1>1, <1>8, SMT
  <2>3. ClampedSum(ClampedSum(m, p, k - l, c), p, h - k, c) = ClampedSum(m, p, h - l, c)
    BY <1>1, <1>2, <2>2, LazyUpdateComposes
  <2>4. twice.mana = once.mana
    BY <1>3, <1>4, <1>5, <1>8, <2>1, <2>3
  <2>5. twice.lastUpdateHeight = once.lastUpdateHeight
    BY <1>4, <1>5, <2>1
  <2>6. twice = once
    BY <1>3, <1>4, <1>5, <2>4, <2>5 DEF AccountMana
  <2> QED
    BY <2>6 DEF twice, once, early
<1> QED
  BY <1>1, <1>6, <1>7, <1>8, SMT DEF l

\* Nobody gains less than the minimum.
LEMMA MinPerBlockIsLeast ==
  ASSUME NEW r \in Nat
  PROVE  MinPerBlock \in Nat /\ MinPerBlock <= PerBlock(r)
<1> DEFINE years == IF BlocksPerYear = 0 THEN DefaultBlocksPerYear ELSE BlocksPerYear
<1>1. MinPerBlock \in Nat
  BY MathAssumption, DivBounds, SMT DEF MathAssumption, MinPerBlock
<1>2. years \in Nat \ {0}
  BY MathAssumption DEF MathAssumption
<1>3. r \div years \in Nat
  BY <1>2, DivBounds
<1>4. PerBlock(r) = IF r \div years < MinPerBlock THEN MinPerBlock ELSE r \div years
  BY DEF PerBlock
<1> HIDE DEF years
<1> QED
  BY <1>1, <1>3, <1>4, SMT

\* The cap query.go shows is the one the keeper refills to.
LEMMA ShownCapIsMaxMana ==
  ASSUME NEW b \in Nat, NEW s \in Nat
  PROVE  ShownCap(b, s) = MaxMana(ExactRate(b, s))
<1> DEFINE r == ExactRate(b, s)
<1>1. (IF b = 0 \/ s = 0 THEN 0 ELSE r) = r
  BY DEF ExactRate
<1>2. ShownCap(b, s) = IF r >= MinManaFloor THEN r ELSE MinManaFloor
  BY <1>1 DEF ShownCap
<1>3. r \in Nat
  BY RateType
<1> HIDE DEF r
<1>4. ShownCap(b, s) = MaxMana(r)
  BY <1>2, <1>3, MathAssumption, SMT DEF MaxMana, MathAssumption
<1> QED
  BY <1>4 DEF r

\* One block more never leaves less on a meter within its cap.
LEMMA OneBlockMore ==
  ASSUME NEW acct \in AccountMana, NEW h \in Nat,
         NEW b \in Nat, NEW s \in Nat, b <= s, RateFits(b, s),
         RegenerateMana(acct, b, s, h).mana <= MaxMana(ExactRate(b, s))
  PROVE  RegenerateMana(acct, b, s, h).mana <= RegenerateMana(acct, b, s, h + 1).mana
<1> DEFINE r == ExactRate(b, s)
           l == acct.lastUpdateHeight
           m == acct.mana
           now  == RegenerateMana(acct, b, s, h)
           next == RegenerateMana(acct, b, s, h + 1)
<1>1. m \in Nat /\ l \in Nat /\ h + 1 \in Nat
  BY MathAssumption, SMT DEF AccountMana, Uint64, MathAssumption
<1>2. CanRegenerate(acct, b, s, h) /\ CanRegenerate(acct, b, s, h + 1)
  BY DEF CanRegenerate
<1>3. /\ r \in Nat /\ PerBlock(r) \in Nat /\ MaxMana(r) \in Nat
  <2>1. r \in Nat
    BY RateBounded
  <2> QED
    BY <2>1, PerBlockMonotone, MaxManaMonotone, SMT
<1>4. /\ h <= l => now = acct
      /\ h > l => now.mana = ClampedSum(m, PerBlock(r), h - l, MaxMana(r))
  BY <1>2, RegenerateResult
<1>5. /\ h + 1 <= l => next = acct
      /\ h + 1 > l => next.mana = ClampedSum(m, PerBlock(r), (h + 1) - l, MaxMana(r))
  BY <1>1, <1>2, RegenerateResult
<1> DEFINE p == PerBlock(r)
           c == MaxMana(r)
<1>6. now.mana <= c
  OBVIOUS
<1> HIDE DEF r, l, m, now, next, p, c
<1>7. p \in Nat /\ c \in Nat
  BY <1>3 DEF p, c
<1>8. CASE h + 1 <= l
  <2>1. h <= l
    BY <1>1, <1>8, SMT
  <2>2. now = next
    BY <1>4, <1>5, <1>8, <2>1
  <2>3. now.mana \in Nat
    BY <1>1, <1>4, <2>1 DEF m
  <2> QED
    BY <2>2, <2>3, SMT DEF now, next
<1>9. CASE h = l
  <2>1. h <= l /\ h + 1 > l /\ (h + 1) - l = 1
    BY <1>1, <1>9, SMT
  <2>2. now.mana = m /\ next.mana = ClampedSum(m, p, 1, c)
    BY <1>4, <1>5, <2>1 DEF m, p, c
  <2>3. m <= ClampedSum(m, p, 1, c)
    <3>1. m <= c
      BY <1>6, <2>2
    <3> QED
      BY <1>1, <1>7, <3>1, SMT DEF ClampedSum
  <2> QED
    BY <2>2, <2>3 DEF now, next
<1>10. CASE h > l
  <2> DEFINE k == h - l
  <2>1. h + 1 > l /\ (h + 1) - l = k + 1 /\ k \in Nat
    BY <1>1, <1>10, SMT
  <2>2. now.mana = ClampedSum(m, p, k, c) /\ next.mana = ClampedSum(m, p, k + 1, c)
    BY <1>4, <1>5, <1>10, <2>1 DEF p, c
  <2> HIDE DEF k
  <2>3. ClampedSum(m, p, k, c) <= ClampedSum(m, p, k + 1, c)
    <3>1. p * (k + 1) = p * k + p /\ p * k \in Nat
      BY <1>7, <2>1, SMT
    <3> DEFINE u == p * k
               v == p * (k + 1)
    <3>2. u \in Nat /\ v = u + p
      BY <3>1
    <3>3. /\ ClampedSum(m, p, k, c) = IF m + u < c THEN m + u ELSE c
          /\ ClampedSum(m, p, k + 1, c) = IF m + v < c THEN m + v ELSE c
      BY DEF ClampedSum
    <3> HIDE DEF u, v
    <3> QED
      BY <1>1, <1>7, <3>2, <3>3, SMT
  <2> QED
    BY <2>2, <2>3 DEF now, next
<1>11. h + 1 <= l \/ h = l \/ h > l
  BY <1>1, SMT
<1> QED
  BY <1>8, <1>9, <1>10, <1>11
=============================================================================
