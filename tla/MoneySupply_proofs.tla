------------------------- MODULE MoneySupply_proofs -------------------------
(***************************************************************************)
(* No inflation beyond the emission schedule, for every set of colours,    *)
(* every schedule of rewards and every width of vTotalMint.                *)
(*                                                                         *)
(* The argument: let total be vTotalMint without its width, that is, with  *)
(* 2^64 added for every overflow.  Then supply <= total <= emitted - burnt *)
(* for every colour.  A coinbase pays at most reward + fees + (vTotalMint -*)
(* supply), and those sums, which wrap too, are at most what they would be *)
(* with total: the difference underflows only when vTotalMint is negative, *)
(* that is, after an overflow.  Reward and burnt amounts are entered in    *)
(* total and in supply alike; a reset lowers total to supply.              *)
(***************************************************************************)
EXTENDS MoneySupply, TLAPS

\* What Int64 does: the result is in range, and differs by whole widths.
LEMMA Int64Wraps ==
    ASSUME Half \in Nat \ {0}, NEW x \in Int, -2 * Half <= x, x < 2 * Half
    PROVE  /\ Int64(x) \in (-Half) .. (Half - 1)
           /\ Carry(x) \in {-1, 0, 1}
           /\ Int64(x) + Carry(x) * (2 * Half) = x
BY DEF Int64, Carry

\* A sum that does not underflow is at most what it would be without its width,
\* and one that does, at most a width more.
LEMMA Int64AtMost ==
    ASSUME Half \in Nat \ {0}, NEW x \in Int, -2 * Half <= x, x < 2 * Half
    PROVE  /\ -Half <= x => Int64(x) <= x
           /\ Int64(x) <= x + 2 * Half
BY DEF Int64, Carry

\* What a coinbase may claim of the reward colour or of another (r is then 0), by
\* the sums as they wrap: no more than by the sums without their width.  m is
\* vTotalMint, s the supply, f the fees, and k the overflows behind m, without
\* which m covers s.
LEMMA ClaimArithmetic ==
    ASSUME Half \in Nat \ {0},
           NEW m \in (-Half) .. (Half - 1), NEW s \in 0 .. (Half - 1),
           NEW f \in 0 .. (Half - 1), NEW r \in 0 .. (Half - 1),
           NEW k \in Nat, s <= m + k * (2 * Half)
    PROVE  LET v == Int64(f + Int64(m - s))
           IN  /\ v <= f + m - s + k * (2 * Half)
               /\ Int64(r + v) <= r + f + m - s + k * (2 * Half)
<1> DEFINE d == Int64(m - s)
           v == Int64(f + d)
<1>1. PICK K \in Nat : K = k * (2 * Half) /\ (K = 0 \/ K >= 2 * Half)
  <2>1. CASE k = 0
    BY <2>1
  <2>2. CASE k >= 1
    <3>1. k * (2 * Half) >= 2 * Half /\ k * (2 * Half) \in Nat
      BY <2>2
    <3> QED
      BY <3>1
  <2> QED
    BY <2>1, <2>2
<1>2. s <= m + K
  BY <1>1
<1>3. d \in (-Half) .. (Half - 1) /\ d <= m - s + K
  <2>1. m - s \in Int /\ -2 * Half <= m - s /\ m - s < 2 * Half
    OBVIOUS
  <2>2. d \in (-Half) .. (Half - 1)
    BY <2>1, Int64Wraps
  <2>3. /\ -Half <= m - s => d <= m - s
        /\ d <= m - s + 2 * Half
    BY <2>1, Int64AtMost
  <2> HIDE DEF d
  <2> QED
    BY <1>1, <1>2, <2>2, <2>3
<1> HIDE DEF d
<1>4. v \in (-Half) .. (Half - 1) /\ v <= f + d
  <2>1. f + d \in Int /\ -Half <= f + d /\ f + d < 2 * Half
    BY <1>3
  <2> QED
    BY <2>1, Int64Wraps, Int64AtMost
<1> HIDE DEF v
<1>5. Int64(r + v) <= r + v /\ Int64(r + v) \in Int
  <2>1. r + v \in Int /\ -Half <= r + v /\ r + v < 2 * Half
    BY <1>4
  <2> QED
    BY <2>1, Int64Wraps, Int64AtMost
<1>6. PICK n \in Int : n = Int64(r + v)
  BY <1>5
<1>7. v <= f + m - s + K /\ n <= r + f + m - s + K
  BY <1>1, <1>3, <1>4, <1>5, <1>6
<1> QED
  BY <1>1, <1>6, <1>7 DEF v, d

\* Multiplication distributes over the three counts of overflows.
LEMMA Distribute ==
    ASSUME NEW x \in Int, NEW y \in Int, NEW z \in Int, NEW w \in Int
    PROVE  (x + y + z) * w = x * w + y * w + z * w
OBVIOUS

\* The arithmetic of one colour in one block: prev with k overflows behind it,
\* reward r, burnt amount b, new supply s.
LEMMA AccountArithmetic ==
    ASSUME Half \in Nat \ {0},
           NEW prev \in (-Half) .. (Half - 1), NEW r \in 0 .. (Half - 1),
           NEW b \in 0 .. (Half - 1), NEW k \in Nat, NEW s \in Nat,
           s <= prev + k * (2 * Half) + r - b
    PROVE  LET m  == prev + r
               t  == Int64(Int64(m) - b)
               k2 == k + Carry(m) + Carry(Int64(m) - b)
           IN  /\ t \in (-Half) .. (Half - 1)
               /\ k2 \in Nat
               /\ t + k2 * (2 * Half) = prev + k * (2 * Half) + r - b
<1> DEFINE m == prev + r
           i == Int64(m)
           u == i - b
           t == Int64(u)
           k2 == k + Carry(m) + Carry(u)
           w == 2 * Half
<1>1. /\ i \in (-Half) .. (Half - 1)
      /\ Carry(m) \in {-1, 0, 1}
      /\ i + Carry(m) * w = m
  <2>1. m \in Int /\ -2 * Half <= m /\ m < 2 * Half
    OBVIOUS
  <2> QED
    BY <2>1, Int64Wraps
<1>2. /\ t \in (-Half) .. (Half - 1)
      /\ Carry(u) \in {-1, 0, 1}
      /\ t + Carry(u) * w = u
  <2>1. u \in Int /\ -2 * Half <= u /\ u < 2 * Half
    BY <1>1
  <2> QED
    BY <2>1, Int64Wraps
<1>3. t + k2 * w = prev + k * w + r - b
  <2>1. PICK cm \in Int : cm = Carry(m)
    BY <1>1
  <2>2. PICK cu \in Int : cu = Carry(u)
    BY <1>2
  <2>3. w \in Int /\ i \in Int /\ t \in Int
    BY <1>1, <1>2
  <2>4. (k + cm + cu) * w = k * w + cm * w + cu * w
    BY <2>3, Distribute
  <2>5. i + cm * w = prev + r
    BY <1>1, <2>1
  <2>6. t + cu * w = i - b
    BY <1>2, <2>2
  <2>7. PICK A \in Int, B \in Int, C \in Int : A = k * w /\ B = cm * w /\ C = cu * w
    BY <2>3
  <2>8. t + (A + B + C) = prev + A + r - b
    BY <2>3, <2>5, <2>6, <2>7
  <2> QED
    BY <2>1, <2>2, <2>4, <2>7, <2>8
<1>4. k2 \in Nat
  <2>1. k2 \in Int
    BY <1>1, <1>2
  <2>2. t + k2 * w >= 0
    BY <1>3
  <2>3. CASE k2 <= -1
    <3>1. k2 * w <= -w
      <4> HIDE DEF k2
      <4> QED
        BY <2>1, <2>3
    <3> QED
      BY <1>2, <2>1, <2>2, <3>1
  <2> QED
    BY <2>1, <2>3
<1> QED
  BY <1>2, <1>3, <1>4
-----------------------------------------------------------------------------
\* The part of a colour in the reward.
RewardOf(reward, c) == IF c = reward.nColor THEN reward.nValue ELSE 0

\* The overflows behind prev[c]: none once it was reset to the supply.
WrapsOf(prev, fork, c) ==
    IF IsReset(c, fork) /\ prev[c] = vMoneySupply[c] THEN 0 ELSE vWraps[c]

\* The end of ConnectBlock keeps the invariant whenever the mint it starts from
\* is covered by the emission and the coinbase by that mint and the reward.
LEMMA AccountStep ==
    ASSUME MoneyInv,
           NEW reward \in Amount,
           NEW prev \in [Color -> (-Half) .. (Half - 1)],
           NEW coinbase \in Amounts, NEW fee \in Amounts, NEW burn \in Amounts,
           NEW fork \in Fork,
           Affordable(coinbase, fee, burn),
           \A c \in Color :
               /\ prev[c] + WrapsOf(prev, fork, c) * (2 * Half) + vBurned[c] <= vEmitted[c]
               /\ vMoneySupply[c] + coinbase[c] - fee[c]
                      <= prev[c] + WrapsOf(prev, fork, c) * (2 * Half) + RewardOf(reward, c),
           Account(reward, prev, coinbase, fee, burn, fork)
    PROVE  MoneyInv'
<1> USE MoneyAssumption
<1> DEFINE minted == Minted(reward, prev)
           burnt == Burnt(burn)
           k(c) == WrapsOf(prev, fork, c)
           s(c) == vMoneySupply[c] + coinbase[c] - fee[c] - burnt[c]
           t(c) == Int64(Int64(minted[c]) - burnt[c])
           k2(c) == k(c) + Carry(minted[c]) + Carry(Int64(minted[c]) - burnt[c])
<1>1. ASSUME NEW c \in Color
      PROVE  /\ vMoneySupply[c] \in Nat /\ vEmitted[c] \in Nat /\ vBurned[c] \in Nat
             /\ coinbase[c] \in 0 .. (Half - 1) /\ fee[c] \in 0 .. (Half - 1)
             /\ burnt[c] \in 0 .. (Half - 1) /\ burnt[c] <= burn[c] /\ burn[c] \in Nat
             /\ RewardOf(reward, c) \in 0 .. (Half - 1)
             /\ k(c) \in Nat
             /\ prev[c] \in (-Half) .. (Half - 1)
             /\ minted[c] = prev[c] + RewardOf(reward, c)
  <2>1. vMoneySupply[c] \in Nat /\ vEmitted[c] \in Nat /\ vBurned[c] \in Nat /\ vWraps[c] \in Nat
    BY DEF MoneyInv, TypeOK
  <2>2. k(c) \in Nat
    BY <2>1 DEF WrapsOf
  <2>3. /\ coinbase[c] \in 0 .. (Half - 1) /\ fee[c] \in 0 .. (Half - 1)
        /\ burn[c] \in 0 .. (Half - 1)
    BY DEF Amounts
  <2>4. RewardOf(reward, c) \in 0 .. (Half - 1)
    BY DEF RewardOf, Amount
  <2>5. burnt[c] \in 0 .. (Half - 1) /\ burnt[c] <= burn[c]
    BY <2>3 DEF Burnt
  <2>6. minted[c] = prev[c] + RewardOf(reward, c)
    BY DEF Minted, RewardOf
  <2> QED
    BY <2>1, <2>2, <2>3, <2>4, <2>5, <2>6
<1>2. ASSUME NEW c \in Color
      PROVE  s(c) \in Nat /\ s(c) < Half
  <2>1. /\ fee[c] + burn[c] <= vMoneySupply[c] + coinbase[c]
        /\ vMoneySupply[c] + coinbase[c] - fee[c] < Half
    BY DEF Affordable
  <2> QED
    BY <1>1, <2>1
<1>3. ASSUME NEW c \in Color
      PROVE  /\ t(c) \in (-Half) .. (Half - 1)
             /\ k2(c) \in Nat
             /\ t(c) + k2(c) * (2 * Half)
                   = prev[c] + k(c) * (2 * Half) + RewardOf(reward, c) - burnt[c]
             /\ s(c) <= t(c) + k2(c) * (2 * Half)
  <2>0. PICK K \in Int : K = k(c) * (2 * Half)
    BY <1>1
  <2>1. s(c) <= prev[c] + k(c) * (2 * Half) + RewardOf(reward, c) - burnt[c]
    BY <1>1, <2>0
  <2> HIDE DEF k, s, burnt, minted
  <2>2. /\ t(c) \in (-Half) .. (Half - 1)
        /\ k2(c) \in Nat
        /\ t(c) + k2(c) * (2 * Half)
               = prev[c] + k(c) * (2 * Half) + RewardOf(reward, c) - burnt[c]
    BY <1>1, <1>2, <2>1, AccountArithmetic
  <2> QED
    BY <2>1, <2>2
<1>4. /\ vTotalMint' = [c \in Color |-> t(c)]
      /\ vMoneySupply' = [c \in Color |-> s(c)]
      /\ vEmitted' = [c \in Color |-> vEmitted[c] + RewardOf(reward, c)]
      /\ vBurned' = [c \in Color |-> vBurned[c] + burnt[c]]
      /\ nFork' = fork
      /\ nHeight' = nHeight + 1
  BY DEF Account, TotalMint, RewardOf
<1>5. vWraps' = [c \in Color |-> k2(c)]
  BY DEF Account, WrapsOf
<1> HIDE DEF minted, burnt, k, s, t, k2
<1>6. TypeOK'
  <2>1. nHeight' \in Nat
    BY <1>4 DEF MoneyInv, TypeOK
  <2>2. vMoneySupply' \in [Color -> Nat]
    BY <1>2, <1>4
  <2>3. vTotalMint' \in [Color -> (-Half) .. (Half - 1)]
    BY <1>3, <1>4
  <2>4. vEmitted' \in [Color -> Nat]
    BY <1>1, <1>4
  <2>5. vBurned' \in [Color -> Nat]
    BY <1>1, <1>4
  <2>6. vWraps' \in [Color -> Nat]
    BY <1>3, <1>5
  <2> QED
    BY <1>4, <2>1, <2>2, <2>3, <2>4, <2>5, <2>6 DEF TypeOK
<1>7. \A c \in Color : vMoneySupply'[c] < Half
  BY <1>2, <1>4
<1>8. TotalMintInv'
  <2> SUFFICES ASSUME NEW c \in Color
               PROVE  /\ s(c) <= t(c) + k2(c) * (2 * Half)
                      /\ t(c) + k2(c) * (2 * Half) + (vBurned[c] + burnt[c])
                            <= vEmitted[c] + RewardOf(reward, c)
    BY <1>4, <1>5 DEF TotalMintInv
  <2>1. PICK K \in Int : K = k(c) * (2 * Half)
    BY <1>1
  <2>2. prev[c] + K + vBurned[c] <= vEmitted[c]
    BY <2>1 DEF k
  <2>3. t(c) + k2(c) * (2 * Half) = prev[c] + K + RewardOf(reward, c) - burnt[c]
    BY <1>3, <2>1
  <2>4. PICK T \in Int : T = t(c) + k2(c) * (2 * Half)
    BY <1>1, <2>1, <2>3
  <2>5. T + (vBurned[c] + burnt[c]) <= vEmitted[c] + RewardOf(reward, c)
    BY <1>1, <2>1, <2>2, <2>3, <2>4
  <2>6. t(c) + k2(c) * (2 * Half) + (vBurned[c] + burnt[c]) = T + (vBurned[c] + burnt[c])
    BY <2>4
  <2> QED
    BY <1>3, <2>5, <2>6
<1> QED
  BY <1>6, <1>7, <1>8 DEF MoneyInv

\* Whichever mint a block starts from, the parent's or the reset one, it covers
\* the supply and is covered by the emission.
LEMMA PrevCovers ==
    ASSUME MoneyInv, NEW prev, NEW fork, NEW c \in Color,
           prev[c] \in {vTotalMint[c], TotalMintPrev(c, fork)}
    PROVE  /\ prev[c] \in (-Half) .. (Half - 1)
           /\ WrapsOf(prev, fork, c) \in Nat
           /\ WrapsOf(prev, fork, c) * (2 * Half) \in Nat
           /\ vMoneySupply[c] <= prev[c] + WrapsOf(prev, fork, c) * (2 * Half)
           /\ prev[c] + WrapsOf(prev, fork, c) * (2 * Half) + vBurned[c] <= vEmitted[c]
<1> USE MoneyAssumption
<1>1. /\ vMoneySupply[c] \in Nat /\ vMoneySupply[c] < Half
      /\ vTotalMint[c] \in (-Half) .. (Half - 1)
      /\ vWraps[c] \in Nat /\ vBurned[c] \in Nat /\ vEmitted[c] \in Nat
  BY DEF MoneyInv, TypeOK
<1>2. PICK K \in Nat : K = vWraps[c] * (2 * Half)
  BY <1>1
<1>3. /\ vMoneySupply[c] <= vTotalMint[c] + K
      /\ vTotalMint[c] + K + vBurned[c] <= vEmitted[c]
  BY <1>2 DEF MoneyInv, TotalMintInv
<1>4. CASE IsReset(c, fork) /\ prev[c] = vMoneySupply[c]
  <2>1. WrapsOf(prev, fork, c) = 0
    BY <1>4 DEF WrapsOf
  <2> QED
    BY <1>1, <1>3, <1>4, <2>1
<1>5. CASE ~(IsReset(c, fork) /\ prev[c] = vMoneySupply[c])
  <2>1. WrapsOf(prev, fork, c) = vWraps[c]
    BY <1>5 DEF WrapsOf
  <2>2. prev[c] = vTotalMint[c]
    BY <1>5 DEF TotalMintPrev
  <2> QED
    BY <1>1, <1>2, <1>3, <2>1, <2>2
<1> QED
  BY <1>4, <1>5

\* A proof-of-work block keeps the invariant.
LEMMA ConnectPowStep ==
    ASSUME MoneyInv,
           NEW coinbase \in Amounts, NEW fee \in Amounts, NEW burn \in Amounts,
           NEW fork \in Fork, NEW reward \in PowReward[nFork],
           ConnectPow(reward, coinbase, fee, burn, fork)
    PROVE  MoneyInv'
<1> USE MoneyAssumption
<1> DEFINE prev == [c \in Color |-> TotalMintPrev(c, fork)]
<1>1. reward \in Amount
  BY DEF MoneyInv, TypeOK
<1>2. ASSUME NEW c \in Color
      PROVE  /\ prev[c] \in (-Half) .. (Half - 1)
             /\ WrapsOf(prev, fork, c) * (2 * Half) \in Nat
             /\ vMoneySupply[c] <= prev[c] + WrapsOf(prev, fork, c) * (2 * Half)
             /\ prev[c] + WrapsOf(prev, fork, c) * (2 * Half) + vBurned[c] <= vEmitted[c]
  BY PrevCovers
<1>3. prev \in [Color -> (-Half) .. (Half - 1)]
  BY <1>2
<1>4. ASSUME NEW c \in Color
      PROVE  vMoneySupply[c] + coinbase[c] - fee[c]
                <= prev[c] + WrapsOf(prev, fork, c) * (2 * Half) + RewardOf(reward, c)
  <2>1. PICK K \in Nat : K = WrapsOf(prev, fork, c) * (2 * Half)
    BY <1>2
  <2>2. /\ vMoneySupply[c] \in 0 .. (Half - 1)
        /\ coinbase[c] \in Nat /\ fee[c] \in 0 .. (Half - 1)
        /\ RewardOf(reward, c) \in 0 .. (Half - 1)
    BY <1>1 DEF MoneyInv, TypeOK, Amounts, RewardOf, Amount
  <2>p. prev[c] \in (-Half) .. (Half - 1)
    <3> HIDE DEF prev
    <3> QED
      BY <1>2
  <2>f. Fees(c, fee, fork) = Int64(fee[c] + Int64(prev[c] - vMoneySupply[c]))
    BY DEF Fees
  <2>r. /\ Fees(c, fee, fork) <= fee[c] + prev[c] - vMoneySupply[c] + K
        /\ Int64(RewardOf(reward, c) + Fees(c, fee, fork))
               <= RewardOf(reward, c) + fee[c] + prev[c] - vMoneySupply[c] + K
    <3> HIDE DEF prev
    <3>1. WrapsOf(prev, fork, c) \in Nat
      BY DEF WrapsOf, MoneyInv, TypeOK
    <3>2. vMoneySupply[c] <= prev[c] + WrapsOf(prev, fork, c) * (2 * Half)
      BY <1>2
    <3>3. LET v == Int64(fee[c] + Int64(prev[c] - vMoneySupply[c]))
          IN  /\ v <= fee[c] + prev[c] - vMoneySupply[c]
                            + WrapsOf(prev, fork, c) * (2 * Half)
              /\ Int64(RewardOf(reward, c) + v)
                     <= RewardOf(reward, c) + fee[c] + prev[c] - vMoneySupply[c]
                            + WrapsOf(prev, fork, c) * (2 * Half)
      BY <2>2, <2>p, <3>1, <3>2, ClaimArithmetic
    <3> QED
      BY <2>1, <2>f, <3>3
  <2>3. \/ coinbase[c] <= RewardOf(reward, c) + fee[c] + prev[c] - vMoneySupply[c] + K
        \/ coinbase[c] = 0
    <3> HIDE DEF prev
    <3>t. Fees(c, fee, fork) \in Int /\ Int64(RewardOf(reward, c) + Fees(c, fee, fork)) \in Int
      <4>1. ASSUME NEW x \in Int
            PROVE  Int64(x) \in Int
        BY DEF Int64, Carry
      <4>2. Fees(c, fee, fork) \in Int
        BY <2>2, <2>p, <2>f, <4>1
      <4> QED
        BY <2>2, <4>1, <4>2
    <3>1. CASE c = reward.nColor
      <4>1. coinbase[c] <= Int64(RewardOf(reward, c) + Fees(c, fee, fork))
        BY <3>1 DEF ConnectPow, PowCoinbaseOK, RewardOf
      <4> QED
        BY <2>1, <2>2, <2>p, <2>r, <3>t, <4>1
    <3>2. CASE c # reward.nColor
      <4>1. coinbase[c] = 0 \/ coinbase[c] <= Fees(c, fee, fork)
        BY <3>2 DEF ConnectPow, PowCoinbaseOK
      <4> QED
        BY <2>1, <2>2, <2>p, <2>r, <3>t, <4>1
    <3> QED
      BY <3>1, <3>2
  <2>4. vMoneySupply[c] <= prev[c] + K
    BY <1>2, <2>1
  <2> HIDE DEF prev
  <2>5. vMoneySupply[c] + coinbase[c] - fee[c] <= prev[c] + K + RewardOf(reward, c)
    BY <2>1, <2>2, <2>p, <2>3, <2>4
  <2> QED
    BY <2>1, <2>5
<1>5. /\ Affordable(coinbase, fee, burn)
      /\ Account(reward, prev, coinbase, fee, burn, fork)
  BY DEF ConnectPow
<1> HIDE DEF prev
<1> QED
  BY <1>1, <1>2, <1>3, <1>4, <1>5, AccountStep

\* So does a proof-of-stake block, with or without the reset.
LEMMA ConnectPosStep ==
    ASSUME MoneyInv,
           NEW coinbase \in Amounts, NEW fee \in Amounts, NEW burn \in Amounts,
           NEW fork \in Fork, NEW reward \in PosReward[nFork],
           ConnectPos(reward, coinbase, fee, burn, fork)
    PROVE  MoneyInv'
<1> USE MoneyAssumption
<1> DEFINE prev == [c \in Color |-> IF c = reward.nColor THEN vTotalMint[c]
                                    ELSE TotalMintPrev(c, fork)]
<1>1. reward \in Amount
  BY DEF MoneyInv, TypeOK
<1>2. ASSUME NEW c \in Color
      PROVE  /\ prev[c] \in (-Half) .. (Half - 1)
             /\ WrapsOf(prev, fork, c) * (2 * Half) \in Nat
             /\ vMoneySupply[c] <= prev[c] + WrapsOf(prev, fork, c) * (2 * Half)
             /\ prev[c] + WrapsOf(prev, fork, c) * (2 * Half) + vBurned[c] <= vEmitted[c]
  <2>1. prev[c] \in {vTotalMint[c], TotalMintPrev(c, fork)}
    OBVIOUS
  <2> HIDE DEF prev
  <2> QED
    BY <2>1, PrevCovers
<1>3. prev \in [Color -> (-Half) .. (Half - 1)]
  BY <1>2
<1>4. ASSUME NEW c \in Color
      PROVE  vMoneySupply[c] + coinbase[c] - fee[c]
                <= prev[c] + WrapsOf(prev, fork, c) * (2 * Half) + RewardOf(reward, c)
  <2>1. PICK K \in Nat : K = WrapsOf(prev, fork, c) * (2 * Half)
    BY <1>2
  <2> HIDE DEF prev
  <2>2. prev[c] \in Int /\ vMoneySupply[c] <= prev[c] + K
    BY <1>2, <2>1
  <2>3. /\ vMoneySupply[c] \in Nat
        /\ coinbase[c] \in Nat /\ fee[c] \in Nat
        /\ RewardOf(reward, c) \in Nat
    BY <1>1 DEF MoneyInv, TypeOK, Amounts, RewardOf, Amount
  <2>4. coinbase[c] <= RewardOf(reward, c)
    BY DEF ConnectPos, PosCoinbaseOK, RewardOf
  <2> QED
    BY <2>1, <2>2, <2>3, <2>4
<1>5. /\ Affordable(coinbase, fee, burn)
      /\ Account(reward, prev, coinbase, fee, burn, fork)
  BY DEF ConnectPos
<1> HIDE DEF prev
<1> QED
  BY <1>1, <1>2, <1>3, <1>4, <1>5, AccountStep

-----------------------------------------------------------------------------
\* Both statements about the money supply follow from the invariant.
LEMMA InvImplies == MoneyInv => SupplyWithinEmission /\ ScavengeIsPositive
<1> SUFFICES ASSUME MoneyInv, NEW c \in Color
             PROVE  /\ vMoneySupply[c] + vBurned[c] <= vEmitted[c]
                    /\ vWraps[c] = 0 => vMoneySupply[c] <= vTotalMint[c]
  BY DEF SupplyWithinEmission, ScavengeIsPositive
<1>1. /\ vMoneySupply[c] \in Nat /\ vTotalMint[c] \in Int
      /\ vWraps[c] \in Nat /\ vBurned[c] \in Nat /\ vEmitted[c] \in Nat
      /\ Half \in Nat
  BY MoneyAssumption DEF MoneyInv, TypeOK
<1>2. PICK K \in Int : K = vWraps[c] * (2 * Half) /\ (vWraps[c] = 0 => K = 0)
  BY <1>1
<1>3. /\ vMoneySupply[c] <= vTotalMint[c] + K
      /\ vTotalMint[c] + K + vBurned[c] <= vEmitted[c]
  BY <1>2 DEF MoneyInv, TotalMintInv
<1> QED
  BY <1>1, <1>2, <1>3

\* ConnectBlock never lets more of a colour exist than the rewards of the chain
\* less what was burnt, and never offers a negative amount for scavenging unless
\* vTotalMint has overflowed.
THEOREM MoneySafety == Spec => [](SupplyWithinEmission /\ ScavengeIsPositive)
<1>1. Init => MoneyInv
  BY MoneyAssumption DEF Init, MoneyInv, TypeOK, TotalMintInv, Zero
<1>2. MoneyInv /\ [Next]_vars => MoneyInv'
  <2> SUFFICES ASSUME MoneyInv, [Next]_vars
               PROVE  MoneyInv'
    OBVIOUS
  <2>1. CASE Next
    BY <2>1, ConnectPowStep, ConnectPosStep DEF Next
  <2>2. CASE UNCHANGED vars
    BY <2>2 DEF vars, MoneyInv, TypeOK, TotalMintInv
  <2> QED
    BY <2>1, <2>2
<1> QED
  BY <1>1, <1>2, InvImplies, PTL DEF Spec
=============================================================================
