---------------------------- MODULE MoneySupply ----------------------------
(***************************************************************************)
(* The accounting of the coloured currencies in CBlock::ConnectBlock       *)
(* (main.cpp): vMoneySupply, what exists of each colour, vTotalMint, what  *)
(* may exist of it, and the rule that lets a proof-of-work miner scavenge  *)
(* the difference (rewards that nobody claimed and fees that proof-of-stake*)
(* blocks do not collect).                                                 *)
(*                                                                         *)
(* A block's two vectors are computed from its parent's, and               *)
(* DisconnectBlock does not touch them: the state is that of the block     *)
(* last connected, and every branch of the tree is a behaviour.  A block's *)
(* transactions are reduced to three amounts per colour: the fees (inputs  *)
(* minus outputs outside the coinbase), the coinbase outputs and the       *)
(* outputs that are burnt.  Every colour is scavengable (colors.cpp).      *)
(*                                                                         *)
(* vTotalMint is an int64_t and is kept in its width, and so are the sums  *)
(* made with it: the rewards of BRK_FORK003 are large enough to overflow   *)
(* it.  The other sums are of outputs that exist, and all that exist fit   *)
(* an int64_t (Affordable).                                                *)
(***************************************************************************)
EXTENDS Integers

CONSTANTS
    Color, SIS,
    Fork,                     \* GetFork of a block's time
    Fork000, Fork004, Fork005,\* BRK_GENESIS, BRK_FORK004, BRK_FORK005
    BurnForks,                \* those after BURN_PROTOCOL_START_TIME
    PowReward,                \* fork of the parent -> possible GetProofOfWorkReward
    PosReward,                \* fork of the parent -> possible GetProofOfStakeReward
    Half,                     \* 2^63
    MaxAmount,                \* the largest fee, coinbase or burnt amount of a block
    MaxHeight

Amount == [nColor : Color, nValue : 0 .. Half - 1]

ASSUME MoneyAssumption ==
    /\ SIS \in Color
    /\ {Fork000, Fork004, Fork005} \subseteq Fork
    /\ BurnForks \subseteq Fork
    /\ PowReward \in [Fork -> SUBSET Amount]
    /\ PosReward \in [Fork -> SUBSET Amount]
    /\ Half \in Nat \ {0}
    /\ MaxAmount \in 0 .. Half - 1
    /\ MaxHeight \in Nat

VARIABLES
    nHeight,
    nFork,            \* GetFork(pindex->nTime)
    vMoneySupply,
    vTotalMint,
    vEmitted,         \* not in the code: the sum of all rewards up to this block
    vBurned,          \* not in the code: the sum of all burnt outputs
    vWraps            \* not in the code: how often vTotalMint has overflowed

vars == <<nHeight, nFork, vMoneySupply, vTotalMint, vEmitted, vBurned, vWraps>>

TypeOK ==
    /\ nHeight \in Nat
    /\ nFork \in Fork
    /\ vMoneySupply \in [Color -> Nat]
    /\ vTotalMint \in [Color -> (-Half) .. (Half - 1)]
    /\ vEmitted \in [Color -> Nat]
    /\ vBurned \in [Color -> Nat]
    /\ vWraps \in [Color -> Nat]

Zero == [c \in Color |-> 0]

\* The index of the genesis block.
Init ==
    /\ nHeight = 0
    /\ nFork = Fork000
    /\ vMoneySupply = Zero
    /\ vTotalMint = Zero
    /\ vEmitted = Zero
    /\ vBurned = Zero
    /\ vWraps = Zero

-----------------------------------------------------------------------------
(* Pieces of ConnectBlock.                                                 *)

\* The sum or difference of two int64_t, wrapped.
Carry(x) == IF x >= Half THEN 1 ELSE IF x < -Half THEN -1 ELSE 0

Int64(x) == x - Carry(x) * (2 * Half)

\* "some clients had negative vTotalMint so do a hard reset"
IsReset(c, fork) == c = SIS /\ nFork = Fork004 /\ fork = Fork005

TotalMintPrev(c, fork) == IF IsReset(c, fork) THEN vMoneySupply[c] ELSE vTotalMint[c]

\* Mutant: the parent's vTotalMint is scavenged from, whatever is reset.
FeesWithoutReset(c, fee, fork) == Int64(fee[c] + Int64(vTotalMint[c] - vMoneySupply[c]))

\* vFees of a proof-of-work block: the fees and what can be scavenged.
Fees(c, fee, fork) ==
    Int64(fee[c] + Int64(TotalMintPrev(c, fork) - vMoneySupply[c]))

\* What a proof-of-work coinbase may pay out: the reward colour in its first
\* output, any other colour only as fees.
PowCoinbaseOK(reward, coinbase, fee, fork) ==
    \A c \in Color :
        IF c = reward.nColor
        THEN coinbase[c] <= Int64(reward.nValue + Fees(c, fee, fork))
        ELSE coinbase[c] = 0 \/ coinbase[c] <= Fees(c, fee, fork)

\* The single output of a proof-of-stake coinbase: the mint, and no fees.
PosCoinbaseOK(reward, coinbase) ==
    \A c \in Color :
        coinbase[c] <= IF c = reward.nColor THEN reward.nValue ELSE 0

\* vTotalMint with the reward entered, before what is burnt is taken off.  prev
\* is what it is entered on.
Minted(reward, prev) ==
    [c \in Color |-> IF c = reward.nColor THEN prev[c] + reward.nValue ELSE prev[c]]

\* The outputs that take coins out of the supply, once burning has started.
Burnt(burn) == [c \in Color |-> IF nFork \in BurnForks THEN burn[c] ELSE 0]

\* Mutant: what is burnt is taken off the supply only.
TotalMintKeepsBurnt(minted, burnt) == [c \in Color |-> Int64(minted[c])]

\* What is burnt is taken off vTotalMint as well, or it could be scavenged.
TotalMint(minted, burnt) == [c \in Color |-> Int64(Int64(minted[c]) - burnt[c])]

\* The end of ConnectBlock: money supply and mint of the new block.
Account(reward, prev, coinbase, fee, burn, fork) ==
    LET minted == Minted(reward, prev)
        burnt  == Burnt(burn)
        reset  == [c \in Color |-> IsReset(c, fork) /\ prev[c] = vMoneySupply[c]]
    IN  /\ vTotalMint' = TotalMint(minted, burnt)
        /\ vMoneySupply' =
              [c \in Color |-> vMoneySupply[c] + coinbase[c] - fee[c] - burnt[c]]
        /\ vEmitted' =
              [c \in Color |-> vEmitted[c] + IF c = reward.nColor THEN reward.nValue ELSE 0]
        /\ vBurned' = [c \in Color |-> vBurned[c] + burnt[c]]
        /\ vWraps' =
              [c \in Color |-> (IF reset[c] THEN 0 ELSE vWraps[c])
                                  + Carry(minted[c]) + Carry(Int64(minted[c]) - burnt[c])]
        /\ nFork' = fork
        /\ nHeight' = nHeight + 1

\* Fees and burnt outputs are coins that exist: inputs of the block, or, for
\* what is burnt, outputs of its coinbase.  All that exist fit an int64_t.
Affordable(coinbase, fee, burn) ==
    \A c \in Color :
        /\ fee[c] <= vMoneySupply[c]
        /\ fee[c] + burn[c] <= vMoneySupply[c] + coinbase[c]
        /\ vMoneySupply[c] + coinbase[c] - fee[c] < Half

-----------------------------------------------------------------------------
Amounts == [Color -> 0 .. MaxAmount]

\* ConnectBlock of a proof-of-work block.
ConnectPow(reward, coinbase, fee, burn, fork) ==
    /\ nHeight < MaxHeight
    /\ reward \in PowReward[nFork]
    /\ Affordable(coinbase, fee, burn)
    /\ PowCoinbaseOK(reward, coinbase, fee, fork)
    /\ Account(reward, [c \in Color |-> TotalMintPrev(c, fork)], coinbase, fee, burn, fork)

\* ConnectBlock of a proof-of-stake block: the reward is entered on the parent's
\* vTotalMint, reset or not.
ConnectPos(reward, coinbase, fee, burn, fork) ==
    /\ nHeight < MaxHeight
    /\ reward \in PosReward[nFork]
    /\ Affordable(coinbase, fee, burn)
    /\ PosCoinbaseOK(reward, coinbase)
    /\ Account(reward,
               [c \in Color |-> IF c = reward.nColor THEN vTotalMint[c]
                                ELSE TotalMintPrev(c, fork)],
               coinbase, fee, burn, fork)

Next ==
    \E coinbase, fee, burn \in Amounts, fork \in Fork :
        \/ \E reward \in PowReward[nFork] : ConnectPow(reward, coinbase, fee, burn, fork)
        \/ \E reward \in PosReward[nFork] : ConnectPos(reward, coinbase, fee, burn, fork)

Spec == Init /\ [][Next]_vars

-----------------------------------------------------------------------------
(* Safety.                                                                 *)

\* However fees are scavenged, and whatever vTotalMint overflows to or is reset
\* to, no more of a colour exists than the rewards of the chain less what was
\* burnt.
SupplyWithinEmission ==
    \A c \in Color : vMoneySupply[c] + vBurned[c] <= vEmitted[c]

\* What a miner is offered for scavenging is never negative, unless vTotalMint
\* has overflowed: otherwise the fees of a block could not be claimed.
ScavengeIsPositive ==
    \A c \in Color : vWraps[c] = 0 => vMoneySupply[c] <= vTotalMint[c]

\* The inductive form of both: what vTotalMint would be without its width.
TotalMintInv ==
    \A c \in Color :
        LET total == vTotalMint[c] + vWraps[c] * (2 * Half)
        IN  vMoneySupply[c] <= total /\ total + vBurned[c] <= vEmitted[c]

\* The inductive invariant.
MoneyInv == TypeOK /\ (\A c \in Color : vMoneySupply[c] < Half) /\ TotalMintInv

-----------------------------------------------------------------------------
\* main.cpp on the first block of BRK_FORK005: "some clients had negative
\* vTotalMint so do a "hard reset"".  A negative vTotalMint of SIS does not survive
\* that block.
HardReset ==
    [][nFork = Fork004 /\ nFork' = Fork005 /\ vTotalMint[SIS] < 0
           => vTotalMint'[SIS] >= 0]_vars
=============================================================================
