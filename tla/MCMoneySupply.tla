--------------------------- MODULE MCMoneySupply ---------------------------
(***************************************************************************)
(* Two colours: BRK, minted by staking BRX, and SIS, mined and minted by   *)
(* staking deck cards.  The forks are the ones at which a rule changes; the*)
(* card reward of fork 3 is large against the width of vTotalMint.         *)
(***************************************************************************)
EXTENDS MoneySupply

MCColor == {"BRK", "SIS"}

Brk(n) == [nColor |-> "BRK", nValue |-> n]
Sis(n) == [nColor |-> "SIS", nValue |-> n]

MCPowReward == [f \in {0, 3, 4, 5} |-> IF f = 0 THEN {Brk(2)} ELSE {Sis(1)}]

MCPosReward == [f \in {0, 3, 4, 5} |->
    CASE f = 0 -> {}
      [] f = 3 -> {Brk(1), Sis(3)}
      [] OTHER -> {Brk(1), Sis(1)}]
=============================================================================
