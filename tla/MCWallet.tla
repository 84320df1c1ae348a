------------------------------ MODULE MCWallet ------------------------------
(***************************************************************************)
(* A tree for Wallet above the block p, which pays x to the wallet.  t1    *)
(* spends x back to the wallet and t2 pays from t1: both are in a1, and    *)
(* one in b1, the other in b2, which also mints y for the wallet; c1 stakes*)
(* x instead.  a2 is refused: reorganising from c1 to it fails after c1 was*)
(* disconnected and a1 connected.                                          *)
(***************************************************************************)
EXTENDS Wallet

MCBlock == {"g", "p", "a1", "a2", "b1", "b2", "b3", "c1"}

MCParent == [b \in MCBlock |->
    CASE b = "g" -> NoBlock
      [] b = "p" -> "g"
      [] b \in {"a1", "b1", "c1"} -> "p"
      [] b = "a2" -> "a1"
      [] b = "b2" -> "b1"
      [] b = "b3" -> "b2"]

MCChain[b \in MCBlock] == IF b = "g" THEN {"g"} ELSE {b} \cup MCChain[MCParent[b]]

MCHeight == [b \in MCBlock |-> Cardinality(MCChain[b]) - 1]

MCTrust == [b \in MCBlock |->
    CASE b = "g" -> 1  [] b = "p" -> 2
      [] b = "a1" -> 4 [] b = "a2" -> 9
      [] b = "b1" -> 3 [] b = "b2" -> 5 [] b = "b3" -> 8
      [] b = "c1" -> 7]

MCTx == {"z", "x", "t1", "t2", "s", "y"}

MCSpends == [t \in MCTx |->
    CASE t \in {"z", "y"} -> {}
      [] t = "x" -> {"z"}
      [] t \in {"t1", "s"} -> {"x"}
      [] t = "t2" -> {"t1"}]

MCTxs == [b \in MCBlock |->
    CASE b = "p" -> {"z", "x"}
      [] b = "a1" -> {"t1", "t2"}
      [] b = "b1" -> {"t1"}
      [] b = "b2" -> {"y", "t2"}
      [] b = "c1" -> {"s"}
      [] OTHER -> {}]

MCValue == [t \in MCTx |->
    CASE t \in {"z", "x"} -> 7 [] t = "t1" -> 5 [] t = "t2" -> 4
      [] t = "s" -> 8 [] t = "y" -> 3]

MCvtxPrev == [t \in MCTx |-> IF t = "t2" THEN <<"t1">> ELSE <<>>]

MCHashOrder == <<"t2", "t1", "s", "x", "y", "z">>

\* No guard and no property looks at the other balances, or at setKnown.
MCView == <<vars, poolVars, orphanVars, queueVars, mapWallet, balance.confirmed, changes, connecting,
            untold, bestblock, startup, vScan, snapshot, nReconciled>>
=============================================================================
