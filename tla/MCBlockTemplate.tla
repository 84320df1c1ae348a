-------------------------- MODULE MCBlockTemplate --------------------------
(***************************************************************************)
(* A short tree for BlockTemplate: x and y are created in p, and x is spent*)
(* by t1 in a1 or not at all on the b branch; u conflicts with t1; s spends*)
(* y, t2 spends both t1 and s, and t3 spends t2 and z, the coinbase of a1, *)
(* which is gone on the b branch.                                          *)
(***************************************************************************)
EXTENDS BlockTemplate

MCBlock == {"g", "p", "a1", "b1"}

MCParent == [b \in MCBlock |->
    CASE b = "g" -> NoBlock
      [] b = "p" -> "g"
      [] b \in {"a1", "b1"} -> "p"]

MCHeight == [b \in MCBlock |->
    CASE b = "g" -> 0
      [] b = "p" -> 1
      [] b \in {"a1", "b1"} -> 2]

MCTrust == [b \in MCBlock |->
    CASE b = "g" -> 1 [] b = "p" -> 2 [] b = "a1" -> 3 [] b = "b1" -> 4]

MCChain[b \in MCBlock] == IF b = "g" THEN {"g"} ELSE {b} \cup MCChain[MCParent[b]]

MCTx == {"x", "y", "z", "t1", "u", "s", "t2", "t3"}

MCSpends == [t \in MCTx |->
    CASE t \in {"x", "y", "z"} -> {}
      [] t \in {"t1", "u"} -> {"x"}
      [] t = "s" -> {"y"}
      [] t = "t2" -> {"t1", "s"}
      [] t = "t3" -> {"t2", "z"}]

MCTxs == [b \in MCBlock |->
    CASE b \in {"g", "b1"} -> {}
      [] b = "p" -> {"x", "y"}
      [] b = "a1" -> {"t1", "z"}]

MCPoolable == {"t1", "u", "s", "t2", "t3"}
=============================================================================
