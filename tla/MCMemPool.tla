----------------------------- MODULE MCMemPool -----------------------------
(***************************************************************************)
(* A tree for MemPool that forks above the block p, which creates the      *)
(* output x.  t1 and u both spend x: t1 is in the a branch and again in    *)
(* b3, u only ever in the pool; t2 and v both spend t1, and t3 spends t2.  *)
(* b4 is the block that ConnectBlock refuses.                              *)
(***************************************************************************)
EXTENDS MemPool

MCBlock == {"g", "p", "a1", "a2", "b1", "b2", "b3", "b4"}

MCParent == [b \in MCBlock |->
    CASE b = "g" -> NoBlock
      [] b = "p" -> "g"
      [] b \in {"a1", "b1"} -> "p"
      [] b = "a2" -> "a1"
      [] b = "b2" -> "b1"
      [] b = "b3" -> "b2"
      [] b = "b4" -> "b3"]

MCHeight == [b \in MCBlock |->
    CASE b = "g" -> 0
      [] b = "p" -> 1
      [] b \in {"a1", "b1"} -> 2
      [] b \in {"a2", "b2"} -> 3
      [] b = "b3" -> 4
      [] b = "b4" -> 5]

MCTrust == [b \in MCBlock |->
    CASE b = "g" -> 1  [] b = "p" -> 2
      [] b = "a1" -> 4 [] b = "a2" -> 5
      [] b = "b1" -> 3 [] b = "b2" -> 5 [] b = "b3" -> 7
      [] b = "b4" -> 8]

MCChain[b \in MCBlock] == IF b = "g" THEN {"g"} ELSE {b} \cup MCChain[MCParent[b]]

MCTx == {"x", "t1", "u", "t2", "v", "t3"}

MCSpends == [t \in MCTx |->
    CASE t = "x" -> {}
      [] t \in {"t1", "u"} -> {"x"}
      [] t \in {"t2", "v"} -> {"t1"}
      [] t = "t3" -> {"t2"}]

MCTxs == [b \in MCBlock |->
    CASE b \in {"g", "b1", "b2", "b4"} -> {}
      [] b = "p" -> {"x"}
      [] b \in {"a1", "b3"} -> {"t1"}
      [] b = "a2" -> {"t2"}]

MCPoolable == {"t1", "u", "t2", "v", "t3"}
=============================================================================
