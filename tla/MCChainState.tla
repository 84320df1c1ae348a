---------------------------- MODULE MCChainState ----------------------------
(***************************************************************************)
(* A block tree for ChainState that forks at genesis (a, b) and again at a1*)
(* (c); t1 is in a1 and in b1, so a reorganisation erases and re-enters it *)
(* within one batch; u2 and t2 spend the same output, and only the c       *)
(* branch spends w, another output of a1.  b3 double spends and a3 is      *)
(* refused by ConnectBlock itself, so that branches of more trust than the *)
(* best chain fail at their end or in the middle.                          *)
(***************************************************************************)
EXTENDS ChainRefinement

MCBlock == {"g", "a1", "a2", "a3", "b1", "b2", "b3", "b4", "c2", "c3"}

MCParent == [b \in MCBlock |->
    CASE b = "g"  -> NoBlock
      [] b \in {"a1", "b1"} -> "g"
      [] b \in {"a2", "c2"} -> "a1"
      [] b = "a3" -> "a2"
      [] b = "b2" -> "b1"
      [] b = "b3" -> "b2"
      [] b = "b4" -> "b3"
      [] b = "c3" -> "c2"]

MCHeight == [b \in MCBlock |->
    CASE b = "g" -> 0
      [] b \in {"a1", "b1"} -> 1
      [] b \in {"a2", "b2", "c2"} -> 2
      [] b \in {"a3", "b3", "c3"} -> 3
      [] b = "b4" -> 4]

\* Equal trust occurs (b2 and c3); a2 outweighs c3, which is one higher, and b3, on
\* the way to the heavier b4.
MCTrust == [b \in MCBlock |->
    CASE b = "g"  -> 1
      [] b = "a1" -> 3  [] b = "a2" -> 8  [] b = "a3" -> 9
      [] b = "b1" -> 2  [] b = "b2" -> 6  [] b = "b3" -> 7  [] b = "b4" -> 10
      [] b = "c2" -> 5  [] b = "c3" -> 6]

MCChain[b \in MCBlock] == IF b = "g" THEN {"g"} ELSE {b} \cup MCChain[MCParent[b]]

MCTx == {"t1", "t2", "u2", "t3", "t4", "w", "w2"}

MCSpends == [t \in MCTx |->
    CASE t \in {"t1", "w"} -> {}
      [] t = "t2" -> {"t1"}
      [] t = "u2" -> {"t1"}
      [] t = "t3" -> {"t2"}
      [] t = "t4" -> {"u2"}
      [] t = "w2" -> {"w"}]

MixedTxs == [b \in MCBlock |->
    CASE b = "g"  -> {}
      [] b = "a1" -> {"t1", "w"}
      [] b = "b1" -> {"t1"}
      [] b = "a2" -> {"t2"}
      [] b = "a3" -> {"t3"}
      [] b = "b2" -> {"u2"}
      [] b = "b3" -> {"t2"}
      [] b = "b4" -> {"t4"}
      [] b = "c2" -> {"w2"}
      [] b = "c3" -> {"t2", "t3"}]
=============================================================================
