----------------------------- MODULE MCExplore -----------------------------
(***************************************************************************)
(* A tree for Explore.  On the a branch, s stakes x back to its own address*)
(* A, and a3 holds a chain of two transactions, the first with two inputs  *)
(* of A.  b3 spends y, which its branch does not have, so that a           *)
(* reorganisation to it fails after two disconnects and two connects.  c2  *)
(* and c3 leave the a branch at a1, and c4 is refused by ConnectBlock.     *)
(***************************************************************************)
EXTENDS Explore

MCBlock == {"g", "a1", "a2", "a3", "b1", "b2", "b3", "c2", "c3", "c4"}

MCParent == [b \in MCBlock |->
    CASE b = "g"  -> NoBlock
      [] b \in {"a1", "b1"} -> "g"
      [] b \in {"a2", "c2"} -> "a1"
      [] b = "a3" -> "a2"
      [] b = "b2" -> "b1"
      [] b = "b3" -> "b2"
      [] b = "c3" -> "c2"
      [] b = "c4" -> "c3"]

MCHeight == [b \in MCBlock |->
    CASE b = "g" -> 0
      [] b \in {"a1", "b1"} -> 1
      [] b \in {"a2", "b2", "c2"} -> 2
      [] b \in {"a3", "b3", "c3"} -> 3
      [] b = "c4" -> 4]

MCTrust == [b \in MCBlock |->
    CASE b = "g"  -> 1
      [] b = "a1" -> 3  [] b = "a2" -> 5  [] b = "a3" -> 8
      [] b = "b1" -> 2  [] b = "b2" -> 4  [] b = "b3" -> 6
      [] b = "c2" -> 7  [] b = "c3" -> 9  [] b = "c4" -> 10]

MCChain[b \in MCBlock] == IF b = "g" THEN {"g"} ELSE {b} \cup MCChain[MCParent[b]]

MCTx == {"x", "y", "s", "p", "q", "u", "v", "r"}

MCHashOrder == <<"x", "y", "s", "p", "q", "u", "v", "r">>

MCvin == [t \in MCTx |->
    CASE t \in {"x", "y"} -> <<>>
      [] t \in {"s", "u"} -> <<"x">>
      [] t = "p" -> <<"s", "y">>
      [] t = "q" -> <<"p">>
      [] t \in {"v", "r"} -> <<"y">>]

MCSpends == [t \in MCTx |-> ToSet(MCvin[t])]

MCvtx == [b \in MCBlock |->
    CASE b = "a1" -> <<"x", "y">>
      [] b = "a2" -> <<"s">>
      [] b = "a3" -> <<"p", "q">>
      [] b = "b1" -> <<"x">>
      [] b = "b2" -> <<"u">>
      [] b = "b3" -> <<"v">>
      [] b = "c2" -> <<"r">>
      [] OTHER -> <<>>]

MCTxs == [b \in MCBlock |-> ToSet(MCvtx[b])]

MCAddrOf == [t \in MCTx |-> IF t \in {"x", "y", "s", "q"} THEN "A" ELSE "B"]

\* u leaves dust, which the rich list does not track.
MCValue == [t \in MCTx |->
    CASE t \in {"x", "s"} -> 3 [] t \in {"y", "r", "v"} -> 2 [] t = "u" -> 1
      [] t \in {"p", "q"} -> 5]
=============================================================================
