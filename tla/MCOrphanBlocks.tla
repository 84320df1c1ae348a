-------------------------- MODULE MCOrphanBlocks --------------------------
(***************************************************************************)
(* Two branches from genesis, of three blocks each, and one more block on  *)
(* a1.  a2, b2 and c2 claim the same stake, a3 another one, b3 none.       *)
(***************************************************************************)
EXTENDS OrphanBlocks

MCBlock == {"g", "a1", "a2", "a3", "b1", "b2", "b3", "c2"}

MCParent == [b \in MCBlock |->
    CASE b = "g" -> NoBlock
      [] b \in {"a1", "b1"} -> "g"
      [] b \in {"a2", "c2"} -> "a1"
      [] b = "a3" -> "a2"
      [] b = "b2" -> "b1"
      [] b = "b3" -> "b2"]

MCStake == [b \in MCBlock |->
    CASE b \in {"a2", "b2", "c2"} -> "s"
      [] b = "a3" -> "r"
      [] OTHER -> NoStake]
=============================================================================
