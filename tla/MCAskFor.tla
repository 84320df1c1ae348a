------------------------------ MODULE MCAskFor ------------------------------
(***************************************************************************)
(* An honest peer h and another, q.  The blocks b1 and c1 were made with   *)
(* one stake, b2 follows b1, and the transaction t spends an output of b1. *)
(* Both have b1 and b2, only q has c1, and only h has t.                   *)
(***************************************************************************)
EXTENDS AskFor

MCBlock == {"b1", "b2", "c1"}
MCTx == {"t"}

MCNeeds == [i \in MCBlock \cup MCTx |-> IF i \in {"b1", "c1"} THEN Nothing ELSE "b1"]

MCHas == [p \in {"h", "q"} |-> IF p = "h" THEN {"b1", "b2", "t"} ELSE {"b1", "b2", "c1"}]

MCStake == [b \in MCBlock |-> IF b = "b2" THEN NoStake ELSE "s"]

MCMaxAsks == [i \in MCBlock \cup MCTx |-> IF i = "b1" THEN 2 ELSE 1]
=============================================================================
