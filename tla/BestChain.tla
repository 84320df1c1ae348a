------------------------------ MODULE BestChain ------------------------------
(***************************************************************************)
(* What the block store promises to the rest of the node: a set of known   *)
(* blocks closed under Parent, the best one among those that can be        *)
(* connected, and the transaction index of exactly that block's chain.     *)
(* The index changes together with the best block, in one step, and only   *)
(* towards more trust.                                                     *)
(***************************************************************************)
EXTENDS Integers

CONSTANTS
    Block, Genesis, Parent, Trust,
    Replay,          \* the transaction index of the branch that ends in a block
    Valid            \* the blocks whose branch can be connected from genesis

VARIABLES
    index,           \* the known blocks
    best,            \* the last block of the best chain
    txindex          \* the transaction index

vars == <<index, best, txindex>>

Init ==
    /\ index = {Genesis}
    /\ best = Genesis
    /\ txindex = Replay[Genesis]

\* A block whose parent is known becomes known.
Receive(b) ==
    /\ b \notin index
    /\ Parent[b] \in index
    /\ index' = index \cup {b}
    /\ UNCHANGED <<best, txindex>>

\* A known valid block of more trust becomes the best one.
Adopt(b) ==
    /\ b \in index \cap Valid
    /\ Trust[b] > Trust[best]
    /\ best' = b
    /\ txindex' = Replay[b]
    /\ UNCHANGED index

Next == \E b \in Block : Receive(b) \/ Adopt(b)

\* The safety part: a node that crashes may not get to a block it has indexed.
SafeSpec == Init /\ [][Next]_vars

\* A known valid block does not stay heavier than the best chain for ever.
Spec == SafeSpec /\ WF_vars(\E b \in Block : Adopt(b))
=============================================================================
