--------------------------- MODULE ChainRefinement ---------------------------
(***************************************************************************)
(* ChainState implements BestChain: what LevelDB holds between two writes  *)
(* is the abstract state.  Everything between AddToBlockIndex and the      *)
(* TxnCommit of SetBestChainInner or Reorganize, and everything done to    *)
(* memory, is a stutter.                                                   *)
(***************************************************************************)
EXTENDS ChainState

Replay == [b \in Block |-> IndexOf(b)]
Valid  == {b \in Block : Sound(b)}

BC == INSTANCE BestChain WITH index <- diskIndex, best <- diskBest, txindex <- diskTx

\* Without crashes AddToBlockIndex, SetBestChain and Reorganize implement the
\* abstract block store, its liveness included: every commit to LevelDB is one
\* whole move to a known valid block of more trust, and a known valid block does
\* not stay heavier than hashBestChain for ever.
ImplementsBestChain == BC!Spec

\* From a state in which memory, records and index agree, every step of the node,
\* a crash and LoadBlockIndex included, is a step of the abstract block store:
\* no interrupted or failed reorganisation shows on disk.
StepsImplementBestChain == [][ChainInv => [BC!Next]_(BC!vars)]_vars

\* Of everything the node does, a crash at any point included, the only step that
\* can end the agreement of memory, block records and transaction index is the
\* failure of a further block after Reorganize has committed (SetBestChain's
\* "errors now are not fatal").
OnlyNonFatalFailureBreaks == [][ChainInv => ChainInv' \/ SecondaryFails]_vars
=============================================================================
