------------------------- MODULE OrphanBlocks_proofs -------------------------
(***************************************************************************)
(* ProcessBlock keeps its orphan structures consistent and leaves no orphan*)
(* behind, for every block tree, every assignment of stakes and every      *)
(* limit on the orphans.                                                   *)
(*                                                                         *)
(* The invariant speaks about the middle of the loop: an orphan that is in *)
(* mapOrphanBlocksByPrev only has been tried and waits for the end of its  *)
(* parent's turn, and an orphan whose parent is indexed is still to be     *)
(* tried, because its parent is further back in vWorkQueue or because it is*)
(* in vTry, unless its parent failed after it was indexed.                 *)
(***************************************************************************)
EXTENDS OrphanBlocks, TLAPS

\* The blocks in vWorkQueue were accepted, and each is there once.
QueueInv ==
    /\ \A i \in 1 .. Len(vWorkQueue) : vWorkQueue[i] \in mapBlockIndex \ setFailed
    /\ \A i, j \in 1 .. Len(vWorkQueue) : vWorkQueue[i] = vWorkQueue[j] => i = j

\* mapOrphanBlocks, mapOrphanBlocksByPrev and vTry during the loop.
MapsInv ==
    /\ mapOrphanBlocks \subseteq mapOrphanBlocksByPrev
    /\ mapOrphanBlocks \cap mapBlockIndex = {}
    /\ vTry \subseteq mapOrphanBlocks
    /\ \A o \in (mapOrphanBlocksByPrev \ mapOrphanBlocks) \cup vTry :
          vWorkQueue # <<>> /\ Parent[o] = vWorkQueue[1]

\* An orphan whose parent is indexed will be tried.
WaitInv ==
    \A o \in mapOrphanBlocks :
        Parent[o] \in mapBlockIndex =>
            \/ Parent[o] \in setFailed
            \/ \E i \in 2 .. Len(vWorkQueue) : vWorkQueue[i] = Parent[o]
            \/ vWorkQueue # <<>> /\ o \in vTry

OrphanInv == TypeOK /\ QueueInv /\ MapsInv /\ WaitInv /\ OrphanStakeIsHeld

-----------------------------------------------------------------------------
\* A block whose parent is missing.
LEMMA HoldOrphanStep ==
    ASSUME OrphanInv, NEW b \in Block, HoldOrphan(b)
    PROVE  OrphanInv'
<1> USE BlockAssumption
<1>1. PICK S \in SUBSET mapOrphanBlocksByPrev :
          /\ Prunable(S)
          /\ mapOrphanBlocks' = (mapOrphanBlocks \ S) \cup {b}
          /\ mapOrphanBlocksByPrev' = (mapOrphanBlocksByPrev \ S) \cup {b}
          /\ setStakeSeenOrphan' = (setStakeSeenOrphan \ {Stake[o] : o \in S}) \cup
                                      ({Stake[b]} \ {NoStake})
  BY DEF HoldOrphan
<1>2. /\ vWorkQueue = <<>>
      /\ b \notin mapBlockIndex /\ Parent[b] \notin mapBlockIndex
      /\ UNCHANGED <<mapBlockIndex, setStakeSeen, vWorkQueue, vTry, setFailed>>
  BY DEF HoldOrphan, Idle, IsNew
<1>3. TypeOK'
  BY <1>1, <1>2 DEF OrphanInv, TypeOK
<1>4. QueueInv'
  BY <1>2 DEF OrphanInv, QueueInv
<1>5. MapsInv'
  BY <1>1, <1>2 DEF OrphanInv, MapsInv
<1>6. WaitInv'
  BY <1>1, <1>2 DEF OrphanInv, WaitInv
<1>7. OrphanStakeIsHeld'
  <2> SUFFICES ASSUME NEW s \in setStakeSeenOrphan'
               PROVE  \E o \in mapOrphanBlocks' : Stake[o] = s
    BY DEF OrphanStakeIsHeld
  <2>1. CASE s = Stake[b]
    BY <1>1, <2>1
  <2>2. CASE s # Stake[b]
    <3>1. s \in setStakeSeenOrphan /\ \A o \in S : Stake[o] # s
      BY <1>1, <2>2
    <3>2. PICK o \in mapOrphanBlocks : Stake[o] = s
      BY <3>1 DEF OrphanInv, OrphanStakeIsHeld
    <3> QED
      BY <1>1, <3>1, <3>2
  <2> QED
    BY <2>1, <2>2
<1> QED
  BY <1>3, <1>4, <1>5, <1>6, <1>7 DEF OrphanInv

\* A block that is accepted: every orphan of it is going to be tried.
LEMMA AcceptBlockStep ==
    ASSUME OrphanInv, NEW b \in Block, AcceptBlock(b)
    PROVE  OrphanInv'
<1> USE BlockAssumption
<1>1. /\ vWorkQueue = <<>> /\ vWorkQueue' = <<b>>
      /\ b \notin mapBlockIndex /\ b \notin mapOrphanBlocks
      /\ mapBlockIndex' = mapBlockIndex \cup {b}
      /\ vTry' = {o \in mapOrphanBlocksByPrev : Parent[o] = b}
      /\ UNCHANGED <<mapOrphanBlocks, mapOrphanBlocksByPrev, setStakeSeenOrphan, setFailed>>
  BY DEF AcceptBlock, Idle, IsNew, IndexBlock, OrphansOf
<1>2. mapOrphanBlocksByPrev = mapOrphanBlocks /\ vTry = {}
  BY <1>1 DEF OrphanInv, MapsInv
<1>3. Len(vWorkQueue') = 1 /\ vWorkQueue'[1] = b /\ vWorkQueue' # <<>> /\ vWorkQueue' \in Seq(Block)
  BY <1>1
<1>4. TypeOK'
  BY <1>1, <1>2, <1>3 DEF OrphanInv, TypeOK
<1>5. QueueInv'
  BY <1>1, <1>3 DEF OrphanInv, TypeOK, QueueInv
<1>6. MapsInv'
  BY <1>1, <1>2, <1>3 DEF OrphanInv, MapsInv
<1>7. WaitInv'
  BY <1>1, <1>2, <1>3 DEF OrphanInv, WaitInv
<1>8. OrphanStakeIsHeld'
  BY <1>1 DEF OrphanInv, OrphanStakeIsHeld
<1> QED
  BY <1>4, <1>5, <1>6, <1>7, <1>8 DEF OrphanInv

\* A block that fails after it was indexed.
LEMMA AcceptBlockFailsStep ==
    ASSUME OrphanInv, NEW b \in Block, AcceptBlockFails(b)
    PROVE  OrphanInv'
<1> USE BlockAssumption
<1>1. /\ vWorkQueue = <<>>
      /\ b \notin mapBlockIndex /\ b \notin mapOrphanBlocks
      /\ mapBlockIndex' = mapBlockIndex \cup {b}
      /\ setFailed' = setFailed \cup {b}
      /\ UNCHANGED <<mapOrphanBlocks, mapOrphanBlocksByPrev, setStakeSeenOrphan, vWorkQueue, vTry>>
  BY DEF AcceptBlockFails, Idle, IsNew, IndexBlock
<1>2. TypeOK'
  BY <1>1 DEF OrphanInv, TypeOK
<1>3. QueueInv'
  BY <1>1 DEF OrphanInv, QueueInv
<1>4. MapsInv'
  BY <1>1 DEF OrphanInv, MapsInv
<1>5. WaitInv'
  BY <1>1 DEF OrphanInv, WaitInv
<1>6. OrphanStakeIsHeld'
  BY <1>1 DEF OrphanInv, OrphanStakeIsHeld
<1> QED
  BY <1>2, <1>3, <1>4, <1>5, <1>6 DEF OrphanInv

\* One orphan of the loop, with each of the three outcomes of AcceptBlock.
LEMMA TryOrphanStep ==
    ASSUME OrphanInv, NEW o \in Block, TryOrphan(o)
    PROVE  OrphanInv'
<1> USE BlockAssumption
<1>1. /\ o \in vTry /\ o \in mapOrphanBlocks /\ o \notin mapBlockIndex
      /\ vWorkQueue # <<>> /\ Parent[o] = vWorkQueue[1]
      /\ vTry' = vTry \ {o}
      /\ mapOrphanBlocks' = mapOrphanBlocks \ {o}
      /\ setStakeSeenOrphan' = setStakeSeenOrphan \ {Stake[o]}
      /\ mapOrphanBlocksByPrev' = mapOrphanBlocksByPrev
  BY DEF TryOrphan, OrphanInv, MapsInv
<1>2. /\ vWorkQueue \in Seq(Block) /\ Len(vWorkQueue) \in Nat /\ Len(vWorkQueue) >= 1
  BY <1>1 DEF OrphanInv, TypeOK
<1>3. \/ UNCHANGED <<mapBlockIndex, setFailed, vWorkQueue>>
      \/ /\ mapBlockIndex' = mapBlockIndex \cup {o}
         /\ setFailed' = setFailed \cup {o} /\ vWorkQueue' = vWorkQueue
      \/ /\ mapBlockIndex' = mapBlockIndex \cup {o}
         /\ setFailed' = setFailed /\ vWorkQueue' = Append(vWorkQueue, o)
  BY DEF TryOrphan, IndexBlock
<1>4. /\ Len(vWorkQueue') \in Nat /\ Len(vWorkQueue') >= Len(vWorkQueue)
      /\ vWorkQueue' \in Seq(Block)
      /\ \A i \in 1 .. Len(vWorkQueue) : vWorkQueue'[i] = vWorkQueue[i]
      /\ \A i \in (Len(vWorkQueue) + 1) .. Len(vWorkQueue') :
            i = Len(vWorkQueue) + 1 /\ vWorkQueue'[i] = o
      /\ Len(vWorkQueue') > Len(vWorkQueue) =>
            mapBlockIndex' = mapBlockIndex \cup {o} /\ setFailed' = setFailed
      /\ o \in mapBlockIndex' =>
            \/ o \in setFailed'
            \/ /\ Len(vWorkQueue') = Len(vWorkQueue) + 1
               /\ vWorkQueue'[Len(vWorkQueue) + 1] = o
  BY <1>1, <1>2, <1>3
<1>5. /\ mapBlockIndex' \in {mapBlockIndex, mapBlockIndex \cup {o}}
      /\ setFailed' \in {setFailed, setFailed \cup {o}}
      /\ setFailed' = setFailed \cup {o} => mapBlockIndex' = mapBlockIndex \cup {o}
  BY <1>1, <1>3 DEF OrphanInv, TypeOK
<1>6. vWorkQueue' # <<>> /\ vWorkQueue'[1] = vWorkQueue[1]
  BY <1>2, <1>4
<1>7. TypeOK'
  BY <1>1, <1>4, <1>5 DEF OrphanInv, TypeOK
<1>8. QueueInv'
  <2>1. ASSUME NEW i \in 1 .. Len(vWorkQueue')
        PROVE  /\ vWorkQueue'[i] \in mapBlockIndex' \ setFailed'
               /\ i \in 1 .. Len(vWorkQueue) => vWorkQueue'[i] \in mapBlockIndex
    <3>1. CASE i \in 1 .. Len(vWorkQueue)
      <4>1. vWorkQueue'[i] = vWorkQueue[i] /\ vWorkQueue[i] \in mapBlockIndex \ setFailed
        BY <1>4, <3>1 DEF OrphanInv, QueueInv
      <4> QED
        BY <1>1, <1>5, <4>1
    <3>2. CASE i \notin 1 .. Len(vWorkQueue)
      <4>1. i = Len(vWorkQueue) + 1 /\ vWorkQueue'[i] = o /\ Len(vWorkQueue') > Len(vWorkQueue)
        BY <1>2, <1>4, <3>2
      <4> QED
        BY <1>1, <1>2, <1>4, <4>1 DEF OrphanInv, TypeOK
    <3> QED
      BY <3>1, <3>2
  <2>2. ASSUME NEW i \in 1 .. Len(vWorkQueue'), NEW j \in 1 .. Len(vWorkQueue'),
               vWorkQueue'[i] = vWorkQueue'[j]
        PROVE  i = j
    <3>1. CASE i \in 1 .. Len(vWorkQueue) /\ j \in 1 .. Len(vWorkQueue)
      BY <1>4, <2>2, <3>1 DEF OrphanInv, QueueInv
    <3>2. CASE i \in 1 .. Len(vWorkQueue) /\ j \notin 1 .. Len(vWorkQueue)
      BY <1>1, <1>2, <1>4, <2>1, <2>2, <3>2
    <3>3. CASE i \notin 1 .. Len(vWorkQueue) /\ j \in 1 .. Len(vWorkQueue)
      BY <1>1, <1>2, <1>4, <2>1, <2>2, <3>3
    <3>4. CASE i \notin 1 .. Len(vWorkQueue) /\ j \notin 1 .. Len(vWorkQueue)
      BY <1>2, <1>4, <3>4
    <3> QED
      BY <3>1, <3>2, <3>3, <3>4
  <2> QED
    BY <2>1, <2>2 DEF QueueInv
<1>9. MapsInv'
  BY <1>1, <1>5, <1>6 DEF OrphanInv, MapsInv
<1>10. WaitInv'
  <2> SUFFICES ASSUME NEW p \in mapOrphanBlocks', Parent[p] \in mapBlockIndex'
               PROVE  \/ Parent[p] \in setFailed'
                      \/ \E i \in 2 .. Len(vWorkQueue') : vWorkQueue'[i] = Parent[p]
                      \/ vWorkQueue' # <<>> /\ p \in vTry'
    BY DEF WaitInv
  <2>1. CASE Parent[p] = o
    BY <1>2, <1>4, <2>1
  <2>2. CASE Parent[p] # o
    <3>1. p \in mapOrphanBlocks /\ p # o /\ Parent[p] \in mapBlockIndex
      BY <1>1, <1>5, <2>2
    <3>2. \/ Parent[p] \in setFailed
          \/ \E i \in 2 .. Len(vWorkQueue) : vWorkQueue[i] = Parent[p]
          \/ p \in vTry
      BY <3>1 DEF OrphanInv, WaitInv
    <3>3. CASE \E i \in 2 .. Len(vWorkQueue) : vWorkQueue[i] = Parent[p]
      BY <1>2, <1>4, <3>3
    <3> QED
      BY <1>1, <1>5, <1>6, <3>1, <3>2, <3>3
  <2> QED
    BY <2>1, <2>2
<1>11. OrphanStakeIsHeld'
  BY <1>1 DEF OrphanInv, OrphanStakeIsHeld
<1> QED
  BY <1>7, <1>8, <1>9, <1>10, <1>11 DEF OrphanInv

\* The end of a turn: no orphan of the first block is left, so what is erased
\* from mapOrphanBlocksByPrev are the orphans that were tried.
LEMMA NextInQueueStep ==
    ASSUME OrphanInv, NextInQueue
    PROVE  OrphanInv'
<1> USE BlockAssumption
<1> DEFINE h == vWorkQueue[1]
           n == Len(vWorkQueue)
<1>1. /\ vWorkQueue # <<>> /\ vTry = {}
      /\ vWorkQueue' = Tail(vWorkQueue)
      /\ UNCHANGED <<mapBlockIndex, mapOrphanBlocks, setStakeSeenOrphan, setFailed>>
  BY DEF NextInQueue
<1>2. /\ vWorkQueue \in Seq(Block) /\ n \in Nat /\ n >= 1 /\ Head(vWorkQueue) = h
  BY <1>1 DEF OrphanInv, TypeOK
<1>3. /\ vWorkQueue' \in Seq(Block) /\ Len(vWorkQueue') = n - 1
      /\ \A i \in 1 .. (n - 1) : vWorkQueue'[i] = vWorkQueue[i + 1]
      /\ vWorkQueue' # <<>> <=> n >= 2
  BY <1>1, <1>2
<1>4. mapOrphanBlocksByPrev' = {o \in mapOrphanBlocksByPrev : Parent[o] # h}
  BY <1>2 DEF NextInQueue, OrphansOf
<1>5. \A o \in mapOrphanBlocks : Parent[o] # h
  <2> SUFFICES ASSUME NEW o \in mapOrphanBlocks, Parent[o] = h
               PROVE  FALSE
    OBVIOUS
  <2>1. h \in mapBlockIndex \ setFailed
    BY <1>2 DEF OrphanInv, QueueInv
  <2>2. PICK i \in 2 .. n : vWorkQueue[i] = h
    BY <1>1, <2>1 DEF OrphanInv, WaitInv
  <2>3. i = 1
    <3>1. i \in 1 .. n /\ 1 \in 1 .. n
      BY <1>2
    <3> QED
      BY <2>2, <3>1 DEF OrphanInv, QueueInv
  <2> QED
    BY <2>3
<1>6. mapOrphanBlocksByPrev' = mapOrphanBlocks
  BY <1>4, <1>5 DEF OrphanInv, MapsInv
<1>7. vTry' = IF n >= 2 THEN {o \in mapOrphanBlocks : Parent[o] = vWorkQueue[2]} ELSE {}
  <2>1. vTry' = IF vWorkQueue' = <<>> THEN {}
                ELSE {o \in mapOrphanBlocksByPrev' : Parent[o] = vWorkQueue[2]}
    BY <1>1 DEF NextInQueue
  <2> QED
    BY <1>3, <1>6, <2>1
<1>8. TypeOK'
  BY <1>1, <1>3, <1>6, <1>7 DEF OrphanInv, TypeOK
<1>9. QueueInv'
  <2>1. ASSUME NEW i \in 1 .. Len(vWorkQueue')
        PROVE  /\ i + 1 \in 1 .. n /\ vWorkQueue'[i] = vWorkQueue[i + 1]
    BY <1>2, <1>3
  <2>2. \A i \in 1 .. Len(vWorkQueue') : vWorkQueue'[i] \in mapBlockIndex' \ setFailed'
    BY <1>1, <2>1 DEF OrphanInv, QueueInv
  <2>3. ASSUME NEW i \in 1 .. Len(vWorkQueue'), NEW j \in 1 .. Len(vWorkQueue'),
               vWorkQueue'[i] = vWorkQueue'[j]
        PROVE  i = j
    <3>1. i + 1 = j + 1
      BY <2>1, <2>3 DEF OrphanInv, QueueInv
    <3> QED
      BY <1>3, <3>1
  <2> QED
    BY <2>2, <2>3 DEF QueueInv
<1>10. MapsInv'
  <2>1. \A o \in vTry' : vWorkQueue' # <<>> /\ Parent[o] = vWorkQueue'[1]
    BY <1>2, <1>3, <1>7
  <2> QED
    BY <1>1, <1>6, <1>7, <2>1 DEF OrphanInv, MapsInv
<1>11. WaitInv'
  <2> SUFFICES ASSUME NEW o \in mapOrphanBlocks', Parent[o] \in mapBlockIndex'
               PROVE  \/ Parent[o] \in setFailed'
                      \/ \E i \in 2 .. Len(vWorkQueue') : vWorkQueue'[i] = Parent[o]
                      \/ vWorkQueue' # <<>> /\ o \in vTry'
    BY DEF WaitInv
  <2>1. \/ Parent[o] \in setFailed
        \/ \E i \in 2 .. n : vWorkQueue[i] = Parent[o]
    BY <1>1 DEF OrphanInv, WaitInv
  <2>2. CASE \E i \in 2 .. n : vWorkQueue[i] = Parent[o]
    <3>1. PICK i \in 2 .. n : vWorkQueue[i] = Parent[o]
      BY <2>2
    <3>2. CASE i = 2
      BY <1>1, <1>2, <1>3, <1>7, <3>1, <3>2
    <3>3. CASE i # 2
      <4>1. i - 1 \in 2 .. (n - 1) /\ vWorkQueue'[i - 1] = vWorkQueue[i]
        BY <1>2, <1>3, <3>3
      <4> QED
        BY <1>3, <3>1, <4>1
    <3> QED
      BY <3>2, <3>3
  <2> QED
    BY <1>1, <2>1, <2>2
<1>12. OrphanStakeIsHeld'
  BY <1>1 DEF OrphanInv, OrphanStakeIsHeld
<1> QED
  BY <1>8, <1>9, <1>10, <1>11, <1>12 DEF OrphanInv

\* A restart forgets the orphans.
LEMMA RestartStep ==
    ASSUME OrphanInv, Restart
    PROVE  OrphanInv'
<1>1. /\ mapOrphanBlocks' = {} /\ mapOrphanBlocksByPrev' = {}
      /\ setStakeSeenOrphan' = {} /\ vWorkQueue' = <<>> /\ vTry' = {}
      /\ UNCHANGED <<mapBlockIndex, setFailed>>
  BY DEF Restart
<1> QED
  BY <1>1 DEF OrphanInv, TypeOK, QueueInv, MapsInv, WaitInv, OrphanStakeIsHeld

-----------------------------------------------------------------------------
LEMMA OrphanInvInit == Init => OrphanInv
  BY BlockAssumption
  DEF Init, OrphanInv, TypeOK, QueueInv, MapsInv, WaitInv, OrphanStakeIsHeld

LEMMA OrphanInvStep ==
    ASSUME OrphanInv, [Next]_vars
    PROVE  OrphanInv'
<1>1. CASE \E b \in Block : ProcessBlock(b)
  BY <1>1, HoldOrphanStep, AcceptBlockStep, AcceptBlockFailsStep DEF ProcessBlock
<1>2. CASE ProcessOrphans
  BY <1>2, TryOrphanStep, NextInQueueStep DEF ProcessOrphans
<1>3. CASE Restart
  BY <1>3, RestartStep
<1>4. CASE UNCHANGED vars
  BY <1>4 DEF vars, OrphanInv, TypeOK, QueueInv, MapsInv, WaitInv, OrphanStakeIsHeld
<1> QED
  BY <1>1, <1>2, <1>3, <1>4 DEF Next

\* Between two calls of ProcessBlock the orphan maps match and no orphan waits
\* for a block that was accepted; at any time every remembered orphan stake has
\* its orphan.
THEOREM OrphanSafety ==
    Spec => [](TypeOK /\ OrphanMapsMatch /\ NoOrphanLeftBehind /\ OrphanStakeIsHeld)
<1>1. OrphanInv => TypeOK /\ OrphanMapsMatch /\ NoOrphanLeftBehind /\ OrphanStakeIsHeld
  <2> SUFFICES ASSUME OrphanInv
               PROVE  TypeOK /\ OrphanMapsMatch /\ NoOrphanLeftBehind /\ OrphanStakeIsHeld
    OBVIOUS
  <2>1. OrphanMapsMatch
    BY DEF OrphanInv, MapsInv, OrphanMapsMatch, Idle
  <2>2. NoOrphanLeftBehind
    BY DEF OrphanInv, WaitInv, NoOrphanLeftBehind, Idle
  <2> QED
    BY <2>1, <2>2 DEF OrphanInv
<1> QED
  BY <1>1, OrphanInvInit, OrphanInvStep, PTL DEF Spec

\* The stakes that a step may forget.
Remembered ==
    \A o \in mapOrphanBlocks' :
        IsProofOfStake(o) /\ Stake[o] \notin setStakeSeenOrphan' =>
            /\ o \in mapOrphanBlocks
            /\ \/ Stake[o] \notin setStakeSeenOrphan
               \/ \E p \in mapOrphanBlocks \ mapOrphanBlocks' : Stake[p] = Stake[o]

LEMMA RememberedStep ==
    ASSUME OrphanInv, Next
    PROVE  Remembered
<1> USE DEF Remembered
<1>1. ASSUME NEW b \in Block, HoldOrphan(b) PROVE Remembered
  <2>1. PICK S \in SUBSET mapOrphanBlocksByPrev :
            /\ mapOrphanBlocks' = (mapOrphanBlocks \ S) \cup {b}
            /\ setStakeSeenOrphan' = (setStakeSeenOrphan \ {Stake[o] : o \in S}) \cup
                                        ({Stake[b]} \ {NoStake})
    BY <1>1 DEF HoldOrphan
  <2>2. /\ mapOrphanBlocks = mapOrphanBlocksByPrev
        /\ b \notin mapOrphanBlocks
    BY <1>1 DEF HoldOrphan, Idle, IsNew, OrphanInv, MapsInv
  <2> QED
    BY <2>1, <2>2 DEF IsProofOfStake
<1>2. ASSUME NEW o \in Block, TryOrphan(o) PROVE Remembered
  <2>1. /\ o \in mapOrphanBlocks /\ mapOrphanBlocks' = mapOrphanBlocks \ {o}
        /\ setStakeSeenOrphan' = setStakeSeenOrphan \ {Stake[o]}
    BY <1>2 DEF TryOrphan, OrphanInv, MapsInv
  <2> QED
    BY <2>1
<1>3. CASE UNCHANGED <<mapOrphanBlocks, setStakeSeenOrphan>>
  BY <1>3
<1>4. CASE Restart
  BY <1>4 DEF Restart
<1> QED
  BY <1>1, <1>2, <1>3, <1>4
  DEF Next, ProcessBlock, ProcessOrphans, AcceptBlock, AcceptBlockFails, NextInQueue

\* Whatever is pruned for a new orphan, and whatever becomes of the orphans that are
\* tried: as long as an orphan is held its stake is forgotten only together with another
\* orphan that has the same stake.
THEOREM StakesAreRemembered == Spec => OnlySharedStakeIsForgotten
<1>1. OrphanInv /\ [Next]_vars => [Remembered]_vars
  BY RememberedStep
<1> QED
  BY <1>1, OrphanInvInit, OrphanInvStep, PTL DEF Spec, OnlySharedStakeIsForgotten, Remembered
=============================================================================
