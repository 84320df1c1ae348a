---------------------------- MODULE AskFor_proofs ----------------------------
(***************************************************************************)
(* That mapAlreadyAskedFor and the queues mapAskFor stay in step, for any  *)
(* number of peers and objects, any retry time and any bound on requests.  *)
(***************************************************************************)
EXTENDS AskFor, TLAPS

\* Every object has a time, and every peer a queue.
TimesInv ==
    /\ mapAlreadyAskedFor \in [Inv -> Int]
    /\ mapAskFor = [p \in Peer |-> mapAskFor[p]]

LEMMA TimesInit == Init => TimesInv
  BY AskForAssumption DEF Init, TimesInv

LEMMA RequestTimeType ==
    ASSUME TimesInv, NEW i \in Inv
    PROVE  RequestTime(i) \in Int
  BY AskForAssumption DEF TimesInv, RequestTime, Latest

LEMMA TimesStep ==
    ASSUME TimesInv, [Next]_vars
    PROVE  TimesInv'
<1>0. -Retry \in Int /\ \A i \in Inv : RequestTime(i) \in Int
  BY RequestTimeType, AskForAssumption
<1>1. CASE UNCHANGED <<mapAlreadyAskedFor, mapAskFor>>
  BY <1>1 DEF TimesInv
<1>2. ASSUME NEW p \in Peer, NEW S, AskForAll(p, S) PROVE TimesInv'
  BY <1>0, <1>2 DEF AskForAll, TimesInv
<1>3. CASE Tick
  BY <1>0, <1>3 DEF Tick, Latest, TimesInv
<1>4. ASSUME NEW p \in Peer, NEW i \in Inv, ReceiveInv(p, i) PROVE TimesInv'
  BY <1>1, <1>2, <1>4 DEF ReceiveInv
<1>5. ASSUME NEW p \in Peer, AnswerGetBlocks(p) PROVE TimesInv'
  BY <1>2, <1>5 DEF AnswerGetBlocks
<1>6. ASSUME NEW p \in Peer, SendMessages(p) PROVE TimesInv'
  BY <1>6 DEF SendMessages, TimesInv
<1>7. ASSUME NEW p \in Peer, NEW i \in Inv, Answer(p, i) PROVE TimesInv'
  <2>1. CASE ReceiveAgain(p, i) \/ ReceiveOrphanTx(p, i) \/ ReceiveDuplicateStake(p, i)
    BY <1>1, <2>1 DEF ReceiveAgain, ReceiveOrphanTx, ReceiveDuplicateStake
  <2>2. CASE ReceiveTx(p, i) \/ ReceiveBlock(p, i)
    BY <1>0, <2>2 DEF ReceiveTx, ReceiveBlock, Forget, TimesInv
  <2>3. CASE ReceiveOrphanBlock(p, i)
    <3> DEFINE w == Wanted(i)
    <3>1. /\ mapAskFor' = [mapAskFor EXCEPT ![p] = @ \cup {<<w, RequestTime(w)>>}]
          /\ mapAlreadyAskedFor' =
                [mapAlreadyAskedFor EXCEPT ![w] = RequestTime(w), ![i] = -Retry]
      BY <2>3 DEF ReceiveOrphanBlock
    <3> HIDE DEF w
    <3>2. mapAlreadyAskedFor' \in [Inv -> Int]
      BY <1>0, <3>1 DEF TimesInv
    <3> QED BY <3>1, <3>2 DEF TimesInv
  <2> QED BY <1>7, <2>1, <2>2, <2>3 DEF Answer
<1>8. ASSUME NEW p \in Peer, Disconnect(p) PROVE TimesInv'
  BY <1>8 DEF Disconnect, TimesInv
<1>9. ASSUME NEW o \in Inv, EvictOrphan(o) PROVE TimesInv'
  BY <1>1, <1>9 DEF EvictOrphan
<1>10. CASE UNCHANGED vars
  BY <1>1, <1>10 DEF vars
<1>11. QED
  BY <1>3, <1>4, <1>5, <1>6, <1>7, <1>8, <1>9, <1>10 DEF Next

\* The time of i stays and no queue loses an entry for it.
LEMMA QueuedStays ==
    ASSUME NEW i \in Inv, mapAlreadyAskedFor'[i] = mapAlreadyAskedFor[i],
           \A p \in Peer : <<i, mapAlreadyAskedFor[i]>> \in mapAskFor[p] =>
                               <<i, mapAlreadyAskedFor[i]>> \in mapAskFor'[p],
           PutOffInVain(i)'
    PROVE  PutOffInVain(i)
  BY DEF PutOffInVain

LEMMA PutOffStep ==
    ASSUME TimesInv, [Next]_vars, NEW i \in Inv, PutOffInVain(i)'
    PROVE  PutOffInVain(i) \/ \E p \in Peer : Disconnect(p)
<1>0. /\ -Retry \in Int /\ -Retry < 0 /\ \A j \in Inv : mapAlreadyAskedFor[j] \in Int
  BY AskForAssumption DEF TimesInv
<1>1. /\ mapAlreadyAskedFor'[i] > 0
      /\ \A p \in Peer : <<i, mapAlreadyAskedFor'[i]>> \notin mapAskFor'[p]
  BY DEF PutOffInVain
<1>2. ASSUME UNCHANGED <<mapAlreadyAskedFor, mapAskFor>> PROVE PutOffInVain(i)
  BY <1>2, QueuedStays
<1>3. ASSUME NEW p \in Peer, NEW S, AskForAll(p, S) PROVE PutOffInVain(i)
  <2>1. /\ mapAlreadyAskedFor'[i] = IF i \in S THEN RequestTime(i) ELSE mapAlreadyAskedFor[i]
        /\ mapAskFor'[p] = mapAskFor[p] \cup {<<j, RequestTime(j)>> : j \in S}
        /\ \A q \in Peer : mapAskFor[q] \subseteq mapAskFor'[q]
    BY <1>3 DEF AskForAll, TimesInv
  <2>2. i \notin S
    BY <1>1, <2>1
  <2> QED BY <2>1, <2>2, QueuedStays
<1>4. CASE Tick
  <2>1. /\ mapAlreadyAskedFor'[i] = Latest(mapAlreadyAskedFor[i] - 1, -Retry)
        /\ \A p \in Peer : mapAskFor'[p] = {<<e[1], Latest(e[2] - 1, 0)>> : e \in mapAskFor[p]}
    BY <1>4 DEF Tick
  <2>2. mapAlreadyAskedFor'[i] = mapAlreadyAskedFor[i] - 1 /\ mapAlreadyAskedFor[i] > 1
    BY <1>0, <1>1, <2>1 DEF Latest
  <2>3. ASSUME NEW p \in Peer, <<i, mapAlreadyAskedFor[i]>> \in mapAskFor[p]
        PROVE  <<i, mapAlreadyAskedFor'[i]>> \in mapAskFor'[p]
    <3> DEFINE e == <<i, mapAlreadyAskedFor[i]>>
    <3>1. Latest(e[2] - 1, 0) = mapAlreadyAskedFor'[i] /\ e[1] = i
      BY <1>0, <2>2 DEF Latest
    <3> QED BY <2>1, <2>3, <3>1
  <2>4. mapAlreadyAskedFor[i] > 0
    BY <1>0, <2>2
  <2>5. \A p \in Peer : <<i, mapAlreadyAskedFor[i]>> \notin mapAskFor[p]
    BY <1>1, <2>3
  <2> QED BY <2>4, <2>5 DEF PutOffInVain
<1>5. ASSUME NEW p \in Peer, NEW j \in Inv, ReceiveInv(p, j) PROVE PutOffInVain(i)
  BY <1>2, <1>3, <1>5 DEF ReceiveInv
<1>6. ASSUME NEW p \in Peer, AnswerGetBlocks(p) PROVE PutOffInVain(i)
  BY <1>3, <1>6 DEF AnswerGetBlocks
<1>7. ASSUME NEW p \in Peer, SendMessages(p) PROVE PutOffInVain(i)
  <2>1. /\ mapAlreadyAskedFor'[i] \in {0, mapAlreadyAskedFor[i]}
        /\ \A q \in Peer : mapAskFor'[q] = mapAskFor[q] \/ mapAskFor'[q] = mapAskFor[q] \ Due(q)
    BY <1>7 DEF SendMessages, TimesInv
  <2>2. mapAlreadyAskedFor'[i] = mapAlreadyAskedFor[i] /\ mapAlreadyAskedFor[i] > 0
    BY <1>1, <2>1
  <2>3. \A q \in Peer : <<i, mapAlreadyAskedFor[i]>> \notin Due(q)
    BY <1>0, <2>2 DEF Due
  <2> QED BY <2>1, <2>2, <2>3, QueuedStays
<1>8. ASSUME NEW S, Forget(S), UNCHANGED mapAskFor PROVE PutOffInVain(i)
  <2>1. mapAlreadyAskedFor'[i] = mapAlreadyAskedFor[i]
    BY <1>0, <1>1, <1>8 DEF Forget
  <2> QED BY <1>8, <2>1, QueuedStays
<1>9. ASSUME NEW p \in Peer, NEW j \in Inv, ReceiveOrphanBlock(p, j) PROVE PutOffInVain(i)
  <2> DEFINE w == Wanted(j)
  <2>1. /\ mapAskFor' = [mapAskFor EXCEPT ![p] = @ \cup {<<w, RequestTime(w)>>}]
        /\ mapAlreadyAskedFor' =
              [mapAlreadyAskedFor EXCEPT ![w] = RequestTime(w), ![j] = -Retry]
    BY <1>9 DEF ReceiveOrphanBlock
  <2> HIDE DEF w
  <2>2. /\ <<w, RequestTime(w)>> \in mapAskFor'[p]
        /\ \A q \in Peer : mapAskFor[q] \subseteq mapAskFor'[q]
    BY <2>1 DEF TimesInv
  <2>3. i # j
    BY <1>0, <1>1, <2>1 DEF TimesInv
  <2>4. i # w
    BY <1>1, <2>1, <2>2, <2>3 DEF TimesInv
  <2>5. mapAlreadyAskedFor'[i] = mapAlreadyAskedFor[i]
    BY <2>1, <2>3, <2>4 DEF TimesInv
  <2> QED BY <2>2, <2>5, QueuedStays
<1>10. ASSUME NEW p \in Peer, NEW j \in Inv, Answer(p, j) PROVE PutOffInVain(i)
  BY <1>2, <1>8, <1>9, <1>10
     DEF Answer, ReceiveAgain, ReceiveTx, ReceiveOrphanTx, ReceiveDuplicateStake, ReceiveBlock
<1>11. ASSUME NEW o \in Inv, EvictOrphan(o) PROVE PutOffInVain(i)
  BY <1>2, <1>11 DEF EvictOrphan
<1>12. CASE UNCHANGED vars
  BY <1>2, <1>12 DEF vars
<1>13. QED
  BY <1>4, <1>5, <1>6, <1>7, <1>10, <1>11, <1>12 DEF Next

\* AskFor, SendMessages and the handlers keep the shared times and the queues of all
\* peers in step: only a peer that disconnects makes the others wait for nothing.
THEOREM WaitsAreForRequests == Spec => OnlyDisconnectPutsOffInVain
<1>1. TimesInv /\ [Next]_vars =>
        [\A i \in Inv : PutOffInVain(i)' =>
            PutOffInVain(i) \/ \E p \in Peer : Disconnect(p)]_vars
  BY PutOffStep
<1>2. QED
  BY <1>1, TimesInit, TimesStep, PTL DEF Spec, OnlyDisconnectPutsOffInVain
=============================================================================
