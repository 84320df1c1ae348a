--------------------------- MODULE Explore_proofs ---------------------------
(***************************************************************************)
(* The explore index beside the chain: the counts of addresses by balance  *)
(* follow the sets on disk; disconnecting undoes connecting, record for    *)
(* record, so that the index is the one built from nothing along the chain;*)
(* and that one agrees with the transaction index.                         *)
(***************************************************************************)
EXTENDS Explore, ChainState_proofs

-----------------------------------------------------------------------------
(* The loops over inputs and transactions.                                 *)

\* What round k of each of the four loops does to v, for the transaction or block c.
Round(loop, c, v, k) ==
    CASE loop = "connect inputs"    -> ConnectInput(v, c, vin[c][k])
      [] loop = "disconnect inputs" -> DisconnectInput(v, c, vin[c][Len(vin[c]) + 1 - k])
      [] loop = "connect txs"       -> AfterTx(v.map, ConnectExploreTx(v.db, vtx[c][k]))
      [] loop = "disconnect txs"    ->
             AfterTx(v.map, DisconnectExploreTx(v.db, vtx[c][Len(vtx[c]) + 1 - k]))

\* f[k] is what k rounds make of v.
IsLoop(f, loop, c, v, n) ==
    f = [k \in 0..n |-> IF k = 0 THEN v ELSE Round(loop, c, f[k - 1], k)]

LEMMA LoopExists ==
    ASSUME NEW n \in Nat, NEW loop, NEW c, NEW v
    PROVE  \E f : IsLoop(f, loop, c, v, n)
<1> DEFINE G == {m \in 0..n : \E f : IsLoop(f, loop, c, v, m)}
<1>1. 0 \in G
  <2> DEFINE f == [k \in 0..0 |-> v]
  <2>1. IsLoop(f, loop, c, v, 0)
    BY DEF IsLoop
  <2> HIDE DEF f
  <2> QED BY <2>1
<1>2. ASSUME NEW m \in 1..n, m - 1 \in G PROVE m \in G
  <2>1. PICK g : IsLoop(g, loop, c, v, m - 1)
    BY <1>2
  <2>2. \A k \in 0..(m - 1) : g[k] = IF k = 0 THEN v ELSE Round(loop, c, g[k - 1], k)
    BY <2>1 DEF IsLoop
  <2> DEFINE f == [k \in 0..m |-> IF k = 0 THEN v ELSE Round(loop, c, g[k - 1], k)]
  <2>3. \A k \in 0..(m - 1) : f[k] = g[k]
    BY <2>2
  <2>4. \A k \in 0..m : k # 0 => k - 1 \in 0..(m - 1) /\ f[k - 1] = g[k - 1]
    <3> HIDE DEF f
    <3> QED BY <2>3
  <2>5. IsLoop(f, loop, c, v, m)
    BY <2>4 DEF IsLoop
  <2> HIDE DEF f
  <2> QED BY <2>5
<1>3. \A m \in 0..n : m \in G
  <2> HIDE DEF G
  <2> QED BY <1>1, <1>2, Counting
<1>4. QED
  BY <1>3

\* A loop read round by round.
Rounds(f, loop, c, v, n) ==
    /\ f[0] = v
    /\ \A k \in 1..n : f[k] = Round(loop, c, f[k - 1], k)

LEMMA LoopRounds ==
    ASSUME NEW n \in Nat, NEW f, NEW loop, NEW c, NEW v, IsLoop(f, loop, c, v, n)
    PROVE  Rounds(f, loop, c, v, n)
BY DEF IsLoop, Rounds

LEMMA InputsUnfold ==
    ASSUME NEW e, NEW s, Len(vin[s]) \in Nat
    PROVE  /\ Rounds(InputsConnected(e, s), "connect inputs", s, e, Len(vin[s]))
           /\ Rounds(InputsDisconnected(e, s), "disconnect inputs", s, e, Len(vin[s]))
<1> DEFINE n == Len(vin[s])
<1>1. IsLoop(InputsConnected(e, s), "connect inputs", s, e, n)
  <2>1. InputsConnected(e, s) = CHOOSE f : IsLoop(f, "connect inputs", s, e, n)
    BY DEF InputsConnected, IsLoop, Round
  <2> QED BY <2>1, LoopExists
<1>2. IsLoop(InputsDisconnected(e, s), "disconnect inputs", s, e, n)
  <2>1. InputsDisconnected(e, s) = CHOOSE f : IsLoop(f, "disconnect inputs", s, e, n)
    BY DEF InputsDisconnected, IsLoop, Round
  <2> QED BY <2>1, LoopExists
<1>3. QED
  BY <1>1, <1>2, LoopRounds

LEMMA TxsUnfold ==
    ASSUME NEW x, NEW b, Len(vtx[b]) \in Nat
    PROVE  /\ Rounds(TxsConnected(x, b), "connect txs", b, x, Len(vtx[b]))
           /\ Rounds(TxsDisconnected(x, b), "disconnect txs", b, x, Len(vtx[b]))
<1> DEFINE n == Len(vtx[b])
<1>1. IsLoop(TxsConnected(x, b), "connect txs", b, x, n)
  <2>1. TxsConnected(x, b) = CHOOSE f : IsLoop(f, "connect txs", b, x, n)
    BY DEF TxsConnected, IsLoop, Round
  <2> QED BY <2>1, LoopExists
<1>2. IsLoop(TxsDisconnected(x, b), "disconnect txs", b, x, n)
  <2>1. TxsDisconnected(x, b) = CHOOSE f : IsLoop(f, "disconnect txs", b, x, n)
    BY DEF TxsDisconnected, IsLoop, Round
  <2> QED BY <2>1, LoopExists
<1>3. QED
  BY <1>1, <1>2, LoopRounds

-----------------------------------------------------------------------------
(* The index built along a branch.                                         *)

Nothing == [db |-> EmptyIndex, map |-> {}]

\* f gives the blocks of S what Built gives them.
IsBuilt(f, S) ==
    f = [x \in S |-> ExploreConnectBlock(IF x = Genesis THEN Nothing ELSE f[Parent[x]], x)]

\* Two such functions agree where both are defined, if they are defined downwards.
LEMMA BuiltUnique ==
    ASSUME NEW S \in SUBSET Block, NEW T \in SUBSET Block, S \subseteq T,
           \A x \in S : x # Genesis => Parent[x] \in S,
           NEW f, NEW g, IsBuilt(f, S), IsBuilt(g, T)
    PROVE  \A x \in S : f[x] = g[x]
<1> DEFINE D == {x \in S : f[x] # g[x]}
<1>1. SUFFICES ASSUME D # {} PROVE FALSE
  OBVIOUS
<1>2. PICK b \in D : b # Genesis => Parent[b] \notin D
  <2>1. D \in SUBSET Block
    OBVIOUS
  <2> HIDE DEF D
  <2> QED BY <1>1, <2>1, LowestBlock
<1>3. b # Genesis => f[Parent[b]] = g[Parent[b]]
  BY <1>2
<1>4. /\ f[b] = ExploreConnectBlock(IF b = Genesis THEN Nothing ELSE f[Parent[b]], b)
      /\ g[b] = ExploreConnectBlock(IF b = Genesis THEN Nothing ELSE g[Parent[b]], b)
  BY <1>2 DEF IsBuilt
<1>5. QED
  BY <1>2, <1>3, <1>4

LEMMA BuiltOnBranch == \A b \in Block : \E f : IsBuilt(f, Chain[b])
<1> DEFINE S == {b \in Block : ~\E f : IsBuilt(f, Chain[b])}
<1>1. SUFFICES ASSUME S # {} PROVE FALSE
  OBVIOUS
<1>2. PICK b \in S : b # Genesis => Parent[b] \notin S
  <2>1. S \in SUBSET Block
    OBVIOUS
  <2> HIDE DEF S
  <2> QED BY <1>1, <2>1, LowestBlock
<1>3. CASE b = Genesis
  <2> DEFINE f == [x \in {Genesis} |-> ExploreConnectBlock(Nothing, x)]
  <2>1. IsBuilt(f, Chain[b])
    BY <1>3, ChainAssumption DEF IsBuilt
  <2> HIDE DEF f
  <2> QED BY <1>2, <2>1
<1>4. CASE b # Genesis
  <2> DEFINE p == Parent[b]
  <2>1. b \in Block /\ p \in Block /\ Chain[b] = {b} \cup Chain[p] /\ b \notin Chain[p]
        /\ p \in Chain[p]
    BY <1>2, <1>4, AboveParent
  <2>2. PICK g : IsBuilt(g, Chain[p])
    BY <1>2, <1>4, <2>1
  <2> DEFINE f == [x \in Chain[b] |-> IF x = b THEN ExploreConnectBlock(g[p], b) ELSE g[x]]
             F(x) == ExploreConnectBlock(IF x = Genesis THEN Nothing ELSE f[Parent[x]], x)
  <2>3. \A x \in Chain[p] : x # Genesis => Parent[x] \in Chain[p]
    BY <2>1, ParentInChain
  <2>4. \A x \in Chain[p] : f[x] = g[x]
    BY <2>1
  <2>5. \A x \in Chain[p] :
            g[x] = ExploreConnectBlock(IF x = Genesis THEN Nothing ELSE g[Parent[x]], x)
    BY <2>2 DEF IsBuilt
  <2>6. f[b] = ExploreConnectBlock(f[p], b)
    BY <2>1, <2>4
  <2>7. \A x \in Chain[b] : f[x] = F(x)
    <3> HIDE DEF f
    <3> QED BY <1>4, <2>1, <2>3, <2>4, <2>5, <2>6
  <2>8. f = [x \in Chain[b] |-> f[x]]
    OBVIOUS
  <2> HIDE DEF f
  <2>9. IsBuilt(f, Chain[b])
    BY <2>7, <2>8 DEF IsBuilt
  <2> QED BY <1>2, <2>9
<1>5. QED
  BY <1>3, <1>4

LEMMA BuiltExists == \E f : IsBuilt(f, Block)
<1> DEFINE F(b) == CHOOSE f : IsBuilt(f, Chain[b])
           f == [b \in Block |-> F(b)[b]]
<1>1. \A b \in Block : IsBuilt(F(b), Chain[b])
  BY BuiltOnBranch
<1>2. ASSUME NEW b \in Block
      PROVE  f[b] = ExploreConnectBlock(IF b = Genesis THEN Nothing ELSE f[Parent[b]], b)
  <2>1. b \in Chain[b]
    BY ChainAncestry DEF Ancestry
  <2>2. F(b)[b] = ExploreConnectBlock(IF b = Genesis THEN Nothing ELSE F(b)[Parent[b]], b)
    <3> HIDE DEF F
    <3> QED BY <1>1, <2>1 DEF IsBuilt
  <2>3. ASSUME b # Genesis PROVE F(b)[Parent[b]] = F(Parent[b])[Parent[b]]
    <3> DEFINE p == Parent[b]
    <3>1. p \in Block /\ Chain[p] \subseteq Chain[b] /\ p \in Chain[p]
      BY <2>3, AboveParent
    <3>2. \A x \in Chain[p] : x # Genesis => Parent[x] \in Chain[p]
      BY <3>1, ParentInChain
    <3>3. Chain[p] \in SUBSET Block /\ Chain[b] \in SUBSET Block
      BY <3>1, ChainAssumption
    <3>4. IsBuilt(F(p), Chain[p]) /\ IsBuilt(F(b), Chain[b])
      BY <1>1, <3>1
    <3>5. \A x \in Chain[p] : F(p)[x] = F(b)[x]
      <4> HIDE DEF F, p
      <4> QED BY <3>1, <3>2, <3>3, <3>4, BuiltUnique
    <3> HIDE DEF F
    <3> QED BY <3>1, <3>5
  <2>4. b # Genesis => Parent[b] \in Block
    BY TreeAssumption
  <2> HIDE DEF F
  <2> QED BY <2>2, <2>3, <2>4
<1>3. f = [b \in Block |-> f[b]]
  OBVIOUS
<1> HIDE DEF f
<1>4. IsBuilt(f, Block)
  BY <1>2, <1>3 DEF IsBuilt
<1>5. QED
  BY <1>4

LEMMA BuiltIs ==
    /\ Built[Genesis] = Nothing
    /\ \A b \in Block \ {Genesis} : Built[b] = ExploreConnectBlock(Built[Parent[b]], b)
<1>1. IsBuilt(Built, Block)
  <2>1. Built = CHOOSE f : IsBuilt(f, Block)
    BY DEF Built, IsBuilt, Nothing
  <2> QED BY <2>1, BuiltExists
<1>2. \A b \in Block :
         Built[b] = ExploreConnectBlock(IF b = Genesis THEN Nothing ELSE Built[Parent[b]], b)
  <2> HIDE DEF Built
  <2> QED BY <1>1 DEF IsBuilt
<1>3. Len(vtx[Genesis]) = 0
  <2>1. vtx[Genesis] \in Seq({})
    BY TreeAssumption, TxAssumption, ExploreAssumption DEF Enumerates
  <2> QED BY <2>1
<1>4. ExploreConnectBlock(Nothing, Genesis) = Nothing
  <2>1. Rounds(TxsConnected(Nothing, Genesis), "connect txs", Genesis, Nothing, 0)
    <3>1. Len(vtx[Genesis]) \in Nat
      BY <1>3
    <3>2. Rounds(TxsConnected(Nothing, Genesis), "connect txs", Genesis, Nothing, Len(vtx[Genesis]))
      BY <3>1, TxsUnfold
    <3> QED BY <1>3, <3>2
  <2>2. TxsConnected(Nothing, Genesis)[0] = Nothing
    BY <2>1 DEF Rounds
  <2> QED BY <1>3, <2>2 DEF ExploreConnectBlock
<1> HIDE DEF Built
<1>5. QED
  BY <1>2, <1>4, TreeAssumption

-----------------------------------------------------------------------------
(* The sets of addresses by balance and their counts.                      *)

DustFree(e) == \A r \in e.rich : r[1] > MaxDust

\* The index x comes from e within a transaction: it has noted every balance whose set
\* may differ.
Notes(x, e) ==
    /\ DustFree(x)
    /\ e.touched \subseteq x.touched
    /\ \A r : r[1] \notin x.touched => (r \in x.rich <=> r \in e.rich)

LEMMA MoveRichNotes ==
    ASSUME NEW e, NEW x, NEW a, NEW old, DustFree(e),
           x.rich = e.rich, x.touched = e.touched
    PROVE  Notes(MoveRich(x, a, old), e)
<1> DEFINE new  == x.acct[a].balance
           left == e.rich \ {<<old, a>>}
           came == {b \in {new} : b > MaxDust /\ <<b, a>> \notin left}
           m == MoveRich(x, a, old)
<1>1. CASE m = x
  BY <1>1 DEF Notes, DustFree
<1>2. CASE m # x
  <2>1. /\ m.rich = left \cup {<<b, a>> : b \in came}
        /\ m.touched = e.touched \cup {b \in {old} : b > MaxDust} \cup came
    BY <1>2 DEF MoveRich, Index
  <2> HIDE DEF m, new
  <2>2. DustFree(m)
    <3>1. \A r \in left : r[1] > MaxDust
      BY DEF DustFree
    <3>2. ASSUME NEW b \in came PROVE <<b, a>>[1] > MaxDust
      BY <3>2
    <3> HIDE DEF left, came
    <3> QED BY <2>1, <3>1, <3>2 DEF DustFree
  <2>3. ASSUME NEW r, r[1] \notin m.touched
        PROVE  r \in m.rich <=> r \in e.rich
    <3>1. \A b \in came : r # <<b, a>>
      BY <2>1, <2>3
    <3>2. r \in e.rich => r # <<old, a>>
      BY <2>1, <2>3 DEF DustFree
    <3> QED BY <2>1, <3>1, <3>2
  <2> QED BY <2>1, <2>2, <2>3 DEF Notes, m
<1>3. QED
  BY <1>1, <1>2

\* Each of the four functions returns the index with its sets as they were, or moves an
\* address between two of them as its last act.
LEMMA StepNotes ==
    ASSUME NEW e, NEW s, NEW i, DustFree(e)
    PROVE  /\ Notes(ConnectInput(e, s, i), e)
           /\ Notes(ConnectOutput(e, s), e)
           /\ Notes(DisconnectInput(e, s, i), e)
           /\ Notes(DisconnectOutput(e, s), e)
<1>1. /\ Notes(e, e)
      /\ \A a, A : Notes(Put(e, a, A), e)
      /\ \A t, id : Notes(SetLookup(e, t, id), e)
      /\ \A t, id, a, A : Notes(Put(SetLookup(e, t, id), a, A), e)
  BY DEF Notes, DustFree, Put, SetLookup, Index
<1>2. /\ \A a, A, old : Notes(MoveRich(Put(e, a, A), a, old), e)
      /\ \A t, id, a, A, old : Notes(MoveRich(Put(SetLookup(e, t, id), a, A), a, old), e)
  <2>1. /\ \A a, A : Put(e, a, A).rich = e.rich /\ Put(e, a, A).touched = e.touched
        /\ \A t, id, a, A : /\ Put(SetLookup(e, t, id), a, A).rich = e.rich
                            /\ Put(SetLookup(e, t, id), a, A).touched = e.touched
    BY DEF Put, SetLookup, Index
  <2> QED BY <2>1, MoveRichNotes
<1>3. Notes(ConnectInput(e, s, i), e)
  BY <1>1, <1>2 DEF ConnectInput
<1>4. Notes(ConnectOutput(e, s), e)
  BY <1>1, <1>2 DEF ConnectOutput
<1>5. Notes(DisconnectInput(e, s, i), e)
  BY <1>1, <1>2 DEF DisconnectInput
<1>6. Notes(DisconnectOutput(e, s), e)
  BY <1>1, <1>2 DEF DisconnectOutput
<1>7. QED
  BY <1>3, <1>4, <1>5, <1>6

LEMMA Orders ==
    /\ \A b \in Block : /\ Len(vtx[b]) \in Nat
                        /\ \A k \in 1..Len(vtx[b]) : vtx[b][k] \in Txs[b] /\ vtx[b][k] \in Tx
    /\ \A t \in Tx : /\ Len(vin[t]) \in Nat
                     /\ \A k \in 1..Len(vin[t]) : vin[t][k] \in Spends[t] /\ vin[t][k] \in Tx
<1>1. \A X : \A q \in Seq(X) : Len(q) \in Nat /\ \A k \in 1..Len(q) : q[k] \in X
  OBVIOUS
<1>2. \A b \in Block : vtx[b] \in Seq(Txs[b]) /\ Txs[b] \subseteq Tx
  BY ExploreAssumption, TxAssumption DEF Enumerates
<1>3. \A t \in Tx : vin[t] \in Seq(Spends[t]) /\ Spends[t] \subseteq Tx
  BY ExploreAssumption, TxAssumption DEF Enumerates
<1>4. QED
  BY <1>1, <1>2, <1>3

LEMMA NotesChain ==
    ASSUME NEW x, NEW y, NEW z, Notes(x, y), Notes(y, z)
    PROVE  Notes(x, z)
BY DEF Notes

LEMMA TxNotes ==
    ASSUME NEW e, NEW s \in Tx, DustFree(e)
    PROVE  Notes(ConnectExploreTx(e, s), e) /\ Notes(DisconnectExploreTx(e, s), e)
<1> DEFINE n == Len(vin[s])
<1>0. n \in Nat /\ Notes(e, e)
  BY Orders DEF Notes
<1>1. Notes(ConnectExploreTx(e, s), e)
  <2> DEFINE x == InputsConnected(e, s)
             G == {k \in 0..n : Notes(x[k], e)}
  <2>1. /\ x[0] = e
        /\ \A k \in 1..n : x[k] = ConnectInput(x[k - 1], s, vin[s][k])
    BY <1>0, InputsUnfold DEF Rounds, Round
  <2>2. 0 \in G
    BY <1>0, <2>1
  <2>3. ASSUME NEW k \in 1..n, k - 1 \in G PROVE k \in G
    <3>1. Notes(x[k - 1], e) /\ DustFree(x[k - 1])
      BY <2>3 DEF Notes
    <3>2. Notes(x[k], x[k - 1])
      BY <2>1, <3>1, StepNotes
    <3> HIDE DEF x
    <3> QED BY <3>1, <3>2, NotesChain
  <2>4. \A k \in 0..n : k \in G
    <3> HIDE DEF G, n
    <3> QED BY <1>0, <2>2, <2>3, Counting
  <2>5. Notes(x[n], e) /\ DustFree(x[n])
    BY <1>0, <2>4 DEF Notes
  <2>6. Notes(ConnectOutput(x[n], s), x[n])
    <3> HIDE DEF x
    <3> QED BY <2>5, StepNotes
  <2> QED BY <2>5, <2>6, NotesChain DEF ConnectExploreTx
<1>2. Notes(DisconnectExploreTx(e, s), e)
  <2> DEFINE d == DisconnectOutput(e, s)
             x == InputsDisconnected(d, s)
             G == {k \in 0..n : Notes(x[k], e)}
  <2>0. Notes(d, e)
    BY StepNotes
  <2>1. /\ x[0] = d
        /\ \A k \in 1..n : x[k] = DisconnectInput(x[k - 1], s, vin[s][n + 1 - k])
    <3> HIDE DEF d
    <3> QED BY <1>0, InputsUnfold DEF Rounds, Round
  <2> HIDE DEF d
  <2>2. 0 \in G
    BY <1>0, <2>0, <2>1
  <2>3. ASSUME NEW k \in 1..n, k - 1 \in G PROVE k \in G
    <3>1. Notes(x[k - 1], e) /\ DustFree(x[k - 1])
      BY <2>3 DEF Notes
    <3>2. Notes(x[k], x[k - 1])
      BY <2>1, <3>1, StepNotes
    <3> HIDE DEF x
    <3> QED BY <3>1, <3>2, NotesChain
  <2>4. \A k \in 0..n : k \in G
    <3> HIDE DEF G, n
    <3> QED BY <1>0, <2>2, <2>3, Counting
  <2> QED BY <1>0, <2>4 DEF DisconnectExploreTx, d
<1>3. QED
  BY <1>1, <1>2

\* The counts as getrichlist should have them.
RichCounts(e) == {<<r[1], CountOf(e, r[1])>> : r \in e.rich}

\* The counts that UpdateMapAddressBalances brings up to date were right before.
LEMMA AfterTxCounts ==
    ASSUME NEW e, NEW x, NEW m, Notes(x, e)
    PROVE  LET y == AfterTx(m, x)
           IN  DustFree(y.db) /\ (m = RichCounts(e) => y.map = RichCounts(y.db))
<1> DEFINE y == AfterTx(m, x)
<1>1. y.db.rich = x.rich /\ y.map = Counts(x, m)
  BY DEF AfterTx, Index
<1>2. ASSUME NEW c, c \notin x.touched PROVE CountOf(x, c) = CountOf(e, c)
  <2>1. {r \in x.rich : r[1] = c} = {r \in e.rich : r[1] = c}
    BY <1>2 DEF Notes
  <2> QED BY <2>1 DEF CountOf
<1>3. \A c : CountOf(y.db, c) = CountOf(x, c)
  BY <1>1 DEF CountOf
<1>4. ASSUME m = RichCounts(e) PROVE Counts(x, m) = RichCounts(x)
  <2>1. ASSUME NEW p \in Counts(x, m) PROVE p \in RichCounts(x)
    <3>1. CASE p \in m /\ p[1] \notin x.touched
      <4>1. PICK r \in e.rich : p = <<r[1], CountOf(e, r[1])>>
        BY <1>4, <3>1 DEF RichCounts
      <4>2. r \in x.rich /\ CountOf(x, r[1]) = CountOf(e, r[1])
        BY <1>2, <3>1, <4>1 DEF Notes
      <4> QED BY <4>1, <4>2 DEF RichCounts
    <3>2. CASE ~(p \in m /\ p[1] \notin x.touched)
      BY <2>1, <3>2 DEF Counts, RichCounts
    <3> QED BY <3>1, <3>2
  <2>2. ASSUME NEW p \in RichCounts(x) PROVE p \in Counts(x, m)
    <3>1. PICK r \in x.rich : p = <<r[1], CountOf(x, r[1])>>
      BY <2>2 DEF RichCounts
    <3>2. CASE r[1] \in x.touched
      BY <3>1, <3>2 DEF Counts
    <3>3. CASE r[1] \notin x.touched
      <4>1. r \in e.rich /\ CountOf(x, r[1]) = CountOf(e, r[1])
        BY <1>2, <3>1, <3>3 DEF Notes
      <4>2. p \in m /\ p[1] = r[1]
        BY <1>4, <3>1, <4>1 DEF RichCounts
      <4> QED BY <3>3, <4>2 DEF Counts
    <3> QED BY <3>2, <3>3
  <2> QED BY <2>1, <2>2
<1>5. RichCounts(y.db) = RichCounts(x)
  BY <1>1, <1>3 DEF RichCounts
<1>6. DustFree(y.db)
  BY <1>1 DEF Notes, DustFree
<1>7. QED
  BY <1>1, <1>4, <1>5, <1>6

\* An index and its counts in step.
Complete(x) == x.map = RichCounts(x.db)

LEMMA BlockCounts ==
    ASSUME NEW x, NEW b \in Block, DustFree(x.db)
    PROVE  \A k \in 0..Len(vtx[b]) :
              /\ DustFree(TxsConnected(x, b)[k].db) /\ DustFree(TxsDisconnected(x, b)[k].db)
              /\ Complete(x) => /\ Complete(TxsConnected(x, b)[k])
                                /\ Complete(TxsDisconnected(x, b)[k])
<1> DEFINE n == Len(vtx[b])
           y == TxsConnected(x, b)
           z == TxsDisconnected(x, b)
           Fine(v) == DustFree(v.db) /\ (Complete(x) => Complete(v))
           G == {k \in 0..n : Fine(y[k]) /\ Fine(z[k])}
<1>0. n \in Nat
  BY Orders
<1>1. /\ y[0] = x /\ z[0] = x
      /\ \A k \in 1..n :
            /\ y[k] = AfterTx(y[k - 1].map, ConnectExploreTx(y[k - 1].db, vtx[b][k]))
            /\ z[k] = AfterTx(z[k - 1].map, DisconnectExploreTx(z[k - 1].db, vtx[b][n + 1 - k]))
  BY <1>0, TxsUnfold DEF Rounds, Round
<1> HIDE DEF y, z
<1>2. 0 \in G
  BY <1>0, <1>1
<1>3. ASSUME NEW k \in 1..n, k - 1 \in G PROVE k \in G
  <2> DEFINE s == vtx[b][k]
             t == vtx[b][n + 1 - k]
             u == y[k - 1]
             w == z[k - 1]
  <2>1. s \in Tx /\ t \in Tx
    <3>1. n + 1 - k \in 1..n
      BY <1>0
    <3> QED BY <3>1, Orders
  <2>2. Fine(u) /\ Fine(w)
    BY <1>3
  <2>3. y[k] = AfterTx(u.map, ConnectExploreTx(u.db, s)) /\ z[k] = AfterTx(w.map, DisconnectExploreTx(w.db, t))
    BY <1>1
  <2> HIDE DEF s, t, u, w, n
  <2>4. Notes(ConnectExploreTx(u.db, s), u.db) /\ Notes(DisconnectExploreTx(w.db, t), w.db)
    BY <2>1, <2>2, TxNotes
  <2>5. Fine(y[k])
    BY <2>2, <2>3, <2>4, AfterTxCounts DEF Complete
  <2>6. Fine(z[k])
    BY <2>2, <2>3, <2>4, AfterTxCounts DEF Complete
  <2> QED BY <2>5, <2>6
<1>4. \A k \in 0..n : k \in G
  <2> HIDE DEF G, n
  <2> QED BY <1>0, <1>2, <1>3, Counting
<1>5. QED
  BY <1>4 DEF y, z

LEMMA ConnectCounts ==
    ASSUME NEW x, NEW b \in Block, DustFree(x.db)
    PROVE  /\ DustFree(ExploreConnectBlock(x, b).db)
           /\ Complete(x) => Complete(ExploreConnectBlock(x, b))
<1>1. Len(vtx[b]) \in 0..Len(vtx[b])
  BY Orders
<1>2. QED
  BY <1>1, BlockCounts DEF ExploreConnectBlock

\* A block whose inputs can all be fetched is disconnected whole.
LEMMA FetchedAll ==
    ASSUME NEW b \in Block, \A s \in Txs[b] : Fetches(b, s)
    PROVE  Fetched(b) = Len(vtx[b])
<1> DEFINE n == Len(vtx[b])
           P(m) == /\ \A k \in 1..n : k > n - m => Fetches(b, vtx[b][k])
                   /\ m < n => ~Fetches(b, vtx[b][n - m])
<1>1. n \in Nat /\ \A k \in 1..n : Fetches(b, vtx[b][k])
  BY Orders
<1> HIDE DEF n
<1>2. n \in 0..n /\ P(n)
  BY <1>1
<1>3. ASSUME NEW m \in 0..n, P(m) PROVE m = n
  <2>1. m < n => n - m \in 1..n
    BY <1>1
  <2> QED BY <1>1, <1>3, <2>1
<1>4. Fetched(b) = CHOOSE m \in 0..n : P(m)
  BY DEF Fetched, n
<1> HIDE DEF P
<1>5. Fetched(b) = n
  BY <1>2, <1>3, <1>4
<1>6. QED
  BY <1>5 DEF n

LEMMA DisconnectCounts ==
    ASSUME NEW x, NEW b \in Block, DustFree(x.db), \A s \in Txs[b] : Fetches(b, s)
    PROVE  /\ DustFree(ExploreDisconnectBlock(x, b).db)
           /\ Complete(x) => Complete(ExploreDisconnectBlock(x, b))
<1>1. Len(vtx[b]) \in 0..Len(vtx[b])
  BY Orders
<1>2. Fetched(b) = Len(vtx[b])
  BY FetchedAll
<1>3. QED
  BY <1>1, <1>2, BlockCounts DEF ExploreDisconnectBlock

\* A rebuild leaves the counts complete.
LEMMA BuiltCounts == \A b \in Block : DustFree(Built[b].db) /\ Complete(Built[b])
<1> DEFINE S == {b \in Block : ~(DustFree(Built[b].db) /\ Complete(Built[b]))}
<1>1. SUFFICES ASSUME S # {} PROVE FALSE
  OBVIOUS
<1>2. PICK b \in S : b # Genesis => Parent[b] \notin S
  <2>1. S \in SUBSET Block
    OBVIOUS
  <2> HIDE DEF S
  <2> QED BY <1>1, <2>1, LowestBlock
<1> HIDE DEF Built
<1>3. CASE b = Genesis
  <2>1. Built[b] = Nothing
    BY <1>3, BuiltIs
  <2>2. Nothing.db.rich = {} /\ Nothing.map = {}
    BY DEF Nothing, EmptyIndex, Index
  <2>3. DustFree(Nothing.db) /\ Complete(Nothing)
    BY <2>2 DEF DustFree, Complete, RichCounts
  <2> QED BY <1>2, <2>1, <2>3
<1>4. CASE b # Genesis
  <2> DEFINE x == Built[Parent[b]]
  <2>1. b \in Block /\ Parent[b] \in Block
    BY <1>2, <1>4, TreeAssumption
  <2>2. DustFree(x.db) /\ Complete(x)
    BY <1>2, <1>4, <2>1
  <2>3. Built[b] = ExploreConnectBlock(x, b)
    BY <1>4, <2>1, BuiltIs
  <2> HIDE DEF x
  <2> QED BY <1>2, <2>1, <2>2, <2>3, ConnectCounts
<1>5. QED
  BY <1>3, <1>4

-----------------------------------------------------------------------------
(* A rebuild walks the hashNext records to an end, even after memory and   *)
(* disk have parted.                                                       *)

\* The pointers of next lead from parents to children, and only so far.
LinkedTo(next, h) ==
    \A a \in Block : next[a] # NoBlock =>
        next[a] \in Block \ {Genesis} /\ Parent[next[a]] = a /\ Height[a] <= h

Links(next) == \E h \in Nat : LinkedTo(next, h)

LEMMA LastLinkedExists ==
    ASSUME NEW next, Links(next)
    PROVE  LastLinked(next) \in Block
<1>1. PICK h \in Nat : LinkedTo(next, h)
  BY DEF Links
<1> DEFINE OnPath(b) == \A x \in Chain[b] \ {Genesis} : next[Parent[x]] = x
           S == {b \in Block : OnPath(b)}
           top == h + 1 + Height[Genesis]
           N == {top - Height[b] : b \in S}
<1>2. /\ Genesis \in Block /\ Height \in [Block -> Nat] /\ NoBlock \notin Block
      /\ \A b \in Block : b \in Chain[b]
  BY TreeAssumption, ChainAncestry DEF Ancestry
<1>3. Genesis \in S
  BY <1>2, ChainAssumption
<1>4. ASSUME NEW b \in S PROVE top - Height[b] \in Nat
  <2>1. CASE b = Genesis
    BY <1>2, <2>1
  <2>2. CASE b # Genesis
    <3>1. /\ Parent[b] \in Block /\ Height[b] = Height[Parent[b]] + 1
          /\ next[Parent[b]] = b
      BY <1>2, <2>2, TreeAssumption
    <3>2. Height[Parent[b]] <= h
      BY <1>1, <1>2, <3>1 DEF LinkedTo
    <3> QED BY <1>2, <3>1, <3>2
  <2> QED BY <2>1, <2>2
<1>5. PICK m \in N : \A y \in N : ~(y < m)
  <2>1. N \in SUBSET Nat /\ N # {}
    BY <1>3, <1>4
  <2> HIDE DEF N
  <2> QED BY <2>1, LeastNatural
<1>6. PICK b \in S : m = top - Height[b]
  BY <1>5
<1>7. ASSUME next[b] # NoBlock PROVE FALSE
  <2> DEFINE c == next[b]
  <2>1. c \in Block /\ c # Genesis /\ Parent[c] = b
    BY <1>1, <1>7 DEF LinkedTo
  <2>2. Chain[c] = {c} \cup Chain[b] /\ Height[c] = Height[b] + 1 /\ b \in Block
    BY <2>1, ChainAssumption, TreeAssumption
  <2>3. next[Parent[c]] = c
    BY <2>1
  <2> HIDE DEF c
  <2>4. c \in S
    BY <2>1, <2>2, <2>3
  <2>5. top - Height[c] \in N
    BY <2>4
  <2> HIDE DEF N, S
  <2>6. top - Height[c] < top - Height[b]
    BY <1>2, <2>1, <2>2
  <2> QED BY <1>5, <1>6, <2>5, <2>6
<1>8. \E x \in Block : next[x] = NoBlock /\ OnPath(x)
  BY <1>7
<1>9. LastLinked(next) = CHOOSE x \in Block : next[x] = NoBlock /\ OnPath(x)
  BY DEF LastLinked
<1> HIDE DEF OnPath
<1>10. QED
  BY <1>8, <1>9

LEMMA LinksUpdate ==
    ASSUME NEW b \in Block, b # Genesis, TypeOK, Links(pnext),
           NEW next \in [Block -> Block \cup {NoBlock}], Links(next)
    PROVE  /\ Links(ConnectNext(b, next))
           /\ Links(DisconnectNext(b, next))
           /\ Links([next EXCEPT ![Parent[b]] = b])
<1>1. PICK h \in Nat : LinkedTo(next, h)
  BY DEF Links
<1>2. /\ Parent[b] \in Block /\ Height \in [Block -> Nat] /\ NoBlock \notin Block
      /\ Height[b] = Height[Parent[b]] + 1 /\ pnext \in [Block -> Block \cup {NoBlock}]
  BY TreeAssumption DEF TypeOK
<1> DEFINE m == h + Height[b]
<1>3. m \in Nat /\ m >= h /\ m >= Height[b] /\ m >= Height[Parent[b]]
  BY <1>2
<1>4. \A a \in Block : pnext[a] # NoBlock => pnext[a] \in Block \ {Genesis} /\ Parent[pnext[a]] = a
  BY DEF Links, LinkedTo
<1>5. \A a \in Block : next[a] # NoBlock =>
          next[a] \in Block \ {Genesis} /\ Parent[next[a]] = a /\ Height[a] <= m
  BY <1>1, <1>2, <1>3 DEF LinkedTo
<1> HIDE DEF m
<1>6. LinkedTo(ConnectNext(b, next), m)
  BY <1>2, <1>3, <1>4, <1>5 DEF LinkedTo, ConnectNext
<1>7. LinkedTo(DisconnectNext(b, next), m)
  BY <1>2, <1>3, <1>5 DEF LinkedTo, DisconnectNext
<1>8. LinkedTo([next EXCEPT ![Parent[b]] = b], m)
  BY <1>2, <1>3, <1>5 DEF LinkedTo
<1>9. QED
  BY <1>3, <1>6, <1>7, <1>8 DEF Links

LEMMA LinksRelink ==
    ASSUME TypeOK, Links(pnext)
    PROVE  Links(UnlinkedNext) /\ Links(LinkedNext)
<1>1. PICK h \in Nat : LinkedTo(pnext, h)
  BY DEF Links
<1> DEFINE i == pindexIntermediate
           m == h + Height[i]
<1>2. /\ i \in Block /\ Height \in [Block -> Nat] /\ NoBlock \notin Block
      /\ pindexBest \in Block
  BY TreeAssumption DEF TypeOK
<1>3. m \in Nat /\ m >= h /\ m >= Height[i]
  BY <1>2
<1>4. \A x \in vConnect : x \in Block \ {Genesis} /\ Height[Parent[x]] <= m
  <2> SUFFICES ASSUME NEW x \in vConnect
               PROVE  x \in Block \ {Genesis} /\ Height[Parent[x]] <= m
    OBVIOUS
  <2>1. x \in Chain[i] /\ x # Genesis /\ x \in Block
    BY <1>2, ChainAncestry, ChainAssumption DEF vConnect, Ancestry
  <2>2. Height[x] <= Height[i] /\ Height[x] = Height[Parent[x]] + 1 /\ Parent[x] \in Block
    BY <1>2, <2>1, ChainAncestry, TreeAssumption DEF Ancestry
  <2> QED BY <1>2, <1>3, <2>1, <2>2
<1>5. LinkedTo(UnlinkedNext, m)
  BY <1>1, <1>2, <1>3 DEF LinkedTo, UnlinkedNext
<1> HIDE DEF m, i
<1>6. LinkedTo(LinkedNext, m)
  BY <1>2, <1>4, <1>5 DEF LinkedTo, LinkedNext
<1>7. QED
  BY <1>3, <1>5, <1>6 DEF Links

LinkInv == Links(diskNext) /\ Links(viewNext) /\ Links(pnext)

\* What a refused disconnect does to the chain: the same as a failed one.
Refused ==
    /\ pc = "reorganize"
    /\ InvalidChainFound(pindexNew)
    /\ TxnAbort
    /\ Finish
    /\ UNCHANGED <<diskVars, memVars>>

LEMMA LinkStep ==
    ASSUME FoundInv, TypeOK, LinkInv, [Next]_vars \/ Refused
    PROVE  LinkInv'
<1>0. /\ diskNext \in [Block -> Block \cup {NoBlock}]
      /\ viewNext \in [Block -> Block \cup {NoBlock}]
      /\ pnext \in [Block -> Block \cup {NoBlock}]
      /\ Links(diskNext) /\ Links(viewNext) /\ Links(pnext)
  BY DEF TypeOK, LinkInv
<1>1. ASSUME NEW b \in Block, b # Genesis
      PROVE  /\ CommitBlock(b) => Links(diskNext') /\ Links(viewNext')
             /\ LinkBlock(b) => Links(pnext')
  BY <1>0, <1>1, LinksUpdate DEF CommitBlock, LinkBlock
<1>2. CASE (\E b \in Block : AddToBlockIndex(b)) \/ BeginReorganize \/ NewBestBlock
  BY <1>2 DEF AddToBlockIndex, BeginReorganize, NewBestBlock, diskVars, memVars, LinkInv
<1>3. CASE ExtendFails \/ ReorganizeFails \/ Refused \/ Restart
  BY <1>3 DEF ExtendFails, ReorganizeFails, Refused, Restart, TxnAbort, diskVars, memVars, LinkInv
<1>4. CASE ExtendBest
  <2>1. pindexNew \in Block /\ pindexNew # Genesis
    <3>1. Parent[pindexNew] = pindexBest /\ pindexBest \in Block /\ pindexNew \in Block
      BY <1>4 DEF ExtendBest, TypeOK
    <3> QED BY <3>1, TreeAssumption
  <2>2. CommitBlock(pindexNew) /\ (LinkBlock(pindexNew) \/ UNCHANGED pnext)
    BY <1>4 DEF ExtendBest
  <2> QED BY <1>0, <1>1, <2>1, <2>2 DEF LinkInv
<1>5. CASE ReorganizeDisconnect
  <2>1. tip \in Block /\ tip # Genesis
    BY <1>5, WorkBlock DEF ReorganizeDisconnect, TypeOK
  <2>2. Links(DisconnectNext(tip, viewNext))
    BY <1>0, <2>1, LinksUpdate
  <2> QED BY <1>5, <2>2 DEF ReorganizeDisconnect, LinkInv, diskVars, memVars
<1>6. CASE ReorganizeConnect
  <2> DEFINE b == StepTowards(tip, pindexIntermediate)
  <2>1. b \in Block /\ b # Genesis
    BY <1>6, WorkBlock DEF ReorganizeConnect
  <2>2. viewNext' = ConnectNext(b, viewNext) /\ UNCHANGED <<diskNext, pnext>>
    BY <1>6 DEF ReorganizeConnect, diskVars, memVars
  <2> HIDE DEF b
  <2>3. Links(ConnectNext(b, viewNext))
    BY <1>0, <2>1, LinksUpdate
  <2> QED BY <2>2, <2>3 DEF LinkInv
<1>7. CASE ReorganizeCommit
  BY <1>7, LinksRelink DEF ReorganizeCommit, LinkInv
<1>8. CASE SecondaryConnect
  <2> DEFINE b == StepTowards(tip, pindexNew)
  <2>1. b \in Block /\ b # Genesis /\ CommitBlock(b) /\ LinkBlock(b)
    BY <1>8, WorkBlock DEF SecondaryConnect
  <2> HIDE DEF b
  <2> QED BY <1>1, <2>1 DEF LinkInv
<1>9. CASE SecondaryFails
  <2> DEFINE b == StepTowards(tip, pindexNew)
  <2>1. /\ b \in Block /\ b # Genesis /\ UNCHANGED pnext
        /\ (TxnAbort /\ UNCHANGED diskVars) \/ CommitBlock(b)
    BY <1>9, WorkBlock DEF SecondaryFails
  <2> HIDE DEF b
  <2> QED BY <1>0, <1>1, <2>1 DEF LinkInv, TxnAbort, diskVars
<1>10. CASE UNCHANGED vars
  BY <1>10 DEF vars, diskVars, memVars, LinkInv
<1>11. QED
  BY <1>2, <1>3, <1>4, <1>5, <1>6, <1>7, <1>8, <1>9, <1>10 DEF Next, NextNoCrash, SetBestChain

LEMMA RefusedStep ==
    ASSUME FoundInv, TypeOK, Refused
    PROVE  FoundInv' /\ TypeOK'
<1>1. Genesis \in diskIndex /\ pindexNew \in Block /\ Genesis \in Block
  BY ChainAncestry, TreeAssumption, WorkBlock DEF FoundInv, RestartFindsEveryBlock, Ancestry
<1>2. FoundInv'
  BY <1>1 DEF Refused, Finish, diskVars, memVars, FoundInv, RestartFindsEveryBlock
<1>3. nBestInvalidTrust' \in Nat
  BY <1>1, TreeAssumption DEF Refused, InvalidChainFound, TypeOK
<1>4. TypeOK'
  BY <1>1, <1>3 DEF Refused, TxnAbort, Finish, diskVars, memVars, TypeOK
<1>5. QED
  BY <1>2, <1>4

\* What every step of the composition does to the chain.
LEMMA StepOfChain ==
    ASSUME [ExploreNext]_allExploreVars
    PROVE  [Next]_vars \/ Refused
<1>1. CASE UNCHANGED allExploreVars
  BY <1>1 DEF allExploreVars
<1>2. CASE ExploreReorganizeRefused
  BY <1>2 DEF ExploreReorganizeRefused, Refused
<1>3. CASE ExploreNext /\ ~ExploreReorganizeRefused
  BY <1>3 DEF ExploreNext, ExploreUnchangedStep, ExploreExtendBest, ExploreReorganizeDisconnect,
     ExploreReorganizeConnect, ExploreSecondaryConnect, ExploreSecondaryFails, ExploreRestart,
     RestartAheadOfChain, Next, NextNoCrash, SetBestChain
<1>4. QED
  BY <1>1, <1>2, <1>3

RichInv == FoundInv /\ TypeOK /\ LinkInv /\ DustFree(exploredb)

LEMMA RichInit == ExploreInit => RichInv
<1> SUFFICES ASSUME ExploreInit PROVE RichInv
  OBVIOUS
<1>1. Init /\ exploredb = EmptyIndex
  BY DEF ExploreInit
<1>2. FoundInv /\ TypeOK
  BY <1>1, FoundInit, ChainInit DEF ChainInv
<1>3. LinkInv
  <2>1. LinkedTo([b \in Block |-> NoBlock], 0)
    BY DEF LinkedTo
  <2>2. Links([b \in Block |-> NoBlock])
    BY <2>1 DEF Links
  <2> QED BY <1>1, <2>2 DEF Init, LinkInv
<1>4. DustFree(exploredb)
  BY <1>1 DEF DustFree, EmptyIndex, Index
<1>5. QED
  BY <1>2, <1>3, <1>4 DEF RichInv

LEMMA HealCounts ==
    ASSUME RichInv, NEW best
    PROVE  /\ DustFree(Heal(best).db)
           /\ best # diskBest => Complete(Heal(best))
<1> DEFINE last == LastLinked(diskNext)
<1>1. last \in Block
  BY LastLinkedExists DEF RichInv, LinkInv
<1> HIDE DEF last, Built
<1>2. DustFree(Built[last].db) /\ Complete(Built[last])
  BY <1>1, BuiltCounts
<1>3. CASE best = diskBest
  BY <1>3 DEF Heal, RichInv
<1>4. CASE best # diskBest
  BY <1>2, <1>4 DEF Heal, Complete, last
<1>5. QED
  BY <1>3, <1>4

\* The index and the counts after a step.
LEMMA RichStep ==
    ASSUME RichInv, [ExploreNext]_allExploreVars
    PROVE  /\ DustFree(exploredb')
           /\ Complete(State) /\ ~RestartWithoutRebuild /\ ~ExploreReorganizeRefused =>
                 Complete(State')
<1> DEFINE Kept == /\ DustFree(exploredb')
                   /\ Complete(State) => Complete(State')
<1>0. /\ TypeOK /\ FoundInv /\ DustFree(exploredb) /\ State.db = exploredb
      /\ State.map = mapAddressBalances
  BY DEF RichInv, State
<1>1. ASSUME NEW x, NEW b, SetExplore(x, b) PROVE State'.db = x.db /\ State'.map = x.map
  BY <1>1 DEF SetExplore, State
<1>2. ASSUME UNCHANGED <<exploredb, mapAddressBalances>> PROVE Kept
  BY <1>0, <1>2 DEF Complete, State
<1>3. ASSUME NEW b \in Block, NEW c, SetExplore(ExploreConnectBlock(State, b), c) PROVE Kept
  <2> DEFINE x == ExploreConnectBlock(State, b)
  <2>1. DustFree(x.db) /\ (Complete(State) => Complete(x))
    BY <1>0, <1>3, ConnectCounts
  <2>2. exploredb' = x.db /\ mapAddressBalances' = x.map
    BY <1>3 DEF SetExplore
  <2> HIDE DEF x
  <2> QED BY <2>1, <2>2 DEF Complete, State
<1>4. CASE UNCHANGED allExploreVars \/ ExploreUnchangedStep
  BY <1>2, <1>4 DEF allExploreVars, ExploreUnchangedStep, exploreVars
<1>5. CASE ExploreExtendBest
  BY <1>0, <1>3, <1>5, WorkBlock DEF ExploreExtendBest
<1>6. CASE ExploreReorganizeConnect
  <2>1. tip' \in Block
    BY <1>0, <1>6, WorkBlock DEF ExploreReorganizeConnect, ReorganizeConnect
  <2> QED BY <1>3, <1>6, <2>1 DEF ExploreReorganizeConnect
<1>7. CASE ExploreSecondaryConnect
  <2>1. tip' \in Block
    BY <1>0, <1>7, WorkBlock DEF ExploreSecondaryConnect, SecondaryConnect
  <2> QED BY <1>3, <1>7, <2>1 DEF ExploreSecondaryConnect
<1>8. CASE ExploreSecondaryFails
  <2> DEFINE b == StepTowards(tip, pindexNew)
  <2>1. b \in Block
    BY <1>0, <1>8, WorkBlock DEF ExploreSecondaryFails, SecondaryFails
  <2>2. SetExplore(ExploreConnectBlock(State, b), b) \/ UNCHANGED exploreVars
    BY <1>8 DEF ExploreSecondaryFails
  <2> HIDE DEF b
  <2> QED BY <1>2, <1>3, <2>1, <2>2 DEF exploreVars
<1>9. CASE ExploreReorganizeDisconnect
  <2> DEFINE x == ExploreDisconnectBlock(State, tip)
  <2>1. DustFree(x.db) /\ (Complete(State) => Complete(x))
    BY <1>0, <1>9, DisconnectCounts DEF ExploreReorganizeDisconnect, TypeOK
  <2>2. exploredb' = x.db /\ mapAddressBalances' = x.map
    BY <1>9 DEF ExploreReorganizeDisconnect, SetExplore
  <2> HIDE DEF x
  <2> QED BY <2>1, <2>2 DEF Complete, State
<1>10. CASE ExploreReorganizeRefused
  BY <1>0, <1>10 DEF ExploreReorganizeRefused
<1>11. CASE ExploreRestart
  <2> DEFINE h == Heal(exploreBest)
  <2>1. exploredb' = h.db /\ mapAddressBalances' = h.map
    BY <1>11 DEF ExploreRestart, SetExplore
  <2>2. DustFree(h.db) /\ (exploreBest # diskBest => Complete(h))
    BY HealCounts
  <2> HIDE DEF h
  <2> QED BY <1>11, <2>1, <2>2 DEF Complete, State, RestartWithoutRebuild
<1>12. CASE RestartAheadOfChain
  <2> DEFINE h == Heal(NoBlock)
  <2>1. exploredb' = h.db /\ mapAddressBalances' = h.map
    BY <1>12 DEF RestartAheadOfChain, SetExplore
  <2>2. NoBlock # diskBest
    BY <1>0, TreeAssumption DEF TypeOK
  <2>3. DustFree(h.db) /\ Complete(h)
    BY <2>2, HealCounts
  <2> HIDE DEF h
  <2> QED BY <2>1, <2>3 DEF Complete, State
<1>13. QED
  BY <1>4, <1>5, <1>6, <1>7, <1>8, <1>9, <1>10, <1>11, <1>12 DEF ExploreNext

LEMMA RichInvStep == RichInv /\ [ExploreNext]_allExploreVars => RichInv'
<1> SUFFICES ASSUME RichInv, [ExploreNext]_allExploreVars PROVE RichInv'
  OBVIOUS
<1>1. FoundInv /\ TypeOK /\ LinkInv
  BY DEF RichInv
<1>2. [Next]_vars \/ Refused
  BY StepOfChain
<1>3. FoundInv' /\ TypeOK'
  BY <1>1, <1>2, FoundStep, TypeStep, RefusedStep
<1>4. LinkInv'
  BY <1>1, <1>2, LinkStep
<1>5. DustFree(exploredb')
  BY RichStep
<1>6. QED
  BY <1>3, <1>4, <1>5 DEF RichInv

\* For every tree of blocks, with crashes and invalid blocks anywhere: the counts of
\* addresses by balance that getrichlist answers from follow the sets on disk through
\* every block connected, disconnected or rebuilt.  Only a restart that finds the index
\* current, and a disconnect that is refused, part them.
THEOREM RichListFollows == ExploreSpec => OnlyRestartLosesRichList
<1>1. RichInv /\ [ExploreNext]_allExploreVars =>
         [RichListComplete =>
            RichListComplete' \/ RestartWithoutRebuild \/ ExploreReorganizeRefused]_allExploreVars
  <2>1. RichListComplete <=> Complete(State)
    BY DEF RichListComplete, Complete, RichCounts, State
  <2>2. RichListComplete' <=> Complete(State')
    BY DEF RichListComplete, Complete, RichCounts, State
  <2> QED BY <2>1, <2>2, RichStep
<1>2. QED
  BY <1>1, RichInit, RichInvStep, PTL DEF ExploreSpec, OnlyRestartLosesRichList

-----------------------------------------------------------------------------
(* The records of one address.                                             *)

\* r is q with x at its end.
EndsIn(r, q, x) == r # <<>> /\ Len(r) = Len(q) + 1 /\ Last(r) = x /\ Front(r) = q

LEMMA FrontOfAppend ==
    ASSUME NEW E, NEW q \in Seq(E), NEW x \in E, NEW r, r = Append(q, x)
    PROVE  r \in Seq(E) /\ EndsIn(r, q, x)
<1>1. r \in Seq(E) /\ Len(r) = Len(q) + 1 /\ r[Len(r)] = x /\ r # <<>>
      /\ \A k \in 1..Len(q) : r[k] = q[k]
  OBVIOUS
<1>2. Len(q) \in Nat /\ Len(r) - 1 = Len(q)
  BY <1>1
<1>3. Front(r) = SubSeq(r, 1, Len(q))
  BY <1>2 DEF Front
<1>4. SubSeq(r, 1, Len(q)) = q
  BY <1>1, <1>2
<1>5. QED
  BY <1>1, <1>3, <1>4 DEF Last, EndsIn

Entry == {"in", "out"} \X Nat

Account ==
    [outs : Seq([tx : Tx, by : Tx \cup {Unspent}]), ins : Seq([tx : Tx, prev : Tx]),
     inouts : Seq(Entry), vio : Seq(Seq(Entry)), balance : Int, valueIn : Nat, valueOut : Nat]

\* The lists of a transaction's in-outs are not empty, and start with a record that exists.
Lists(A) ==
    \A k \in 1..Len(A.vio) :
        LET q == A.vio[k]
        IN  /\ Len(q) >= 1
            /\ q[1][2] <= IF q[1][1] = "in" THEN Len(A.ins) ELSE Len(A.outs)

\* Adding an in-out to the lists l, and taking it away again.
Adds(l, io, m) == IF m THEN [l EXCEPT ![Len(l)] = Append(@, io)] ELSE Append(l, <<io>>)
Drops(l) == IF Len(Last(l)) = 1 THEN Front(l) ELSE [l EXCEPT ![Len(l)] = Front(@)]

IsListed(r, l, io) ==
    /\ r \in Seq(Seq(Entry)) /\ r # <<>>
    /\ Last(Last(r)) = io
    /\ Drops(r) = l
    /\ \A k \in 1..Len(r) : /\ Len(r[k]) >= 1
                            /\ r[k][1] = IF k \in 1..Len(l) THEN l[k][1] ELSE io

LEMMA ListUndo ==
    ASSUME NEW l \in Seq(Seq(Entry)), NEW io \in Entry, NEW m \in BOOLEAN,
           m => l # <<>>, \A k \in 1..Len(l) : Len(l[k]) >= 1
    PROVE  IsListed(Adds(l, io, m), l, io)
<1> DEFINE r == Adds(l, io, m)
<1>0. Len(l) \in Nat /\ <<io>> \in Seq(Entry) /\ Len(<<io>>) = 1 /\ <<io>>[1] = io
  OBVIOUS
<1>1. CASE ~m
  <2>1. r = Append(l, <<io>>)
    BY <1>1 DEF Adds
  <2> HIDE DEF r
  <2>2. /\ r \in Seq(Seq(Entry)) /\ r # <<>> /\ Len(r) = Len(l) + 1
        /\ Last(r) = <<io>> /\ Front(r) = l
    <3>1. r \in Seq(Seq(Entry)) /\ EndsIn(r, l, <<io>>)
      <4> DEFINE o == <<io>>
      <4>1. o \in Seq(Entry) /\ r = Append(l, o)
        BY <1>0, <2>1
      <4> HIDE DEF o
      <4>2. r \in Seq(Seq(Entry)) /\ EndsIn(r, l, o)
        BY <4>1, FrontOfAppend
      <4> QED BY <4>2 DEF o
    <3> QED BY <3>1 DEF EndsIn
  <2>3. Last(Last(r)) = io /\ Drops(r) = l
    BY <1>0, <2>2 DEF Drops, Last
  <2>4. \A k \in 1..Len(r) : r[k] = IF k \in 1..Len(l) THEN l[k] ELSE <<io>>
    BY <1>0, <2>1
  <2> QED BY <1>0, <2>2, <2>3, <2>4 DEF r, IsListed
<1>2. CASE m
  <2> DEFINE n == Len(l)
             q == l[n]
             w == Append(q, io)
  <2>1. n \in Nat /\ n \in 1..n /\ q \in Seq(Entry) /\ Len(q) >= 1 /\ Len(q) \in Nat
    BY <1>2
  <2>2. r = [l EXCEPT ![n] = w]
    BY <1>2 DEF Adds
  <2>3. /\ w \in Seq(Entry) /\ Len(w) = Len(q) + 1
        /\ Last(w) = io /\ Front(w) = q /\ w[1] = q[1]
    <3>1. w \in Seq(Entry) /\ EndsIn(w, q, io)
      <4> HIDE DEF q
      <4> QED BY <2>1, FrontOfAppend
    <3>2. w[1] = q[1]
      BY <2>1
    <3> QED BY <3>1, <3>2 DEF EndsIn
  <2> HIDE DEF w
  <2>4. r \in Seq(Seq(Entry)) /\ Len(r) = n /\ r[n] = w
        /\ \A k \in 1..n : k # n => r[k] = l[k]
    BY <2>1, <2>2, <2>3
  <2> HIDE DEF r
  <2>5. r # <<>> /\ Last(r) = w
    BY <2>1, <2>4 DEF Last
  <2>6. Drops(r) = [r EXCEPT ![n] = q]
    <3>1. Len(Last(r)) # 1
      BY <2>1, <2>3, <2>5
    <3>2. Drops(r) = [r EXCEPT ![Len(r)] = Front(@)]
      BY <3>1 DEF Drops
    <3>3. [r EXCEPT ![n] = Front(@)] = [r EXCEPT ![n] = Front(r[n])]
      OBVIOUS
    <3> QED BY <2>3, <2>4, <3>2, <3>3
  <2>7. [r EXCEPT ![n] = q] = l
    <3>1. [r EXCEPT ![n] = q] = [k \in 1..n |-> IF k = n THEN q ELSE r[k]]
      BY <2>1, <2>4
    <3>2. l = [k \in 1..n |-> l[k]]
      OBVIOUS
    <3>3. \A k \in 1..n : l[k] = IF k = n THEN q ELSE r[k]
      BY <2>4
    <3> HIDE DEF n, q
    <3> QED BY <3>1, <3>2, <3>3
  <2>8. \A k \in 1..n : Len(r[k]) >= 1 /\ r[k][1] = l[k][1]
    <3> SUFFICES ASSUME NEW k \in 1..n PROVE Len(r[k]) >= 1 /\ r[k][1] = l[k][1]
      OBVIOUS
    <3>1. CASE k = n
      <4>1. r[k] = w /\ l[k] = q
        BY <2>4, <3>1
      <4> HIDE DEF q, n
      <4> QED BY <2>1, <2>3, <4>1
    <3>2. CASE k # n
      BY <2>4, <3>2
    <3> QED BY <3>1, <3>2
  <2> QED BY <2>1, <2>3, <2>4, <2>5, <2>6, <2>7, <2>8 DEF r, IsListed
<1>3. QED
  BY <1>1, <1>2

LEMMA SameAccount ==
    ASSUME NEW A \in Account, NEW B \in Account,
           A.outs = B.outs, A.ins = B.ins, A.inouts = B.inouts, A.vio = B.vio,
           A.balance = B.balance, A.valueIn = B.valueIn, A.valueOut = B.valueOut
    PROVE  A = B
BY DEF Account

\* Overwriting one of the records.
LEMMA SetOuts ==
    ASSUME NEW A \in Account, NEW v \in Seq([tx : Tx, by : Tx \cup {Unspent}])
    PROVE  LET B == [A EXCEPT !.outs = v]
           IN  /\ B \in Account /\ B.outs = v
               /\ B.ins = A.ins /\ B.inouts = A.inouts /\ B.vio = A.vio
               /\ B.balance = A.balance /\ B.valueIn = A.valueIn /\ B.valueOut = A.valueOut
BY DEF Account

LEMMA SetIns ==
    ASSUME NEW A \in Account, NEW v \in Seq([tx : Tx, prev : Tx])
    PROVE  LET B == [A EXCEPT !.ins = v]
           IN  /\ B \in Account /\ B.ins = v
               /\ B.outs = A.outs /\ B.inouts = A.inouts /\ B.vio = A.vio
               /\ B.balance = A.balance /\ B.valueIn = A.valueIn /\ B.valueOut = A.valueOut
BY DEF Account

LEMMA SetInouts ==
    ASSUME NEW A \in Account, NEW v \in Seq(Entry)
    PROVE  LET B == [A EXCEPT !.inouts = v]
           IN  /\ B \in Account /\ B.inouts = v
               /\ B.outs = A.outs /\ B.ins = A.ins /\ B.vio = A.vio
               /\ B.balance = A.balance /\ B.valueIn = A.valueIn /\ B.valueOut = A.valueOut
BY DEF Account

LEMMA SetVio ==
    ASSUME NEW A \in Account, NEW v \in Seq(Seq(Entry))
    PROVE  LET B == [A EXCEPT !.vio = v]
           IN  /\ B \in Account /\ B.vio = v
               /\ B.outs = A.outs /\ B.ins = A.ins /\ B.inouts = A.inouts
               /\ B.balance = A.balance /\ B.valueIn = A.valueIn /\ B.valueOut = A.valueOut
BY DEF Account

LEMMA SetBalance ==
    ASSUME NEW A \in Account, NEW v \in Int
    PROVE  LET B == [A EXCEPT !.balance = v]
           IN  /\ B \in Account /\ B.balance = v
               /\ B.outs = A.outs /\ B.ins = A.ins /\ B.inouts = A.inouts
               /\ B.vio = A.vio /\ B.valueIn = A.valueIn /\ B.valueOut = A.valueOut
BY DEF Account

LEMMA SetValueIn ==
    ASSUME NEW A \in Account, NEW v \in Nat
    PROVE  LET B == [A EXCEPT !.valueIn = v]
           IN  /\ B \in Account /\ B.valueIn = v
               /\ B.outs = A.outs /\ B.ins = A.ins /\ B.inouts = A.inouts
               /\ B.vio = A.vio /\ B.balance = A.balance /\ B.valueOut = A.valueOut
BY DEF Account

LEMMA SetValueOut ==
    ASSUME NEW A \in Account, NEW v \in Nat
    PROVE  LET B == [A EXCEPT !.valueOut = v]
           IN  /\ B \in Account /\ B.valueOut = v
               /\ B.outs = A.outs /\ B.ins = A.ins /\ B.inouts = A.inouts
               /\ B.vio = A.vio /\ B.balance = A.balance /\ B.valueIn = A.valueIn
BY DEF Account

\* The records of an address after ConnectInput and ConnectOutput, when all goes well.
Spend(A, id, i, s) ==
    LET io == <<"in", Len(A.ins) + 1>>
        A1 == SetSpent(A, id, i, s)
        A2 == [A1 EXCEPT !.balance = @ - Value[i]]
        A3 == [[A2 EXCEPT !.ins = Append(@, [tx |-> s, prev |-> i])]
                   EXCEPT !.inouts = Append(@, io)]
    IN  IF s \notin Wash THEN [AddToList(A3, s, io) EXCEPT !.valueOut = @ + Value[i]] ELSE A2

Receive(A, s) ==
    LET io == <<"out", Len(A.outs) + 1>>
        A1 == [[A EXCEPT !.balance = @ + Value[s]]
                  EXCEPT !.outs = Append(@, [tx |-> s, by |-> Unspent])]
        A3 == [A1 EXCEPT !.inouts = Append(@, io)]
    IN  IF s \notin Wash THEN [AddToList(A3, s, io) EXCEPT !.valueIn = @ + Value[s]] ELSE A1

LEMMA AddToListFields ==
    ASSUME NEW A \in Account, NEW s, NEW io \in Entry,
           \A k \in 1..Len(A.vio) : Len(A.vio[k]) >= 1
    PROVE  LET B == AddToList(A, s, io)
           IN  /\ B \in Account
               /\ B.outs = A.outs /\ B.ins = A.ins /\ B.inouts = A.inouts
               /\ B.balance = A.balance /\ B.valueIn = A.valueIn /\ B.valueOut = A.valueOut
               /\ \E m \in BOOLEAN : (m => A.vio # <<>>) /\ B.vio = Adds(A.vio, io, m)
<1> DEFINE m == A.vio # <<>> /\ TxOfEntry(A, Head(Last(A.vio))) = s
           v == Adds(A.vio, io, m)
           B == AddToList(A, s, io)
<1>1. m \in BOOLEAN /\ (m => A.vio # <<>>)
  OBVIOUS
<1>2. B = [A EXCEPT !.vio = v]
  BY DEF AddToList, Adds
<1>3. v \in Seq(Seq(Entry))
  <2>1. A.vio \in Seq(Seq(Entry))
    BY DEF Account
  <2> HIDE DEF m
  <2> QED BY <1>1, <2>1, ListUndo DEF IsListed
<1> HIDE DEF v
<1>4. /\ B \in Account /\ B.vio = v
      /\ B.outs = A.outs /\ B.ins = A.ins /\ B.inouts = A.inouts
      /\ B.balance = A.balance /\ B.valueIn = A.valueIn /\ B.valueOut = A.valueOut
  <2> HIDE DEF B
  <2> QED BY <1>2, <1>3 DEF Account
<1> HIDE DEF m, B
<1>5. QED
  BY <1>1, <1>4 DEF B, v

\* What they come to: B is A with an output spent, or received.
IsSpent(B, A, id, i, s) ==
    LET io == <<"in", Len(A.ins) + 1>>
    IN  /\ B \in Account /\ io \in Entry
        /\ B.outs = [A.outs EXCEPT ![id] = [tx |-> i, by |-> s]]
        /\ B.balance = A.balance - Value[i] /\ B.valueIn = A.valueIn
        /\ s \in Wash => B.ins = A.ins /\ B.inouts = A.inouts /\ B.vio = A.vio
                         /\ B.valueOut = A.valueOut
        /\ s \notin Wash =>
              /\ B.ins = Append(A.ins, [tx |-> s, prev |-> i])
              /\ B.inouts = Append(A.inouts, io)
              /\ B.valueOut = A.valueOut + Value[i]
              /\ \E m \in BOOLEAN : (m => A.vio # <<>>) /\ B.vio = Adds(A.vio, io, m)

IsPaid(B, A, s) ==
    LET io == <<"out", Len(A.outs) + 1>>
    IN  /\ B \in Account /\ io \in Entry
        /\ B.outs = Append(A.outs, [tx |-> s, by |-> Unspent])
        /\ B.ins = A.ins
        /\ B.balance = A.balance + Value[s] /\ B.valueOut = A.valueOut
        /\ s \in Wash => B.inouts = A.inouts /\ B.vio = A.vio /\ B.valueIn = A.valueIn
        /\ s \notin Wash =>
              /\ B.inouts = Append(A.inouts, io)
              /\ B.valueIn = A.valueIn + Value[s]
              /\ \E m \in BOOLEAN : (m => A.vio # <<>>) /\ B.vio = Adds(A.vio, io, m)

LEMMA SpendFields ==
    ASSUME NEW A \in Account, Lists(A), NEW id, id \in 1..Len(A.outs), NEW i \in Tx, NEW s \in Tx
    PROVE  IsSpent(Spend(A, id, i, s), A, id, i, s)
<1> DEFINE io == <<"in", Len(A.ins) + 1>>
           A1 == SetSpent(A, id, i, s)
           A2 == [A1 EXCEPT !.balance = @ - Value[i]]
           A2a == [A2 EXCEPT !.ins = Append(@, [tx |-> s, prev |-> i])]
           A3 == [A2a EXCEPT !.inouts = Append(@, io)]
           A4 == AddToList(A3, s, io)
           A5 == [A4 EXCEPT !.valueOut = @ + Value[i]]
<1>0. /\ Value[i] \in Nat /\ io \in Entry
      /\ A.outs \in Seq([tx : Tx, by : Tx \cup {Unspent}]) /\ A.ins \in Seq([tx : Tx, prev : Tx])
      /\ A.inouts \in Seq(Entry) /\ A.balance \in Int /\ A.valueOut \in Nat /\ A.vio \in Seq(Seq(Entry))
  BY ExploreAssumption DEF Account, Entry
<1>1. /\ A1 \in Account /\ A1.outs = [A.outs EXCEPT ![id] = [tx |-> i, by |-> s]]
      /\ A1.ins = A.ins /\ A1.inouts = A.inouts /\ A1.vio = A.vio
      /\ A1.balance = A.balance /\ A1.valueIn = A.valueIn /\ A1.valueOut = A.valueOut
  <2>1. [A.outs EXCEPT ![id] = [tx |-> i, by |-> s]] \in Seq([tx : Tx, by : Tx \cup {Unspent}])
    BY <1>0
  <2> QED BY <1>0, <2>1 DEF SetSpent, Account
<1> HIDE DEF A1
<1>2. /\ A2 \in Account /\ A2.outs = A1.outs
      /\ A2.ins = A.ins /\ A2.inouts = A.inouts /\ A2.vio = A.vio
      /\ A2.balance = A.balance - Value[i] /\ A2.valueIn = A.valueIn /\ A2.valueOut = A.valueOut
  <2> DEFINE v == A.balance - Value[i]
  <2>1. v \in Int /\ A2 = [A1 EXCEPT !.balance = v]
    BY <1>0, <1>1
  <2> HIDE DEF v, A2
  <2>2. A2 \in Account /\ A2.balance = v
    BY <1>1, <2>1, SetBalance
  <2> QED BY <1>1, <2>1, <2>2, SetBalance DEF v
<1> HIDE DEF A2
<1>3. /\ A2a \in Account /\ A2a.outs = A1.outs
      /\ A2a.ins = Append(A.ins, [tx |-> s, prev |-> i]) /\ A2a.inouts = A.inouts /\ A2a.vio = A.vio
      /\ A2a.balance = A.balance - Value[i] /\ A2a.valueIn = A.valueIn /\ A2a.valueOut = A.valueOut
  <2> DEFINE v == Append(A.ins, [tx |-> s, prev |-> i])
  <2>1. v \in Seq([tx : Tx, prev : Tx]) /\ A2a = [A2 EXCEPT !.ins = v]
    BY <1>0, <1>2
  <2> HIDE DEF v, A2a
  <2>2. A2a \in Account /\ A2a.ins = v
    BY <1>2, <2>1, SetIns
  <2> QED BY <1>2, <2>1, <2>2, SetIns DEF v
<1> HIDE DEF A2a
<1>4. /\ A3 \in Account /\ A3.outs = A1.outs
      /\ A3.ins = A2a.ins /\ A3.inouts = Append(A.inouts, io) /\ A3.vio = A.vio
      /\ A3.balance = A.balance - Value[i] /\ A3.valueIn = A.valueIn /\ A3.valueOut = A.valueOut
  <2> HIDE DEF io
  <2> DEFINE v == Append(A.inouts, io)
  <2>1. v \in Seq(Entry) /\ A3 = [A2a EXCEPT !.inouts = v]
    BY <1>0, <1>3
  <2> HIDE DEF v, A3
  <2>2. A3 \in Account /\ A3.inouts = v
    BY <1>3, <2>1, SetInouts
  <2> QED BY <1>3, <2>1, <2>2, SetInouts DEF v
<1> HIDE DEF A3, io
<1>5. /\ A4 \in Account /\ A4.outs = A1.outs
      /\ A4.ins = A2a.ins /\ A4.inouts = Append(A.inouts, io)
      /\ A4.balance = A.balance - Value[i] /\ A4.valueIn = A.valueIn /\ A4.valueOut = A.valueOut
      /\ \E m \in BOOLEAN : (m => A.vio # <<>>) /\ A4.vio = Adds(A.vio, io, m)
  <2>1. \A k \in 1..Len(A3.vio) : Len(A3.vio[k]) >= 1
    BY <1>4 DEF Lists
  <2>2. /\ A4 \in Account
        /\ A4.outs = A3.outs /\ A4.ins = A3.ins /\ A4.inouts = A3.inouts
        /\ A4.balance = A3.balance /\ A4.valueIn = A3.valueIn /\ A4.valueOut = A3.valueOut
        /\ \E m \in BOOLEAN : (m => A3.vio # <<>>) /\ A4.vio = Adds(A3.vio, io, m)
    BY <1>0, <1>4, <2>1, AddToListFields
  <2> HIDE DEF A4
  <2> QED BY <1>4, <2>2
<1> HIDE DEF A4
<1>6. /\ A5 \in Account /\ A5.outs = A1.outs
      /\ A5.ins = A2a.ins /\ A5.inouts = Append(A.inouts, io) /\ A5.vio = A4.vio
      /\ A5.balance = A.balance - Value[i] /\ A5.valueIn = A.valueIn
      /\ A5.valueOut = A.valueOut + Value[i]
  <2> DEFINE v == A.valueOut + Value[i]
  <2>1. v \in Nat /\ A5 = [A4 EXCEPT !.valueOut = v]
    BY <1>0, <1>5
  <2> HIDE DEF v, A5
  <2>2. A5 \in Account /\ A5.valueOut = v
    BY <1>5, <2>1, SetValueOut
  <2> QED BY <1>5, <2>1, <2>2, SetValueOut DEF v
<1>7. Spend(A, id, i, s) = IF s \notin Wash THEN A5 ELSE A2
  BY DEF Spend, A4, A3, A2a, A2, A1, io
<1> HIDE DEF A5
<1>8. CASE s \in Wash
  BY <1>0, <1>1, <1>2, <1>7, <1>8 DEF io, IsSpent
<1>9. CASE s \notin Wash
  BY <1>0, <1>1, <1>3, <1>5, <1>6, <1>7, <1>9 DEF io, IsSpent
<1>10. QED
  BY <1>8, <1>9

LEMMA ReceiveFields ==
    ASSUME NEW A \in Account, Lists(A), NEW s \in Tx
    PROVE  IsPaid(Receive(A, s), A, s)
<1> DEFINE io == <<"out", Len(A.outs) + 1>>
           A1a == [A EXCEPT !.balance = @ + Value[s]]
           A1 == [A1a EXCEPT !.outs = Append(@, [tx |-> s, by |-> Unspent])]
           A3 == [A1 EXCEPT !.inouts = Append(@, io)]
           A4 == AddToList(A3, s, io)
           A5 == [A4 EXCEPT !.valueIn = @ + Value[s]]
<1>0. /\ Value[s] \in Nat /\ io \in Entry
      /\ A.outs \in Seq([tx : Tx, by : Tx \cup {Unspent}]) /\ A.ins \in Seq([tx : Tx, prev : Tx])
      /\ A.inouts \in Seq(Entry) /\ A.balance \in Int /\ A.valueIn \in Nat /\ A.vio \in Seq(Seq(Entry))
  BY ExploreAssumption DEF Account, Entry
<1>1. /\ A1a \in Account /\ A1a.outs = A.outs
      /\ A1a.ins = A.ins /\ A1a.inouts = A.inouts /\ A1a.vio = A.vio
      /\ A1a.balance = A.balance + Value[s] /\ A1a.valueIn = A.valueIn /\ A1a.valueOut = A.valueOut
  <2> DEFINE v == A.balance + Value[s]
  <2>1. v \in Int /\ A1a = [A EXCEPT !.balance = v]
    BY <1>0
  <2> HIDE DEF v, A1a
  <2>2. A1a \in Account /\ A1a.balance = v
    BY <2>1, SetBalance
  <2> QED BY <2>1, <2>2, SetBalance DEF v
<1> HIDE DEF A1a
<1>2. /\ A1 \in Account /\ A1.outs = Append(A.outs, [tx |-> s, by |-> Unspent])
      /\ A1.ins = A.ins /\ A1.inouts = A.inouts /\ A1.vio = A.vio
      /\ A1.balance = A.balance + Value[s] /\ A1.valueIn = A.valueIn /\ A1.valueOut = A.valueOut
  <2> DEFINE v == Append(A.outs, [tx |-> s, by |-> Unspent])
  <2>1. v \in Seq([tx : Tx, by : Tx \cup {Unspent}]) /\ A1 = [A1a EXCEPT !.outs = v]
    BY <1>0, <1>1
  <2> HIDE DEF v, A1
  <2>2. A1 \in Account /\ A1.outs = v
    BY <1>1, <2>1, SetOuts
  <2> QED BY <1>1, <2>1, <2>2, SetOuts DEF v
<1> HIDE DEF A1
<1>4. /\ A3 \in Account /\ A3.outs = A1.outs
      /\ A3.ins = A.ins /\ A3.inouts = Append(A.inouts, io) /\ A3.vio = A.vio
      /\ A3.balance = A.balance + Value[s] /\ A3.valueIn = A.valueIn /\ A3.valueOut = A.valueOut
  <2> HIDE DEF io
  <2> DEFINE v == Append(A.inouts, io)
  <2>1. v \in Seq(Entry) /\ A3 = [A1 EXCEPT !.inouts = v]
    BY <1>0, <1>2
  <2> HIDE DEF v, A3
  <2>2. A3 \in Account /\ A3.inouts = v
    BY <1>2, <2>1, SetInouts
  <2> QED BY <1>2, <2>1, <2>2, SetInouts DEF v
<1> HIDE DEF A3, io
<1>5. /\ A4 \in Account /\ A4.outs = A1.outs
      /\ A4.ins = A.ins /\ A4.inouts = Append(A.inouts, io)
      /\ A4.balance = A.balance + Value[s] /\ A4.valueIn = A.valueIn /\ A4.valueOut = A.valueOut
      /\ \E m \in BOOLEAN : (m => A.vio # <<>>) /\ A4.vio = Adds(A.vio, io, m)
  <2>1. \A k \in 1..Len(A3.vio) : Len(A3.vio[k]) >= 1
    BY <1>4 DEF Lists
  <2>2. /\ A4 \in Account
        /\ A4.outs = A3.outs /\ A4.ins = A3.ins /\ A4.inouts = A3.inouts
        /\ A4.balance = A3.balance /\ A4.valueIn = A3.valueIn /\ A4.valueOut = A3.valueOut
        /\ \E m \in BOOLEAN : (m => A3.vio # <<>>) /\ A4.vio = Adds(A3.vio, io, m)
    BY <1>0, <1>4, <2>1, AddToListFields
  <2> HIDE DEF A4
  <2> QED BY <1>4, <2>2
<1> HIDE DEF A4
<1>6. /\ A5 \in Account /\ A5.outs = A1.outs
      /\ A5.ins = A.ins /\ A5.inouts = Append(A.inouts, io) /\ A5.vio = A4.vio
      /\ A5.balance = A.balance + Value[s] /\ A5.valueOut = A.valueOut
      /\ A5.valueIn = A.valueIn + Value[s]
  <2> DEFINE v == A.valueIn + Value[s]
  <2>1. v \in Nat /\ A5 = [A4 EXCEPT !.valueIn = v]
    BY <1>0, <1>5
  <2> HIDE DEF v, A5
  <2>2. A5 \in Account /\ A5.valueIn = v
    BY <1>5, <2>1, SetValueIn
  <2> QED BY <1>5, <2>1, <2>2, SetValueIn DEF v
<1>7. Receive(A, s) = IF s \notin Wash THEN A5 ELSE A1
  BY DEF Receive, A4, A3, A1, A1a, io
<1> HIDE DEF A5
<1>8. CASE s \in Wash
  BY <1>0, <1>1, <1>2, <1>7, <1>8 DEF io, IsPaid
<1>9. CASE s \notin Wash
  BY <1>0, <1>2, <1>5, <1>6, <1>7, <1>9 DEF io, IsPaid
<1>10. QED
  BY <1>8, <1>9

\* A record that is not there yet heads no list.
LEMMA NotDuplicate ==
    ASSUME NEW A \in Account, Lists(A), NEW B, B.vio = A.vio,
           NEW io, io = <<"in", Len(A.ins) + 1>> \/ io = <<"out", Len(A.outs) + 1>>
    PROVE  ~Duplicate(B, io)
<1> DEFINE l == A.vio
           n == Len(l)
           q == l[n]
<1>1. l \in Seq(Seq(Entry)) /\ Len(A.ins) \in Nat /\ Len(A.outs) \in Nat
  BY DEF Account
<1>2. SUFFICES ASSUME l # <<>>, Head(Last(l)) = io PROVE FALSE
  BY DEF Duplicate
<1>3. n \in 1..n /\ q \in Seq(Entry) /\ Last(l) = q
  BY <1>1, <1>2 DEF Last
<1>4. /\ Len(q) >= 1
      /\ q[1][2] <= IF q[1][1] = "in" THEN Len(A.ins) ELSE Len(A.outs)
  BY <1>3 DEF Lists
<1> HIDE DEF q
<1>5. q[1] = io
  BY <1>2, <1>3, <1>4
<1>6. QED
  BY <1>1, <1>4, <1>5

LEMMA SpendLists ==
    ASSUME NEW A \in Account, Lists(A), NEW id, id \in 1..Len(A.outs), NEW i \in Tx, NEW s \in Tx
    PROVE  Lists(Spend(A, id, i, s))
<1> DEFINE B == Spend(A, id, i, s)
           io == <<"in", Len(A.ins) + 1>>
<1>0. /\ A.vio \in Seq(Seq(Entry)) /\ Len(A.ins) \in Nat /\ Len(A.outs) \in Nat
      /\ A.ins \in Seq([tx : Tx, prev : Tx])
      /\ A.outs \in Seq([tx : Tx, by : Tx \cup {Unspent}])
  BY DEF Account
<1>a. IsSpent(B, A, id, i, s)
  BY SpendFields
<1> HIDE DEF B
<1>1. Len(B.outs) = Len(A.outs)
  <2>1. B.outs = [A.outs EXCEPT ![id] = [tx |-> i, by |-> s]]
    BY <1>a DEF IsSpent
  <2> QED BY <1>0, <2>1
<1>2. CASE s \in Wash
  <2>1. B.ins = A.ins /\ B.vio = A.vio
    BY <1>2, <1>a DEF IsSpent
  <2>2. Lists(B)
    BY <1>1, <2>1 DEF Lists
  <2> QED BY <2>2 DEF B
<1>3. CASE s \notin Wash
  <2>1. PICK m \in BOOLEAN : (m => A.vio # <<>>) /\ B.vio = Adds(A.vio, io, m)
    BY <1>3, <1>a DEF IsSpent
  <2>2. Len(B.ins) = Len(A.ins) + 1 /\ io \in Entry
    <3>1. B.ins = Append(A.ins, [tx |-> s, prev |-> i]) /\ io \in Entry
      BY <1>3, <1>a DEF IsSpent
    <3> QED BY <1>0, <3>1
  <2>3. \A k \in 1..Len(A.vio) : Len(A.vio[k]) >= 1
    BY DEF Lists
  <2>4. \A k \in 1..Len(B.vio) : /\ Len(B.vio[k]) >= 1
                                 /\ B.vio[k][1] = IF k \in 1..Len(A.vio) THEN A.vio[k][1] ELSE io
    <3>1. IsListed(B.vio, A.vio, io)
      <4> HIDE DEF io
      <4> QED BY <1>0, <2>1, <2>2, <2>3, ListUndo
    <3> QED BY <3>1 DEF IsListed
  <2>5. ASSUME NEW k \in 1..Len(B.vio)
        PROVE  B.vio[k][1][2] <= IF B.vio[k][1][1] = "in" THEN Len(B.ins) ELSE Len(B.outs)
    <3>1. CASE k \in 1..Len(A.vio)
      <4> DEFINE e == A.vio[k][1]
      <4>1. B.vio[k][1] = e
        BY <2>4, <3>1
      <4>2. e[2] <= IF e[1] = "in" THEN Len(A.ins) ELSE Len(A.outs)
        BY <3>1 DEF Lists
      <4>3. e[2] \in Nat
        <5>1. A.vio[k] \in Seq(Entry) /\ Len(A.vio[k]) >= 1
          BY <1>0, <2>3, <3>1
        <5>2. e \in Entry
          BY <5>1
        <5> HIDE DEF e
        <5> QED BY <5>2 DEF Entry
      <4> HIDE DEF e
      <4> QED BY <1>0, <1>1, <2>2, <4>1, <4>2, <4>3
    <3>2. CASE k \notin 1..Len(A.vio)
      <4>1. B.vio[k][1] = io
        BY <2>4, <3>2
      <4>2. io[1] = "in" /\ io[2] = Len(A.ins) + 1
        OBVIOUS
      <4> HIDE DEF io
      <4> QED BY <1>0, <2>2, <4>1, <4>2
    <3> QED BY <3>1, <3>2
  <2>6. Lists(B)
    BY <2>4, <2>5 DEF Lists
  <2> QED BY <2>6 DEF B
<1>4. QED
  BY <1>2, <1>3

LEMMA ReceiveLists ==
    ASSUME NEW A \in Account, Lists(A), NEW s \in Tx
    PROVE  Lists(Receive(A, s))
<1> DEFINE B == Receive(A, s)
           io == <<"out", Len(A.outs) + 1>>
<1>0. /\ A.vio \in Seq(Seq(Entry)) /\ Len(A.ins) \in Nat /\ Len(A.outs) \in Nat
      /\ A.outs \in Seq([tx : Tx, by : Tx \cup {Unspent}])
  BY DEF Account
<1>a. IsPaid(B, A, s)
  BY ReceiveFields
<1> HIDE DEF B
<1>1. Len(B.outs) = Len(A.outs) + 1 /\ B.ins = A.ins
  <2>1. B.outs = Append(A.outs, [tx |-> s, by |-> Unspent]) /\ B.ins = A.ins
    BY <1>a DEF IsPaid
  <2> QED BY <1>0, <2>1
<1>2. ASSUME NEW k \in 1..Len(A.vio)
      PROVE  /\ Len(A.vio[k]) >= 1
             /\ A.vio[k][1][2] <= IF A.vio[k][1][1] = "in" THEN Len(B.ins) ELSE Len(B.outs)
  <2> DEFINE e == A.vio[k][1]
  <2>1. Len(A.vio[k]) >= 1 /\ e[2] <= IF e[1] = "in" THEN Len(A.ins) ELSE Len(A.outs)
    BY DEF Lists
  <2>2. e[2] \in Nat
    <3>1. A.vio[k] \in Seq(Entry) /\ Len(A.vio[k]) >= 1
      BY <1>0, <2>1
    <3>2. e \in Entry
      BY <3>1
    <3> HIDE DEF e
    <3> QED BY <3>2 DEF Entry
  <2> HIDE DEF e
  <2>3. e[2] <= IF e[1] = "in" THEN Len(B.ins) ELSE Len(B.outs)
    BY <1>0, <1>1, <2>1, <2>2
  <2> QED BY <2>1, <2>3 DEF e
<1>3. CASE s \in Wash
  <2>1. B.vio = A.vio
    BY <1>3, <1>a DEF IsPaid
  <2>2. Lists(B)
    BY <1>2, <2>1 DEF Lists
  <2> QED BY <2>2 DEF B
<1>4. CASE s \notin Wash
  <2>1. PICK m \in BOOLEAN : (m => A.vio # <<>>) /\ B.vio = Adds(A.vio, io, m)
    BY <1>4, <1>a DEF IsPaid
  <2>2. io \in Entry
    BY <1>0 DEF Entry
  <2>4. \A k \in 1..Len(B.vio) : /\ Len(B.vio[k]) >= 1
                                 /\ B.vio[k][1] = IF k \in 1..Len(A.vio) THEN A.vio[k][1] ELSE io
    <3>1. IsListed(B.vio, A.vio, io)
      <4> HIDE DEF io
      <4> QED BY <1>0, <1>2, <2>1, <2>2, ListUndo
    <3> QED BY <3>1 DEF IsListed
  <2>5. ASSUME NEW k \in 1..Len(B.vio)
        PROVE  B.vio[k][1][2] <= IF B.vio[k][1][1] = "in" THEN Len(B.ins) ELSE Len(B.outs)
    <3>1. CASE k \in 1..Len(A.vio)
      BY <1>2, <2>4, <3>1
    <3>2. CASE k \notin 1..Len(A.vio)
      <4>1. B.vio[k][1] = io
        BY <2>4, <3>2
      <4>2. io[1] = "out" /\ io[2] = Len(A.outs) + 1
        OBVIOUS
      <4> HIDE DEF io
      <4> QED BY <1>0, <1>1, <4>1, <4>2
    <3> QED BY <3>1, <3>2
  <2>6. Lists(B)
    BY <2>4, <2>5 DEF Lists
  <2> QED BY <2>6 DEF B
<1>5. QED
  BY <1>3, <1>4

\* The records after DisconnectInput and DisconnectOutput, when all goes well, and the
\* checks that have to pass for it.
Unspend(A, id, i, s) ==
    LET A1 == [A EXCEPT !.ins = Front(@)]
        A2 == [A1 EXCEPT !.inouts = Front(@)]
        A3 == IF s \notin Wash THEN DropList(A2) ELSE A
        A4 == SetSpent(A3, id, i, Unspent)
        A5 == [A4 EXCEPT !.balance = @ + Value[i]]
    IN  IF s \notin Wash THEN [A5 EXCEPT !.valueOut = @ - Value[i]] ELSE A5

CanUnspend(A, id, i, s) ==
    /\ HasOutput(A, id, i) /\ A.outs[id].by = s
    /\ s \notin Wash => /\ A.ins # <<>> /\ Last(A.ins) = [tx |-> s, prev |-> i]
                        /\ InOutIsLast(A, <<"in", Len(A.ins)>>)
                        /\ ListedLast(A, <<"in", Len(A.ins)>>)
                        /\ ~(Value[i] > A.valueOut)

Return(A, s) ==
    LET A2 == [A EXCEPT !.outs = Front(@)]
        A3 == [A2 EXCEPT !.inouts = Front(@)]
        A4 == IF s \notin Wash THEN DropList(A3) ELSE A2
        A5 == [A4 EXCEPT !.balance = @ - Value[s]]
    IN  IF s \notin Wash THEN [A5 EXCEPT !.valueIn = @ - Value[s]] ELSE A5

CanReturn(A, s) ==
    LET id == Len(A.outs)
    IN  /\ HasOutput(A, id, s) /\ A.outs[id].by = Unspent
        /\ ~(Value[s] > A.balance)
        /\ s \notin Wash => /\ InOutIsLast(A, <<"out", id>>)
                            /\ ListedLast(A, <<"out", id>>)
                            /\ ~(Value[s] > A.valueIn)

LEMMA SpendUndone ==
    ASSUME NEW A \in Account, Lists(A), NEW id, id \in 1..Len(A.outs), NEW i \in Tx, NEW s \in Tx,
           A.outs[id] = [tx |-> i, by |-> Unspent], NEW B, IsSpent(B, A, id, i, s)
    PROVE  CanUnspend(B, id, i, s) /\ Unspend(B, id, i, s) = A
<1> DEFINE io == <<"in", Len(A.ins) + 1>>
           A1 == [B EXCEPT !.ins = Front(@)]
           A2 == [A1 EXCEPT !.inouts = Front(@)]
           A3 == IF s \notin Wash THEN DropList(A2) ELSE B
           A4 == SetSpent(A3, id, i, Unspent)
           A5 == [A4 EXCEPT !.balance = @ + Value[i]]
           A6 == [A5 EXCEPT !.valueOut = @ - Value[i]]
<1>0. /\ Value[i] \in Nat /\ io \in Entry /\ B \in Account
      /\ A.outs \in Seq([tx : Tx, by : Tx \cup {Unspent}]) /\ A.ins \in Seq([tx : Tx, prev : Tx])
      /\ A.inouts \in Seq(Entry) /\ A.balance \in Int /\ A.valueOut \in Nat /\ A.vio \in Seq(Seq(Entry))
  BY ExploreAssumption DEF Account, IsSpent
<1>1. /\ B.outs = [A.outs EXCEPT ![id] = [tx |-> i, by |-> s]]
      /\ B.balance = A.balance - Value[i] /\ B.valueIn = A.valueIn
  BY DEF IsSpent
<1>2. /\ HasOutput(B, id, i) /\ B.outs[id].by = s
      /\ [B.outs EXCEPT ![id] = [tx |-> i, by |-> Unspent]] = A.outs
  <2>1. B.outs[id] = [tx |-> i, by |-> s] /\ Len(B.outs) = Len(A.outs) /\ Len(A.outs) \in Nat
    BY <1>0, <1>1
  <2>2. [B.outs EXCEPT ![id] = [tx |-> i, by |-> Unspent]] = A.outs
    <3> DEFINE o == [tx |-> i, by |-> s]
    <3>1. B.outs = [A.outs EXCEPT ![id] = o]
      BY <1>1
    <3> DEFINE E == [tx : Tx, by : Tx \cup {Unspent}]
               q == A.outs
               y == [tx |-> i, by |-> Unspent]
    <3>2. q \in Seq(E) /\ id \in 1..Len(q) /\ B.outs = [q EXCEPT ![id] = o] /\ y = q[id]
      BY <1>0, <3>1
    <3> HIDE DEF o, E, q, y
    <3> DEFINE r == B.outs
    <3>3. q = [j \in 1..Len(q) |-> q[j]]
      BY <3>2
    <3>4. r = [j \in 1..Len(q) |-> IF j = id THEN o ELSE q[j]]
      BY <3>2, <3>3
    <3> HIDE DEF r
    <3>5. [r EXCEPT ![id] = y] = [j \in 1..Len(q) |-> IF j = id THEN y ELSE r[j]]
      BY <3>4
    <3>6. \A j \in 1..Len(q) : q[j] = IF j = id THEN y ELSE r[j]
      BY <3>2, <3>4
    <3>7. [r EXCEPT ![id] = y] = q
      BY <3>3, <3>5, <3>6
    <3> QED BY <3>7 DEF q, r, y
  <2> QED BY <2>1, <2>2 DEF HasOutput
<1>3. ASSUME s \notin Wash
      PROVE  /\ B.ins # <<>> /\ Last(B.ins) = [tx |-> s, prev |-> i] /\ Front(B.ins) = A.ins
             /\ B.inouts # <<>> /\ Last(B.inouts) = io /\ Front(B.inouts) = A.inouts
             /\ io = <<"in", Len(B.ins)>>
             /\ B.valueOut = A.valueOut + Value[i] /\ ~(Value[i] > B.valueOut)
             /\ IsListed(B.vio, A.vio, io)
  <2>1. /\ B.ins = Append(A.ins, [tx |-> s, prev |-> i]) /\ B.inouts = Append(A.inouts, io)
        /\ B.valueOut = A.valueOut + Value[i]
    BY <1>3 DEF IsSpent
  <2>2. /\ B.ins # <<>> /\ Last(B.ins) = [tx |-> s, prev |-> i] /\ Front(B.ins) = A.ins
        /\ Len(B.ins) = Len(A.ins) + 1
    <3> DEFINE o == [tx |-> s, prev |-> i]
    <3>1. o \in [tx : Tx, prev : Tx] /\ B.ins = Append(A.ins, o)
      BY <2>1
    <3> HIDE DEF o
    <3>2. EndsIn(B.ins, A.ins, o)
      BY <1>0, <3>1, FrontOfAppend
    <3> QED BY <3>2 DEF EndsIn, o
  <2>3. B.inouts # <<>> /\ Last(B.inouts) = io /\ Front(B.inouts) = A.inouts
    <3> HIDE DEF io
    <3>1. EndsIn(B.inouts, A.inouts, io)
      BY <1>0, <2>1, FrontOfAppend
    <3> QED BY <3>1 DEF EndsIn
  <2>4. IsListed(B.vio, A.vio, io)
    <3>1. PICK m \in BOOLEAN : (m => A.vio # <<>>) /\ B.vio = Adds(A.vio, io, m)
      BY <1>3 DEF IsSpent
    <3>2. \A k \in 1..Len(A.vio) : Len(A.vio[k]) >= 1
      BY DEF Lists
    <3> HIDE DEF io
    <3> QED BY <1>0, <3>1, <3>2, ListUndo
  <2>5. ~(Value[i] > B.valueOut)
    BY <1>0, <2>1
  <2> QED BY <2>1, <2>2, <2>3, <2>4, <2>5
<1>4. CanUnspend(B, id, i, s)
  <2>1. s \notin Wash => InOutIsLast(B, <<"in", Len(B.ins)>>) /\ ListedLast(B, <<"in", Len(B.ins)>>)
    <3> HIDE DEF io
    <3> QED BY <1>3 DEF InOutIsLast, ListedLast, IsListed
  <2> HIDE DEF io
  <2> QED BY <1>2, <1>3, <2>1 DEF CanUnspend
<1>5. /\ A3 \in Account /\ A3.outs = B.outs /\ A3.ins = A.ins /\ A3.inouts = A.inouts
      /\ A3.vio = A.vio /\ A3.balance = B.balance /\ A3.valueIn = B.valueIn
      /\ A3.valueOut = B.valueOut
  <2>1. CASE s \in Wash
    BY <1>0, <2>1 DEF IsSpent
  <2>2. CASE s \notin Wash
    <3>1. A1 = [B EXCEPT !.ins = A.ins]
      BY <1>3, <2>2
    <3> HIDE DEF A1
    <3>2. A1.inouts = B.inouts /\ A1 \in Account
      BY <1>0, <3>1, SetIns
    <3>3. A2 = [A1 EXCEPT !.inouts = A.inouts]
      BY <1>3, <2>2, <3>2
    <3> HIDE DEF A2
    <3>4. A2.vio = B.vio /\ A2 \in Account
      <4>1. A1.vio = B.vio
        BY <1>0, <3>1, SetIns
      <4> QED BY <1>0, <3>2, <3>3, <4>1, SetInouts
    <3>5. A3 = [A2 EXCEPT !.vio = A.vio]
      <4>1. Drops(B.vio) = A.vio
        BY <1>3, <2>2 DEF IsListed
      <4>2. DropList(A2) = [A2 EXCEPT !.vio = Drops(A2.vio)]
        BY DEF DropList, Drops
      <4> QED BY <2>2, <3>4, <4>1, <4>2
    <3> HIDE DEF A3
    <3>6. /\ A1.outs = B.outs /\ A1.ins = A.ins /\ A1.balance = B.balance
          /\ A1.valueIn = B.valueIn /\ A1.valueOut = B.valueOut
      BY <1>0, <3>1, SetIns
    <3>7. /\ A2.outs = B.outs /\ A2.ins = A.ins /\ A2.inouts = A.inouts /\ A2.balance = B.balance
          /\ A2.valueIn = B.valueIn /\ A2.valueOut = B.valueOut
      BY <1>0, <3>2, <3>3, <3>6, SetInouts
    <3> QED BY <1>0, <3>4, <3>5, <3>7, SetVio
  <2> QED BY <2>1, <2>2
<1> HIDE DEF A3
<1>6. /\ A4 \in Account /\ A4.outs = A.outs /\ A4.ins = A.ins /\ A4.inouts = A.inouts
      /\ A4.vio = A.vio /\ A4.balance = B.balance /\ A4.valueIn = A.valueIn
      /\ A4.valueOut = B.valueOut
  <2>1. A4 = [A3 EXCEPT !.outs = A.outs]
    BY <1>2, <1>5 DEF SetSpent
  <2> HIDE DEF A4
  <2> QED BY <1>0, <1>1, <1>5, <2>1, SetOuts
<1> HIDE DEF A4
<1>7. /\ A5 \in Account /\ A5.outs = A.outs /\ A5.ins = A.ins /\ A5.inouts = A.inouts
      /\ A5.vio = A.vio /\ A5.balance = A.balance /\ A5.valueIn = A.valueIn
      /\ A5.valueOut = B.valueOut
  <2>1. A5 = [A4 EXCEPT !.balance = A.balance]
    <3>1. B.balance + Value[i] = A.balance
      BY <1>0, <1>1
    <3> QED BY <1>6, <3>1
  <2> HIDE DEF A5
  <2> QED BY <1>0, <1>6, <2>1, SetBalance
<1> HIDE DEF A5
<1>8. Unspend(B, id, i, s) = IF s \notin Wash THEN A6 ELSE A5
  BY DEF Unspend, A5, A4, A3
<1>9. CASE s \in Wash
  <2>1. A5.valueOut = A.valueOut
    BY <1>7, <1>9 DEF IsSpent
  <2>2. A5 = A
    BY <1>7, <2>1, SameAccount
  <2> QED BY <1>4, <1>8, <1>9, <2>2
<1>10. CASE s \notin Wash
  <2>1. A6 = [A5 EXCEPT !.valueOut = A.valueOut]
    <3>1. B.valueOut - Value[i] = A.valueOut
      BY <1>0, <1>3, <1>10
    <3> QED BY <1>7, <3>1
  <2> HIDE DEF A6
  <2>2. /\ A6 \in Account /\ A6.outs = A.outs /\ A6.ins = A.ins /\ A6.inouts = A.inouts
        /\ A6.vio = A.vio /\ A6.balance = A.balance /\ A6.valueIn = A.valueIn
        /\ A6.valueOut = A.valueOut
    BY <1>0, <1>7, <2>1, SetValueOut
  <2>3. A6 = A
    BY <2>2, SameAccount
  <2> QED BY <1>4, <1>8, <1>10, <2>3
<1>11. QED
  BY <1>9, <1>10

LEMMA ReceiveUndone ==
    ASSUME NEW A \in Account, Lists(A), NEW s \in Tx, A.balance >= 0,
           NEW B, IsPaid(B, A, s)
    PROVE  CanReturn(B, s) /\ Return(B, s) = A /\ Len(B.outs) = Len(A.outs) + 1
<1> DEFINE io == <<"out", Len(A.outs) + 1>>
           A2 == [B EXCEPT !.outs = Front(@)]
           A3 == [A2 EXCEPT !.inouts = Front(@)]
           A4 == IF s \notin Wash THEN DropList(A3) ELSE A2
           A5 == [A4 EXCEPT !.balance = @ - Value[s]]
           A6 == [A5 EXCEPT !.valueIn = @ - Value[s]]
<1>0. /\ Value[s] \in Nat /\ io \in Entry /\ B \in Account
      /\ A.outs \in Seq([tx : Tx, by : Tx \cup {Unspent}]) /\ A.ins \in Seq([tx : Tx, prev : Tx])
      /\ A.inouts \in Seq(Entry) /\ A.balance \in Int /\ A.valueIn \in Nat /\ A.vio \in Seq(Seq(Entry))
  BY ExploreAssumption DEF Account, IsPaid
<1>1. /\ B.outs = Append(A.outs, [tx |-> s, by |-> Unspent]) /\ B.ins = A.ins
      /\ B.balance = A.balance + Value[s] /\ B.valueOut = A.valueOut
  BY DEF IsPaid
<1>2. /\ HasOutput(B, Len(B.outs), s) /\ B.outs[Len(B.outs)].by = Unspent
      /\ Front(B.outs) = A.outs /\ Len(B.outs) = Len(A.outs) + 1
  <2> DEFINE o == [tx |-> s, by |-> Unspent]
  <2>1. o \in [tx : Tx, by : Tx \cup {Unspent}] /\ o.tx = s /\ o.by = Unspent
    OBVIOUS
  <2> HIDE DEF o
  <2>2. B.outs = Append(A.outs, o)
    BY <1>1 DEF o
  <2>3. Front(B.outs) = A.outs /\ Len(B.outs) = Len(A.outs) + 1 /\ Last(B.outs) = o
    <3>1. EndsIn(B.outs, A.outs, o)
      BY <1>0, <2>1, <2>2, FrontOfAppend
    <3> QED BY <3>1 DEF EndsIn
  <2>4. Len(A.outs) \in Nat
    BY <1>0
  <2> QED BY <2>1, <2>3, <2>4 DEF HasOutput, Last
<1>3. ASSUME s \notin Wash
      PROVE  /\ B.inouts # <<>> /\ Last(B.inouts) = io /\ Front(B.inouts) = A.inouts
             /\ B.valueIn = A.valueIn + Value[s] /\ ~(Value[s] > B.valueIn)
             /\ IsListed(B.vio, A.vio, io)
  <2>1. B.inouts = Append(A.inouts, io) /\ B.valueIn = A.valueIn + Value[s]
    BY <1>3 DEF IsPaid
  <2>3. B.inouts # <<>> /\ Last(B.inouts) = io /\ Front(B.inouts) = A.inouts
    <3> HIDE DEF io
    <3>1. EndsIn(B.inouts, A.inouts, io)
      BY <1>0, <2>1, FrontOfAppend
    <3> QED BY <3>1 DEF EndsIn
  <2>4. IsListed(B.vio, A.vio, io)
    <3>1. PICK m \in BOOLEAN : (m => A.vio # <<>>) /\ B.vio = Adds(A.vio, io, m)
      BY <1>3 DEF IsPaid
    <3>2. \A k \in 1..Len(A.vio) : Len(A.vio[k]) >= 1
      BY DEF Lists
    <3> HIDE DEF io
    <3> QED BY <1>0, <3>1, <3>2, ListUndo
  <2>5. ~(Value[s] > B.valueIn)
    BY <1>0, <2>1
  <2> QED BY <2>1, <2>3, <2>4, <2>5
<1>4. CanReturn(B, s)
  <2>1. io = <<"out", Len(B.outs)>>
    BY <1>2
  <2> HIDE DEF io
  <2>2. s \notin Wash => InOutIsLast(B, <<"out", Len(B.outs)>>) /\ ListedLast(B, <<"out", Len(B.outs)>>)
    BY <1>3, <2>1 DEF InOutIsLast, ListedLast, IsListed
  <2>3. ~(Value[s] > B.balance)
    BY <1>0, <1>1
  <2> QED BY <1>2, <1>3, <2>2, <2>3 DEF CanReturn
<1>5. /\ A2 \in Account /\ A2.outs = A.outs /\ A2.ins = A.ins /\ A2.inouts = B.inouts
      /\ A2.vio = B.vio /\ A2.balance = B.balance /\ A2.valueIn = B.valueIn
      /\ A2.valueOut = A.valueOut
  <2>1. A2 = [B EXCEPT !.outs = A.outs]
    BY <1>2
  <2> HIDE DEF A2
  <2> QED BY <1>0, <1>1, <2>1, SetOuts
<1> HIDE DEF A2
<1>6. /\ A4 \in Account /\ A4.outs = A.outs /\ A4.ins = A.ins /\ A4.inouts = A.inouts
      /\ A4.vio = A.vio /\ A4.balance = B.balance /\ A4.valueIn = B.valueIn
      /\ A4.valueOut = A.valueOut
  <2>1. CASE s \in Wash
    BY <1>5, <2>1 DEF IsPaid
  <2>2. CASE s \notin Wash
    <3>1. A3 = [A2 EXCEPT !.inouts = A.inouts]
      BY <1>3, <1>5, <2>2
    <3> HIDE DEF A3
    <3>2. /\ A3 \in Account /\ A3.outs = A.outs /\ A3.ins = A.ins /\ A3.inouts = A.inouts
          /\ A3.vio = B.vio /\ A3.balance = B.balance /\ A3.valueIn = B.valueIn
          /\ A3.valueOut = A.valueOut
      BY <1>0, <1>5, <3>1, SetInouts
    <3>3. A4 = [A3 EXCEPT !.vio = A.vio]
      <4>1. Drops(B.vio) = A.vio
        BY <1>3, <2>2 DEF IsListed
      <4>2. DropList(A3) = [A3 EXCEPT !.vio = Drops(A3.vio)]
        BY DEF DropList, Drops
      <4> QED BY <2>2, <3>2, <4>1, <4>2
    <3> HIDE DEF A4
    <3> QED BY <1>0, <3>2, <3>3, SetVio
  <2> QED BY <2>1, <2>2
<1> HIDE DEF A4
<1>7. /\ A5 \in Account /\ A5.outs = A.outs /\ A5.ins = A.ins /\ A5.inouts = A.inouts
      /\ A5.vio = A.vio /\ A5.balance = A.balance /\ A5.valueIn = B.valueIn
      /\ A5.valueOut = A.valueOut
  <2>1. A5 = [A4 EXCEPT !.balance = A.balance]
    <3>1. B.balance - Value[s] = A.balance
      BY <1>0, <1>1
    <3> QED BY <1>6, <3>1
  <2> HIDE DEF A5
  <2> QED BY <1>0, <1>6, <2>1, SetBalance
<1> HIDE DEF A5
<1>8. Return(B, s) = IF s \notin Wash THEN A6 ELSE A5
  BY DEF Return, A5, A4, A2
<1>9. CASE s \in Wash
  <2>1. A5.valueIn = A.valueIn
    BY <1>7, <1>9 DEF IsPaid
  <2>2. A5 = A
    BY <1>7, <2>1, SameAccount
  <2> QED BY <1>2, <1>4, <1>8, <1>9, <2>2
<1>10. CASE s \notin Wash
  <2>1. A6 = [A5 EXCEPT !.valueIn = A.valueIn]
    <3>1. B.valueIn - Value[s] = A.valueIn
      BY <1>0, <1>3, <1>10
    <3> QED BY <1>7, <3>1
  <2> HIDE DEF A6
  <2>2. /\ A6 \in Account /\ A6.outs = A.outs /\ A6.ins = A.ins /\ A6.inouts = A.inouts
        /\ A6.vio = A.vio /\ A6.balance = A.balance /\ A6.valueIn = A.valueIn
        /\ A6.valueOut = A.valueOut
    BY <1>0, <1>7, <2>1, SetValueIn
  <2>3. A6 = A
    BY <2>2, SameAccount
  <2> QED BY <1>2, <1>4, <1>8, <1>10, <2>3
<1>11. QED
  BY <1>9, <1>10

-----------------------------------------------------------------------------
(* The index of an address space.                                          *)

LEMMA ValueSums ==
    /\ SumOfValues({}) = 0
    /\ \A S : SumOfValues(S) \in Nat
    /\ \A S : \A t \in Tx : t \notin S => SumOfValues(S \cup {t}) = SumOfValues(S) + Value[t]
<1>1. HashOrder \in Seq(Tx) /\ Enumerates(HashOrder, Tx) /\ Value \in [Tx -> Nat]
      /\ Value \in [Tx -> Int]
  <2>1. Enumerates(HashOrder, Tx) /\ Value \in [Tx -> Nat \ {0}]
    BY ExploreAssumption
  <2>2. HashOrder \in Seq(Tx)
    BY <2>1 DEF Enumerates
  <2>3. Value \in [Tx -> Nat] /\ Value \in [Tx -> Int]
    BY <2>1
  <2> QED BY <2>1, <2>2, <2>3
<1>2. SumOfValues({}) = 0
  BY <1>1, SumEmpty DEF SumOfValues
<1>3. ASSUME NEW S PROVE SumOfValues(S) \in Nat
  <2> DEFINE n == Len(HashOrder)
  <2>1. PICK f : SumIs(HashOrder, Value, S, f)
    BY <1>1, SumUnfolds
  <2>2. n \in Nat /\ \A k \in 1..n : HashOrder[k] \in Tx
    BY <1>1
  <2> DEFINE G == {k \in 0..n : f[k] \in Nat}
  <2>3. 0 \in G
    BY <2>1, <2>2 DEF SumIs
  <2>4. ASSUME NEW k \in 1..n, k - 1 \in G PROVE k \in G
    <3>1. /\ f[k] = f[k - 1] + (IF HashOrder[k] \in S THEN Value[HashOrder[k]] ELSE 0)
          /\ Value[HashOrder[k]] \in Nat /\ f[k - 1] \in Nat /\ k \in 0..n
      BY <1>1, <2>1, <2>2, <2>4 DEF SumIs
    <3> QED BY <3>1
  <2>5. \A k \in 0..n : k \in G
    <3> HIDE DEF G, n
    <3> QED BY <2>2, <2>3, <2>4, Counting
  <2>6. f[n] \in Nat
    BY <2>2, <2>5
  <2> QED BY <2>1, <2>6 DEF SumIs, SumOfValues
<1>4. ASSUME NEW S, NEW t \in Tx, t \notin S
      PROVE  SumOfValues(S \cup {t}) = SumOfValues(S) + Value[t]
  <2>1. S \cap {t} = {}
    BY <1>4
  <2>2. SumAlong(HashOrder, Value, S \cup {t})
          = SumAlong(HashOrder, Value, S) + SumAlong(HashOrder, Value, {t})
    BY <1>1, <2>1, SumUnion
  <2>3. SumAlong(HashOrder, Value, {t}) = Value[t]
    BY <1>1, SumOne
  <2> QED BY <2>2, <2>3 DEF SumOfValues
<1>5. QED
  BY <1>2, <1>3, <1>4

Shaped(e) ==
    /\ e = Index(e.acct, e.lookup, e.rich, e.touched)
    /\ e.acct \in [Addr -> Account]
    /\ e.lookup \in [Tx -> Nat]
    /\ \A a \in Addr : Lists(e.acct[a])

\* Every output of the transaction index idx is recorded, with its spender, and no other
\* is looked up.
Finds(e, idx) ==
    \A t \in Tx :
        IF idx[t] = Absent THEN e.lookup[t] = 0
        ELSE /\ e.lookup[t] \in 1..Len(e.acct[AddrOf[t]].outs)
             /\ e.acct[AddrOf[t]].outs[e.lookup[t]] = [tx |-> t, by |-> idx[t]]

Owned(idx, a) == {t \in Tx : idx[t] = Unspent /\ AddrOf[t] = a}

Owns(e, idx) == \A a \in Addr : e.acct[a].balance = SumOfValues(Owned(idx, a))

Ranked(acct) == {<<acct[a].balance, a>> : a \in {x \in Addr : acct[x].balance > MaxDust}}

\* The index e is the one that the transaction index idx calls for.
Good(e, idx) ==
    /\ Shaped(e)
    /\ Finds(e, idx)
    /\ Owns(e, idx)
    /\ e.rich = Ranked(e.acct)

\* x is e with the records B for address a and with the lookups look.
Moved(x, e, a, B, look) ==
    /\ x = Index(x.acct, x.lookup, x.rich, x.touched)
    /\ x.acct = [e.acct EXCEPT ![a] = B]
    /\ x.lookup = look
    /\ x.rich = Ranked(x.acct)

\* New records for one address, its place in the rich list and the lookups.
LEMMA MoveIs ==
    ASSUME NEW e, e.acct \in [Addr -> Account], e.rich = Ranked(e.acct),
           NEW a \in Addr, NEW B, NEW x, NEW look,
           x = MoveRich(Put(Index(e.acct, look, e.rich, e.touched), a, B), a, e.acct[a].balance)
    PROVE  Moved(x, e, a, B, look)
<1> DEFINE old  == e.acct[a].balance
           new  == B.balance
           left == e.rich \ {<<old, a>>}
           here == {<<b, a>> : b \in {c \in {new} : c > MaxDust}}
           y == [e.acct EXCEPT ![a] = B]
           p == Put(Index(e.acct, look, e.rich, e.touched), a, B)
<1>1. p.acct = y /\ p.lookup = look /\ p.rich = e.rich /\ p.touched = e.touched
  BY DEF Put, Index
<1>2. y[a] = B /\ \A c \in Addr : y[c] = IF c = a THEN B ELSE e.acct[c]
  OBVIOUS
\* The address is in the set of its old balance.
<1>3. ~(old > MaxDust /\ \A r \in e.rich : r[1] # old)
  <2> SUFFICES ASSUME old > MaxDust PROVE \E r \in e.rich : r[1] = old
    OBVIOUS
  <2>1. <<old, a>> \in e.rich /\ <<old, a>>[1] = old
    BY DEF Ranked
  <2> QED BY <2>1
<1> DEFINE came == {b \in {new} : b > MaxDust /\ <<b, a>> \notin left}
<1>4. /\ x.acct = y /\ x.lookup = look /\ x.rich = left \cup {<<b, a>> : b \in came}
      /\ x = Index(x.acct, x.lookup, x.rich, x.touched)
  <2>1. p.acct[a].balance = new
    BY <1>1, <1>2
  <2>2. x = Index(y, look, left \cup {<<b, a>> : b \in came},
                  e.touched \cup {b \in {old} : b > MaxDust} \cup came)
    <3> HIDE DEF p, y, old, new
    <3>1. x = MoveRich(p, a, old)
      BY DEF p, old
    <3> QED BY <1>1, <1>3, <2>1, <3>1 DEF MoveRich
  <2> HIDE DEF y, left, came
  <2> QED BY <2>2 DEF Index
<1>5. x.rich = left \cup here
  <2>1. \A b \in came : <<b, a>> \in here
    OBVIOUS
  <2>2. new > MaxDust => <<new, a>> \in left \/ new \in came
    OBVIOUS
  <2>3. \A r \in here : r = <<new, a>> /\ new > MaxDust
    OBVIOUS
  <2> HIDE DEF left, came, here, new
  <2> QED BY <1>4, <2>1, <2>2, <2>3
<1> HIDE DEF y, old, came, p
<1>6. left \cup here = Ranked(y)
  <2>1. ASSUME NEW r \in Ranked(y) PROVE r \in left \cup here
    <3>1. PICK c \in Addr : r = <<y[c].balance, c>> /\ y[c].balance > MaxDust
      BY <2>1 DEF Ranked
    <3>2. CASE c = a
      BY <1>2, <3>1, <3>2
    <3>3. CASE c # a
      <4>1. r \in e.rich
        BY <1>2, <3>1, <3>3 DEF Ranked
      <4>2. r # <<old, a>>
        BY <3>1, <3>3
      <4> QED BY <4>1, <4>2
    <3> QED BY <3>2, <3>3
  <2>2. ASSUME NEW r \in left PROVE r \in Ranked(y)
    <3>1. PICK c \in Addr : r = <<e.acct[c].balance, c>> /\ e.acct[c].balance > MaxDust
      BY <2>2 DEF Ranked
    <3>2. c # a
      BY <2>2, <3>1 DEF old
    <3> QED BY <1>2, <3>1, <3>2 DEF Ranked
  <2>3. here \subseteq Ranked(y)
    BY <1>2 DEF Ranked
  <2> QED BY <2>1, <2>2, <2>3
<1>7. QED
  BY <1>4, <1>5, <1>6 DEF y, Moved

\* The state of a transaction index.
Indexes == [Tx -> Tx \cup {Absent, Unspent}]

\* The sums when an output of address AddrOf[i] stops being unspent.
OneLess(idy, idx, i) ==
    /\ \A a : a # AddrOf[i] => Owned(idx, a) = Owned(idy, a)
    /\ SumOfValues(Owned(idx, AddrOf[i])) = SumOfValues(Owned(idy, AddrOf[i])) + Value[i]

LEMMA OwnedMoves ==
    ASSUME NEW idx \in Indexes, NEW i \in Tx, NEW idy \in Indexes,
           \A t \in Tx : t # i => idy[t] = idx[t], idx[i] = Unspent, idy[i] # Unspent
    PROVE  OneLess(idy, idx, i)
<1>1. \A a : a # AddrOf[i] => Owned(idx, a) = Owned(idy, a)
  BY DEF Owned
<1> DEFINE S == Owned(idy, AddrOf[i])
<1>2. Owned(idx, AddrOf[i]) = S \cup {i} /\ i \notin S
  BY DEF Owned
<1> HIDE DEF S
<1>3. SumOfValues(S \cup {i}) = SumOfValues(S) + Value[i]
  BY <1>2, ValueSums
<1>4. QED
  BY <1>1, <1>2, <1>3 DEF S, OneLess

LEMMA MoveRichMoves ==
    ASSUME NEW e, NEW idx, Good(e, idx), NEW a \in Addr, NEW B, NEW look,
           NEW x, x = MoveRich(Put(Index(e.acct, look, e.rich, e.touched), a, B), a, e.acct[a].balance)
    PROVE  Moved(x, e, a, B, look)
<1>1. e.acct \in [Addr -> Account] /\ e.rich = Ranked(e.acct)
  BY DEF Good, Shaped
<1>2. QED
  BY <1>1, MoveIs

\* ConnectInput has spent the output of i, which was there to be spent.
InputDone(x, e, s, i) ==
    LET A  == e.acct[AddrOf[i]]
        id == e.lookup[i]
    IN  /\ AddrOf[i] \in Addr /\ A \in Account /\ Lists(A)
        /\ id \in 1..Len(A.outs)
        /\ A.outs[id] = [tx |-> i, by |-> Unspent]
        /\ Moved(x, e, AddrOf[i], Spend(A, id, i, s), e.lookup)

LEMMA ConnectInputIs ==
    ASSUME NEW e, NEW idx \in Indexes, Good(e, idx), NEW s \in Tx, NEW i \in Tx, idx[i] = Unspent
    PROVE  InputDone(ConnectInput(e, s, i), e, s, i)
<1> DEFINE a  == AddrOf[i]
           A  == e.acct[a]
           id == e.lookup[i]
           io == <<"in", Len(A.ins) + 1>>
           A1 == SetSpent(A, id, i, s)
           A2 == [A1 EXCEPT !.balance = @ - Value[i]]
           A2a == [A2 EXCEPT !.ins = Append(@, [tx |-> s, prev |-> i])]
           A3 == [A2a EXCEPT !.inouts = Append(@, io)]
           A4 == [AddToList(A3, s, io) EXCEPT !.valueOut = @ + Value[i]]
<1>1. a \in Addr /\ A \in Account /\ Lists(A) /\ Value[i] \in Nat
  BY ExploreAssumption DEF Good, Shaped
<1>2. id \in 1..Len(A.outs) /\ A.outs[id] = [tx |-> i, by |-> Unspent]
  BY TxAssumption DEF Good, Finds
<1>3. HasOutput(A, id, i) /\ A.outs[id].by = Unspent
  <2>1. Len(A.outs) \in Nat
    BY <1>1 DEF Account
  <2> HIDE DEF A, id
  <2> QED BY <1>2, <2>1 DEF HasOutput
<1>4. ~(Value[i] > A.balance)
  <2> DEFINE idy == [idx EXCEPT ![i] = s]
  <2>1. idy \in Indexes /\ idy[i] # Unspent /\ \A t \in Tx : t # i => idy[t] = idx[t]
    BY TxAssumption DEF Indexes
  <2> HIDE DEF idy
  <2>2. SumOfValues(Owned(idx, a)) = SumOfValues(Owned(idy, a)) + Value[i]
    <3>1. OneLess(idy, idx, i)
      BY <2>1, OwnedMoves
    <3> QED BY <3>1 DEF OneLess
  <2>3. A.balance = SumOfValues(Owned(idx, a))
    BY <1>1 DEF Good, Owns
  <2>4. SumOfValues(Owned(idy, a)) \in Nat
    BY ValueSums
  <2> HIDE DEF A
  <2> QED BY <1>1, <2>2, <2>3, <2>4
<1>5. A3.vio = A.vio
  <2> HIDE DEF A, id, io, a
  <2>1. A1.vio = A.vio
    BY DEF SetSpent
  <2> HIDE DEF A1
  <2>2. A2.vio = A1.vio
    OBVIOUS
  <2> HIDE DEF A2
  <2>3. A2a.vio = A2.vio
    OBVIOUS
  <2> HIDE DEF A2a
  <2> QED BY <2>1, <2>2, <2>3
<1>6. ~Duplicate(A3, io)
  <2> HIDE DEF A3, A
  <2> QED BY <1>1, <1>5, NotDuplicate
<1> DEFINE B == Spend(A, id, i, s)
           x == ConnectInput(e, s, i)
<1>7. B = IF s \notin Wash THEN A4 ELSE A2
  BY DEF Spend
<1>8. x = MoveRich(Put(e, a, IF s \notin Wash THEN A4 ELSE A2), a, A.balance)
  <2>1. x = IF ~HasOutput(A, id, i) \/ A.outs[id].by # Unspent THEN e
            ELSE IF Value[i] > A.balance THEN Put(e, a, A1)
            ELSE IF s \notin Wash /\ Duplicate(A3, io) THEN Put(e, a, A3)
            ELSE MoveRich(Put(e, a, IF s \notin Wash THEN A4 ELSE A2), a, A.balance)
    BY DEF ConnectInput
  <2> HIDE DEF A, id, a, A1, A2, A3, A4, io, x
  <2> QED BY <1>3, <1>4, <1>6, <2>1
<1>9. e = Index(e.acct, e.lookup, e.rich, e.touched)
  BY DEF Good, Shaped
<1>10. Moved(x, e, a, B, e.lookup)
  <2>1. x = MoveRich(Put(Index(e.acct, e.lookup, e.rich, e.touched), a, B), a, e.acct[a].balance)
    BY <1>7, <1>8, <1>9
  <2> HIDE DEF x, B, a
  <2> QED BY <1>1, <2>1, MoveRichMoves
<1>11. QED
  BY <1>1, <1>2, <1>10 DEF InputDone

\* ConnectOutput has entered the output of s.
OutputDone(x, e, s) ==
    LET A == e.acct[AddrOf[s]]
    IN  /\ AddrOf[s] \in Addr /\ A \in Account /\ Lists(A)
        /\ A.balance \in Nat
        /\ e.lookup[s] = 0
        /\ Moved(x, e, AddrOf[s], Receive(A, s), [e.lookup EXCEPT ![s] = Len(A.outs) + 1])

LEMMA ConnectOutputIs ==
    ASSUME NEW e, NEW idx \in Indexes, Good(e, idx), NEW s \in Tx, idx[s] = Absent
    PROVE  OutputDone(ConnectOutput(e, s), e, s)
<1> DEFINE a  == AddrOf[s]
           A  == e.acct[a]
           id == Len(A.outs) + 1
           io == <<"out", id>>
           A0 == [A EXCEPT !.balance = @ + Value[s]]
           A1 == [A0 EXCEPT !.outs = Append(@, [tx |-> s, by |-> Unspent])]
           A3 == [A1 EXCEPT !.inouts = Append(@, io)]
           A4 == [AddToList(A3, s, io) EXCEPT !.valueIn = @ + Value[s]]
           look == [e.lookup EXCEPT ![s] = id]
           e2 == SetLookup(e, s, id)
           B == Receive(A, s)
           x == ConnectOutput(e, s)
<1>1. a \in Addr /\ A \in Account /\ Lists(A) /\ Value[s] \in Nat
  BY ExploreAssumption DEF Good, Shaped
<1>2. e.lookup[s] = 0
  BY DEF Good, Finds
<1>3. A.balance \in Nat
  BY <1>1, ValueSums DEF Good, Owns
<1>5. A3.vio = A.vio
  <2> HIDE DEF A, id, io, a
  <2>1. A0.vio = A.vio
    OBVIOUS
  <2> HIDE DEF A0
  <2>2. A1.vio = A0.vio
    OBVIOUS
  <2> HIDE DEF A1
  <2> QED BY <2>1, <2>2
<1>6. ~Duplicate(A3, io)
  <2> HIDE DEF A3, A
  <2> QED BY <1>1, <1>5, NotDuplicate
<1>7. B = IF s \notin Wash THEN A4 ELSE A1
  BY DEF Receive
<1>8. x = MoveRich(Put(e2, a, IF s \notin Wash THEN A4 ELSE A1), a, A.balance)
  <2>1. x = IF e.lookup[s] # 0 THEN Put(e, a, A1)
            ELSE IF s \notin Wash /\ Duplicate(A3, io) THEN Put(e2, a, A3)
            ELSE MoveRich(Put(e2, a, IF s \notin Wash THEN A4 ELSE A1), a, A.balance)
    BY DEF ConnectOutput
  <2> HIDE DEF A, id, a, A1, A3, A4, io, x, e2
  <2> QED BY <1>2, <1>6, <2>1
<1>9. e2 = Index(e.acct, look, e.rich, e.touched)
  BY DEF SetLookup
<1>10. Moved(x, e, a, B, look)
  <2>1. x = MoveRich(Put(Index(e.acct, look, e.rich, e.touched), a, B), a, e.acct[a].balance)
    BY <1>7, <1>8, <1>9
  <2> HIDE DEF x, B, a, look
  <2> QED BY <1>1, <2>1, MoveRichMoves
<1>11. QED
  BY <1>1, <1>2, <1>3, <1>10 DEF OutputDone

LEMMA GoodAfterInput ==
    ASSUME NEW e, NEW x, NEW idx \in Indexes, Good(e, idx), NEW s \in Tx, NEW i \in Tx,
           idx[i] = Unspent, InputDone(x, e, s, i), NEW idy, idy = [idx EXCEPT ![i] = s]
    PROVE  idy \in Indexes /\ Good(x, idy)
<1> DEFINE a  == AddrOf[i]
           A  == e.acct[a]
           id == e.lookup[i]
           B  == Spend(A, id, i, s)
<1>1. /\ a \in Addr /\ A \in Account /\ Lists(A) /\ id \in 1..Len(A.outs)
      /\ A.outs[id] = [tx |-> i, by |-> Unspent]
      /\ Moved(x, e, a, B, e.lookup)
  BY DEF InputDone
<1>2. IsSpent(B, A, id, i, s) /\ Lists(B)
  <2> HIDE DEF A, id
  <2> QED BY <1>1, SpendFields, SpendLists
<1> HIDE DEF B
<1>3. B \in Account /\ B.balance = A.balance - Value[i]
      /\ B.outs = [A.outs EXCEPT ![id] = [tx |-> i, by |-> s]]
  BY <1>2 DEF IsSpent
<1>4. /\ idy \in Indexes /\ idy[i] = s /\ s # Unspent /\ s # Absent
      /\ \A t \in Tx : t # i => idy[t] = idx[t]
  BY TxAssumption DEF Indexes
<1>5. /\ e.acct \in [Addr -> Account] /\ e.lookup \in [Tx -> Nat]
      /\ \A c \in Addr : Lists(e.acct[c])
  BY DEF Good, Shaped
<1>6. /\ x = Index(x.acct, x.lookup, x.rich, x.touched) /\ x.lookup = e.lookup
      /\ x.acct = [e.acct EXCEPT ![a] = B] /\ x.rich = Ranked(x.acct)
  BY <1>1 DEF Moved
<1>7. /\ x.acct \in [Addr -> Account] /\ x.acct[a] = B
      /\ \A c \in Addr : c # a => x.acct[c] = e.acct[c]
  <2> HIDE DEF a
  <2> QED BY <1>1, <1>3, <1>5, <1>6
<1>8. Shaped(x)
  BY <1>2, <1>5, <1>6, <1>7 DEF Shaped
<1>9. ASSUME NEW t \in Tx
      PROVE  IF idy[t] = Absent THEN x.lookup[t] = 0
             ELSE /\ x.lookup[t] \in 1..Len(x.acct[AddrOf[t]].outs)
                  /\ x.acct[AddrOf[t]].outs[x.lookup[t]] = [tx |-> t, by |-> idy[t]]
  <2>0. /\ A.outs \in Seq([tx : Tx, by : Tx \cup {Unspent}])
        /\ IF idx[t] = Absent THEN e.lookup[t] = 0
           ELSE /\ e.lookup[t] \in 1..Len(e.acct[AddrOf[t]].outs)
                /\ e.acct[AddrOf[t]].outs[e.lookup[t]] = [tx |-> t, by |-> idx[t]]
    BY <1>1 DEF Good, Finds, Account
  <2>1. CASE t = i
    <3>1. id \in 1..Len(B.outs) /\ B.outs[id] = [tx |-> i, by |-> s]
      <4> HIDE DEF A, id
      <4> QED BY <1>1, <1>3, <2>0
    <3> QED BY <1>4, <1>6, <1>7, <2>1, <3>1
  <2>2. CASE t # i /\ AddrOf[t] # a
    <3>1. AddrOf[t] \in Addr
      BY ExploreAssumption
    <3> HIDE DEF a
    <3> QED BY <1>4, <1>6, <1>7, <2>0, <2>2, <3>1
  <2>3. CASE t # i /\ AddrOf[t] = a
    <3> DEFINE j == e.lookup[t]
    <3>1. CASE idx[t] = Absent
      BY <1>4, <1>6, <2>0, <2>3, <3>1
    <3>2. CASE idx[t] # Absent
      <4>1. j \in 1..Len(A.outs) /\ A.outs[j] = [tx |-> t, by |-> idx[t]]
        BY <2>0, <2>3, <3>2
      <4>2. j # id
        <5> HIDE DEF j, id
        <5>1. A.outs[j].tx = t /\ A.outs[id].tx = i
          BY <1>1, <4>1
        <5> QED BY <2>3, <5>1
      <4>3. j \in 1..Len(B.outs) /\ B.outs[j] = A.outs[j]
        <5> HIDE DEF j, id, A
        <5> QED BY <1>1, <1>3, <2>0, <4>1, <4>2
      <4> QED BY <1>4, <1>6, <1>7, <2>3, <3>2, <4>1, <4>3
    <3> QED BY <3>1, <3>2
  <2> QED BY <2>1, <2>2, <2>3
<1>10. Finds(x, idy)
  BY <1>9 DEF Finds
<1>11. Owns(x, idy)
  <2>1. \A c \in Addr : e.acct[c].balance = SumOfValues(Owned(idx, c))
    BY DEF Good, Owns
  <2>2. /\ \A c : c # a => Owned(idx, c) = Owned(idy, c)
        /\ SumOfValues(Owned(idx, a)) = SumOfValues(Owned(idy, a)) + Value[i]
    <3>1. OneLess(idy, idx, i)
      BY <1>4, OwnedMoves
    <3> QED BY <3>1 DEF OneLess
  <2>3. SumOfValues(Owned(idy, a)) \in Nat /\ Value[i] \in Nat
    BY ValueSums, ExploreAssumption
  <2>4. B.balance = SumOfValues(Owned(idy, a))
    <3>1. A.balance = SumOfValues(Owned(idy, a)) + Value[i]
      BY <1>1, <2>1, <2>2
    <3> QED BY <1>3, <2>3, <3>1
  <2> HIDE DEF a, A
  <2> QED BY <1>7, <2>1, <2>2, <2>4 DEF Owns
<1>12. QED
  BY <1>4, <1>6, <1>8, <1>10, <1>11 DEF Good

LEMMA GoodAfterOutput ==
    ASSUME NEW e, NEW x, NEW idx \in Indexes, Good(e, idx), NEW s \in Tx,
           idx[s] = Absent, OutputDone(x, e, s), NEW idy, idy = [idx EXCEPT ![s] = Unspent]
    PROVE  idy \in Indexes /\ Good(x, idy)
<1> DEFINE a  == AddrOf[s]
           A  == e.acct[a]
           id == Len(A.outs) + 1
           B  == Receive(A, s)
<1>1. /\ a \in Addr /\ A \in Account /\ Lists(A)
      /\ Moved(x, e, a, B, [e.lookup EXCEPT ![s] = id])
  BY DEF OutputDone
<1>2. IsPaid(B, A, s) /\ Lists(B)
  <2> HIDE DEF A
  <2> QED BY <1>1, ReceiveFields, ReceiveLists
<1> HIDE DEF B
<1>3. B \in Account /\ B.balance = A.balance + Value[s]
      /\ B.outs = Append(A.outs, [tx |-> s, by |-> Unspent])
  BY <1>2 DEF IsPaid
<1>4. /\ idy \in Indexes /\ idy[s] = Unspent /\ Unspent # Absent
      /\ \A t \in Tx : t # s => idy[t] = idx[t]
  BY TxAssumption DEF Indexes
<1>5. /\ e.acct \in [Addr -> Account] /\ e.lookup \in [Tx -> Nat]
      /\ \A c \in Addr : Lists(e.acct[c])
  BY DEF Good, Shaped
<1>a. A.outs \in Seq([tx : Tx, by : Tx \cup {Unspent}]) /\ Len(A.outs) \in Nat /\ id \in Nat
  BY <1>1 DEF Account
<1>6. /\ x = Index(x.acct, x.lookup, x.rich, x.touched)
      /\ x.lookup = [e.lookup EXCEPT ![s] = id]
      /\ x.acct = [e.acct EXCEPT ![a] = B] /\ x.rich = Ranked(x.acct)
  BY <1>1 DEF Moved
<1>b. /\ x.lookup \in [Tx -> Nat] /\ x.lookup[s] = id
      /\ \A t \in Tx : t # s => x.lookup[t] = e.lookup[t]
  <2> HIDE DEF id
  <2> QED BY <1>5, <1>6, <1>a
<1>7. /\ x.acct \in [Addr -> Account] /\ x.acct[a] = B
      /\ \A c \in Addr : c # a => x.acct[c] = e.acct[c]
  <2> HIDE DEF a
  <2> QED BY <1>1, <1>3, <1>5, <1>6
<1>8. Shaped(x)
  BY <1>2, <1>5, <1>6, <1>7, <1>b DEF Shaped
<1>9. ASSUME NEW t \in Tx
      PROVE  IF idy[t] = Absent THEN x.lookup[t] = 0
             ELSE /\ x.lookup[t] \in 1..Len(x.acct[AddrOf[t]].outs)
                  /\ x.acct[AddrOf[t]].outs[x.lookup[t]] = [tx |-> t, by |-> idy[t]]
  <2>0. IF idx[t] = Absent THEN e.lookup[t] = 0
        ELSE /\ e.lookup[t] \in 1..Len(e.acct[AddrOf[t]].outs)
             /\ e.acct[AddrOf[t]].outs[e.lookup[t]] = [tx |-> t, by |-> idx[t]]
    BY DEF Good, Finds
  <2>1. CASE t = s
    <3>1. id \in 1..Len(B.outs) /\ B.outs[id] = [tx |-> s, by |-> Unspent]
      <4> DEFINE o == [tx |-> s, by |-> Unspent]
                 q == A.outs
      <4>1. o \in [tx : Tx, by : Tx \cup {Unspent}] /\ B.outs = Append(q, o)
        BY <1>3
      <4>2. q \in Seq([tx : Tx, by : Tx \cup {Unspent}]) /\ id = Len(q) + 1
        BY <1>a
      <4> HIDE DEF o, q, id
      <4>3. id \in 1..Len(B.outs) /\ B.outs[id] = o
        BY <4>1, <4>2
      <4> QED BY <4>3 DEF o
    <3> QED BY <1>4, <1>7, <1>b, <2>1, <3>1
  <2>2. CASE t # s /\ AddrOf[t] # a
    <3>1. AddrOf[t] \in Addr
      BY ExploreAssumption
    <3> HIDE DEF a, id
    <3> QED BY <1>4, <1>7, <1>b, <2>0, <2>2, <3>1
  <2>3. CASE t # s /\ AddrOf[t] = a
    <3> DEFINE j == e.lookup[t]
    <3>1. CASE idx[t] = Absent
      BY <1>4, <1>b, <2>0, <2>3, <3>1
    <3>2. CASE idx[t] # Absent
      <4>1. j \in 1..Len(A.outs) /\ A.outs[j] = [tx |-> t, by |-> idx[t]]
        BY <2>0, <2>3, <3>2
      <4>3. j \in 1..Len(B.outs) /\ B.outs[j] = A.outs[j]
        <5> HIDE DEF j, A
        <5> QED BY <1>3, <1>a, <4>1
      <4> QED BY <1>4, <1>7, <1>b, <2>3, <3>2, <4>1, <4>3
    <3> QED BY <3>1, <3>2
  <2> QED BY <2>1, <2>2, <2>3
<1>10. Finds(x, idy)
  BY <1>9 DEF Finds
<1>11. Owns(x, idy)
  <2>1. \A c \in Addr : e.acct[c].balance = SumOfValues(Owned(idx, c))
    BY DEF Good, Owns
  <2>2. /\ \A c : c # a => Owned(idx, c) = Owned(idy, c)
        /\ SumOfValues(Owned(idy, a)) = SumOfValues(Owned(idx, a)) + Value[s]
    <3>1. idx[s] # Unspent /\ idx \in Indexes /\ \A t \in Tx : t # s => idx[t] = idy[t]
      BY <1>4
    <3>2. OneLess(idx, idy, s)
      BY <1>4, <3>1, OwnedMoves
    <3> QED BY <3>2 DEF OneLess
  <2>4. B.balance = SumOfValues(Owned(idy, a))
    BY <1>1, <1>3, <2>1, <2>2
  <2> HIDE DEF a, A
  <2> QED BY <1>7, <2>1, <2>2, <2>4 DEF Owns
<1>12. QED
  BY <1>4, <1>6, <1>8, <1>10, <1>11 DEF Good

-----------------------------------------------------------------------------
(* Disconnecting undoes connecting.                                        *)

\* The same records; only the note of the sets written may differ.
Same(y, x) ==
    /\ y = Index(y.acct, y.lookup, y.rich, y.touched)
    /\ y.acct = x.acct /\ y.lookup = x.lookup /\ y.rich = x.rich

\* Setting one argument of a function and setting it back.
LEMMA SetBack ==
    ASSUME NEW D, NEW f, f = [d \in D |-> f[d]], NEW c, NEW v, NEW g, g = [f EXCEPT ![c] = v]
    PROVE  [g EXCEPT ![c] = f[c]] = f
<1>1. g = [d \in D |-> IF d = c THEN v ELSE f[d]]
  OBVIOUS
<1>2. [g EXCEPT ![c] = f[c]] = [d \in D |-> IF d = c THEN f[c] ELSE g[d]]
  BY <1>1
<1>3. \A d \in D : f[d] = IF d = c THEN f[c] ELSE g[d]
  BY <1>1
<1>4. QED
  BY <1>2, <1>3

LEMMA InputUndone ==
    ASSUME NEW e, NEW idx, Good(e, idx), NEW s \in Tx, NEW i \in Tx,
           NEW x, InputDone(x, e, s, i), NEW y, Same(y, x)
    PROVE  Same(DisconnectInput(y, s, i), e)
<1> DEFINE a  == AddrOf[i]
           A  == e.acct[a]
           id == e.lookup[i]
           B  == Spend(A, id, i, s)
<1>1. /\ a \in Addr /\ A \in Account /\ Lists(A) /\ id \in 1..Len(A.outs)
      /\ A.outs[id] = [tx |-> i, by |-> Unspent]
      /\ Moved(x, e, a, B, e.lookup)
  BY DEF InputDone
<1>2. IsSpent(B, A, id, i, s)
  <2> HIDE DEF A, id
  <2> QED BY <1>1, SpendFields
<1>3. CanUnspend(B, id, i, s) /\ Unspend(B, id, i, s) = A
  <2> HIDE DEF A, id, B
  <2> QED BY <1>1, <1>2, SpendUndone
<1>4. /\ y.acct = [e.acct EXCEPT ![a] = B] /\ y.lookup = e.lookup /\ y.rich = Ranked(y.acct)
      /\ y = Index(y.acct, y.lookup, y.rich, y.touched)
  BY <1>1 DEF Moved, Same
<1>5. e.acct \in [Addr -> Account] /\ e.rich = Ranked(e.acct) /\ B \in Account
  BY <1>2 DEF Good, Shaped, IsSpent
<1>6. y.acct[a] = B /\ y.lookup[i] = id /\ y.acct \in [Addr -> Account]
  <2> HIDE DEF a, B
  <2> QED BY <1>1, <1>4, <1>5
<1> HIDE DEF a, A, id, B
<1> DEFINE io == <<"in", Len(B.ins)>>
           A1 == [B EXCEPT !.ins = Front(@)]
           A2 == [A1 EXCEPT !.inouts = Front(@)]
           A3 == IF s \notin Wash THEN DropList(A2) ELSE B
           A4 == SetSpent(A3, id, i, Unspent)
           A5 == [A4 EXCEPT !.balance = @ + Value[i]]
           A6 == [A5 EXCEPT !.valueOut = @ - Value[i]]
           z  == DisconnectInput(y, s, i)
<1>7. z = IF s \notin Wash /\ (B.ins = <<>> \/ Last(B.ins) # [tx |-> s, prev |-> i]) THEN y
          ELSE IF s \notin Wash /\ ~InOutIsLast(B, io) THEN Put(y, a, A1)
          ELSE IF s \notin Wash /\ ~ListedLast(B, io) THEN Put(y, a, A2)
          ELSE IF ~HasOutput(B, id, i) \/ B.outs[id].by # s THEN Put(y, a, A3)
          ELSE IF s \notin Wash /\ Value[i] > B.valueOut THEN Put(y, a, A5)
          ELSE MoveRich(Put(y, a, IF s \notin Wash THEN A6 ELSE A5), a, B.balance)
  BY <1>6 DEF DisconnectInput, a
<1>8. A = IF s \notin Wash THEN A6 ELSE A5
  BY <1>3 DEF Unspend
<1>9. z = MoveRich(Put(y, a, A), a, y.acct[a].balance)
  <2>1. /\ HasOutput(B, id, i) /\ B.outs[id].by = s
        /\ s \notin Wash => /\ B.ins # <<>> /\ Last(B.ins) = [tx |-> s, prev |-> i]
                            /\ InOutIsLast(B, io) /\ ListedLast(B, io)
                            /\ ~(Value[i] > B.valueOut)
    BY <1>3 DEF CanUnspend
  <2> HIDE DEF io, A1, A2, A3, A4, A5, A6, z
  <2> QED BY <1>6, <1>7, <1>8, <2>1
<1> HIDE DEF z
<1>10. Moved(z, y, a, A, y.lookup)
  <2>1. z = MoveRich(Put(Index(y.acct, y.lookup, y.rich, y.touched), a, A), a, y.acct[a].balance)
    BY <1>4, <1>9
  <2> QED BY <1>1, <1>4, <1>6, <2>1, MoveIs
<1>11. z.acct = e.acct
  <2>1. z.acct = [y.acct EXCEPT ![a] = e.acct[a]]
    BY <1>10 DEF Moved, A
  <2> DEFINE f == e.acct
  <2>2. f = [d \in Addr |-> f[d]] /\ y.acct = [f EXCEPT ![a] = B] /\ z.acct = [y.acct EXCEPT ![a] = f[a]]
    BY <1>4, <1>5, <2>1
  <2> HIDE DEF f
  <2>3. z.acct = f
    BY <2>2, SetBack
  <2> QED BY <2>3 DEF f
<1>12. Same(z, e)
  BY <1>4, <1>5, <1>10, <1>11 DEF Same, Moved
<1>13. QED
  BY <1>12 DEF z

LEMMA OutputUndone ==
    ASSUME NEW e, NEW idx, Good(e, idx), NEW s \in Tx,
           NEW x, OutputDone(x, e, s), NEW y, Same(y, x)
    PROVE  Same(DisconnectOutput(y, s), e)
<1> DEFINE a  == AddrOf[s]
           A  == e.acct[a]
           id == Len(A.outs) + 1
           B  == Receive(A, s)
<1>1. /\ a \in Addr /\ A \in Account /\ Lists(A) /\ A.balance \in Nat /\ e.lookup[s] = 0
      /\ Moved(x, e, a, B, [e.lookup EXCEPT ![s] = id])
  BY DEF OutputDone
<1>2. IsPaid(B, A, s)
  <2> HIDE DEF A
  <2> QED BY <1>1, ReceiveFields
<1>3. CanReturn(B, s) /\ Return(B, s) = A /\ Len(B.outs) = id /\ id >= 1
  <2>1. A.balance >= 0 /\ Len(A.outs) \in Nat
    BY <1>1 DEF Account
  <2> HIDE DEF A, B
  <2> QED BY <1>1, <1>2, <2>1, ReceiveUndone
<1>4. /\ y.acct = [e.acct EXCEPT ![a] = B] /\ y.lookup = [e.lookup EXCEPT ![s] = id]
      /\ y.rich = Ranked(y.acct) /\ y = Index(y.acct, y.lookup, y.rich, y.touched)
  BY <1>1 DEF Moved, Same
<1>5. e.acct \in [Addr -> Account] /\ e.rich = Ranked(e.acct) /\ B \in Account
      /\ e.lookup \in [Tx -> Nat]
  BY <1>2 DEF Good, Shaped, IsPaid
<1>6. y.acct[a] = B /\ y.lookup[s] = id /\ y.acct \in [Addr -> Account]
  <2> HIDE DEF a, B, id
  <2> QED BY <1>1, <1>4, <1>5
<1> HIDE DEF a, A, id, B
<1> DEFINE io == <<"out", id>>
           e1 == SetLookup(y, s, 0)
           A2 == [B EXCEPT !.outs = Front(@)]
           A3 == [A2 EXCEPT !.inouts = Front(@)]
           A4 == IF s \notin Wash THEN DropList(A3) ELSE A2
           A5 == [A4 EXCEPT !.balance = @ - Value[s]]
           A6 == [A5 EXCEPT !.valueIn = @ - Value[s]]
           z  == DisconnectOutput(y, s)
<1>7. z = IF id < 1 THEN y
          ELSE IF ~HasOutput(B, id, s) \/ Len(B.outs) # id \/ B.outs[id].by # Unspent THEN e1
          ELSE IF s \notin Wash /\ ~InOutIsLast(B, io) THEN Put(e1, a, A2)
          ELSE IF s \notin Wash /\ ~ListedLast(B, io) THEN Put(e1, a, A3)
          ELSE IF Value[s] > B.balance THEN Put(e1, a, A4)
          ELSE IF s \notin Wash /\ Value[s] > B.valueIn THEN Put(e1, a, A5)
          ELSE MoveRich(Put(e1, a, IF s \notin Wash THEN A6 ELSE A5), a, B.balance)
  BY <1>6 DEF DisconnectOutput, a
<1>8. A = IF s \notin Wash THEN A6 ELSE A5
  BY <1>3 DEF Return
<1>9. z = MoveRich(Put(e1, a, A), a, y.acct[a].balance)
  <2>1. /\ HasOutput(B, id, s) /\ B.outs[id].by = Unspent /\ ~(Value[s] > B.balance)
        /\ s \notin Wash => /\ InOutIsLast(B, io) /\ ListedLast(B, io)
                            /\ ~(Value[s] > B.valueIn)
    BY <1>3 DEF CanReturn
  <2>2. ~(id < 1)
    BY <1>3, <2>1 DEF HasOutput, id, A
  <2> HIDE DEF io, e1, A2, A3, A4, A5, A6, z
  <2> QED BY <1>3, <1>6, <1>7, <1>8, <2>1, <2>2
<1> HIDE DEF z
<1> DEFINE look == [y.lookup EXCEPT ![s] = 0]
<1>10. Moved(z, y, a, A, look)
  <2>1. z = MoveRich(Put(Index(y.acct, look, y.rich, y.touched), a, A), a, y.acct[a].balance)
    BY <1>9 DEF SetLookup
  <2> HIDE DEF look
  <2> QED BY <1>1, <1>4, <1>6, <2>1, MoveIs
<1>11. z.acct = e.acct
  <2>1. z.acct = [y.acct EXCEPT ![a] = e.acct[a]]
    BY <1>10 DEF Moved, A
  <2> DEFINE f == e.acct
  <2>2. f = [d \in Addr |-> f[d]] /\ y.acct = [f EXCEPT ![a] = B] /\ z.acct = [y.acct EXCEPT ![a] = f[a]]
    BY <1>4, <1>5, <2>1
  <2> HIDE DEF f
  <2>3. z.acct = f
    BY <2>2, SetBack
  <2> QED BY <2>3 DEF f
<1>12. look = e.lookup
  <2> DEFINE f == e.lookup
             g == y.lookup
  <2>1. f = [d \in Tx |-> f[d]] /\ g = [f EXCEPT ![s] = id] /\ look = [g EXCEPT ![s] = f[s]]
    BY <1>1, <1>4, <1>5
  <2> HIDE DEF f, g, look
  <2>2. look = f
    BY <2>1, SetBack
  <2> QED BY <2>2 DEF f
<1>13. Same(z, e)
  BY <1>4, <1>5, <1>10, <1>11, <1>12 DEF Same, Moved
<1>14. QED
  BY <1>13 DEF z

-----------------------------------------------------------------------------
(* One transaction.                                                        *)

\* All that s spends is there and unspent, and s itself is not there yet.
Fits(idx, s) == idx[s] = Absent /\ \A i \in Spends[s] : idx[i] = Unspent

\* The transaction index when s has spent the first k of its inputs, and after s.
SpentFirst(idx, s, k) == [t \in Tx |-> IF \E j \in 1..k : vin[s][j] = t THEN s ELSE idx[t]]

WithTx(idx, s) == [t \in Tx |-> IF t \in Spends[s] THEN s ELSE IF t = s THEN Unspent ELSE idx[t]]

InputsRun(f, idx, s) ==
    /\ \A k \in 0..Len(vin[s]) : /\ SpentFirst(idx, s, k) \in Indexes
                                 /\ Good(f[k], SpentFirst(idx, s, k))
    /\ \A k \in 1..Len(vin[s]) : InputDone(f[k], f[k - 1], s, vin[s][k])

LEMMA SpentFirstStep ==
    ASSUME NEW idx \in Indexes, NEW s \in Tx, Fits(idx, s), NEW k \in 1..Len(vin[s]),
           NEW u, u = SpentFirst(idx, s, k - 1)
    PROVE  /\ vin[s][k] \in Tx /\ u[vin[s][k]] = Unspent
           /\ SpentFirst(idx, s, k) = [u EXCEPT ![vin[s][k]] = s]
<1> DEFINE n == Len(vin[s])
           i == vin[s][k]
           v == SpentFirst(idx, s, k)
<1>1. /\ n \in Nat /\ k \in Nat /\ i \in Tx /\ i \in Spends[s] /\ idx[i] = Unspent
      /\ \A j \in 1..n : vin[s][j] = i => j = k
  <2>1. Enumerates(vin[s], Spends[s])
    BY ExploreAssumption
  <2>2. \A j \in 1..n : vin[s][j] = i => j = k
    BY <2>1 DEF Enumerates
  <2> QED BY <2>2, Orders DEF Fits
<1> HIDE DEF n, i
<1>2. ~\E j \in 1..(k - 1) : vin[s][j] = i
  <2>1. \A j \in 1..(k - 1) : j \in 1..n /\ j # k
    BY <1>1 DEF n
  <2> QED BY <1>1, <2>1
<1>3. u[i] = Unspent
  BY <1>1, <1>2 DEF SpentFirst
<1>4. u = [t \in Tx |-> u[t]] /\ v = [t \in Tx |-> v[t]]
  BY DEF SpentFirst
<1>5. ASSUME NEW t \in Tx PROVE v[t] = IF t = i THEN s ELSE u[t]
  <2>1. (\E j \in 1..k : vin[s][j] = t) <=> (t = i \/ \E j \in 1..(k - 1) : vin[s][j] = t)
    <3>1. \A j : j \in 1..k <=> j = k \/ j \in 1..(k - 1)
      BY <1>1
    <3> QED BY <3>1 DEF i
  <2> QED BY <2>1 DEF SpentFirst
<1> HIDE DEF v
<1>6. v = [u EXCEPT ![i] = s]
  BY <1>4, <1>5
<1>7. QED
  BY <1>1, <1>3, <1>6 DEF i, v

LEMMA InputsGood ==
    ASSUME NEW e, NEW idx \in Indexes, Good(e, idx), NEW s \in Tx, Fits(idx, s)
    PROVE  InputsRun(InputsConnected(e, s), idx, s)
<1> DEFINE n == Len(vin[s])
           f == InputsConnected(e, s)
           P(k) == SpentFirst(idx, s, k) \in Indexes /\ Good(f[k], SpentFirst(idx, s, k))
           G == {k \in 0..n : P(k)}
<1>1. n \in Nat /\ \A k \in 1..n : vin[s][k] \in Tx
  BY Orders
<1>2. Rounds(f, "connect inputs", s, e, n)
  BY <1>1, InputsUnfold
<1> HIDE DEF f
<1>3. P(0)
  <2>1. SpentFirst(idx, s, 0) = idx
    <3>1. ~\E j \in 1..0 : TRUE
      OBVIOUS
    <3> QED BY <3>1 DEF SpentFirst, Indexes
  <2> QED BY <1>2, <2>1 DEF Rounds
<1>4. ASSUME NEW k \in 1..n, P(k - 1)
      PROVE  P(k) /\ InputDone(f[k], f[k - 1], s, vin[s][k])
  <2> DEFINE u == SpentFirst(idx, s, k - 1)
             v == SpentFirst(idx, s, k)
             i == vin[s][k]
             x == f[k]
             w == f[k - 1]
  <2>1. f[k] = ConnectInput(f[k - 1], s, vin[s][k])
    BY <1>2 DEF Rounds, Round
  <2>2. i \in Tx /\ u[i] = Unspent /\ v = [u EXCEPT ![i] = s]
    BY SpentFirstStep
  <2>3. u \in Indexes /\ Good(w, u)
    BY <1>4
  <2> HIDE DEF u, v, i, x, w
  <2>4. InputDone(x, w, s, i)
    BY <2>1, <2>2, <2>3, ConnectInputIs DEF x, w, i
  <2>5. v \in Indexes /\ Good(x, v)
    BY <2>2, <2>3, <2>4, GoodAfterInput
  <2> QED BY <2>4, <2>5 DEF v, i, x, w
<1>5. \A k \in 0..n : k \in G
  <2>1. 0 \in G
    BY <1>1, <1>3
  <2>2. \A k \in 1..n : k - 1 \in G => k \in G
    <3> SUFFICES ASSUME NEW k \in 1..n, k - 1 \in G PROVE k \in G
      OBVIOUS
    <3>1. P(k)
      BY <1>4
    <3>2. k \in 0..n
      BY <1>1
    <3> HIDE DEF P
    <3> QED BY <3>1, <3>2
  <2> HIDE DEF G
  <2> QED BY <1>1, <2>1, <2>2, Counting
<1>6. \A k \in 1..n : InputDone(f[k], f[k - 1], s, vin[s][k])
  <2> SUFFICES ASSUME NEW k \in 1..n PROVE InputDone(f[k], f[k - 1], s, vin[s][k])
    OBVIOUS
  <2>1. k - 1 \in 0..n
    BY <1>1
  <2>2. P(k - 1)
    BY <1>5, <2>1
  <2> HIDE DEF P
  <2> QED BY <1>4, <2>2
<1>7. QED
  BY <1>5, <1>6 DEF InputsRun, f

LEMMA InputsUndone ==
    ASSUME NEW idx, NEW s \in Tx, NEW f, InputsRun(f, idx, s), NEW y, Same(y, f[Len(vin[s])])
    PROVE  Same(InputsDisconnected(y, s)[Len(vin[s])], f[0])
<1> DEFINE n == Len(vin[s])
           g == InputsDisconnected(y, s)
           G == {k \in 0..n : Same(g[k], f[n - k])}
<1>1. n \in Nat /\ \A k \in 1..n : vin[s][k] \in Tx
  BY Orders
<1>2. Rounds(g, "disconnect inputs", s, y, n)
  BY <1>1, InputsUnfold
<1> HIDE DEF g
<1>3. 0 \in G
  <2>1. n - 0 = n /\ 0 \in 0..n
    BY <1>1
  <2> QED BY <1>2, <2>1 DEF Rounds
<1>4. ASSUME NEW k \in 1..n, k - 1 \in G PROVE k \in G
  <2> DEFINE j == n + 1 - k
             x == f[j]
             w == f[j - 1]
             i == vin[s][j]
             z == g[k - 1]
             u == SpentFirst(idx, s, j - 1)
  <2>1. j \in 1..n /\ j - 1 = n - k /\ n - (k - 1) = j /\ j - 1 \in 0..n
    BY <1>1
  <2>2. Same(z, x)
    BY <1>4, <2>1
  <2>3. g[k] = DisconnectInput(z, s, i)
    BY <1>2 DEF Rounds, Round
  <2>4. InputDone(x, w, s, i) /\ Good(w, u) /\ i \in Tx
    BY <1>1, <2>1 DEF InputsRun
  <2> HIDE DEF j, x, w, i, z, u
  <2>5. Same(g[k], w)
    BY <2>2, <2>3, <2>4, InputUndone
  <2>6. w = f[n - k] /\ k \in 0..n
    BY <1>1, <2>1 DEF w
  <2> QED BY <2>5, <2>6
<1>5. \A k \in 0..n : k \in G
  <2> HIDE DEF G
  <2> QED BY <1>1, <1>3, <1>4, Counting
<1>6. Same(g[n], f[n - n]) /\ n - n = 0
  BY <1>1, <1>5
<1>7. QED
  BY <1>6 DEF g

\* Disconnecting s turns x, or what differs from it only in its notes, back into e.
Undoes(x, e, s) == \A y : Same(y, x) => Same(DisconnectExploreTx(y, s), e)

LEMMA TxGood ==
    ASSUME NEW e, NEW idx \in Indexes, Good(e, idx), NEW s \in Tx, Fits(idx, s)
    PROVE  /\ WithTx(idx, s) \in Indexes
           /\ Good(ConnectExploreTx(e, s), WithTx(idx, s))
           /\ Undoes(ConnectExploreTx(e, s), e, s)
<1> DEFINE n == Len(vin[s])
           f == InputsConnected(e, s)
           u == SpentFirst(idx, s, n)
           v == WithTx(idx, s)
           w == f[n]
           x == ConnectOutput(w, s)
<1>1. n \in Nat /\ n \in 0..n
  BY Orders
<1>2. InputsRun(f, idx, s) /\ f[0] = e
  <2>1. Rounds(f, "connect inputs", s, e, n)
    BY <1>1, InputsUnfold
  <2> QED BY <2>1, InputsGood DEF Rounds
<1> HIDE DEF f
<1>3. u \in Indexes /\ Good(w, u)
  BY <1>1, <1>2 DEF InputsRun
<1>4. /\ s \notin Spends[s]
      /\ \A t \in Tx : (\E j \in 1..n : vin[s][j] = t) <=> t \in Spends[s]
  <2>1. s \notin Spends[s]
    BY TxAssumption DEF Fits
  <2>2. Enumerates(vin[s], Spends[s])
    BY ExploreAssumption
  <2>3. \A k \in 1..n : vin[s][k] \in Spends[s]
    BY Orders
  <2>4. \A t \in Spends[s] : \E k \in 1..n : vin[s][k] = t
    BY <2>2 DEF Enumerates
  <2> QED BY <2>1, <2>3, <2>4
<1>5. u[s] = Absent
  BY <1>4 DEF SpentFirst, Fits
<1>6. v = [u EXCEPT ![s] = Unspent]
  <2>1. u = [t \in Tx |-> u[t]] /\ v = [t \in Tx |-> v[t]]
    BY DEF SpentFirst, WithTx
  <2>2. ASSUME NEW t \in Tx PROVE v[t] = IF t = s THEN Unspent ELSE u[t]
    BY <1>4 DEF SpentFirst, WithTx
  <2> HIDE DEF u, v
  <2> QED BY <2>1, <2>2
<1> HIDE DEF u, v, w
<1>7. OutputDone(x, w, s)
  BY <1>3, <1>5, ConnectOutputIs
<1>8. ConnectExploreTx(e, s) = x
  BY DEF ConnectExploreTx, w, f
<1> HIDE DEF x
<1>9. v \in Indexes /\ Good(x, v)
  BY <1>3, <1>5, <1>6, <1>7, GoodAfterOutput
<1>10. ASSUME NEW y, Same(y, x) PROVE Same(DisconnectExploreTx(y, s), e)
  <2> DEFINE z == DisconnectOutput(y, s)
  <2>1. Same(z, w)
    BY <1>3, <1>7, <1>10, OutputUndone
  <2>2. DisconnectExploreTx(y, s) = InputsDisconnected(z, s)[n]
    BY DEF DisconnectExploreTx
  <2> HIDE DEF z
  <2>3. Same(InputsDisconnected(z, s)[n], f[0])
    BY <1>2, <2>1, InputsUndone DEF w
  <2> QED BY <1>2, <2>2, <2>3
<1>11. QED
  BY <1>8, <1>9, <1>10 DEF Undoes, v

-----------------------------------------------------------------------------
(* One block.                                                              *)

\* The transaction index when the first k transactions of b are connected.
FirstTxs(b, k) == {vtx[b][j] : j \in 1..k}

Partly(b, idx, k) ==
    LET D == FirstTxs(b, k)
    IN  [t \in Tx |-> IF SpentIn(D, t) THEN SpenderIn(D, t)
                      ELSE IF t \in D THEN Unspent ELSE idx[t]]

\* The block connects, and none of its transactions is there.
Fresh(b, idx) == CanConnect(b, idx) /\ \A t \in Txs[b] : idx[t] = Absent

LEMMA FirstTxsIs ==
    ASSUME NEW b \in Block
    PROVE  /\ FirstTxs(b, 0) = {}
           /\ FirstTxs(b, Len(vtx[b])) = Txs[b]
           /\ \A k \in 1..Len(vtx[b]) :
                 /\ FirstTxs(b, k - 1) \subseteq Txs[b]
                 /\ FirstTxs(b, k) = FirstTxs(b, k - 1) \cup {vtx[b][k]}
                 /\ vtx[b][k] \notin FirstTxs(b, k - 1)
<1> DEFINE n == Len(vtx[b])
<1>1. n \in Nat /\ \A k \in 1..n : vtx[b][k] \in Txs[b]
  BY Orders
<1>2. /\ \A x \in Txs[b] : \E k \in 1..n : vtx[b][k] = x
      /\ \A j, k \in 1..n : vtx[b][j] = vtx[b][k] => j = k
  BY ExploreAssumption DEF Enumerates
<1> HIDE DEF n
<1>3. FirstTxs(b, 0) = {}
  <2>1. 1..0 = {}
    OBVIOUS
  <2> QED BY <2>1 DEF FirstTxs
<1>4. FirstTxs(b, n) = Txs[b]
  BY <1>1, <1>2 DEF FirstTxs
<1>5. ASSUME NEW k \in 1..n
      PROVE  /\ FirstTxs(b, k - 1) \subseteq Txs[b]
             /\ FirstTxs(b, k) = FirstTxs(b, k - 1) \cup {vtx[b][k]}
             /\ vtx[b][k] \notin FirstTxs(b, k - 1)
  <2>1. /\ \A j \in 1..(k - 1) : j \in 1..n /\ j # k
        /\ \A j : j \in 1..k <=> j = k \/ j \in 1..(k - 1)
    BY <1>1
  <2> QED BY <1>1, <1>2, <2>1 DEF FirstTxs
<1>6. QED
  BY <1>3, <1>4, <1>5 DEF n

LEMMA PartlyEnds ==
    ASSUME NEW b \in Block, NEW idx \in Indexes
    PROVE  Partly(b, idx, 0) = idx /\ Partly(b, idx, Len(vtx[b])) = ConnectTx(b, idx)
<1>1. FirstTxs(b, 0) = {} /\ FirstTxs(b, Len(vtx[b])) = Txs[b]
  BY FirstTxsIs
<1>2. Partly(b, idx, 0) = idx
  BY <1>1 DEF Partly, SpentIn, Indexes
<1>3. Partly(b, idx, Len(vtx[b])) = ConnectTx(b, idx)
  BY <1>1 DEF Partly, ConnectTx
<1>4. QED
  BY <1>2, <1>3

\* The only spender in D is the one that SpenderIn names.
LEMMA OneSpender ==
    ASSUME NEW D, NEW s \in D, NEW t, t \in Spends[s],
           \A p, q \in D : p # q => Spends[p] \cap Spends[q] = {}
    PROVE  SpentIn(D, t) /\ SpenderIn(D, t) = s
<1>1. SpenderIn(D, t) \in D /\ t \in Spends[SpenderIn(D, t)]
  BY DEF SpenderIn
<1>2. QED
  BY <1>1 DEF SpentIn

LEMMA PartlyStep ==
    ASSUME NEW b \in Block, NEW idx \in Indexes, Fresh(b, idx), NEW k \in 1..Len(vtx[b])
    PROVE  /\ Fits(Partly(b, idx, k - 1), vtx[b][k])
           /\ Partly(b, idx, k) = WithTx(Partly(b, idx, k - 1), vtx[b][k])
<1> DEFINE s == vtx[b][k]
           D == FirstTxs(b, k - 1)
           C == FirstTxs(b, k)
           u == Partly(b, idx, k - 1)
           v == Partly(b, idx, k)
<1>1. D \subseteq Txs[b] /\ C = D \cup {s} /\ s \notin D
  BY FirstTxsIs
<1>2. s \in Txs[b] /\ s \in Tx /\ Txs[b] \subseteq Tx /\ Spends[s] \subseteq Tx
  BY Orders, TxAssumption
<1>3. /\ \A p, q \in Txs[b] : p # q => Spends[p] \cap Spends[q] = {}
      /\ \A i \in Spends[s] : i \in Txs[b] \/ idx[i] = Unspent
      /\ idx[s] = Absent /\ b \notin Rejected
  BY <1>2 DEF Fresh, CanConnect
<1>4. /\ \A r \in D : s \notin Spends[r]
      /\ \A i \in Txs[b] : i \in Spends[s] => i \in D
      /\ s \notin Spends[s]
  <2> DEFINE n == Len(vtx[b])
  <2>1. n \in Nat /\ k \in Nat /\ k <= n
    BY Orders
  <2>2. \A j, m \in 1..n : vtx[b][j] \in Spends[vtx[b][m]] => j < m
    BY <1>3, ExploreAssumption
  <2>3. \A x \in Txs[b] : \E m \in 1..n : vtx[b][m] = x
    BY ExploreAssumption DEF Enumerates
  <2> HIDE DEF n
  <2>4. \A r \in D : s \notin Spends[r]
    <3> SUFFICES ASSUME NEW r \in D, s \in Spends[r] PROVE FALSE
      OBVIOUS
    <3>1. PICK j \in 1..(k - 1) : r = vtx[b][j]
      BY DEF FirstTxs
    <3>2. j \in 1..n /\ k \in 1..n /\ ~(k < j)
      BY <2>1, <3>1
    <3> QED BY <2>2, <3>1, <3>2
  <2>5. \A i \in Txs[b] : i \in Spends[s] => i \in D
    <3> SUFFICES ASSUME NEW i \in Txs[b], i \in Spends[s] PROVE i \in D
      OBVIOUS
    <3>1. PICK m \in 1..n : vtx[b][m] = i
      BY <2>3
    <3>2. m < k
      BY <2>1, <2>2, <3>1
    <3>3. m \in 1..(k - 1)
      BY <2>1, <3>2
    <3> QED BY <3>1, <3>3 DEF FirstTxs
  <2>6. s \notin Spends[s]
    <3>1. k \in 1..n /\ ~(k < k)
      BY <2>1
    <3> QED BY <2>2, <3>1
  <2> QED BY <2>4, <2>5, <2>6
<1> HIDE DEF s, D, C
<1>5. \A t \in Tx : u[t] = IF SpentIn(D, t) THEN SpenderIn(D, t)
                           ELSE IF t \in D THEN Unspent ELSE idx[t]
  BY DEF Partly, D
<1>6. \A t \in Tx : v[t] = IF SpentIn(C, t) THEN SpenderIn(C, t)
                           ELSE IF t \in C THEN Unspent ELSE idx[t]
  BY DEF Partly, C
<1>7. v = [t \in Tx |-> v[t]]
  BY DEF Partly
<1> HIDE DEF u, v
<1>8. Fits(u, s)
  <2>1. u[s] = Absent
    BY <1>1, <1>2, <1>3, <1>4, <1>5 DEF SpentIn
  <2>2. ASSUME NEW i \in Spends[s] PROVE u[i] = Unspent
    <3>1. ~SpentIn(D, i)
      BY <1>1, <1>2, <1>3 DEF SpentIn
    <3>2. i \in D \/ idx[i] = Unspent
      BY <1>3, <1>4
    <3> QED BY <1>2, <1>5, <3>1, <3>2
  <2> QED BY <2>1, <2>2 DEF Fits
<1>9. ASSUME NEW t \in Tx
      PROVE  v[t] = IF t \in Spends[s] THEN s ELSE IF t = s THEN Unspent ELSE u[t]
  <2>0. /\ \A p, q \in C : p # q => Spends[p] \cap Spends[q] = {}
        /\ \A p, q \in D : p # q => Spends[p] \cap Spends[q] = {}
    BY <1>1, <1>2, <1>3
  <2>1. CASE t \in Spends[s]
    <3>1. SpentIn(C, t) /\ SpenderIn(C, t) = s
      BY <1>1, <2>0, <2>1, OneSpender
    <3> QED BY <1>6, <2>1, <3>1
  <2>2. CASE t \notin Spends[s] /\ SpentIn(D, t)
    <3>1. PICK r \in D : t \in Spends[r]
      BY <2>2 DEF SpentIn
    <3>2. SpenderIn(D, t) = r
      BY <2>0, <3>1, OneSpender
    <3>3. r \in C
      BY <1>1
    <3>4. SpentIn(C, t) /\ SpenderIn(C, t) = r
      BY <2>0, <3>1, <3>3, OneSpender
    <3>5. t # s
      BY <1>4, <3>1
    <3> QED BY <1>5, <1>6, <2>2, <3>2, <3>4, <3>5
  <2>3. CASE t \notin Spends[s] /\ ~SpentIn(D, t)
    <3>1. ~SpentIn(C, t)
      BY <1>1, <2>3 DEF SpentIn
    <3> QED BY <1>1, <1>5, <1>6, <2>3, <3>1
  <2> QED BY <2>1, <2>2, <2>3
<1>10. v = WithTx(u, s)
  BY <1>7, <1>9 DEF WithTx
<1>11. QED
  BY <1>8, <1>10 DEF u, v, s

\* What AfterTx makes of the index.
Clean(e) == Index(e.acct, e.lookup, e.rich, {})

LEMMA CleanGood ==
    ASSUME NEW e
    PROVE  /\ \A idx : Good(e, idx) => Good(Clean(e), idx)
           /\ \A y : Same(y, Clean(e)) <=> Same(y, e)
           /\ \A y : Same(e, y) => Same(Clean(e), y)
           /\ Clean(e).touched = {}
<1> DEFINE c == Clean(e)
<1>1. /\ c.acct = e.acct /\ c.lookup = e.lookup /\ c.rich = e.rich /\ c.touched = {}
      /\ c = Index(c.acct, c.lookup, c.rich, c.touched)
  BY DEF Clean, Index
<1> HIDE DEF c
<1>2. ASSUME NEW idx, Good(e, idx) PROVE Good(c, idx)
  BY <1>1, <1>2 DEF Good, Shaped, Finds, Owns
<1>3. \A y : Same(y, c) <=> Same(y, e)
  BY <1>1 DEF Same
<1>4. \A y : Same(e, y) => Same(c, y)
  BY <1>1 DEF Same
<1>5. QED
  BY <1>1, <1>2, <1>3, <1>4 DEF c

BlockRun(y, b, idx) ==
    /\ \A k \in 0..Len(vtx[b]) : /\ Partly(b, idx, k) \in Indexes
                                 /\ Good(y[k].db, Partly(b, idx, k))
    /\ \A k \in 1..Len(vtx[b]) : Undoes(y[k].db, y[k - 1].db, vtx[b][k])

LEMMA BlockGood ==
    ASSUME NEW x, NEW b \in Block, NEW idx \in Indexes, Good(x.db, idx), Fresh(b, idx)
    PROVE  BlockRun(TxsConnected(x, b), b, idx)
<1> DEFINE n == Len(vtx[b])
           y == TxsConnected(x, b)
           P(k) == Partly(b, idx, k) \in Indexes /\ Good(y[k].db, Partly(b, idx, k))
           G == {k \in 0..n : P(k)}
<1>1. n \in Nat /\ \A k \in 1..n : vtx[b][k] \in Tx
  BY Orders
<1>2. Rounds(y, "connect txs", b, x, n)
  BY <1>1, TxsUnfold
<1> HIDE DEF y
<1>3. P(0)
  <2>1. Partly(b, idx, 0) = idx /\ y[0] = x
    BY <1>2, PartlyEnds DEF Rounds
  <2> QED BY <2>1
<1>4. ASSUME NEW k \in 1..n, P(k - 1)
      PROVE  P(k) /\ Undoes(y[k].db, y[k - 1].db, vtx[b][k])
  <2> DEFINE s == vtx[b][k]
             u == Partly(b, idx, k - 1)
             v == Partly(b, idx, k)
             e == y[k - 1].db
             c == ConnectExploreTx(e, s)
             z == y[k].db
  <2>1. z = Clean(c)
    <3>1. y[k] = AfterTx(y[k - 1].map, c)
      BY <1>2 DEF Rounds, Round
    <3> QED BY <3>1 DEF AfterTx, Clean
  <2>2. s \in Tx /\ Fits(u, s) /\ v = WithTx(u, s)
    BY <1>1, PartlyStep
  <2>3. u \in Indexes /\ Good(e, u)
    BY <1>4
  <2> HIDE DEF s, u, v, e, z
  <2>4. v \in Indexes /\ Good(c, v) /\ Undoes(c, e, s)
    BY <2>2, <2>3, TxGood
  <2> HIDE DEF c
  <2>5. Good(z, v)
    BY <2>1, <2>4, CleanGood
  <2>6. Undoes(z, e, s)
    BY <2>1, <2>4, CleanGood DEF Undoes
  <2> QED BY <2>4, <2>5, <2>6 DEF v, z, e, s
<1>5. \A k \in 0..n : k \in G
  <2>1. 0 \in G
    BY <1>1, <1>3
  <2>2. \A k \in 1..n : k - 1 \in G => k \in G
    <3> SUFFICES ASSUME NEW k \in 1..n, k - 1 \in G PROVE k \in G
      OBVIOUS
    <3>1. P(k)
      BY <1>4
    <3>2. k \in 0..n
      BY <1>1
    <3> HIDE DEF P
    <3> QED BY <3>1, <3>2
  <2> HIDE DEF G
  <2> QED BY <1>1, <2>1, <2>2, Counting
<1>6. \A k \in 1..n : Undoes(y[k].db, y[k - 1].db, vtx[b][k])
  <2> SUFFICES ASSUME NEW k \in 1..n PROVE Undoes(y[k].db, y[k - 1].db, vtx[b][k])
    OBVIOUS
  <2>1. k - 1 \in 0..n
    BY <1>1
  <2>2. P(k - 1)
    BY <1>5, <2>1
  <2> HIDE DEF P
  <2> QED BY <1>4, <2>2
<1>7. QED
  BY <1>5, <1>6 DEF BlockRun, y

\* ExploreConnectBlock leads from the index that idx calls for to the one that
\* ConnectBlock's transaction index calls for.
LEMMA ConnectGood ==
    ASSUME NEW x, NEW b \in Block, NEW idx \in Indexes, Good(x.db, idx), Fresh(b, idx)
    PROVE  Good(ExploreConnectBlock(x, b).db, ConnectTx(b, idx))
<1>1. Len(vtx[b]) \in 0..Len(vtx[b])
  BY Orders
<1>2. BlockRun(TxsConnected(x, b), b, idx)
  BY BlockGood
<1>3. Good(TxsConnected(x, b)[Len(vtx[b])].db, Partly(b, idx, Len(vtx[b])))
  BY <1>1, <1>2 DEF BlockRun
<1>4. Partly(b, idx, Len(vtx[b])) = ConnectTx(b, idx)
  BY PartlyEnds
<1>5. QED
  BY <1>3, <1>4 DEF ExploreConnectBlock

\* The index does not depend on the counts in memory.
LEMMA ConnectIgnoresCounts ==
    ASSUME NEW x, NEW y, NEW b \in Block, x.db = y.db
    PROVE  ExploreConnectBlock(x, b).db = ExploreConnectBlock(y, b).db
<1> DEFINE n == Len(vtx[b])
           f == TxsConnected(x, b)
           g == TxsConnected(y, b)
           G == {k \in 0..n : f[k].db = g[k].db}
<1>1. n \in Nat
  BY Orders
<1>2. Rounds(f, "connect txs", b, x, n) /\ Rounds(g, "connect txs", b, y, n)
  BY <1>1, TxsUnfold
<1> HIDE DEF f, g
<1>3. 0 \in G
  <2>1. f[0] = x /\ g[0] = y
    BY <1>2 DEF Rounds
  <2>2. f[0].db = g[0].db
    BY <2>1
  <2> QED BY <1>1, <2>2
<1>4. ASSUME NEW k \in 1..n, k - 1 \in G PROVE k \in G
  <2>1. /\ f[k] = AfterTx(f[k - 1].map, ConnectExploreTx(f[k - 1].db, vtx[b][k]))
        /\ g[k] = AfterTx(g[k - 1].map, ConnectExploreTx(g[k - 1].db, vtx[b][k]))
    BY <1>2 DEF Rounds, Round
  <2>2. f[k - 1].db = g[k - 1].db /\ k \in 0..n
    BY <1>1, <1>4
  <2>3. f[k].db = g[k].db
    BY <2>1, <2>2 DEF AfterTx
  <2> QED BY <2>2, <2>3
<1>5. \A k \in 0..n : k \in G
  <2> HIDE DEF G
  <2> QED BY <1>1, <1>3, <1>4, Counting
<1>6. f[n].db = g[n].db
  BY <1>1, <1>5
<1>7. QED
  BY <1>6 DEF ExploreConnectBlock, f, g

\* ExploreDisconnectBlock undoes ExploreConnectBlock, record for record.
LEMMA BlockUndone ==
    ASSUME NEW x, NEW b \in Block, NEW idx \in Indexes, Good(x.db, idx), Fresh(b, idx),
           NEW y, Same(y.db, ExploreConnectBlock(x, b).db),
           \A s \in Txs[b] : Fetches(b, s)
    PROVE  Same(ExploreDisconnectBlock(y, b).db, x.db)
<1> DEFINE n == Len(vtx[b])
           f == TxsConnected(x, b)
           g == TxsDisconnected(y, b)
           G == {k \in 0..n : Same(g[k].db, f[n - k].db)}
<1>1. n \in Nat
  BY Orders
<1>2. /\ Rounds(f, "connect txs", b, x, n) /\ Rounds(g, "disconnect txs", b, y, n)
      /\ BlockRun(f, b, idx) /\ Same(y.db, f[n].db)
  <2>1. Rounds(f, "connect txs", b, x, n) /\ Rounds(g, "disconnect txs", b, y, n)
    BY <1>1, TxsUnfold
  <2>2. BlockRun(f, b, idx)
    BY BlockGood
  <2> QED BY <2>1, <2>2 DEF ExploreConnectBlock
<1> HIDE DEF f, g
<1>3. 0 \in G
  <2>1. n - 0 = n /\ 0 \in 0..n
    BY <1>1
  <2>2. g[0] = y
    BY <1>2 DEF Rounds
  <2>3. Same(g[0].db, f[n - 0].db)
    BY <1>2, <2>1, <2>2
  <2> QED BY <2>1, <2>3
<1>4. ASSUME NEW k \in 1..n, k - 1 \in G PROVE k \in G
  <2> DEFINE j == n + 1 - k
             s == vtx[b][j]
             z == g[k - 1].db
             w == DisconnectExploreTx(z, s)
  <2>1. j \in 1..n /\ j - 1 = n - k /\ n - (k - 1) = j /\ k \in 0..n
    BY <1>1
  <2>2. Same(z, f[j].db)
    BY <1>4, <2>1
  <2>3. g[k] = AfterTx(g[k - 1].map, w)
    BY <1>2 DEF Rounds, Round
  <2>4. Undoes(f[j].db, f[j - 1].db, s)
    BY <1>2, <2>1 DEF BlockRun
  <2> HIDE DEF s, z, j
  <2>5. Same(w, f[j - 1].db)
    BY <2>2, <2>4 DEF Undoes
  <2>6. g[k].db = Clean(w)
    BY <2>3 DEF AfterTx, Clean
  <2> HIDE DEF w
  <2>7. Same(g[k].db, f[n - k].db)
    BY <2>1, <2>5, <2>6, CleanGood
  <2> QED BY <2>1, <2>7
<1>5. \A k \in 0..n : k \in G
  <2> HIDE DEF G
  <2> QED BY <1>1, <1>3, <1>4, Counting
<1>6. Same(g[n].db, f[n - n].db) /\ n - n = 0
  BY <1>1, <1>5
<1>7. f[0] = x /\ Fetched(b) = n
  BY <1>2, FetchedAll DEF Rounds
<1>8. QED
  BY <1>6, <1>7 DEF ExploreDisconnectBlock, g

\* After each block nothing is noted any more.
LEMMA BlockClean ==
    ASSUME NEW x, NEW b \in Block, x.db.touched = {}
    PROVE  /\ ExploreConnectBlock(x, b).db.touched = {}
           /\ (\A s \in Txs[b] : Fetches(b, s)) => ExploreDisconnectBlock(x, b).db.touched = {}
<1> DEFINE n == Len(vtx[b])
           f == TxsConnected(x, b)
           g == TxsDisconnected(x, b)
<1>1. n \in Nat
  BY Orders
<1>2. Rounds(f, "connect txs", b, x, n) /\ Rounds(g, "disconnect txs", b, x, n)
  BY <1>1, TxsUnfold
<1> HIDE DEF f, g
<1>3. f[n].db.touched = {} /\ g[n].db.touched = {}
  <2>1. CASE n = 0
    BY <1>2, <2>1 DEF Rounds
  <2>2. CASE n # 0
    <3>1. n \in 1..n
      BY <1>1, <2>2
    <3>2. /\ f[n] = AfterTx(f[n - 1].map, ConnectExploreTx(f[n - 1].db, vtx[b][n]))
          /\ g[n] = AfterTx(g[n - 1].map, DisconnectExploreTx(g[n - 1].db, vtx[b][n + 1 - n]))
      BY <1>2, <3>1 DEF Rounds, Round
    <3> QED BY <3>2 DEF AfterTx, Index
  <2> QED BY <2>1, <2>2
<1>4. QED
  BY <1>3, FetchedAll DEF ExploreConnectBlock, ExploreDisconnectBlock, f, g

-----------------------------------------------------------------------------
(* The index along the chain.                                              *)

LEMMA EmptyGood ==
    /\ IndexOf(Genesis) \in Indexes
    /\ Good(EmptyIndex, IndexOf(Genesis))
    /\ EmptyIndex.touched = {}
<1> DEFINE e == EmptyIndex
           idx == IndexOf(Genesis)
<1>1. TxsOf(Genesis) = {} /\ Genesis \in Block
  BY TreeAssumption, ChainAssumption, TxAssumption DEF TxsOf
<1>2. idx \in Indexes
  BY <1>1, IndexOfType DEF Indexes
<1>3. \A t \in Tx : idx[t] = Absent
  BY <1>1, IndexOfIs
<1> HIDE DEF idx
<1>4. /\ e.acct = [a \in Addr |-> EmptyAccount] /\ e.lookup = [t \in Tx |-> 0]
      /\ e.rich = {} /\ e.touched = {}
      /\ e = Index(e.acct, e.lookup, e.rich, e.touched)
  BY DEF EmptyIndex, Index
<1> HIDE DEF e
<1>5. EmptyAccount \in Account /\ EmptyAccount.balance = 0 /\ Lists(EmptyAccount)
  <2>1. /\ EmptyAccount.vio = <<>> /\ EmptyAccount.balance = 0
    BY DEF EmptyAccount
  <2>2. EmptyAccount \in Account
    <3>1. \A X : <<>> \in Seq(X)
      OBVIOUS
    <3>2. 0 \in Int /\ 0 \in Nat
      OBVIOUS
    <3> QED BY <3>1, <3>2 DEF EmptyAccount, Account
  <2>3. Lists(EmptyAccount)
    <3>1. 1..Len(EmptyAccount.vio) = {}
      BY <2>1
    <3> QED BY <3>1 DEF Lists
  <2> QED BY <2>1, <2>2, <2>3
<1>6. Shaped(e)
  BY <1>4, <1>5 DEF Shaped
<1>7. Finds(e, idx)
  BY <1>3, <1>4 DEF Finds
<1>8. Owns(e, idx)
  <2>1. \A a : Owned(idx, a) = {}
    BY <1>3, TxAssumption DEF Owned
  <2> QED BY <1>4, <1>5, <2>1, ValueSums DEF Owns
<1>9. e.rich = Ranked(e.acct)
  <2>1. \A a \in Addr : ~(e.acct[a].balance > MaxDust)
    BY <1>4, <1>5, ExploreAssumption
  <2> QED BY <1>4, <2>1 DEF Ranked
<1>10. QED
  BY <1>2, <1>4, <1>6, <1>7, <1>8, <1>9 DEF Good, idx, e

\* A block that connects to a valid branch has no transaction of it.
LEMMA SoundFresh ==
    ASSUME NEW b \in Block, b # Genesis, Sound(b)
    PROVE  /\ Parent[b] \in Block /\ Sound(Parent[b])
           /\ Fresh(b, IndexOf(Parent[b]))
           /\ ConnectTx(b, IndexOf(Parent[b])) = IndexOf(b)
           /\ IndexOf(Parent[b]) \in Indexes
<1>1. Parent[b] \in Block
  BY TreeAssumption
<1>2. Sound(Parent[b]) /\ CanConnect(b, IndexOf(Parent[b]))
  BY SoundParent
<1>3. ConnectTx(b, IndexOf(Parent[b])) = IndexOf(b)
  BY <1>2, ConnectIndex
<1>4. Txs[b] \cap TxsOf(Parent[b]) = {}
  BY SoundWellFormed DEF WellFormed
<1>5. \A t \in Txs[b] : IndexOf(Parent[b])[t] = Absent
  <2> SUFFICES ASSUME NEW t \in Txs[b] PROVE IndexOf(Parent[b])[t] = Absent
    OBVIOUS
  <2>1. t \in Tx /\ t \notin TxsOf(Parent[b])
    BY <1>4, TxAssumption
  <2> QED BY <1>1, <2>1, IndexOfIs
<1>6. IndexOf(Parent[b]) \in Indexes
  BY <1>1, IndexOfType DEF Indexes
<1>7. QED
  BY <1>1, <1>2, <1>3, <1>5, <1>6 DEF Fresh

\* Along a valid branch the index is the one that the branch's transaction index calls for.
LEMMA BuiltGood ==
    ASSUME NEW b \in Block, Sound(b)
    PROVE  Good(Built[b].db, IndexOf(b)) /\ Built[b].db.touched = {}
<1> DEFINE P(x) == Good(Built[x].db, IndexOf(x)) /\ Built[x].db.touched = {}
           S == {x \in Block : Sound(x) /\ ~P(x)}
<1>1. SUFFICES ASSUME S # {} PROVE FALSE
  OBVIOUS
<1>2. PICK c \in S : c # Genesis => Parent[c] \notin S
  <2>1. S \in SUBSET Block
    OBVIOUS
  <2> HIDE DEF S
  <2> QED BY <1>1, <2>1, LowestBlock
<1>3. c \in Block /\ Sound(c) /\ ~P(c)
  BY <1>2
<1>4. CASE c = Genesis
  <2>1. Built[c].db = EmptyIndex
    BY <1>4, BuiltIs DEF Nothing
  <2> QED BY <1>3, <1>4, <2>1, EmptyGood
<1>5. CASE c # Genesis
  <2> DEFINE p == Parent[c]
             x == Built[p]
  <2>1. /\ p \in Block /\ Sound(p) /\ Fresh(c, IndexOf(p)) /\ IndexOf(p) \in Indexes
        /\ ConnectTx(c, IndexOf(p)) = IndexOf(c)
    BY <1>3, <1>5, SoundFresh
  <2>2. P(p)
    BY <1>2, <1>5, <2>1
  <2>3. Built[c] = ExploreConnectBlock(x, c)
    BY <1>3, <1>5, BuiltIs
  <2>4. Good(x.db, IndexOf(p)) /\ x.db.touched = {}
    BY <2>2
  <2> HIDE DEF x, p
  <2>5. Good(ExploreConnectBlock(x, c).db, ConnectTx(c, IndexOf(p)))
    BY <1>3, <2>1, <2>4, ConnectGood
  <2>6. ExploreConnectBlock(x, c).db.touched = {}
    BY <1>3, <2>4, BlockClean
  <2> QED BY <1>3, <2>1, <2>3, <2>5, <2>6
<1>6. QED
  BY <1>4, <1>5

\* Disconnecting the last block of a valid branch from its index leaves the index of
\* the branch without it.
LEMMA BuiltUndone ==
    ASSUME NEW b \in Block, b # Genesis, Sound(b), \A s \in Txs[b] : Fetches(b, s),
           NEW y, y.db = Built[b].db
    PROVE  ExploreDisconnectBlock(y, b).db = Built[Parent[b]].db
<1> DEFINE p == Parent[b]
           x == Built[p]
           z == ExploreDisconnectBlock(y, b)
<1>1. p \in Block /\ Sound(p) /\ Fresh(b, IndexOf(p)) /\ IndexOf(p) \in Indexes
  BY SoundFresh
<1>2. Good(x.db, IndexOf(p)) /\ x.db.touched = {}
  BY <1>1, BuiltGood
<1>3. Built[b] = ExploreConnectBlock(x, b)
  BY BuiltIs
<1>4. Good(y.db, IndexOf(b)) /\ y.db.touched = {}
  BY BuiltGood
<1>5. Same(y.db, y.db)
  BY <1>4 DEF Good, Shaped, Same
<1> HIDE DEF x, p
<1>6. Same(z.db, x.db)
  BY <1>1, <1>2, <1>3, <1>5, BlockUndone
<1>7. z.db.touched = {}
  BY <1>4, BlockClean
<1>8. x.db = Index(x.db.acct, x.db.lookup, x.db.rich, x.db.touched)
  BY <1>2 DEF Good, Shaped
<1>9. z.db = x.db
  BY <1>2, <1>6, <1>7, <1>8 DEF Same
<1>10. QED
  BY <1>9 DEF x, p, z

\* The walk of a rebuild along the records of a branch ends in its last block.
LEMMA LastLinkedIs ==
    ASSUME NEW b \in Block
    PROVE  LastLinked(NextOf(b)) = b
<1> DEFINE next == NextOf(b)
           Ends(c) == next[c] = NoBlock /\ \A x \in Chain[c] \ {Genesis} : next[Parent[x]] = x
<1>1. Ends(b)
  <2>1. next[b] = NoBlock
    <3>1. \A x \in Chain[b] : Parent[x] # b
      BY AboveParent, TreeAssumption, ChainAssumption
    <3> QED BY <3>1 DEF NextOf
  <2>2. \A x \in Chain[b] \ {Genesis} : next[Parent[x]] = x
    BY NextOfParent
  <2> QED BY <2>1, <2>2
<1>2. ASSUME NEW c \in Block, Ends(c) PROVE c = b
  <2>1. c \in Chain[b]
    <3>1. CASE c = Genesis
      BY <3>1, ChainAncestry DEF Ancestry
    <3>2. CASE c # Genesis
      <4>1. c \in Chain[c] /\ Parent[c] \in Block
        BY <3>2, ChainAncestry, TreeAssumption DEF Ancestry
      <4>2. next[Parent[c]] = c /\ c # NoBlock
        BY <1>2, <3>2, <4>1, TreeAssumption
      <4>3. \E x \in Chain[b] : Parent[x] = Parent[c]
        BY <4>1, <4>2 DEF NextOf
      <4>4. c = StepTowards(Parent[c], b)
        BY <4>1, <4>2, <4>3 DEF NextOf
      <4>5. StepTowards(Parent[c], b) \in Chain[b]
        BY <4>3 DEF StepTowards
      <4> QED BY <4>4, <4>5
    <3> QED BY <3>1, <3>2
  <2>2. SUFFICES ASSUME c # b PROVE FALSE
    OBVIOUS
  <2>3. \E x \in Chain[b] : Parent[x] = c
    BY <2>1, <2>2, StepExists
  <2>4. next[c] = StepTowards(c, b)
    BY <2>3 DEF NextOf
  <2>5. StepTowards(c, b) \in Block
    BY <2>1, <2>2, StepTowardsIs
  <2> QED BY <1>2, <2>4, <2>5, TreeAssumption
<1> HIDE DEF next
<1>3. LastLinked(next) = CHOOSE c \in Block : Ends(c)
  BY DEF LastLinked
<1> HIDE DEF Ends
<1>4. QED
  BY <1>1, <1>2, <1>3 DEF next

\* What the invariant of the chain says about the place of the index.
LEMMA PositionIs ==
    ASSUME ChainInv
    PROVE  Position \in Block /\ Sound(Position) /\ viewTx = IndexOf(Position)
<1>1. CASE pc = "reorganize"
  BY <1>1, ReorganizeFacts DEF Position
<1>2. CASE pc # "reorganize"
  BY <1>2 DEF Position, ChainInv, BatchInv, DiskIsReplayOfBest, TypeOK
<1>3. QED
  BY <1>1, <1>2

\* Connecting the next block of the chain to an index in step with it.
LEMMA ConnectInSync ==
    ASSUME NEW b \in Block, b # Genesis, exploredb = Built[Parent[b]].db
    PROVE  ExploreConnectBlock(State, b).db = Built[b].db
<1> DEFINE x == State
           y == Built[Parent[b]]
<1>1. x.db = y.db
  BY DEF State
<1>2. Built[b] = ExploreConnectBlock(y, b)
  BY BuiltIs
<1> HIDE DEF x, y
<1>3. ExploreConnectBlock(x, b).db = ExploreConnectBlock(y, b).db
  BY <1>1, ConnectIgnoresCounts
<1>4. QED
  BY <1>2, <1>3 DEF x

\* At startup.
LEMMA HealInSync ==
    ASSUME ChainInv, InSync, NEW best, best \in {exploreBest, NoBlock}
    PROVE  Heal(best).best = diskBest /\ Heal(best).db = Built[diskBest].db
<1>1. diskBest \in Block /\ diskNext = NextOf(diskBest) /\ NoBlock \notin Block
  BY TreeAssumption DEF ChainInv, TypeOK, RecordsInv
<1>2. CASE best = diskBest
  <2>1. best = exploreBest
    BY <1>1, <1>2
  <2>2. exploredb = Built[diskBest].db
    BY <1>2, <2>1 DEF InSync
  <2> QED BY <1>2, <2>2 DEF Heal
<1>3. CASE best # diskBest
  <2>1. LastLinked(diskNext) = diskBest
    BY <1>1, LastLinkedIs
  <2> QED BY <1>3, <2>1 DEF Heal
<1>4. QED
  BY <1>2, <1>3

\* The steps that connect, disconnect or rebuild.
LEMMA SyncStep ==
    ASSUME ChainInv, InSync, ExploreNext, ~ReorganizeFails, ~ExploreReorganizeRefused
    PROVE  InSync'
<1>0. /\ exploreBest = Position /\ exploredb = Built[Position].db
      /\ diskBest \in Block /\ tip \in Block
      /\ pc # "secondary" => pindexBest = diskBest
  BY DEF InSync, ChainInv, TypeOK, RecordsInv
<1>1. CASE ExploreUnchangedStep
  <2>1. exploredb' = exploredb /\ exploreBest' = exploreBest
    BY <1>1 DEF ExploreUnchangedStep, exploreVars
  <2>2. Position' = Position
    <3>1. ASSUME NEW b \in Block, AddToBlockIndex(b) PROVE Position' = Position
      BY <3>1 DEF AddToBlockIndex, Position
    <3>2. CASE ExtendFails
      BY <3>2 DEF ExtendFails, Finish, diskVars, Position
    <3>3. CASE BeginReorganize
      BY <1>0, <3>3 DEF BeginReorganize, Position
    <3>4. CASE ReorganizeCommit
      <4>1. diskBest' = pindexIntermediate /\ pc' = "secondary"
        BY <3>4, ReorganizeCommitStep
      <4> QED BY <3>4, <4>1 DEF ReorganizeCommit, Position
    <3>5. CASE NewBestBlock
      BY <3>5 DEF NewBestBlock, Finish, diskVars, Position
    <3> QED BY <1>1, <3>1, <3>2, <3>3, <3>4, <3>5 DEF ExploreUnchangedStep
  <2> QED BY <1>0, <2>1, <2>2 DEF InSync
<1>2. CASE ExploreExtendBest
  <2>1. ExtendBest /\ exploreBest' = pindexNew
        /\ exploredb' = ExploreConnectBlock(State, pindexNew).db
    BY <1>2 DEF ExploreExtendBest, SetExplore
  <2>2. diskBest' = pindexNew
    BY <2>1, ExtendBestStep
  <2>3. pc = "setbest" /\ pc' = "idle" /\ Parent[pindexNew] = pindexBest
    BY <2>1 DEF ExtendBest, Finish
  <2>4. pindexNew \in Block /\ pindexNew # Genesis
    BY <2>3 DEF ChainInv, TypeOK, WorkInv
  <2>5. exploredb = Built[Parent[pindexNew]].db
    BY <1>0, <2>3 DEF Position
  <2>6. ExploreConnectBlock(State, pindexNew).db = Built[pindexNew].db
    BY <2>4, <2>5, ConnectInSync
  <2>7. Position' = pindexNew
    BY <2>2, <2>3 DEF Position
  <2> QED BY <2>1, <2>6, <2>7 DEF InSync
<1>3. CASE ExploreReorganizeDisconnect
  <2>1. /\ pc = "reorganize" /\ pc' = "reorganize" /\ tip' = Parent[tip]
        /\ tip \notin Chain[pindexIntermediate]
        /\ \A s \in Txs[tip] : Fetches(tip, s)
        /\ exploreBest' = Parent[tip] /\ exploredb' = ExploreDisconnectBlock(State, tip).db
    BY <1>3 DEF ExploreReorganizeDisconnect, ReorganizeDisconnect, SetExplore
  <2>2. tip # Genesis
    BY <2>1, ChainAncestry DEF Ancestry, ChainInv, TypeOK
  <2>3. Sound(tip) /\ exploredb = Built[tip].db
    BY <1>0, <2>1, PositionIs DEF Position
  <2>4. State.db = Built[tip].db
    BY <2>3 DEF State
  <2> DEFINE y == State
  <2>5. ExploreDisconnectBlock(y, tip).db = Built[Parent[tip]].db
    <3> HIDE DEF y
    <3> QED BY <1>0, <2>1, <2>2, <2>3, <2>4, BuiltUndone DEF y
  <2>6. Position' = Parent[tip]
    BY <2>1 DEF Position
  <2> QED BY <2>1, <2>5, <2>6 DEF InSync
<1>4. CASE ExploreReorganizeConnect
  <2> DEFINE b == StepTowards(tip, pindexIntermediate)
  <2>1. /\ pc = "reorganize" /\ pc' = "reorganize" /\ tip' = b
        /\ tip \in Chain[pindexIntermediate] \ {pindexIntermediate}
        /\ exploreBest' = tip' /\ exploredb' = ExploreConnectBlock(State, tip').db
    BY <1>4 DEF ExploreReorganizeConnect, ReorganizeConnect, SetExplore
  <2>2. b \in Block /\ b # Genesis /\ Parent[b] = tip
    BY <2>1, StepTowardsIs DEF ChainInv, TypeOK
  <2> HIDE DEF b
  <2>3. exploredb = Built[Parent[b]].db
    BY <1>0, <2>1, <2>2 DEF Position
  <2>4. ExploreConnectBlock(State, b).db = Built[b].db
    BY <2>2, <2>3, ConnectInSync
  <2>5. Position' = b
    BY <2>1 DEF Position
  <2>6. exploreBest' = b /\ exploredb' = ExploreConnectBlock(State, b).db
    BY <2>1
  <2> QED BY <2>4, <2>5, <2>6 DEF InSync
<1>5. CASE ExploreSecondaryConnect
  <2> DEFINE b == StepTowards(tip, pindexNew)
  <2>1. /\ pc = "secondary" /\ pc' = "secondary" /\ tip # pindexNew /\ tip' = b /\ diskBest' = b
        /\ exploreBest' = tip' /\ exploredb' = ExploreConnectBlock(State, tip').db
    BY <1>5 DEF ExploreSecondaryConnect, SecondaryConnect, CommitBlock, SetExplore
  <2>2. b \in Block /\ b # Genesis /\ Parent[b] = diskBest
    BY <2>1, SecondaryFacts
  <2> HIDE DEF b
  <2>3. exploredb = Built[Parent[b]].db
    BY <1>0, <2>1, <2>2 DEF Position
  <2>4. ExploreConnectBlock(State, b).db = Built[b].db
    BY <2>2, <2>3, ConnectInSync
  <2>5. Position' = b
    BY <2>1 DEF Position
  <2>6. exploreBest' = b /\ exploredb' = ExploreConnectBlock(State, b).db
    BY <2>1
  <2> QED BY <2>4, <2>5, <2>6 DEF InSync
<1>6. CASE ExploreSecondaryFails
  <2> DEFINE b == StepTowards(tip, pindexNew)
  <2>1. pc = "secondary" /\ tip # pindexNew /\ pc' = "idle"
    BY <1>6 DEF ExploreSecondaryFails, SecondaryFails, Finish
  <2>2. b \in mapBlockIndex /\ b # Genesis /\ Parent[b] = diskBest
    BY <2>1, SecondaryFacts
  <2>3. CanConnect(b, diskTx) => PrevIsLinked(b, pnext)
    <3> HIDE DEF b
    <3> QED BY <2>1, <2>2, CommitStep
  <2>4. ~CanConnect(b, diskTx) /\ diskBest' = diskBest
    BY <1>6, <2>3 DEF ExploreSecondaryFails, SecondaryFails, diskVars
  <2>5. exploredb' = exploredb /\ exploreBest' = exploreBest
    BY <1>6, <2>4 DEF ExploreSecondaryFails, exploreVars
  <2>6. Position' = Position
    BY <2>1, <2>4 DEF Position
  <2> QED BY <1>0, <2>5, <2>6 DEF InSync
<1>7. ASSUME NEW best, best \in {exploreBest, NoBlock}, Restart,
             LET h == Heal(best) IN SetExplore(h, h.best)
      PROVE  InSync'
  <2>1. pc' = "idle" /\ diskBest' = diskBest
    BY <1>7 DEF Restart, Finish, diskVars
  <2>2. exploreBest' = Heal(best).best /\ exploredb' = Heal(best).db
    BY <1>7 DEF SetExplore
  <2>3. Heal(best).best = diskBest /\ Heal(best).db = Built[diskBest].db
    BY <1>7, HealInSync
  <2>4. Position' = diskBest
    BY <2>1 DEF Position
  <2> QED BY <2>2, <2>3, <2>4 DEF InSync
<1>8. CASE ExploreRestart
  BY <1>7, <1>8 DEF ExploreRestart
<1>9. CASE RestartAheadOfChain
  BY <1>7, <1>9 DEF RestartAheadOfChain
<1>10. QED
  BY <1>1, <1>2, <1>3, <1>4, <1>5, <1>6, <1>8, <1>9 DEF ExploreNext

\* For every tree of blocks, with crashes and invalid blocks anywhere: while the chain is
\* consistent, ExploreConnectBlock, ExploreDisconnectBlock and the rebuild at startup keep
\* the index equal, record for record, to the one built from nothing along the chain.
\* Only a Reorganize that gives up, whose batch is dropped while the index's are not,
\* ends it.
THEOREM ExploreFollowsChain == ExploreSpec => OnlyFailedReorganizeDrifts
<1>1. ASSUME [ExploreNext]_allExploreVars
      PROVE  [ChainInv /\ InSync =>
                InSync' \/ ReorganizeFails \/ ExploreReorganizeRefused]_allExploreVars
  BY <1>1, SyncStep
<1>2. QED
  BY <1>1, PTL DEF ExploreSpec, OnlyFailedReorganizeDrifts

-----------------------------------------------------------------------------
(* The index beside the transaction index.                                 *)

LEMMA MatchesInSync == ChainInv => ExploreMatchesTxIndex
<1>1. SUFFICES ASSUME ChainInv, InSync
               PROVE  /\ \A a \in Addr : exploredb.acct[a].balance = SumOfValues(Owned(viewTx, a))
                      /\ exploredb.rich = Ranked(exploredb.acct)
                      /\ \A t \in Tx : (exploredb.lookup[t] # 0) = (viewTx[t] # Absent)
  BY DEF ExploreMatchesTxIndex, Owned, Ranked
<1>2. Position \in Block /\ Sound(Position) /\ viewTx = IndexOf(Position)
  BY <1>1, PositionIs
<1>3. Good(exploredb, viewTx)
  BY <1>1, <1>2, BuiltGood DEF InSync
<1>4. \A a \in Addr : exploredb.acct[a].balance = SumOfValues(Owned(viewTx, a))
  BY <1>3 DEF Good, Owns
<1>5. exploredb.rich = Ranked(exploredb.acct)
  BY <1>3 DEF Good
<1>6. ASSUME NEW t \in Tx PROVE (exploredb.lookup[t] # 0) <=> (viewTx[t] # Absent)
  <2>1. IF viewTx[t] = Absent THEN exploredb.lookup[t] = 0
        ELSE exploredb.lookup[t] \in 1..Len(exploredb.acct[AddrOf[t]].outs)
    BY <1>3 DEF Good, Finds
  <2> QED BY <2>1
<1>7. QED
  BY <1>4, <1>5, <1>6

\* The chain's invariant holds in the composition as it does alone.
LEMMA ExploreChainStep ==
    ASSUME ChainInv, [ExploreNext]_allExploreVars, [~SecondaryFails]_vars
    PROVE  ChainInv'
<1>1. [Next]_vars \/ Refused
  BY StepOfChain
<1>2. CASE Refused
  BY <1>2, AbortStep DEF Refused
<1>3. CASE UNCHANGED vars
  BY <1>3, StutterStep
<1>4. CASE [Next]_vars /\ ~UNCHANGED vars
  BY <1>4, ChainStep
<1>5. QED
  BY <1>1, <1>2, <1>3, <1>4

\* For every tree of blocks, with crashes and invalid blocks anywhere, as long as no further
\* block fails after a reorganisation: an index in step with the chain gives every address
\* the sum of its unspent outputs, ranks exactly those above dust, and looks up exactly the
\* outputs of the transaction index (ConnectInput, ConnectOutput and their inverses).
THEOREM ExploreMatches ==
    ExploreSpec /\ FurtherBlocksConnect => []ExploreMatchesTxIndex
<1>1. ExploreInit => ChainInv
  BY ChainInit DEF ExploreInit
<1>2. ASSUME ChainInv, [ExploreNext]_allExploreVars, [~SecondaryFails]_vars PROVE ChainInv'
  BY <1>2, ExploreChainStep
<1>3. QED
  BY <1>1, <1>2, MatchesInSync, PTL DEF ExploreSpec, FurtherBlocksConnect

\* As long as Reorganize does not give up, and no further block fails after it, the index
\* ends in the block it should end in and is the one built from nothing along the chain.
THEOREM ExploreInSync ==
    ExploreSpec /\ FurtherBlocksConnect
        /\ [][~ReorganizeFails /\ ~ExploreReorganizeRefused]_allExploreVars
    => []InSync
<1>1. ExploreInit => ChainInv /\ InSync
  BY ChainInit, BuiltIs DEF ExploreInit, Init, InSync, Position, Nothing
<1>2. ASSUME ChainInv, InSync, [ExploreNext]_allExploreVars, [~SecondaryFails]_vars,
             [~ReorganizeFails /\ ~ExploreReorganizeRefused]_allExploreVars
      PROVE  ChainInv' /\ InSync'
  <2>1. ChainInv'
    BY <1>2, ExploreChainStep
  <2>2. CASE UNCHANGED allExploreVars
    BY <1>2, <2>1, <2>2 DEF InSync, Position, allExploreVars, vars, exploreVars, diskVars, workVars
  <2>3. CASE ExploreNext /\ ~UNCHANGED allExploreVars
    BY <1>2, <2>1, <2>3, SyncStep
  <2> QED BY <1>2, <2>1, <2>2, <2>3
<1>3. QED
  BY <1>1, <1>2, PTL DEF ExploreSpec, FurtherBlocksConnect
=============================================================================
