-------------------------- MODULE ChainState_proofs --------------------------
(***************************************************************************)
(* The block tree, the records of a branch and the transaction index as    *)
(* functions of the block they end in; that memory, disk and batch agree   *)
(* with them, with and without crashes; and that the steps of ChainState on*)
(* disk are steps of BestChain.                                            *)
(***************************************************************************)
EXTENDS ChainRefinement, Sums, TLAPS, WellFoundedInduction

\* A non-empty set of heights has a least element.
LEMMA LeastNatural ==
    ASSUME NEW S \in SUBSET Nat, S # {}
    PROVE  \E x \in S : \A y \in S : ~(y < x)
<1> DEFINE R == OpToRel(<, Nat)
<1>1. IsWellFoundedOn(R, Nat)
  BY NatLessThanWellFounded
<1>2. \E x \in S : \A y \in S : ~(<<y, x>> \in R)
  <2> HIDE DEF R
  <2> QED BY <1>1, WFMin
<1>3. QED
  BY <1>2 DEF OpToRel

\* A set of numbers that holds 0 and with k - 1 also k holds them all.
LEMMA Counting ==
    ASSUME NEW n \in Nat, NEW G, 0 \in G,
           \A k \in 1..n : k - 1 \in G => k \in G
    PROVE  \A k \in 0..n : k \in G
<1> DEFINE B == {k \in 0..n : k \notin G}
<1>1. SUFFICES ASSUME B # {} PROVE FALSE
  OBVIOUS
<1>2. PICK k \in B : \A y \in B : ~(y < k)
  <2>1. B \in SUBSET Nat
    OBVIOUS
  <2> HIDE DEF B
  <2> QED BY <1>1, <2>1, LeastNatural
<1>3. k # 0 /\ k \in 1..n /\ k - 1 \in 0..n
  OBVIOUS
<1>4. k - 1 \in G
  BY <1>2, <1>3
<1>5. QED
  BY <1>2, <1>3, <1>4

-----------------------------------------------------------------------------
(* Sums along an order.                                                    *)

\* f[k] is the sum of the first k values.
PartialSums(f, V, n) == f = [k \in 0..n |-> IF k = 0 THEN 0 ELSE f[k - 1] + V[k]]

LEMMA SumExists ==
    ASSUME NEW n \in Nat, NEW V \in [1..n -> Int]
    PROVE  \E f \in [0..n -> Int] : PartialSums(f, V, n)
<1> DEFINE W(m) == [k \in 1..m |-> V[k]]
           G == {m \in 0..n : \E f \in [0..m -> Int] : PartialSums(f, V, m)}
<1>1. 0 \in G
  <2> DEFINE f == [k \in 0..0 |-> 0]
  <2>1. f \in [0..0 -> Int]
    OBVIOUS
  <2>2. PartialSums(f, V, 0)
    BY DEF PartialSums
  <2> QED BY <2>1, <2>2
<1>2. ASSUME NEW m \in 1..n, m - 1 \in G PROVE m \in G
  <2>1. PICK g \in [0..(m - 1) -> Int] : PartialSums(g, V, m - 1)
    BY <1>2
  <2>2. \A k \in 0..(m - 1) : g[k] = IF k = 0 THEN 0 ELSE g[k - 1] + V[k]
    BY <2>1 DEF PartialSums
  <2> DEFINE f == [k \in 0..m |-> IF k = m THEN g[m - 1] + V[m] ELSE g[k]]
  <2>3. f \in [0..m -> Int]
    OBVIOUS
  <2>4. ASSUME NEW k \in 0..m PROVE f[k] = IF k = 0 THEN 0 ELSE f[k - 1] + V[k]
    BY <2>2
  <2>5. PartialSums(f, V, m)
    <3>1. f = [k \in 0..m |-> f[k]]
      OBVIOUS
    <3> HIDE DEF f
    <3> QED BY <2>4, <3>1 DEF PartialSums
  <2> QED BY <2>3, <2>5
<1>3. \A m \in 0..n : m \in G
  <2> HIDE DEF G
  <2> QED BY <1>1, <1>2, Counting
<1>4. QED
  BY <1>3

Listed(order, value, S) == [k \in 1..Len(order) |-> IF order[k] \in S THEN value[order[k]] ELSE 0]

\* The sum as the last member of a chain of partial sums.
SumIs(order, value, S, f) ==
    /\ f \in [0..Len(order) -> Int]
    /\ f[0] = 0
    /\ \A k \in 1..Len(order) : f[k] = f[k - 1] + (IF order[k] \in S THEN value[order[k]] ELSE 0)
    /\ SumAlong(order, value, S) = f[Len(order)]

LEMMA SumUnfolds ==
    ASSUME NEW X, NEW order \in Seq(X), NEW value \in [X -> Int], NEW S
    PROVE  \E f : SumIs(order, value, S, f)
<1> DEFINE n == Len(order)
           V == Listed(order, value, S)
           P(f) == f = [k \in 0..n |-> IF k = 0 THEN 0
                            ELSE f[k - 1] + (IF order[k] \in S THEN value[order[k]] ELSE 0)]
           c == CHOOSE f : P(f)
<1>1. n \in Nat /\ V \in [1..n -> Int]
  BY DEF Listed
<1>2. PICK f \in [0..n -> Int] : PartialSums(f, V, n)
  <2> HIDE DEF V, n
  <2> QED BY <1>1, SumExists
<1>3. P(f)
  <2>1. f = [k \in 0..n |-> IF k = 0 THEN 0 ELSE f[k - 1] + V[k]]
    BY <1>2 DEF PartialSums
  <2>2. \A k \in 0..n : k # 0 => V[k] = IF order[k] \in S THEN value[order[k]] ELSE 0
    BY <1>1 DEF Listed
  <2> HIDE DEF V, n
  <2> QED BY <2>1, <2>2
<1>4. P(c)
  <2> HIDE DEF P
  <2> QED BY <1>3
<1>5. SumAlong(order, value, S) = c[n]
  BY DEF SumAlong
<1> HIDE DEF c
<1>6. \A k \in 0..n : c[k] = IF k = 0 THEN 0 ELSE c[k - 1] + (IF order[k] \in S THEN value[order[k]] ELSE 0)
  BY <1>4
<1>7. \A k \in 0..n : c[k] \in Int
  <2> DEFINE G == {k \in 0..n : c[k] \in Int}
  <2>1. 0 \in G
    BY <1>1, <1>6
  <2>2. ASSUME NEW k \in 1..n, k - 1 \in G PROVE k \in G
    <3>1. k \in 0..n /\ k # 0 /\ c[k - 1] \in Int /\ order[k] \in X
      BY <1>1, <2>2
    <3> QED BY <1>6, <3>1
  <2>3. \A k \in 0..n : k \in G
    <3> HIDE DEF G, n
    <3> QED BY <1>1, <2>1, <2>2, Counting
  <2> QED BY <2>3
<1>8. c \in [0..n -> Int]
  BY <1>4, <1>7
<1>9. SumIs(order, value, S, c)
  BY <1>1, <1>5, <1>6, <1>8 DEF SumIs
<1>10. QED
  BY <1>9

LEMMA SumInt ==
    ASSUME NEW X, NEW order \in Seq(X), NEW value \in [X -> Int], NEW S
    PROVE  SumAlong(order, value, S) \in Int
<1>1. PICK f : SumIs(order, value, S, f)
  BY SumUnfolds
<1>2. QED
  BY <1>1 DEF SumIs

LEMMA SumUnion ==
    ASSUME NEW X, NEW order \in Seq(X), NEW value \in [X -> Int],
           NEW S, NEW T, S \cap T = {}
    PROVE  SumAlong(order, value, S \cup T) = SumAlong(order, value, S) + SumAlong(order, value, T)
<1> DEFINE n == Len(order)
           v(k) == value[order[k]]
<1>1. PICK f : SumIs(order, value, S, f)
  BY SumUnfolds
<1>2. PICK g : SumIs(order, value, T, g)
  BY SumUnfolds
<1>3. PICK h : SumIs(order, value, S \cup T, h)
  BY SumUnfolds
<1> DEFINE G == {k \in 0..n : h[k] = f[k] + g[k]}
<1>4. n \in Nat
  OBVIOUS
<1>5. 0 \in G
  BY <1>1, <1>2, <1>3, <1>4 DEF SumIs
<1>6. ASSUME NEW k \in 1..n, k - 1 \in G PROVE k \in G
  <2>0. order[k] \in X /\ k - 1 \in 0..n /\ k \in 0..n
    BY <1>4
  <2>1. /\ v(k) \in Int /\ f[k - 1] \in Int /\ g[k - 1] \in Int
        /\ h[k - 1] = f[k - 1] + g[k - 1]
    BY <1>1, <1>2, <1>6, <2>0 DEF SumIs
  <2>2. /\ f[k] = f[k - 1] + (IF order[k] \in S THEN v(k) ELSE 0)
        /\ g[k] = g[k - 1] + (IF order[k] \in T THEN v(k) ELSE 0)
        /\ h[k] = h[k - 1] + (IF order[k] \in S \cup T THEN v(k) ELSE 0)
    BY <1>1, <1>2, <1>3 DEF SumIs
  <2> HIDE DEF v
  <2> QED BY <2>0, <2>1, <2>2
<1>7. \A k \in 0..n : k \in G
  <2> HIDE DEF G, n
  <2> QED BY <1>4, <1>5, <1>6, Counting
<1>8. h[n] = f[n] + g[n]
  BY <1>4, <1>7
<1>9. QED
  BY <1>1, <1>2, <1>3, <1>8 DEF SumIs

LEMMA SumEmpty ==
    ASSUME NEW X, NEW order \in Seq(X), NEW value \in [X -> Int]
    PROVE  SumAlong(order, value, {}) = 0
<1>1. SumAlong(order, value, {} \cup {}) = SumAlong(order, value, {}) + SumAlong(order, value, {})
  BY SumUnion
<1>2. SumAlong(order, value, {}) \in Int
  BY SumInt
<1>3. {} \cup {} = {}
  OBVIOUS
<1> HIDE <1>1
<1>4. SumAlong(order, value, {}) = SumAlong(order, value, {}) + SumAlong(order, value, {})
  BY <1>1, <1>3
<1>5. QED
  BY <1>2, <1>4

LEMMA SumOne ==
    ASSUME NEW X, NEW order, Enumerates(order, X), NEW value \in [X -> Int], NEW x \in X
    PROVE  SumAlong(order, value, {x}) = value[x]
<1> DEFINE n == Len(order)
<1>0. order \in Seq(X) /\ n \in Nat
  BY DEF Enumerates
<1>1. PICK f : SumIs(order, value, {x}, f)
  BY <1>0, SumUnfolds
<1>2. PICK j \in 1..n : order[j] = x
  BY DEF Enumerates
<1> DEFINE G == {k \in 0..n : f[k] = IF k < j THEN 0 ELSE value[x]}
<1>3. 0 \in G
  BY <1>0, <1>1 DEF SumIs
<1>4. ASSUME NEW k \in 1..n, k - 1 \in G PROVE k \in G
  <2>1. f[k] = f[k - 1] + (IF order[k] = x THEN value[x] ELSE 0) /\ value[x] \in Int
    BY <1>1 DEF SumIs
  <2>2. order[k] = x <=> k = j
    BY <1>2 DEF Enumerates
  <2>3. f[k - 1] = IF k - 1 < j THEN 0 ELSE value[x]
    BY <1>4
  <2> HIDE DEF n
  <2> QED BY <1>0, <2>1, <2>2, <2>3
<1>5. \A k \in 0..n : k \in G
  <2> HIDE DEF G, n
  <2> QED BY <1>0, <1>3, <1>4, Counting
<1>6. f[n] = value[x]
  BY <1>0, <1>2, <1>5
<1>7. QED
  BY <1>1, <1>6 DEF SumIs

\* A sum of sums over disjoint sets own[x], x in S, is the sum over their union.
LEMMA SumOfSums ==
    ASSUME NEW X, NEW order, Enumerates(order, X), NEW value \in [X -> Int], NEW S \in SUBSET X,
           NEW own \in [X -> SUBSET X],
           \A x, y \in S : x # y => own[x] \cap own[y] = {}
    PROVE  SumAlong(order, [x \in X |-> SumAlong(order, value, own[x])], S)
             = SumAlong(order, value, UNION {own[x] : x \in S})
<1> DEFINE n == Len(order)
           sums == [x \in X |-> SumAlong(order, value, own[x])]
           U(k) == UNION {own[x] : x \in {order[j] : j \in 1..k} \cap S}
<1>0. order \in Seq(X) /\ n \in Nat
  BY DEF Enumerates
<1>1. sums \in [X -> Int] /\ \A x \in X : sums[x] = SumAlong(order, value, own[x])
  BY <1>0, SumInt
<1> HIDE DEF sums
<1>2. PICK f : SumIs(order, sums, S, f)
  BY <1>0, <1>1, SumUnfolds
<1> DEFINE G == {k \in 0..n : f[k] = SumAlong(order, value, U(k))}
<1>3. 0 \in G
  <2>1. U(0) = {}
    OBVIOUS
  <2>2. f[0] = 0 /\ 0 \in 0..n
    BY <1>0, <1>2 DEF SumIs
  <2> HIDE DEF U
  <2> QED BY <1>0, <2>1, <2>2, SumEmpty
<1>4. ASSUME NEW k \in 1..n, k - 1 \in G PROVE k \in G
  <2>0. f[k - 1] = SumAlong(order, value, U(k - 1)) /\ k \in 0..n
    BY <1>0, <1>4
  <2>1. f[k] = f[k - 1] + (IF order[k] \in S THEN sums[order[k]] ELSE 0) /\ order[k] \in X
    BY <1>0, <1>2 DEF SumIs
  <2>2. 1..k = 1..(k - 1) \cup {k}
    BY <1>0
  <2>3. CASE order[k] \in S
    <3>1. U(k) = U(k - 1) \cup own[order[k]]
      BY <2>2, <2>3
    <3>2. U(k - 1) \cap own[order[k]] = {}
      <4> SUFFICES ASSUME NEW j \in 1..(k - 1), order[j] \in S
                   PROVE  own[order[j]] \cap own[order[k]] = {}
        OBVIOUS
      <4>1. order[j] # order[k]
        BY <1>0 DEF Enumerates
      <4> QED BY <2>3, <4>1
    <3> HIDE DEF U
    <3>3. SumAlong(order, value, U(k)) = SumAlong(order, value, U(k - 1)) + SumAlong(order, value, own[order[k]])
      BY <1>0, <3>1, <3>2, SumUnion
    <3> QED BY <1>1, <2>0, <2>1, <2>3, <3>3
  <2>4. CASE order[k] \notin S
    <3>1. U(k) = U(k - 1)
      BY <2>2, <2>4
    <3> HIDE DEF U
    <3>2. f[k - 1] \in Int
      BY <1>0, <2>0, SumInt
    <3> QED BY <2>0, <2>1, <2>4, <3>1, <3>2
  <2> QED BY <2>3, <2>4
<1>5. \A k \in 0..n : k \in G
  <2> HIDE DEF G, n
  <2> QED BY <1>0, <1>3, <1>4, Counting
<1>6. f[n] = SumAlong(order, value, U(n))
  BY <1>0, <1>5
<1>7. U(n) = UNION {own[x] : x \in S}
  <2>1. \A x \in X : \E k \in 1..n : order[k] = x
    BY DEF Enumerates
  <2> QED BY <2>1
<1>8. QED
  BY <1>2, <1>6, <1>7 DEF SumIs, sums

-----------------------------------------------------------------------------
(* The block tree.                                                         *)

\* Induction over the block tree, as the least counterexample by height.
LEMMA LowestBlock ==
    ASSUME NEW S \in SUBSET Block, S # {}
    PROVE  \E b \in S : b # Genesis => Parent[b] \notin S
<1> DEFINE H == {Height[b] : b \in S}
<1>1. H \in SUBSET Nat /\ H # {}
  BY TreeAssumption
<1>2. PICK h \in H : \A y \in H : ~(y < h)
  <2> HIDE DEF H
  <2> QED BY <1>1, LeastNatural
<1>3. PICK b \in S : Height[b] = h
  BY <1>2
<1>4. ASSUME b # Genesis, Parent[b] \in S PROVE FALSE
  <2>1. Height[Parent[b]] \in H
    BY <1>4
  <2>2. Height[b] = Height[Parent[b]] + 1 /\ Height[Parent[b]] \in Nat
    BY <1>4, TreeAssumption
  <2> QED
    BY <1>2, <1>3, <2>1, <2>2
<1>5. QED
  BY <1>4

\* What the ancestry of a block looks like.
Ancestry(b) ==
    /\ b \in Chain[b]
    /\ Genesis \in Chain[b]
    /\ \A a \in Chain[b] :
          /\ Chain[a] \subseteq Chain[b]
          /\ a # b => Height[a] < Height[b] /\ Trust[a] < Trust[b]
    /\ \A x, y \in Chain[b] : Height[x] = Height[y] => x = y

LEMMA ChainAncestry == \A b \in Block : Ancestry(b)
<1> DEFINE S == {b \in Block : ~Ancestry(b)}
<1>1. SUFFICES ASSUME S # {} PROVE FALSE
  OBVIOUS
<1>2. PICK b \in S : b # Genesis => Parent[b] \notin S
  <2>1. S \in SUBSET Block
    OBVIOUS
  <2> HIDE DEF S
  <2> QED BY <1>1, <2>1, LowestBlock
<1>3. CASE b = Genesis
  BY <1>3, TreeAssumption, ChainAssumption DEF Ancestry
<1>4. CASE b # Genesis
  <2> DEFINE p == Parent[b]
  <2>1. b \in Block /\ p \in Block /\ Ancestry(p)
    BY <1>2, <1>4, TreeAssumption
  <2>2. /\ Chain[b] = {b} \cup Chain[p]
        /\ Height[b] = Height[p] + 1
        /\ Trust[b] > Trust[p]
        /\ Height \in [Block -> Nat]
        /\ Trust \in [Block -> Nat]
        /\ Chain[p] \subseteq Block
    BY <1>4, <2>1, TreeAssumption, ChainAssumption
  <2> HIDE DEF p
  <2>3. \A a \in Chain[p] : Height[a] < Height[b] /\ Trust[a] < Trust[b]
    BY <2>1, <2>2 DEF Ancestry
  <2>4. Ancestry(b)
    BY <2>1, <2>2, <2>3 DEF Ancestry
  <2> QED BY <1>2, <2>4
<1>5. QED
  BY <1>3, <1>4

-----------------------------------------------------------------------------
(* Walking the main chain.                                                 *)

LEMMA ParentInChain ==
    ASSUME NEW b \in Block, NEW x \in Chain[b], x # Genesis
    PROVE  x \in Block /\ Parent[x] \in Chain[b] /\ Parent[x] \in Block
<1>1. x \in Block /\ Parent[x] \in Block
  BY TreeAssumption, ChainAssumption
<1>2. Parent[x] \in Chain[x] /\ Chain[x] \subseteq Chain[b]
  BY <1>1, ChainAssumption, ChainAncestry DEF Ancestry
<1>3. QED
  BY <1>1, <1>2

\* The block above a on a branch is the only one of the branch with parent a.
LEMMA OneChild ==
    ASSUME NEW b \in Block, NEW x \in Chain[b], NEW y \in Chain[b],
           Parent[x] = Parent[y]
    PROVE  x = y
<1>1. x \in Block /\ y \in Block
  BY ChainAssumption
<1>2. CASE x = Genesis \/ y = Genesis
  BY <1>1, <1>2, TreeAssumption
<1>3. CASE x # Genesis /\ y # Genesis
  <2>1. Height[x] = Height[y]
    BY <1>1, <1>3, TreeAssumption
  <2> QED BY <2>1, ChainAncestry DEF Ancestry
<1>4. QED
  BY <1>2, <1>3

LEMMA StepExists ==
    \A b \in Block : \A a \in Chain[b] \ {b} : \E x \in Chain[b] : Parent[x] = a
<1> DEFINE Q(b) == \A a \in Chain[b] \ {b} : \E x \in Chain[b] : Parent[x] = a
           S == {b \in Block : ~Q(b)}
<1>1. SUFFICES ASSUME S # {} PROVE FALSE
  OBVIOUS
<1>2. PICK b \in S : b # Genesis => Parent[b] \notin S
  <2>1. S \in SUBSET Block
    OBVIOUS
  <2> HIDE DEF S
  <2> QED BY <1>1, <2>1, LowestBlock
<1>3. CASE b = Genesis
  BY <1>3, ChainAssumption
<1>4. CASE b # Genesis
  <2>1. b \in Block /\ Parent[b] \in Block /\ Q(Parent[b])
    BY <1>2, <1>4, TreeAssumption
  <2>2. Chain[b] = {b} \cup Chain[Parent[b]]
    BY <1>4, <2>1, ChainAssumption
  <2>3. Q(b)
    BY <2>1, <2>2
  <2> QED BY <1>2, <2>3
<1>5. QED
  BY <1>3, <1>4

LEMMA StepTowardsIs ==
    ASSUME NEW b \in Block, NEW a \in Chain[b], a # b
    PROVE  LET x == StepTowards(a, b)
           IN  x \in Chain[b] /\ x \in Block /\ Parent[x] = a /\ x # Genesis
<1>1. \E x \in Chain[b] : Parent[x] = a
  BY StepExists
<1>2. StepTowards(a, b) \in Chain[b] /\ Parent[StepTowards(a, b)] = a
  BY <1>1 DEF StepTowards
<1>3. a \in Block /\ Chain[b] \subseteq Block
  BY ChainAssumption
<1>4. QED
  BY <1>2, <1>3, TreeAssumption

\* A block is not an ancestor of its parent, and nothing below has it as parent.
LEMMA AboveParent ==
    ASSUME NEW b \in Block, b # Genesis
    PROVE  /\ Parent[b] \in Block
           /\ b \notin Chain[Parent[b]]
           /\ \A x \in Chain[b] : Parent[x] # b
           /\ \A x \in Chain[Parent[b]] : Parent[x] # Parent[b]
           /\ Chain[b] = {b} \cup Chain[Parent[b]]
           /\ Parent[b] \in Chain[Parent[b]]
<1>1. /\ Parent[b] \in Block
      /\ Height[b] = Height[Parent[b]] + 1
      /\ Height \in [Block -> Nat]
      /\ Chain[b] = {b} \cup Chain[Parent[b]]
      /\ Chain[b] \subseteq Block
  BY TreeAssumption, ChainAssumption
<1>2. \A c \in Block : \A x \in Chain[c] : x \in Block /\ Height[x] <= Height[c]
  BY ChainAncestry, ChainAssumption, TreeAssumption DEF Ancestry
<1>3. \A c \in Block : \A x \in Chain[c] : Parent[x] # c
  <2> SUFFICES ASSUME NEW c \in Block, NEW x \in Chain[c], Parent[x] = c PROVE FALSE
    OBVIOUS
  <2>1. x \in Block /\ x # Genesis /\ Height[x] = Height[c] + 1
    BY <1>2, TreeAssumption
  <2> QED BY <1>1, <1>2, <2>1
<1>4. b \notin Chain[Parent[b]]
  BY <1>1, <1>2
<1>5. QED
  BY <1>1, <1>3, <1>4, ChainAncestry DEF Ancestry

\* pnext, hashNext: adding the block b to the records of its parent's branch.
LEMMA NextOfStep ==
    ASSUME NEW b \in Block, b # Genesis
    PROVE  /\ NextOf(b) = [NextOf(Parent[b]) EXCEPT ![Parent[b]] = b]
           /\ NextOf(Parent[b]) = [NextOf(b) EXCEPT ![Parent[b]] = NoBlock]
           /\ NextOf(Parent[b])[b] = NoBlock
           /\ NextOf(b) = [NextOf(Parent[b]) EXCEPT ![b] = NoBlock, ![Parent[b]] = b]
<1> DEFINE p == Parent[b]
<1>1. /\ p \in Block /\ b \notin Chain[p]
      /\ \A x \in Chain[b] : Parent[x] # b
      /\ \A x \in Chain[p] : Parent[x] # p
      /\ Chain[b] = {b} \cup Chain[p]
  BY AboveParent
<1>2. \A a \in Block : a # p => NextOf(b)[a] = NextOf(p)[a]
  <2> SUFFICES ASSUME NEW a \in Block, a # p PROVE NextOf(b)[a] = NextOf(p)[a]
    OBVIOUS
  <2>1. \A x : (x \in Chain[b] /\ Parent[x] = a) <=> (x \in Chain[p] /\ Parent[x] = a)
    BY <1>1
  <2>2. CASE \E x \in Chain[p] : Parent[x] = a
    <3>1. PICK x \in Chain[p] : Parent[x] = a
      BY <2>2
    <3>2. StepTowards(a, p) \in Chain[p] /\ Parent[StepTowards(a, p)] = a
      BY <3>1 DEF StepTowards
    <3>3. StepTowards(a, b) \in Chain[b] /\ Parent[StepTowards(a, b)] = a
      BY <3>1, <2>1 DEF StepTowards
    <3>4. StepTowards(a, p) = StepTowards(a, b)
      BY <3>2, <3>3, <2>1, <1>1, OneChild
    <3> QED BY <2>1, <2>2, <3>4 DEF NextOf
  <2>3. CASE ~\E x \in Chain[p] : Parent[x] = a
    BY <2>1, <2>3 DEF NextOf
  <2> QED BY <2>2, <2>3
<1>3. NextOf(b)[p] = b
  <2>1. StepTowards(p, b) \in Chain[b] /\ Parent[StepTowards(p, b)] = p
    BY <1>1 DEF StepTowards
  <2>2. StepTowards(p, b) = b
    BY <2>1, <1>1, OneChild
  <2> QED BY <1>1, <2>2 DEF NextOf
<1>4. NextOf(p)[p] = NoBlock /\ NextOf(p)[b] = NoBlock
  BY <1>1 DEF NextOf
<1>5. /\ NextOf(b) = [a \in Block |-> NextOf(b)[a]]
      /\ NextOf(p) = [a \in Block |-> NextOf(p)[a]]
  BY DEF NextOf
<1> HIDE DEF p
<1>6. b # p
  BY <1>1, ChainAncestry DEF Ancestry, p
<1>7. /\ NextOf(b) = [NextOf(p) EXCEPT ![p] = b]
      /\ NextOf(p) = [NextOf(b) EXCEPT ![p] = NoBlock]
      /\ NextOf(b) = [NextOf(p) EXCEPT ![b] = NoBlock, ![p] = b]
  BY <1>1, <1>2, <1>3, <1>4, <1>5, <1>6
<1>8. QED
  BY <1>4, <1>7 DEF p

LEMMA NextOfType ==
    ASSUME NEW b \in Block
    PROVE  NextOf(b) \in [Block -> Block \cup {NoBlock}]
<1> SUFFICES ASSUME NEW a \in Block, NEW x \in Chain[b], Parent[x] = a
             PROVE  StepTowards(a, b) \in Block
  BY DEF NextOf
<1>1. StepTowards(a, b) \in Chain[b]
  BY DEF StepTowards
<1>2. QED
  BY <1>1, ChainAssumption

\* On a branch, pnext leads from the parent of each of its blocks to the block.
LEMMA NextOfParent ==
    ASSUME NEW b \in Block, NEW x \in Chain[b], x # Genesis
    PROVE  NextOf(b)[Parent[x]] = x
<1>1. Parent[x] \in Block
  BY ParentInChain
<1>2. StepTowards(Parent[x], b) \in Chain[b] /\ Parent[StepTowards(Parent[x], b)] = Parent[x]
  BY DEF StepTowards
<1>3. StepTowards(Parent[x], b) = x
  BY <1>2, OneChild
<1>4. QED
  BY <1>1, <1>3 DEF NextOf

\* mapBlockLookup: the entry of each height, and of a height above the branch.
LEMMA LookupOfIs ==
    ASSUME NEW b \in Block
    PROVE  /\ LookupOf(b) \in [Heights -> Block \cup {NoBlock}]
           /\ \A x \in Chain[b] : Height[x] \in Heights /\ LookupOf(b)[Height[x]] = x
           /\ \A h \in Heights :
                 (\A x \in Chain[b] : Height[x] # h) => LookupOf(b)[h] = NoBlock
<1> DEFINE C(h) == CHOOSE x \in Chain[b] : Height[x] = h
<1>1. \A h : (\E x \in Chain[b] : Height[x] = h)
               => C(h) \in Chain[b] /\ C(h) \in Block /\ Height[C(h)] = h
  BY ChainAssumption
<1>2. \A h \in Heights : LookupOf(b)[h] =
          IF \E x \in Chain[b] : Height[x] = h THEN C(h) ELSE NoBlock
  BY DEF LookupOf
<1>3. LookupOf(b) \in [Heights -> Block \cup {NoBlock}]
  BY <1>1 DEF LookupOf
<1>4. ASSUME NEW x \in Chain[b]
      PROVE  Height[x] \in Heights /\ LookupOf(b)[Height[x]] = x
  <2>1. x \in Block /\ Height[x] \in Heights
    BY ChainAssumption DEF Heights
  <2>2. C(Height[x]) \in Chain[b] /\ Height[C(Height[x])] = Height[x]
    BY <1>1
  <2>3. C(Height[x]) = x
    <3> HIDE DEF C
    <3> QED BY <2>2, ChainAncestry DEF Ancestry
  <2> HIDE DEF C
  <2> QED BY <1>2, <2>1, <2>3
<1>5. QED
  BY <1>2, <1>3, <1>4

LEMMA LookupOfStep ==
    ASSUME NEW b \in Block, b # Genesis
    PROVE  LookupOf(b) = [LookupOf(Parent[b]) EXCEPT ![Height[b]] = b]
<1> DEFINE p == Parent[b]
<1>1. p \in Block /\ Chain[b] = {b} \cup Chain[p] /\ b \in Chain[b]
  BY AboveParent, ChainAncestry DEF Ancestry
<1>2. /\ LookupOf(b) \in [Heights -> Block \cup {NoBlock}]
      /\ LookupOf(p) \in [Heights -> Block \cup {NoBlock}]
      /\ LookupOf(b)[Height[b]] = b
      /\ Height[b] \in Heights
  BY <1>1, LookupOfIs
<1>3. ASSUME NEW h \in Heights, h # Height[b]
      PROVE  LookupOf(b)[h] = LookupOf(p)[h]
  <2>1. CASE \E x \in Chain[p] : Height[x] = h
    BY <1>1, <2>1, LookupOfIs
  <2>2. CASE ~\E x \in Chain[p] : Height[x] = h
    <3>1. \A x \in Chain[b] : Height[x] # h
      BY <1>1, <1>3, <2>2
    <3> QED BY <1>1, <2>2, <3>1, LookupOfIs
  <2> QED BY <2>1, <2>2
<1> HIDE DEF p
<1>4. LookupOf(b) = [LookupOf(p) EXCEPT ![Height[b]] = b]
  BY <1>2, <1>3
<1>5. QED
  BY <1>4 DEF p

\* Reorganize: unlinking vDisconnect and then linking vConnect turns the record of
\* the old branch into that of the new one, whatever the two branches are.
LEMMA RelinkNext ==
    ASSUME pindexBest \in Block, pindexIntermediate \in Block,
           pnext = NextOf(pindexBest)
    PROVE  LinkedNext = NextOf(pindexIntermediate)
<1> DEFINE o == pindexBest
           n == pindexIntermediate
<1>1. SUFFICES ASSUME NEW a \in Block PROVE LinkedNext[a] = NextOf(n)[a]
  BY DEF LinkedNext, NextOf
<1>2. CASE \E x \in vConnect : Parent[x] = a
  <2> DEFINE c == CHOOSE x \in vConnect : Parent[x] = a
  <2>1. c \in vConnect /\ Parent[c] = a
    BY <1>2
  <2>2. c \in Chain[n] /\ c # Genesis
    BY <2>1, ChainAncestry, TreeAssumption DEF vConnect, Ancestry
  <2>3. NextOf(n)[a] = c
    BY <2>1, <2>2, NextOfParent
  <2> QED BY <1>2, <2>3 DEF LinkedNext
<1>3. CASE ~\E x \in vConnect : Parent[x] = a
  <2>1. LinkedNext[a] = UnlinkedNext[a]
    BY <1>3 DEF LinkedNext
  <2>2. CASE \E x \in Chain[n] : Parent[x] = a
    <3>1. PICK x \in Chain[n] : Parent[x] = a
      BY <2>2
    <3>2. x \in Chain[o] /\ x # Genesis /\ x \notin vDisconnect
      BY <1>3, <3>1, TreeAssumption DEF vConnect, vDisconnect
    <3>3. NextOf(o)[a] = x /\ NextOf(n)[a] = x
      BY <3>1, <3>2, NextOfParent
    <3>4. \A y \in vDisconnect : Parent[y] # a
      BY <3>1, <3>2, OneChild DEF vDisconnect
    <3> QED BY <2>1, <3>3, <3>4 DEF UnlinkedNext
  <2>3. CASE ~\E x \in Chain[n] : Parent[x] = a
    <3>1. NextOf(n)[a] = NoBlock
      BY <2>3 DEF NextOf
    <3>2. CASE \E y \in vDisconnect : Parent[y] = a
      BY <2>1, <3>1, <3>2 DEF UnlinkedNext
    <3>3. CASE ~\E y \in vDisconnect : Parent[y] = a
      <4>1. ~\E y \in Chain[o] : Parent[y] = a
        BY <2>3, <3>3 DEF vDisconnect
      <4>2. NextOf(o)[a] = NoBlock
        BY <4>1 DEF NextOf
      <4> QED BY <2>1, <3>1, <3>3, <4>2 DEF UnlinkedNext
    <3> QED BY <3>2, <3>3
  <2> QED BY <2>2, <2>3
<1>4. QED
  BY <1>2, <1>3

LEMMA RelinkLookup ==
    ASSUME pindexBest \in Block, pindexIntermediate \in Block,
           mapBlockLookup = LookupOf(pindexBest)
    PROVE  LinkedLookup = LookupOf(pindexIntermediate)
<1> DEFINE o == pindexBest
           n == pindexIntermediate
<1>1. SUFFICES ASSUME NEW h \in Heights PROVE LinkedLookup[h] = LookupOf(n)[h]
  BY DEF LinkedLookup, LookupOf
<1>2. CASE \E x \in vConnect : Height[x] = h
  <2> DEFINE c == CHOOSE x \in vConnect : Height[x] = h
  <2>1. c \in vConnect /\ Height[c] = h
    BY <1>2
  <2>2. LookupOf(n)[h] = c
    BY <2>1, LookupOfIs DEF vConnect
  <2> QED BY <1>2, <2>2 DEF LinkedLookup
<1>3. CASE ~\E x \in vConnect : Height[x] = h
  <2>1. LinkedLookup[h] = UnlinkedLookup[h]
    BY <1>3 DEF LinkedLookup
  <2>2. CASE \E x \in Chain[n] : Height[x] = h
    <3>1. PICK x \in Chain[n] : Height[x] = h
      BY <2>2
    <3>2. x \in Chain[o] /\ x \notin vDisconnect
      BY <1>3, <3>1 DEF vConnect, vDisconnect
    <3>3. LookupOf(o)[h] = x /\ LookupOf(n)[h] = x
      BY <3>1, <3>2, LookupOfIs
    <3>4. \A y \in vDisconnect : Height[y] # h
      BY <3>1, <3>2, ChainAncestry DEF vDisconnect, Ancestry
    <3> QED BY <2>1, <3>3, <3>4 DEF UnlinkedLookup
  <2>3. CASE ~\E x \in Chain[n] : Height[x] = h
    <3>1. LookupOf(n)[h] = NoBlock
      BY <2>3, LookupOfIs
    <3>2. CASE \E y \in vDisconnect : Height[y] = h
      BY <2>1, <3>1, <3>2 DEF UnlinkedLookup
    <3>3. CASE ~\E y \in vDisconnect : Height[y] = h
      <4>1. ~\E y \in Chain[o] : Height[y] = h
        BY <2>3, <3>3 DEF vDisconnect
      <4>2. LookupOf(o)[h] = NoBlock
        BY <4>1, LookupOfIs
      <4> QED BY <2>1, <3>1, <3>3, <4>2 DEF UnlinkedLookup
    <3> QED BY <3>2, <3>3
  <2> QED BY <2>2, <2>3
<1>4. QED
  BY <1>2, <1>3

\* The test that Reorganize makes after its commit passes when memory records
\* the old branch.
LEMMA ForkLinked ==
    ASSUME pindexBest \in Block, pindexIntermediate \in Block,
           pnext = NextOf(pindexBest)
    PROVE  ForkIsLinked
<1> SUFFICES ASSUME NEW x \in vConnect, Parent[x] \notin vConnect,
                    Parent[x] # Genesis
             PROVE  UnlinkedNext[Parent[Parent[x]]] = Parent[x]
  BY DEF ForkIsLinked, PrevIsLinked
<1> DEFINE p == Parent[x]
<1>1. x \in Chain[pindexIntermediate] /\ x # Genesis
  BY ChainAncestry DEF vConnect, Ancestry
<1>2. p \in Chain[pindexIntermediate] /\ p \in Block
  BY <1>1, ParentInChain
<1>3. p \in Chain[pindexBest] /\ p \notin vDisconnect
  BY <1>2 DEF vConnect, vDisconnect
<1>4. Parent[p] \in Block /\ pnext[Parent[p]] = p
  BY <1>3, ParentInChain, NextOfParent
<1>5. \A y \in vDisconnect : Parent[y] # Parent[p]
  BY <1>3, OneChild DEF vDisconnect
<1>6. QED
  BY <1>4, <1>5 DEF UnlinkedNext

\* So does the test of SetBestChainInner when memory records the parent's branch.
LEMMA PrevLinked ==
    ASSUME NEW b \in Block, b # Genesis
    PROVE  PrevIsLinked(b, NextOf(Parent[b]))
<1>1. Parent[b] \in Block /\ Parent[b] \in Chain[Parent[b]]
  BY AboveParent
<1>2. QED
  BY <1>1, NextOfParent DEF PrevIsLinked

-----------------------------------------------------------------------------
(* The transaction index of a valid branch.                                *)

\* On a valid branch every input is created at or before the transaction that
\* spends it, no output is spent twice, and no transaction is in two blocks
\* (even though ConnectBlock lets a fully spent transaction be overwritten).
WellFormed(b) ==
    /\ \A s \in TxsOf(b) : Spends[s] \subseteq TxsOf(b)
    /\ \A s, r \in TxsOf(b) : s # r => Spends[s] \cap Spends[r] = {}
    /\ b # Genesis => Txs[b] \cap TxsOf(Parent[b]) = {}

LEMMA TxsOfStep ==
    ASSUME NEW b \in Block, b # Genesis
    PROVE  /\ TxsOf(b) = Txs[b] \cup TxsOf(Parent[b])
           /\ TxsOf(b) \subseteq Tx
           /\ Parent[b] \in Block
BY AboveParent, TxAssumption, ChainAssumption DEF TxsOf

LEMMA IndexOfIs ==
    ASSUME NEW b \in Block, NEW t \in Tx
    PROVE  /\ t \notin TxsOf(b) => IndexOf(b)[t] = Absent
           /\ t \in TxsOf(b) /\ SpentIn(TxsOf(b), t) =>
                 /\ IndexOf(b)[t] \in TxsOf(b)
                 /\ t \in Spends[IndexOf(b)[t]]
                 /\ IndexOf(b)[t] \in Tx
           /\ t \in TxsOf(b) /\ ~SpentIn(TxsOf(b), t) => IndexOf(b)[t] = Unspent
           /\ IndexOf(b) = [u \in Tx |-> IndexOf(b)[u]]
<1>1. TxsOf(b) \subseteq Tx
  BY TxAssumption, ChainAssumption DEF TxsOf
<1>2. SpentIn(TxsOf(b), t) => SpenderIn(TxsOf(b), t) \in TxsOf(b)
                              /\ t \in Spends[SpenderIn(TxsOf(b), t)]
  BY DEF SpentIn, SpenderIn
<1>3. QED
  BY <1>1, <1>2 DEF IndexOf

LEMMA ConnectWellFormed ==
    ASSUME NEW b \in Block, b # Genesis, WellFormed(Parent[b]),
           CanConnect(b, IndexOf(Parent[b]))
    PROVE  WellFormed(b)
<1> DEFINE p == Parent[b]
<1>1. /\ p \in Block /\ TxsOf(b) = Txs[b] \cup TxsOf(p)
      /\ TxsOf(b) \subseteq Tx
  BY TxsOfStep
\* An output spent on the parent's branch is not Unspent in its index.
<1>2. ASSUME NEW s \in TxsOf(p), NEW i \in Spends[s], i \notin Txs[b],
             NEW r \in Txs[b], i \in Spends[r]
      PROVE  FALSE
  <2>1. i \in TxsOf(p) /\ i \in Tx
    BY <1>1, <1>2 DEF WellFormed
  <2>2. IndexOf(p)[i] \in Tx
    BY <1>1, <1>2, <2>1, IndexOfIs DEF SpentIn
  <2>3. IndexOf(p)[i] = Unspent
    BY <1>2 DEF CanConnect
  <2> QED BY <2>2, <2>3, TxAssumption
<1>3. Txs[b] \cap TxsOf(p) = {}
  <2> DEFINE D == Txs[b] \cap TxsOf(p)
  <2>1. SUFFICES ASSUME D # {} PROVE FALSE
    OBVIOUS
  <2>2. D \in SUBSET Tx
    BY <1>1
  <2>3. PICK t \in D : Spends[t] \cap D = {}
    <3> HIDE DEF D
    <3> QED BY <2>1, <2>2, TxAssumption
  <2>4. PICK a \in Chain[p] : t \in Txs[a]
    BY <2>3 DEF TxsOf
  <2>5. a \in Chain[b] \ {b}
    BY <2>4, AboveParent
  <2>6. Spends[t] # {}
    BY <2>3, <2>4, <2>5, CoinbaseAssumption
  <2>7. PICK i \in Spends[t] : TRUE
    BY <2>6
  <2>8. i \in TxsOf(p)
    BY <2>3, <2>7 DEF WellFormed
  <2>9. i \notin Txs[b]
    BY <2>3, <2>7, <2>8
  <2> QED BY <1>2, <2>3, <2>7, <2>9
<1>4. \A s \in TxsOf(b) : Spends[s] \subseteq TxsOf(b)
  <2>1. ASSUME NEW s \in Txs[b], NEW i \in Spends[s], i \notin Txs[b]
        PROVE  i \in TxsOf(p)
    <3>1. IndexOf(p)[i] = Unspent /\ i \in Tx
      BY <1>1, <2>1, TxAssumption DEF CanConnect
    <3> QED BY <1>1, <3>1, IndexOfIs, TxAssumption
  <2> QED BY <1>1, <2>1 DEF WellFormed
<1>5. \A s, r \in TxsOf(b) : s # r => Spends[s] \cap Spends[r] = {}
  <2>1. ASSUME NEW s \in TxsOf(p), NEW r \in Txs[b], NEW i \in Spends[s], i \in Spends[r]
        PROVE  FALSE
    <3>1. i \in TxsOf(p)
      BY <2>1 DEF WellFormed
    <3> QED BY <1>2, <1>3, <2>1, <3>1
  <2> QED BY <1>1, <2>1 DEF WellFormed, CanConnect
<1>6. QED
  BY <1>3, <1>4, <1>5 DEF WellFormed

LEMMA SoundParent ==
    ASSUME NEW b \in Block, b # Genesis
    PROVE  /\ Sound(b) => Sound(Parent[b]) /\ CanConnect(b, IndexOf(Parent[b]))
           /\ Sound(Parent[b]) /\ CanConnect(b, IndexOf(Parent[b])) => Sound(b)
BY AboveParent DEF Sound

LEMMA SoundChain ==
    ASSUME NEW b \in Block, NEW a \in Chain[b], Sound(b)
    PROVE  Sound(a)
BY ChainAncestry DEF Sound, Ancestry

LEMMA SoundWellFormed == \A b \in Block : Sound(b) => WellFormed(b)
<1> DEFINE S == {b \in Block : ~(Sound(b) => WellFormed(b))}
<1>1. SUFFICES ASSUME S # {} PROVE FALSE
  OBVIOUS
<1>2. PICK b \in S : b # Genesis => Parent[b] \notin S
  <2>1. S \in SUBSET Block
    OBVIOUS
  <2> HIDE DEF S
  <2> QED BY <1>1, <2>1, LowestBlock
<1>3. CASE b = Genesis
  <2>1. TxsOf(b) = {}
    BY <1>3, ChainAssumption, TxAssumption DEF TxsOf
  <2> QED BY <1>2, <1>3, <2>1 DEF WellFormed
<1>4. CASE b # Genesis
  <2>1. b \in Block /\ Parent[b] \in Block /\ Sound(b)
    BY <1>2, <1>4, TreeAssumption
  <2>2. WellFormed(Parent[b]) /\ CanConnect(b, IndexOf(Parent[b]))
    BY <1>2, <1>4, <2>1, SoundParent
  <2>3. WellFormed(b)
    BY <1>4, <2>1, <2>2, ConnectWellFormed
  <2> QED BY <1>2, <2>3
<1>5. QED
  BY <1>3, <1>4

\* Connecting a block turns the index of its parent's branch into that of its own.
LEMMA ConnectIndex ==
    ASSUME NEW b \in Block, b # Genesis, Sound(Parent[b]),
           CanConnect(b, IndexOf(Parent[b]))
    PROVE  Sound(b) /\ ConnectTx(b, IndexOf(Parent[b])) = IndexOf(b)
<1> DEFINE p == Parent[b]
           I == IndexOf(p)
<1>1. p \in Block /\ TxsOf(b) = Txs[b] \cup TxsOf(p) /\ TxsOf(b) \subseteq Tx
  BY TxsOfStep
<1>2. Sound(b) /\ WellFormed(b) /\ WellFormed(p)
  BY <1>1, SoundParent, SoundWellFormed
<1>3. ASSUME NEW t \in Tx
      PROVE  ConnectTx(b, I)[t] = IndexOf(b)[t]
  <2>1. CASE SpentIn(Txs[b], t)
    <3> DEFINE s == SpenderIn(Txs[b], t)
    <3>1. s \in Txs[b] /\ t \in Spends[s]
      BY <2>1 DEF SpentIn, SpenderIn
    <3>2. t \in TxsOf(b) /\ SpentIn(TxsOf(b), t)
      BY <1>1, <1>2, <3>1 DEF WellFormed, SpentIn
    <3>3. IndexOf(b)[t] \in TxsOf(b) /\ t \in Spends[IndexOf(b)[t]]
      BY <3>2, IndexOfIs
    <3>4. IndexOf(b)[t] = s
      BY <1>1, <1>2, <3>1, <3>3 DEF WellFormed
    <3> QED BY <2>1, <3>4 DEF ConnectTx
  <2>2. CASE ~SpentIn(Txs[b], t) /\ t \in Txs[b]
    <3>1. ~SpentIn(TxsOf(p), t)
      BY <1>2, <2>2 DEF WellFormed, SpentIn
    <3>2. t \in TxsOf(b) /\ ~SpentIn(TxsOf(b), t)
      BY <1>1, <2>2, <3>1 DEF SpentIn
    <3> QED BY <2>2, <3>2, IndexOfIs DEF ConnectTx
  <2>3. CASE ~SpentIn(Txs[b], t) /\ t \notin Txs[b]
    <3>1. ConnectTx(b, I)[t] = I[t]
      BY <2>3 DEF ConnectTx
    <3>2. (t \in TxsOf(b) <=> t \in TxsOf(p))
          /\ (SpentIn(TxsOf(b), t) <=> SpentIn(TxsOf(p), t))
      BY <1>1, <2>3 DEF SpentIn
    <3>3. CASE t \in TxsOf(p) /\ SpentIn(TxsOf(p), t)
      <4>1. /\ I[t] \in TxsOf(p) /\ t \in Spends[I[t]]
            /\ IndexOf(b)[t] \in TxsOf(b) /\ t \in Spends[IndexOf(b)[t]]
        BY <1>1, <3>2, <3>3, IndexOfIs
      <4>2. I[t] = IndexOf(b)[t]
        <5> HIDE DEF I
        <5> QED BY <1>1, <1>2, <4>1 DEF WellFormed
      <4> QED BY <3>1, <4>2
    <3>4. CASE ~(t \in TxsOf(p) /\ SpentIn(TxsOf(p), t))
      BY <1>1, <3>1, <3>2, <3>4, IndexOfIs
    <3> QED BY <3>3, <3>4
  <2> QED BY <2>1, <2>2, <2>3
<1>4. ConnectTx(b, I) = [t \in Tx |-> ConnectTx(b, I)[t]]
  BY DEF ConnectTx
<1>5. IndexOf(b) = [t \in Tx |-> IndexOf(b)[t]]
  BY DEF IndexOf
<1> HIDE DEF I
<1>6. ConnectTx(b, I) = IndexOf(b)
  BY <1>3, <1>4, <1>5
<1>7. QED
  BY <1>2, <1>6 DEF I

\* Disconnecting it is always possible and undoes that.
LEMMA DisconnectIndex ==
    ASSUME NEW b \in Block, b # Genesis, Sound(b)
    PROVE  /\ CanDisconnect(b, IndexOf(b))
           /\ DisconnectTx(b, IndexOf(b)) = IndexOf(Parent[b])
           /\ Sound(Parent[b])
<1> DEFINE p == Parent[b]
<1>1. p \in Block /\ TxsOf(b) = Txs[b] \cup TxsOf(p) /\ TxsOf(b) \subseteq Tx
  BY TxsOfStep
<1>2. Sound(p) /\ WellFormed(b) /\ WellFormed(p)
  BY <1>1, SoundParent, SoundWellFormed
<1>3. CanDisconnect(b, IndexOf(b))
  <2> SUFFICES ASSUME NEW s \in Txs[b], NEW i \in Spends[s]
               PROVE  IndexOf(b)[i] # Absent
    BY DEF CanDisconnect
  <2>1. i \in TxsOf(b) /\ i \in Tx /\ SpentIn(TxsOf(b), i)
    BY <1>1, <1>2 DEF WellFormed, SpentIn
  <2> QED BY <2>1, IndexOfIs, TxAssumption
<1>4. ASSUME NEW t \in Tx
      PROVE  DisconnectTx(b, IndexOf(b))[t] = IndexOf(p)[t]
  <2>1. CASE t \in Txs[b]
    <3>1. t \notin TxsOf(p)
      BY <1>2, <2>1 DEF WellFormed
    <3> QED BY <1>1, <2>1, <3>1, IndexOfIs DEF DisconnectTx
  <2>2. CASE t \notin Txs[b] /\ SpentIn(Txs[b], t)
    <3>1. PICK s \in Txs[b] : t \in Spends[s]
      BY <2>2 DEF SpentIn
    <3>2. t \in TxsOf(p)
      BY <1>1, <1>2, <2>2, <3>1 DEF WellFormed
    <3>3. ~SpentIn(TxsOf(p), t)
      <4> SUFFICES ASSUME NEW r \in TxsOf(p), t \in Spends[r] PROVE FALSE
        BY DEF SpentIn
      <4>1. r # s
        BY <1>2, <3>1 DEF WellFormed
      <4> QED BY <1>1, <1>2, <3>1, <4>1 DEF WellFormed
    <3> QED BY <1>1, <2>2, <3>2, <3>3, IndexOfIs DEF DisconnectTx
  <2>3. CASE t \notin Txs[b] /\ ~SpentIn(Txs[b], t)
    <3>1. DisconnectTx(b, IndexOf(b))[t] = IndexOf(b)[t]
      BY <2>3 DEF DisconnectTx
    <3>2. (t \in TxsOf(b) <=> t \in TxsOf(p))
          /\ (SpentIn(TxsOf(b), t) <=> SpentIn(TxsOf(p), t))
      BY <1>1, <2>3 DEF SpentIn
    <3>3. CASE t \in TxsOf(p) /\ SpentIn(TxsOf(p), t)
      <4>1. /\ IndexOf(p)[t] \in TxsOf(p) /\ t \in Spends[IndexOf(p)[t]]
            /\ IndexOf(b)[t] \in TxsOf(b) /\ t \in Spends[IndexOf(b)[t]]
        BY <1>1, <3>2, <3>3, IndexOfIs
      <4>2. IndexOf(p)[t] = IndexOf(b)[t]
        BY <1>1, <1>2, <4>1 DEF WellFormed
      <4> QED BY <3>1, <4>2
    <3>4. CASE ~(t \in TxsOf(p) /\ SpentIn(TxsOf(p), t))
      BY <1>1, <3>1, <3>2, <3>4, IndexOfIs
    <3> QED BY <3>3, <3>4
  <2> QED BY <2>1, <2>2, <2>3
<1>5. DisconnectTx(b, IndexOf(b)) = [t \in Tx |-> DisconnectTx(b, IndexOf(b))[t]]
  BY DEF DisconnectTx
<1>6. IndexOf(p) = [t \in Tx |-> IndexOf(p)[t]]
  BY DEF IndexOf
<1>7. DisconnectTx(b, IndexOf(b)) = IndexOf(p)
  BY <1>4, <1>5, <1>6
<1>8. QED
  BY <1>2, <1>3, <1>7

LEMMA IndexOfType ==
    ASSUME NEW b \in Block
    PROVE  IndexOf(b) \in [Tx -> Tx \cup {Absent, Unspent}]
BY IndexOfIs DEF IndexOf

-----------------------------------------------------------------------------
(* The invariant holds initially and each action preserves it.             *)

LEMMA ChainInit == Init => ChainInv
<1> SUFFICES ASSUME Init PROVE ChainInv
  OBVIOUS
<1> USE DEF Init
<1>1. Genesis \in Block /\ Chain[Genesis] = {Genesis} /\ NoBlock \notin Block
  BY TreeAssumption, ChainAssumption
<1>2. IndexOf(Genesis) = [t \in Tx |-> Absent]
  <2>1. TxsOf(Genesis) = {}
    BY <1>1, TxAssumption DEF TxsOf
  <2> QED BY <2>1 DEF IndexOf
<1>3. NextOf(Genesis) = [b \in Block |-> NoBlock]
  BY <1>1, TreeAssumption DEF NextOf
<1>4. Sound(Genesis)
  BY <1>1 DEF Sound
<1>5. LookupOf(Genesis) \in [Heights -> Block \cup {NoBlock}]
  BY <1>1, LookupOfIs
<1>6. TypeOK
  BY <1>1, <1>5 DEF TypeOK
<1>7. QED
  BY <1>1, <1>2, <1>3, <1>4, <1>6
  DEF ChainInv, RestartFindsEveryBlock, DiskIsReplayOfBest, BatchInv, RecordsInv, WorkInv

\* Genesis is always indexed, so what arrives later has a parent.
LEMMA GenesisIndexed == ChainInv => Genesis \in mapBlockIndex
BY ChainAncestry DEF ChainInv, TypeOK, RestartFindsEveryBlock, Ancestry

LEMMA AddStep ==
    ASSUME ChainInv, NEW b \in Block, AddToBlockIndex(b)
    PROVE  ChainInv'
<1> USE DEF ChainInv, AddToBlockIndex
<1>1. b # Genesis /\ Chain[b] = {b} \cup Chain[Parent[b]]
  BY GenesisIndexed, ChainAssumption
<1>2. TypeOK'
  BY DEF TypeOK
<1>3. RestartFindsEveryBlock'
  BY <1>1 DEF RestartFindsEveryBlock
<1>4. DiskIsReplayOfBest' /\ RecordsInv' /\ BatchInv'
  BY DEF DiskIsReplayOfBest, RecordsInv, BatchInv
<1>5. WorkInv'
  BY <1>1 DEF WorkInv
<1>6. QED
  BY <1>2, <1>3, <1>4, <1>5

\* SetBestChainInner on a block whose parent is the best block on disk.
LEMMA CommitStep ==
    ASSUME ChainInv, NEW b \in mapBlockIndex, b # Genesis, Parent[b] = diskBest,
           pc # "reorganize", CanConnect(b, diskTx)
    PROVE  /\ PrevIsLinked(b, pnext)
           /\ Sound(b)
           /\ ConnectTx(b, diskTx) = IndexOf(b)
           /\ ConnectNext(b, diskNext) = NextOf(b)
           /\ [pnext EXCEPT ![Parent[b]] = b] = NextOf(b)
           /\ [mapBlockLookup EXCEPT ![Height[b]] = b] = LookupOf(b)
<1>1. b \in Block /\ pnext = NextOf(Parent[b]) /\ diskNext = NextOf(Parent[b])
      /\ mapBlockLookup = LookupOf(Parent[b]) /\ diskTx = IndexOf(Parent[b])
      /\ Sound(Parent[b])
  BY DEF ChainInv, TypeOK, RecordsInv, DiskIsReplayOfBest
<1>2. PrevIsLinked(b, pnext)
  BY <1>1, PrevLinked
<1>3. Sound(b) /\ ConnectTx(b, diskTx) = IndexOf(b)
  BY <1>1, ConnectIndex
<1>4. ConnectNext(b, diskNext) = NextOf(b)
  BY <1>1, NextOfStep DEF ConnectNext
<1>5. [pnext EXCEPT ![Parent[b]] = b] = NextOf(b)
  BY <1>1, NextOfStep
<1>6. [mapBlockLookup EXCEPT ![Height[b]] = b] = LookupOf(b)
  BY <1>1, LookupOfStep
<1>7. QED
  BY <1>2, <1>3, <1>4, <1>5, <1>6

LEMMA ExtendBestStep ==
    ASSUME ChainInv, ExtendBest
    PROVE  ChainInv' /\ diskBest' = pindexNew /\ pindexBest' = pindexNew
<1> DEFINE b == pindexNew
<1>1. b \in Block /\ b \in mapBlockIndex /\ b # Genesis /\ Parent[b] = diskBest
      /\ pc # "reorganize" /\ CanConnect(b, diskTx)
  BY DEF ChainInv, TypeOK, WorkInv, RecordsInv, ExtendBest
<1>2. /\ PrevIsLinked(b, pnext) /\ Sound(b)
      /\ ConnectTx(b, diskTx) = IndexOf(b)
      /\ ConnectNext(b, diskNext) = NextOf(b)
      /\ [pnext EXCEPT ![Parent[b]] = b] = NextOf(b)
      /\ [mapBlockLookup EXCEPT ![Height[b]] = b] = LookupOf(b)
  BY <1>1, CommitStep
<1>3. /\ diskTx' = IndexOf(b) /\ viewTx' = IndexOf(b)
      /\ diskNext' = NextOf(b) /\ viewNext' = NextOf(b) /\ pnext' = NextOf(b)
      /\ mapBlockLookup' = LookupOf(b)
      /\ diskBest' = b /\ pindexBest' = b /\ pc' = "idle"
      /\ UNCHANGED <<diskIndex, mapBlockIndex, nBestInvalidTrust>>
      /\ pindexNew' = Genesis /\ pindexIntermediate' = Genesis /\ tip' = Genesis
  BY <1>2 DEF ExtendBest, CommitBlock, LinkBlock, Finish
<1>4. TypeOK'
  BY <1>1, <1>3, IndexOfType, NextOfType, LookupOfIs, TreeAssumption DEF ChainInv, TypeOK
<1>5. RestartFindsEveryBlock'
  BY <1>1, <1>3 DEF ChainInv, RestartFindsEveryBlock
<1>6. DiskIsReplayOfBest' /\ BatchInv' /\ RecordsInv' /\ WorkInv'
  BY <1>2, <1>3 DEF DiskIsReplayOfBest, BatchInv, RecordsInv, WorkInv
<1>7. QED
  BY <1>3, <1>4, <1>5, <1>6 DEF ChainInv

\* The three ways to give up before a commit leave disk and memory alone.
LEMMA AbortStep ==
    ASSUME ChainInv, pc # "secondary", InvalidChainFound(pindexNew), TxnAbort, Finish,
           UNCHANGED <<diskVars, memVars>>
    PROVE  ChainInv'
<1> USE DEF InvalidChainFound, TxnAbort, Finish, diskVars, memVars
<1>1. TypeOK'
  BY TreeAssumption DEF ChainInv, TypeOK
<1>2. RestartFindsEveryBlock' /\ DiskIsReplayOfBest'
  BY DEF ChainInv, RestartFindsEveryBlock, DiskIsReplayOfBest
<1>3. BatchInv' /\ RecordsInv' /\ WorkInv'
  BY DEF ChainInv, BatchInv, RecordsInv, WorkInv
<1>4. QED
  BY <1>1, <1>2, <1>3 DEF ChainInv

LEMMA BeginReorganizeStep ==
    ASSUME ChainInv, BeginReorganize
    PROVE  ChainInv'
<1>1. PICK x \in Block : IsIntermediate(x) /\ pindexIntermediate' = x
  BY DEF BeginReorganize
<1>2. pindexBest = diskBest /\ pindexBest \in Block /\ pindexNew \in Block
  BY DEF ChainInv, TypeOK, RecordsInv, BeginReorganize
<1>3. TypeOK'
  BY <1>1 DEF ChainInv, TypeOK, BeginReorganize, diskVars, memVars
<1>4. RestartFindsEveryBlock' /\ DiskIsReplayOfBest' /\ RecordsInv'
  BY DEF ChainInv, RestartFindsEveryBlock, DiskIsReplayOfBest, RecordsInv,
         BeginReorganize, diskVars, memVars
<1>5. BatchInv'
  BY <1>1, <1>2, ChainAncestry
  DEF ChainInv, BatchInv, RecordsInv, DiskIsReplayOfBest, Ancestry,
      BeginReorganize, diskVars, memVars
<1>6. WorkInv'
  BY <1>1, <1>2 DEF ChainInv, WorkInv, IsIntermediate, BeginReorganize, diskVars, memVars
<1>7. QED
  BY <1>3, <1>4, <1>5, <1>6 DEF ChainInv

\* Inside Reorganize: the blocks involved, and the fork below tip.
LEMMA ReorganizeFacts ==
    ASSUME ChainInv, pc = "reorganize"
    PROVE  /\ tip \in Block /\ pindexBest \in Block /\ pindexIntermediate \in Block
           /\ pindexBest = diskBest
           /\ viewTx = IndexOf(tip) /\ viewNext = NextOf(tip) /\ Sound(tip)
           /\ tip \in Chain[pindexBest] \cup Chain[pindexIntermediate]
           /\ Chain[pindexBest] \cap Chain[pindexIntermediate] \subseteq Chain[tip]
           /\ pnext = NextOf(pindexBest) /\ mapBlockLookup = LookupOf(pindexBest)
           /\ pindexIntermediate \in mapBlockIndex
<1>1. pindexIntermediate \in Chain[pindexNew] /\ pindexNew \in mapBlockIndex
  BY DEF ChainInv, WorkInv
<1>2. pindexIntermediate \in mapBlockIndex
  BY <1>1 DEF ChainInv, RestartFindsEveryBlock
<1>3. QED
  BY <1>2 DEF ChainInv, TypeOK, BatchInv, RecordsInv

LEMMA DisconnectStep ==
    ASSUME ChainInv, ReorganizeDisconnect
    PROVE  ChainInv'
<1> DEFINE b == tip
           p == Parent[tip]
<1>1. pc = "reorganize" /\ b \notin Chain[pindexIntermediate]
      /\ viewTx' = DisconnectTx(b, viewTx) /\ viewNext' = DisconnectNext(b, viewNext)
      /\ tip' = p /\ UNCHANGED <<diskVars, nBestInvalidTrust, memVars, pc, pindexNew,
                                 pindexIntermediate>>
  BY DEF ReorganizeDisconnect
<1>2. /\ b \in Block /\ b # Genesis /\ Sound(b)
      /\ viewTx = IndexOf(b) /\ viewNext = NextOf(b) /\ b \in Chain[pindexBest]
      /\ Chain[pindexBest] \cap Chain[pindexIntermediate] \subseteq Chain[b]
      /\ pindexBest \in Block
  BY <1>1, ReorganizeFacts, ChainAncestry DEF Ancestry
<1>3. p \in Block /\ p \in Chain[pindexBest] /\ Chain[b] = {b} \cup Chain[p]
  BY <1>2, AboveParent, ParentInChain
<1>4. viewTx' = IndexOf(p) /\ Sound(p) /\ viewNext' = NextOf(p)
  BY <1>1, <1>2, DisconnectIndex, NextOfStep DEF DisconnectNext
<1>5. TypeOK'
  BY <1>1, <1>3, <1>4, IndexOfType, NextOfType DEF ChainInv, TypeOK, diskVars, memVars
<1>6. BatchInv'
  BY <1>1, <1>2, <1>3, <1>4 DEF BatchInv, memVars
<1>7. RestartFindsEveryBlock' /\ DiskIsReplayOfBest' /\ RecordsInv' /\ WorkInv'
  BY <1>1 DEF ChainInv, RestartFindsEveryBlock, DiskIsReplayOfBest, RecordsInv, WorkInv,
              diskVars, memVars
<1>8. QED
  BY <1>5, <1>6, <1>7 DEF ChainInv

LEMMA ConnectStep ==
    ASSUME ChainInv, ReorganizeConnect
    PROVE  ChainInv'
<1> DEFINE b == StepTowards(tip, pindexIntermediate)
<1>1. /\ pc = "reorganize" /\ tip \in Chain[pindexIntermediate] \ {pindexIntermediate}
      /\ CanConnect(b, viewTx)
      /\ viewTx' = ConnectTx(b, viewTx) /\ viewNext' = ConnectNext(b, viewNext)
      /\ tip' = b /\ UNCHANGED <<diskVars, nBestInvalidTrust, memVars, pc, pindexNew,
                                 pindexIntermediate>>
  BY DEF ReorganizeConnect
<1>2. /\ tip \in Block /\ Sound(tip) /\ viewTx = IndexOf(tip) /\ viewNext = NextOf(tip)
      /\ Chain[pindexBest] \cap Chain[pindexIntermediate] \subseteq Chain[tip]
      /\ pnext = NextOf(pindexBest)
      /\ pindexBest \in Block /\ pindexIntermediate \in Block
  BY <1>1, ReorganizeFacts
<1>3. b \in Chain[pindexIntermediate] /\ b \in Block /\ Parent[b] = tip /\ b # Genesis
  BY <1>1, <1>2, StepTowardsIs
<1> HIDE DEF b
<1>4. b \notin Chain[tip] /\ Chain[b] = {b} \cup Chain[tip]
  BY <1>3, AboveParent
<1>5. pnext[b] = NoBlock
  <2>1. b \notin Chain[pindexBest]
    BY <1>2, <1>3, <1>4
  <2>2. \A x \in Chain[pindexBest] : Parent[x] # b
    BY <1>2, <1>3, <2>1, ParentInChain, TreeAssumption
  <2> QED BY <1>2, <1>3, <2>2 DEF NextOf
<1>6. viewTx' = IndexOf(b) /\ Sound(b)
  BY <1>1, <1>2, <1>3, ConnectIndex
<1>7. viewNext' = NextOf(b)
  BY <1>1, <1>2, <1>3, <1>5, NextOfStep DEF ConnectNext
<1>8. TypeOK'
  BY <1>1, <1>3, <1>6, <1>7, IndexOfType, NextOfType DEF ChainInv, TypeOK, diskVars, memVars
<1>9. BatchInv'
  BY <1>1, <1>2, <1>3, <1>4, <1>6, <1>7 DEF BatchInv, memVars
<1>10. RestartFindsEveryBlock' /\ DiskIsReplayOfBest' /\ RecordsInv' /\ WorkInv'
  BY <1>1 DEF ChainInv, RestartFindsEveryBlock, DiskIsReplayOfBest, RecordsInv, WorkInv,
              diskVars, memVars
<1>11. QED
  BY <1>8, <1>9, <1>10 DEF ChainInv

LEMMA ReorganizeCommitStep ==
    ASSUME ChainInv, ReorganizeCommit
    PROVE  ChainInv' /\ diskBest' = pindexIntermediate /\ pc' = "secondary"
           /\ tip' = pindexIntermediate /\ Sound(pindexIntermediate)
           /\ UNCHANGED <<pindexBest, mapBlockIndex, pindexNew>>
<1> DEFINE n == pindexIntermediate
<1>1. /\ pc = "reorganize" /\ tip = n /\ diskTx' = viewTx /\ diskNext' = viewNext
      /\ diskBest' = n
      /\ UNCHANGED <<diskIndex, viewNext, viewTx, mapBlockIndex, pindexBest>>
  BY DEF ReorganizeCommit
<1>2. /\ n \in Block /\ pindexBest \in Block /\ n \in mapBlockIndex
      /\ viewTx = IndexOf(n) /\ viewNext = NextOf(n) /\ Sound(n)
      /\ pnext = NextOf(pindexBest) /\ mapBlockLookup = LookupOf(pindexBest)
  BY <1>1, ReorganizeFacts
<1>3. /\ ForkIsLinked
      /\ LinkedNext = NextOf(n)
      /\ LinkedLookup = LookupOf(n)
  BY <1>2, ForkLinked, RelinkNext, RelinkLookup
<1>4. /\ pnext' = NextOf(n) /\ mapBlockLookup' = LookupOf(n) /\ pc' = "secondary"
      /\ UNCHANGED <<nBestInvalidTrust, workVars>>
  BY <1>3 DEF ReorganizeCommit
<1>5. TypeOK'
  BY <1>1, <1>2, <1>4, LookupOfIs, NextOfType, IndexOfType DEF ChainInv, TypeOK, workVars
<1>6. RestartFindsEveryBlock' /\ DiskIsReplayOfBest'
  BY <1>1, <1>2 DEF ChainInv, RestartFindsEveryBlock, DiskIsReplayOfBest
<1>7. BatchInv' /\ RecordsInv'
  BY <1>1, <1>2, <1>4 DEF BatchInv, RecordsInv, workVars
<1>8. WorkInv'
  BY <1>1, <1>4 DEF ChainInv, WorkInv, workVars
<1>9. QED
  BY <1>1, <1>2, <1>4, <1>5, <1>6, <1>7, <1>8 DEF ChainInv, workVars

\* After Reorganize: the next of the further blocks.
LEMMA SecondaryFacts ==
    ASSUME ChainInv, pc = "secondary", tip # pindexNew
    PROVE  LET b == StepTowards(tip, pindexNew)
           IN  /\ b \in Chain[pindexNew] /\ b \in mapBlockIndex /\ b # Genesis
               /\ b \in Block /\ Parent[b] = diskBest /\ Trust[b] > Trust[diskBest]
<1>1. /\ pindexNew \in Block /\ tip \in Chain[pindexNew] /\ tip = diskBest
      /\ Chain[pindexNew] \subseteq mapBlockIndex
  BY DEF ChainInv, TypeOK, WorkInv, RecordsInv, RestartFindsEveryBlock
<1>2. QED
  BY <1>1, StepTowardsIs, TreeAssumption

LEMMA SecondaryConnectStep ==
    ASSUME ChainInv, SecondaryConnect
    PROVE  ChainInv'
<1> DEFINE b == StepTowards(tip, pindexNew)
<1>1. /\ pc = "secondary" /\ tip # pindexNew /\ CanConnect(b, diskTx)
      /\ CommitBlock(b) /\ LinkBlock(b) /\ tip' = b
      /\ UNCHANGED <<pindexBest, pc, pindexNew, pindexIntermediate>>
  BY DEF SecondaryConnect
<1>2. /\ b \in Chain[pindexNew] /\ b \in mapBlockIndex /\ b # Genesis
      /\ b \in Block /\ Parent[b] = diskBest /\ Trust[b] > Trust[diskBest]
  BY <1>1, SecondaryFacts
<1> HIDE DEF b
<1>3. /\ Sound(b)
      /\ ConnectTx(b, diskTx) = IndexOf(b)
      /\ ConnectNext(b, diskNext) = NextOf(b)
      /\ [pnext EXCEPT ![Parent[b]] = b] = NextOf(b)
      /\ [mapBlockLookup EXCEPT ![Height[b]] = b] = LookupOf(b)
  BY <1>1, <1>2, CommitStep
<1>4. /\ diskTx' = IndexOf(b) /\ viewTx' = IndexOf(b)
      /\ diskNext' = NextOf(b) /\ viewNext' = NextOf(b) /\ pnext' = NextOf(b)
      /\ mapBlockLookup' = LookupOf(b) /\ diskBest' = b
      /\ UNCHANGED <<diskIndex, mapBlockIndex, nBestInvalidTrust>>
  BY <1>1, <1>3 DEF CommitBlock, LinkBlock
<1>5. TypeOK'
  BY <1>1, <1>2, <1>4, IndexOfType, NextOfType, LookupOfIs DEF ChainInv, TypeOK
<1>6. RestartFindsEveryBlock'
  BY <1>2, <1>4 DEF ChainInv, RestartFindsEveryBlock
<1>7. DiskIsReplayOfBest' /\ BatchInv' /\ RecordsInv'
  BY <1>1, <1>3, <1>4 DEF DiskIsReplayOfBest, BatchInv, RecordsInv
<1>8. WorkInv'
  <2>1. Trust[tip] > Trust[pindexBest] /\ tip = diskBest /\ pindexBest \in Block
        /\ diskBest \in Block
    BY <1>1 DEF ChainInv, TypeOK, WorkInv, RecordsInv
  <2>2. Trust[b] > Trust[pindexBest]
    BY <1>2, <2>1, TreeAssumption
  <2> QED BY <1>1, <1>2, <1>4, <2>2 DEF ChainInv, WorkInv
<1>9. QED
  BY <1>5, <1>6, <1>7, <1>8 DEF ChainInv

LEMMA NewBestStep ==
    ASSUME ChainInv, NewBestBlock
    PROVE  ChainInv'
<1> USE DEF NewBestBlock, Finish
<1>1. TypeOK'
  BY TreeAssumption DEF ChainInv, TypeOK, diskVars
<1>2. RestartFindsEveryBlock' /\ DiskIsReplayOfBest' /\ BatchInv'
  BY DEF ChainInv, RestartFindsEveryBlock, DiskIsReplayOfBest, BatchInv, diskVars
<1>3. RecordsInv' /\ WorkInv'
  BY DEF ChainInv, RecordsInv, WorkInv, diskVars
<1>4. QED
  BY <1>1, <1>2, <1>3 DEF ChainInv

LEMMA RestartStep ==
    ASSUME ChainInv, Restart
    PROVE  ChainInv'
<1> USE DEF Restart, Finish, TxnAbort, diskVars
<1>1. TypeOK'
  BY TreeAssumption, LookupOfIs DEF ChainInv, TypeOK
<1>2. RestartFindsEveryBlock' /\ DiskIsReplayOfBest' /\ BatchInv'
  BY DEF ChainInv, RestartFindsEveryBlock, DiskIsReplayOfBest, BatchInv
<1>3. RecordsInv' /\ WorkInv'
  BY DEF ChainInv, RecordsInv, WorkInv
<1>4. QED
  BY <1>1, <1>2, <1>3 DEF ChainInv

LEMMA StutterStep ==
    ASSUME ChainInv, UNCHANGED vars
    PROVE  ChainInv'
BY DEF ChainInv, TypeOK, RestartFindsEveryBlock, DiskIsReplayOfBest, BatchInv, RecordsInv,
       WorkInv, vars, diskVars, memVars, workVars

\* Every step but the failure of a further block preserves the invariant.
LEMMA ChainStep ==
    ASSUME ChainInv, [Next]_vars, ~SecondaryFails
    PROVE  ChainInv'
<1>1. ASSUME NEW b \in Block, AddToBlockIndex(b) PROVE ChainInv'
  BY <1>1, AddStep
<1>2. CASE ExtendBest
  BY <1>2, ExtendBestStep
<1>3. CASE ExtendFails
  BY <1>3, AbortStep DEF ExtendFails
<1>4. CASE BeginReorganize
  BY <1>4, BeginReorganizeStep
<1>5. CASE ReorganizeDisconnect
  BY <1>5, DisconnectStep
<1>6. CASE ReorganizeConnect
  BY <1>6, ConnectStep
<1>7. CASE ReorganizeFails
  BY <1>7, AbortStep DEF ReorganizeFails
<1>8. CASE ReorganizeCommit
  BY <1>8, ReorganizeCommitStep
<1>9. CASE SecondaryConnect
  BY <1>9, SecondaryConnectStep
<1>10. CASE NewBestBlock
  BY <1>10, NewBestStep
<1>11. CASE Restart
  BY <1>11, RestartStep
<1>12. CASE UNCHANGED vars
  BY <1>12, StutterStep
<1>13. QED
  BY <1>1, <1>2, <1>3, <1>4, <1>5, <1>6, <1>7, <1>8, <1>9, <1>10, <1>11, <1>12
  DEF Next, NextNoCrash, SetBestChain

-----------------------------------------------------------------------------
(* Without crashes.                                                        *)

\* A branch that fails to connect is not valid: the failure found a block of it
\* that does not connect on the replay of its parent's branch.
LEMMA FailureIsReal ==
    ASSUME ChainInv, ExtendFails \/ ReorganizeFails
    PROVE  ~Sound(pindexNew) /\ pindexNew \in mapBlockIndex
<1>1. CASE ExtendFails
  <2>1. pindexNew \in Block /\ pindexNew # Genesis /\ pindexNew \in mapBlockIndex
        /\ diskTx = IndexOf(Parent[pindexNew])
    BY <1>1 DEF ExtendFails, ChainInv, TypeOK, WorkInv, RecordsInv, DiskIsReplayOfBest
  <2> QED BY <1>1, <2>1, SoundParent DEF ExtendFails
<1>2. CASE ReorganizeFails
  <2>1. pc = "reorganize" /\ pindexNew \in mapBlockIndex /\ pindexNew \in Block
        /\ pindexIntermediate \in Chain[pindexNew]
    BY <1>2 DEF ReorganizeFails, ChainInv, TypeOK, WorkInv
  <2>2. /\ tip \in Block /\ Sound(tip) /\ viewTx = IndexOf(tip)
        /\ pindexIntermediate \in Block
    BY <2>1, ReorganizeFacts
  <2>3. CASE tip \notin Chain[pindexIntermediate] /\ ~CanDisconnect(tip, viewTx)
    <3>1. tip # Genesis
      BY <2>2, <2>3, ChainAncestry DEF Ancestry
    <3> QED BY <2>2, <2>3, <3>1, DisconnectIndex
  <2>4. CASE /\ tip \in Chain[pindexIntermediate] \ {pindexIntermediate}
             /\ ~CanConnect(StepTowards(tip, pindexIntermediate), viewTx)
    <3> DEFINE b == StepTowards(tip, pindexIntermediate)
    <3>1. b \in Chain[pindexIntermediate] /\ b \in Block /\ Parent[b] = tip /\ b # Genesis
      BY <2>2, <2>4, StepTowardsIs
    <3>2. ~CanConnect(b, IndexOf(Parent[b]))
      BY <2>2, <2>4, <3>1
    <3> HIDE DEF b
    <3>3. ~Sound(b) /\ b \in Chain[pindexNew]
      BY <2>1, <2>2, <3>1, <3>2, SoundParent, ChainAncestry DEF Ancestry
    <3> QED BY <2>1, <3>3, SoundChain
  <2> QED BY <1>2, <2>3, <2>4 DEF ReorganizeFails
<1>3. QED
  BY <1>1, <1>2

NoCrashInv == ChainInv /\ HeaviestInv /\ InvalidTrustIsReal

LEMMA HeaviestStep ==
    ASSUME NoCrashInv, [NextNoCrash]_vars
    PROVE  HeaviestInv' /\ InvalidTrustIsReal' /\ ~SecondaryFails
<1> USE DEF NoCrashInv
<1>0. /\ Trust \in [Block -> Nat] /\ mapBlockIndex \subseteq Block
      /\ pindexBest \in Block /\ pindexNew \in Block /\ nBestInvalidTrust \in Nat
  BY TreeAssumption DEF ChainInv, TypeOK
<1>1. ~SecondaryFails
  BY DEF HeaviestInv, SecondaryFails
<1> SUFFICES HeaviestInv' /\ InvalidTrustIsReal'
  BY <1>1
<1>2. ASSUME NEW b \in Block, AddToBlockIndex(b)
      PROVE  HeaviestInv' /\ InvalidTrustIsReal'
  BY <1>2 DEF AddToBlockIndex, HeaviestInv, InvalidTrustIsReal
<1>3. CASE ExtendBest
  <2>1. pindexBest' = pindexNew /\ pc' = "idle"
        /\ UNCHANGED <<mapBlockIndex, nBestInvalidTrust>>
    BY <1>3, ExtendBestStep DEF ExtendBest, CommitBlock, Finish
  <2>2. Trust[pindexNew] > Trust[pindexBest]
    BY <1>3 DEF ExtendBest, ChainInv, WorkInv
  <2> QED BY <1>0, <2>1, <2>2 DEF HeaviestInv, InvalidTrustIsReal
<1>4. CASE ExtendFails \/ ReorganizeFails
  <2>1. ~Sound(pindexNew) /\ pindexNew \in mapBlockIndex
    BY <1>4, FailureIsReal
  <2>2. pc' = "idle" /\ UNCHANGED <<pindexBest, mapBlockIndex>>
        /\ InvalidChainFound(pindexNew)
    BY <1>4 DEF ExtendFails, ReorganizeFails, Finish, memVars
  <2>3. HeaviestInv'
    BY <2>1, <2>2 DEF HeaviestInv
  <2>4. InvalidTrustIsReal'
    BY <1>0, <2>1, <2>2 DEF InvalidTrustIsReal, InvalidChainFound
  <2> QED BY <2>3, <2>4
<1>5. CASE BeginReorganize \/ ReorganizeDisconnect \/ ReorganizeConnect
  <2>1. pc' = "reorganize" /\ pc # "idle"
        /\ UNCHANGED <<pindexBest, mapBlockIndex, pindexNew, nBestInvalidTrust>>
    BY <1>5 DEF BeginReorganize, ReorganizeDisconnect, ReorganizeConnect, memVars
  <2> QED BY <2>1 DEF HeaviestInv, InvalidTrustIsReal
<1>6. CASE ReorganizeCommit
  <2>1. /\ pc = "reorganize" /\ pc' = "secondary" /\ tip' = pindexIntermediate
        /\ UNCHANGED <<pindexBest, mapBlockIndex, pindexNew>>
        /\ Sound(pindexIntermediate)
    BY <1>6, ReorganizeCommitStep DEF ReorganizeCommit
  <2>2. nBestInvalidTrust' = nBestInvalidTrust
    BY <1>6, <2>1 DEF ReorganizeCommit, Finish
  <2>3. pindexIntermediate \in mapBlockIndex
        /\ Trust[pindexIntermediate] > Trust[pindexBest]
    BY <2>1, ReorganizeFacts DEF ChainInv, WorkInv
  <2>4. pindexIntermediate = pindexNew
    BY <2>1, <2>3 DEF HeaviestInv
  <2> QED BY <2>1, <2>2, <2>4 DEF HeaviestInv, InvalidTrustIsReal
<1>7. CASE SecondaryConnect
  BY <1>7 DEF SecondaryConnect, HeaviestInv
<1>8. CASE NewBestBlock
  <2>1. Trust[pindexNew] > Trust[pindexBest]
    BY <1>8 DEF NewBestBlock, ChainInv, WorkInv
  <2> QED BY <1>0, <1>8, <2>1 DEF NewBestBlock, Finish, HeaviestInv, InvalidTrustIsReal
<1>9. CASE UNCHANGED vars
  BY <1>9 DEF HeaviestInv, InvalidTrustIsReal, vars, memVars, workVars
<1>10. QED
  BY <1>1, <1>2, <1>3, <1>4, <1>5, <1>6, <1>7, <1>8, <1>9 DEF NextNoCrash, SetBestChain

LEMMA NoCrashInvariant == SpecNoCrash => []NoCrashInv
<1>1. Init => NoCrashInv
  <2> SUFFICES ASSUME Init PROVE NoCrashInv
    OBVIOUS
  <2>1. ChainInv
    BY ChainInit
  <2>2. HeaviestInv /\ InvalidTrustIsReal
    BY TreeAssumption DEF Init, HeaviestInv, InvalidTrustIsReal
  <2> QED BY <2>1, <2>2 DEF NoCrashInv
<1>2. NoCrashInv /\ [NextNoCrash]_vars => NoCrashInv'
  <2> SUFFICES ASSUME NoCrashInv, [NextNoCrash]_vars PROVE NoCrashInv'
    OBVIOUS
  <2>1. HeaviestInv' /\ InvalidTrustIsReal' /\ ~SecondaryFails
    BY HeaviestStep
  <2>2. ChainInv'
    BY <2>1, ChainStep DEF NoCrashInv, Next
  <2> QED BY <2>1, <2>2 DEF NoCrashInv
<1>3. QED
  BY <1>1, <1>2, PTL DEF SpecNoCrash

\* Without crashes, for every block tree and every order of arrival, with invalid
\* blocks and double spends anywhere: between two calls of SetBestChain the
\* transaction index on disk is the replay of the best chain, memory agrees with
\* disk, the best chain is the heaviest valid one, and what InvalidChainFound
\* recorded is really invalid (AddToBlockIndex, SetBestChain, Reorganize).
THEOREM NoCrashSafety ==
    SpecNoCrash => [](/\ TypeOK
                      /\ DiskIsReplayOfBest
                      /\ MemoryAgreesWithDisk
                      /\ BestIsHeaviest
                      /\ InvalidTrustIsReal)
<1>1. NoCrashInv => /\ TypeOK
                    /\ DiskIsReplayOfBest
                    /\ MemoryAgreesWithDisk
                    /\ BestIsHeaviest
                    /\ InvalidTrustIsReal
  BY DEF NoCrashInv, ChainInv, RecordsInv, HeaviestInv, MemoryAgreesWithDisk, BestIsHeaviest
<1>2. QED
  BY <1>1, NoCrashInvariant, PTL

\* What a step does to the trust of the two best blocks.
LEMMA TrustStep ==
    ASSUME ChainInv, [Next]_vars, ~SecondaryFails
    PROVE  /\ diskBest' # diskBest => Trust[diskBest'] > Trust[diskBest]
           /\ pindexBest' # pindexBest /\ ~Restart => Trust[pindexBest'] > Trust[pindexBest]
<1>1. CASE ExtendBest
  BY <1>1, ExtendBestStep DEF ExtendBest, ChainInv, WorkInv, RecordsInv
<1>2. CASE ReorganizeCommit
  <2>1. pc = "reorganize" /\ diskBest' = pindexIntermediate /\ UNCHANGED pindexBest
    BY <1>2, ReorganizeCommitStep DEF ReorganizeCommit
  <2> QED BY <2>1 DEF ChainInv, WorkInv, RecordsInv
<1>3. CASE SecondaryConnect
  <2>1. pc = "secondary" /\ tip # pindexNew /\ UNCHANGED pindexBest
        /\ diskBest' = StepTowards(tip, pindexNew)
    BY <1>3 DEF SecondaryConnect, CommitBlock
  <2> QED BY <2>1, SecondaryFacts
<1>4. CASE NewBestBlock
  BY <1>4 DEF NewBestBlock, ChainInv, WorkInv, diskVars
<1>5. CASE Restart
  BY <1>5 DEF Restart, diskVars
<1>6. CASE \/ ExtendFails \/ ReorganizeFails
           \/ BeginReorganize \/ ReorganizeDisconnect \/ ReorganizeConnect
           \/ UNCHANGED vars
  BY <1>6 DEF ExtendFails, ReorganizeFails, BeginReorganize, ReorganizeDisconnect,
              ReorganizeConnect, vars, diskVars, memVars
<1>7. ASSUME NEW b \in Block, AddToBlockIndex(b)
      PROVE  UNCHANGED <<diskBest, pindexBest>>
  BY <1>7 DEF AddToBlockIndex
<1>8. QED
  BY <1>1, <1>2, <1>3, <1>4, <1>5, <1>6, <1>7 DEF Next, NextNoCrash, SetBestChain

\* Without crashes memory's best block only moves to one with more trust
\* (the test nChainTrust > nBestChainTrust of AddToBlockIndex).
THEOREM NoCrashTrust == SpecNoCrash => BestTrustGrows
<1> DEFINE A == pindexBest' # pindexBest => Trust[pindexBest'] > Trust[pindexBest]
<1>1. NoCrashInv /\ [NextNoCrash]_vars => [A]_vars
  <2> SUFFICES ASSUME NoCrashInv, [NextNoCrash]_vars PROVE A \/ UNCHANGED vars
    OBVIOUS
  <2>1. ChainInv /\ [Next]_vars /\ ~SecondaryFails
    BY HeaviestStep DEF NoCrashInv, Next
  <2>2. CASE ~Restart
    BY <2>1, <2>2, TrustStep
  <2>3. CASE Restart
    <3>1. pindexBest' = diskBest
      BY <2>3 DEF Restart
    <3>2. CASE pc = "secondary"
      <4>1. tip = pindexNew /\ tip = diskBest /\ Trust[pindexNew] > Trust[pindexBest]
        BY <2>1, <3>2 DEF NoCrashInv, HeaviestInv, ChainInv, RecordsInv, WorkInv
      <4> QED BY <3>1, <4>1
    <3>3. CASE pc # "secondary"
      BY <2>1, <3>1, <3>3 DEF ChainInv, RecordsInv
    <3> QED BY <3>2, <3>3
  <2> QED BY <2>2, <2>3
<1>2. QED
  BY <1>1, NoCrashInvariant, PTL DEF SpecNoCrash, BestTrustGrows

-----------------------------------------------------------------------------
(* With crashes at any point, when every branch is valid.                  *)

LEMMA ValidChainInvariant ==
    (\A b \in Block : Sound(b)) => (Spec => []ChainInv)
<1> SUFFICES ASSUME \A b \in Block : Sound(b) PROVE Spec => []ChainInv
  OBVIOUS
<1>1. ChainInv /\ [Next]_vars => ChainInv'
  <2> SUFFICES ASSUME ChainInv, [Next]_vars PROVE ChainInv'
    OBVIOUS
  <2>1. CASE ~SecondaryFails
    BY <2>1, ChainStep
  <2>2. CASE SecondaryFails
    <3> DEFINE b == StepTowards(tip, pindexNew)
    <3>1. pc = "secondary" /\ tip # pindexNew
      BY <2>2 DEF SecondaryFails
    <3>2. b \in mapBlockIndex /\ b \in Block /\ b # Genesis /\ Parent[b] = diskBest
      BY <3>1, SecondaryFacts
    <3>3. CanConnect(b, diskTx)
      BY <3>2, SoundParent DEF ChainInv, DiskIsReplayOfBest
    <3>4. PrevIsLinked(b, pnext)
      BY <3>1, <3>2, <3>3, CommitStep
    <3> QED BY <2>2, <3>3, <3>4 DEF SecondaryFails
  <2> QED BY <2>1, <2>2
<1>2. QED
  BY <1>1, ChainInit, PTL DEF Spec

\* If every branch is valid, a crash at any point of AddToBlockIndex, SetBestChain
\* or Reorganize, followed by LoadBlockIndex, leaves memory, the block records and
\* the transaction index in agreement, and no record is missing.
THEOREM CrashSafety ==
    (\A b \in Block : Sound(b)) =>
        (Spec => [](/\ TypeOK
                    /\ DiskIsReplayOfBest
                    /\ MemoryAgreesWithDisk
                    /\ RestartFindsEveryBlock))
<1>1. ChainInv => TypeOK /\ DiskIsReplayOfBest /\ MemoryAgreesWithDisk /\ RestartFindsEveryBlock
  BY DEF ChainInv, RecordsInv, MemoryAgreesWithDisk
<1>2. QED
  BY <1>1, ValidChainInvariant, PTL

-----------------------------------------------------------------------------
(* ChainState implements BestChain.                                        *)

\* A commit of the replay of a known, valid, heavier branch is an Adopt.
LEMMA CommitIsAdopt ==
    ASSUME NEW b \in Block, b \in diskIndex, Sound(b), Trust[b] > Trust[diskBest],
           diskBest' = b, diskTx' = IndexOf(b), UNCHANGED diskIndex
    PROVE  BC!Next
<1>1. b \in Valid /\ Replay[b] = IndexOf(b)
  BY DEF Valid, Replay
<1>2. BC!Adopt(b)
  BY <1>1 DEF BC!Adopt
<1>3. QED
  BY <1>2 DEF BC!Next

LEMMA InitMaps == Init => BC!Init
<1>1. Replay[Genesis] = IndexOf(Genesis)
  BY TreeAssumption DEF Replay
<1>2. ASSUME Init PROVE diskTx = IndexOf(Genesis)
  BY <1>2, ChainInit DEF Init, ChainInv, DiskIsReplayOfBest
<1>3. QED
  BY <1>1, <1>2 DEF Init, BC!Init

\* Every step from an agreeing state, SecondaryFails included, is a step of the
\* abstract store or leaves the disk alone.
LEMMA DiskStep ==
    ASSUME ChainInv, [Next]_vars
    PROVE  [BC!Next]_(BC!vars)
<1> USE DEF BC!vars
<1>1. ASSUME NEW b \in Block, AddToBlockIndex(b) PROVE BC!Next
  <2>1. BC!Receive(b)
    BY <1>1 DEF AddToBlockIndex, BC!Receive, ChainInv, RestartFindsEveryBlock
  <2> QED BY <2>1 DEF BC!Next
<1>2. CASE ExtendBest
  <2> DEFINE b == pindexNew
  <2>1. /\ b \in Block /\ b \in mapBlockIndex /\ b # Genesis /\ Parent[b] = diskBest
        /\ pc # "reorganize" /\ CanConnect(b, diskTx) /\ Trust[b] > Trust[diskBest]
        /\ b \in diskIndex
    BY <1>2 DEF ChainInv, TypeOK, WorkInv, RecordsInv, RestartFindsEveryBlock, ExtendBest
  <2>2. Sound(b) /\ ConnectTx(b, diskTx) = IndexOf(b)
    BY <2>1, CommitStep
  <2>3. diskBest' = b /\ diskTx' = IndexOf(b) /\ UNCHANGED diskIndex
    BY <1>2, <2>2 DEF ExtendBest, CommitBlock
  <2> QED BY <2>1, <2>2, <2>3, CommitIsAdopt
<1>3. CASE ReorganizeCommit
  <2> DEFINE b == pindexIntermediate
  <2>1. /\ pc = "reorganize" /\ tip = b /\ diskTx' = viewTx /\ diskBest' = b
        /\ UNCHANGED diskIndex
    BY <1>3 DEF ReorganizeCommit
  <2>2. b \in Block /\ b \in mapBlockIndex /\ viewTx = IndexOf(b) /\ Sound(b)
    BY <2>1, ReorganizeFacts
  <2>3. b \in diskIndex /\ Trust[b] > Trust[diskBest]
    BY <2>1, <2>2 DEF ChainInv, WorkInv, RecordsInv, RestartFindsEveryBlock
  <2> QED BY <2>1, <2>2, <2>3, CommitIsAdopt
<1>4. ASSUME pc = "secondary", tip # pindexNew, CanConnect(StepTowards(tip, pindexNew), diskTx),
             CommitBlock(StepTowards(tip, pindexNew))
      PROVE  BC!Next
  <2> DEFINE b == StepTowards(tip, pindexNew)
  <2>1. /\ b \in mapBlockIndex /\ b # Genesis /\ b \in Block /\ Parent[b] = diskBest
        /\ Trust[b] > Trust[diskBest]
    BY <1>4, SecondaryFacts
  <2>2. Sound(b) /\ ConnectTx(b, diskTx) = IndexOf(b)
    BY <1>4, <2>1, CommitStep
  <2>3. diskBest' = b /\ diskTx' = IndexOf(b) /\ UNCHANGED diskIndex /\ b \in diskIndex
    BY <1>4, <2>1, <2>2 DEF CommitBlock, ChainInv, RestartFindsEveryBlock
  <2> QED BY <2>1, <2>2, <2>3, CommitIsAdopt
<1>5. CASE SecondaryConnect
  BY <1>4, <1>5 DEF SecondaryConnect
<1>6. CASE SecondaryFails
  BY <1>4, <1>6 DEF SecondaryFails, diskVars
<1>7. CASE \/ ExtendFails \/ BeginReorganize \/ ReorganizeDisconnect \/ ReorganizeConnect
           \/ ReorganizeFails \/ NewBestBlock \/ Restart \/ UNCHANGED vars
  BY <1>7 DEF ExtendFails, BeginReorganize, ReorganizeDisconnect, ReorganizeConnect,
              ReorganizeFails, NewBestBlock, Restart, vars, diskVars
<1>8. QED
  BY <1>1, <1>2, <1>3, <1>5, <1>6, <1>7 DEF Next, NextNoCrash, SetBestChain

\* With crashes anywhere and invalid blocks anywhere: from an agreeing state every
\* step of AddToBlockIndex, SetBestChain, Reorganize or LoadBlockIndex is a step of
\* the abstract block store.
THEOREM CrashRefinement == Spec => StepsImplementBestChain
<1>1. [Next]_vars => [ChainInv => [BC!Next]_(BC!vars)]_vars
  BY DiskStep
<1>2. QED
  BY <1>1, PTL DEF Spec, StepsImplementBestChain

\* With crashes anywhere and invalid blocks anywhere: only the failure of a further
\* block after a committed reorganisation can end the agreement.
THEOREM CrashAgreement == Spec => OnlyNonFatalFailureBreaks
<1>1. [Next]_vars => [ChainInv => ChainInv' \/ SecondaryFails]_vars
  BY ChainStep
<1>2. QED
  BY <1>1, PTL DEF Spec, OnlyNonFatalFailureBreaks

\* With crashes anywhere and invalid blocks anywhere, up to the first such failure: memory,
\* block records and transaction index agree on one valid chain.
THEOREM AgreementInvariant ==
    Spec /\ FurtherBlocksConnect =>
        [](ChainInv /\ DiskIsReplayOfBest /\ MemoryAgreesWithDisk)
<1>1. ChainInv /\ [Next]_vars /\ [~SecondaryFails]_vars => ChainInv'
  <2> SUFFICES ASSUME ChainInv, [Next]_vars, [~SecondaryFails]_vars PROVE ChainInv'
    OBVIOUS
  <2>1. CASE ~SecondaryFails
    BY <2>1, ChainStep
  <2>2. CASE UNCHANGED vars
    BY <2>2, StutterStep
  <2> QED BY <2>1, <2>2
<1>2. ChainInv => DiskIsReplayOfBest /\ MemoryAgreesWithDisk
  BY DEF ChainInv, RecordsInv, MemoryAgreesWithDisk
<1>3. QED
  BY <1>1, <1>2, ChainInit, PTL DEF Spec, FurtherBlocksConnect

\* Without crashes the node implements the abstract block store (its safety part)
\* for every block tree, every order of arrival and any invalid blocks.
THEOREM NoCrashRefinement == SpecNoCrash => BC!SafeSpec
<1>1. NoCrashInv => ChainInv
  BY DEF NoCrashInv
<1>2. ChainInv /\ [NextNoCrash]_vars => [BC!Next]_(BC!vars)
  <2> SUFFICES ASSUME ChainInv, [NextNoCrash]_vars PROVE [BC!Next]_(BC!vars)
    OBVIOUS
  <2>1. [Next]_vars
    BY DEF Next
  <2> QED BY <2>1, DiskStep
<1>3. QED
  BY <1>1, <1>2, InitMaps, NoCrashInvariant, PTL DEF SpecNoCrash, BC!SafeSpec

-----------------------------------------------------------------------------
(* With crashes and invalid blocks, past the failure that is not fatal.    *)

\* What stays true of the records even after memory and disk have parted.
FoundInv ==
    /\ diskIndex \subseteq Block
    /\ RestartFindsEveryBlock
    /\ pindexNew \in mapBlockIndex
    /\ pc = "reorganize" => pindexIntermediate \in Chain[pindexNew]
    /\ pc = "secondary" => tip \in Chain[pindexNew]

LEMMA FoundInit == Init => FoundInv
  BY TreeAssumption, ChainAssumption DEF Init, FoundInv, RestartFindsEveryBlock

LEMMA FoundStep ==
    ASSUME FoundInv, [Next]_vars
    PROVE  FoundInv'
<1> USE DEF FoundInv, RestartFindsEveryBlock
<1>0. Genesis \in diskIndex
  BY ChainAncestry DEF Ancestry
<1>1. ASSUME NEW b \in Block, AddToBlockIndex(b) PROVE FoundInv'
  <2>1. b # Genesis /\ Chain[b] = {b} \cup Chain[Parent[b]]
    BY <1>0, <1>1, ChainAssumption DEF AddToBlockIndex
  <2> QED BY <1>1, <2>1 DEF AddToBlockIndex
<1>2. CASE ExtendBest
  BY <1>0, <1>2 DEF ExtendBest, CommitBlock, Finish
<1>3. CASE ExtendFails \/ ReorganizeFails \/ NewBestBlock \/ Restart
  BY <1>0, <1>3 DEF ExtendFails, ReorganizeFails, NewBestBlock, Restart, Finish, diskVars, memVars
<1>4. CASE BeginReorganize
  BY <1>4 DEF BeginReorganize, IsIntermediate, diskVars, memVars
<1>5. CASE ReorganizeDisconnect \/ ReorganizeConnect
  BY <1>5 DEF ReorganizeDisconnect, ReorganizeConnect, diskVars, memVars
<1>6. CASE ReorganizeCommit
  BY <1>0, <1>6 DEF ReorganizeCommit, Finish, workVars
<1>7. ASSUME pc = "secondary", tip # pindexNew
      PROVE  LET b == StepTowards(tip, pindexNew) IN b \in Chain[pindexNew] /\ b \in diskIndex
  BY <1>7, StepTowardsIs
<1>8. CASE SecondaryConnect
  BY <1>7, <1>8 DEF SecondaryConnect, CommitBlock
<1>9. CASE SecondaryFails
  BY <1>0, <1>7, <1>9 DEF SecondaryFails, CommitBlock, Finish, diskVars
<1>10. CASE UNCHANGED vars
  BY <1>10 DEF vars, diskVars, memVars, workVars
<1>11. QED
  BY <1>1, <1>2, <1>3, <1>4, <1>5, <1>6, <1>8, <1>9, <1>10 DEF Next, NextNoCrash, SetBestChain

\* With crashes and invalid blocks anywhere, the failures of SetBestChain that are
\* not fatal included: LoadBlockIndex finds the record of hashBestChain and of
\* every ancestor of every indexed block.
THEOREM RecordsFound == Spec => []RestartFindsEveryBlock
<1>1. FoundInv => RestartFindsEveryBlock
  BY DEF FoundInv
<1>2. QED
  BY <1>1, FoundInit, FoundStep, PTL DEF Spec

\* The block that SetBestChain commits next is a block above genesis.
LEMMA WorkBlock ==
    ASSUME FoundInv, TypeOK
    PROVE  /\ pindexNew \in Block
           /\ pc = "reorganize" /\ tip \notin Chain[pindexIntermediate] =>
                 tip # Genesis /\ Parent[tip] \in Block
           /\ pc = "reorganize" /\ tip \in Chain[pindexIntermediate] \ {pindexIntermediate} =>
                 LET b == StepTowards(tip, pindexIntermediate)
                 IN  b \in Block /\ b # Genesis /\ Parent[b] \in Block
           /\ pc = "secondary" /\ tip # pindexNew =>
                 LET b == StepTowards(tip, pindexNew)
                 IN  b \in Block /\ b # Genesis /\ Parent[b] \in Block
<1>1. pindexNew \in Block /\ pindexIntermediate \in Block /\ tip \in Block
  BY DEF TypeOK
<1>2. Genesis \in Chain[pindexIntermediate]
  BY <1>1, ChainAncestry DEF Ancestry
<1>3. \A b \in Block \ {Genesis} : Parent[b] \in Block
  BY TreeAssumption
<1>4. ASSUME pc = "secondary", tip # pindexNew
      PROVE  LET b == StepTowards(tip, pindexNew)
             IN  b \in Block /\ b # Genesis /\ Parent[b] \in Block
  <2>1. tip \in Chain[pindexNew]
    BY <1>4 DEF FoundInv
  <2> QED BY <1>1, <1>3, <1>4, <2>1, StepTowardsIs
<1>5. ASSUME tip \in Chain[pindexIntermediate] \ {pindexIntermediate}
      PROVE  LET b == StepTowards(tip, pindexIntermediate)
             IN  b \in Block /\ b # Genesis /\ Parent[b] \in Block
  BY <1>1, <1>3, <1>5, StepTowardsIs
<1>6. QED
  BY <1>1, <1>2, <1>3, <1>4, <1>5

LEMMA ConnectTxType ==
    ASSUME NEW b \in Block, NEW idx \in [Tx -> Tx \cup {Absent, Unspent}]
    PROVE  /\ ConnectTx(b, idx) \in [Tx -> Tx \cup {Absent, Unspent}]
           /\ DisconnectTx(b, idx) \in [Tx -> Tx \cup {Absent, Unspent}]
<1>1. \A t \in Tx : SpentIn(Txs[b], t) => SpenderIn(Txs[b], t) \in Tx
  BY TxAssumption DEF SpentIn, SpenderIn
<1>2. QED
  BY <1>1 DEF ConnectTx, DisconnectTx

LEMMA ConnectNextType ==
    ASSUME NEW b \in Block, Parent[b] \in Block, pnext \in [Block -> Block \cup {NoBlock}],
           NEW next \in [Block -> Block \cup {NoBlock}]
    PROVE  /\ ConnectNext(b, next) \in [Block -> Block \cup {NoBlock}]
           /\ DisconnectNext(b, next) \in [Block -> Block \cup {NoBlock}]
  BY DEF ConnectNext, DisconnectNext

LEMMA LinkedTypes ==
    ASSUME TypeOK
    PROVE  /\ UnlinkedNext \in [Block -> Block \cup {NoBlock}]
           /\ LinkedNext \in [Block -> Block \cup {NoBlock}]
           /\ UnlinkedLookup \in [Heights -> Block \cup {NoBlock}]
           /\ LinkedLookup \in [Heights -> Block \cup {NoBlock}]
<1>1. vConnect \subseteq Block
  BY ChainAssumption DEF vConnect, TypeOK
<1>2. /\ UnlinkedNext \in [Block -> Block \cup {NoBlock}]
      /\ UnlinkedLookup \in [Heights -> Block \cup {NoBlock}]
  BY DEF UnlinkedNext, UnlinkedLookup, TypeOK
<1>3. /\ LinkedNext \in [Block -> Block \cup {NoBlock}]
      /\ LinkedLookup \in [Heights -> Block \cup {NoBlock}]
  BY <1>1, <1>2 DEF LinkedNext, LinkedLookup
<1>4. QED
  BY <1>2, <1>3

LEMMA TypeStep ==
    ASSUME FoundInv, TypeOK, [Next]_vars
    PROVE  TypeOK'
<1>1. /\ pindexNew \in Block /\ Genesis \in Block
      /\ \A b \in Block : Trust[b] \in Nat /\ Height[b] \in Heights
  BY TreeAssumption, WorkBlock DEF Heights
<1>2. ASSUME NEW b \in Block, AddToBlockIndex(b) PROVE TypeOK'
  BY <1>2 DEF AddToBlockIndex, TypeOK
<1>3. ASSUME NEW b \in Block, Parent[b] \in Block, CommitBlock(b)
      PROVE  /\ diskTx' \in [Tx -> Tx \cup {Absent, Unspent}]
             /\ viewTx' \in [Tx -> Tx \cup {Absent, Unspent}]
             /\ diskNext' \in [Block -> Block \cup {NoBlock}]
             /\ viewNext' \in [Block -> Block \cup {NoBlock}]
             /\ diskBest' \in Block
             /\ UNCHANGED <<diskIndex, nBestInvalidTrust, mapBlockIndex>>
  <2>1. /\ ConnectTx(b, diskTx) \in [Tx -> Tx \cup {Absent, Unspent}]
        /\ ConnectNext(b, diskNext) \in [Block -> Block \cup {NoBlock}]
    BY <1>3, ConnectTxType, ConnectNextType DEF TypeOK
  <2> QED BY <1>3, <2>1 DEF CommitBlock
<1>4. ASSUME NEW b \in Block, LinkBlock(b)
      PROVE  /\ pnext' \in [Block -> Block \cup {NoBlock}]
             /\ mapBlockLookup' \in [Heights -> Block \cup {NoBlock}]
  BY <1>4 DEF LinkBlock, TypeOK
<1>5. CASE ExtendBest
  <2>1. Parent[pindexNew] \in Block /\ CommitBlock(pindexNew) /\ Finish
    BY <1>5 DEF ExtendBest, TypeOK
  <2>2. \/ LinkBlock(pindexNew) /\ pindexBest' = pindexNew
        \/ UNCHANGED <<pnext, mapBlockLookup, pindexBest>>
    BY <1>5 DEF ExtendBest
  <2>3. /\ pnext' \in [Block -> Block \cup {NoBlock}]
        /\ mapBlockLookup' \in [Heights -> Block \cup {NoBlock}]
        /\ pindexBest' \in Block
    BY <1>1, <1>4, <2>2 DEF TypeOK
  <2> QED BY <1>1, <1>3, <2>1, <2>3 DEF TypeOK, Finish
<1>6. ASSUME NEW b \in Block, InvalidChainFound(b) PROVE nBestInvalidTrust' \in Nat
  BY <1>1, <1>6 DEF InvalidChainFound, TypeOK
<1>7. CASE ExtendFails \/ ReorganizeFails
  BY <1>1, <1>6, <1>7 DEF ExtendFails, ReorganizeFails, TxnAbort, Finish, diskVars, memVars, TypeOK
<1>8. CASE BeginReorganize
  BY <1>8 DEF BeginReorganize, diskVars, memVars, TypeOK
<1>9. CASE ReorganizeDisconnect
  <2>1. /\ Parent[tip] \in Block /\ tip \in Block
        /\ DisconnectTx(tip, viewTx) \in [Tx -> Tx \cup {Absent, Unspent}]
        /\ DisconnectNext(tip, viewNext) \in [Block -> Block \cup {NoBlock}]
    BY <1>9, WorkBlock, ConnectTxType, ConnectNextType DEF ReorganizeDisconnect, TypeOK
  <2> QED BY <1>9, <2>1 DEF ReorganizeDisconnect, diskVars, memVars, TypeOK
<1>10. CASE ReorganizeConnect
  <2> DEFINE b == StepTowards(tip, pindexIntermediate)
  <2>1. /\ b \in Block /\ Parent[b] \in Block
    BY <1>10, WorkBlock DEF ReorganizeConnect
  <2>2. viewTx' = ConnectTx(b, viewTx) /\ viewNext' = ConnectNext(b, viewNext) /\ tip' = b
    BY <1>10 DEF ReorganizeConnect
  <2> HIDE DEF b
  <2>3. /\ viewTx' \in [Tx -> Tx \cup {Absent, Unspent}]
        /\ viewNext' \in [Block -> Block \cup {NoBlock}]
        /\ tip' \in Block
    BY <2>1, <2>2, ConnectTxType, ConnectNextType DEF TypeOK
  <2> QED BY <1>10, <2>3 DEF ReorganizeConnect, diskVars, memVars, TypeOK
<1>11. CASE ReorganizeCommit
  <2>1. /\ pnext' \in [Block -> Block \cup {NoBlock}]
        /\ mapBlockLookup' \in [Heights -> Block \cup {NoBlock}]
        /\ nBestInvalidTrust' \in Nat
        /\ pc' \in {"secondary", "idle"}
        /\ pindexNew' \in Block /\ pindexIntermediate' \in Block /\ tip' \in Block
    BY <1>1, <1>6, <1>11, LinkedTypes DEF ReorganizeCommit, Finish, workVars, TypeOK
  <2> QED BY <1>11, <2>1 DEF ReorganizeCommit, TypeOK
<1>12. CASE SecondaryConnect
  <2> DEFINE b == StepTowards(tip, pindexNew)
  <2>1. /\ b \in Block /\ Parent[b] \in Block /\ CommitBlock(b) /\ LinkBlock(b) /\ tip' = b
        /\ UNCHANGED <<pindexBest, pc, pindexNew, pindexIntermediate>>
    BY <1>12, WorkBlock DEF SecondaryConnect
  <2> HIDE DEF b
  <2> QED BY <1>3, <1>4, <2>1 DEF TypeOK
<1>13. CASE SecondaryFails
  <2> DEFINE b == StepTowards(tip, pindexNew)
  <2>1. /\ b \in Block /\ Parent[b] \in Block
        /\ pindexBest' = pindexNew /\ Finish /\ UNCHANGED <<pnext, mapBlockLookup>>
        /\ \/ InvalidChainFound(b) /\ TxnAbort /\ UNCHANGED <<diskVars, mapBlockIndex>>
           \/ CommitBlock(b)
    BY <1>13, WorkBlock DEF SecondaryFails
  <2> HIDE DEF b
  <2>2. CASE CommitBlock(b)
    BY <1>1, <1>3, <2>1, <2>2 DEF Finish, TypeOK
  <2>3. CASE InvalidChainFound(b) /\ TxnAbort /\ UNCHANGED <<diskVars, mapBlockIndex>>
    BY <1>1, <1>6, <2>1, <2>3 DEF Finish, TxnAbort, diskVars, TypeOK
  <2> QED BY <2>1, <2>2, <2>3
<1>14. CASE NewBestBlock
  BY <1>1, <1>14 DEF NewBestBlock, Finish, diskVars, TypeOK
<1>15. CASE Restart
  <2>1. LookupOf(diskBest) \in [Heights -> Block \cup {NoBlock}]
    BY LookupOfIs DEF TypeOK
  <2> QED BY <1>1, <1>15, <2>1 DEF Restart, TxnAbort, Finish, diskVars, TypeOK
<1>16. CASE UNCHANGED vars
  BY <1>16 DEF vars, diskVars, memVars, workVars, TypeOK
<1>17. QED
  BY <1>2, <1>5, <1>7, <1>8, <1>9, <1>10, <1>11, <1>12, <1>13, <1>14, <1>15, <1>16
     DEF Next, NextNoCrash, SetBestChain

\* With crashes and invalid blocks anywhere: SetBestChain never walks past genesis or
\* into a block that does not exist, and every record on disk and in memory stays of its
\* type, whatever failure of a further block came before.
THEOREM CrashTypes == Spec => [](TypeOK /\ FoundInv)
<1>1. Init => TypeOK /\ FoundInv
  BY ChainInit, FoundInit DEF ChainInv
<1>2. TypeOK /\ FoundInv /\ [Next]_vars => (TypeOK /\ FoundInv)'
  BY TypeStep, FoundStep
<1>3. QED
  BY <1>1, <1>2, PTL DEF Spec
=============================================================================
