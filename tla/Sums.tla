-------------------------------- MODULE Sums --------------------------------
(***************************************************************************)
(* Sums over sets whose members stand in a given order, as loops over a    *)
(* std::map add them up.                                                   *)
(***************************************************************************)
EXTENDS Integers, Sequences

\* The sum of value[x] over the members x of S that order lists.
SumAlong(order, value, S) ==
    LET sum[k \in 0..Len(order)] ==
            IF k = 0 THEN 0
            ELSE sum[k - 1] + (IF order[k] \in S THEN value[order[k]] ELSE 0)
    IN  sum[Len(order)]

\* order lists every member of X once.
Enumerates(order, X) ==
    /\ order \in Seq(X)
    /\ \A x \in X : \E k \in 1..Len(order) : order[k] = x
    /\ \A j, k \in 1..Len(order) : order[j] = order[k] => j = k
=============================================================================
