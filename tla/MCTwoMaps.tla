----------------------------- MODULE MCTwoMaps ------------------------------
(***************************************************************************)
(* Instances of TwoMaps for TLC.  Keys and values are symmetric.           *)
(***************************************************************************)
EXTENDS TwoMaps

CONSTANTS c, w, a, b, x, y

Symmetric == Permutations({a, b}) \cup Permutations({x, y})

(***************************************************************************)
(* Bound: a run has FewWrites writes and merges to one key, with two       *)
(* values and lifetimes, or to two keys, with one value and without        *)
(* lifetimes; and MaxWrites of the latter kind at one instant, without a   *)
(* diff() among the later ones.                                            *)
(***************************************************************************)
FewWrites == 3

ValuesOf(m) == UNION {{version.val : version \in ToSet(store[m][k])} : k \in DOMAIN store[m]}

ValuesToCome == {put[t].val : t \in {t \in Writers : put[t] # None}}

InBounds ==
    \/ writes <= FewWrites /\ Cardinality(AllKeys) <= 1
    \/ /\ \A m \in Maps : ttl[m] = EmptyDict
       /\ Cardinality(ValuesOf("self") \cup ValuesOf("other") \cup ValuesToCome) <= 1
       /\ writes <= FewWrites \/ (now = 0 /\ ~Diffing)
=============================================================================
