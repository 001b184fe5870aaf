---------------------------- MODULE MCChronoMap -----------------------------
(***************************************************************************)
(* Instances of ChronoMap for TLC.  The maps merged in are closed under    *)
(* permutations of the keys and of the values, so that both are symmetric. *)
(***************************************************************************)
EXTENDS ChronoMap

CONSTANTS a, b, x, y

At(t, v) == [ts |-> t, val |-> v]

Symmetric == Permutations({a, b}) \cup Permutations({x, y})

\* histories that interleave with those of the map, and a key that expires
SmallMaps ==
    UNION {{[store |-> Single(k, <<At(0, v), At(1, v)>>), ttl |-> EmptyDict],
            [store |-> Single(k, <<At(1, v)>>), ttl |-> Single(k, 2)]} : k \in Keys, v \in Values}

\* bound: states with more versions in all are checked, and have no successors
MaxVersions == 2

FewVersions == SumFunctionOnSet([k \in DOMAIN store |-> Len(store[k])], DOMAIN store) <= MaxVersions

\* what steps depend on: answer and told only say what the last call returned, and
\* TLC compares every step with TimeMap, those to states it has seen included
MapOnly == <<store, ttl, cache, now>>
=============================================================================
