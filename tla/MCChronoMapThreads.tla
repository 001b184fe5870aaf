------------------------- MODULE MCChronoMapThreads -------------------------
(***************************************************************************)
(* Instances of ChronoMapThreads for TLC.  Threads and values are symmetric.*)
(***************************************************************************)
EXTENDS ChronoMapThreads

CONSTANTS t1, t2, a, x, y

Symmetric == Permutations({t1, t2}) \cup Permutations({x, y})

EmptyMap == [store |-> EmptyDict, ttl |-> EmptyDict]

Snapshot == [store |-> Single(a, <<[ts |-> 0, val |-> x]>>), ttl |-> Single(a, 1)]

ClearAndRollback == {EmptyMap, Snapshot, [Snapshot EXCEPT !.store = Single(a, <<[ts |-> 0, val |-> y]>>)]}
=============================================================================
