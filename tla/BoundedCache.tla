---------------------------- MODULE BoundedCache ----------------------------
(***************************************************************************)
(* What ChronoMap relies on in its read cache: a bounded set of answers,   *)
(* at most one per (key, moment), from which any answer may vanish to make *)
(* room for another.  Which one vanishes is LRUCache's choice.             *)
(***************************************************************************)
EXTENDS Integers, FiniteSets

CONSTANTS
    Keys,         \* keys of the map
    Moments,      \* second halves of the cache's keys: timestamps and None
    Values,
    Capacity      \* most answers kept

VARIABLE cache    \* the answers, as records [key, at, val]

Entry == [key : Keys, at : Moments, val : Values]

For(k, at) == {e \in cache : e.key = k /\ e.at = at}

Init == cache = {}

Keep(e) ==
    LET others == cache \ For(e.key, e.at)
    IN  \/ /\ Cardinality(others) < Capacity
           /\ cache' = others \cup {e}
        \/ /\ Cardinality(others) = Capacity
           /\ \E victim \in others : cache' = (others \ {victim}) \cup {e}

Drop(S) == cache' = {e \in cache : e.key \notin S}

Empty == cache' = {}

Next ==
    \/ \E e \in Entry : Keep(e)
    \/ \E S \in SUBSET Keys : Drop(S)
    \/ Empty

Spec == Init /\ [][Next]_cache
=============================================================================
