------------------------------ MODULE LRUCache ------------------------------
(***************************************************************************)
(* chronomap/_cache.py.  The OrderedDict is a sequence of entries, the     *)
(* least recently used first.  Every method holds the cache's own mutex    *)
(* from its first statement to its last, so each is one action.            *)
(***************************************************************************)
EXTENDS Integers, Sequences, SequencesExt, FiniteSets

CONSTANTS
    Keys,
    Moments,
    Values,
    Capacity,
    MaxLookups    \* bound on the lookups counted between two clear()s

ASSUME LRUCacheAssumption == Capacity \in Nat \ {0} /\ MaxLookups \in Nat

VARIABLES
    cache,        \* self.cache, oldest first
    hits,
    misses,
    since         \* history variable: for each (key, moment), those looked up or stored
                  \* since it last was

cacheVars == <<cache, hits, misses, since>>

Entry == [key : Keys, at : Moments, val : Values]

Id(e) == <<e.key, e.at>>

Ids == Keys \X Moments

CacheInit == cache = << >> /\ hits = 0 /\ misses = 0 /\ since = [x \in Ids |-> {}]

(***************************************************************************)
(* What is left of an OrderedDict when the other entries are deleted: the  *)
(* entries that are in S, in their order.                                  *)
(***************************************************************************)
Sift(s, S) ==
    LET kept[n \in 0 .. Len(s)] ==
            IF n = 0 THEN << >>
            ELSE IF s[n] \in S THEN Append(kept[n - 1], s[n]) ELSE kept[n - 1]
    IN  kept[Len(s)]

Without(k, at) == Sift(cache, {e \in Entry : Id(e) # <<k, at>>})

Found(k, at) == {i \in DOMAIN cache : Id(cache[i]) = <<k, at>>}

Use(x) == since' = [y \in Ids |-> IF y = x THEN {} ELSE since[y] \cup {x}]

-----------------------------------------------------------------------------

GetWithoutMove(k, at) ==   \* mutant: a hit does not count as a use
    /\ hits + misses < MaxLookups
    /\ \/ Found(k, at) # {} /\ hits' = hits + 1 /\ UNCHANGED misses /\ Use(<<k, at>>)
       \/ Found(k, at) = {} /\ misses' = misses + 1 /\ UNCHANGED <<hits, since>>
    /\ UNCHANGED cache

Get(k, at) ==
    /\ hits + misses < MaxLookups
    /\ \/ \E i \in Found(k, at) :
             /\ cache' = Append(Without(k, at), cache[i])
             /\ hits' = hits + 1
             /\ Use(<<k, at>>)
             /\ UNCHANGED misses
       \/ /\ Found(k, at) = {}
          /\ misses' = misses + 1
          /\ UNCHANGED <<cache, hits, since>>

Put(e) ==
    /\ cache' = LET all == Append(Without(e.key, e.at), e)
                IN  IF Len(all) > Capacity THEN Tail(all) ELSE all
    /\ Use(Id(e))
    /\ UNCHANGED <<hits, misses>>

InvalidateOne(k) ==   \* mutant: only the first stale entry is deleted
    /\ cache' = LET stale == {i \in DOMAIN cache : cache[i].key = k}
                IN  IF stale = {} THEN cache
                    ELSE RemoveAt(cache, CHOOSE i \in stale : \A j \in stale : i <= j)
    /\ UNCHANGED <<hits, misses, since>>

Invalidate(k) ==
    /\ cache' = Sift(cache, {e \in Entry : e.key # k})
    /\ UNCHANGED <<hits, misses, since>>

Clear ==
    /\ cache' = << >> /\ hits' = 0 /\ misses' = 0
    /\ UNCHANGED since

CacheNext ==
    \/ \E k \in Keys, at \in Moments : Get(k, at)
    \/ \E e \in Entry : Put(e)
    \/ \E k \in Keys : Invalidate(k)
    \/ Clear

CacheSpec == CacheInit /\ [][CacheNext]_cacheVars

-----------------------------------------------------------------------------

(***************************************************************************)
(* y was looked up or stored after x last was.                             *)
(***************************************************************************)
UsedBefore(x, y) == y \in since[x]

(***************************************************************************)
(* "LRU cache": when put() drops an entry to make room, every entry it     *)
(* keeps has been looked up or stored since that one last was.             *)
(***************************************************************************)
EvictsLeastRecentlyUsed ==
    [][\A e \in Entry : Put(e) =>
          \A lost \in ToSet(cache) \ ToSet(cache') :
              Id(lost) = Id(e) \/ \A kept \in ToSet(cache') : UsedBefore(Id(lost), Id(kept))'
      ]_cacheVars

(***************************************************************************)
(* The cache is the one ChronoMap is modelled with: never beyond its       *)
(* capacity, and never with two answers for one (key, moment).             *)
(***************************************************************************)
AnyCache == INSTANCE BoundedCache WITH cache <- ToSet(cache)

ImplementsBoundedCache == AnyCache!Spec
=============================================================================
