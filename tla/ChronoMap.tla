----------------------------- MODULE ChronoMap ------------------------------
(***************************************************************************)
(* chronomap/core.py: the ChronoMap, one public call at a time, as a       *)
(* single thread uses it.  The clock stands still during a call; every     *)
(* state change of a call, from purging an expired key to telling the      *)
(* callbacks, is in the call's action.  What the lock does for calls of    *)
(* several threads is the subject of RWLock and ChronoMapThreads, what a   *)
(* history is of KeyHistory, what the cache does of LRUCache.              *)
(***************************************************************************)
EXTENDS VersionHistory, Dict, FiniteSets

CONSTANTS
    Keys,
    Values,
    Cap,          \* max_history: a number, or NoCap
    CacheSize,    \* cache_size; 0 switches the cache off
    MemoryLimit,  \* versions that fit in max_memory_mb
    Absent,       \* the default that get() returns for want of a value
    Silent,       \* the outcome of a call that returns None or raises
    None,         \* an optional argument that is not given
    Unparsable,   \* a date that _parse_timestamp refuses
    Lifetimes,    \* ttl arguments
    KeepArgs,     \* keep_last arguments
    Cutoffs,      \* older_than arguments
    OtherMaps,    \* maps to merge or to roll back to, as records [store, ttl]
    MergeExpired, \* may merge() be called while keys of this map have expired?
    Lead,         \* how far past the present timestamps may be
    Longest,      \* bound: a rejected call meets at most so many versions of its key
    MaxTime

Times == 0 .. MaxTime

ASSUME ChronoMapAssumption ==
    /\ MaxTime \in Nat /\ Longest \in Nat /\ Lead \in Nat /\ CacheSize \in Nat /\ MemoryLimit \in Nat
    /\ Cap = NoCap \/ Cap \in Int
    /\ Lifetimes \subseteq Int /\ KeepArgs \subseteq Int
    /\ Cutoffs \subseteq Times \cup {Unparsable}
    /\ None \notin Int /\ Unparsable \notin Int /\ None # Unparsable
    /\ MergeExpired \in BOOLEAN
    /\ \A m \in OtherMaps : /\ DOMAIN m.store \subseteq Keys
                            /\ DOMAIN m.ttl \subseteq DOMAIN m.store
                            /\ \A k \in DOMAIN m.store :
                                  /\ m.store[k] \in Seq([ts : Times, val : Values])
                                  /\ Ordered(m.store[k])
                            /\ \A k \in DOMAIN m.ttl : m.ttl[k] \in Int

VARIABLES
    store,        \* self._store
    ttl,          \* self._ttl
    cache,        \* self._cache: the answers it holds
    now,          \* the clock
    answer,       \* what the last call returned
    told          \* what the last call told the callbacks

vars == <<store, ttl, cache, now, answer, told>>

Cache == INSTANCE BoundedCache
    WITH Capacity <- CacheSize, Moments <- Times \cup {None}

Init ==
    /\ store = EmptyDict /\ ttl = EmptyDict /\ Cache!Init /\ now = 0
    /\ answer = Silent /\ told = {}

-----------------------------------------------------------------------------

(***************************************************************************)
(* self._store.get(key, []), and what _purge_if_expired leaves of it.      *)
(***************************************************************************)
Versions(k) == IF k \in DOMAIN store THEN store[k] ELSE << >>

Expired(k) == k \in DOMAIN ttl /\ now >= ttl[k]

Current(k) == IF Expired(k) THEN << >> ELSE Versions(k)

ExpiredTtlKept(S) == ttl   \* mutant: the expired key's history is dropped, its ttl is not

PurgedTtl(S) == Without(ttl, {k \in S : Expired(k)})

NewestValue(h) == IF h = << >> THEN Absent ELSE Last(h).val

(***************************************************************************)
(* _get_unlocked and the second half of get().                             *)
(***************************************************************************)
AsOf(k, t) ==
    LET i == IndexAsOf(Current(k), t)
    IN  IF i = 0 THEN Absent ELSE Current(k)[i].val

Inserted(k, t, v) == InsertVersion(Current(k), [ts |-> t, val |-> v])

Event(k, v, t) == [key |-> k, old |-> NewestValue(Current(k)), new |-> v, ts |-> t]

Quiet == answer' = Silent /\ told' = {}

(***************************************************************************)
(* check_memory raises: the estimate of the store exceeds the limit.       *)
(***************************************************************************)
OverLimit(s) == SumFunctionOnSet([k \in DOMAIN s |-> Len(s[k])], DOMAIN s) > MemoryLimit

Given(at) == IF at = None THEN now ELSE at

(***************************************************************************)
(* The versions that calls may bring in at present, the lifetimes that are *)
(* positive, and the timestamp arguments of a write.                       *)
(***************************************************************************)
Admitted == [ts : {t \in Times : t <= now + Lead}, val : Values]

Acceptable(life) == life # None => life > 0

Moments == {None} \cup {t \in Times : t <= now + Lead}

-----------------------------------------------------------------------------

Tick ==
    /\ now < MaxTime
    /\ now' = now + 1
    /\ Quiet
    /\ UNCHANGED <<store, ttl, cache>>

(***************************************************************************)
(* What put(), put_many() and get_or_set() do once the arguments have      *)
(* passed: purge, insert, prune, set the time to live, invalidate.         *)
(***************************************************************************)
KeepCacheOfWritten(items, t, life) ==   \* mutant: the write does not invalidate
    /\ store' = Updated(store, [k \in DOMAIN items |-> AutoPrune(Inserted(k, t, items[k]), Cap)])
    /\ ttl' = IF life = None THEN PurgedTtl(DOMAIN items)
              ELSE Updated(ttl, [k \in DOMAIN items |-> now + life])
    /\ UNCHANGED <<cache, now>>

Written(items, t, life) ==
    /\ store' = Updated(store, [k \in DOMAIN items |-> AutoPrune(Inserted(k, t, items[k]), Cap)])
    /\ ttl' = IF life = None THEN PurgedTtl(DOMAIN items)
              ELSE Updated(ttl, [k \in DOMAIN items |-> now + life])
    /\ Cache!Drop(DOMAIN items)
    /\ UNCHANGED now

(***************************************************************************)
(* put() and put_many() with a ttl that is not positive raise after the    *)
(* insertion, put_many() at the first of its keys; _auto_prune comes later *)
(* in the call, so that nothing but Longest bounds the history here.       *)
(***************************************************************************)
RejectedTtl(k, v, t) ==
    /\ Len(Current(k)) <= Longest
    /\ store' = Updated(store, Single(k, Inserted(k, t, v)))
    /\ ttl' = PurgedTtl({k})
    /\ IF Expired(k) THEN Cache!Drop({k}) ELSE UNCHANGED cache
    /\ Quiet
    /\ UNCHANGED now

(***************************************************************************)
(* put(): check_memory comes between the write and the callbacks.          *)
(***************************************************************************)
Put(k, v, at, life) ==
    \/ /\ Acceptable(life)
       /\ Written(Single(k, v), Given(at), life)
       /\ answer' = Silent
       /\ told' = IF OverLimit(store') THEN {} ELSE {Event(k, v, Given(at))}
    \/ /\ ~Acceptable(life)
       /\ RejectedTtl(k, v, Given(at))

(***************************************************************************)
(* put_many(): the callbacks of each key come with its write.  (A key that *)
(* _validate_key refuses ends the loop as if items had ended before it.)   *)
(***************************************************************************)
PutMany(items, at, life) ==
    \/ /\ Acceptable(life)
       /\ Written(items, Given(at), life)
       /\ answer' = Silent
       /\ told' = {Event(k, items[k], Given(at)) : k \in DOMAIN items}
    \/ /\ ~Acceptable(life)
       /\ \E k \in DOMAIN items : RejectedTtl(k, items[k], Given(at))

(***************************************************************************)
(* get_or_set() and get_or_default(); v is what the factory returns.       *)
(***************************************************************************)
GetOrSet(k, v, life) ==
    /\ Acceptable(life)
    /\ \/ /\ Current(k) # << >>
          /\ answer' = NewestValue(Current(k))
          /\ told' = {}
          /\ UNCHANGED <<store, ttl, cache, now>>
       \/ /\ Current(k) = << >>
          /\ Written(Single(k, v), now, life)
          /\ IF OverLimit(store') THEN Quiet
             ELSE answer' = v /\ told' = {Event(k, v, now)}

(***************************************************************************)
(* The factory raises: the expired key is purged by then.                  *)
(***************************************************************************)
FactoryRaises(k) ==
    LET purged == {j \in {k} : Expired(j)}
    IN  /\ Current(k) = << >>
        /\ store' = Without(store, purged)
        /\ ttl' = Without(ttl, purged)
        /\ Cache!Drop(purged)
        /\ Quiet
        /\ UNCHANGED now

(***************************************************************************)
(* get(): the cache is asked first, for the moment the caller named; the   *)
(* answer from the history is cached, the default never is.                *)
(***************************************************************************)
Get(k, at) ==
    /\ told' = {}
    /\ UNCHANGED <<store, ttl, now>>
    /\ \/ /\ Expired(k)
          /\ answer' = Absent
          /\ Cache!Drop({k})
       \/ /\ ~Expired(k)
          /\ \E e \in Cache!For(k, at) : answer' = e.val
          /\ UNCHANGED cache
       \/ /\ ~Expired(k)
          /\ Cache!For(k, at) = {}
          /\ answer' = AsOf(k, Given(at))
          /\ IF CacheSize > 0 /\ IndexAsOf(Current(k), Given(at)) # 0
             THEN Cache!Keep([key |-> k, at |-> at, val |-> AsOf(k, Given(at))])
             ELSE UNCHANGED cache

(***************************************************************************)
(* delete(), `del` and delete_many(): the bool is a count of 1 or 0, the   *)
(* KeyError of `del` is the count 0.  A key that has expired and that      *)
(* nothing has purged is there to be counted.                              *)
(***************************************************************************)
Deleted(S) == answer' = [deleted |-> Cardinality(S \cap DOMAIN store)] /\ told' = {}

DeleteButNotTtl(S) ==   \* mutant: the time to live of a deleted key stays
    /\ store' = Without(store, S)
    /\ Cache!Drop(S \cap DOMAIN store)
    /\ Deleted(S)
    /\ UNCHANGED <<ttl, now>>

DeleteLeavingAnswers(S) ==   \* mutant: deletion does not invalidate
    /\ store' = Without(store, S)
    /\ ttl' = Without(ttl, S \cap DOMAIN store)
    /\ Deleted(S)
    /\ UNCHANGED <<cache, now>>

Delete(S) ==
    /\ store' = Without(store, S)
    /\ ttl' = Without(ttl, S \cap DOMAIN store)
    /\ Cache!Drop(S \cap DOMAIN store)
    /\ Deleted(S)
    /\ UNCHANGED now

-----------------------------------------------------------------------------

(***************************************************************************)
(* prune_history() of the keys of S; prune_all_history() prunes keys().    *)
(* Both return the number of versions removed.                             *)
(***************************************************************************)
Pruned(h, keep, older) ==
    LET newest == IF keep = None THEN h ELSE KeepLast(h, keep)
    IN  IF older = None THEN newest ELSE DropOlder(newest, older)

PruneKeys(S, keep, older) ==
    /\ older # Unparsable
    /\ store' = [k \in DOMAIN store |->
                   IF k \in S THEN Pruned(store[k], keep, older) ELSE store[k]]
    /\ Cache!Drop({k \in S \cap DOMAIN store : Len(store'[k]) < Len(store[k])})
    /\ answer' = [removed |-> Cardinality(Taken(store, store'))]
    /\ told' = {}
    /\ UNCHANGED <<ttl, now>>

(***************************************************************************)
(* An older_than that does not parse: keep_last has been applied to the    *)
(* first key by then, and nothing is invalidated.                          *)
(***************************************************************************)
PruneFails(k, keep) ==
    /\ Unparsable \in Cutoffs
    /\ k \in DOMAIN store
    /\ store' = [store EXCEPT ![k] = Pruned(@, keep, None)]
    /\ Quiet
    /\ UNCHANGED <<ttl, cache, now>>

Live == {k \in DOMAIN store : ~Expired(k)}

Prune(keep, older) ==
    \/ \E k \in Keys : PruneKeys({k}, keep, older) \/ (older = Unparsable /\ PruneFails(k, keep))
    \/ PruneKeys(Live, keep, older)

(***************************************************************************)
(* The versions of another map are no further in the future than those of  *)
(* this one may be.                                                        *)
(***************************************************************************)
FromThePast(m) ==
    \A k \in DOMAIN m.store : \A i \in DOMAIN m.store[k] : m.store[k][i].ts <= now + Lead

Mergeable(m) ==
    /\ FromThePast(m)
    /\ MergeExpired \/ \A k \in Keys : ~Expired(k)

(***************************************************************************)
(* merge(): other's expired keys come along, with their expiry.            *)
(***************************************************************************)
MergedStore(m) ==
    Updated(store, [k \in DOMAIN m.store |-> AutoPrune(Absorb(Versions(k), m.store[k]), Cap)])

MergedTtl(m) ==
    Updated(ttl, [k \in {k \in DOMAIN m.ttl : k \notin DOMAIN ttl \/ m.ttl[k] > ttl[k]} |-> m.ttl[k]])

MergeTimestamp(m) ==
    /\ Mergeable(m)
    /\ store' = MergedStore(m)
    /\ ttl' = MergedTtl(m)
    /\ Cache!Empty
    /\ Quiet
    /\ UNCHANGED now

MergeOverwrite(m) ==
    /\ Mergeable(m)
    /\ store' = Updated(store, m.store)
    /\ ttl' = Updated(ttl, m.ttl)
    /\ Cache!Empty
    /\ Quiet
    /\ UNCHANGED now

Rollback(m) ==
    /\ FromThePast(m)
    /\ store' = m.store
    /\ ttl' = m.ttl
    /\ Cache!Empty
    /\ Quiet
    /\ UNCHANGED now

Clear ==
    /\ store' = EmptyDict /\ ttl' = EmptyDict /\ Cache!Empty
    /\ Quiet
    /\ UNCHANGED now

CleanExpiredKeys ==
    LET expired == {k \in DOMAIN ttl : Expired(k)}
    IN  /\ store' = Without(store, expired)
        /\ ttl' = Without(ttl, expired)
        /\ Cache!Drop(expired)
        /\ answer' = [removed |-> Cardinality(expired)]
        /\ told' = {}
        /\ UNCHANGED now

(***************************************************************************)
(* reset_stats() clears the cache along with its counters.                 *)
(***************************************************************************)
ResetStats ==
    /\ Cache!Empty
    /\ Quiet
    /\ UNCHANGED <<store, ttl, now>>

-----------------------------------------------------------------------------

(***************************************************************************)
(* The readers that do not ask the cache.                                  *)
(***************************************************************************)
Answer(a) ==
    /\ answer' = a
    /\ told' = {}
    /\ UNCHANGED <<store, ttl, cache, now>>

(***************************************************************************)
(* latest(), values(), items() and get_latest_keys(): a key that a prune   *)
(* has emptied is left out.                                                *)
(***************************************************************************)
Latest ==
    LET nonempty == {k \in Live : store[k] # << >>}
    IN  Answer([values |-> [k \in nonempty |-> Last(store[k]).val]])

(***************************************************************************)
(* keys(), len() and iteration count the emptied key, `in` does not.       *)
(***************************************************************************)
ListKeys == Answer([keys |-> Live])

IsIn(k) == Answer([has |-> k \in Live /\ Len(store[k]) > 0])

(***************************************************************************)
(* query() with a predicate that holds of the values in P, and             *)
(* get_keys_by_value().                                                    *)
(***************************************************************************)
Query(P, at) ==
    LET found == {k \in Live : AsOf(k, Given(at)) \in P}
    IN  Answer([values |-> [k \in found |-> AsOf(k, Given(at))]])

KeysByValue(v, at) == Answer([keys |-> {k \in Live : AsOf(k, Given(at)) = v}])

History(k) == Answer([versions |-> Current(k)])

(***************************************************************************)
(* Without a start, get_range() starts before all times: no version is     *)
(* earlier than 0.                                                         *)
(***************************************************************************)
GetRange(k, start, end) ==
    Answer([versions |-> Within(Current(k), IF start = None THEN 0 ELSE start, Given(end))])

Ask ==
    \/ Latest
    \/ ListKeys
    \/ \E P \in SUBSET Values, at \in {None} \cup Times : Query(P, at)
    \/ \E v \in Values, at \in {None} \cup Times : KeysByValue(v, at)
    \/ \E k \in Keys : IsIn(k) \/ History(k)
    \/ \E k \in Keys, start, end \in {None} \cup Times : GetRange(k, start, end)

Items == UNION {[S -> Values] : S \in (SUBSET Keys) \ {{}}}

Lives == {None} \cup Lifetimes

Next ==
    \/ Tick
    \/ \E k \in Keys, v \in Values, at \in Moments, life \in Lives : Put(k, v, at, life)
    \/ \E items \in Items, at \in Moments, life \in Lives : PutMany(items, at, life)
    \/ \E k \in Keys, v \in Values, life \in Lives : GetOrSet(k, v, life)
    \/ \E k \in Keys : FactoryRaises(k)
    \/ \E k \in Keys, at \in {None} \cup Times : Get(k, at)
    \/ \E S \in SUBSET Keys : Delete(S)
    \/ \E keep \in {None} \cup KeepArgs, older \in {None} \cup Cutoffs : Prune(keep, older)
    \/ \E m \in OtherMaps : MergeTimestamp(m) \/ MergeOverwrite(m) \/ Rollback(m)
    \/ Clear
    \/ CleanExpiredKeys
    \/ ResetStats
    \/ Ask

Spec == Init /\ [][Next]_vars

-----------------------------------------------------------------------------

(***************************************************************************)
(* Every time to live belongs to a key of the store, and every history is  *)
(* sorted and within the horizon: what the lookups and the sweeps take for *)
(* granted after any sequence of calls.                                    *)
(***************************************************************************)
WellFormed ==
    /\ now \in Times
    /\ DOMAIN store \subseteq Keys /\ DOMAIN ttl \subseteq DOMAIN store
    /\ \A k \in DOMAIN store : store[k] \in Seq(Admitted) /\ Ordered(store[k])
    /\ \A k \in DOMAIN ttl : ttl[k] \in Int

(***************************************************************************)
(* README.md: "what is it now" and "what was this key at time T".  As long *)
(* as a key lives, an answer in the cache is the answer the histories give *)
(* at present.                                                             *)
(***************************************************************************)
CacheTellsTheTruth ==
    \A e \in cache : ~Expired(e.key) => e.val = AsOf(e.key, Given(e.at))

(***************************************************************************)
(* Even when timestamps are ahead of the clock and calls raise halfway,    *)
(* get() never finds an answer for a key that the map has no history of:   *)
(* whatever removes a key, the cache forgets it first.                     *)
(***************************************************************************)
NoGhosts == \A e \in cache : e.key \in DOMAIN store

(***************************************************************************)
(* The map is a TimeMap.  No answer shows whether it was cached, and no    *)
(* reader sees a key whose time to live is over.  That such a key is still *)
(* in the store shows in the counts of delete(), delete_many(), `del`,     *)
(* prune_history() and clean_expired_keys(), and in nothing else.          *)
(***************************************************************************)
Promise == INSTANCE TimeMap
    WITH held <- Restrict(store, Live), expiry <- Restrict(ttl, DOMAIN ttl \cap Live),
         lingering <- DOMAIN store \ Live, Keep <- None

ImplementsTimeMap == Promise!Spec
=============================================================================
