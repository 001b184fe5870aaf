-------------------------- MODULE ChronoMapThreads --------------------------
(***************************************************************************)
(* chronomap/core.py under several threads: get(), whose first half runs   *)
(* without the lock, against the writers, which hold it.  A step of a      *)
(* thread is what the others may see happen at once: a read or a change of *)
(* _ttl, of the cache or of the lock.  _store is only touched under the    *)
(* lock, so its changes go with the change of _ttl beside them.  The lock  *)
(* is what RWLock is proved to be, a ReadWriteExclusion.  All lifetimes    *)
(* are positive and no call raises halfway: ChronoMap has those.           *)
(***************************************************************************)
EXTENDS VersionHistory, Dict

CONSTANTS
    Threads,
    Keys,
    Values,
    Cap,          \* max_history: a number, or NoCap
    CacheSize,    \* cache_size; 0 switches the cache off
    Absent,       \* the default of get()
    KeyError,     \* what get() raises when _ttl[key] is gone
    None,         \* an optional argument that is not given
    Asked,        \* timestamp arguments of get(): None and times
    Stamps,       \* timestamp arguments of put()
    Lifetimes,    \* ttl arguments of put()
    Images,       \* what clear() and rollback() put in place, as records [store, ttl]
    MaxTime

Times == 0 .. MaxTime

ASSUME ChronoMapThreadsAssumption ==
    /\ MaxTime \in Nat /\ CacheSize \in Nat
    /\ Cap = NoCap \/ Cap \in Int
    /\ None \notin Int /\ KeyError \notin Values /\ Absent \notin Values
    /\ Asked \subseteq Times \cup {None} /\ Stamps \subseteq Times \cup {None}
    /\ Lifetimes \subseteq Nat \ {0}
    /\ \A m \in Images : /\ DOMAIN m.store \subseteq Keys
                         /\ DOMAIN m.ttl \subseteq DOMAIN m.store
                         /\ \A k \in DOMAIN m.store :
                               /\ m.store[k] \in Seq([ts : Times, val : Values])
                               /\ Ordered(m.store[k])
                         /\ \A k \in DOMAIN m.ttl : m.ttl[k] \in Int

VARIABLES
    store,        \* self._store
    ttl,          \* self._ttl
    cache,        \* self._cache: the answers it holds
    now,          \* the clock
    hold,         \* the modes in which each thread holds the lock
    pc,           \* where each thread is in its call
    local,        \* the arguments and local variables of the call
    settled,      \* history variable: store and ttl when they last agreed with the cache
    seen,         \* history variable: the answers that were true during a get()
    returned      \* what the last step returned from a get(), beside what it had seen

shared == <<store, ttl, settled>>

vars == <<store, ttl, cache, now, hold, pc, local, settled, seen, returned>>

Cache == INSTANCE BoundedCache
    WITH Capacity <- CacheSize, Moments <- Times \cup {None}

Lock == INSTANCE ReadWriteExclusion

Init ==
    /\ store = EmptyDict /\ ttl = EmptyDict /\ Cache!Init /\ now = 0
    /\ Lock!Init
    /\ pc = [t \in Threads |-> "idle"]
    /\ local = [t \in Threads |-> None]
    /\ settled = [store |-> EmptyDict, ttl |-> EmptyDict]
    /\ seen = [t \in Threads |-> {}]
    /\ returned = {}

-----------------------------------------------------------------------------

ExpiredIn(m, k, clock) == k \in DOMAIN m.ttl /\ clock >= m.ttl[k]

HistoryIn(m, k) == IF k \in DOMAIN m.store THEN m.store[k] ELSE << >>

ValueAt(h, at) ==
    LET i == IndexAsOf(h, at)
    IN  IF i = 0 THEN Absent ELSE h[i].val

StoredIn(m, k, at) == ValueAt(HistoryIn(m, k), at)

AsOfIn(m, k, clock, at) == IF ExpiredIn(m, k, clock) THEN Absent ELSE StoredIn(m, k, at)

Actual == [store |-> store, ttl |-> ttl]

Expired(k) == ExpiredIn(Actual, k, now)

Given(at) == IF at = None THEN now ELSE at

(***************************************************************************)
(* The keys whose answers in the cache a writer is about to invalidate.    *)
(***************************************************************************)
Unsettled ==
    UNION {IF pc[t] = "replaced" THEN Keys
           ELSE IF pc[t] \in {"purged", "changed"} THEN {local[t].key}
           ELSE {} : t \in Threads}

(***************************************************************************)
(* What a get() in progress may answer: what is true at the clock's        *)
(* present time, before or after the write in progress, for the moment     *)
(* that was asked for or, if that is "now", for any since the call.  A key *)
(* that is being purged counts as being there and as having expired.       *)
(***************************************************************************)
Asking == {"asked", "in_ttl", "expired", "in_time", "missed", "found"}

True(c) ==
    LET moments == IF c.at = None THEN c.ts .. now ELSE {c.at}
    IN  {AsOfIn(m, c.key, now, at) : m \in {settled, Actual}, at \in moments}
           \cup {StoredIn(settled, c.key, at) : at \in IF c.key \in Unsettled THEN moments ELSE {}}

Observe ==
    seen' = [t \in Threads |->
               IF pc'[t] \in Asking THEN seen[t] \cup True(local[t])' ELSE {}]

(***************************************************************************)
(* Thread t goes on to label l, with its local variables what they are, or *)
(* changed to c.                                                           *)
(***************************************************************************)
Go(t, l) == pc' = [pc EXCEPT ![t] = l] /\ UNCHANGED local

GoWith(t, l, c) == pc' = [pc EXCEPT ![t] = l] /\ local' = [local EXCEPT ![t] = c]

Done(t) == GoWith(t, "idle", None)

Return(t, v) ==
    /\ Done(t)
    /\ returned' = {[at |-> local[t].at, val |-> v, seen |-> seen[t]]}

Settle == settled' = Actual

-----------------------------------------------------------------------------

(***************************************************************************)
(* get(): takes the time, then looks at _ttl twice without the lock.       *)
(***************************************************************************)
Get(t, k, at) ==
    /\ pc[t] = "idle"
    /\ GoWith(t, "asked", [key |-> k, at |-> at, ts |-> Given(at), val |-> Absent])
    /\ returned' = {}
    /\ UNCHANGED <<shared, cache, hold, now>>

IsInTtl(t) ==
    /\ pc[t] = "asked"
    /\ Go(t, IF local[t].key \in DOMAIN ttl THEN "in_ttl" ELSE "in_time")
    /\ returned' = {}
    /\ UNCHANGED <<shared, cache, hold, now>>

(***************************************************************************)
(* The second look at _ttl; the code has read the clock just before, which *)
(* is one step with it here.  A clock that ticks in between only lets more *)
(* keys pass as not yet expired, as they were when the clock was read.     *)
(***************************************************************************)
ReadTtl(t) ==
    /\ pc[t] = "in_ttl"
    /\ IF local[t].key \in DOMAIN ttl
       THEN /\ Go(t, IF Expired(local[t].key) THEN "expired" ELSE "in_time")
            /\ returned' = {}
       ELSE Return(t, KeyError)
    /\ UNCHANGED <<shared, cache, hold, now>>

ForgetExpired(t) ==
    /\ pc[t] = "expired"
    /\ Cache!Drop({local[t].key})
    /\ Return(t, Absent)
    /\ UNCHANGED <<shared, hold, now>>

LookInCache(t) ==
    /\ pc[t] = "in_time"
    /\ LET hits == Cache!For(local[t].key, local[t].at)
       IN  IF hits = {} THEN Go(t, "missed") /\ returned' = {}
           ELSE \E e \in hits : Return(t, e.val)
    /\ UNCHANGED <<shared, cache, hold, now>>

LookedUp(t) == [local[t] EXCEPT !.val = AsOfIn(Actual, local[t].key, now, local[t].ts)]

LookupUnlocked(t) ==   \* mutant: the history is read without the lock
    /\ pc[t] = "missed"
    /\ hold' = [hold EXCEPT ![t] = Append(@, "R")]
    /\ GoWith(t, "found", LookedUp(t))
    /\ returned' = {}
    /\ UNCHANGED <<shared, cache, now>>

(***************************************************************************)
(* The second half of get(), under the read lock: the lookup, then the     *)
(* cache, and the lock is left.                                            *)
(***************************************************************************)
Lookup(t) ==
    /\ pc[t] = "missed"
    /\ Lock!AdmitReader(t)
    /\ GoWith(t, "found", LookedUp(t))
    /\ returned' = {}
    /\ UNCHANGED <<shared, cache, now>>

CacheAndReturn(t) ==
    /\ pc[t] = "found"
    /\ IF CacheSize > 0 /\ local[t].val # Absent
       THEN Cache!Keep([key |-> local[t].key, at |-> local[t].at, val |-> local[t].val])
       ELSE UNCHANGED cache
    /\ Lock!Leave(t)
    /\ Return(t, local[t].val)
    /\ UNCHANGED <<shared, now>>

-----------------------------------------------------------------------------

(***************************************************************************)
(* The calls that write.  put() and put_many() take the time before they   *)
(* ask for the lock; delete_many() and clean_expired_keys() find out under *)
(* the lock which keys there are to remove.                                *)
(***************************************************************************)
Call(t, c) ==
    /\ pc[t] = "idle"
    /\ GoWith(t, "waiting", c)
    /\ returned' = {}
    /\ UNCHANGED <<shared, cache, hold, now>>

PutMany(t, items, at, life) ==
    /\ at # None => at <= now
    /\ Call(t, [op |-> "put", items |-> items, todo |-> DOMAIN items, key |-> None,
                ts |-> Given(at), life |-> life])

Delete(t, S) == Call(t, [op |-> "delete", todo |-> S, key |-> None])

CleanExpiredKeys(t) == Call(t, [op |-> "sweep", todo |-> {}, key |-> None])

Replace(t, m) ==
    /\ \A k \in DOMAIN m.store : \A i \in DOMAIN m.store[k] : m.store[k][i].ts <= now
    /\ Call(t, [op |-> "replace", image |-> m, todo |-> {None}, key |-> None])

ToRemove(c) ==
    CASE c.op = "delete" -> c.todo \cap DOMAIN store
      [] c.op = "sweep" -> {k \in DOMAIN ttl : Expired(k)}
      [] OTHER -> c.todo

EnterWrite(t) ==
    /\ pc[t] = "waiting"
    /\ Lock!AdmitWriter(t)
    /\ GoWith(t, "writing", [local[t] EXCEPT !.todo = ToRemove(local[t])])
    /\ returned' = {}
    /\ UNCHANGED <<shared, cache, now>>

LeaveWrite(t) ==
    /\ pc[t] = "writing"
    /\ local[t].todo = {}
    /\ Lock!Leave(t)
    /\ Done(t)
    /\ returned' = {}
    /\ UNCHANGED <<shared, cache, now>>

(***************************************************************************)
(* The next key of put_many() is tested for expiry, and purged: first from *)
(* the store and _ttl, then from the cache.                                *)
(***************************************************************************)
Purge(t) ==
    /\ pc[t] = "writing"
    /\ local[t].op = "put"
    /\ \E k \in local[t].todo :
          IF Expired(k)
          THEN /\ GoWith(t, "purged", [local[t] EXCEPT !.key = k])
               /\ store' = Without(store, {k})
               /\ ttl' = Without(ttl, {k})
          ELSE /\ GoWith(t, "insert", [local[t] EXCEPT !.key = k])
               /\ UNCHANGED <<store, ttl>>
    /\ returned' = {}
    /\ UNCHANGED <<settled, cache, hold, now>>

ForgetPurged(t) ==
    /\ pc[t] = "purged"
    /\ Cache!Drop({local[t].key})
    /\ Go(t, "insert")
    /\ returned' = {}
    /\ UNCHANGED <<shared, hold, now>>

AppendVersion(t) ==   \* mutant: the version that waited longest goes last
    LET c == local[t]
    IN  /\ pc[t] = "insert"
        /\ store' = Updated(store, Single(c.key,
                       AutoPrune(Append(HistoryIn(Actual, c.key),
                                        [ts |-> c.ts, val |-> c.items[c.key]]), Cap)))
        /\ ttl' = IF c.life = None THEN ttl ELSE Updated(ttl, Single(c.key, now + c.life))
        /\ Go(t, "changed")
        /\ returned' = {}
        /\ UNCHANGED <<settled, cache, hold, now>>

PutVersion(t) ==
    LET c == local[t]
    IN  /\ pc[t] = "insert"
        /\ store' = Updated(store, Single(c.key,
                       AutoPrune(InsertVersion(HistoryIn(Actual, c.key),
                                               [ts |-> c.ts, val |-> c.items[c.key]]), Cap)))
        /\ ttl' = IF c.life = None THEN ttl ELSE Updated(ttl, Single(c.key, now + c.life))
        /\ Go(t, "changed")
        /\ returned' = {}
        /\ UNCHANGED <<settled, cache, hold, now>>

PopKey(t) ==
    /\ pc[t] = "writing"
    /\ local[t].op \in {"delete", "sweep"}
    /\ \E k \in local[t].todo :
          /\ GoWith(t, "changed", [local[t] EXCEPT !.key = k])
          /\ store' = Without(store, {k})
          /\ ttl' = Without(ttl, {k})
    /\ returned' = {}
    /\ UNCHANGED <<settled, cache, hold, now>>

(***************************************************************************)
(* The invalidation that follows the change of a key.                      *)
(***************************************************************************)
ForgetNothing(t) ==   \* mutant: a write does not invalidate
    /\ pc[t] = "changed"
    /\ Settle
    /\ GoWith(t, "writing", [local[t] EXCEPT !.todo = @ \ {local[t].key}])
    /\ returned' = {}
    /\ UNCHANGED <<store, ttl, cache, hold, now>>

Forget(t) ==
    /\ pc[t] = "changed"
    /\ Cache!Drop({local[t].key})
    /\ Settle
    /\ GoWith(t, "writing", [local[t] EXCEPT !.todo = @ \ {local[t].key}])
    /\ returned' = {}
    /\ UNCHANGED <<store, ttl, hold, now>>

(***************************************************************************)
(* clear() and rollback(): everything is changed, then the cache cleared.  *)
(***************************************************************************)
SetImage(t) ==
    /\ pc[t] = "writing"
    /\ local[t].op = "replace" /\ local[t].todo # {}
    /\ store' = local[t].image.store
    /\ ttl' = local[t].image.ttl
    /\ Go(t, "replaced")
    /\ returned' = {}
    /\ UNCHANGED <<settled, cache, hold, now>>

ForgetAll(t) ==
    /\ pc[t] = "replaced"
    /\ Cache!Empty
    /\ Settle
    /\ GoWith(t, "writing", [local[t] EXCEPT !.todo = {}])
    /\ returned' = {}
    /\ UNCHANGED <<store, ttl, hold, now>>

(***************************************************************************)
(* reset_stats() clears the cache without the lock.                        *)
(***************************************************************************)
ResetStats ==
    /\ Cache!Empty
    /\ returned' = {}
    /\ UNCHANGED <<shared, hold, now, pc, local>>

Tick ==
    /\ now < MaxTime
    /\ now' = now + 1
    /\ returned' = {}
    /\ UNCHANGED <<shared, cache, hold, pc, local>>

Items == UNION {[S -> Values] : S \in (SUBSET Keys) \ {{}}}

Step(t) ==
    \/ \E k \in Keys, at \in Asked : Get(t, k, at)
    \/ IsInTtl(t) \/ ReadTtl(t) \/ ForgetExpired(t)
    \/ LookInCache(t) \/ Lookup(t) \/ CacheAndReturn(t)
    \/ \E items \in Items, at \in Stamps, life \in {None} \cup Lifetimes :
          PutMany(t, items, at, life)
    \/ \E S \in (SUBSET Keys) \ {{}} : Delete(t, S)
    \/ CleanExpiredKeys(t)
    \/ \E m \in Images : Replace(t, m)
    \/ EnterWrite(t) \/ LeaveWrite(t)
    \/ Purge(t) \/ ForgetPurged(t) \/ PutVersion(t) \/ PopKey(t) \/ Forget(t)
    \/ SetImage(t) \/ ForgetAll(t)

Next ==
    /\ Tick \/ ResetStats \/ \E t \in Threads : Step(t)
    /\ Observe

Spec == Init /\ [][Next]_vars

-----------------------------------------------------------------------------

(***************************************************************************)
(* README.md: "Thread-safe, time-versioned key-value store."  What get()   *)
(* returns was true, for the moment it was asked about, at some time       *)
(* between its call and its return.                                        *)
(***************************************************************************)
AnswersWereTrue == \A r \in returned : r.val # KeyError => r.val \in r.seen

(***************************************************************************)
(* The same of questions about a moment that the caller names: cached or   *)
(* not, swept or written meanwhile, the answer was true during the call.   *)
(* (The KeyError of a key that vanishes inside _is_expired is no answer.)  *)
(***************************************************************************)
PastAnswersWereTrue ==
    \A r \in returned : r.at # None /\ r.val # KeyError => r.val \in r.seen

(***************************************************************************)
(* Whatever the threads do, an answer in the cache about a moment that the *)
(* caller named is the answer of the history, as long as the key lives and *)
(* no writer is between changing the key and invalidating it.              *)
(***************************************************************************)
PastIsRemembered ==
    \A e \in cache :
       (e.at # None /\ e.key \notin Unsettled /\ ~Expired(e.key))
          => e.val = AsOfIn(Actual, e.key, now, e.at)

(***************************************************************************)
(* No answer outlives its key, whatever a reader that was looking for it   *)
(* when it disappeared puts into the cache.                                *)
(***************************************************************************)
NoGhosts == \A e \in cache : e.key \in DOMAIN store \cup Unsettled

(***************************************************************************)
(* Writers that took the time before they waited for the lock still leave  *)
(* every history in order.                                                 *)
(***************************************************************************)
InOrder == \A k \in DOMAIN store : Ordered(store[k])

(***************************************************************************)
(* The lock is held as the labels say, and excludes as it should.          *)
(***************************************************************************)
TypeOK ==
    /\ now \in Times
    /\ DOMAIN store \subseteq Keys /\ DOMAIN ttl \subseteq DOMAIN store
    /\ cache \subseteq Cache!Entry
    /\ Lock!MutualExclusion
    /\ \A t \in Threads : /\ pc[t] = "found" <=> Lock!Holds(t, "R")
                          /\ pc[t] \in {"writing", "purged", "insert", "changed", "replaced"}
                                <=> Lock!Holds(t, "W")
=============================================================================
