--------------------------- MODULE AsyncChronoMap ---------------------------
(***************************************************************************)
(* chronomap/asynchronous.py: the tasks of one event loop on one map.  A   *)
(* step of a task runs from one suspension to the next, and a task is only *)
(* suspended where it waits for the lock, where get_or_set() awaits the    *)
(* coroutine of its factory under the lock, and where a write awaits a     *)
(* callback after it has left the lock.  (A factory that does not suspend  *)
(* is one after whose step nobody else moves.)  At least one callback is a *)
(* coroutine; the first callback to be registered hears of a write before  *)
(* the writer is suspended, whether it is a coroutine or not.              *)
(***************************************************************************)
EXTENDS VersionHistory, Dict, FiniteSets

CONSTANTS
    Tasks,
    Keys,
    Values,
    Cap,          \* max_history: a number, or NoCap
    Absent,       \* the default of get()
    None,         \* an optional argument that is not given
    Silent,       \* the outcome of a step that returns nothing or None
    Refused,      \* put() raises for its ttl
    Nobody,       \* the holder of a lock that is free
    Asked,        \* timestamp arguments of get()
    Stamps,       \* timestamp arguments of put() and put_many()
    Lifetimes,    \* ttl arguments
    Lead,         \* how far past the present timestamps may be
    Longest,      \* bound: a refused call meets at most so many versions of its key
    MaxTime

Times == 0 .. MaxTime

ASSUME AsyncChronoMapAssumption ==
    /\ MaxTime \in Nat /\ Longest \in Nat /\ Lead \in Nat
    /\ Cap = NoCap \/ Cap \in Int
    /\ None \notin Int /\ Nobody \notin Tasks
    /\ Asked \subseteq Times \cup {None} /\ Stamps \subseteq Times \cup {None}
    /\ Lifetimes \subseteq Int

VARIABLES
    store,        \* self._store
    ttl,          \* self._ttl
    now,          \* the clock
    holder,       \* the task that is suspended inside the lock, or Nobody
    queue,        \* the tasks that wait for the lock, in the order they came
    pc,           \* where each task is suspended
    local,        \* what its call was given, and what is left to do of it
    answer,       \* what the last step returned
    told          \* what the last step told the first callback

vars == <<store, ttl, now, holder, queue, pc, local, answer, told>>

Init ==
    /\ store = EmptyDict /\ ttl = EmptyDict /\ now = 0
    /\ holder = Nobody /\ queue = << >>
    /\ pc = [t \in Tasks |-> "idle"] /\ local = [t \in Tasks |-> None]
    /\ answer = Silent /\ told = {}

-----------------------------------------------------------------------------

HistoryOf(k) == IF k \in DOMAIN store THEN store[k] ELSE << >>

Expired(k) == k \in DOMAIN ttl /\ now >= ttl[k]

Current(k) == IF Expired(k) THEN << >> ELSE HistoryOf(k)

NewestValue(k) == IF Current(k) = << >> THEN Absent ELSE Last(Current(k)).val

AsOf(k, t) ==
    LET i == IndexAsOf(Current(k), t)
    IN  IF i = 0 THEN Absent ELSE Current(k)[i].val

Live == {k \in DOMAIN store : ~Expired(k)}

Acceptable(life) == life # None => life > 0

Outdated(k) == {j \in {k} : Expired(j)}

Go(t, where, c) == pc' = [pc EXCEPT ![t] = where] /\ local' = [local EXCEPT ![t] = c]

Done(t) == Go(t, "idle", None)

Quiet == answer' = Silent /\ told' = {}

(***************************************************************************)
(* What every call does first with an expired key.                         *)
(***************************************************************************)
Purge(k) ==
    /\ store' = Without(store, Outdated(k))
    /\ ttl' = Without(ttl, Outdated(k))

(***************************************************************************)
(* What is left of a call when the version of c.key is written.            *)
(***************************************************************************)
Rest(c) ==
    LET items == Without(c.items, {c.key})
    IN  IF items = EmptyDict THEN None ELSE [c EXCEPT !.items = items, !.key = None, !.ts = None]

(***************************************************************************)
(* A version has been written: the first callback hears of it, the task is *)
(* suspended by the first that awaits.                                     *)
(***************************************************************************)
Announce(t, c, old, v) ==
    /\ told' = {[key |-> c.key, old |-> old, new |-> v, ts |-> c.ts]}
    /\ answer' = Silent
    /\ Go(t, "telling", Rest(c))

Extended(k, life) == IF life = None THEN ttl ELSE Updated(ttl, Single(k, now + life))

(***************************************************************************)
(* put(), inside the lock, of the key c.key.  A ttl that is not positive   *)
(* raises after the insertion.                                             *)
(***************************************************************************)
Inserted(c) == InsertVersion(Current(c.key), [ts |-> c.ts, val |-> c.items[c.key]])

Put(t, c) ==
    \/ /\ Acceptable(c.life)
       /\ store' = Updated(store, Single(c.key, AutoPrune(Inserted(c), Cap)))
       /\ ttl' = IF c.life = None THEN Without(ttl, Outdated(c.key))
                 ELSE Updated(ttl, Single(c.key, now + c.life))
       /\ Announce(t, c, NewestValue(c.key), c.items[c.key])
       /\ UNCHANGED holder
    \/ /\ ~Acceptable(c.life)
       /\ store' = Updated(store, Single(c.key, Inserted(c)))
       /\ ttl' = Without(ttl, Outdated(c.key))
       /\ answer' = Refused /\ told' = {}
       /\ Done(t)
       /\ UNCHANGED holder

Get(t, c) ==
    /\ answer' = AsOf(c.key, c.ts)
    /\ told' = {}
    /\ Purge(c.key)
    /\ Done(t)
    /\ UNCHANGED holder

(***************************************************************************)
(* get_or_set(), inside the lock: the newest value, or the factory's to    *)
(* come.                                                                   *)
(***************************************************************************)
MakeUnlocked(t, c) ==   \* mutant: the factory is awaited outside the lock
    \/ /\ Current(c.key) # << >>
       /\ answer' = NewestValue(c.key) /\ told' = {}
       /\ Done(t)
       /\ UNCHANGED <<store, ttl, holder>>
    \/ /\ Current(c.key) = << >>
       /\ Purge(c.key)
       /\ Go(t, "making", c)
       /\ Quiet
       /\ UNCHANGED holder

GetOrSet(t, c) ==
    \/ /\ Current(c.key) # << >>
       /\ answer' = NewestValue(c.key) /\ told' = {}
       /\ Done(t)
       /\ UNCHANGED <<store, ttl, holder>>
    \/ /\ Current(c.key) = << >>
       /\ Purge(c.key)
       /\ Go(t, "making", c)
       /\ holder' = t
       /\ Quiet

(***************************************************************************)
(* delete() returns whether it found the key, as a count of 1 or 0.  A key *)
(* that has expired and that no put() or get() has purged is found.        *)
(***************************************************************************)
Delete(t, c) ==
    /\ store' = Without(store, {c.key})
    /\ ttl' = Without(ttl, {c.key} \cap DOMAIN store)
    /\ answer' = [deleted |-> Cardinality({c.key} \cap DOMAIN store)]
    /\ told' = {}
    /\ Done(t)
    /\ UNCHANGED holder

Latest(t) ==
    /\ answer' = [values |-> [k \in {k \in Live : store[k] # << >>} |-> NewestValue(k)]]
    /\ told' = {}
    /\ Done(t)
    /\ UNCHANGED <<store, ttl, holder>>

ListKeys(t) ==
    /\ answer' = [keys |-> Live]
    /\ told' = {}
    /\ Done(t)
    /\ UNCHANGED <<store, ttl, holder>>

Inside(t, c) ==
    \/ c.op = "put" /\ Put(t, c)
    \/ c.op = "get" /\ Get(t, c)
    \/ c.op = "get_or_set" /\ GetOrSet(t, c)
    \/ c.op = "delete" /\ Delete(t, c)
    \/ c.op = "read" /\ (Latest(t) \/ ListKeys(t))

-----------------------------------------------------------------------------

(***************************************************************************)
(* asyncio.Lock: a task that finds the lock free and nobody waiting goes   *)
(* in without being suspended, any other waits its turn.                   *)
(***************************************************************************)
Lock(t, c) ==
    \/ /\ holder = Nobody /\ queue = << >>
       /\ Inside(t, c)
       /\ UNCHANGED <<queue, now>>
    \/ /\ holder # Nobody \/ queue # << >>
       /\ queue' = Append(queue, t)
       /\ Go(t, "waiting", c)
       /\ Quiet
       /\ UNCHANGED <<store, ttl, now, holder>>

Enter(t) ==
    /\ holder = Nobody /\ queue # << >> /\ Head(queue) = t
    /\ queue' = Tail(queue)
    /\ Inside(t, local[t])
    /\ UNCHANGED now

(***************************************************************************)
(* The calls.  All of them take the time before they ask for the lock;     *)
(* put_many() is a loop of put(), each of which takes the time again.      *)
(***************************************************************************)
Given(at) == IF at = None THEN now ELSE at

PutNext(t, c) ==
    \E k \in DOMAIN c.items : Lock(t, [c EXCEPT !.key = k, !.ts = Given(c.at)])

(***************************************************************************)
(* Refused calls waiting for the lock: with Longest they bound histories.  *)
(***************************************************************************)
ToBeRefused == {u \in Tasks : /\ pc[u] = "waiting"
                              /\ local[u].op = "put" /\ ~Acceptable(local[u].life)}

PutMany(t, items, at, life) ==
    /\ pc[t] = "idle"
    /\ at # None => at <= now + Lead
    /\ ~Acceptable(life) =>
         \A k \in DOMAIN items : Len(HistoryOf(k)) + Cardinality(ToBeRefused) <= Longest
    /\ PutNext(t, [op |-> "put", items |-> items, at |-> at, life |-> life,
                   key |-> None, ts |-> None])

CallGet(t, k, at) ==
    /\ pc[t] = "idle"
    /\ Lock(t, [op |-> "get", key |-> k, at |-> at, ts |-> Given(at)])

CallGetOrSet(t, k, life) ==
    /\ pc[t] = "idle"
    /\ Acceptable(life)
    /\ Lock(t, [op |-> "get_or_set", key |-> k, ts |-> now, life |-> life,
               items |-> EmptyDict])

CallDelete(t, k) == pc[t] = "idle" /\ Lock(t, [op |-> "delete", key |-> k])

CallReader(t) == pc[t] = "idle" /\ Lock(t, [op |-> "read"])

(***************************************************************************)
(* The factory returns v.                                                  *)
(***************************************************************************)
MadeStampedLate(t, v) ==   \* mutant: the version is stamped when the factory returns
    LET c == [local[t] EXCEPT !.ts = now]
    IN  /\ pc[t] = "making"
        /\ holder' = Nobody
        /\ UNCHANGED <<queue, now>>
        /\ Announce(t, c, Absent, v)
        /\ store' = Updated(store, Single(c.key, AutoPrune(<<[ts |-> c.ts, val |-> v]>>, Cap)))
        /\ ttl' = Extended(c.key, c.life)

Made(t, v) ==
    LET c == local[t]
    IN  /\ pc[t] = "making"
        /\ holder' = Nobody
        /\ UNCHANGED <<queue, now>>
        /\ Announce(t, c, Absent, v)
        /\ store' = Updated(store, Single(c.key, AutoPrune(<<[ts |-> c.ts, val |-> v]>>, Cap)))
        /\ ttl' = Extended(c.key, c.life)

(***************************************************************************)
(* The callbacks have returned: the call is over, or put_many() goes on.   *)
(***************************************************************************)
Told(t) ==
    /\ pc[t] = "telling"
    /\ \/ /\ local[t] = None
          /\ Done(t)
          /\ Quiet
          /\ UNCHANGED <<store, ttl, now, holder, queue>>
       \/ local[t] # None /\ PutNext(t, local[t])

(***************************************************************************)
(* The factory or a callback raises, or the task is cancelled: nothing     *)
(* catches it, `async with` leaves the lock.                               *)
(***************************************************************************)
Leaving(t) ==   \* asyncio.Lock takes a waiter that is cancelled out of its queue
    IF pc[t] = "waiting" THEN RemoveAt(queue, CHOOSE i \in DOMAIN queue : queue[i] = t)
    ELSE queue

FailHolding(t) ==   \* mutant: the lock is released only when all goes well
    /\ pc[t] # "idle"
    /\ Done(t)
    /\ queue' = Leaving(t)
    /\ Quiet
    /\ UNCHANGED <<store, ttl, now, holder>>

Fail(t) ==
    /\ pc[t] # "idle"
    /\ Done(t)
    /\ queue' = Leaving(t)
    /\ holder' = IF holder = t THEN Nobody ELSE holder
    /\ Quiet
    /\ UNCHANGED <<store, ttl, now>>

Tick ==
    /\ now < MaxTime
    /\ now' = now + 1
    /\ Quiet
    /\ UNCHANGED <<store, ttl, holder, queue, pc, local>>

Items == UNION {[S -> Values] : S \in (SUBSET Keys) \ {{}}}

Lives == {None} \cup Lifetimes

Goes(t) == Enter(t) \/ Told(t) \/ \E v \in Values : Made(t, v)

Step(t) ==
    \/ Goes(t) \/ Fail(t)
    \/ \E items \in Items, at \in Stamps, life \in Lives : PutMany(t, items, at, life)
    \/ \E k \in Keys, at \in Asked : CallGet(t, k, at)
    \/ \E k \in Keys, life \in Lives : CallGetOrSet(t, k, life)
    \/ \E k \in Keys : CallDelete(t, k)
    \/ CallReader(t)

Next == Tick \/ \E t \in Tasks : Step(t)

(***************************************************************************)
(* The event loop runs every task that can run; factories and callbacks    *)
(* end, well or not.                                                       *)
(***************************************************************************)
Ready(t) ==
    \/ pc[t] \in {"making", "telling"}
    \/ pc[t] = "waiting" /\ holder = Nobody /\ Head(queue) = t

Spec == Init /\ [][Next]_vars /\ \A t \in Tasks : WF_vars(Ready(t) /\ (Fail(t) \/ Goes(t)))

-----------------------------------------------------------------------------

(***************************************************************************)
(* The lock is held exactly while a factory is awaited, the queue has the  *)
(* tasks that wait for it, once each, and an error leaves neither behind.  *)
(***************************************************************************)
TypeOK ==
    /\ now \in Times
    /\ DOMAIN store \subseteq Keys /\ DOMAIN ttl \subseteq DOMAIN store
    /\ \A t \in Tasks : /\ pc[t] = "making" <=> holder = t
                        /\ pc[t] = "waiting" <=> t \in ToSet(queue)
    /\ IsInjective(queue)

(***************************************************************************)
(* A question about the present finds the newest version, although it took *)
(* the time before it waited: the queue is first come first served, so     *)
(* that nobody who took it later has been in before.  (ChronoMap, whose    *)
(* lock is not, cannot promise this.)  Writes must not be stamped ahead of *)
(* the clock for this, Lead = 0: the version of a later time may come into *)
(* force while the question waits.                                         *)
(***************************************************************************)
NowIsNewest ==
    [][\A t \in Tasks :
         (Enter(t) /\ local[t].op = "get" /\ local[t].at = None)
            => LET found == Current(local[t].key)
               IN  IndexAsOf(found, local[t].ts) = Len(found)]_vars

(***************************************************************************)
(* README.md: "AsyncChronoMap is a separate asyncio-native implementation  *)
(* with the same core surface."  It is a TimeMap, as ChronoMap is: every   *)
(* call takes effect at one moment, when the first callback hears of it,   *)
(* and half a get_or_set() is not to be seen.  Keys that have expired show *)
(* only in what delete() returns.  A put() that raises for its ttl is an   *)
(* exception: its version stays.                                           *)
(***************************************************************************)
Promise == INSTANCE TimeMap
    WITH held <- Restrict(store, Live), expiry <- Restrict(ttl, DOMAIN ttl \cap Live),
         lingering <- DOMAIN store \ Live, Keep <- None, OtherMaps <- {}

ImplementsTimeMap ==
    Promise!Init /\ [][answer' = Refused \/ Promise!Next]_(Promise!vars)

(***************************************************************************)
(* Every call returns, whoever raises or is cancelled while it waits.      *)
(***************************************************************************)
EveryCallReturns == \A t \in Tasks : pc[t] # "idle" ~> pc[t] = "idle"
=============================================================================
