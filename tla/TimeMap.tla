------------------------------ MODULE TimeMap -------------------------------
(***************************************************************************)
(* What a ChronoMap promises the program that calls it, one call at a      *)
(* time: a map from keys to histories in which a key is gone the moment    *)
(* its time to live is over, every question is answered from the           *)
(* histories, and every write is told.  There is no cache here.  Of a key  *)
(* that is over nothing is left but, for as long as nobody knows, its      *)
(* being counted by those who remove keys and versions.                    *)
(***************************************************************************)
EXTENDS VersionHistory, Dict, FiniteSets

CONSTANTS
    Keys,
    Values,
    Cap,          \* most versions of a key that a write leaves, or NoCap
    Absent,       \* the answer about a key without a value
    Silent,       \* the answer of a call that has none
    Keep,         \* "the time to live stays what it is"
    OtherMaps,    \* maps, as records [store, ttl]
    MaxTime

VARIABLES
    held,         \* the histories of the keys the map has
    expiry,       \* when the keys that have a time to live disappear
    lingering,    \* keys that are over and still count as something to remove
    now,
    answer,       \* what the last call returned
    told          \* what the last call told the callbacks

vars == <<held, expiry, lingering, now, answer, told>>

Init ==
    /\ held = EmptyDict /\ expiry = EmptyDict /\ lingering = {} /\ now = 0
    /\ answer = Silent /\ told = {}

HeldOf(k) == IF k \in DOMAIN held THEN held[k] ELSE << >>

AsOf(k, t) == LET i == IndexAsOf(HeldOf(k), t)
              IN  IF i = 0 THEN Absent ELSE HeldOf(k)[i].val

NewestOf(k) == IF HeldOf(k) = << >> THEN Absent ELSE Last(HeldOf(k)).val

(***************************************************************************)
(* The map becomes h with the expiries x, save what is over, which may     *)
(* linger; what lingers may be gone for good at every step.                *)
(***************************************************************************)
Become(h, x) ==
    LET over == {k \in DOMAIN x : x[k] <= now'}
    IN  /\ held' = Without(h, over)
        /\ expiry' = Without(x, over)
        /\ lingering' \subseteq (lingering \cup over) \ DOMAIN held'

Same == UNCHANGED <<held, expiry, now>> /\ lingering' \subseteq lingering

Quiet == answer' = Silent /\ told' = {}

-----------------------------------------------------------------------------

Tick ==
    /\ now < MaxTime
    /\ Quiet
    /\ now' = now + 1
    /\ Become(held, expiry)

Tell(items, t) ==
    told' = {[key |-> k, old |-> NewestOf(k), new |-> items[k], ts |-> t] : k \in DOMAIN items}

Lives == {Keep} \cup 1 .. MaxTime

Write(items, t, life) ==
    /\ UNCHANGED now
    /\ Become(Updated(held, [k \in DOMAIN items |->
                 AutoPrune(InsertVersion(HeldOf(k), [ts |-> t, val |-> items[k]]), Cap)]),
              IF life = Keep THEN expiry
              ELSE Updated(expiry, [k \in DOMAIN items |-> now + life]))

Put(items, t) ==
    /\ answer' = Silent
    /\ Tell(items, t)
    /\ \E life \in Lives : Write(items, t, life)

GetOrSet(k, v) ==
    \/ /\ HeldOf(k) # << >>
       /\ answer' = NewestOf(k)
       /\ told' = {}
       /\ Same
    \/ /\ HeldOf(k) = << >>
       /\ answer' = v
       /\ Tell(Single(k, v), now)
       /\ \E life \in Lives : Write(Single(k, v), now, life)

Ask(k, t) ==
    /\ told' = {}
    /\ answer' = AsOf(k, t)
    /\ Same

(***************************************************************************)
(* The newest values of the keys that have one, all keys, whether a key    *)
(* has a value, the keys of some values, a key's versions between times,   *)
(* all of them.                                                            *)
(***************************************************************************)
Reply(a) == told' = {} /\ answer' = a /\ Same

Newest ==
    Reply([values |-> [k \in {k \in DOMAIN held : held[k] # << >>} |-> Last(held[k]).val]])

List == Reply([keys |-> DOMAIN held])

Has(k) == Reply([has |-> HeldOf(k) # << >>])

Valued(v, t) == Reply([keys |-> {k \in DOMAIN held : AsOf(k, t) = v}])

Matching(P, t) ==
    Reply([values |-> [k \in {k \in DOMAIN held : AsOf(k, t) \in P} |-> AsOf(k, t)]])

Between(k, from, to) == Reply([versions |-> Within(HeldOf(k), from, to)])

All(k) == Reply([versions |-> HeldOf(k)])

(***************************************************************************)
(* Removing keys tells how many there were to remove.                      *)
(***************************************************************************)
Forget(S) ==
    /\ told' = {}
    /\ answer' = [deleted |-> Cardinality(S \cap (DOMAIN held \cup lingering))]
    /\ UNCHANGED now
    /\ Become(Without(held, S), Without(expiry, S))
    /\ lingering' \cap S = {}

Sweep ==
    /\ told' = {}
    /\ answer' = [removed |-> Cardinality(lingering)]
    /\ lingering' = {}
    /\ UNCHANGED <<held, expiry, now>>

ForgetAll ==
    /\ Quiet
    /\ held' = EmptyDict /\ expiry' = EmptyDict /\ lingering' = {}
    /\ UNCHANGED now

Nothing == Quiet /\ Same

(***************************************************************************)
(* Pruning takes versions from the old end of the histories of S and tells *)
(* how many.  What it tells of keys that linger is anyone's guess.         *)
(***************************************************************************)
Prune(S) ==
    /\ told' = {}
    /\ DOMAIN held' = DOMAIN held
    /\ \A k \in DOMAIN held : IsSuffix(held'[k], held[k])
    /\ \A k \in DOMAIN held \ S : held'[k] = held[k]
    /\ \/ answer' = [removed |-> Cardinality(Taken(held, held'))]
       \/ S \cap lingering # {} /\ answer' \in [removed : Nat]
    /\ UNCHANGED <<expiry, now>>
    /\ lingering' \subseteq lingering

Merge(m) ==
    /\ Quiet
    /\ UNCHANGED now
    /\ Become(Updated(held, [k \in DOMAIN m.store |->
                 AutoPrune(Absorb(HeldOf(k), m.store[k]), Cap)]),
              Updated(expiry, [k \in DOMAIN m.ttl |->
                 IF k \in DOMAIN expiry /\ expiry[k] > m.ttl[k] THEN expiry[k] ELSE m.ttl[k]]))

Overwrite(m) ==
    /\ Quiet
    /\ UNCHANGED now
    /\ Become(Updated(held, m.store), Updated(expiry, m.ttl))

Restore(m) ==
    /\ Quiet
    /\ UNCHANGED now
    /\ Become(m.store, m.ttl)
    /\ lingering' \subseteq DOMAIN m.store

Times == 0 .. MaxTime

Items == UNION {[S -> Values] : S \in (SUBSET Keys) \ {{}}}

Read ==
    \/ \E k \in Keys, t \in Times : Ask(k, t)
    \/ \E v \in Values, t \in Times : Valued(v, t)
    \/ \E P \in SUBSET Values, t \in Times : Matching(P, t)
    \/ \E k \in Keys, from, to \in Times : Between(k, from, to)
    \/ \E k \in Keys : Has(k) \/ All(k)
    \/ Newest \/ List

Next ==
    \/ Tick
    \/ \E S \in SUBSET Keys : Forget(S)
    \/ Sweep \/ ForgetAll \/ Nothing
    \/ \E m \in OtherMaps : Merge(m) \/ Overwrite(m) \/ Restore(m)
    \/ \E items \in Items, t \in Times : Put(items, t)
    \/ \E k \in Keys, v \in Values : GetOrSet(k, v)
    \/ Read
    \/ \E S \in SUBSET Keys : Prune(S)

Spec == Init /\ [][Next]_vars
=============================================================================
