------------------------- MODULE VersionedRegister --------------------------
(***************************************************************************)
(* What the history of one key promises, without a list, an order of       *)
(* storage or a search: a set of writes, numbered in the order in which    *)
(* they arrived, of which the newest are retained.  A write is a record    *)
(* [ts, val] and val is its number of arrival.                             *)
(***************************************************************************)
EXTENDS Integers, Sequences, FiniteSets

CONSTANTS
    Timestamps,
    Replacements, \* histories, as sequences of timestamps, that may replace this one
    Cap,          \* most writes retained, or NoCap
    NoCap

VARIABLES
    kept,         \* writes retained
    arrived       \* number of writes that have arrived

vars == <<kept, arrived>>

(***************************************************************************)
(* w supersedes v: it is about a later time, or about the same time and    *)
(* arrived later.                                                          *)
(***************************************************************************)
Supersedes(w, v) == w.ts > v.ts \/ (w.ts = v.ts /\ w.val > v.val)

Newest(S, n) == {v \in S : Cardinality({w \in S : Supersedes(w, v)}) < n}

Retain(S) == IF Cap = NoCap THEN S ELSE Newest(S, Cap)

Init == kept = {} /\ arrived = 0

(***************************************************************************)
(* A write arrives, the bound holds at once.                               *)
(***************************************************************************)
Write(t) ==
    /\ kept' = Retain(kept \cup {[ts |-> t, val |-> arrived + 1]})
    /\ arrived' = arrived + 1

(***************************************************************************)
(* A write arrives and the bound waits: a write whose call was rejected,   *)
(* and those of another map, which arrive one by one.                      *)
(***************************************************************************)
Absorb(t) ==
    /\ kept' = kept \cup {[ts |-> t, val |-> arrived + 1]}
    /\ arrived' = arrived + 1

Bound == kept' = Retain(kept) /\ UNCHANGED arrived

(***************************************************************************)
(* The writes of another map take the place of these, in their order.      *)
(***************************************************************************)
Replace(timestamps) ==
    /\ kept' = {[ts |-> timestamps[i], val |-> arrived + i] : i \in DOMAIN timestamps}
    /\ arrived' = arrived + Len(timestamps)

KeepNewest(n) == kept' = Newest(kept, n) /\ UNCHANGED arrived

Forget(t) == kept' = {v \in kept : v.ts >= t} /\ UNCHANGED arrived

Delete == kept' = {} /\ UNCHANGED arrived

Next ==
    \/ \E t \in Timestamps : Write(t) \/ Absorb(t) \/ Forget(t)
    \/ Bound
    \/ \E timestamps \in Replacements : Replace(timestamps)
    \/ \E n \in 1 .. Cardinality(kept) : KeepNewest(n)
    \/ Delete

Spec == Init /\ [][Next]_vars

(***************************************************************************)
(* The write in force at t: none supersedes it among those not later.      *)
(***************************************************************************)
InForce(t) ==
    {v \in kept : v.ts <= t /\ \A w \in kept : w.ts <= t => ~Supersedes(w, v)}
=============================================================================
