--------------------------- MODULE VersionHistory ---------------------------
(***************************************************************************)
(* The history of one key as chronomap/core.py keeps it: a list of         *)
(* (timestamp, value) pairs that put(), put_many() and merge() keep sorted *)
(* by timestamp, later arrivals after earlier ones with the same           *)
(* timestamp.  A version is a record [ts, val]; timestamps are finite      *)
(* numbers, for which _validate_timestamp sees.                            *)
(***************************************************************************)
EXTENDS Integers, SequencesExt

CONSTANT NoCap    \* max_history=None

Ordered(h) == \A i, j \in DOMAIN h : i < j => h[i].ts <= h[j].ts

(***************************************************************************)
(* bisect.bisect_right(times, t), times being the timestamps of a sorted   *)
(* history: how many of its versions are not later than t.                 *)
(***************************************************************************)
BisectRight(h, t) ==
    CHOOSE i \in 0 .. Len(h) : /\ \A j \in 1 .. i : h[j].ts <= t
                               /\ \A j \in i + 1 .. Len(h) : t < h[j].ts

(***************************************************************************)
(* How many of its versions are earlier than t.                            *)
(***************************************************************************)
BisectLeft(h, t) ==
    CHOOSE i \in 0 .. Len(h) : /\ \A j \in 1 .. i : h[j].ts < t
                               /\ \A j \in i + 1 .. Len(h) : t <= h[j].ts

InsertBeforeTies(h, v) ==   \* mutant: bisect_left for bisect_right
    InsertAt(h, BisectLeft(h, v.ts) + 1, v)

(***************************************************************************)
(* The insertion of put(), put_many() and merge(): append the newest,      *)
(* insert a version that arrives out of order at its place.  list.insert   *)
(* counts from 0, InsertAt from 1.                                         *)
(***************************************************************************)
InsertVersion(h, v) ==
    IF h = << >> \/ v.ts >= h[Len(h)].ts
    THEN Append(h, v)
    ELSE InsertAt(h, BisectRight(h, v.ts) + 1, v)

(***************************************************************************)
(* merge(strategy="timestamp"): the versions of another history, one after *)
(* the other.                                                              *)
(***************************************************************************)
Absorb(h, others) ==
    LET after[i \in 0 .. Len(others)] ==
            IF i = 0 THEN h ELSE InsertVersion(after[i - 1], others[i])
    IN  after[Len(others)]

(***************************************************************************)
(* The slice h[-n:].  For n = 0 it is h[0:], everything; for a negative n  *)
(* it is everything but the first -n versions.                             *)
(***************************************************************************)
KeepLast(h, n) ==
    IF n > 0 THEN (IF n >= Len(h) THEN h ELSE SubSeq(h, Len(h) - n + 1, Len(h)))
    ELSE SubSeq(h, 1 - n, Len(h))

PruneOneTooFew(h, cap) ==   \* mutant: >= for >
    IF cap # NoCap /\ Len(h) >= cap THEN KeepLast(h, cap - 1) ELSE h

NeverPruned(h, cap) == h   \* mutant: max_history is not enforced

(***************************************************************************)
(* _auto_prune: a history longer than max_history keeps its newest         *)
(* versions; max_history=0 keeps them all (see KeepLast).                  *)
(***************************************************************************)
AutoPrune(h, cap) ==
    IF cap # NoCap /\ Len(h) > cap THEN KeepLast(h, cap) ELSE h

(***************************************************************************)
(* prune_history(older_than=t): in a sorted history the versions with      *)
(* ts >= t are those from the first of them on.                            *)
(***************************************************************************)
DropOlder(h, t) == SubSeq(h, BisectLeft(h, t) + 1, Len(h))

(***************************************************************************)
(* What pruning has taken when it leaves g of the histories h, as pairs of *)
(* a key and a place: the versions before those that are left.             *)
(***************************************************************************)
Taken(h, g) == UNION {{k} \X (1 .. Len(h[k]) - Len(g[k])) : k \in DOMAIN g}

(***************************************************************************)
(* The lookup of get() and _get_unlocked(): the index of the version in    *)
(* force at t, 0 if the key had no value yet.                              *)
(***************************************************************************)
IndexBefore(h, t) == BisectLeft(h, t)   \* mutant: a version is not in force at its own time

IndexAsOf(h, t) == BisectRight(h, t)

(***************************************************************************)
(* get_range(): the versions of an interval, both ends included.           *)
(***************************************************************************)
Within(h, from, to) == SelectSeq(h, LAMBDA w : from <= w.ts /\ w.ts <= to)
=============================================================================
