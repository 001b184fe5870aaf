----------------------------- MODULE KeyHistory -----------------------------
(***************************************************************************)
(* The life of the history of one key of a ChronoMap: what every operation *)
(* of core.py that changes it does to the list of versions.  Each of them  *)
(* runs under the write lock.  The value of a version is the number of its *)
(* arrival, so that versions can be told apart and ordered by arrival.     *)
(***************************************************************************)
EXTENDS VersionHistory, FiniteSets

CONSTANTS
    Timestamps,   \* timestamps the writers give
    Cap,          \* max_history: a number, or NoCap
    MergeFrom,    \* histories of the key in maps merged in, as timestamps
    OverwriteFrom,\* the same, for merges that overwrite
    KeepArgs,     \* values of keep_last
    MaxArrivals   \* bound on the number of versions that ever arrive

ASSUME KeyHistoryAssumption ==
    /\ Timestamps \subseteq Int
    /\ Cap = NoCap \/ Cap \in Int
    /\ MergeFrom \subseteq Seq(Timestamps)
    /\ OverwriteFrom \subseteq Seq(Timestamps)
    /\ \A o \in OverwriteFrom : \A i, j \in DOMAIN o : i < j => o[i] <= o[j]
    /\ KeepArgs \subseteq Int
    /\ MaxArrivals \in Nat

VARIABLES
    versions,     \* self._store[key], << >> for a key that is not there
    merging,      \* is merge() in its loop over the other map's versions?
    incoming,     \* timestamps of the versions the loop has still to visit
    arrived,      \* number of versions that have arrived so far
    unpruned      \* how many of them no _auto_prune has seen yet (history)

(***************************************************************************)
(* The names that every module has are prefixed here and in LRUCache:      *)
(* LockAndHistoryProofs extends RWLock beside this module.                 *)
(***************************************************************************)
historyVars == <<versions, merging, incoming, arrived, unpruned>>

Version == [ts : Timestamps, val : Nat]

HistoryInit ==
    /\ versions = << >>
    /\ merging = FALSE
    /\ incoming = << >>
    /\ arrived = 0
    /\ unpruned = 0

Arriving(t) == [ts |-> t, val |-> arrived + 1]

-----------------------------------------------------------------------------

(***************************************************************************)
(* put(), put_many(), and get_or_set() on a key that has no versions.      *)
(***************************************************************************)
Put(t) ==
    /\ ~merging
    /\ arrived < MaxArrivals
    /\ versions' = AutoPrune(InsertVersion(versions, Arriving(t)), Cap)
    /\ arrived' = arrived + 1
    /\ unpruned' = 0
    /\ UNCHANGED <<merging, incoming>>

(***************************************************************************)
(* The same with a ttl that is not positive: the call raises when the      *)
(* version is in and _auto_prune has not run.                              *)
(***************************************************************************)
PutRejected(t) ==
    /\ ~merging
    /\ arrived < MaxArrivals
    /\ versions' = InsertVersion(versions, Arriving(t))
    /\ arrived' = arrived + 1
    /\ unpruned' = unpruned + 1
    /\ UNCHANGED <<merging, incoming>>

(***************************************************************************)
(* delete(), delete_many(), clear(), and the removal of an expired key.    *)
(***************************************************************************)
Delete ==
    /\ ~merging
    /\ versions' = << >>
    /\ unpruned' = 0
    /\ UNCHANGED <<merging, incoming, arrived>>

PruneKeepLast(n) ==
    /\ ~merging
    /\ versions' = KeepLast(versions, n)
    /\ UNCHANGED <<merging, incoming, arrived, unpruned>>

PruneOlderThan(t) ==
    /\ ~merging
    /\ versions' = DropOlder(versions, t)
    /\ UNCHANGED <<merging, incoming, arrived, unpruned>>

(***************************************************************************)
(* merge(strategy="timestamp"): the loop over the other map's versions of  *)
(* the key, one insertion after the other, and _auto_prune when it ends.   *)
(***************************************************************************)
MergeBegin(other) ==
    /\ ~merging
    /\ arrived + Len(other) <= MaxArrivals
    /\ merging' = TRUE
    /\ incoming' = other
    /\ UNCHANGED <<versions, arrived, unpruned>>

MergeVersion ==
    /\ merging
    /\ incoming # << >>
    /\ versions' = InsertVersion(versions, Arriving(Head(incoming)))
    /\ incoming' = Tail(incoming)
    /\ arrived' = arrived + 1
    /\ unpruned' = unpruned + 1
    /\ UNCHANGED merging

MergeEnd ==
    /\ merging
    /\ incoming = << >>
    /\ versions' = AutoPrune(versions, Cap)
    /\ merging' = FALSE
    /\ unpruned' = 0
    /\ UNCHANGED <<incoming, arrived>>

(***************************************************************************)
(* merge(strategy="overwrite"), and rollback() to a map that has the key:  *)
(* a copy of the other map's versions, however many, and no _auto_prune.   *)
(* The other map may have another max_history, or none.                    *)
(***************************************************************************)
Surplus(n) == IF Cap # NoCap /\ n > Cap THEN n - Cap ELSE 0

MergeOverwrite(other) ==
    /\ ~merging
    /\ arrived + Len(other) <= MaxArrivals
    /\ versions' = [i \in DOMAIN other |-> [ts |-> other[i], val |-> arrived + i]]
    /\ arrived' = arrived + Len(other)
    /\ unpruned' = Surplus(Len(other))
    /\ UNCHANGED <<merging, incoming>>

HistoryNext ==
    \/ \E t \in Timestamps : Put(t) \/ PutRejected(t) \/ PruneOlderThan(t)
    \/ \E n \in KeepArgs : PruneKeepLast(n)
    \/ Delete
    \/ \E other \in MergeFrom : MergeBegin(other)
    \/ MergeVersion
    \/ MergeEnd
    \/ \E other \in OverwriteFrom : MergeOverwrite(other)

HistorySpec == HistoryInit /\ [][HistoryNext]_historyVars

-----------------------------------------------------------------------------

(***************************************************************************)
(* The history is the VersionedRegister's set of writes, in order.         *)
(***************************************************************************)
Kept == {versions[i] : i \in DOMAIN versions}

Register == INSTANCE VersionedRegister
    WITH kept <- Kept, Replacements <- OverwriteFrom

(***************************************************************************)
(* Whatever order writes arrive in, and however merges and prunes come in  *)
(* between, put() and merge() leave the history in the order of timestamps *)
(* and, within one timestamp, of arrival.                                  *)
(***************************************************************************)
InOrder ==
    \A i, j \in DOMAIN versions : i < j => Register!Supersedes(versions[j], versions[i])

(***************************************************************************)
(* get(key, t) finds the write in force at t: the one with the latest      *)
(* timestamp not after t, the last to arrive if there are several.         *)
(***************************************************************************)
LookupIsInForce ==
    \A t \in Timestamps :
        Register!InForce(t) = LET i == IndexAsOf(versions, t)
                              IN  IF i = 0 THEN {} ELSE {versions[i]}

(***************************************************************************)
(* Pruning a little at every write keeps the same versions as pruning the  *)
(* newest of all of them would; nothing but pruning loses a write.         *)
(***************************************************************************)
ImplementsRegister == Register!Spec

(***************************************************************************)
(* What max_history bounds: a history has at most Cap versions beside      *)
(* those that came in since _auto_prune last ran on it, by calls that      *)
(* raised, in a merge that still goes on, or in a copied history that was  *)
(* longer.  However many they are, one put() that returns brings it back.  *)
(* A max_history of 0 or less keeps other versions than the newest (see    *)
(* KeepLast).                                                              *)
(***************************************************************************)
CapOnWhatWasPruned == Cap # NoCap /\ Cap > 0 => Len(versions) <= Cap + unpruned

(***************************************************************************)
(* What the constructor says of max_history (core.py:57): "Cap on versions *)
(* kept per key.  Older versions are dropped automatically once a key      *)
(* exceeds this."  The code does not keep it: a put() that raises for its  *)
(* ttl, and a copied history, leave more.                                  *)
(***************************************************************************)
WithinCap == Cap # NoCap /\ ~merging => Len(versions) <= Cap
=============================================================================
