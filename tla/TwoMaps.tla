------------------------------ MODULE TwoMaps -------------------------------
(***************************************************************************)
(* chronomap/core.py: the calls that read a second map.  self.diff(other)  *)
(* holds self's read lock and asks other through its own get();            *)
(* self.merge(other) and self.rollback(other) hold self's write lock and   *)
(* walk through other's dict and lists without other's lock.  One thread,  *)
(* the caller, makes these calls; writers write to either map meanwhile,   *)
(* each under the lock of the map it writes to.  The maps keep no cache    *)
(* and no max_history here (ChronoMapThreads has both).                    *)
(***************************************************************************)
EXTENDS VersionHistory, Dict

CONSTANTS
    Caller,       \* the thread that calls diff(), merge() and rollback()
    Writers,      \* the threads that write
    Keys,
    Values,
    Absent,       \* the default of get()
    None,         \* an optional argument that is not given; a gap in a dict
    Lifetimes,    \* ttl arguments of put()
    MaxTime,
    MaxWrites     \* bound: writes of a run, calls of merge() included

Version == [ts : 0 .. MaxTime, val : Values]

(***************************************************************************)
(* A put() on its way: the map, its arguments, and what it has done.       *)
(***************************************************************************)
Puts == [map : {"self", "other"}, key : Keys, val : Values, ts : 0 .. MaxTime,
         life : Lifetimes \cup {None}, at : {"purged", "listed"}]

ASSUME TwoMapsAssumption ==
    /\ MaxTime \in Nat
    /\ Caller \notin Writers
    /\ Absent \notin Values /\ None \notin Keys \cup Values \cup Puts \cup Seq(Version)
    /\ Lifetimes \subseteq Nat \ {0}

VARIABLES
    store,        \* store.self and store.other: _store of each
    ttl,          \* _ttl of each
    entries,      \* the keys of other._store as the dict lays them out, None where one was
    now,          \* the clock
    writes,       \* how many writes and merges there have been
    held,         \* how each thread holds self's lock
    heldOther,    \* how each thread holds other's lock
    put,          \* where each writer is in a put(), and its arguments
    pc,           \* where the caller is
    local,        \* its local variables
    verdicts,     \* history variable: how each key differed, at the moments of the call
    histories,    \* history variable: other's history of each key, at the moments of the call
    unsteady,     \* history variable: self's keys that expired and other's that came back
                  \* after they had, during the call
    shifted       \* history variable: other's keys that were pruned during the walk, or that the
                  \* dict moved behind the walk when it closed its gaps

maps == <<store, ttl, entries, writes>>

seen == <<verdicts, histories, unsteady, shifted>>

vars == <<maps, now, held, heldOther, put, pc, local, seen>>

Maps == {"self", "other"}

Threads == Writers \cup {Caller}

Own == INSTANCE ReadWriteExclusion WITH hold <- held

Their == INSTANCE ReadWriteExclusion WITH hold <- heldOther

Init ==
    /\ store = [m \in Maps |-> EmptyDict] /\ ttl = [m \in Maps |-> EmptyDict]
    /\ entries = << >> /\ now = 0 /\ writes = 0
    /\ Own!Init /\ Their!Init
    /\ put = [w \in Writers |-> None]
    /\ pc = "idle" /\ local = None
    /\ verdicts = EmptyDict /\ histories = EmptyDict /\ unsteady = {} /\ shifted = {}

-----------------------------------------------------------------------------

HistoryOf(m, k) == IF k \in DOMAIN store[m] THEN store[m][k] ELSE << >>

Expired(m, k) == k \in DOMAIN ttl[m] /\ now >= ttl[m][k]

AsOf(m, k, at) ==
    LET h == HistoryOf(m, k)
        i == IndexAsOf(h, at)
    IN  IF Expired(m, k) \/ i = 0 THEN Absent ELSE h[i].val

(***************************************************************************)
(* The histories are in order.  They may not be after a walk; what the     *)
(* bisection of such a list finds is left out, with the calls that need it.*)
(***************************************************************************)
Searchable(m) == \A k \in DOMAIN store[m] : Ordered(store[m][k])

(***************************************************************************)
(* Whether a key differs at a moment, by its values and by what diff()     *)
(* goes by: whether it has expired comes before the values.  A get()       *)
(* answers for any moment since its call.                                  *)
(***************************************************************************)
Difference(k, at) ==
    LET values == AsOf("self", k, at) # AsOf("other", k, at)
    IN  [values |-> values, flagged |-> values \/ Expired("self", k) # Expired("other", k)]

Diffing == pc \in {"keys", "checked", "either", "again", "both", "got", "judged"}

Walking == pc \in {"walk", "versions", "walked", "returned"}

(***************************************************************************)
(* What the call could see from the outside since it began.                *)
(***************************************************************************)
Observe ==
    /\ verdicts' = [k \in IF Diffing' THEN Keys ELSE {} |->
          (IF Diffing THEN verdicts[k] ELSE {}) \cup {Difference(k, at)' : at \in local'.since .. now'}]
    /\ histories' = [k \in IF Walking' THEN Keys ELSE {} |->
          (IF Walking THEN histories[k] ELSE {}) \cup {HistoryOf("other", k)'}]
    /\ unsteady' = IF Diffing /\ Diffing'
                   THEN unsteady \cup {k \in Keys : \/ ~Expired("self", k) /\ Expired("self", k)'
                                                    \/ Expired("other", k) /\ ~Expired("other", k)'}
                   ELSE {}

-----------------------------------------------------------------------------

(***************************************************************************)
(* The writers.  put() takes its time before it has the lock: any until    *)
(* now.  It purges the key if it has expired, makes a list if there is     *)
(* none, and inserts.  Who walks through the list of a key that is removed *)
(* goes on with the list.                                                  *)
(***************************************************************************)
Count == writes < MaxWrites /\ writes' = writes + 1

Admit(w, m) ==
    IF m = "self" THEN Own!AdmitWriter(w) /\ UNCHANGED heldOther
    ELSE Their!AdmitWriter(w) /\ UNCHANGED held

Release(w, m) ==
    IF m = "self" THEN Own!Leave(w) /\ UNCHANGED heldOther
    ELSE Their!Leave(w) /\ UNCHANGED held

(***************************************************************************)
(* The lock is free, and is taken and left in one step.                    *)
(***************************************************************************)
Free(m) == \A t \in Threads : (IF m = "self" THEN held ELSE heldOther)[t] = << >>

Discard(m, k) ==
    /\ store' = [store EXCEPT ![m] = Without(@, {k})]
    /\ ttl' = [ttl EXCEPT ![m] = Without(@, {k})]
    /\ entries' = IF m = "self" THEN entries
                  ELSE [i \in DOMAIN entries |-> IF entries[i] = k THEN None ELSE entries[i]]
    /\ local' = IF m = "other" /\ pc = "versions" /\ local.key = k /\ local.list = None
                THEN [local EXCEPT !.list = store.other[k]] ELSE local

Purge(w, m, k, v, at, life) ==
    /\ put[w] = None
    /\ Count
    /\ Searchable(m) /\ at <= now
    /\ Admit(w, m)
    /\ put' = [put EXCEPT ![w] = [map |-> m, key |-> k, val |-> v, ts |-> at, life |-> life,
                                  at |-> "purged"]]
    /\ IF Expired(m, k) THEN Discard(m, k) ELSE UNCHANGED <<store, ttl, entries, local>>
    /\ UNCHANGED <<now, pc, shifted>>

(***************************************************************************)
(* A key that is new to other's dict comes last in it.  A dict that has no *)
(* room left is first laid out anew, without its gaps, and keys come to    *)
(* lie before the position of a walk that has not seen them.  When that is *)
(* depends on how large the dict was before: it may be at any insertion.   *)
(***************************************************************************)
Filled == {p \in DOMAIN entries : entries[p] # None}

Layouts(n) ==
    {f \in [1 .. n -> Filled] : /\ {f[i] : i \in 1 .. n} = Filled
                               /\ \A i, j \in 1 .. n : i < j => f[i] < f[j]}

Moved(f) == {entries[f[i]] : i \in {j \in DOMAIN f : j <= local.position /\ f[j] > local.position}}

AddKey(k) ==
    \/ entries' = Append(entries, k) /\ UNCHANGED shifted
    \/ \E n \in 0 .. Len(entries) :
          \E f \in Layouts(n) :
             /\ entries' = Append([i \in 1 .. n |-> entries[f[i]]], k)
             /\ shifted' = IF Walking THEN shifted \cup Moved(f) ELSE shifted

MakeList(w) ==
    /\ put[w] # None
    /\ put[w].at = "purged"
    /\ LET m == put[w].map
           k == put[w].key
       IN  /\ store' = [store EXCEPT ![m] = Updated(@, Single(k, HistoryOf(m, k)))]
           /\ IF m = "other" /\ k \notin DOMAIN store.other
              THEN AddKey(k) ELSE UNCHANGED <<entries, shifted>>
    /\ put' = [put EXCEPT ![w].at = "listed"]
    /\ UNCHANGED <<ttl, writes, now, held, heldOther, pc, local>>

Insert(w) ==
    /\ put[w] # None
    /\ put[w].at = "listed"
    /\ LET p == put[w]
       IN  /\ store' = [store EXCEPT ![p.map][p.key] = InsertVersion(@, [ts |-> p.ts, val |-> p.val])]
           /\ ttl' = IF p.life = None THEN ttl
                     ELSE [ttl EXCEPT ![p.map] = Updated(@, Single(p.key, now + p.life))]
           /\ Release(w, p.map)
    /\ put' = [put EXCEPT ![w] = None]
    /\ UNCHANGED <<entries, writes, now, pc, local, shifted>>

Delete(w, m, k) ==
    /\ put[w] = None
    /\ Count
    /\ Free(m)
    /\ k \in DOMAIN store[m]
    /\ Discard(m, k)
    /\ UNCHANGED <<now, held, heldOther, put, pc, shifted>>

(***************************************************************************)
(* prune_history(key, keep_last=1), which shortens the list in place.      *)
(***************************************************************************)
Prune(w, m, k) ==
    /\ put[w] = None
    /\ Count
    /\ Free(m)
    /\ Len(HistoryOf(m, k)) > 1
    /\ store' = [store EXCEPT ![m][k] = KeepLast(@, 1)]
    /\ shifted' = IF m = "other" /\ Walking THEN shifted \cup {k} ELSE shifted
    /\ UNCHANGED <<ttl, entries, now, held, heldOther, put, pc, local>>

Write(w) ==
    \/ \E m \in Maps, k \in Keys, v \in Values, at \in 0 .. MaxTime, life \in Lifetimes \cup {None} :
          Purge(w, m, k, v, at, life)
    \/ MakeList(w) \/ Insert(w)
    \/ \E m \in Maps, k \in Keys : Delete(w, m, k) \/ Prune(w, m, k)

-----------------------------------------------------------------------------

(***************************************************************************)
(* diff(): the keys of both maps, self's under its read lock, other's not. *)
(***************************************************************************)
Go(l) == pc' = l /\ UNCHANGED local

GoWith(l, c) == pc' = l /\ local' = c

AllKeys == DOMAIN store.self \cup DOMAIN store.other

DiffUnlocked ==   \* mutant: diff() does not take self's lock
    /\ pc = "idle" /\ Searchable("self")
    /\ GoWith("keys", [todo |-> AllKeys, key |-> None, own |-> None, differs |-> FALSE,
                       since |-> now])
    /\ held' = [held EXCEPT ![Caller] = Append(@, "R")]
    /\ UNCHANGED <<maps, now, heldOther, put, shifted>>

Diff ==
    /\ pc = "idle" /\ Searchable("self")
    /\ GoWith("keys", [todo |-> AllKeys, key |-> None, own |-> None, differs |-> FALSE,
                       since |-> now])
    /\ Own!AdmitReader(Caller)
    /\ UNCHANGED <<maps, now, heldOther, put, shifted>>

(***************************************************************************)
(* self._is_expired(key) or other._is_expired(key), and if so both again.  *)
(* (The two reads of _ttl in _is_expired are one step here.)               *)
(***************************************************************************)
CheckSelf ==
    /\ pc = "keys"
    /\ \E k \in local.todo :
          GoWith(IF Expired("self", k) THEN "either" ELSE "checked", [local EXCEPT !.key = k])

CheckOther ==
    /\ pc = "checked"
    /\ Go(IF Expired("other", local.key) THEN "either" ELSE "both")

AgainSelf ==
    /\ pc = "either"
    /\ GoWith("again", [local EXCEPT !.own = Expired("self", local.key)])

AgainOther ==
    /\ pc = "again"
    /\ GoWith("judged", [local EXCEPT !.differs = local.own # Expired("other", local.key)])

(***************************************************************************)
(* self.get(key), inside the lock that is held, then other.get(key), which *)
(* takes its time, looks at _ttl, waits for other's lock and looks again.  *)
(***************************************************************************)
GetSelf ==
    /\ pc = "both"
    /\ GoWith("got", [local EXCEPT !.own = [val |-> AsOf("self", local.key, now), ts |-> now]])

GetOther ==
    /\ pc = "got"
    /\ \/ /\ Expired("other", local.key)
          /\ GoWith("judged", [local EXCEPT !.differs = local.own.val # Absent])
       \/ /\ Free("other")
          /\ \E ts \in local.own.ts .. now :
                GoWith("judged", [local EXCEPT !.differs =
                                    local.own.val # AsOf("other", local.key, ts)])

NextInDiff ==
    /\ pc = "judged"
    /\ GoWith("keys", [local EXCEPT !.todo = @ \ {local.key}])

Compare ==
    /\ CheckSelf \/ CheckOther \/ AgainSelf \/ AgainOther \/ GetSelf \/ GetOther \/ NextInDiff
    /\ UNCHANGED <<maps, now, held, heldOther, put, shifted>>

DiffReturns ==
    /\ pc = "keys"
    /\ local.todo = {}
    /\ GoWith("idle", None)
    /\ Own!Leave(Caller)
    /\ UNCHANGED <<maps, now, heldOther, put, shifted>>

-----------------------------------------------------------------------------

(***************************************************************************)
(* merge(other) with either strategy and rollback(other) walk through      *)
(* other._store.items() and through each list, by position.  A dict tells  *)
(* at the next step that its size is not what it was, or that there are    *)
(* more keys than there were.  merge() inserts the versions as it comes to *)
(* them, deepcopy() copies them.                                           *)
(***************************************************************************)
Walk(op) ==
    /\ pc = "idle" /\ (op = "merge" => Searchable("self"))
    /\ LET size == Cardinality(DOMAIN store.other)
       IN  GoWith("walk", [op |-> op, position |-> 0, size |-> size, left |-> size, key |-> None,
                           list |-> None, i |-> 0, copy |-> << >>, copies |-> EmptyDict])
    /\ Own!AdmitWriter(Caller)
    /\ IF op = "merge" THEN Count ELSE UNCHANGED writes
    /\ shifted' = {}
    /\ UNCHANGED <<store, ttl, entries, now, heldOther, put>>

WalkedList == IF local.list = None THEN HistoryOf("other", local.key) ELSE local.list

AheadByCount ==   \* mutant: positions are taken for a count of keys
    {p \in DOMAIN entries : /\ p > local.position /\ p <= local.size
                            /\ entries[p] # None}

Ahead == {p \in DOMAIN entries : p > local.position /\ entries[p] # None}

Changed == \/ Cardinality(DOMAIN store.other) # local.size
           \/ Ahead # {} /\ local.left = 0

NextKey ==
    /\ pc = "walk"
    /\ ~Changed /\ Ahead # {}
    /\ LET p == Min(Ahead)
           k == entries[p]
       IN  /\ GoWith("versions", [local EXCEPT !.position = p, !.left = @ - 1, !.key = k,
                                     !.list = None, !.i = 0, !.copy = << >>])
           /\ store' = IF local.op # "merge" THEN store
                       ELSE [store EXCEPT !.self = Updated(@, Single(k, HistoryOf("self", k)))]
    /\ UNCHANGED <<ttl, entries, writes, now, held, heldOther, put, shifted>>

(***************************************************************************)
(* RuntimeError: the lock is left, what was merged stays.                  *)
(***************************************************************************)
WalkRaises ==
    /\ pc = "walk"
    /\ Changed
    /\ GoWith("idle", None)
    /\ Own!Leave(Caller)
    /\ shifted' = {}
    /\ UNCHANGED <<maps, now, heldOther, put>>

AppendTaken(v) ==   \* mutant: versions that are merged are appended
    IF local.op = "merge"
    THEN /\ store' = [store EXCEPT !.self[local.key] = Append(@, v)]
         /\ GoWith("versions", [local EXCEPT !.i = @ + 1])
    ELSE /\ GoWith("versions", [local EXCEPT !.i = @ + 1, !.copy = Append(@, v)])
         /\ UNCHANGED store

Take(v) ==
    IF local.op = "merge"
    THEN /\ store' = [store EXCEPT !.self[local.key] = InsertVersion(@, v)]
         /\ GoWith("versions", [local EXCEPT !.i = @ + 1])
    ELSE /\ GoWith("versions", [local EXCEPT !.i = @ + 1, !.copy = Append(@, v)])
         /\ UNCHANGED store

NextVersion ==
    /\ pc = "versions"
    /\ local.i < Len(WalkedList)
    /\ Take(WalkedList[local.i + 1])
    /\ UNCHANGED <<ttl, entries, writes, now, held, heldOther, put, shifted>>

(***************************************************************************)
(* The list is at its end: merge(strategy="overwrite") puts the copy in    *)
(* place, rollback() keeps it until it has all.                            *)
(***************************************************************************)
EndOfList ==
    /\ pc = "versions"
    /\ local.i >= Len(WalkedList)
    /\ GoWith("walk", [local EXCEPT !.copies =
                          IF local.op = "rollback" THEN Updated(@, Single(local.key, local.copy)) ELSE @])
    /\ store' = IF local.op # "overwrite" THEN store
                ELSE [store EXCEPT !.self = Updated(@, Single(local.key, local.copy))]
    /\ UNCHANGED <<ttl, entries, writes, now, held, heldOther, put, shifted>>

LaterExpiry(k) ==
    IF k \in DOMAIN ttl.self /\ (k \notin DOMAIN ttl.other \/ ttl.self[k] >= ttl.other[k])
    THEN ttl.self[k] ELSE ttl.other[k]

(***************************************************************************)
(* rollback() puts its copies in place.  Then come the times to live, with *)
(* a walk of their own, which is one step here.                            *)
(***************************************************************************)
EndOfWalk ==
    /\ pc = "walk"
    /\ ~Changed /\ Ahead = {}
    /\ Go("walked")
    /\ store' = IF local.op = "rollback" THEN [store EXCEPT !.self = local.copies] ELSE store
    /\ UNCHANGED <<ttl, entries, writes, now, held, heldOther, put, shifted>>

MergedTtl ==
    CASE local.op = "merge" -> [k \in DOMAIN ttl.self \cup DOMAIN ttl.other |-> LaterExpiry(k)]
      [] local.op = "overwrite" -> Updated(ttl.self, ttl.other)
      [] local.op = "rollback" -> ttl.other

TakeTtl ==
    /\ pc = "walked"
    /\ Go("returned")
    /\ ttl' = [ttl EXCEPT !.self = MergedTtl]
    /\ UNCHANGED <<store, entries, writes, now, held, heldOther, put, shifted>>

WalkReturns ==
    /\ pc = "returned"
    /\ GoWith("idle", None)
    /\ Own!Leave(Caller)
    /\ shifted' = {}
    /\ UNCHANGED <<maps, now, heldOther, put>>

-----------------------------------------------------------------------------

Tick ==
    /\ now < MaxTime
    /\ now' = now + 1
    /\ UNCHANGED <<maps, held, heldOther, put, pc, local, shifted>>

Call ==
    \/ Diff \/ Compare \/ DiffReturns
    \/ \E op \in {"merge", "overwrite", "rollback"} : Walk(op)
    \/ NextKey \/ NextVersion \/ EndOfList \/ EndOfWalk \/ TakeTtl \/ WalkRaises \/ WalkReturns

Next ==
    /\ Tick \/ Call \/ \E w \in Writers : Write(w)
    /\ Observe

Spec == Init /\ [][Next]_vars

-----------------------------------------------------------------------------

(***************************************************************************)
(* README.md: "Thread-safe, time-versioned key-value store."  Histories    *)
(* are in the order in which get() can search them.                        *)
(***************************************************************************)
InOrder == \A m \in Maps : Searchable(m)

(***************************************************************************)
(* merge(strategy="timestamp") keeps self's histories in order, whatever   *)
(* becomes of the list that it walks.  (deepcopy() does not.)              *)
(***************************************************************************)
MergeKeepsOrder ==
    Walking /\ local.op = "merge" => InOrder

(***************************************************************************)
(* diff(): "Keys whose current value differs between self and other."      *)
(* Whether a key is among them was so at some moment of the call.          *)
(***************************************************************************)
DiffIsTrue == pc = "judged" => \E d \in verdicts[local.key] : d.values = local.differs

(***************************************************************************)
(* Whatever is written to other meanwhile, a difference that diff() tells  *)
(* was there at some moment of the call, at least in that one key had      *)
(* expired, and a key that it passes over had the same value in both;      *)
(* unless self's key expired during the call, or a put() brought back one  *)
(* of other's that had.                                                    *)
(***************************************************************************)
SteadyDiffIsTrue ==
    pc = "judged" /\ local.key \notin unsteady
       => \E d \in verdicts[local.key] : IF local.differs THEN d.flagged ELSE ~d.values

(***************************************************************************)
(* merge(): "Merge another ChronoMap into this one."  A walk that comes to *)
(* its end has missed no version that other had all the while, unless      *)
(* prune_history() shortened the list, or a new key made the dict close    *)
(* its gaps and move the key to where the walk had been (shifted).         *)
(***************************************************************************)
WalkMissesNothing ==
    pc = "returned" =>
       \A k \in Keys \ shifted :
          \A v \in ToSet(HistoryOf("other", k)) :
             (\A h \in histories[k] : v \in ToSet(h)) => v \in ToSet(HistoryOf("self", k))
=============================================================================
