------------------------- MODULE CheckpointsProofs --------------------------
(***************************************************************************)
(* Proofs about Checkpoints for any number of threads, snapshots, nested   *)
(* contexts, batches and keys, and any set of values that cannot be        *)
(* serialized.                                                             *)
(***************************************************************************)
EXTENDS Checkpoints, FiniteSetTheorems, SequenceTheorems, TLAPS

(***************************************************************************)
(* The references: the map has its store for itself, every other store in  *)
(* use is a snapshot's, and holds what the snapshot was taken of.          *)
(***************************************************************************)
Versions == UNION Batches

Context == [snap : Stores, wrote : SUBSET Versions]

Layout ==
    /\ live \in Stores /\ kept \subseteq Stores
    /\ contexts \in [Threads -> Seq(Context)]
    /\ Cardinality(Snapshots) <= MaxSnapshots
    /\ live \notin Snapshots
    /\ DOMAIN heap = {live} \cup Snapshots
    /\ DOMAIN taken = Snapshots
    /\ SnapshotsAreFrozen

(***************************************************************************)
(* The save in progress and the file.                                      *)
(***************************************************************************)
Filed ==
    /\ file = [state |-> file.state, format |-> file.format, image |-> file.image]
    /\ saving # None =>
          saving = [by |-> saving.by, format |-> saving.format,
                    image |-> saving.image, opened |-> saving.opened]

(***************************************************************************)
(* The put_many() in progress is of a batch that counts as used.           *)
(***************************************************************************)
Call == [by : Threads, batch : Batches, todo : SUBSET Versions]

Calling ==
    /\ used \subseteq Batches /\ recent \subseteq used
    /\ writing # None => /\ writing \in Call
                         /\ writing.batch \in used
                         /\ writing.todo \subseteq writing.batch

(***************************************************************************)
(* Everything but the map itself: what the snapshots hold, what is at the  *)
(* path and what is about to be written there.                             *)
(***************************************************************************)
Elsewhere == Copies \cup (IF saving = None THEN {} ELSE {saving.image})

(***************************************************************************)
(* Every version comes from a batch that was put, as it was put or with    *)
(* the text that JSON made of its key.                                     *)
(***************************************************************************)
Known(v) ==
    /\ v.key \in DOMAIN Texts
    /\ \E w \in UNION used : w.val = v.val

Origins ==
    /\ \A image \in Elsewhere \cup {Map} : \A v \in image : Known(v)
    /\ undone \subseteq UNION used
    /\ \A t \in Threads : \A i \in DOMAIN contexts[t] : contexts[t][i].wrote \subseteq UNION used

(***************************************************************************)
(* A batch is in each copy or not at all, and so it is in the map unless   *)
(* it is being put; then no copy has any of it yet.                        *)
(***************************************************************************)
Whole(b, image) == b \subseteq image \/ b \cap image = {}

Batched ==
    /\ writing # None => /\ \A image \in Elsewhere : writing.batch \cap image = {}
                         /\ writing.batch \ writing.todo \subseteq Map
    /\ \A b \in recent \ broken :
          /\ \A image \in Elsewhere : Whole(b, image)
          /\ Whole(b, Map) \/ (writing # None /\ writing.batch = b)

(***************************************************************************)
(* The snapshot of a context has nothing of what was written in it or in   *)
(* those it encloses, and, as long as one thread at a time has contexts,   *)
(* nothing of what was undone.                                             *)
(***************************************************************************)
Nested ==
    \A t \in Threads : \A i, j \in DOMAIN contexts[t] :
       i <= j => heap[contexts[t][i].snap] \cap contexts[t][j].wrote = {}

Undone ==
    /\ writing # None => writing.batch \cap undone = {}
    /\ ~overlapped =>
          /\ \A t, u \in Threads : contexts[t] # << >> /\ contexts[u] # << >> => t = u
          /\ Map \cap undone = {}
          /\ \A t \in Threads : \A i \in DOMAIN contexts[t] :
                heap[contexts[t][i].snap] \cap undone = {}

(***************************************************************************)
(* A save that packs has nothing in hand that cannot be serialized, and an *)
(* open file is of the save that opened it.                                *)
(***************************************************************************)
Streams ==
    /\ OnlyStreamsFailHalfway
    /\ saving # None =>
          /\ Packed(saving.format) => saving.image \cap Opaque = {}
          /\ saving.opened => file.format = saving.format

Inv == Layout /\ Filed /\ Calling /\ Origins /\ Batched /\ Nested /\ Undone

-----------------------------------------------------------------------------

LEMMA WhatSnapshotsAre ==
    /\ \A s : s \in Snapshots <=>
                 s \in kept \/ \E t \in Threads : \E i \in DOMAIN contexts[t] : contexts[t][i].snap = s
    /\ \A s : s \in Snapshots' <=>
                 s \in kept' \/ \E t \in Threads : \E i \in DOMAIN contexts'[t] : contexts'[t][i].snap = s
  BY DEF Snapshots

LEMMA ContextsAreTyped ==
    ASSUME Layout, NEW t \in Threads
    PROVE  /\ contexts[t] \in Seq(Context)
           /\ DOMAIN contexts[t] = 1 .. Len(contexts[t]) /\ Len(contexts[t]) \in Nat
           /\ \A i \in DOMAIN contexts[t] :
                 /\ contexts[t][i] \in Context
                 /\ contexts[t][i].snap \in Stores \cap Snapshots
                 /\ contexts[t][i].wrote \subseteq Versions
  <1>1. contexts[t] \in Seq(Context)
    BY DEF Layout
  <1>2. \A i \in DOMAIN contexts[t] : contexts[t][i] \in Context
    BY <1>1
  <1> QED
    BY <1>1, <1>2, WhatSnapshotsAre DEF Context

LEMMA SnapshotsAreStores ==
    ASSUME Layout
    PROVE  /\ Snapshots \subseteq Stores
           /\ IsFiniteSet(Snapshots) /\ Cardinality(Snapshots) \in Nat
           /\ DOMAIN heap \subseteq Stores
  <1>1. Snapshots \subseteq Stores
    BY ContextsAreTyped, WhatSnapshotsAre DEF Layout
  <1>2. IsFiniteSet(Stores)
    BY FS_Interval, CheckpointsAssumption DEF Stores
  <1>3. IsFiniteSet(Snapshots) /\ Cardinality(Snapshots) \in Nat
    BY <1>1, <1>2, FS_Subset, FS_CardinalityType
  <1> QED
    BY <1>1, <1>3 DEF Layout

(***************************************************************************)
(* A store is free: there is one more than the map and the snapshots need. *)
(***************************************************************************)
LEMMA FreshIsFree ==
    ASSUME Layout
    PROVE  Fresh \in Stores /\ Fresh \notin DOMAIN heap
  <1>1. \E r \in Stores : r \notin DOMAIN heap
    <2> SUFFICES ASSUME Stores \subseteq DOMAIN heap PROVE FALSE
      OBVIOUS
    <2>1. IsFiniteSet(Snapshots) /\ Cardinality(Snapshots) \in Nat
      BY SnapshotsAreStores
    <2>2. /\ IsFiniteSet(Snapshots \cup {live})
          /\ Cardinality(Snapshots \cup {live}) = Cardinality(Snapshots) + 1
      BY <2>1, FS_AddElement DEF Layout
    <2>3. Stores \subseteq Snapshots \cup {live}
      BY DEF Layout
    <2>4. Cardinality(Stores) <= Cardinality(Snapshots) + 1
      BY <2>2, <2>3, FS_Subset
    <2>5. Cardinality(Stores) = MaxSnapshots + 2
      BY FS_Interval, CheckpointsAssumption DEF Stores
    <2> QED
      BY <2>1, <2>4, <2>5, CheckpointsAssumption DEF Layout
  <1> QED
    BY <1>1 DEF Fresh

(***************************************************************************)
(* put() and put_many() change the map's store and nothing else.           *)
(***************************************************************************)
LEMMA WriteWritesToMap ==
    ASSUME Layout, NEW t \in Threads, NEW b \in Batches, NEW todo \in SUBSET b,
           Write(t, b, todo), UNCHANGED <<live, kept, taken>>
    PROVE  \E v \in todo :
              /\ Map' = Map \cup {v}
              /\ \A s \in Snapshots : heap'[s] = heap[s]
              /\ DOMAIN heap' = DOMAIN heap
              /\ Snapshots' = Snapshots
              /\ contexts' \in [Threads -> Seq(Context)]
              /\ \A u \in Threads :
                    /\ DOMAIN contexts'[u] = DOMAIN contexts[u]
                    /\ contexts'[u] = << >> <=> contexts[u] = << >>
                    /\ \A i \in DOMAIN contexts[u] :
                          /\ contexts'[u][i].snap = contexts[u][i].snap
                          /\ contexts'[u][i].wrote \subseteq contexts[u][i].wrote \cup {v}
              /\ writing' = IF todo = {v} THEN None
                            ELSE [by |-> t, batch |-> b, todo |-> todo \ {v}]
  <1>1. PICK v \in todo :
           /\ heap' = [heap EXCEPT ![live] = @ \cup {v}]
           /\ writing' = IF todo = {v} THEN None
                         ELSE [by |-> t, batch |-> b, todo |-> todo \ {v}]
           /\ contexts' = IF contexts[t] = << >> THEN contexts
                          ELSE [contexts EXCEPT ![t][Len(contexts[t])].wrote = @ \cup {v}]
    BY DEF Write
  <1>2. /\ Map' = Map \cup {v} /\ DOMAIN heap' = DOMAIN heap
        /\ \A s \in Snapshots : heap'[s] = heap[s]
    BY <1>1 DEF Map, Layout
  <1>3. v \in Versions
    BY DEF Versions
  <1>4. /\ contexts' \in [Threads -> Seq(Context)]
        /\ \A u \in Threads :
              /\ DOMAIN contexts'[u] = DOMAIN contexts[u]
              /\ contexts'[u] = << >> <=> contexts[u] = << >>
              /\ \A i \in DOMAIN contexts[u] :
                    /\ contexts'[u][i].snap = contexts[u][i].snap
                    /\ contexts'[u][i].wrote \subseteq contexts[u][i].wrote \cup {v}
    <2>1. CASE contexts[t] = << >>
      BY <1>1, <2>1 DEF Layout
    <2>2. CASE contexts[t] # << >>
      <3>1. PICK c, n, e : /\ c = contexts[t] /\ n = Len(contexts[t])
                           /\ e = [contexts[t][n] EXCEPT !.wrote = @ \cup {v}]
        OBVIOUS
      <3>2. c \in Seq(Context) /\ n \in 1 .. Len(c) /\ c[n] \in Context
        BY <2>2, <3>1 DEF Layout
      <3>3. e \in Context /\ e.snap = c[n].snap /\ e.wrote \subseteq c[n].wrote \cup {v}
        BY <1>3, <3>1, <3>2 DEF Context
      <3>4. contexts' = [contexts EXCEPT ![t] = [c EXCEPT ![n] = e]]
        BY <1>1, <2>2, <3>1
      <3>5. PICK d : d = [c EXCEPT ![n] = e]
        OBVIOUS
      <3>6. /\ d \in Seq(Context) /\ Len(d) = Len(c)
            /\ \A i \in 1 .. Len(c) : d[i] = IF i = n THEN e ELSE c[i]
        BY <3>2, <3>3, <3>5, ExceptSeq
      <3>7. DOMAIN d = DOMAIN c /\ d # << >> /\ c # << >>
        BY <3>2, <3>6
      <3>8. \A i \in DOMAIN c : /\ d[i].snap = c[i].snap
                                /\ d[i].wrote \subseteq c[i].wrote \cup {v}
        BY <3>2, <3>3, <3>6
      <3>9. contexts' = [contexts EXCEPT ![t] = d]
        BY <3>4, <3>5
      <3> QED
        BY <3>1, <3>6, <3>7, <3>8, <3>9 DEF Layout
    <2> QED
      BY <2>1, <2>2
  <1>5. Snapshots' = Snapshots
    <2>1. kept' = kept
      OBVIOUS
    <2>2. \A s : (\E u \in Threads : \E i \in DOMAIN contexts[u] : contexts[u][i].snap = s)
            <=> (\E u \in Threads : \E i \in DOMAIN contexts'[u] : contexts'[u][i].snap = s)
      <3>1. \A u \in Threads :
               /\ DOMAIN contexts'[u] = DOMAIN contexts[u]
               /\ \A i \in DOMAIN contexts[u] : contexts'[u][i].snap = contexts[u][i].snap
        BY <1>4
      <3>2. ASSUME NEW s
            PROVE  (\E u \in Threads : \E i \in DOMAIN contexts[u] : contexts[u][i].snap = s)
                     <=> (\E u \in Threads : \E i \in DOMAIN contexts'[u] : contexts'[u][i].snap = s)
        BY <3>1, Zenon
      <3> QED
        BY <3>2, Zenon
    <2>3. \A s : s \in Snapshots' <=> s \in Snapshots
      BY <2>1, <2>2, WhatSnapshotsAre
    <2> QED
      BY <2>3
  <1> QED
    BY <1>1, <1>2, <1>4, <1>5

(***************************************************************************)
(* snapshot() copies the map's store into one of its own.                  *)
(***************************************************************************)
LEMMA SnapshotCopies ==
    ASSUME Layout, Snapshot, kept' \subseteq Stores, contexts' \in [Threads -> Seq(Context)],
           Snapshots' = Snapshots \cup {Fresh}
    PROVE  /\ Layout'
           /\ Map' = Map
           /\ \A s \in Snapshots' : heap'[s] = IF s \in Snapshots THEN heap[s] ELSE Map
  <1>1. PICK r : r = Fresh
    OBVIOUS
  <1>2. /\ Cardinality(Snapshots) < MaxSnapshots
        /\ heap' = Updated(heap, Single(r, Map)) /\ taken' = Updated(taken, Single(r, Map))
        /\ live' = live
    BY <1>1 DEF Snapshot, SnapshotStore
  <1>3. r \in Stores /\ r \notin DOMAIN heap /\ r # live /\ r \notin Snapshots
    BY <1>1, FreshIsFree DEF Layout
  <1>4. /\ DOMAIN heap' = {live} \cup Snapshots \cup {r} /\ heap'[r] = Map
        /\ \A q \in DOMAIN heap : heap'[q] = heap[q]
    BY <1>2, <1>3 DEF Updated, Single, Layout
  <1>5. /\ DOMAIN taken' = Snapshots \cup {r} /\ taken'[r] = Map
        /\ \A q \in Snapshots : taken'[q] = taken[q]
    BY <1>2, <1>3 DEF Updated, Single, Layout
  <1>6. Cardinality(Snapshots') <= MaxSnapshots
    <2>1. IsFiniteSet(Snapshots) /\ Cardinality(Snapshots) \in Nat
      BY SnapshotsAreStores
    <2>2. Cardinality(Snapshots \cup {r}) = Cardinality(Snapshots) + 1
      BY <1>3, <2>1, FS_AddElement
    <2> QED
      BY <1>1, <1>2, <2>1, <2>2, CheckpointsAssumption
  <1>7. \A s \in Snapshots' : heap'[s] = taken'[s]
    BY <1>1, <1>4, <1>5 DEF Layout, SnapshotsAreFrozen
  <1>8. Layout'
    BY <1>1, <1>2, <1>3, <1>4, <1>5, <1>6, <1>7 DEF Layout, SnapshotsAreFrozen
  <1> QED
    BY <1>1, <1>2, <1>3, <1>4, <1>8 DEF Map, Layout

LEMMA FewerSnapshots ==
    ASSUME Layout, Snapshots' \subseteq Snapshots
    PROVE  Cardinality(Snapshots') <= MaxSnapshots
  <1>1. IsFiniteSet(Snapshots) /\ Cardinality(Snapshots) \in Nat
    BY SnapshotsAreStores
  <1>2. /\ IsFiniteSet(Snapshots') /\ Cardinality(Snapshots') \in Nat
        /\ Cardinality(Snapshots') <= Cardinality(Snapshots)
    BY <1>1, FS_Subset, FS_CardinalityType
  <1> QED
    BY <1>1, <1>2, CheckpointsAssumption DEF Layout

(***************************************************************************)
(* rollback() gives the map a copy of the snapshot, which stays as it is.  *)
(***************************************************************************)
LEMMA RollbackCopies ==
    ASSUME Layout, NEW s \in Snapshots, Rollback(s), Snapshots' \subseteq Snapshots,
           kept' \subseteq Stores, contexts' \in [Threads -> Seq(Context)]
    PROVE  /\ Layout'
           /\ Map' = heap[s]
           /\ \A q \in Snapshots' : heap'[q] = heap[q]
  <1>1. PICK r : r = Fresh
    OBVIOUS
  <1>2. /\ live' = r
        /\ heap' = Restrict(Updated(heap, Single(r, heap[s])), {r} \cup Snapshots')
        /\ taken' = Restrict(taken, Snapshots')
    BY <1>1 DEF Rollback, RolledBackTo, Collected
  <1>3. r \in Stores /\ r \notin DOMAIN heap /\ r \notin Snapshots
    BY <1>1, FreshIsFree DEF Layout
  <1>4. /\ DOMAIN heap' = {r} \cup Snapshots' /\ heap'[r] = heap[s]
        /\ \A q \in Snapshots' : heap'[q] = heap[q]
    BY <1>2, <1>3 DEF Updated, Single, Restrict, Layout
  <1>5. DOMAIN taken' = Snapshots' /\ \A q \in Snapshots' : taken'[q] = taken[q]
    BY <1>2 DEF Restrict, Layout
  <1>6. \A q \in Snapshots' : heap'[q] = taken'[q]
    BY <1>4, <1>5 DEF Layout, SnapshotsAreFrozen
  <1>7. Layout'
    BY <1>2, <1>3, <1>4, <1>5, <1>6, FewerSnapshots DEF Layout, SnapshotsAreFrozen
  <1> QED
    BY <1>2, <1>4, <1>7 DEF Map

LEMMA DroppingCollects ==
    ASSUME Layout, live' = live, Collected(heap), Snapshots' \subseteq Snapshots,
           kept' \subseteq Stores, contexts' \in [Threads -> Seq(Context)]
    PROVE  /\ Layout'
           /\ Map' = Map
           /\ \A q \in Snapshots' : heap'[q] = heap[q]
  <1>1. /\ heap' = Restrict(heap, {live} \cup Snapshots')
        /\ taken' = Restrict(taken, Snapshots')
    BY DEF Collected
  <1>2. /\ DOMAIN heap' = {live} \cup Snapshots' /\ heap'[live] = heap[live]
        /\ \A q \in Snapshots' : heap'[q] = heap[q]
    BY <1>1 DEF Restrict, Layout
  <1>3. DOMAIN taken' = Snapshots' /\ \A q \in Snapshots' : taken'[q] = taken[q]
    BY <1>1 DEF Restrict, Layout
  <1>4. \A q \in Snapshots' : heap'[q] = taken'[q]
    BY <1>2, <1>3 DEF Layout, SnapshotsAreFrozen
  <1>5. Layout'
    BY <1>2, <1>3, <1>4, FewerSnapshots DEF Layout, SnapshotsAreFrozen
  <1> QED
    BY <1>2, <1>5 DEF Map

LEMMA ElsewhereKeepsLayout ==
    ASSUME Layout, UNCHANGED <<heap, live, kept, contexts, taken>>
    PROVE  /\ Layout'
           /\ Map' = Map
           /\ Snapshots' = Snapshots
           /\ \A q \in Snapshots' : heap'[q] = heap[q]
  <1>1. Snapshots' = Snapshots
    BY DEF Snapshots
  <1> QED
    BY <1>1 DEF Layout, SnapshotsAreFrozen, Map

LEMMA MemoryIsLaidOut ==
    ASSUME NEW content, Memory(content)
    PROVE  Layout' /\ Map' = content /\ Snapshots' = {}
  <1>1. /\ live' = 1 /\ heap' = Single(1, content) /\ kept' = {} /\ taken' = EmptyDict
        /\ contexts' = [t \in Threads |-> << >>]
    BY DEF Memory, NoContexts
  <1>2. Snapshots' = {}
    BY <1>1, WhatSnapshotsAre
  <1>3. Cardinality(Snapshots') <= MaxSnapshots
    BY <1>2, FS_EmptySet, CheckpointsAssumption
  <1>4. contexts' \in [Threads -> Seq(Context)]
    BY <1>1
  <1>5. live' \in Stores
    BY <1>1, CheckpointsAssumption DEF Stores
  <1> QED
    BY <1>1, <1>2, <1>3, <1>4, <1>5 DEF Layout, SnapshotsAreFrozen, Map, Single, EmptyDict

-----------------------------------------------------------------------------

(***************************************************************************)
(* A thread's contexts as it enters another and as it leaves the last.     *)
(***************************************************************************)
LEMMA EnterAppends ==
    ASSUME Layout, NEW t \in Threads, Enter(t)
    PROVE  /\ contexts' \in [Threads -> Seq(Context)]
           /\ \A u \in Threads \ {t} : contexts'[u] = contexts[u]
           /\ DOMAIN contexts'[t] = 1 .. Len(contexts[t]) + 1
           /\ \A i \in DOMAIN contexts[t] : contexts'[t][i] = contexts[t][i]
           /\ contexts'[t][Len(contexts[t]) + 1] = [snap |-> Fresh, wrote |-> {}]
           /\ Snapshots' = Snapshots \cup {Fresh}
  <1>1. PICK c, e, d : c = contexts[t] /\ e = [snap |-> Fresh, wrote |-> {}] /\ d = Append(c, e)
    OBVIOUS
  <1>2. contexts' = [contexts EXCEPT ![t] = d] /\ kept' = kept
    BY <1>1 DEF Enter, SnapshotStore
  <1>3. c \in Seq(Context) /\ e \in Context
    BY <1>1, FreshIsFree DEF Layout, Context
  <1>4. /\ d \in Seq(Context) /\ Len(d) = Len(c) + 1 /\ d[Len(c) + 1] = e
        /\ \A i \in 1 .. Len(c) : d[i] = c[i]
    <2>1. /\ Append(c, e) \in Seq(Context) /\ Len(Append(c, e)) = Len(c) + 1
          /\ \A i \in 1 .. Len(c) : Append(c, e)[i] = c[i]
          /\ Append(c, e)[Len(c) + 1] = e
      BY <1>3, AppendProperties
    <2> QED
      BY <1>1, <2>1
  <1>5. /\ contexts' \in [Threads -> Seq(Context)]
        /\ \A u \in Threads \ {t} : contexts'[u] = contexts[u]
        /\ contexts'[t] = d
    BY <1>2, <1>4 DEF Layout
  <1>6. /\ DOMAIN d = 1 .. Len(c) + 1 /\ DOMAIN c = 1 .. Len(c) /\ Len(c) \in Nat
        /\ \A i \in DOMAIN c : d[i] = c[i]
    BY <1>3, <1>4
  <1>7. Snapshots' = Snapshots \cup {Fresh}
    <2>1. \A s : (\E i \in DOMAIN d : d[i].snap = s)
              <=> ((\E i \in DOMAIN c : c[i].snap = s) \/ s = Fresh)
      BY <1>1, <1>4, <1>6
    <2>2. \A s : (\E u \in Threads : \E i \in DOMAIN contexts'[u] : contexts'[u][i].snap = s)
              <=> ((\E u \in Threads : \E i \in DOMAIN contexts[u] : contexts[u][i].snap = s)
                     \/ s = Fresh)
      <3>1. \A s, u : u \in Threads \ {t} =>
              ((\E i \in DOMAIN contexts'[u] : contexts'[u][i].snap = s)
                <=> (\E i \in DOMAIN contexts[u] : contexts[u][i].snap = s))
        BY <1>5
      <3>2. \A s : (\E i \in DOMAIN contexts'[t] : contexts'[t][i].snap = s)
              <=> ((\E i \in DOMAIN contexts[t] : contexts[t][i].snap = s) \/ s = Fresh)
        BY <1>1, <1>5, <2>1
      <3> DEFINE New(u, s) == \E i \in DOMAIN contexts'[u] : contexts'[u][i].snap = s
                 Old(u, s) == \E i \in DOMAIN contexts[u] : contexts[u][i].snap = s
      <3>3. /\ \A s, u : u \in Threads \ {t} => (New(u, s) <=> Old(u, s))
            /\ \A s : New(t, s) <=> Old(t, s) \/ s = Fresh
        BY <3>1, <3>2
      <3> HIDE DEF New, Old
      <3>4. \A s : (\E u \in Threads : New(u, s)) <=> ((\E u \in Threads : Old(u, s)) \/ s = Fresh)
        BY <3>3
      <3> QED
        BY <3>4 DEF New, Old
    <2>3. \A s : s \in Snapshots' <=> s \in Snapshots \cup {Fresh}
      BY <1>2, <2>2, WhatSnapshotsAre
    <2> QED
      BY <2>3
  <1> QED
    BY <1>1, <1>4, <1>5, <1>6, <1>7

LEMMA FrontIsShorter ==
    ASSUME NEW S, NEW c \in Seq(S), c # << >>
    PROVE  /\ Front(c) \in Seq(S) /\ Len(Front(c)) = Len(c) - 1
           /\ DOMAIN Front(c) = 1 .. Len(c) - 1
           /\ \A i \in 1 .. Len(c) - 1 : Front(c)[i] = c[i]
           /\ Len(c) \in Nat \ {0} /\ DOMAIN c = 1 .. Len(c) /\ Last(c) = c[Len(c)]
  <1>1. PICK n, d : n = Len(c) /\ d = SubSeq(c, 1, n - 1)
    OBVIOUS
  <1>2. n \in Nat \ {0} /\ DOMAIN c = 1 .. n /\ \A i \in 1 .. n - 1 : c[i] \in S
    BY <1>1
  <1>3. /\ d \in Seq(S) /\ Len(d) = IF 1 <= n - 1 THEN n - 1 - 1 + 1 ELSE 0
        /\ \A i \in 1 .. n - 1 - 1 + 1 : d[i] = c[1 + i - 1]
    BY <1>1, <1>2, SubSeqProperties
  <1>4. Len(d) = n - 1
    BY <1>2, <1>3
  <1>5. \A i \in 1 .. n - 1 : d[i] = c[i]
    BY <1>2, <1>3
  <1>6. DOMAIN d = 1 .. n - 1
    BY <1>3, <1>4
  <1> QED
    BY <1>1, <1>2, <1>3, <1>4, <1>5, <1>6 DEF Front, Last

LEMMA LeavingPops ==
    ASSUME Layout, NEW t \in Threads, contexts[t] # << >>,
           NEW d \in Seq(Context), contexts' = [contexts EXCEPT ![t] = d],
           DOMAIN d = 1 .. Len(contexts[t]) - 1, kept' = kept,
           \A i \in DOMAIN d : d[i].snap = contexts[t][i].snap
    PROVE  /\ contexts' \in [Threads -> Seq(Context)]
           /\ \A u \in Threads \ {t} : contexts'[u] = contexts[u]
           /\ contexts'[t] = d
           /\ DOMAIN d \subseteq DOMAIN contexts[t]
           /\ Snapshots' \subseteq Snapshots
  <1>1. /\ contexts' \in [Threads -> Seq(Context)]
        /\ \A u \in Threads \ {t} : contexts'[u] = contexts[u]
        /\ contexts'[t] = d
    BY DEF Layout
  <1>2. DOMAIN d \subseteq DOMAIN contexts[t]
    BY ContextsAreTyped
  <1>3. \A s : (\E u \in Threads : \E i \in DOMAIN contexts'[u] : contexts'[u][i].snap = s)
            => (\E u \in Threads : \E i \in DOMAIN contexts[u] : contexts[u][i].snap = s)
    <2>1. \A u \in Threads : \A i \in DOMAIN contexts'[u] :
             i \in DOMAIN contexts[u] /\ contexts'[u][i].snap = contexts[u][i].snap
      BY <1>1, <1>2
    <2> QED
      BY <2>1
  <1> QED
    BY <1>1, <1>2, <1>3, WhatSnapshotsAre

LEMMA ExitPops ==
    ASSUME Layout, NEW t \in Threads, Exit(t)
    PROVE  /\ contexts' \in [Threads -> Seq(Context)] /\ Snapshots' \subseteq Snapshots
           /\ \A u \in Threads \ {t} : contexts'[u] = contexts[u]
           /\ Len(contexts[t]) \in Nat \ {0} /\ DOMAIN contexts[t] = 1 .. Len(contexts[t])
           /\ DOMAIN contexts'[t] = 1 .. Len(contexts[t]) - 1
           /\ \A i \in 1 .. Len(contexts[t]) - 1 :
                 /\ contexts'[t][i].snap = contexts[t][i].snap
                 /\ contexts'[t][i].wrote \subseteq
                       contexts[t][i].wrote \cup (IF i = Len(contexts[t]) - 1
                                                  THEN contexts[t][Len(contexts[t])].wrote ELSE {})
  <1>1. PICK c, n, f : c = contexts[t] /\ n = Len(c) /\ f = Front(c)
    OBVIOUS
  <1>2. c \in Seq(Context) /\ c # << >>
    BY <1>1 DEF Exit, Layout
  <1>3. /\ f \in Seq(Context) /\ Len(f) = n - 1 /\ DOMAIN f = 1 .. n - 1
        /\ \A i \in 1 .. n - 1 : f[i] = c[i]
        /\ n \in Nat \ {0} /\ DOMAIN c = 1 .. n /\ Last(c) = c[n]
    BY <1>1, <1>2, FrontIsShorter
  <1>4. PICK e, d : /\ e = [f[n - 1] EXCEPT !.wrote = @ \cup c[n].wrote]
                    /\ d = IF f = << >> THEN f ELSE [f EXCEPT ![n - 1] = e]
    OBVIOUS
  <1>5. contexts' = [contexts EXCEPT ![t] = d] /\ kept' = kept
    BY <1>1, <1>3, <1>4 DEF Exit
  <1>6. /\ d \in Seq(Context) /\ DOMAIN d = 1 .. n - 1
        /\ \A i \in 1 .. n - 1 :
              /\ d[i].snap = c[i].snap
              /\ d[i].wrote \subseteq c[i].wrote \cup (IF i = n - 1 THEN c[n].wrote ELSE {})
    <2>1. CASE f = << >>
      BY <1>3, <1>4, <2>1
    <2>2. CASE f # << >>
      <3>1. n - 1 \in 1 .. Len(f) /\ f[n - 1] = c[n - 1] /\ c[n - 1] \in Context /\ c[n] \in Context
        BY <1>2, <1>3, <2>2
      <3>2. /\ e \in Context /\ e.snap = c[n - 1].snap
            /\ e.wrote = c[n - 1].wrote \cup c[n].wrote
        BY <1>4, <3>1 DEF Context
      <3>3. /\ d \in Seq(Context) /\ Len(d) = Len(f)
            /\ \A i \in 1 .. Len(f) : d[i] = IF i = n - 1 THEN e ELSE f[i]
        BY <1>3, <1>4, <2>2, <3>1, <3>2, ExceptSeq
      <3>4. DOMAIN d = 1 .. n - 1
        BY <1>3, <3>3
      <3> QED
        BY <1>3, <3>2, <3>3, <3>4
    <2> QED
      BY <2>1, <2>2
  <1>7. /\ contexts' \in [Threads -> Seq(Context)] /\ Snapshots' \subseteq Snapshots
        /\ \A u \in Threads \ {t} : contexts'[u] = contexts[u]
        /\ contexts'[t] = d
    <2>1. /\ contexts[t] # << >> /\ DOMAIN d = 1 .. Len(contexts[t]) - 1
          /\ \A i \in DOMAIN d : d[i].snap = contexts[t][i].snap
      BY <1>1, <1>2, <1>6
    <2> QED
      BY <1>5, <1>6, <2>1, LeavingPops
  <1> QED
    BY <1>1, <1>3, <1>6, <1>7

LEMMA ExitRaisingPops ==
    ASSUME Layout, NEW t \in Threads, ExitRaising(t)
    PROVE  /\ contexts' \in [Threads -> Seq(Context)] /\ Snapshots' \subseteq Snapshots
           /\ \A u \in Threads \ {t} : contexts'[u] = contexts[u]
           /\ Len(contexts[t]) \in DOMAIN contexts[t] /\ DOMAIN contexts[t] = 1 .. Len(contexts[t])
           /\ Last(contexts[t]) = contexts[t][Len(contexts[t])]
           /\ DOMAIN contexts'[t] = 1 .. Len(contexts[t]) - 1
           /\ \A i \in 1 .. Len(contexts[t]) - 1 : contexts'[t][i] = contexts[t][i]
  <1>1. PICK c, n, f : c = contexts[t] /\ n = Len(c) /\ f = Front(c)
    OBVIOUS
  <1>2. c \in Seq(Context) /\ c # << >> /\ contexts' = [contexts EXCEPT ![t] = f] /\ kept' = kept
    BY <1>1 DEF ExitRaising, Layout
  <1>3. /\ f \in Seq(Context) /\ DOMAIN f = 1 .. n - 1
        /\ \A i \in 1 .. n - 1 : f[i] = c[i]
        /\ n \in Nat \ {0} /\ DOMAIN c = 1 .. n /\ Last(c) = c[n]
    BY <1>1, <1>2, FrontIsShorter
  <1>4. /\ contexts' \in [Threads -> Seq(Context)] /\ Snapshots' \subseteq Snapshots
        /\ \A u \in Threads \ {t} : contexts'[u] = contexts[u]
        /\ contexts'[t] = f
    <2>1. /\ contexts[t] # << >> /\ DOMAIN f = 1 .. Len(contexts[t]) - 1
          /\ f \in Seq(Context) /\ contexts' = [contexts EXCEPT ![t] = f] /\ kept' = kept
      BY <1>1, <1>2, <1>3
    <2>2. \A i \in DOMAIN f : f[i].snap = contexts[t][i].snap
      BY <1>1, <1>3
    <2> QED
      BY <2>1, <2>2, LeavingPops, Zenon
  <1> QED
    BY <1>1, <1>3, <1>4

-----------------------------------------------------------------------------

LEMMA WhatIsElsewhere ==
    /\ \A image : image \in Elsewhere <=>
          \/ \E s \in Snapshots : image = heap[s]
          \/ image = file.image
          \/ saving # None /\ image = saving.image
    /\ \A image : image \in Elsewhere' <=>
          \/ \E s \in Snapshots' : image = heap'[s]
          \/ image = file'.image
          \/ saving' # None /\ image = saving'.image
  BY DEF Elsewhere, Copies

LEMMA NextKeepsFiled ==
    ASSUME Filed, [Next]_vars
    PROVE  Filed'
  <1>1. CASE UNCHANGED vars \/ UNCHANGED <<file, saving>>
    BY <1>1 DEF vars, Filed
  <1>2. CASE Open \/ WriteOut
    BY <1>2 DEF Open, WriteOut, Filed, Image
  <1>3. CASE Crash \/ Restart
    BY <1>3 DEF Crash, Restart, Memory, Filed
  <1>4. ASSUME NEW t \in Threads, Step(t) PROVE Filed'
    <2>1. CASE \E format \in Formats : Save(t, format)
      BY <2>1 DEF Save, Filed
    <2>2. CASE ~ \E format \in Formats : Save(t, format)
      <3>1. UNCHANGED <<file, saving>>
        BY <1>4, <2>2 DEF Step, Put, PutNext, PutRaises, TakeSnapshot, RollbackTo,
             DropSnapshot, Enter, Exit, ExitRaising
      <3> QED
        BY <1>1, <3>1
    <2> QED
      BY <2>1, <2>2
  <1> QED
    BY <1>1, <1>2, <1>3, <1>4 DEF Next

(***************************************************************************)
(* A step that only copies: what it leaves in the copies was in a copy or, *)
(* with nobody writing, in the map.                                        *)
(***************************************************************************)
Copying ==
    /\ \A image \in Elsewhere' : image \in Elsewhere \/ image = {} \/ (image = Map /\ writing = None)
    /\ Map' = Map \/ (Map' \in Elsewhere /\ writing = None)
    /\ used' = used /\ recent' = recent /\ broken \subseteq broken'
    /\ writing' = writing \/ (writing' = None /\ writing.batch \in broken')

(***************************************************************************)
(* Snapshots, rollbacks and contexts.                                      *)
(***************************************************************************)
LEMMA SnapshotsCopy ==
    ASSUME Layout', UNCHANGED <<file, saving, used, recent, broken, writing>>,
           \A s \in Snapshots' : \/ s \in Snapshots /\ heap'[s] = heap[s]
                                 \/ heap'[s] = Map /\ writing = None,
           Map' = Map \/ (Map' \in Elsewhere /\ writing = None)
    PROVE  Copying
  BY WhatIsElsewhere DEF Copying

LEMMA TakeSnapshotCopies ==
    ASSUME Layout, NEW t \in Threads, TakeSnapshot(t)
    PROVE  Layout' /\ Copying /\ writing' = None
  <1>1. /\ Snapshot /\ kept' = kept \cup {Fresh} /\ contexts' = contexts /\ writing = None
        /\ UNCHANGED <<file, saving, used, recent, broken, writing>>
    BY DEF TakeSnapshot, SnapshotStore, Idle, history
  <1>2. Snapshots' = Snapshots \cup {Fresh}
    BY <1>1, WhatSnapshotsAre
  <1>3. kept' \subseteq Stores /\ contexts' \in [Threads -> Seq(Context)]
    BY <1>1, FreshIsFree DEF Layout
  <1>4. /\ Layout' /\ Map' = Map
        /\ \A s \in Snapshots' : heap'[s] = IF s \in Snapshots THEN heap[s] ELSE Map
    BY <1>1, <1>2, <1>3, SnapshotCopies
  <1> QED
    BY <1>1, <1>4, SnapshotsCopy

LEMMA EnterCopies ==
    ASSUME Layout, NEW t \in Threads, Enter(t)
    PROVE  /\ Layout' /\ Copying /\ writing' = None /\ Map' = Map
           /\ \A s \in Snapshots' : heap'[s] = IF s \in Snapshots THEN heap[s] ELSE Map
  <1>1. /\ Snapshot /\ kept' = kept /\ writing = None
        /\ UNCHANGED <<file, saving, used, recent, broken, writing>>
    BY DEF Enter, Idle
  <1>2. /\ Snapshots' = Snapshots \cup {Fresh} /\ contexts' \in [Threads -> Seq(Context)]
        /\ kept' \subseteq Stores
    BY <1>1, EnterAppends DEF Layout
  <1>3. /\ Layout' /\ Map' = Map
        /\ \A s \in Snapshots' : heap'[s] = IF s \in Snapshots THEN heap[s] ELSE Map
    BY <1>1, <1>2, SnapshotCopies
  <1> QED
    BY <1>1, <1>3, SnapshotsCopy

LEMMA RollbackToCopies ==
    ASSUME Layout, NEW t \in Threads, NEW s \in kept, RollbackTo(t, s)
    PROVE  Layout' /\ Copying /\ writing' = None /\ \A q \in Snapshots' : heap'[q] = heap[q]
  <1>1. /\ Rollback(s) /\ kept' = kept /\ contexts' = contexts /\ writing = None
        /\ UNCHANGED <<file, saving, used, recent, broken, writing>>
    BY DEF RollbackTo, Idle
  <1>2. Snapshots' = Snapshots /\ s \in Snapshots
    BY <1>1, WhatSnapshotsAre DEF Snapshots
  <1>3. kept' \subseteq Stores /\ contexts' \in [Threads -> Seq(Context)]
    BY <1>1 DEF Layout
  <1>4. Layout' /\ Map' = heap[s] /\ \A q \in Snapshots' : heap'[q] = heap[q]
    BY <1>1, <1>2, <1>3, RollbackCopies
  <1> QED
    BY <1>1, <1>2, <1>4, SnapshotsCopy, WhatIsElsewhere

LEMMA DropSnapshotCopies ==
    ASSUME Layout, NEW t \in Threads, NEW s \in kept, DropSnapshot(t, s)
    PROVE  /\ Layout' /\ Copying /\ writing' = None /\ Map' = Map
           /\ \A q \in Snapshots' : heap'[q] = heap[q]
  <1>1. /\ Collected(heap) /\ kept' \subseteq kept /\ contexts' = contexts /\ live' = live
        /\ writing = None
        /\ UNCHANGED <<file, saving, used, recent, broken, writing>>
    BY DEF DropSnapshot, Idle, history
  <1>2. Snapshots' \subseteq Snapshots
    BY <1>1, WhatSnapshotsAre
  <1>3. kept' \subseteq Stores /\ contexts' \in [Threads -> Seq(Context)]
    BY <1>1 DEF Layout
  <1>4. Layout' /\ Map' = Map /\ \A q \in Snapshots' : heap'[q] = heap[q]
    BY <1>1, <1>2, <1>3, DroppingCollects
  <1> QED
    BY <1>1, <1>2, <1>4, SnapshotsCopy

LEMMA ExitCopies ==
    ASSUME Layout, NEW t \in Threads, Exit(t)
    PROVE  /\ Layout' /\ Copying /\ writing' = None /\ Map' = Map
           /\ \A q \in Snapshots' : heap'[q] = heap[q]
  <1>1. /\ Collected(heap) /\ kept' = kept /\ live' = live /\ writing = None
        /\ UNCHANGED <<file, saving, used, recent, broken, writing>>
    BY DEF Exit, Idle, history
  <1>2. /\ Snapshots' \subseteq Snapshots /\ contexts' \in [Threads -> Seq(Context)]
        /\ kept' \subseteq Stores
    BY <1>1, ExitPops DEF Layout
  <1>3. Layout' /\ Map' = Map /\ \A q \in Snapshots' : heap'[q] = heap[q]
    BY <1>1, <1>2, DroppingCollects
  <1> QED
    BY <1>1, <1>2, <1>3, SnapshotsCopy

LEMMA ExitRaisingCopies ==
    ASSUME Layout, NEW t \in Threads, ExitRaising(t)
    PROVE  /\ Layout' /\ Copying /\ writing' = None
           /\ Map' = heap[contexts[t][Len(contexts[t])].snap]
           /\ \A q \in Snapshots' : heap'[q] = heap[q]
  <1>1. PICK s : s = Last(contexts[t]).snap
    OBVIOUS
  <1>2. /\ Rollback(s) /\ kept' = kept /\ writing = None
        /\ UNCHANGED <<file, saving, used, recent, broken, writing>>
    BY <1>1 DEF ExitRaising, Idle
  <1>3. /\ Snapshots' \subseteq Snapshots /\ contexts' \in [Threads -> Seq(Context)]
        /\ kept' \subseteq Stores
    BY <1>2, ExitRaisingPops DEF Layout
  <1>4. s = contexts[t][Len(contexts[t])].snap /\ s \in Snapshots
    BY <1>1, ExitRaisingPops, ContextsAreTyped
  <1>5. Layout' /\ Map' = heap[s] /\ \A q \in Snapshots' : heap'[q] = heap[q]
    BY <1>2, <1>3, <1>4, RollbackCopies
  <1> QED
    BY <1>2, <1>3, <1>4, <1>5, SnapshotsCopy, WhatIsElsewhere

(***************************************************************************)
(* Saves, and a put_many() that raises.                                    *)
(***************************************************************************)
LEMMA SaveCopies ==
    ASSUME Layout, Filed, NEW t \in Threads, NEW format, Save(t, format)
    PROVE  Layout' /\ Copying /\ writing' = None /\ Map' = Map
  <1>1. /\ UNCHANGED <<heap, live, kept, contexts, taken, file, used, recent, broken, writing>>
        /\ writing = None /\ saving'.image = Map
    BY DEF Save, Idle, history
  <1>2. /\ Layout' /\ Map' = Map /\ Snapshots' = Snapshots
        /\ \A q \in Snapshots' : heap'[q] = heap[q]
    BY <1>1, ElsewhereKeepsLayout
  <1>3. \A image \in Elsewhere' : image \in Elsewhere \/ image = Map
    BY <1>1, <1>2, WhatIsElsewhere
  <1> QED
    BY <1>1, <1>2, <1>3 DEF Copying

LEMMA FileStepsCopy ==
    ASSUME Layout, Filed, Open \/ WriteOut
    PROVE  /\ Layout' /\ Copying /\ writing' = writing /\ Map' = Map /\ broken' = broken
           /\ \A q \in Snapshots' : heap'[q] = heap[q]
           /\ Snapshots' = Snapshots
  <1>1. UNCHANGED <<heap, live, kept, contexts, taken, used, recent, broken, writing>>
    BY DEF Open, WriteOut, history
  <1>2. /\ Layout' /\ Map' = Map /\ Snapshots' = Snapshots
        /\ \A q \in Snapshots' : heap'[q] = heap[q]
    BY <1>1, ElsewhereKeepsLayout
  <1>3. saving # None /\ (saving' # None => saving'.image = saving.image)
        /\ file'.image \in {{}, file.image, saving.image}
    <2>1. CASE Open
      BY <2>1 DEF Open, Filed
    <2>2. CASE WriteOut
      BY <2>2 DEF WriteOut, Image, Filed
    <2> QED
      BY <2>1, <2>2
  <1>4. \A image \in Elsewhere' : image \in Elsewhere \/ image = {}
    BY <1>2, <1>3, WhatIsElsewhere
  <1> QED
    BY <1>1, <1>2, <1>4 DEF Copying

LEMMA PutRaisesCopies ==
    ASSUME Layout, NEW t \in Threads, PutRaises(t)
    PROVE  Layout' /\ Copying /\ writing' = None /\ Map' = Map
           /\ \A q \in Snapshots' : heap'[q] = heap[q]
  <1>1. UNCHANGED <<heap, live, kept, contexts, taken, used, recent, file, saving>>
        /\ writing' = None /\ broken \subseteq broken' /\ writing.batch \in broken'
    BY DEF PutRaises
  <1>2. /\ Layout' /\ Map' = Map /\ Snapshots' = Snapshots
        /\ \A q \in Snapshots' : heap'[q] = heap[q]
    BY <1>1, ElsewhereKeepsLayout
  <1>3. \A image \in Elsewhere' : image \in Elsewhere
    BY <1>1, <1>2, WhatIsElsewhere
  <1> QED
    BY <1>1, <1>2, <1>3 DEF Copying

-----------------------------------------------------------------------------

(***************************************************************************)
(* put() and put_many() bring one version of a batch into the map: of one  *)
(* that nobody has put yet, or of the one in progress.                     *)
(***************************************************************************)
Putting(b, todo, v) ==
    /\ Map' = Map \cup {v}
    /\ Elsewhere' = Elsewhere
    /\ \A s \in Snapshots : heap'[s] = heap[s]
    /\ \A u \in Threads :
          /\ DOMAIN contexts'[u] = DOMAIN contexts[u]
          /\ contexts'[u] = << >> <=> contexts[u] = << >>
          /\ \A i \in DOMAIN contexts[u] :
                /\ contexts'[u][i].snap = contexts[u][i].snap
                /\ contexts'[u][i].wrote \subseteq contexts[u][i].wrote \cup {v}
    /\ \/ b \notin used /\ todo = b /\ writing = None /\ recent' = recent \cup {b}
       \/ writing # None /\ writing.batch = b /\ writing.todo = todo /\ recent' = recent
    /\ used' = used \cup {b}
    /\ UNCHANGED <<undone, overlapped, broken>>
    /\ IF todo = {v} THEN writing' = None
       ELSE writing' # None /\ writing' \in Call
            /\ writing'.batch = b /\ writing'.todo = todo \ {v}

LEMMA WritePuts ==
    ASSUME Layout, NEW t \in Threads, NEW b \in Batches, NEW todo \in SUBSET b,
           Write(t, b, todo),
           UNCHANGED <<live, kept, taken, file, saving, undone, overlapped, broken>>,
           used' = used \cup {b},
           \/ b \notin used /\ todo = b /\ writing = None /\ recent' = recent \cup {b}
           \/ writing # None /\ writing.batch = b /\ writing.todo = todo /\ recent' = recent
    PROVE  Layout' /\ \E v \in todo : Putting(b, todo, v)
  <1>1. PICK v \in todo :
           /\ Map' = Map \cup {v}
           /\ \A s \in Snapshots : heap'[s] = heap[s]
           /\ DOMAIN heap' = DOMAIN heap
           /\ Snapshots' = Snapshots
           /\ contexts' \in [Threads -> Seq(Context)]
           /\ \A u \in Threads :
                 /\ DOMAIN contexts'[u] = DOMAIN contexts[u]
                 /\ contexts'[u] = << >> <=> contexts[u] = << >>
                 /\ \A i \in DOMAIN contexts[u] :
                       /\ contexts'[u][i].snap = contexts[u][i].snap
                       /\ contexts'[u][i].wrote \subseteq contexts[u][i].wrote \cup {v}
           /\ writing' = IF todo = {v} THEN None
                         ELSE [by |-> t, batch |-> b, todo |-> todo \ {v}]
    BY WriteWritesToMap
  <1>2. Layout'
    BY <1>1 DEF Layout, SnapshotsAreFrozen
  <1>3. Elsewhere' = Elsewhere
    <2>1. \A image : image \in Elsewhere' <=> image \in Elsewhere
      BY <1>1, WhatIsElsewhere
    <2> QED
      BY <2>1
  <1>4. IF todo = {v} THEN writing' = None
        ELSE writing' # None /\ writing' \in Call
             /\ writing'.batch = b /\ writing'.todo = todo \ {v}
    <2>1. [by |-> t, batch |-> b, todo |-> todo \ {v}] \in Call
      BY DEF Call, Versions
    <2>2. None \notin Call
      BY CheckpointsAssumption DEF Call, Versions
    <2> QED
      BY <1>1, <2>1, <2>2
  <1>5. Putting(b, todo, v)
    BY <1>1, <1>3, <1>4 DEF Putting
  <1> QED
    BY <1>2, <1>5

LEMMA Puts ==
    ASSUME Layout, Calling, NEW t \in Threads,
           PutNext(t) \/ \E b \in Batches : Put(t, b)
    PROVE  /\ Layout'
           /\ \E b \in Batches : \E todo \in SUBSET b : \E v \in todo : Putting(b, todo, v)
  <1>1. CASE PutNext(t)
    <2>1. PICK b, todo : b = writing.batch /\ todo = writing.todo
      OBVIOUS
    <2>2. b \in Batches /\ todo \in SUBSET b /\ writing # None /\ b \in used
      BY <1>1, <2>1 DEF PutNext, Calling, Call
    <2>3. /\ Write(t, b, todo) /\ used' = used \cup {b}
          /\ UNCHANGED <<live, kept, taken, file, saving, undone, overlapped, broken, recent>>
      BY <1>1, <2>1, <2>2 DEF PutNext, history
    <2> QED
      BY <2>1, <2>2, <2>3, WritePuts
  <1>2. ASSUME NEW b \in Batches, Put(t, b)
        PROVE  Layout' /\ \E todo \in SUBSET b : \E v \in todo : Putting(b, todo, v)
    <2>1. /\ Write(t, b, b) /\ used' = used \cup {b} /\ b \notin used /\ writing = None
          /\ recent' = recent \cup {b} /\ b \in SUBSET b
          /\ UNCHANGED <<live, kept, taken, file, saving, undone, overlapped, broken>>
      BY <1>2 DEF Put, Idle
    <2> QED
      BY <2>1, WritePuts
  <1> QED
    BY <1>1, <1>2

(***************************************************************************)
(* The steps of a process that runs: it puts or it copies.                 *)
(***************************************************************************)
CopyingStep(t) ==
    \/ PutRaises(t) \/ TakeSnapshot(t)
    \/ \E s \in kept : RollbackTo(t, s) \/ DropSnapshot(t, s)
    \/ Enter(t) \/ Exit(t) \/ ExitRaising(t)
    \/ \E format \in Formats : Save(t, format)

LEMMA RunningCopies ==
    ASSUME Layout, Filed, Open \/ WriteOut \/ \E t \in Threads : CopyingStep(t)
    PROVE  Layout' /\ Copying
  <1>1. CASE Open \/ WriteOut
    BY <1>1, FileStepsCopy
  <1>2. ASSUME NEW t \in Threads, CopyingStep(t) PROVE Layout' /\ Copying
    BY <1>2, PutRaisesCopies, TakeSnapshotCopies, RollbackToCopies, DropSnapshotCopies,
       EnterCopies, ExitCopies, ExitRaisingCopies, SaveCopies DEF CopyingStep
  <1> QED
    BY <1>1, <1>2

(***************************************************************************)
(* What a process has in memory when it has died or begun.                 *)
(***************************************************************************)
Recovered ==
    \E content : Memory(content) /\ used' = used /\ file'.image = file.image
                 /\ (content = {} \/ content \in Loadable)

LEMMA CrashesRecover ==
    ASSUME Filed, Crash \/ Restart
    PROVE  Recovered
  <1>1. file'.image = file.image /\ used' = used
    BY DEF Crash, Restart, Filed
  <1>2. \E content : Memory(content) /\ (content = {} \/ content \in Loadable)
    BY DEF Crash, Restart
  <1> QED
    BY <1>1, <1>2 DEF Recovered

LEMMA NextMovesOn ==
    ASSUME Layout, Filed, Calling, [Next]_vars
    PROVE  /\ Layout'
           /\ \/ \E b \in Batches : \E todo \in SUBSET b : \E v \in todo : Putting(b, todo, v)
              \/ Copying
              \/ Recovered
  <1>1. CASE UNCHANGED vars
    <2>1. UNCHANGED <<heap, live, kept, contexts, taken, used, recent, broken, writing, file, saving>>
      BY <1>1 DEF vars, history
    <2>2. /\ Layout' /\ Map' = Map /\ Snapshots' = Snapshots
          /\ \A q \in Snapshots' : heap'[q] = heap[q]
      BY <2>1, ElsewhereKeepsLayout
    <2>3. Copying
      BY <2>1, <2>2, SnapshotsCopy
    <2> QED
      BY <2>2, <2>3
  <1>2. CASE Open \/ WriteOut
    BY <1>2, RunningCopies
  <1>3. CASE Crash \/ Restart
    <2>1. Recovered
      BY <1>3, CrashesRecover
    <2> QED
      BY <2>1, MemoryIsLaidOut DEF Recovered
  <1>4. ASSUME NEW t \in Threads, Step(t)
        PROVE  /\ Layout'
               /\ \/ \E b \in Batches : \E todo \in SUBSET b : \E v \in todo : Putting(b, todo, v)
                  \/ Copying
    <2>1. CASE PutNext(t) \/ \E b \in Batches : Put(t, b)
      BY <2>1, Puts
    <2>2. CASE CopyingStep(t)
      BY <2>2, RunningCopies
    <2> QED
      BY <1>4, <2>1, <2>2 DEF Step, CopyingStep
  <1> QED
    BY <1>1, <1>2, <1>3, <1>4 DEF Next

-----------------------------------------------------------------------------

LEMMA RecoveredMemory ==
    ASSUME Recovered
    PROVE  /\ writing' = None /\ recent' = {} /\ undone' = {} /\ used' = used
           /\ contexts' = [t \in Threads |-> << >>]
           /\ Elsewhere' = {file.image}
           /\ Map' = {} \/ Map' \in Loadable
  <1>1. PICK content : /\ Memory(content) /\ used' = used /\ file'.image = file.image
                       /\ content = {} \/ content \in Loadable
    BY DEF Recovered
  <1>2. /\ writing' = None /\ saving' = None /\ recent' = {} /\ undone' = {}
        /\ contexts' = [t \in Threads |-> << >>]
    BY <1>1 DEF Memory, NoContexts
  <1>3. Map' = content /\ Snapshots' = {}
    BY <1>1, MemoryIsLaidOut
  <1>4. \A image : image \in Elsewhere' <=> image = file.image
    BY <1>1, <1>2, <1>3, WhatIsElsewhere
  <1> QED
    BY <1>1, <1>2, <1>3, <1>4

LEMMA NextKeepsCalling ==
    ASSUME Layout, Filed, Calling, [Next]_vars
    PROVE  Calling'
  <1>1. ASSUME NEW b \in Batches, NEW todo \in SUBSET b, NEW v \in todo, Putting(b, todo, v)
        PROVE  Calling'
    BY <1>1 DEF Putting, Calling
  <1>2. CASE Copying
    BY <1>2 DEF Copying, Calling
  <1>3. CASE Recovered
    BY <1>3, RecoveredMemory DEF Calling
  <1> QED
    BY <1>1, <1>2, <1>3, NextMovesOn

(***************************************************************************)
(* A version of a map that JSON brought back is, but for the text of its   *)
(* key, one that was saved.                                                *)
(***************************************************************************)
LEMMA LoadedWasSaved ==
    ASSUME NEW content \in Loadable, NEW x \in content
    PROVE  \E v \in file.image : x = v \/ x = [key |-> Texts[v.key], val |-> v.val]
  <1>1. CASE file.format = "json"
    <2>1. content \in Coerced(file.image)
      BY <1>1 DEF Loadable
    <2>2. PICK K : content = {[key |-> Texts[v.key], val |-> v.val] :
                                v \in {w \in file.image : w.key \in K}}
      BY <2>1 DEF Coerced
    <2> QED
      BY <2>2
  <1>2. CASE file.format # "json"
    BY <1>2 DEF Loadable
  <1> QED
    BY <1>1, <1>2

LEMMA FileIsElsewhere == file.image \in Elsewhere
  BY WhatIsElsewhere

LEMMA PuttingIsKnown ==
    ASSUME NEW b \in Batches, NEW v \in b, b \in used
    PROVE  Known(v)
  BY CheckpointsAssumption DEF Known

LEMMA NextKeepsOrigins ==
    ASSUME Layout, Filed, Calling, Origins, [Next]_vars
    PROVE  Origins'
  <1>1. ASSUME used \subseteq used' PROVE \A v : Known(v) => Known(v)'
    BY <1>1 DEF Known
  <1>2. ASSUME NEW b \in Batches, NEW todo \in SUBSET b, NEW v \in todo, Putting(b, todo, v)
        PROVE  Origins'
    <2>1. /\ used' = used \cup {b} /\ Map' = Map \cup {v} /\ Elsewhere' = Elsewhere
          /\ undone' = undone
          /\ \A t \in Threads : /\ DOMAIN contexts'[t] = DOMAIN contexts[t]
                                /\ \A i \in DOMAIN contexts[t] :
                                      contexts'[t][i].wrote \subseteq contexts[t][i].wrote \cup {v}
      BY <1>2 DEF Putting
    <2>2. Known(v)' /\ v \in UNION used' /\ UNION used \subseteq UNION used'
      BY <2>1, CheckpointsAssumption DEF Known
    <2>3. \A image \in Elsewhere' \cup {Map'} : \A w \in image : Known(w)'
      BY <1>1, <2>1, <2>2 DEF Origins
    <2>4. \A t \in Threads : \A i \in DOMAIN contexts'[t] :
             contexts'[t][i].wrote \subseteq UNION used'
      BY <2>1, <2>2 DEF Origins
    <2>5. undone' \subseteq UNION used'
      BY <2>1, <2>2 DEF Origins
    <2> QED
      BY <2>3, <2>4, <2>5 DEF Origins
  <1>3. ASSUME Copying, undone' \subseteq UNION used,
               \A t \in Threads : \A i \in DOMAIN contexts'[t] :
                  contexts'[t][i].wrote \subseteq UNION used
        PROVE  Origins'
    <2>1. used' = used
      BY <1>3 DEF Copying
    <2>2. \A v : Known(v) => Known(v)'
      BY <1>1, <2>1
    <2>3. \A image \in Elsewhere' \cup {Map'} : image \in Elsewhere \cup {Map, {}}
      BY <1>3 DEF Copying
    <2>4. \A image \in Elsewhere' \cup {Map'} : \A v \in image : Known(v)'
      BY <2>2, <2>3 DEF Origins
    <2> QED
      BY <1>3, <2>1, <2>4 DEF Origins
  <1>4. CASE Recovered
    <2>1. /\ used' = used /\ undone' = {} /\ Elsewhere' = {file.image}
          /\ contexts' = [t \in Threads |-> << >>]
          /\ Map' = {} \/ Map' \in Loadable
      BY <1>4, RecoveredMemory
    <2>2. \A v \in file.image : Known(v)
      BY FileIsElsewhere DEF Origins
    <2>3. \A v \in Map' : Known(v)
      <3> SUFFICES ASSUME NEW x \in Map', Map' \in Loadable PROVE Known(x)
        BY <2>1
      <3>1. PICK v \in file.image : x = v \/ x = [key |-> Texts[v.key], val |-> v.val]
        BY LoadedWasSaved
      <3>2. Known(v)
        BY <2>2
      <3> QED
        BY <3>1, <3>2, CheckpointsAssumption DEF Known
    <2>4. \A v : Known(v) => Known(v)'
      BY <1>1, <2>1
    <2>5. \A image \in Elsewhere' \cup {Map'} : \A v \in image : Known(v)'
      BY <2>1, <2>2, <2>3, <2>4
    <2> QED
      BY <2>1, <2>5 DEF Origins
  <1>5. ASSUME UNCHANGED <<undone, contexts>>, Copying PROVE Origins'
    BY <1>3, <1>5 DEF Origins
  <1>6. CASE UNCHANGED vars
    <2>1. UNCHANGED <<undone, contexts>>
      BY <1>6 DEF vars, history
    <2>2. Copying
      <3>1. UNCHANGED <<heap, live, kept, contexts, taken, used, recent, broken, writing, file, saving>>
        BY <1>6 DEF vars, history
      <3>2. /\ Layout' /\ Map' = Map /\ Snapshots' = Snapshots
            /\ \A q \in Snapshots' : heap'[q] = heap[q]
        BY <3>1, ElsewhereKeepsLayout
      <3> QED
        BY <3>1, <3>2, SnapshotsCopy
    <2> QED
      BY <1>5, <2>1, <2>2
  <1>7. CASE Crash \/ Restart
    BY <1>4, <1>7, CrashesRecover
  <1>8. CASE Open \/ WriteOut
    <2>1. UNCHANGED <<undone, contexts>>
      BY <1>8 DEF Open, WriteOut, history
    <2> QED
      BY <1>5, <1>8, <2>1, RunningCopies
  <1>9. ASSUME NEW t \in Threads, Step(t) PROVE Origins'
    <2>1. CASE PutNext(t) \/ \E b \in Batches : Put(t, b)
      BY <1>2, <2>1, Puts
    <2>2. CASE CopyingStep(t)
      <3>1. Copying
        BY <2>2, RunningCopies
      <3>2. CASE Enter(t)
        <4>1. /\ \A u \in Threads \ {t} : contexts'[u] = contexts[u]
              /\ DOMAIN contexts'[t] = 1 .. Len(contexts[t]) + 1
              /\ \A i \in DOMAIN contexts[t] : contexts'[t][i] = contexts[t][i]
              /\ contexts'[t][Len(contexts[t]) + 1].wrote = {}
              /\ undone' = undone
          <5>1. undone' = undone
            BY <3>2 DEF Enter
          <5>2. /\ \A u \in Threads \ {t} : contexts'[u] = contexts[u]
                /\ DOMAIN contexts'[t] = 1 .. Len(contexts[t]) + 1
                /\ \A i \in DOMAIN contexts[t] : contexts'[t][i] = contexts[t][i]
                /\ contexts'[t][Len(contexts[t]) + 1] = [snap |-> Fresh, wrote |-> {}]
            BY <3>2, EnterAppends
          <5> QED
            BY <5>1, <5>2
        <4>2. DOMAIN contexts[t] = 1 .. Len(contexts[t]) /\ Len(contexts[t]) \in Nat
          BY ContextsAreTyped
        <4>3. \A i \in DOMAIN contexts'[t] :
                 i \in DOMAIN contexts[t] \/ i = Len(contexts[t]) + 1
          BY <4>1, <4>2
        <4> QED
          BY <1>3, <3>1, <4>1, <4>3 DEF Origins
      <3>3. CASE Exit(t)
        <4>1. /\ \A u \in Threads \ {t} : contexts'[u] = contexts[u]
              /\ undone' = undone
              /\ \A i \in DOMAIN contexts'[t] :
                    /\ i \in DOMAIN contexts[t] /\ Len(contexts[t]) \in DOMAIN contexts[t]
                    /\ contexts'[t][i].wrote \subseteq
                          contexts[t][i].wrote \cup contexts[t][Len(contexts[t])].wrote
          <5>1. undone' = undone
            BY <3>3 DEF Exit, history
          <5>2. /\ \A u \in Threads \ {t} : contexts'[u] = contexts[u]
                /\ Len(contexts[t]) \in Nat \ {0} /\ DOMAIN contexts[t] = 1 .. Len(contexts[t])
                /\ DOMAIN contexts'[t] = 1 .. Len(contexts[t]) - 1
                /\ \A i \in 1 .. Len(contexts[t]) - 1 :
                      contexts'[t][i].wrote \subseteq
                         contexts[t][i].wrote \cup (IF i = Len(contexts[t]) - 1
                                                    THEN contexts[t][Len(contexts[t])].wrote ELSE {})
            BY <3>3, ExitPops
          <5> QED
            BY <5>1, <5>2
        <4>2. \A i \in DOMAIN contexts'[t] : contexts'[t][i].wrote \subseteq UNION used
          BY <4>1 DEF Origins
        <4> QED
          BY <1>3, <3>1, <4>1, <4>2 DEF Origins
      <3>4. CASE ExitRaising(t)
        <4>1. /\ \A u \in Threads \ {t} : contexts'[u] = contexts[u]
              /\ Len(contexts[t]) \in DOMAIN contexts[t]
              /\ undone' = undone \cup contexts[t][Len(contexts[t])].wrote
              /\ \A i \in DOMAIN contexts'[t] :
                    i \in DOMAIN contexts[t] /\ contexts'[t][i] = contexts[t][i]
          <5>1. undone' = undone \cup Last(contexts[t]).wrote
            BY <3>4 DEF ExitRaising
          <5>2. /\ \A u \in Threads \ {t} : contexts'[u] = contexts[u]
                /\ Len(contexts[t]) \in DOMAIN contexts[t]
                /\ DOMAIN contexts[t] = 1 .. Len(contexts[t])
                /\ Last(contexts[t]) = contexts[t][Len(contexts[t])]
                /\ DOMAIN contexts'[t] = 1 .. Len(contexts[t]) - 1
                /\ \A i \in 1 .. Len(contexts[t]) - 1 : contexts'[t][i] = contexts[t][i]
            BY <3>4, ExitRaisingPops
          <5>3. 1 .. Len(contexts[t]) - 1 \subseteq 1 .. Len(contexts[t])
            BY ContextsAreTyped
          <5> QED
            BY <5>1, <5>2, <5>3
        <4> QED
          BY <1>3, <3>1, <4>1 DEF Origins
      <3>5. ASSUME NEW s \in kept, RollbackTo(t, s) PROVE Origins'
        <4>1. undone' = {} /\ contexts' = contexts
          BY <3>5 DEF RollbackTo
        <4> QED
          BY <1>3, <3>1, <4>1 DEF Origins
      <3>6. CASE \/ PutRaises(t) \/ TakeSnapshot(t) \/ \E s \in kept : DropSnapshot(t, s)
                 \/ \E format \in Formats : Save(t, format)
        <4>1. UNCHANGED <<undone, contexts>>
          BY <3>6 DEF PutRaises, TakeSnapshot, DropSnapshot, Save, history
        <4> QED
          BY <1>5, <3>1, <4>1
      <3> QED
        BY <2>2, <3>2, <3>3, <3>4, <3>5, <3>6 DEF CopyingStep
    <2> QED
      BY <1>9, <2>1, <2>2 DEF Step, CopyingStep
  <1> QED
    BY <1>6, <1>7, <1>8, <1>9 DEF Next

(***************************************************************************)
(* Nothing of a batch that nobody has put is anywhere.                     *)
(***************************************************************************)
LEMMA UnusedIsNowhere ==
    ASSUME Calling, Origins, NEW b \in Batches, b \notin used
    PROVE  /\ \A image \in Elsewhere \cup {Map} : b \cap image = {}
           /\ b \cap undone = {}
  <1>1. \A c \in used : b \cap c = {}
    BY CheckpointsAssumption DEF Calling
  <1>2. ASSUME NEW v \in b, Known(v) PROVE FALSE
    <2>1. PICK w \in UNION used : w.val = v.val
      BY <1>2 DEF Known
    <2>2. v \in UNION Batches /\ w \in UNION Batches
      BY DEF Calling
    <2>3. v = w
      BY <2>1, <2>2, CheckpointsAssumption
    <2> QED
      BY <1>1, <2>3
  <1> QED
    BY <1>1, <1>2 DEF Origins

(***************************************************************************)
(* The batch that a version is put of has nothing in the copies.           *)
(***************************************************************************)
LEMMA PuttingIsNew ==
    ASSUME Calling, Origins, Batched, Undone,
           NEW b \in Batches, NEW todo \in SUBSET b, NEW v \in todo, Putting(b, todo, v)
    PROVE  (\A image \in Elsewhere : b \cap image = {}) /\ b \cap undone = {}
  BY UnusedIsNowhere DEF Putting, Batched, Undone

LEMMA NextKeepsBatched ==
    ASSUME Layout, Filed, Calling, Origins, Batched, Undone, [Next]_vars
    PROVE  Batched'
  <1>1. ASSUME NEW b \in Batches, NEW todo \in SUBSET b, NEW v \in todo, Putting(b, todo, v)
        PROVE  Batched'
    <2>1. \A image \in Elsewhere : b \cap image = {}
      BY <1>1, PuttingIsNew
    <2>2. /\ Elsewhere' = Elsewhere /\ Map' = Map \cup {v} /\ broken' = broken
          /\ recent' \subseteq recent \cup {b}
          /\ writing' # None => writing'.batch = b /\ writing'.todo = todo \ {v}
          /\ writing' = None => todo = {v}
          /\ writing = None \/ writing.batch = b
      BY <1>1 DEF Putting
    <2>3. b \ (todo \ {v}) \subseteq Map'
      <3>1. b \ todo \subseteq Map
        BY <1>1 DEF Putting, Batched
      <3> QED
        BY <2>2, <3>1
    <2>4. ASSUME NEW c \in recent' \ broken'
          PROVE  /\ \A image \in Elsewhere' : Whole(c, image)
                 /\ Whole(c, Map') \/ (writing' # None /\ writing'.batch = c)
      <3>1. CASE c = b
        BY <2>1, <2>2, <2>3, <3>1 DEF Whole
      <3>2. CASE c # b
        <4>1. /\ c \in recent \ broken /\ c \in Batches /\ v \notin c
              /\ Whole(c, Map) /\ \A image \in Elsewhere : Whole(c, image)
          BY <2>2, <2>4, <3>2, CheckpointsAssumption DEF Calling, Batched
        <4> QED
          BY <2>2, <4>1 DEF Whole
      <3> QED
        BY <3>1, <3>2
    <2> QED
      BY <2>1, <2>2, <2>3, <2>4 DEF Batched
  <1>2. CASE Copying
    <2>1. ASSUME writing' # None
          PROVE  /\ \A image \in Elsewhere' : writing'.batch \cap image = {}
                 /\ writing'.batch \ writing'.todo \subseteq Map'
      BY <1>2, <2>1 DEF Copying, Batched
    <2>2. ASSUME NEW b \in recent' \ broken'
          PROVE  /\ \A image \in Elsewhere' : Whole(b, image)
                 /\ Whole(b, Map') \/ (writing' # None /\ writing'.batch = b)
      BY <1>2, <2>2 DEF Copying, Batched, Whole
    <2> QED
      BY <2>1, <2>2 DEF Batched
  <1>3. CASE Recovered
    BY <1>3, RecoveredMemory DEF Batched
  <1> QED
    BY <1>1, <1>2, <1>3, NextMovesOn

-----------------------------------------------------------------------------

(***************************************************************************)
(* Steps that leave the contexts and what was undone as they are.          *)
(***************************************************************************)
LEMMA SameContexts ==
    ASSUME Layout, Nested, Undone, UNCHANGED <<contexts, undone, overlapped>>,
           Map' = Map, \A s \in Snapshots \cap Snapshots' : heap'[s] = heap[s],
           writing' = writing \/ writing' = None
    PROVE  Nested' /\ Undone'
  <1>1. \A t \in Threads : \A i \in DOMAIN contexts[t] :
           heap'[contexts[t][i].snap] = heap[contexts[t][i].snap]
    BY WhatSnapshotsAre
  <1>2. Nested'
    BY <1>1 DEF Nested
  <1>3. Undone'
    BY <1>1 DEF Undone
  <1> QED
    BY <1>2, <1>3

LEMMA PuttingKeepsUndone ==
    ASSUME Layout, Calling, Origins, Batched, Nested, Undone,
           NEW b \in Batches, NEW todo \in SUBSET b, NEW v \in todo, Putting(b, todo, v)
    PROVE  Nested' /\ Undone'
  <1>1. (\A image \in Elsewhere : b \cap image = {}) /\ b \cap undone = {}
    BY PuttingIsNew
  <1>2. /\ UNCHANGED <<undone, overlapped>> /\ Map' = Map \cup {v}
        /\ \A s \in Snapshots : heap'[s] = heap[s]
        /\ \A u \in Threads :
              /\ DOMAIN contexts'[u] = DOMAIN contexts[u]
              /\ contexts'[u] = << >> <=> contexts[u] = << >>
              /\ \A i \in DOMAIN contexts[u] :
                    /\ contexts'[u][i].snap = contexts[u][i].snap
                    /\ contexts'[u][i].wrote \subseteq contexts[u][i].wrote \cup {v}
        /\ writing' # None => writing'.batch = b
    BY DEF Putting
  <1>3. \A s \in Snapshots : v \notin heap[s]
    BY <1>1, WhatIsElsewhere
  <1>4. \A u \in Threads : \A i \in DOMAIN contexts[u] :
           /\ contexts[u][i].snap \in Snapshots
           /\ heap'[contexts'[u][i].snap] = heap[contexts[u][i].snap]
           /\ v \notin heap[contexts[u][i].snap]
    BY <1>2, <1>3, WhatSnapshotsAre
  <1>5. ASSUME NEW u \in Threads, NEW i \in DOMAIN contexts'[u], NEW j \in DOMAIN contexts'[u],
               i <= j
        PROVE  heap'[contexts'[u][i].snap] \cap contexts'[u][j].wrote = {}
    <2>1. i \in DOMAIN contexts[u] /\ j \in DOMAIN contexts[u]
      BY <1>2
    <2>2. heap[contexts[u][i].snap] \cap contexts[u][j].wrote = {}
      BY <1>5, <2>1 DEF Nested
    <2> QED
      BY <1>2, <1>4, <2>1, <2>2
  <1>6. Undone'
    BY <1>1, <1>2, <1>4 DEF Undone
  <1> QED
    BY <1>5, <1>6 DEF Nested

LEMMA EnterKeepsUndone ==
    ASSUME Layout, Nested, Undone, NEW t \in Threads, Enter(t)
    PROVE  Nested' /\ Undone'
  <1>1. PICK n : n = Len(contexts[t]) + 1
    OBVIOUS
  <1>2. /\ \A u \in Threads \ {t} : contexts'[u] = contexts[u]
        /\ DOMAIN contexts'[t] = 1 .. n
        /\ \A i \in DOMAIN contexts[t] : contexts'[t][i] = contexts[t][i]
        /\ contexts'[t][n] = [snap |-> Fresh, wrote |-> {}]
        /\ Snapshots' = Snapshots \cup {Fresh}
    BY <1>1, EnterAppends
  <1>3. /\ Map' = Map /\ writing' = None
        /\ \A s \in Snapshots' : heap'[s] = IF s \in Snapshots THEN heap[s] ELSE Map
    BY EnterCopies
  <1>4. Fresh \notin Snapshots
    BY FreshIsFree DEF Layout
  <1>5. /\ undone' = undone
        /\ ~overlapped' => ~overlapped /\ \A u \in Threads \ {t} : contexts[u] = << >>
    BY DEF Enter
  <1>6. DOMAIN contexts[t] = 1 .. n - 1 /\ n \in Nat \ {0}
    BY <1>1, ContextsAreTyped
  <1>7. \A u \in Threads : \A i \in DOMAIN contexts'[u] :
           \/ /\ i \in DOMAIN contexts[u] /\ contexts'[u][i] = contexts[u][i]
              /\ heap'[contexts[u][i].snap] = heap[contexts[u][i].snap]
           \/ u = t /\ i = n /\ contexts'[u][i].wrote = {} /\ heap'[contexts'[u][i].snap] = Map
    <2>1. \A u \in Threads : \A i \in DOMAIN contexts[u] :
             heap'[contexts[u][i].snap] = heap[contexts[u][i].snap]
      BY <1>2, <1>3, WhatSnapshotsAre
    <2>2. heap'[contexts'[t][n].snap] = Map /\ contexts'[t][n].wrote = {}
      BY <1>2, <1>3, <1>4
    <2>3. \A i \in DOMAIN contexts'[t] : i \in DOMAIN contexts[t] \/ i = n
      BY <1>2, <1>6
    <2>4. ASSUME NEW i \in DOMAIN contexts'[t], i # n
          PROVE  /\ i \in DOMAIN contexts[t] /\ contexts'[t][i] = contexts[t][i]
                 /\ heap'[contexts[t][i].snap] = heap[contexts[t][i].snap]
      BY <1>2, <2>1, <2>3, <2>4
    <2>5. ASSUME NEW u \in Threads \ {t}, NEW i \in DOMAIN contexts'[u]
          PROVE  /\ i \in DOMAIN contexts[u] /\ contexts'[u][i] = contexts[u][i]
                 /\ heap'[contexts[u][i].snap] = heap[contexts[u][i].snap]
      BY <1>2, <2>1
    <2> QED
      BY <2>2, <2>4, <2>5
  <1>8. ASSUME NEW u \in Threads, NEW i \in DOMAIN contexts'[u], NEW j \in DOMAIN contexts'[u],
               i <= j
        PROVE  heap'[contexts'[u][i].snap] \cap contexts'[u][j].wrote = {}
    <2>1. CASE u = t /\ j = n
      BY <1>2, <2>1
    <2>2. CASE ~(u = t /\ j = n)
      <3>1. j \in DOMAIN contexts[u] /\ contexts'[u][j] = contexts[u][j]
        BY <1>7, <2>2
      <3>2. ~(u = t /\ i = n)
        BY <1>6, <1>8, <2>2, <3>1
      <3>3. /\ i \in DOMAIN contexts[u] /\ contexts'[u][i] = contexts[u][i]
            /\ heap'[contexts[u][i].snap] = heap[contexts[u][i].snap]
        BY <1>7, <3>2
      <3> QED
        BY <1>8, <3>1, <3>3 DEF Nested
    <2> QED
      BY <2>1, <2>2
  <1>9. Nested'
    BY <1>8 DEF Nested
  <1>10. ASSUME ~overlapped'
         PROVE  /\ \A u, w \in Threads : contexts'[u] # << >> /\ contexts'[w] # << >> => u = w
                /\ Map' \cap undone' = {}
                /\ \A u \in Threads : \A i \in DOMAIN contexts'[u] :
                      heap'[contexts'[u][i].snap] \cap undone' = {}
    BY <1>2, <1>3, <1>5, <1>7, <1>10 DEF Undone
  <1> QED
    BY <1>3, <1>9, <1>10 DEF Undone

(***************************************************************************)
(* A context that ends takes its snapshot with it; what was written in it  *)
(* was written in the one around it too.                                   *)
(***************************************************************************)
LEMMA ExitKeepsUndone ==
    ASSUME Layout, Nested, Undone, NEW t \in Threads, Exit(t)
    PROVE  Nested' /\ Undone'
  <1>1. PICK n : n = Len(contexts[t])
    OBVIOUS
  <1>2. /\ \A u \in Threads \ {t} : contexts'[u] = contexts[u]
        /\ n \in Nat \ {0} /\ DOMAIN contexts[t] = 1 .. n /\ DOMAIN contexts'[t] = 1 .. n - 1
        /\ \A i \in 1 .. n - 1 :
              /\ contexts'[t][i].snap = contexts[t][i].snap
              /\ contexts'[t][i].wrote \subseteq
                    contexts[t][i].wrote \cup (IF i = n - 1 THEN contexts[t][n].wrote ELSE {})
    BY <1>1, ExitPops
  <1>3. /\ Map' = Map /\ writing' = None
        /\ \A s \in Snapshots' : heap'[s] = heap[s]
    BY ExitCopies
  <1>4. UNCHANGED <<undone, overlapped>> /\ contexts[t] # << >>
    BY DEF Exit, history
  <1>5. \A u \in Threads : \A i \in DOMAIN contexts'[u] :
           /\ i \in DOMAIN contexts[u] /\ contexts'[u][i].snap = contexts[u][i].snap
           /\ heap'[contexts[u][i].snap] = heap[contexts[u][i].snap]
    <2>1. \A u \in Threads : \A i \in DOMAIN contexts'[u] :
             i \in DOMAIN contexts[u] /\ contexts'[u][i].snap = contexts[u][i].snap
      BY <1>2
    <2>2. \A u \in Threads : \A i \in DOMAIN contexts'[u] : contexts'[u][i].snap \in Snapshots'
      BY WhatSnapshotsAre
    <2> QED
      BY <1>3, <2>1, <2>2
  <1>6. ASSUME NEW u \in Threads, NEW i \in DOMAIN contexts'[u], NEW j \in DOMAIN contexts'[u],
               i <= j
        PROVE  heap[contexts[u][i].snap] \cap contexts'[u][j].wrote = {}
    <2>1. heap[contexts[u][i].snap] \cap contexts[u][j].wrote = {}
      BY <1>5, <1>6 DEF Nested
    <2>2. CASE u # t
      BY <1>2, <2>1, <2>2
    <2>3. CASE u = t
      <3>1. i \in 1 .. n /\ n \in 1 .. n /\ i <= n /\ j \in 1 .. n - 1
        BY <1>2, <1>6, <2>3
      <3>2. heap[contexts[t][i].snap] \cap contexts[t][n].wrote = {}
        BY <1>2, <3>1 DEF Nested
      <3> QED
        BY <1>2, <2>1, <2>3, <3>1, <3>2
    <2> QED
      BY <2>2, <2>3
  <1>7. Nested'
    BY <1>5, <1>6 DEF Nested
  <1>8. \A u \in Threads : contexts'[u] # << >> => contexts[u] # << >>
    BY <1>2, <1>4
  <1>9. ASSUME ~overlapped'
        PROVE  /\ \A u, w \in Threads : contexts'[u] # << >> /\ contexts'[w] # << >> => u = w
               /\ Map' \cap undone' = {}
               /\ \A u \in Threads : \A i \in DOMAIN contexts'[u] :
                     heap'[contexts'[u][i].snap] \cap undone' = {}
    BY <1>3, <1>4, <1>5, <1>8, <1>9 DEF Undone
  <1> QED
    BY <1>3, <1>7, <1>9 DEF Undone

(***************************************************************************)
(* A context that raises rolls back to its snapshot, which has nothing of  *)
(* what was written in it, and those of the contexts around have neither.  *)
(***************************************************************************)
LEMMA ExitRaisingKeepsUndone ==
    ASSUME Layout, Nested, Undone, NEW t \in Threads, ExitRaising(t)
    PROVE  Nested' /\ Undone'
  <1>1. PICK n, lost : n = Len(contexts[t]) /\ lost = contexts[t][n].wrote
    OBVIOUS
  <1>2. /\ \A u \in Threads \ {t} : contexts'[u] = contexts[u]
        /\ n \in DOMAIN contexts[t] /\ DOMAIN contexts[t] = 1 .. n
        /\ Last(contexts[t]) = contexts[t][n]
        /\ DOMAIN contexts'[t] = 1 .. n - 1
        /\ \A i \in 1 .. n - 1 : contexts'[t][i] = contexts[t][i]
    BY <1>1, ExitRaisingPops
  <1>3. /\ Map' = heap[contexts[t][n].snap] /\ writing' = None
        /\ \A s \in Snapshots' : heap'[s] = heap[s]
    BY <1>1, ExitRaisingCopies
  <1>4. overlapped' = overlapped /\ contexts[t] # << >> /\ undone' = undone \cup lost
    <2>1. undone' = undone \cup Last(contexts[t]).wrote
      BY DEF ExitRaising
    <2> QED
      BY <1>1, <1>2, <2>1 DEF ExitRaising
  <1>5. n \in Nat \ {0}
    BY <1>1, <1>2, ContextsAreTyped
  <1>6. \A u \in Threads : \A i \in DOMAIN contexts'[u] :
           /\ i \in DOMAIN contexts[u] /\ contexts'[u][i] = contexts[u][i]
           /\ heap'[contexts[u][i].snap] = heap[contexts[u][i].snap]
    <2>1. \A u \in Threads : \A i \in DOMAIN contexts'[u] :
             i \in DOMAIN contexts[u] /\ contexts'[u][i] = contexts[u][i]
      BY <1>2, <1>5
    <2>2. \A u \in Threads : \A i \in DOMAIN contexts'[u] : contexts'[u][i].snap \in Snapshots'
      BY WhatSnapshotsAre
    <2> QED
      BY <1>3, <2>1, <2>2
  <1>7. Nested'
    BY <1>6 DEF Nested
  <1>8. \A u \in Threads : contexts'[u] # << >> => contexts[u] # << >>
    BY <1>2, <1>4
  <1>9. \A i \in DOMAIN contexts[t] : heap[contexts[t][i].snap] \cap lost = {}
    <2>1. \A i \in DOMAIN contexts[t] : i <= n
      BY <1>2, <1>5
    <2> QED
      BY <1>1, <1>2, <2>1 DEF Nested
  <1>10. ASSUME ~overlapped'
         PROVE  /\ \A u, w \in Threads : contexts'[u] # << >> /\ contexts'[w] # << >> => u = w
                /\ Map' \cap undone' = {}
                /\ \A u \in Threads : \A i \in DOMAIN contexts'[u] :
                      heap'[contexts'[u][i].snap] \cap undone' = {}
    <2>1. /\ \A u, w \in Threads : contexts[u] # << >> /\ contexts[w] # << >> => u = w
          /\ \A u \in Threads : \A i \in DOMAIN contexts[u] :
                heap[contexts[u][i].snap] \cap undone = {}
      BY <1>4, <1>10 DEF Undone
    <2>2. Map' \cap undone' = {}
      BY <1>2, <1>3, <1>4, <1>9, <2>1
    <2>3. ASSUME NEW u \in Threads, NEW i \in DOMAIN contexts'[u]
          PROVE  heap'[contexts'[u][i].snap] \cap undone' = {}
      <3>1. i \in DOMAIN contexts[u] /\ contexts[u] # << >>
        BY <1>6, ContextsAreTyped
      <3>2. u = t
        BY <1>4, <2>1, <3>1
      <3> QED
        BY <1>4, <1>6, <1>9, <2>1, <3>1, <3>2
    <2> QED
      BY <1>8, <2>1, <2>2, <2>3
  <1> QED
    BY <1>3, <1>7, <1>10 DEF Undone

LEMMA NextKeepsUndone ==
    ASSUME Layout, Filed, Calling, Origins, Batched, Nested, Undone, [Next]_vars
    PROVE  Nested' /\ Undone'
  <1>1. CASE UNCHANGED vars
    <2>1. UNCHANGED <<contexts, undone, overlapped, heap, live, kept, taken, writing>>
      BY <1>1 DEF vars, history
    <2>2. Map' = Map /\ \A s \in Snapshots \cap Snapshots' : heap'[s] = heap[s]
      BY <2>1 DEF Map
    <2> QED
      BY <2>1, <2>2, SameContexts
  <1>2. CASE Open \/ WriteOut
    <2>1. UNCHANGED <<contexts, undone, overlapped>>
      BY <1>2 DEF Open, WriteOut, history
    <2> QED
      BY <1>2, <2>1, FileStepsCopy, SameContexts
  <1>3. CASE Crash \/ Restart
    <2>1. /\ writing' = None /\ undone' = {} /\ contexts' = [t \in Threads |-> << >>]
      BY <1>3, CrashesRecover, RecoveredMemory
    <2> QED
      BY <2>1 DEF Nested, Undone
  <1>4. ASSUME NEW t \in Threads, Step(t) PROVE Nested' /\ Undone'
    <2>1. CASE PutNext(t) \/ \E b \in Batches : Put(t, b)
      BY <2>1, Puts, PuttingKeepsUndone
    <2>2. CASE Enter(t)
      BY <2>2, EnterKeepsUndone
    <2>3. CASE Exit(t)
      BY <2>3, ExitKeepsUndone
    <2>4. CASE ExitRaising(t)
      BY <2>4, ExitRaisingKeepsUndone
    <2>5. ASSUME NEW s \in kept, RollbackTo(t, s) PROVE Nested' /\ Undone'
      <3>1. contexts' = contexts /\ undone' = {} /\ overlapped' = overlapped
        BY <2>5 DEF RollbackTo
      <3>2. writing' = None /\ \A q \in Snapshots' : heap'[q] = heap[q]
        BY <2>5, RollbackToCopies
      <3>3. \A u \in Threads : \A i \in DOMAIN contexts[u] :
               heap'[contexts[u][i].snap] = heap[contexts[u][i].snap]
        BY <3>1, <3>2, WhatSnapshotsAre
      <3> QED
        BY <3>1, <3>2, <3>3 DEF Nested, Undone
    <2>6. CASE TakeSnapshot(t)
      <3>1. UNCHANGED <<contexts, undone, overlapped>> /\ Snapshot
        BY <2>6 DEF TakeSnapshot, history
      <3>2. Fresh \notin DOMAIN heap
        BY FreshIsFree
      <3>3. Map' = Map /\ \A s \in Snapshots : heap'[s] = heap[s]
        BY <3>1, <3>2 DEF Snapshot, SnapshotStore, Updated, Single, Map, Layout
      <3> QED
        BY <2>6, <3>1, <3>3, TakeSnapshotCopies, SameContexts
    <2>7. CASE \/ PutRaises(t) \/ \E s \in kept : DropSnapshot(t, s)
               \/ \E format \in Formats : Save(t, format)
      <3>1. UNCHANGED <<contexts, undone, overlapped>>
        BY <2>7 DEF PutRaises, DropSnapshot, Save, history
      <3>2. /\ Map' = Map /\ writing' = None
            /\ \A s \in Snapshots \cap Snapshots' : heap'[s] = heap[s]
        <4>1. CASE PutRaises(t)
          BY <4>1, PutRaisesCopies
        <4>2. CASE \E s \in kept : DropSnapshot(t, s)
          BY <4>2, DropSnapshotCopies
        <4>3. ASSUME NEW format \in Formats, Save(t, format)
              PROVE  Map' = Map /\ writing' = None /\ heap' = heap
          BY <4>3, SaveCopies DEF Save
        <4> QED
          BY <2>7, <4>1, <4>2, <4>3
      <3> QED
        BY <3>1, <3>2, SameContexts
    <2> QED
      BY <1>4, <2>1, <2>2, <2>3, <2>4, <2>5, <2>6, <2>7 DEF Step
  <1> QED
    BY <1>1, <1>2, <1>3, <1>4 DEF Next

LEMMA NextKeepsStreams ==
    ASSUME Filed, Streams, [Next]_vars
    PROVE  Streams'
  <1>1. CASE UNCHANGED vars \/ UNCHANGED <<file, saving>>
    BY <1>1 DEF vars, Streams, OnlyStreamsFailHalfway
  <1>2. CASE Open
    BY <1>2 DEF Open, Filed, Streams, OnlyStreamsFailHalfway
  <1>3. CASE WriteOut
    <2>1. CASE Image \cap Opaque = {}
      BY <1>3, <2>1 DEF WriteOut, Filed, Streams, OnlyStreamsFailHalfway
    <2>2. CASE Image \cap Opaque # {}
      BY <1>3, <2>2 DEF WriteOut, Image, Filed, Streams, OnlyStreamsFailHalfway
    <2> QED
      BY <2>1, <2>2
  <1>4. CASE Crash \/ Restart
    BY <1>4 DEF Crash, Restart, Memory, Filed, Streams, OnlyStreamsFailHalfway
  <1>5. ASSUME NEW t \in Threads, Step(t) PROVE Streams'
    <2>1. CASE \E format \in Formats : Save(t, format)
      BY <2>1 DEF Save, Streams, OnlyStreamsFailHalfway
    <2>2. CASE ~ \E format \in Formats : Save(t, format)
      <3>1. UNCHANGED <<file, saving>>
        BY <1>5, <2>2 DEF Step, Put, PutNext, PutRaises, TakeSnapshot, RollbackTo,
             DropSnapshot, Enter, Exit, ExitRaising
      <3> QED
        BY <1>1, <3>1
    <2> QED
      BY <2>1, <2>2
  <1> QED
    BY <1>1, <1>2, <1>3, <1>4, <1>5 DEF Next

-----------------------------------------------------------------------------

LEMMA InitInv == Init => Inv /\ Streams
  <1> SUFFICES ASSUME Init PROVE Inv /\ Streams
    OBVIOUS
  <1>1. Snapshots = {}
    BY WhatSnapshotsAre DEF Init, NoContexts, EmptyDict
  <1>2. Cardinality(Snapshots) <= MaxSnapshots
    BY <1>1, FS_EmptySet, CheckpointsAssumption
  <1>3. live \in Stores /\ contexts \in [Threads -> Seq(Context)] /\ contexts = [t \in Threads |-> << >>]
    BY CheckpointsAssumption DEF Init, NoContexts, Stores
  <1>4. Layout
    BY <1>1, <1>2, <1>3 DEF Init, Layout, SnapshotsAreFrozen, Single, EmptyDict
  <1>5. Map = {} /\ \A image : image \in Elsewhere <=> image = {}
    BY <1>1, WhatIsElsewhere DEF Init, Map, Single
  <1>6. Filed /\ Calling /\ Streams
    BY DEF Init, Filed, Calling, Streams, OnlyStreamsFailHalfway
  <1>7. Origins /\ Batched /\ Nested /\ Undone
    BY <1>3, <1>5 DEF Init, Origins, Batched, Nested, Undone
  <1> QED
    BY <1>4, <1>6, <1>7 DEF Inv

LEMMA NextKeepsInv == Inv /\ [Next]_vars => Inv'
  BY NextMovesOn, NextKeepsFiled, NextKeepsCalling, NextKeepsOrigins, NextKeepsBatched,
     NextKeepsUndone DEF Inv

(***************************************************************************)
(* snapshot(), rollback() and SnapshotContext: the map always has its store*)
(* for itself, the stores in use are those that somebody refers to, and    *)
(* the store that a snapshot or a rollback copies into is free.            *)
(***************************************************************************)
THEOREM StoresAreDisjoint == Spec => []TypeOK
  <1>1. Inv => TypeOK
    <2> SUFFICES ASSUME Inv, NEW r \in DOMAIN heap, NEW v \in heap[r]
                 PROVE  v.key \in DOMAIN Texts
      BY DEF Inv, Layout, TypeOK
    <2>1. heap[r] \in Elsewhere \cup {Map}
      BY WhatIsElsewhere DEF Inv, Layout, Map
    <2>2. Known(v)
      BY <2>1 DEF Inv, Origins
    <2> QED
      BY <2>2 DEF Known
  <1> QED
    BY InitInv, NextKeepsInv, <1>1, PTL DEF Spec

(***************************************************************************)
(* snapshot() copies deeply and rollback() copies back: no snapshot ever   *)
(* changes, whoever writes or rolls back.                                  *)
(***************************************************************************)
THEOREM SnapshotsStayFrozen == Spec => []SnapshotsAreFrozen
  <1>1. Inv => SnapshotsAreFrozen
    BY DEF Inv, Layout
  <1> QED
    BY InitInv, NextKeepsInv, <1>1, PTL DEF Spec

(***************************************************************************)
(* put_many() holds the write lock from its first key to its last, and     *)
(* to_dict() copies: no snapshot and no file has half of a batch that was  *)
(* put to its end, neither in this process nor by way of a rollback.       *)
(***************************************************************************)
THEOREM CopiesHaveWholeBatches == Spec => []NoHalfBatches
  <1>1. Inv => NoHalfBatches
    BY DEF Inv, Batched, Elsewhere, NoHalfBatches, Whole
  <1> QED
    BY InitInv, NextKeepsInv, <1>1, PTL DEF Spec

(***************************************************************************)
(* SnapshotContext.__exit__: nested to any depth, what a block that raised *)
(* has written is gone, until the program itself rolls back.               *)
(***************************************************************************)
THEOREM RaisingBlocksAreUndone == Spec => []UndoneStaysUndone
  <1>1. Inv => UndoneStaysUndone
    BY DEF Inv, Undone, UndoneStaysUndone
  <1> QED
    BY InitInv, NextKeepsInv, <1>1, PTL DEF Spec

(***************************************************************************)
(* save_json() and save_pickle(): a compressed save never leaves a file    *)
(* that it could not finish because of a value, whatever threads write     *)
(* between the moment it serializes and the moment it opens the file.      *)
(***************************************************************************)
THEOREM PackedSavesFailEarly == Spec => []OnlyStreamsFailHalfway
  <1>1. Init => Filed /\ Streams
    BY InitInv DEF Inv
  <1>2. Streams => OnlyStreamsFailHalfway
    BY DEF Streams
  <1>3. Filed /\ Streams /\ [Next]_vars => Filed' /\ Streams'
    BY NextKeepsFiled, NextKeepsStreams
  <1> QED
    BY <1>1, <1>2, <1>3, PTL DEF Spec
=============================================================================
