--------------------------- MODULE ChronoMapProofs --------------------------
(***************************************************************************)
(* Proofs about ChronoMap for every set of keys and values, every size of  *)
(* the cache, every cap and every map merged in.                           *)
(***************************************************************************)
EXTENDS ChronoMap, VersionHistoryProofs, FiniteSetTheorems

Sound(h) == h \in Seq(Admitted) /\ Ordered(h)

LEMMA AdmittedIsTimed == now \in Times => Timed(Admitted)
  BY DEF Timed, Admitted, Times

(***************************************************************************)
(* More versions are admitted as time passes.                              *)
(***************************************************************************)
LEMMA SoundStaysSound ==
    ASSUME ChronoMapAssumption, now \in Times, now' \in Times, now <= now', NEW h, Sound(h)
    PROVE  h \in Seq(Admitted') /\ Ordered(h)
  <1>1. \A d \in Admitted : d \in Admitted'
    BY DEF Admitted, Times, ChronoMapAssumption
  <1>2. h \in Seq(Admitted) /\ Ordered(h)
    BY DEF Sound
  <1>3. \A i \in 1 .. Len(h) : h[i] \in Admitted
    BY <1>2
  <1> QED
    BY <1>1, <1>2, <1>3

LEMMA CurrentIsSound ==
    ASSUME WellFormed, NEW k
    PROVE  Sound(Current(k)) /\ Sound(Versions(k))
  <1>1. Sound(<< >>)
    BY DEF Sound, Ordered
  <1> QED
    BY <1>1 DEF WellFormed, Current, Versions, Sound

(***************************************************************************)
(* Every version a write leaves is admitted and in its place.              *)
(***************************************************************************)
LEMMA InsertedIsSound ==
    ASSUME WellFormed, NEW k, NEW t \in Times, t <= now + Lead, NEW v \in Values
    PROVE  Sound(Inserted(k, t, v))
  <1>1. Timed(Admitted) /\ [ts |-> t, val |-> v] \in Admitted
    BY AdmittedIsTimed DEF WellFormed, Admitted
  <1>2. Current(k) \in Seq(Admitted) /\ Ordered(Current(k))
    BY CurrentIsSound DEF Sound
  <1> HIDE DEF Admitted
  <1>3. /\ InsertVersion(Current(k), [ts |-> t, val |-> v]) \in Seq(Admitted)
        /\ Ordered(InsertVersion(Current(k), [ts |-> t, val |-> v]))
    BY <1>1, <1>2, InsertOrdered
  <1> QED
    BY <1>3 DEF Sound, Inserted

LEMMA CutIsSound ==
    ASSUME ChronoMapAssumption, NEW h, Sound(h)
    PROVE  Sound(AutoPrune(h, Cap))
  BY AutoPruneShortened DEF Sound, Shortened, ChronoMapAssumption

LEMMA PrunedIsShortened ==
    ASSUME ChronoMapAssumption, now \in Times, NEW h, Sound(h),
           NEW keep \in {None} \cup KeepArgs, NEW older \in {None} \cup Cutoffs,
           older # Unparsable
    PROVE  Shortened(Pruned(h, keep, older), h, Admitted)
  <1> DEFINE newest == IF keep = None THEN h ELSE KeepLast(h, keep)
  <1>1. h \in Seq(Admitted) /\ Ordered(h) /\ Timed(Admitted)
    BY AdmittedIsTimed DEF Sound
  <1>2. Shortened(newest, h, Admitted)
    <2>1. CASE keep = None
      BY <1>1, <2>1 DEF Shortened
    <2>2. CASE keep # None
      <3>1. keep \in Int
        BY <2>2 DEF ChronoMapAssumption
      <3> QED
        BY <1>1, <2>2, <3>1, KeepLastShortened
    <2> QED
      BY <2>1, <2>2
  <1>3. Pruned(h, keep, older) = IF older = None THEN newest ELSE DropOlder(newest, older)
    BY DEF Pruned
  <1> HIDE DEF newest
  <1>4. CASE older = None
    BY <1>2, <1>3, <1>4
  <1>5. CASE older # None
    <2>1. older \in Int
      <3>1. Cutoffs \subseteq Times \cup {Unparsable} /\ MaxTime \in Nat
        BY DEF ChronoMapAssumption
      <3>2. older \in Times
        BY <1>5, <3>1
      <3> QED
        BY <3>1, <3>2 DEF Times
    <2>2. newest \in Seq(Admitted) /\ Ordered(newest)
      BY <1>2 DEF Shortened
    <2> HIDE DEF Admitted
    <2>3. Shortened(DropOlder(newest, older), newest, Admitted)
      BY <1>1, <2>1, <2>2, DropOlderShortened
    <2>4. Len(newest) \in Nat /\ Len(h) \in Nat /\ Len(DropOlder(newest, older)) \in Nat
      BY <1>1, <2>2, <2>3 DEF Shortened
    <2> QED
      BY <1>2, <1>3, <1>5, <2>3, <2>4 DEF Shortened
  <1> QED
    BY <1>4, <1>5

LEMMA OtherMapsAreSound ==
    ASSUME ChronoMapAssumption, NEW m \in OtherMaps, FromThePast(m)
    PROVE  /\ DOMAIN m.store \subseteq Keys
           /\ DOMAIN m.ttl \subseteq DOMAIN m.store
           /\ \A k \in DOMAIN m.store : Sound(m.store[k])
           /\ \A k \in DOMAIN m.ttl : m.ttl[k] \in Int
  <1>1. /\ DOMAIN m.store \subseteq Keys
        /\ DOMAIN m.ttl \subseteq DOMAIN m.store
        /\ \A k \in DOMAIN m.ttl : m.ttl[k] \in Int
        /\ \A k \in DOMAIN m.store : /\ m.store[k] \in Seq([ts : Times, val : Values])
                                     /\ Ordered(m.store[k])
    BY DEF ChronoMapAssumption
  <1>2. ASSUME NEW k \in DOMAIN m.store PROVE Sound(m.store[k])
    <2> DEFINE h == m.store[k]
               D == [ts : Times, val : Values]
    <2>1. h \in Seq(D) /\ Ordered(h)
      BY <1>1
    <2>2. \A i \in DOMAIN h : h[i].ts <= now + Lead
      BY DEF FromThePast
    <2> HIDE DEF h
    <2>3. \A i \in 1 .. Len(h) : h[i] \in Admitted
      <3> SUFFICES ASSUME NEW i \in 1 .. Len(h) PROVE h[i] \in Admitted
        OBVIOUS
      <3>1. h[i] \in D /\ h[i].ts <= now + Lead
        <4> HIDE DEF D
        <4> QED
          BY <2>1, <2>2
      <3> QED
        BY <3>1 DEF Admitted
    <2>4. Sound(h)
      BY <2>1, <2>3 DEF Sound
    <2> QED
      BY <2>4 DEF h
  <1> QED
    BY <1>1, <1>2

-----------------------------------------------------------------------------

(***************************************************************************)
(* WellFormed holds again after a call that leaves sound histories and     *)
(* times to live of keys of the store.                                     *)
(***************************************************************************)
LEMMA WellFormedAgain ==
    ASSUME WellFormed, now' = now,
           DOMAIN store' \subseteq Keys, DOMAIN ttl' \subseteq DOMAIN store',
           \A k \in DOMAIN store' : Sound(store'[k]),
           \A k \in DOMAIN ttl' : ttl'[k] \in Int
    PROVE  WellFormed'
  <1>1. Admitted' = Admitted
    BY DEF Admitted
  <1> QED
    BY <1>1 DEF WellFormed, Sound

LEMMA WrittenKeepsForm ==
    ASSUME ChronoMapAssumption, WellFormed, NEW S, S \subseteq Keys, NEW items \in [S -> Values],
           NEW t \in Times, t <= now + Lead, NEW life \in Lives, Written(items, t, life)
    PROVE  WellFormed'
  <1> DEFINE written == [k \in DOMAIN items |-> AutoPrune(Inserted(k, t, items[k]), Cap)]
  <1>1. store' = Updated(store, written) /\ now' = now /\ DOMAIN items = S
    BY DEF Written
  <1>2. \A k \in S : Sound(written[k])
    <2>1. \A k \in S : Sound(Inserted(k, t, items[k]))
      BY InsertedIsSound
    <2> QED
      BY <1>1, <2>1, CutIsSound
  <1>3. DOMAIN written = S
    BY <1>1
  <1> HIDE DEF written
  <1>4. /\ DOMAIN store' = S \cup DOMAIN store
        /\ \A k \in S : store'[k] = written[k]
        /\ \A k \in DOMAIN store \ S : store'[k] = store[k]
    BY <1>1, <1>3 DEF Updated
  <1>5. \A k \in DOMAIN store' : Sound(store'[k])
    <2>1. \A k \in DOMAIN store : Sound(store[k])
      BY DEF WellFormed, Sound
    <2> QED
      BY <1>2, <1>4, <2>1
  <1>6. DOMAIN ttl' \subseteq DOMAIN store' /\ \A k \in DOMAIN ttl' : ttl'[k] \in Int
    <2>1. CASE life = None
      <3>1. ttl' = Without(ttl, {k \in S : Expired(k)})
        BY <1>1, <2>1 DEF Written, PurgedTtl
      <3>2. DOMAIN ttl' \subseteq DOMAIN ttl /\ \A k \in DOMAIN ttl' : ttl'[k] = ttl[k]
        BY <3>1 DEF Without, Restrict
      <3> QED
        BY <1>4, <3>2 DEF WellFormed
    <2>2. CASE life # None
      <3> DEFINE lives == [k \in DOMAIN items |-> now + life]
      <3>1. ttl' = Updated(ttl, lives) /\ DOMAIN lives = S
        BY <1>1, <2>2 DEF Written
      <3>2. now + life \in Int
        <4>1. Lifetimes \subseteq Int /\ MaxTime \in Nat
          BY DEF ChronoMapAssumption
        <4>2. life \in Int
          BY <2>2, <4>1 DEF Lives
        <4>3. now \in Int
          BY <4>1 DEF WellFormed, Times
        <4> QED
          BY <4>2, <4>3
      <3>3. \A k \in S : lives[k] \in Int
        BY <1>1, <3>2
      <3> HIDE DEF lives
      <3>4. /\ DOMAIN ttl' = S \cup DOMAIN ttl
            /\ \A k \in S : ttl'[k] = lives[k]
            /\ \A k \in DOMAIN ttl \ S : ttl'[k] = ttl[k]
        BY <3>1 DEF Updated
      <3> QED
        BY <1>4, <3>3, <3>4 DEF WellFormed
    <2> QED
      BY <2>1, <2>2
  <1> QED
    BY <1>1, <1>4, <1>5, <1>6, WellFormedAgain DEF WellFormed

LEMMA RejectedKeepsForm ==
    ASSUME ChronoMapAssumption, WellFormed, NEW k \in Keys, NEW v \in Values,
           NEW t \in Times, t <= now + Lead, RejectedTtl(k, v, t)
    PROVE  WellFormed'
  <1> DEFINE one == Single(k, Inserted(k, t, v))
  <1>1. store' = Updated(store, one) /\ now' = now /\ ttl' = PurgedTtl({k})
    BY DEF RejectedTtl
  <1>2. DOMAIN one = {k} /\ Sound(one[k])
    <2>1. Sound(Inserted(k, t, v))
      BY InsertedIsSound
    <2>2. one = [j \in {k} |-> Inserted(k, t, v)]
      BY DEF Single
    <2> QED
      BY <2>1, <2>2
  <1> HIDE DEF one
  <1>3. /\ DOMAIN store' = {k} \cup DOMAIN store
        /\ store'[k] = one[k]
        /\ \A j \in DOMAIN store \ {k} : store'[j] = store[j]
    BY <1>1, <1>2 DEF Updated
  <1>4. \A j \in DOMAIN store' : Sound(store'[j])
    <2>1. \A j \in DOMAIN store : Sound(store[j])
      BY DEF WellFormed, Sound
    <2> QED
      BY <1>2, <1>3, <2>1
  <1>5. DOMAIN ttl' \subseteq DOMAIN store' /\ \A j \in DOMAIN ttl' : ttl'[j] \in Int
    <2>1. DOMAIN ttl' \subseteq DOMAIN ttl /\ \A j \in DOMAIN ttl' : ttl'[j] = ttl[j]
      BY <1>1 DEF PurgedTtl, Without, Restrict
    <2> QED
      BY <1>3, <2>1 DEF WellFormed
  <1> QED
    BY <1>1, <1>3, <1>4, <1>5, WellFormedAgain DEF WellFormed

LEMMA WrittenItems ==
    ASSUME NEW k \in Keys, NEW v \in Values
    PROVE  Single(k, v) \in [{k} -> Values]
  BY DEF Single

LEMMA GivenIsATime ==
    ASSUME ChronoMapAssumption, now \in Times, NEW at \in Moments
    PROVE  Given(at) \in Times /\ Given(at) <= now + Lead
  <1>1. now \in Int /\ Lead \in Nat /\ None \notin Int
    BY DEF ChronoMapAssumption, Times
  <1>2. now <= now + Lead
    BY <1>1
  <1> QED
    BY <1>1, <1>2 DEF Given, Moments

LEMMA PutKeepsForm ==
    ASSUME ChronoMapAssumption, WellFormed, NEW k \in Keys, NEW v \in Values,
           NEW at \in Moments, NEW life \in Lives, Put(k, v, at, life)
    PROVE  WellFormed'
  <1>1. Given(at) \in Times /\ Given(at) <= now + Lead
    BY GivenIsATime DEF WellFormed
  <1>2. Written(Single(k, v), Given(at), life) \/ RejectedTtl(k, v, Given(at))
    BY DEF Put
  <1>3. CASE Written(Single(k, v), Given(at), life)
    <2>1. Single(k, v) \in [{k} -> Values] /\ {k} \subseteq Keys
      BY WrittenItems
    <2> QED
      BY <1>1, <1>3, <2>1, WrittenKeepsForm
  <1>4. CASE RejectedTtl(k, v, Given(at))
    BY <1>1, <1>4, RejectedKeepsForm
  <1> QED
    BY <1>2, <1>3, <1>4

LEMMA PutManyKeepsForm ==
    ASSUME ChronoMapAssumption, WellFormed, NEW items \in Items,
           NEW at \in Moments, NEW life \in Lives, PutMany(items, at, life)
    PROVE  WellFormed'
  <1>1. Given(at) \in Times /\ Given(at) <= now + Lead
    BY GivenIsATime DEF WellFormed
  <1>2. PICK S \in SUBSET Keys : items \in [S -> Values]
    BY DEF Items
  <1>3. \/ Written(items, Given(at), life)
        \/ \E k \in DOMAIN items : RejectedTtl(k, items[k], Given(at))
    BY DEF PutMany
  <1>4. CASE Written(items, Given(at), life)
    BY <1>1, <1>2, <1>4, WrittenKeepsForm
  <1>5. ASSUME NEW k \in DOMAIN items, RejectedTtl(k, items[k], Given(at))
        PROVE  WellFormed'
    <2>1. k \in Keys /\ items[k] \in Values
      BY <1>2
    <2> QED
      BY <1>1, <1>5, <2>1, RejectedKeepsForm
  <1> QED
    BY <1>3, <1>4, <1>5

LEMMA UnchangedKeepsForm ==
    ASSUME WellFormed, UNCHANGED <<store, ttl, now>>
    PROVE  WellFormed'
  BY DEF WellFormed, Admitted

LEMMA GetOrSetKeepsForm ==
    ASSUME ChronoMapAssumption, WellFormed, NEW k \in Keys, NEW v \in Values,
           NEW life \in Lives, GetOrSet(k, v, life)
    PROVE  WellFormed'
  <1>1. UNCHANGED <<store, ttl, now>> \/ Written(Single(k, v), now, life)
    BY DEF GetOrSet
  <1>2. CASE Written(Single(k, v), now, life)
    <2>1. Single(k, v) \in [{k} -> Values] /\ {k} \subseteq Keys
      BY WrittenItems
    <2>2. now \in Times /\ now <= now + Lead
      BY DEF WellFormed, Times, ChronoMapAssumption
    <2> QED
      BY <1>2, <2>1, <2>2, WrittenKeepsForm
  <1> QED
    BY <1>1, <1>2, UnchangedKeepsForm

(***************************************************************************)
(* Dropping keys of the store together with their times to live.           *)
(***************************************************************************)
LEMMA RemovalKeepsForm ==
    ASSUME WellFormed, NEW S, NEW T, now' = now,
           store' = Without(store, S), ttl' = Without(ttl, T),
           S \cap DOMAIN ttl \subseteq T
    PROVE  WellFormed'
  <1>1. /\ DOMAIN store' = DOMAIN store \ S
        /\ \A k \in DOMAIN store' : store'[k] = store[k]
    BY DEF Without, Restrict
  <1>2. /\ DOMAIN ttl' = DOMAIN ttl \ T
        /\ \A k \in DOMAIN ttl' : ttl'[k] = ttl[k]
    BY DEF Without, Restrict
  <1>3. \A k \in DOMAIN store' : Sound(store'[k])
    BY <1>1 DEF WellFormed, Sound
  <1> QED
    BY <1>1, <1>2, <1>3, WellFormedAgain DEF WellFormed

LEMMA DeleteKeepsForm ==
    ASSUME WellFormed, NEW S, Delete(S)
    PROVE  WellFormed'
  <1>1. S \cap DOMAIN ttl \subseteq S \cap DOMAIN store
    BY DEF WellFormed
  <1>2. store' = Without(store, S) /\ ttl' = Without(ttl, S \cap DOMAIN store) /\ now' = now
    BY DEF Delete
  <1> QED
    BY <1>1, <1>2, RemovalKeepsForm

LEMMA FactoryKeepsForm ==
    ASSUME WellFormed, NEW k, FactoryRaises(k)
    PROVE  WellFormed'
  <1> DEFINE purged == {j \in {k} : Expired(j)}
  <1>1. store' = Without(store, purged) /\ ttl' = Without(ttl, purged) /\ now' = now
    BY DEF FactoryRaises
  <1> QED
    BY <1>1, RemovalKeepsForm

LEMMA CleanKeepsForm ==
    ASSUME WellFormed, CleanExpiredKeys
    PROVE  WellFormed'
  <1> DEFINE expired == {k \in DOMAIN ttl : Expired(k)}
  <1>1. store' = Without(store, expired) /\ ttl' = Without(ttl, expired) /\ now' = now
    BY DEF CleanExpiredKeys
  <1> QED
    BY <1>1, RemovalKeepsForm

LEMMA ShortenedIsSound ==
    ASSUME NEW g, NEW h, Shortened(g, h, Admitted)
    PROVE  Sound(g)
  BY DEF Shortened, Sound

LEMMA PruneKeepsForm ==
    ASSUME ChronoMapAssumption, WellFormed,
           NEW keep \in {None} \cup KeepArgs, NEW older \in {None} \cup Cutoffs,
           Prune(keep, older)
    PROVE  WellFormed'
  <1>1. now \in Times /\ \A k \in DOMAIN store : Sound(store[k])
    BY DEF WellFormed, Sound
  <1>2. ASSUME NEW S, PruneKeys(S, keep, older)
        PROVE  WellFormed'
    <2>1. /\ older # Unparsable /\ ttl' = ttl /\ now' = now
          /\ store' = [k \in DOMAIN store |->
                         IF k \in S THEN Pruned(store[k], keep, older) ELSE store[k]]
      BY <1>2 DEF PruneKeys
    <2>2. ASSUME NEW k \in DOMAIN store PROVE Sound(store'[k])
      <3>1. Sound(Pruned(store[k], keep, older))
        BY <1>1, <2>1, PrunedIsShortened, ShortenedIsSound
      <3> QED
        BY <1>1, <2>1, <3>1
    <2> QED
      BY <2>1, <2>2, WellFormedAgain DEF WellFormed
  <1>3. ASSUME NEW k \in Keys, PruneFails(k, keep)
        PROVE  WellFormed'
    <2>1. /\ k \in DOMAIN store /\ ttl' = ttl /\ now' = now
          /\ store' = [store EXCEPT ![k] = Pruned(store[k], keep, None)]
      BY <1>3 DEF PruneFails
    <2>2. Sound(Pruned(store[k], keep, None))
      <3>1. None # Unparsable
        BY DEF ChronoMapAssumption
      <3> QED
        BY <1>1, <2>1, <3>1, PrunedIsShortened, ShortenedIsSound
    <2>3. \A j \in DOMAIN store : Sound(store'[j])
      BY <1>1, <2>1, <2>2
    <2> QED
      BY <2>1, <2>3, WellFormedAgain DEF WellFormed
  <1> QED
    BY <1>2, <1>3 DEF Prune

(***************************************************************************)
(* Each history of the merged map is in order again.                       *)
(***************************************************************************)
LEMMA AbsorbedIsSound ==
    ASSUME now \in Times, NEW h, Sound(h), NEW others, Sound(others)
    PROVE  Sound(Absorb(h, others))
  <1>1. Timed(Admitted)
    BY AdmittedIsTimed
  <1>2. h \in Seq(Admitted) /\ Ordered(h) /\ others \in Seq(Admitted)
    BY DEF Sound
  <1> HIDE DEF Admitted
  <1> QED
    BY <1>1, <1>2, AbsorbOrdered DEF Sound

LEMMA MergedTtlFacts ==
    ASSUME NEW m
    PROVE  /\ DOMAIN MergedTtl(m) \subseteq DOMAIN ttl \cup DOMAIN m.ttl
           /\ \A k \in DOMAIN MergedTtl(m) :
                 \/ k \in DOMAIN ttl /\ MergedTtl(m)[k] = ttl[k]
                 \/ k \in DOMAIN m.ttl /\ MergedTtl(m)[k] = m.ttl[k]
  BY DEF MergedTtl, Updated

LEMMA MergeTimestampKeepsForm ==
    ASSUME ChronoMapAssumption, WellFormed, NEW m \in OtherMaps, MergeTimestamp(m)
    PROVE  WellFormed'
  <1>1. FromThePast(m) /\ store' = MergedStore(m) /\ ttl' = MergedTtl(m) /\ now' = now
    BY DEF MergeTimestamp, Mergeable
  <1>2. /\ DOMAIN m.store \subseteq Keys /\ DOMAIN m.ttl \subseteq DOMAIN m.store
        /\ \A k \in DOMAIN m.store : Sound(m.store[k])
        /\ \A k \in DOMAIN m.ttl : m.ttl[k] \in Int
    BY <1>1, OtherMapsAreSound
  <1>3. /\ DOMAIN store' = DOMAIN store \cup DOMAIN m.store
        /\ \A k \in DOMAIN m.store :
              store'[k] = AutoPrune(Absorb(Versions(k), m.store[k]), Cap)
        /\ \A k \in DOMAIN store \ DOMAIN m.store : store'[k] = store[k]
    BY <1>1 DEF MergedStore, Updated
  <1>4. ASSUME NEW k \in DOMAIN m.store
        PROVE  Sound(AutoPrune(Absorb(Versions(k), m.store[k]), Cap))
    <2>1. Sound(Absorb(Versions(k), m.store[k]))
      BY <1>2, CurrentIsSound, AbsorbedIsSound DEF WellFormed
    <2> QED
      BY <2>1, CutIsSound
  <1>5. \A k \in DOMAIN store' : Sound(store'[k])
    BY <1>3, <1>4 DEF WellFormed, Sound
  <1>6. DOMAIN ttl' \subseteq DOMAIN store' /\ \A k \in DOMAIN ttl' : ttl'[k] \in Int
    BY <1>1, <1>2, <1>3, MergedTtlFacts DEF WellFormed
  <1> QED
    BY <1>1, <1>2, <1>3, <1>5, <1>6, WellFormedAgain DEF WellFormed

LEMMA MergeOverwriteKeepsForm ==
    ASSUME ChronoMapAssumption, WellFormed, NEW m \in OtherMaps, MergeOverwrite(m)
    PROVE  WellFormed'
  <1>1. /\ FromThePast(m) /\ now' = now
        /\ store' = Updated(store, m.store) /\ ttl' = Updated(ttl, m.ttl)
    BY DEF MergeOverwrite, Mergeable
  <1>2. /\ DOMAIN m.store \subseteq Keys /\ DOMAIN m.ttl \subseteq DOMAIN m.store
        /\ \A k \in DOMAIN m.store : Sound(m.store[k])
        /\ \A k \in DOMAIN m.ttl : m.ttl[k] \in Int
    BY <1>1, OtherMapsAreSound
  <1>3. \A k \in DOMAIN store' : Sound(store'[k])
    BY <1>1, <1>2 DEF Updated, WellFormed, Sound
  <1>4. /\ DOMAIN store' = DOMAIN store \cup DOMAIN m.store
        /\ DOMAIN ttl' = DOMAIN ttl \cup DOMAIN m.ttl
        /\ \A k \in DOMAIN ttl' : ttl'[k] \in Int
    BY <1>1, <1>2 DEF Updated, WellFormed
  <1> QED
    BY <1>1, <1>2, <1>3, <1>4, WellFormedAgain DEF WellFormed

LEMMA RollbackKeepsForm ==
    ASSUME ChronoMapAssumption, WellFormed, NEW m \in OtherMaps, Rollback(m)
    PROVE  WellFormed'
  <1>1. FromThePast(m) /\ now' = now /\ store' = m.store /\ ttl' = m.ttl
    BY DEF Rollback
  <1> QED
    BY <1>1, OtherMapsAreSound, WellFormedAgain

LEMMA ClearKeepsForm ==
    ASSUME WellFormed, Clear
    PROVE  WellFormed'
  <1>1. store' = EmptyDict /\ ttl' = EmptyDict /\ now' = now
    BY DEF Clear
  <1>2. DOMAIN EmptyDict = {}
    BY DEF EmptyDict
  <1> QED
    BY <1>1, <1>2, WellFormedAgain

LEMMA TickKeepsForm ==
    ASSUME ChronoMapAssumption, WellFormed, Tick
    PROVE  WellFormed'
  <1>1. now' = now + 1 /\ now < MaxTime /\ store' = store /\ ttl' = ttl
    BY DEF Tick
  <1>2. now \in Times /\ now' \in Times /\ now <= now'
    BY <1>1 DEF WellFormed, Times, ChronoMapAssumption
  <1>3. \A k \in DOMAIN store' : store'[k] \in Seq(Admitted') /\ Ordered(store'[k])
    <2>1. \A k \in DOMAIN store : Sound(store[k])
      BY DEF WellFormed, Sound
    <2> QED
      BY <1>1, <1>2, <2>1, SoundStaysSound
  <1> QED
    BY <1>1, <1>2, <1>3 DEF WellFormed

LEMMA AskChangesNothing == Ask => UNCHANGED <<store, ttl, cache, now>>
  BY DEF Ask, Latest, ListKeys, Query, KeysByValue, IsIn, History, GetRange, Answer

(***************************************************************************)
(* After any sequence of calls, those that raise halfway included, every   *)
(* history is sorted and every time to live is one of a key of the store.  *)
(***************************************************************************)
THEOREM HistoriesStayWellFormed == Spec => []WellFormed
  <1> USE ChronoMapAssumption
  <1>1. Init => WellFormed
    BY DEF Init, WellFormed, EmptyDict, Times, ChronoMapAssumption
  <1>2. ASSUME WellFormed, [Next]_vars
        PROVE  WellFormed'
    <2>1. CASE Tick
      BY <1>2, <2>1, TickKeepsForm
    <2>2. CASE \E k \in Keys, v \in Values, at \in Moments, life \in Lives : Put(k, v, at, life)
      BY <1>2, <2>2, PutKeepsForm
    <2>3. CASE \E items \in Items, at \in Moments, life \in Lives : PutMany(items, at, life)
      BY <1>2, <2>3, PutManyKeepsForm
    <2>4. CASE \E k \in Keys, v \in Values, life \in Lives : GetOrSet(k, v, life)
      BY <1>2, <2>4, GetOrSetKeepsForm
    <2>5. CASE \E k \in Keys, at \in {None} \cup Times : Get(k, at)
      BY <1>2, <2>5, UnchangedKeepsForm DEF Get
    <2>6. CASE \E S \in SUBSET Keys : Delete(S)
      BY <1>2, <2>6, DeleteKeepsForm
    <2>7. CASE \E keep \in {None} \cup KeepArgs, older \in {None} \cup Cutoffs : Prune(keep, older)
      BY <1>2, <2>7, PruneKeepsForm
    <2>8. CASE \E m \in OtherMaps : MergeTimestamp(m) \/ MergeOverwrite(m) \/ Rollback(m)
      BY <1>2, <2>8, MergeTimestampKeepsForm, MergeOverwriteKeepsForm, RollbackKeepsForm
    <2>9. CASE Clear
      BY <1>2, <2>9, ClearKeepsForm
    <2>10. CASE CleanExpiredKeys
      BY <1>2, <2>10, CleanKeepsForm
    <2>11. CASE ResetStats
      BY <1>2, <2>11, UnchangedKeepsForm DEF ResetStats
    <2>14. CASE Ask
      BY <1>2, <2>14, AskChangesNothing, UnchangedKeepsForm
    <2>12. CASE UNCHANGED vars
      BY <1>2, <2>12, UnchangedKeepsForm DEF vars
    <2>13. CASE \E k \in Keys : FactoryRaises(k)
      BY <1>2, <2>13, FactoryKeepsForm
    <2> QED
      BY <1>2, <2>1, <2>2, <2>3, <2>4, <2>5, <2>6, <2>7, <2>8, <2>9, <2>10, <2>11, <2>12, <2>13, <2>14
         DEF Next
  <1> QED
    BY <1>1, <1>2, PTL DEF Spec

-----------------------------------------------------------------------------

(***************************************************************************)
(* The cache is to be trusted when timestamps are not ahead of the clock   *)
(* and no call raises halfway.                                             *)
(***************************************************************************)
WellUsed ==
    /\ Lead = 0
    /\ \A life \in Lifetimes : life > 0
    /\ Unparsable \notin Cutoffs

(***************************************************************************)
(* An answer that was right is right still if its key's history is the     *)
(* same and the key is no more alive than it was.                          *)
(***************************************************************************)
LEMMA AnswersOutlastACall ==
    ASSUME CacheTellsTheTruth, now' = now,
           \A e \in cache' :
              /\ e \in cache
              /\ ~(Expired(e.key))' => ~Expired(e.key) /\ (Versions(e.key))' = Versions(e.key)
    PROVE  CacheTellsTheTruth'
  <1> SUFFICES ASSUME NEW e \in cache', ~(Expired(e.key))'
               PROVE  e.val = (AsOf(e.key, Given(e.at)))'
    BY DEF CacheTellsTheTruth
  <1>1. e.val = AsOf(e.key, Given(e.at)) /\ ~Expired(e.key) /\ (Versions(e.key))' = Versions(e.key)
    BY DEF CacheTellsTheTruth
  <1>2. (Current(e.key))' = Current(e.key)
    BY <1>1 DEF Current
  <1>3. (Given(e.at))' = Given(e.at)
    BY DEF Given
  <1> QED
    BY <1>1, <1>2, <1>3 DEF AsOf

LEMMA SameKeysSameAnswers ==
    ASSUME CacheTellsTheTruth, now' = now, cache' \subseteq cache,
           \A e \in cache' :
              /\ e.key \in DOMAIN ttl' <=> e.key \in DOMAIN ttl
              /\ e.key \in DOMAIN ttl => ttl'[e.key] = ttl[e.key]
              /\ e.key \in DOMAIN store' <=> e.key \in DOMAIN store
              /\ e.key \in DOMAIN store => store'[e.key] = store[e.key]
    PROVE  CacheTellsTheTruth'
  <1>1. ASSUME NEW e \in cache'
        PROVE  (Expired(e.key))' = Expired(e.key) /\ (Versions(e.key))' = Versions(e.key)
    BY DEF Expired, Versions
  <1> QED
    BY <1>1, AnswersOutlastACall

LEMMA WrittenKeepsTruth ==
    ASSUME WellFormed, CacheTellsTheTruth, NEW items, NEW t, NEW life, Written(items, t, life)
    PROVE  CacheTellsTheTruth'
  <1>1. /\ DOMAIN store' = DOMAIN store \cup DOMAIN items /\ now' = now
        /\ \A k \in DOMAIN store \ DOMAIN items : store'[k] = store[k]
    BY DEF Written, Updated
  <1>2. /\ \A k : k \notin DOMAIN items => (k \in DOMAIN ttl' <=> k \in DOMAIN ttl)
        /\ \A k \in DOMAIN ttl \ DOMAIN items : ttl'[k] = ttl[k]
    <2>1. CASE life = None
      <3>1. ttl' = Without(ttl, {k \in DOMAIN items : Expired(k)})
        BY <2>1 DEF Written, PurgedTtl
      <3> QED
        BY <3>1 DEF Without, Restrict
    <2>2. CASE life # None
      <3>1. ttl' = Updated(ttl, [k \in DOMAIN items |-> now + life])
        BY <2>2 DEF Written
      <3> QED
        BY <3>1 DEF Updated
    <2> QED
      BY <2>1, <2>2
  <1>3. cache' = {e \in cache : e.key \notin DOMAIN items}
    BY DEF Written, Cache!Drop
  <1> QED
    BY <1>1, <1>2, <1>3, SameKeysSameAnswers

LEMMA RemovalKeepsTruth ==
    ASSUME CacheTellsTheTruth, NEW S, NEW T, now' = now,
           store' = Without(store, S), ttl' = Without(ttl, T),
           \A e \in cache' : e \in cache /\ e.key \notin S \cap DOMAIN store
                                         /\ e.key \notin T \cap DOMAIN ttl
    PROVE  CacheTellsTheTruth'
  <1>1. /\ DOMAIN store' = DOMAIN store \ S
        /\ \A k \in DOMAIN store' : store'[k] = store[k]
    BY DEF Without, Restrict
  <1>2. /\ DOMAIN ttl' = DOMAIN ttl \ T
        /\ \A k \in DOMAIN ttl' : ttl'[k] = ttl[k]
    BY DEF Without, Restrict
  <1> QED
    BY <1>1, <1>2, SameKeysSameAnswers

LEMMA GetKeepsTruth ==
    ASSUME CacheTellsTheTruth, NEW k, NEW at, Get(k, at)
    PROVE  CacheTellsTheTruth'
  <1> DEFINE new == [key |-> k, at |-> at, val |-> AsOf(k, Given(at))]
  <1>1. store' = store /\ ttl' = ttl /\ now' = now
    BY DEF Get
  <1>2. ASSUME NEW e \in cache' PROVE e \in cache \/ e = new
    BY DEF Get, Cache!Drop, Cache!Keep, Cache!For
  <1>3. new.key = k /\ new.at = at /\ new.val = AsOf(k, Given(at))
    OBVIOUS
  <1> HIDE DEF new
  <1>4. ASSUME NEW e \in cache', ~Expired(e.key) PROVE e.val = AsOf(e.key, Given(e.at))
    BY <1>2, <1>3, <1>4 DEF CacheTellsTheTruth
  <1> QED
    BY <1>1, <1>4 DEF CacheTellsTheTruth, Expired, AsOf, Current, Versions, Given

LEMMA PruneKeepsTruth ==
    ASSUME ChronoMapAssumption, WellUsed, WellFormed, CacheTellsTheTruth,
           NEW keep \in {None} \cup KeepArgs, NEW older \in {None} \cup Cutoffs,
           Prune(keep, older)
    PROVE  CacheTellsTheTruth'
  <1>1. PICK S : PruneKeys(S, keep, older)
    BY DEF Prune, PruneFails, WellUsed
  <1>2. /\ older # Unparsable /\ ttl' = ttl /\ now' = now /\ DOMAIN store' = DOMAIN store
        /\ \A k \in DOMAIN store :
              store'[k] = IF k \in S THEN Pruned(store[k], keep, older) ELSE store[k]
        /\ cache' = {e \in cache :
                       e.key \notin {k \in S \cap DOMAIN store : Len(store'[k]) < Len(store[k])}}
    BY <1>1 DEF PruneKeys, Cache!Drop
  <1>3. ASSUME NEW k \in DOMAIN store, ~(k \in S /\ Len(store'[k]) < Len(store[k]))
        PROVE  store'[k] = store[k]
    <2>1. CASE k \in S
      <3>1. Sound(store[k]) /\ now \in Times
        BY DEF WellFormed, Sound
      <3>2. Shortened(store'[k], store[k], Admitted)
        <4>1. Shortened(Pruned(store[k], keep, older), store[k], Admitted)
          <5>1. older # Unparsable
            BY <1>2
          <5> QED
            BY <3>1, <5>1, PrunedIsShortened
        <4>2. store'[k] = Pruned(store[k], keep, older)
          BY <1>2, <2>1
        <4> QED
          BY <4>1, <4>2
      <3>3. Len(store'[k]) \in Nat /\ Len(store[k]) \in Nat
        <4> HIDE DEF Admitted
        <4> QED
          BY <3>1, <3>2 DEF Shortened, Sound
      <3> QED
        BY <1>3, <2>1, <3>2, <3>3 DEF Shortened
    <2> QED
      BY <1>2, <2>1
  <1> QED
    BY <1>2, <1>3, SameKeysSameAnswers

(***************************************************************************)
(* The newest version is in force when no version is ahead of the clock.   *)
(***************************************************************************)
LEMMA NewestIsInForce ==
    ASSUME Lead = 0, now \in Times, NEW h, Sound(h), NEW t \in Int, now <= t
    PROVE  IndexAsOf(h, t) = Len(h)
  <1>1. \A i \in 1 .. Len(h) : h[i].ts <= t
    <2>1. ASSUME NEW i \in 1 .. Len(h) PROVE h[i] \in Admitted
      BY DEF Sound
    <2>2. now \in Int
      BY DEF Times
    <2>3. ASSUME NEW d \in Admitted PROVE d.ts <= t
      BY <2>2 DEF Admitted, Times
    <2> QED
      BY <2>1, <2>3
  <1>2. Timed(Admitted) /\ h \in Seq(Admitted) /\ Ordered(h)
    BY AdmittedIsTimed DEF Sound
  <1> HIDE DEF Admitted
  <1>3. /\ BisectRight(h, t) \in 0 .. Len(h)
        /\ \A j \in BisectRight(h, t) + 1 .. Len(h) : t < h[j].ts
    BY <1>2, BisectRightFinds
  <1>4. Timed(Admitted) => \A j \in 1 .. Len(h) : h[j].ts \in Int
    <2>1. \A j \in 1 .. Len(h) : h[j] \in Admitted
      BY <1>2
    <2> QED
      BY <2>1 DEF Timed
  <1>5. Len(h) \in Nat
    BY <1>2
  <1>6. ASSUME BisectRight(h, t) < Len(h) PROVE FALSE
    <2>1. Len(h) \in BisectRight(h, t) + 1 .. Len(h) /\ Len(h) \in 1 .. Len(h)
      BY <1>3, <1>5, <1>6
    <2>2. t < h[Len(h)].ts /\ h[Len(h)].ts <= t /\ h[Len(h)].ts \in Int
      BY <1>1, <1>2, <1>3, <1>4, <2>1
    <2> QED
      BY <2>2
  <1> QED
    BY <1>3, <1>5, <1>6 DEF IndexAsOf

LEMMA TickKeepsTruth ==
    ASSUME ChronoMapAssumption, Lead = 0, WellFormed, CacheTellsTheTruth, Tick
    PROVE  CacheTellsTheTruth'
  <1>1. now' = now + 1 /\ store' = store /\ ttl' = ttl /\ cache' = cache
    BY DEF Tick
  <1>2. now \in Times /\ now \in Int
    BY DEF WellFormed, Times
  <1> SUFFICES ASSUME NEW e \in cache, ~(Expired(e.key))'
               PROVE  e.val = (AsOf(e.key, Given(e.at)))'
    BY <1>1 DEF CacheTellsTheTruth
  <1>3. ~Expired(e.key)
    BY <1>1, <1>2 DEF Expired, WellFormed
  <1>4. e.val = AsOf(e.key, Given(e.at))
    BY <1>3 DEF CacheTellsTheTruth
  <1>5. (Current(e.key))' = Current(e.key)
    BY <1>1, <1>3 DEF Current, Versions
  <1>6. IndexAsOf(Current(e.key), (Given(e.at))') = IndexAsOf(Current(e.key), Given(e.at))
    <2>1. CASE e.at = None
      <3>1. Given(e.at) = now /\ (Given(e.at))' = now + 1
        BY <1>1, <2>1 DEF Given
      <3>2. Sound(Current(e.key))
        BY CurrentIsSound
      <3>3. now <= now /\ now <= now + 1 /\ now + 1 \in Int
        BY <1>2
      <3> QED
        BY <1>2, <3>1, <3>2, <3>3, NewestIsInForce
    <2>2. CASE e.at # None
      BY <2>2 DEF Given
    <2> QED
      BY <2>1, <2>2
  <1> QED
    BY <1>4, <1>5, <1>6 DEF AsOf

(***************************************************************************)
(* When the map is well used, an answer of the cache is always the answer  *)
(* of the histories: every call that changes a history drops the answers   *)
(* it makes wrong.  Each hypothesis of WellUsed is needed: README.md tells *)
(* how TLC refutes the property without it.                                *)
(***************************************************************************)
THEOREM CacheStaysTruthful ==
    ASSUME WellUsed
    PROVE  Spec => []CacheTellsTheTruth
  <1> USE ChronoMapAssumption
  <1>1. Init => CacheTellsTheTruth
    BY DEF Init, Cache!Init, CacheTellsTheTruth
  <1>2. ASSUME WellFormed, CacheTellsTheTruth, [Next]_vars
        PROVE  CacheTellsTheTruth'
    <2>0. \A life \in Lives : Acceptable(life)
      BY DEF WellUsed, Lives, Acceptable
    <2>1. CASE Tick
      BY <1>2, <2>1, TickKeepsTruth DEF WellUsed
    <2>2. CASE \E k \in Keys, v \in Values, at \in Moments, life \in Lives : Put(k, v, at, life)
      BY <1>2, <2>0, <2>2, WrittenKeepsTruth DEF Put
    <2>3. CASE \E items \in Items, at \in Moments, life \in Lives : PutMany(items, at, life)
      BY <1>2, <2>0, <2>3, WrittenKeepsTruth DEF PutMany
    <2>4. CASE \E k \in Keys, v \in Values, life \in Lives : GetOrSet(k, v, life)
      <3>1. PICK k \in Keys, v \in Values, life \in Lives : GetOrSet(k, v, life)
        BY <2>4
      <3>2. CASE Written(Single(k, v), now, life)
        BY <1>2, <3>2, WrittenKeepsTruth
      <3>3. CASE UNCHANGED <<store, ttl, cache, now>>
        BY <1>2, <3>3, SameKeysSameAnswers
      <3> QED
        BY <3>1, <3>2, <3>3 DEF GetOrSet
    <2>5. CASE \E k \in Keys, at \in {None} \cup Times : Get(k, at)
      BY <1>2, <2>5, GetKeepsTruth
    <2>6. CASE \E S \in SUBSET Keys : Delete(S)
      <3>1. PICK S \in SUBSET Keys : Delete(S)
        BY <2>6
      <3>2. /\ store' = Without(store, S) /\ ttl' = Without(ttl, S \cap DOMAIN store) /\ now' = now
            /\ \A e \in cache' : e \in cache /\ e.key \notin S \cap DOMAIN store
        BY <3>1 DEF Delete, Cache!Drop
      <3> QED
        BY <1>2, <3>2, RemovalKeepsTruth DEF WellFormed
    <2>7. CASE \E keep \in {None} \cup KeepArgs, older \in {None} \cup Cutoffs : Prune(keep, older)
      BY <1>2, <2>7, PruneKeepsTruth
    <2>8. CASE cache' = {}
      BY <2>8 DEF CacheTellsTheTruth
    <2>9. CASE \E m \in OtherMaps : MergeTimestamp(m) \/ MergeOverwrite(m) \/ Rollback(m)
      BY <2>8, <2>9 DEF MergeTimestamp, MergeOverwrite, Rollback, Cache!Empty
    <2>10. CASE Clear \/ ResetStats
      BY <2>8, <2>10 DEF Clear, ResetStats, Cache!Empty
    <2>11. CASE CleanExpiredKeys
      <3> DEFINE expired == {k \in DOMAIN ttl : Expired(k)}
      <3>1. /\ store' = Without(store, expired) /\ ttl' = Without(ttl, expired) /\ now' = now
            /\ \A e \in cache' : e \in cache /\ e.key \notin expired
        BY <2>11 DEF CleanExpiredKeys, Cache!Drop
      <3> QED
        BY <1>2, <3>1, RemovalKeepsTruth
    <2>12. CASE UNCHANGED vars
      BY <1>2, <2>12, SameKeysSameAnswers DEF vars
    <2>14. CASE Ask
      BY <1>2, <2>14, AskChangesNothing, SameKeysSameAnswers
    <2>13. CASE \E k \in Keys : FactoryRaises(k)
      <3>1. PICK k \in Keys : FactoryRaises(k)
        BY <2>13
      <3> DEFINE purged == {j \in {k} : Expired(j)}
      <3>2. /\ store' = Without(store, purged) /\ ttl' = Without(ttl, purged) /\ now' = now
            /\ \A e \in cache' : e \in cache /\ e.key \notin purged
        BY <3>1 DEF FactoryRaises, Cache!Drop
      <3> QED
        BY <1>2, <3>2, RemovalKeepsTruth
    <2> QED
      BY <1>2, <2>1, <2>2, <2>3, <2>4, <2>5, <2>6, <2>7, <2>9, <2>10, <2>11, <2>12, <2>13, <2>14 DEF Next
  <1>3. Spec => []WellFormed
    BY HistoriesStayWellFormed
  <1> QED
    BY <1>1, <1>2, <1>3, PTL DEF Spec

-----------------------------------------------------------------------------

(***************************************************************************)
(* Only a key that has versions is looked up with success.                 *)
(***************************************************************************)
LEMMA NothingInForceOfNoKey ==
    ASSUME ChronoMapAssumption, WellFormed, NEW k, k \notin DOMAIN store,
           NEW at \in {None} \cup Times
    PROVE  IndexAsOf(Current(k), Given(at)) = 0
  <1>1. Current(k) = << >> /\ Sound(<< >>) /\ Timed(Admitted)
    BY CurrentIsSound, AdmittedIsTimed DEF Current, Versions, WellFormed
  <1>2. << >> \in Seq(Admitted) /\ Ordered(<< >>) /\ Len(<< >>) = 0
    BY DEF Ordered
  <1>3. Given(at) \in Int
    BY DEF Given, WellFormed, Times
  <1> HIDE DEF Admitted
  <1>4. BisectRight(<< >>, Given(at)) \in 0 .. Len(<< >>)
    BY <1>1, <1>2, <1>3, BisectRightFinds
  <1> QED
    BY <1>1, <1>2, <1>4 DEF IndexAsOf

LEMMA GetKeepsGhostsOut ==
    ASSUME ChronoMapAssumption, WellFormed, NoGhosts,
           NEW k \in Keys, NEW at \in {None} \cup Times, Get(k, at)
    PROVE  NoGhosts'
  <1>1. ASSUME NEW e \in cache'
        PROVE  e \in cache \/ (e.key = k /\ IndexAsOf(Current(k), Given(at)) # 0)
    BY DEF Get, Cache!Drop, Cache!Keep, Cache!For
  <1>2. store' = store
    BY DEF Get
  <1> QED
    BY <1>1, <1>2, NothingInForceOfNoKey DEF NoGhosts

LEMMA GrowthKeepsGhostsOut ==
    ASSUME NoGhosts, cache' \subseteq cache, DOMAIN store \subseteq DOMAIN store'
    PROVE  NoGhosts'
  BY DEF NoGhosts

LEMMA RemovalKeepsGhostsOut ==
    ASSUME NoGhosts, NEW S, store' = Without(store, S),
           \A e \in cache' : e \in cache /\ e.key \notin S
    PROVE  NoGhosts'
  BY DEF NoGhosts, Without, Restrict

LEMMA PutsGrow ==
    ASSUME NEW items, NEW t, NEW life,
           \/ Written(items, t, life)
           \/ \E k \in DOMAIN items : RejectedTtl(k, items[k], t)
    PROVE  cache' \subseteq cache /\ DOMAIN store \subseteq DOMAIN store'
  BY DEF Written, RejectedTtl, Updated, Cache!Drop

(***************************************************************************)
(* However the map is used, calls that raise halfway included: no answer   *)
(* stays in the cache once its key has left the store, be it deleted,      *)
(* swept, purged, rolled back or cleared away.                             *)
(***************************************************************************)
THEOREM CacheHasNoGhosts == Spec => []NoGhosts
  <1> USE ChronoMapAssumption
  <1>1. Init => NoGhosts
    BY DEF Init, Cache!Init, NoGhosts
  <1>2. ASSUME WellFormed, NoGhosts, [Next]_vars
        PROVE  NoGhosts'
    <2>11. CASE Ask
      BY <1>2, <2>11, AskChangesNothing, GrowthKeepsGhostsOut
    <2>1. CASE Tick \/ ResetStats \/ UNCHANGED vars
      BY <1>2, <2>1, GrowthKeepsGhostsOut DEF Tick, ResetStats, vars, Cache!Empty
    <2>2. CASE \E k \in Keys, v \in Values, at \in Moments, life \in Lives : Put(k, v, at, life)
      <3>1. PICK k \in Keys, v \in Values, at \in Moments, life \in Lives : Put(k, v, at, life)
        BY <2>2
      <3>2. CASE Written(Single(k, v), Given(at), life)
        BY <1>2, <3>2, PutsGrow, GrowthKeepsGhostsOut
      <3>3. CASE RejectedTtl(k, v, Given(at))
        <4>1. cache' \subseteq cache
          BY <3>3 DEF RejectedTtl, Cache!Drop
        <4>2. DOMAIN store \subseteq DOMAIN store'
          BY <3>3 DEF RejectedTtl, Updated
        <4> QED
          BY <1>2, <4>1, <4>2, GrowthKeepsGhostsOut
      <3> QED
        BY <3>1, <3>2, <3>3 DEF Put
    <2>3. CASE \E items \in Items, at \in Moments, life \in Lives : PutMany(items, at, life)
      BY <1>2, <2>3, PutsGrow, GrowthKeepsGhostsOut DEF PutMany
    <2>4. CASE \E k \in Keys, v \in Values, life \in Lives : GetOrSet(k, v, life)
      BY <1>2, <2>4, PutsGrow, GrowthKeepsGhostsOut DEF GetOrSet
    <2>5. CASE \E k \in Keys : FactoryRaises(k)
      BY <1>2, <2>5, RemovalKeepsGhostsOut DEF FactoryRaises, Cache!Drop
    <2>6. CASE \E k \in Keys, at \in {None} \cup Times : Get(k, at)
      BY <1>2, <2>6, GetKeepsGhostsOut
    <2>7. CASE \E S \in SUBSET Keys : Delete(S)
      <3>1. PICK S \in SUBSET Keys : Delete(S)
        BY <2>7
      <3>2. /\ store' = Without(store, S)
            /\ \A e \in cache' : e \in cache /\ e.key \notin S
        BY <1>2, <3>1 DEF Delete, Cache!Drop, NoGhosts
      <3> QED
        BY <1>2, <3>2, RemovalKeepsGhostsOut
    <2>8. CASE \E keep \in {None} \cup KeepArgs, older \in {None} \cup Cutoffs : Prune(keep, older)
      BY <1>2, <2>8, GrowthKeepsGhostsOut DEF Prune, PruneKeys, PruneFails, Cache!Drop
    <2>9. CASE Clear \/ \E m \in OtherMaps : MergeTimestamp(m) \/ MergeOverwrite(m) \/ Rollback(m)
      BY <2>9 DEF Clear, MergeTimestamp, MergeOverwrite, Rollback, Cache!Empty, NoGhosts
    <2>10. CASE CleanExpiredKeys
      BY <1>2, <2>10, RemovalKeepsGhostsOut DEF CleanExpiredKeys, Cache!Drop
    <2> QED
      BY <1>2, <2>1, <2>2, <2>3, <2>4, <2>5, <2>6, <2>7, <2>8, <2>9, <2>10, <2>11 DEF Next
  <1> QED
    BY <1>1, <1>2, HistoriesStayWellFormed, PTL DEF Spec

-----------------------------------------------------------------------------
(***************************************************************************)
(* The refinement of TimeMap.  Its operators are those of this module.     *)
(***************************************************************************)
LEMMA SameDicts ==
    ASSUME NEW d, NEW e, NEW S, NEW k, NEW v
    PROVE  /\ Promise!Without(d, S) = Without(d, S)
           /\ Promise!Updated(d, e) = Updated(d, e)
           /\ Promise!Single(k, v) = Single(k, v)
  BY DEF Promise!Without, Without, Promise!Updated, Updated, Promise!Single, Single,
         Promise!Restrict, Restrict

LEMMA SameHistories ==
    ASSUME NEW h, NEW v, NEW n
    PROVE  /\ Promise!InsertVersion(h, v) = InsertVersion(h, v)
           /\ Promise!AutoPrune(h, n) = AutoPrune(h, n)
           /\ Promise!IndexAsOf(h, n) = IndexAsOf(h, n)
           /\ Promise!Last(h) = Last(h)
  <1>1. Promise!InsertVersion(h, v) = InsertVersion(h, v)
    BY DEF Promise!InsertVersion, InsertVersion, Promise!InsertAt, InsertAt,
           Promise!BisectRight, BisectRight
  <1>2. Promise!AutoPrune(h, n) = AutoPrune(h, n)
    BY DEF Promise!AutoPrune, AutoPrune, Promise!KeepLast, KeepLast
  <1>3. Promise!IndexAsOf(h, n) = IndexAsOf(h, n)
    BY DEF Promise!IndexAsOf, IndexAsOf, Promise!BisectRight, BisectRight
  <1>4. Promise!Last(h) = Last(h)
    BY DEF Promise!Last, Last
  <1> QED
    BY <1>1, <1>2, <1>3, <1>4

LEMMA SameAbsorb ==
    ASSUME NEW h, NEW o
    PROVE  Promise!Absorb(h, o) = Absorb(h, o)
  BY DEF Promise!Absorb, Absorb, Promise!InsertVersion, InsertVersion, Promise!InsertAt, InsertAt,
         Promise!BisectRight, BisectRight

LEMMA SameWithin ==
    ASSUME NEW h, NEW from, NEW to
    PROVE  Promise!Within(h, from, to) = Within(h, from, to)
  BY DEF Promise!Within, Within

LEMMA SameSuffix ==
    ASSUME NEW g, NEW h
    PROVE  Promise!IsSuffix(g, h) <=> IsSuffix(g, h)
  BY DEF Promise!IsSuffix, IsSuffix, Promise!IsPrefix, IsPrefix, Promise!Reverse, Reverse

(***************************************************************************)
(* What the map holds for its users.                                       *)
(***************************************************************************)
Held == Restrict(store, Live)

Expiry == Restrict(ttl, DOMAIN ttl \cap Live)

LEMMA WhatIsHeld ==
    ASSUME WellFormed
    PROVE  /\ DOMAIN Held = {k \in DOMAIN store : ~(k \in DOMAIN ttl /\ now >= ttl[k])}
           /\ Held = [k \in DOMAIN Held |-> store[k]]
           /\ DOMAIN Expiry = {k \in DOMAIN ttl : ~(now >= ttl[k])}
           /\ Expiry = [k \in DOMAIN Expiry |-> ttl[k]]
           /\ DOMAIN Expiry \subseteq DOMAIN Held
  BY DEF Held, Expiry, Restrict, Live, Expired, WellFormed

(***************************************************************************)
(* The expired keys that nothing has removed.                              *)
(***************************************************************************)
Lingering == DOMAIN store \ Live

LEMMA WhatLingers ==
    ASSUME WellFormed
    PROVE  /\ Lingering = {k \in DOMAIN ttl : now >= ttl[k]}
           /\ DOMAIN store = DOMAIN Held \cup Lingering
           /\ Lingering \cap DOMAIN Held = {}
  BY DEF Lingering, Held, Restrict, Live, Expired, WellFormed

LEMMA SameCounts ==
    ASSUME NEW S, NEW h, NEW g
    PROVE  /\ Promise!Cardinality(S) = Cardinality(S)
           /\ Promise!Taken(h, g) = Taken(h, g)
  BY DEF Promise!Cardinality, Cardinality, Promise!Taken, Taken

LEMMA WhatAKeyHas ==
    ASSUME NEW k
    PROVE  /\ Promise!HeldOf(k) = Current(k)
           /\ Promise!NewestOf(k) = NewestValue(Current(k))
           /\ \A t : Promise!AsOf(k, t) = AsOf(k, t)
  <1>1. Promise!HeldOf(k) = Current(k)
    BY DEF Promise!HeldOf, Current, Versions, Restrict, Live
  <1>2. Promise!NewestOf(k) = NewestValue(Current(k))
    BY <1>1, SameHistories DEF Promise!NewestOf, NewestValue
  <1>3. \A t : Promise!AsOf(k, t) = AsOf(k, t)
    BY <1>1, SameHistories DEF Promise!AsOf, AsOf
  <1> QED
    BY <1>1, <1>2, <1>3

(***************************************************************************)
(* After a step that leaves the clock, the map shows as it is, save what   *)
(* is over; and as the dicts h and x if they only differ in that.          *)
(***************************************************************************)
LEMMA Becoming ==
    ASSUME now' = now, NEW h, NEW x,
           NEW over, over = {k \in DOMAIN x : x[k] <= now},
           DOMAIN Held' = (DOMAIN h) \ over, \A k \in DOMAIN Held' : Held'[k] = h[k],
           DOMAIN Expiry' = (DOMAIN x) \ over, \A k \in DOMAIN Expiry' : Expiry'[k] = x[k],
           Lingering' \subseteq Lingering \cup over
    PROVE  Promise!Become(h, x)
  <1>1. Held' = [k \in DOMAIN Held' |-> Held'[k]] /\ Expiry' = [k \in DOMAIN Expiry' |-> Expiry'[k]]
    BY DEF Held, Expiry, Restrict
  <1>2. Held' = [k \in (DOMAIN h) \ over |-> h[k]]
    BY <1>1
  <1>3. Expiry' = [k \in (DOMAIN x) \ over |-> x[k]]
    BY <1>1
  <1>4. Held' = Promise!Without(h, over) /\ Expiry' = Promise!Without(x, over)
    <2>1. Held' = Without(h, over)
      BY <1>2 DEF Without, Restrict
    <2>2. Expiry' = Without(x, over)
      BY <1>3 DEF Without, Restrict
    <2> QED
      BY <2>1, <2>2, SameDicts
  <1>5. {k \in DOMAIN x : x[k] <= now'} = over
    OBVIOUS
  <1>6. Lingering' \cap DOMAIN Held' = {}
    BY DEF Lingering, Held, Restrict, Live
  <1>7. Lingering' \subseteq (Lingering \cup over) \ DOMAIN Held'
    BY <1>6
  <1> QED
    BY <1>4, <1>5, <1>7 DEF Promise!Become, Held, Expiry, Lingering

LEMMA WhatWillBeHeld ==
    ASSUME WellFormed', now' = now
    PROVE  /\ DOMAIN Held' = {k \in DOMAIN store' : ~(k \in DOMAIN ttl' /\ now >= ttl'[k])}
           /\ \A k \in DOMAIN Held' : Held'[k] = store'[k]
           /\ DOMAIN Expiry' = {k \in DOMAIN ttl' : ~(now >= ttl'[k])}
           /\ \A k \in DOMAIN Expiry' : Expiry'[k] = ttl'[k]
           /\ DOMAIN ttl' \subseteq DOMAIN store'
           /\ Lingering' = {k \in DOMAIN ttl' : now >= ttl'[k]}
  BY DEF Held, Expiry, Lingering, Restrict, Live, Expired, WellFormed

LEMMA ShowsAsItIs ==
    ASSUME WellFormed', now' = now
    PROVE  Promise!Become(store', ttl')
  <1>1. /\ DOMAIN Held' = {k \in DOMAIN store' : ~(k \in DOMAIN ttl' /\ now >= ttl'[k])}
        /\ \A k \in DOMAIN Held' : Held'[k] = store'[k]
        /\ DOMAIN Expiry' = {k \in DOMAIN ttl' : ~(now >= ttl'[k])}
        /\ \A k \in DOMAIN Expiry' : Expiry'[k] = ttl'[k]
        /\ Lingering' = {k \in DOMAIN ttl' : now >= ttl'[k]}
    BY WhatWillBeHeld
  <1>2. now \in Int /\ \A k \in DOMAIN ttl' : ttl'[k] \in Int
    BY DEF WellFormed, Times
  <1> DEFINE over == {k \in DOMAIN ttl' : ttl'[k] <= now}
  <1>3. /\ DOMAIN Held' = (DOMAIN store') \ over /\ DOMAIN Expiry' = (DOMAIN ttl') \ over
        /\ Lingering' = over
    BY <1>1, <1>2
  <1> HIDE DEF over
  <1>4. over = {k \in DOMAIN ttl' : ttl'[k] <= now}
    BY DEF over
  <1> QED
    BY <1>1, <1>3, <1>4, Becoming

(***************************************************************************)
(* A step that is not to be seen.                                          *)
(***************************************************************************)
LEMMA NothingHeldIsOver ==
    ASSUME WellFormed
    PROVE  /\ \A k \in DOMAIN Expiry : ~(Expiry[k] <= now)
           /\ Held = [k \in DOMAIN Held |-> Held[k]]
           /\ Expiry = [k \in DOMAIN Expiry |-> Expiry[k]]
  <1>1. /\ Held = [k \in DOMAIN Held |-> store[k]]
        /\ DOMAIN Expiry = {k \in DOMAIN ttl : ~(now >= ttl[k])}
        /\ Expiry = [k \in DOMAIN Expiry |-> ttl[k]]
    BY WhatIsHeld
  <1>2. \A k \in DOMAIN ttl : ttl[k] \in Int /\ now \in Int
    BY DEF WellFormed, Times
  <1> QED
    BY <1>1, <1>2

LEMMA NothingHappens ==
    ASSUME Quiet, now' = now, Held' = Held, Expiry' = Expiry, Lingering' \subseteq Lingering
    PROVE  Promise!Next
  <1>1. Promise!Nothing
    BY DEF Promise!Nothing, Promise!Same, Promise!Quiet, Quiet, Held, Expiry, Lingering
  <1> QED
    BY <1>1 DEF Promise!Next

-----------------------------------------------------------------------------
(***************************************************************************)
(* Keys that are removed with their expiry.                                *)
(***************************************************************************)
LEMMA RemovingShows ==
    ASSUME WellFormed, WellFormed', now' = now, NEW S,
           DOMAIN store' = (DOMAIN store) \ S, DOMAIN ttl' = (DOMAIN ttl) \ S,
           \A k \in DOMAIN store' : store'[k] = store[k],
           \A k \in DOMAIN ttl' : ttl'[k] = ttl[k]
    PROVE  /\ DOMAIN Held' = (DOMAIN Held) \ S /\ DOMAIN Expiry' = (DOMAIN Expiry) \ S
           /\ \A k \in DOMAIN Held' : Held'[k] = Held[k]
           /\ \A k \in DOMAIN Expiry' : Expiry'[k] = Expiry[k]
           /\ Lingering' = Lingering \ S
  <1>1. /\ DOMAIN Held = {k \in DOMAIN store : ~(k \in DOMAIN ttl /\ now >= ttl[k])}
        /\ Held = [k \in DOMAIN Held |-> store[k]]
        /\ DOMAIN Expiry = {k \in DOMAIN ttl : ~(now >= ttl[k])}
        /\ Expiry = [k \in DOMAIN Expiry |-> ttl[k]]
    BY WhatIsHeld
  <1>2. /\ DOMAIN Held' = {k \in DOMAIN store' : ~(k \in DOMAIN ttl' /\ now >= ttl'[k])}
        /\ \A k \in DOMAIN Held' : Held'[k] = store'[k]
        /\ DOMAIN Expiry' = {k \in DOMAIN ttl' : ~(now >= ttl'[k])}
        /\ \A k \in DOMAIN Expiry' : Expiry'[k] = ttl'[k]
    BY WhatWillBeHeld
  <1>3. ASSUME NEW k PROVE k \in DOMAIN Held' <=> k \in DOMAIN Held /\ k \notin S
    BY <1>1, <1>2
  <1>4. ASSUME NEW k PROVE k \in DOMAIN Expiry' <=> k \in DOMAIN Expiry /\ k \notin S
    BY <1>1, <1>2
  <1>5. \A k \in DOMAIN Held : Held[k] = store[k]
    BY <1>1
  <1>6. \A k \in DOMAIN Expiry : Expiry[k] = ttl[k]
    BY <1>1
  <1>7. \A k \in DOMAIN Held' : Held'[k] = Held[k]
    BY <1>2, <1>3, <1>5
  <1>8. \A k \in DOMAIN Expiry' : Expiry'[k] = Expiry[k]
    BY <1>2, <1>4, <1>6
  <1>9. Lingering' = Lingering \ S
    BY WhatLingers, WhatWillBeHeld
  <1> QED
    BY <1>3, <1>4, <1>7, <1>8, <1>9

LEMMA RemovalIsPromised ==
    ASSUME WellFormed, WellFormed', now' = now, NEW S \in SUBSET Keys, Deleted(S),
           DOMAIN store' = (DOMAIN store) \ S, DOMAIN ttl' = (DOMAIN ttl) \ S,
           \A k \in DOMAIN store' : store'[k] = store[k],
           \A k \in DOMAIN ttl' : ttl'[k] = ttl[k]
    PROVE  Promise!Next
  <1> DEFINE h == Promise!Without(Held, S)
             x == Promise!Without(Expiry, S)
  <1>1. /\ DOMAIN h = (DOMAIN Held) \ S /\ \A k \in DOMAIN h : h[k] = Held[k]
        /\ DOMAIN x = (DOMAIN Expiry) \ S /\ \A k \in DOMAIN x : x[k] = Expiry[k]
    <2>1. h = Without(Held, S) /\ x = Without(Expiry, S)
      BY SameDicts
    <2> HIDE DEF h, x
    <2> QED
      BY <2>1 DEF Without, Restrict
  <1> HIDE DEF h, x
  <1>2. {} = {k \in DOMAIN x : x[k] <= now}
    BY <1>1, NothingHeldIsOver
  <1>3. /\ DOMAIN Held' = (DOMAIN h) \ {} /\ \A k \in DOMAIN Held' : Held'[k] = h[k]
        /\ DOMAIN Expiry' = (DOMAIN x) \ {} /\ \A k \in DOMAIN Expiry' : Expiry'[k] = x[k]
        /\ Lingering' = Lingering \ S
    BY <1>1, RemovingShows
  <1>4. Promise!Become(h, x)
    BY <1>2, <1>3, Becoming
  <1>5. answer' = [deleted |-> Promise!Cardinality(S \cap (DOMAIN Held \cup Lingering))]
    BY WhatLingers, SameCounts DEF Deleted
  <1>6. Promise!Forget(S)
    BY <1>3, <1>4, <1>5 DEF Promise!Forget, Deleted, Held, Expiry, Lingering, h, x
  <1> QED
    BY <1>6 DEF Promise!Next

(***************************************************************************)
(* Only expired keys go.                                                   *)
(***************************************************************************)
LEMMA SweepingIsUnseen ==
    ASSUME WellFormed, WellFormed', now' = now, NEW S,
           \A k \in S : Expired(k),
           store' = Without(store, S), ttl' = Without(ttl, S)
    PROVE  Held' = Held /\ Expiry' = Expiry /\ Lingering' = Lingering \ S
  <1>0. /\ DOMAIN store' = (DOMAIN store) \ S /\ DOMAIN ttl' = (DOMAIN ttl) \ S
        /\ \A k \in DOMAIN store' : store'[k] = store[k]
        /\ \A k \in DOMAIN ttl' : ttl'[k] = ttl[k]
    BY DEF Without, Restrict
  <1>1. /\ DOMAIN Held' = (DOMAIN Held) \ S /\ DOMAIN Expiry' = (DOMAIN Expiry) \ S
        /\ \A k \in DOMAIN Held' : Held'[k] = Held[k]
        /\ \A k \in DOMAIN Expiry' : Expiry'[k] = Expiry[k]
        /\ Lingering' = Lingering \ S
    BY <1>0, RemovingShows
  <1>2. \A k \in S : k \notin DOMAIN Held /\ k \notin DOMAIN Expiry
    BY DEF Held, Expiry, Restrict, Live
  <1>3. DOMAIN Held' = DOMAIN Held /\ DOMAIN Expiry' = DOMAIN Expiry
    BY <1>1, <1>2
  <1>4. Held' = [k \in DOMAIN Held' |-> Held'[k]] /\ Expiry' = [k \in DOMAIN Expiry' |-> Expiry'[k]]
    BY DEF Held, Expiry, Restrict
  <1>5. Held = [k \in DOMAIN Held |-> Held[k]] /\ Expiry = [k \in DOMAIN Expiry |-> Expiry[k]]
    BY NothingHeldIsOver
  <1>6. Held' = Held
    BY <1>1, <1>3, <1>4, <1>5
  <1>7. Expiry' = Expiry
    BY <1>1, <1>3, <1>4, <1>5
  <1> QED
    BY <1>1, <1>6, <1>7

LEMMA DeleteIsPromised ==
    ASSUME WellFormed, WellFormed', NEW S \in SUBSET Keys, Delete(S)
    PROVE  Promise!Next
  <1>1. /\ DOMAIN store' = (DOMAIN store) \ S /\ DOMAIN ttl' = (DOMAIN ttl) \ S
        /\ \A k \in DOMAIN store' : store'[k] = store[k]
        /\ \A k \in DOMAIN ttl' : ttl'[k] = ttl[k]
    BY DEF Delete, Without, Restrict, WellFormed
  <1> QED
    BY <1>1, RemovalIsPromised DEF Delete

LEMMA ClearIsPromised ==
    ASSUME WellFormed, Clear
    PROVE  Promise!Next
  <1>1. store' = EmptyDict /\ ttl' = EmptyDict /\ now' = now /\ Quiet
    BY DEF Clear
  <1>2. Held' = Promise!EmptyDict /\ Expiry' = Promise!EmptyDict /\ Lingering' = {}
    BY <1>1 DEF Held, Expiry, Lingering, Restrict, Live, EmptyDict, Promise!EmptyDict
  <1>3. Promise!ForgetAll
    BY <1>1, <1>2 DEF Promise!ForgetAll, Promise!Quiet, Quiet, Held, Expiry, Lingering
  <1> QED
    BY <1>3 DEF Promise!Next

LEMMA SweepIsPromised ==
    ASSUME WellFormed, WellFormed', CleanExpiredKeys
    PROVE  Promise!Next
  <1> DEFINE S == {k \in DOMAIN ttl : Expired(k)}
  <1>1. /\ store' = Without(store, S) /\ ttl' = Without(ttl, S) /\ now' = now
        /\ answer' = [removed |-> Cardinality(S)] /\ told' = {}
    BY DEF CleanExpiredKeys
  <1>2. \A k \in S : Expired(k)
    OBVIOUS
  <1>3. S = Lingering
    BY WhatLingers DEF Expired
  <1> HIDE DEF S
  <1>4. Held' = Held /\ Expiry' = Expiry /\ Lingering' = {}
    BY <1>1, <1>2, <1>3, SweepingIsUnseen
  <1>5. Promise!Sweep
    BY <1>1, <1>3, <1>4, SameCounts DEF Promise!Sweep, Held, Expiry, Lingering
  <1> QED
    BY <1>5 DEF Promise!Next

LEMMA FactoryRaisesUnseen ==
    ASSUME WellFormed, WellFormed', NEW k \in Keys, FactoryRaises(k)
    PROVE  Promise!Next
  <1> DEFINE S == {j \in {k} : Expired(j)}
  <1>1. store' = Without(store, S) /\ ttl' = Without(ttl, S) /\ now' = now /\ Quiet
    BY DEF FactoryRaises
  <1>2. \A j \in S : Expired(j)
    OBVIOUS
  <1> HIDE DEF S
  <1>3. Held' = Held /\ Expiry' = Expiry /\ Lingering' = Lingering \ S
    BY <1>1, <1>2, SweepingIsUnseen
  <1>4. Lingering' \subseteq Lingering
    BY <1>3
  <1> QED
    BY <1>1, <1>3, <1>4, NothingHappens

LEMMA ResetIsPromised ==
    ASSUME ResetStats
    PROVE  Promise!Next
  <1>1. store' = store /\ ttl' = ttl /\ now' = now /\ Quiet
    BY DEF ResetStats
  <1>2. Held' = Held /\ Expiry' = Expiry /\ Lingering' = Lingering
    BY <1>1 DEF Held, Expiry, Lingering, Restrict, Live, Expired
  <1> QED
    BY <1>1, <1>2, NothingHappens

(***************************************************************************)
(* The clock.                                                              *)
(***************************************************************************)
LEMMA TickIsPromised ==
    ASSUME WellFormed, Tick
    PROVE  Promise!Next
  <1>1. now < MaxTime /\ now' = now + 1 /\ store' = store /\ ttl' = ttl /\ Quiet
    BY DEF Tick
  <1>2. /\ DOMAIN ttl \subseteq DOMAIN store /\ now \in Int
        /\ \A k \in DOMAIN ttl : ttl[k] \in Int
    BY DEF WellFormed, Times
  <1> DEFINE over == {k \in DOMAIN Expiry : Expiry[k] <= now'}
  <1>3. /\ DOMAIN Held = {j \in DOMAIN store : ~(j \in DOMAIN ttl /\ now >= ttl[j])}
        /\ Held = [j \in DOMAIN Held |-> store[j]]
        /\ DOMAIN Expiry = {j \in DOMAIN ttl : ~(now >= ttl[j])}
        /\ Expiry = [j \in DOMAIN Expiry |-> ttl[j]]
    BY WhatIsHeld
  <1>4. /\ DOMAIN Held' = {j \in DOMAIN store : ~(j \in DOMAIN ttl /\ now' >= ttl[j])}
        /\ Held' = [j \in DOMAIN Held' |-> store[j]]
        /\ DOMAIN Expiry' = {j \in DOMAIN ttl : ~(now' >= ttl[j])}
        /\ Expiry' = [j \in DOMAIN Expiry' |-> ttl[j]]
    BY <1>1, <1>2 DEF Held, Expiry, Restrict, Live, Expired
  <1>5. \A k \in DOMAIN ttl : now >= ttl[k] => now' >= ttl[k]
    BY <1>1, <1>2
  <1>6. /\ \A j \in DOMAIN Held : Held[j] = store[j]
        /\ \A j \in DOMAIN Expiry : Expiry[j] = ttl[j]
    BY <1>3
  <1>7. \A j : j \in over <=> j \in DOMAIN ttl /\ ~(now >= ttl[j]) /\ now' >= ttl[j]
    BY <1>1, <1>2, <1>3, <1>6
  <1> HIDE DEF over
  <1>8. DOMAIN Held' = (DOMAIN Held) \ over /\ DOMAIN Expiry' = (DOMAIN Expiry) \ over
    <2>1. ASSUME NEW j PROVE j \in DOMAIN Held' <=> j \in DOMAIN Held /\ j \notin over
      BY <1>3, <1>4, <1>5, <1>7
    <2>2. ASSUME NEW j PROVE j \in DOMAIN Expiry' <=> j \in DOMAIN Expiry /\ j \notin over
      BY <1>3, <1>4, <1>5, <1>7
    <2> QED
      BY <2>1, <2>2
  <1>9. Held' = [j \in (DOMAIN Held) \ over |-> Held[j]]
    BY <1>4, <1>6, <1>8
  <1>10. Expiry' = [j \in (DOMAIN Expiry) \ over |-> Expiry[j]]
    BY <1>4, <1>6, <1>8
  <1>11. Held' = Promise!Without(Held, over) /\ Expiry' = Promise!Without(Expiry, over)
    BY <1>9, <1>10, SameDicts DEF Without, Restrict
  <1>12. Lingering' \subseteq (Lingering \cup over) \ DOMAIN Held'
    <2>1. /\ Lingering = {j \in DOMAIN ttl : now >= ttl[j]}
          /\ Lingering' = {j \in DOMAIN ttl : now' >= ttl[j]}
      BY <1>1, <1>2, WhatLingers DEF Lingering, Live, Expired
    <2>2. ASSUME NEW j \in Lingering' PROVE j \in Lingering \cup over /\ j \notin DOMAIN Held'
      BY <1>4, <1>7, <2>1
    <2> QED
      BY <2>2
  <1>13. Promise!Become(Held, Expiry)
    BY <1>11, <1>12 DEF Promise!Become, Held, Expiry, Lingering, over
  <1>14. Promise!Tick
    BY <1>1, <1>13 DEF Promise!Tick, Promise!Quiet, Quiet, Held, Expiry
  <1> QED
    BY <1>14 DEF Promise!Next

-----------------------------------------------------------------------------
(***************************************************************************)
(* TimeMap's lifetimes end with its clock.                                 *)
(***************************************************************************)
LifetimesEnd == \A life \in Lifetimes : life <= MaxTime

(***************************************************************************)
(* Writes that pass.                                                       *)
(***************************************************************************)
LEMMA WrittenShows ==
    ASSUME ChronoMapAssumption, WellUsed, WellFormed, WellFormed',
           NEW S \in SUBSET Keys, NEW items \in [S -> Values], NEW t, NEW life \in Lives,
           Written(items, t, life)
    PROVE  Promise!Write(items, t, life)
  <1> DEFINE new == [k \in DOMAIN items |-> AutoPrune(Inserted(k, t, items[k]), Cap)]
             ends == [k \in DOMAIN items |-> now + life]
             h == Updated(Held, new)
             x == IF life = None THEN Expiry ELSE Updated(Expiry, ends)
  <1>1. /\ store' = Updated(store, new) /\ now' = now
        /\ ttl' = IF life = None THEN PurgedTtl(S) ELSE Updated(ttl, ends)
        /\ DOMAIN items = S /\ DOMAIN new = S /\ DOMAIN ends = S
    BY DEF Written
  <1>2. now \in Int /\ \A k \in DOMAIN ttl : ttl[k] \in Int
    BY DEF WellFormed, Times
  <1>3. life # None => ~(now + life <= now) /\ ~(now >= now + life)
    <2>1. ASSUME life # None PROVE life \in Int /\ life > 0
      BY <2>1 DEF Lives, WellUsed, ChronoMapAssumption
    <2> QED
      BY <1>2, <2>1
  <1>4. \A k \in S : ends[k] = now + life
    BY <1>1
  <1> HIDE DEF new, ends
  <1>5. /\ DOMAIN store' = S \cup DOMAIN store
        /\ \A k \in S : store'[k] = new[k]
        /\ \A k \in DOMAIN store \ S : store'[k] = store[k]
    BY <1>1 DEF Updated
  <1>6. /\ DOMAIN Held = {k \in DOMAIN store : ~(k \in DOMAIN ttl /\ now >= ttl[k])}
        /\ \A k \in DOMAIN Held : Held[k] = store[k]
        /\ DOMAIN Expiry = {k \in DOMAIN ttl : ~(now >= ttl[k])}
        /\ \A k \in DOMAIN Expiry : Expiry[k] = ttl[k]
    <2>1. /\ DOMAIN Held = {k \in DOMAIN store : ~(k \in DOMAIN ttl /\ now >= ttl[k])}
          /\ Held = [k \in DOMAIN Held |-> store[k]]
          /\ DOMAIN Expiry = {k \in DOMAIN ttl : ~(now >= ttl[k])}
          /\ Expiry = [k \in DOMAIN Expiry |-> ttl[k]]
      BY WhatIsHeld
    <2> QED
      BY <2>1
  <1>7. /\ DOMAIN Held' = {k \in DOMAIN store' : ~(k \in DOMAIN ttl' /\ now >= ttl'[k])}
        /\ \A k \in DOMAIN Held' : Held'[k] = store'[k]
        /\ DOMAIN Expiry' = {k \in DOMAIN ttl' : ~(now >= ttl'[k])}
        /\ \A k \in DOMAIN Expiry' : Expiry'[k] = ttl'[k]
    BY <1>1, WhatWillBeHeld
  <1>8. /\ DOMAIN h = S \cup DOMAIN Held
        /\ \A k \in S : h[k] = new[k]
        /\ \A k \in DOMAIN Held \ S : h[k] = Held[k]
    BY <1>1 DEF Updated
  <1>9. ASSUME life = None PROVE Promise!Become(h, x)
    <2>1. /\ DOMAIN ttl' = (DOMAIN ttl) \ {k \in S : Expired(k)}
          /\ \A k \in DOMAIN ttl' : ttl'[k] = ttl[k]
      BY <1>1, <1>9 DEF PurgedTtl, Without, Restrict
    <2>2. ASSUME NEW k PROVE k \in DOMAIN Held' <=> k \in DOMAIN h
      BY <1>5, <1>6, <1>7, <1>8, <2>1 DEF Expired
    <2>3. ASSUME NEW k PROVE k \in DOMAIN Expiry' <=> k \in DOMAIN Expiry
      BY <1>6, <1>7, <2>1 DEF Expired
    <2>4. ASSUME NEW k \in DOMAIN Held' PROVE Held'[k] = h[k]
      BY <1>5, <1>6, <1>7, <1>8, <2>2
    <2>5. ASSUME NEW k \in DOMAIN Expiry' PROVE Expiry'[k] = Expiry[k]
      BY <1>6, <1>7, <2>1, <2>3
    <2>6. {} = {k \in DOMAIN Expiry : Expiry[k] <= now}
      BY NothingHeldIsOver
    <2> HIDE DEF h
    <2>7. /\ DOMAIN Held' = (DOMAIN h) \ {} /\ \A k \in DOMAIN Held' : Held'[k] = h[k]
          /\ DOMAIN Expiry' = (DOMAIN Expiry) \ {} /\ \A k \in DOMAIN Expiry' : Expiry'[k] = Expiry[k]
      BY <2>2, <2>3, <2>4, <2>5
    <2>8. Lingering' \subseteq Lingering
      <3>1. /\ Lingering = {k \in DOMAIN ttl : now >= ttl[k]}
            /\ Lingering' = {k \in DOMAIN ttl' : now >= ttl'[k]}
        BY <1>1, WhatLingers, WhatWillBeHeld
      <3> QED
        BY <2>1, <3>1
    <2>9. Promise!Become(h, Expiry)
      BY <1>1, <2>6, <2>7, <2>8, Becoming
    <2> QED
      BY <1>9, <2>9
  <1>10. ASSUME life # None PROVE Promise!Become(h, x)
    <2>1. /\ DOMAIN ttl' = S \cup DOMAIN ttl
          /\ \A k \in S : ttl'[k] = now + life
          /\ \A k \in DOMAIN ttl \ S : ttl'[k] = ttl[k]
      BY <1>1, <1>4, <1>10 DEF Updated
    <2>2. /\ DOMAIN x = S \cup DOMAIN Expiry
          /\ \A k \in S : x[k] = now + life
          /\ \A k \in DOMAIN Expiry \ S : x[k] = Expiry[k]
      BY <1>1, <1>4, <1>10 DEF Updated
    <2> HIDE DEF x
    <2>3. ASSUME NEW k PROVE k \in DOMAIN Held' <=> k \in DOMAIN h
      BY <1>3, <1>5, <1>6, <1>7, <1>8, <1>10, <2>1
    <2>4. ASSUME NEW k PROVE k \in DOMAIN Expiry' <=> k \in DOMAIN x
      BY <1>3, <1>6, <1>7, <1>10, <2>1, <2>2
    <2>5. ASSUME NEW k \in DOMAIN Held' PROVE Held'[k] = h[k]
      BY <1>5, <1>6, <1>7, <1>8, <2>3
    <2>6. ASSUME NEW k \in DOMAIN Expiry' PROVE Expiry'[k] = x[k]
      BY <1>6, <1>7, <2>1, <2>2, <2>4
    <2>7. {} = {k \in DOMAIN x : x[k] <= now}
      <3>1. \A k \in DOMAIN Expiry : ~(Expiry[k] <= now)
        BY NothingHeldIsOver
      <3> QED
        BY <1>3, <1>10, <2>2, <3>1
    <2> HIDE DEF h
    <2>8. /\ DOMAIN Held' = (DOMAIN h) \ {} /\ \A k \in DOMAIN Held' : Held'[k] = h[k]
          /\ DOMAIN Expiry' = (DOMAIN x) \ {} /\ \A k \in DOMAIN Expiry' : Expiry'[k] = x[k]
      BY <2>3, <2>4, <2>5, <2>6
    <2>9. Lingering' \subseteq Lingering
      <3>1. /\ Lingering = {k \in DOMAIN ttl : now >= ttl[k]}
            /\ Lingering' = {k \in DOMAIN ttl' : now >= ttl'[k]}
        BY <1>1, WhatLingers, WhatWillBeHeld
      <3> QED
        BY <1>3, <1>10, <2>1, <3>1
    <2> QED
      BY <1>1, <2>7, <2>8, <2>9, Becoming
  <1>11. Promise!Become(h, x)
    BY <1>9, <1>10
  <1>12. new = [k \in DOMAIN items |-> Promise!AutoPrune(Promise!InsertVersion(Promise!HeldOf(k),
                                           [ts |-> t, val |-> items[k]]), Cap)]
    BY WhatAKeyHas, SameHistories DEF new, Inserted
  <1>13. Promise!Updated(Held, new) = h /\ Promise!Updated(Expiry, ends) = Updated(Expiry, ends)
    BY SameDicts
  <1>14. Promise!Become(Promise!Updated(Held, new),
                        IF life = None THEN Expiry ELSE Promise!Updated(Expiry, ends))
    <2> HIDE DEF h
    <2> QED
      BY <1>11, <1>13
  <1> QED
    BY <1>1, <1>12, <1>14 DEF Promise!Write, Held, Expiry, ends

LEMMA LivesAreTimeMaps ==
    ASSUME ChronoMapAssumption, WellUsed, LifetimesEnd, NEW life \in Lives
    PROVE  life \in Promise!Lives
  <1>1. CASE life = None
    BY <1>1 DEF Promise!Lives
  <1>2. CASE life # None
    <2>1. life \in Int /\ life > 0 /\ life <= MaxTime /\ MaxTime \in Nat
      BY <1>2 DEF Lives, WellUsed, ChronoMapAssumption, LifetimesEnd
    <2>2. life \in 1 .. MaxTime
      BY <2>1
    <2> QED
      BY <2>2 DEF Promise!Lives
  <1> QED
    BY <1>1, <1>2

LEMMA TellingShows ==
    ASSUME NEW items, NEW t, told' = {Event(k, items[k], t) : k \in DOMAIN items}
    PROVE  Promise!Tell(items, t)
  <1>1. \A k : Event(k, items[k], t)
                  = [key |-> k, old |-> Promise!NewestOf(k), new |-> items[k], ts |-> t]
    BY WhatAKeyHas DEF Event
  <1>2. told' = {[key |-> k, old |-> Promise!NewestOf(k), new |-> items[k], ts |-> t] : k \in DOMAIN items}
    BY <1>1
  <1> QED
    BY <1>2 DEF Promise!Tell

LEMMA WriteIsPromised ==
    ASSUME ChronoMapAssumption, WellUsed, LifetimesEnd, WellFormed, WellFormed',
           NEW items \in Items, NEW t \in Times, NEW life \in Lives, Written(items, t, life),
           answer' = Silent, told' = {Event(k, items[k], t) : k \in DOMAIN items}
    PROVE  Promise!Next
  <1>1. PICK S \in (SUBSET Keys) \ {{}} : items \in [S -> Values]
    BY DEF Items
  <1>2. Promise!Write(items, t, life)
    BY <1>1, WrittenShows
  <1>3. life \in Promise!Lives
    BY LivesAreTimeMaps
  <1>4. Promise!Tell(items, t)
    BY TellingShows
  <1>5. Promise!Put(items, t)
    BY <1>2, <1>3, <1>4 DEF Promise!Put
  <1>6. items \in Promise!Items /\ t \in Promise!Times
    BY DEF Promise!Items, Items, Promise!Times, Times
  <1> QED
    BY <1>5, <1>6 DEF Promise!Next

LEMMA SingleIsWritten ==
    ASSUME NEW k \in Keys, NEW v \in Values
    PROVE  /\ Single(k, v) \in Items /\ Single(k, v) \in [{k} -> Values]
           /\ DOMAIN Single(k, v) = {k} /\ Single(k, v)[k] = v
  <1>1. Single(k, v) = [j \in {k} |-> v]
    BY DEF Single
  <1>2. {k} \in (SUBSET Keys) \ {{}}
    OBVIOUS
  <1>3. [j \in {k} |-> v] \in [{k} -> Values]
    OBVIOUS
  <1> QED
    BY <1>1, <1>2, <1>3 DEF Items

LEMMA PutIsPromised ==
    ASSUME ChronoMapAssumption, WellUsed, LifetimesEnd, WellFormed, WellFormed', ~OverLimit(store'),
           NEW k \in Keys, NEW v \in Values, NEW at \in Moments, NEW life \in Lives,
           Put(k, v, at, life)
    PROVE  Promise!Next
  <1>1. Acceptable(life)
    BY DEF Acceptable, WellUsed, Lives
  <1>2. /\ Written(Single(k, v), Given(at), life) /\ answer' = Silent
        /\ told' = {Event(k, v, Given(at))}
    BY <1>1 DEF Put
  <1>3. Given(at) \in Times
    BY GivenIsATime DEF WellFormed
  <1>4. Single(k, v) \in Items /\ DOMAIN Single(k, v) = {k} /\ Single(k, v)[k] = v
    BY SingleIsWritten
  <1>5. told' = {Event(j, Single(k, v)[j], Given(at)) : j \in DOMAIN Single(k, v)}
    BY <1>2, <1>4
  <1> QED
    BY <1>2, <1>3, <1>4, <1>5, WriteIsPromised

LEMMA PutManyIsPromised ==
    ASSUME ChronoMapAssumption, WellUsed, LifetimesEnd, WellFormed, WellFormed',
           NEW items \in Items, NEW at \in Moments, NEW life \in Lives,
           PutMany(items, at, life)
    PROVE  Promise!Next
  <1>1. Acceptable(life)
    BY DEF Acceptable, WellUsed, Lives
  <1>2. Given(at) \in Times
    BY GivenIsATime DEF WellFormed
  <1>3. /\ Written(items, Given(at), life) /\ answer' = Silent
        /\ told' = {Event(k, items[k], Given(at)) : k \in DOMAIN items}
    BY <1>1 DEF PutMany
  <1> QED
    BY <1>2, <1>3, WriteIsPromised

LEMMA GetOrSetIsPromised ==
    ASSUME ChronoMapAssumption, WellUsed, LifetimesEnd, WellFormed, WellFormed', ~OverLimit(store'),
           NEW k \in Keys, NEW v \in Values, NEW life \in Lives, GetOrSet(k, v, life)
    PROVE  Promise!Next
  <1>1. CASE /\ Current(k) # << >>
             /\ answer' = NewestValue(Current(k))
             /\ told' = {}
             /\ UNCHANGED <<store, ttl, cache, now>>
    <2>1. Held' = Held /\ Expiry' = Expiry /\ Lingering' = Lingering
      BY <1>1 DEF Held, Expiry, Lingering, Restrict, Live, Expired
    <2>2. Promise!Same
      BY <1>1, <2>1 DEF Promise!Same, Held, Expiry, Lingering
    <2>3. Promise!GetOrSet(k, v)
      BY <1>1, <2>2, WhatAKeyHas DEF Promise!GetOrSet
    <2> QED
      BY <2>3 DEF Promise!Next
  <1>2. CASE /\ Current(k) = << >>
             /\ Written(Single(k, v), now, life)
             /\ IF OverLimit(store') THEN Quiet
                ELSE answer' = v /\ told' = {Event(k, v, now)}
    <2>1. Single(k, v) \in [{k} -> Values] /\ DOMAIN Single(k, v) = {k} /\ Single(k, v)[k] = v
      BY SingleIsWritten
    <2>2. answer' = v /\ told' = {Event(j, Single(k, v)[j], now) : j \in DOMAIN Single(k, v)}
      BY <1>2, <2>1
    <2>3. Promise!Tell(Single(k, v), now)
      BY <2>2, TellingShows
    <2>4. Promise!Write(Single(k, v), now, life)
      BY <1>2, <2>1, WrittenShows
    <2>5. life \in Promise!Lives
      BY LivesAreTimeMaps
    <2>6. Promise!Single(k, v) = Single(k, v)
      BY SameDicts
    <2>7. Promise!GetOrSet(k, v)
      BY <1>2, <2>2, <2>3, <2>4, <2>5, <2>6, WhatAKeyHas DEF Promise!GetOrSet
    <2> QED
      BY <2>7 DEF Promise!Next
  <1> QED
    BY <1>1, <1>2 DEF GetOrSet

-----------------------------------------------------------------------------
(***************************************************************************)
(* Questions.                                                              *)
(***************************************************************************)
LEMMA NothingInForceOfNothing ==
    ASSUME ChronoMapAssumption, NEW t \in Int
    PROVE  IndexAsOf(<< >>, t) = 0
  <1> DEFINE D == [ts : Int, val : {}]
  <1>1. << >> \in Seq(D) /\ Ordered(<< >>) /\ Len(<< >>) = 0 /\ Timed(D)
    BY DEF Ordered, Timed
  <1> HIDE DEF D
  <1>2. BisectRight(<< >>, t) \in 0 .. Len(<< >>)
    BY <1>1, BisectRightFinds
  <1> QED
    BY <1>1, <1>2 DEF IndexAsOf

LEMMA GetIsPromised ==
    ASSUME ChronoMapAssumption, WellFormed, CacheTellsTheTruth,
           NEW k \in Keys, NEW at \in {None} \cup Times, Get(k, at)
    PROVE  Promise!Next
  <1>1. told' = {} /\ store' = store /\ ttl' = ttl /\ now' = now
    BY DEF Get
  <1>2. Promise!Same
    BY <1>1 DEF Promise!Same, Restrict, Live, Expired
  <1>3. Given(at) \in Times
    BY DEF Given, WellFormed
  <1>4. answer' = AsOf(k, Given(at))
    <2>1. CASE Expired(k) /\ answer' = Absent
      <3>1. Given(at) \in Int
        BY <1>3 DEF Times
      <3> QED
        BY <2>1, <3>1, NothingInForceOfNothing DEF AsOf, Current
    <2>2. CASE ~Expired(k) /\ \E e \in Cache!For(k, at) : answer' = e.val
      BY <2>2 DEF Cache!For, CacheTellsTheTruth
    <2>3. CASE answer' = AsOf(k, Given(at))
      BY <2>3
    <2> QED
      BY <2>1, <2>2, <2>3 DEF Get
  <1>5. Promise!Ask(k, Given(at))
    BY <1>1, <1>2, <1>4, WhatAKeyHas DEF Promise!Ask
  <1>6. Given(at) \in Promise!Times
    BY <1>3 DEF Times, Promise!Times
  <1> QED
    BY <1>5, <1>6 DEF Promise!Next, Promise!Read

LEMMA AnswersShow ==
    ASSUME NEW a, Answer(a)
    PROVE  Promise!Reply(a)
  <1>1. Promise!Same
    BY DEF Answer, Promise!Same, Restrict, Live, Expired
  <1> QED
    BY <1>1 DEF Answer, Promise!Reply

LEMMA LivingKeysAreHeld ==
    DOMAIN Held = Live /\ \A k \in Live : Held[k] = store[k] /\ Current(k) = store[k]
  BY DEF Held, Restrict, Live, Current, Versions

LEMMA LatestIsPromised ==
    ASSUME Latest
    PROVE  Promise!Newest
  <1> DEFINE S == {k \in Live : store[k] # << >>}
  <1>1. S = {k \in DOMAIN Held : Held[k] # << >>}
    BY LivingKeysAreHeld
  <1>2. \A k \in S : Last(store[k]).val = Promise!Last(Held[k]).val
    BY LivingKeysAreHeld, SameHistories
  <1>3. Answer([values |-> [k \in S |-> Last(store[k]).val]])
    BY DEF Latest
  <1> HIDE DEF S
  <1>4. [k \in S |-> Last(store[k]).val]
           = [k \in {k \in DOMAIN Held : Held[k] # << >>} |-> Promise!Last(Held[k]).val]
    BY <1>1, <1>2
  <1> QED
    BY <1>3, <1>4, AnswersShow DEF Promise!Newest, Held

LEMMA QueryIsPromised ==
    ASSUME NEW P, NEW at, Query(P, at)
    PROVE  Promise!Matching(P, Given(at))
  <1> DEFINE S == {k \in Live : AsOf(k, Given(at)) \in P}
  <1>1. S = {k \in DOMAIN Held : Promise!AsOf(k, Given(at)) \in P}
    BY LivingKeysAreHeld, WhatAKeyHas
  <1>2. \A k \in S : AsOf(k, Given(at)) = Promise!AsOf(k, Given(at))
    BY WhatAKeyHas
  <1>3. Answer([values |-> [k \in S |-> AsOf(k, Given(at))]])
    BY DEF Query
  <1> HIDE DEF S
  <1>4. [k \in S |-> AsOf(k, Given(at))]
           = [k \in {k \in DOMAIN Held : Promise!AsOf(k, Given(at)) \in P} |->
                Promise!AsOf(k, Given(at))]
    BY <1>1, <1>2
  <1> QED
    BY <1>3, <1>4, AnswersShow DEF Promise!Matching, Held

LEMMA KeysByValueIsPromised ==
    ASSUME NEW v, NEW at, KeysByValue(v, at)
    PROVE  Promise!Valued(v, Given(at))
  <1>1. {k \in Live : AsOf(k, Given(at)) = v} = {k \in DOMAIN Held : Promise!AsOf(k, Given(at)) = v}
    BY LivingKeysAreHeld, WhatAKeyHas
  <1> QED
    BY <1>1, AnswersShow DEF KeysByValue, Promise!Valued, Held

LEMMA IsInIsPromised ==
    ASSUME WellFormed, NEW k, IsIn(k)
    PROVE  Promise!Has(k)
  <1>1. (k \in Live /\ Len(store[k]) > 0) = (Promise!HeldOf(k) # << >>)
    <2>1. CASE k \in Live
      <3>1. store[k] \in Seq(Admitted) /\ Promise!HeldOf(k) = store[k]
        BY <2>1, LivingKeysAreHeld, WhatAKeyHas DEF Live, WellFormed
      <3>2. Len(store[k]) > 0 <=> store[k] # << >>
        <4> HIDE DEF Admitted
        <4> QED
          BY <3>1
      <3> QED
        BY <2>1, <3>1, <3>2
    <2>2. CASE k \notin Live
      <3>1. Promise!HeldOf(k) = << >>
        BY <2>2, WhatAKeyHas DEF Current, Versions, Live
      <3> QED
        BY <2>2, <3>1
    <2> QED
      BY <2>1, <2>2
  <1> QED
    BY <1>1, AnswersShow DEF IsIn, Promise!Has

LEMMA AskIsPromised ==
    ASSUME ChronoMapAssumption, WellFormed, Ask
    PROVE  Promise!Next
  <1>1. \A at \in {None} \cup Times : Given(at) \in Promise!Times
    BY DEF Given, WellFormed, Times, Promise!Times
  <1>2. CASE Latest
    BY <1>2, LatestIsPromised DEF Promise!Next, Promise!Read
  <1>3. CASE ListKeys
    <2>1. Promise!List
      BY <1>3, AnswersShow, LivingKeysAreHeld DEF ListKeys, Promise!List, Held
    <2> QED
      BY <2>1 DEF Promise!Next, Promise!Read
  <1>4. CASE \E P \in SUBSET Values, at \in {None} \cup Times : Query(P, at)
    BY <1>1, <1>4, QueryIsPromised DEF Promise!Next, Promise!Read
  <1>5. CASE \E v \in Values, at \in {None} \cup Times : KeysByValue(v, at)
    BY <1>1, <1>5, KeysByValueIsPromised DEF Promise!Next, Promise!Read
  <1>6. CASE \E k \in Keys : IsIn(k)
    BY <1>6, IsInIsPromised DEF Promise!Next, Promise!Read
  <1>7. CASE \E k \in Keys : History(k)
    <2>1. PICK k \in Keys : History(k)
      BY <1>7
    <2>2. Promise!All(k)
      BY <2>1, AnswersShow, WhatAKeyHas DEF History, Promise!All
    <2> QED
      BY <2>2 DEF Promise!Next, Promise!Read
  <1>8. CASE \E k \in Keys, start, end \in {None} \cup Times : GetRange(k, start, end)
    <2>1. PICK k \in Keys, start \in {None} \cup Times, end \in {None} \cup Times :
             GetRange(k, start, end)
      BY <1>8
    <2> DEFINE from == IF start = None THEN 0 ELSE start
    <2>2. from \in Promise!Times
      BY DEF Times, Promise!Times, ChronoMapAssumption
    <2>3. Answer([versions |-> Within(Current(k), from, Given(end))])
      BY <2>1 DEF GetRange
    <2> HIDE DEF from
    <2>4. Promise!Between(k, from, Given(end))
      BY <2>3, AnswersShow, WhatAKeyHas, SameWithin DEF Promise!Between
    <2> QED
      BY <1>1, <2>2, <2>4 DEF Promise!Next, Promise!Read
  <1> QED
    BY <1>2, <1>3, <1>4, <1>5, <1>6, <1>7, <1>8 DEF Ask

-----------------------------------------------------------------------------
(***************************************************************************)
(* Pruning.                                                                *)
(***************************************************************************)
LEMMA PrunedIsTail ==
    ASSUME ChronoMapAssumption, now \in Times, NEW h, Sound(h),
           NEW keep \in {None} \cup KeepArgs, NEW older \in {None} \cup Cutoffs,
           older # Unparsable
    PROVE  IsTail(Pruned(h, keep, older), h, Admitted)
  <1> DEFINE newest == IF keep = None THEN h ELSE KeepLast(h, keep)
  <1>1. h \in Seq(Admitted) /\ Ordered(h) /\ Timed(Admitted)
    BY AdmittedIsTimed DEF Sound
  <1>2. IsTail(newest, h, Admitted) /\ Ordered(newest)
    <2>1. CASE keep = None
      BY <1>1, <2>1, WholeIsTail
    <2>2. CASE keep # None
      <3>1. keep \in Int
        BY <2>2 DEF ChronoMapAssumption
      <3> QED
        BY <1>1, <2>2, <3>1, KeepLastIsTail, KeepLastShortened DEF Shortened
    <2> QED
      BY <2>1, <2>2
  <1>3. Pruned(h, keep, older) = IF older = None THEN newest ELSE DropOlder(newest, older)
    BY DEF Pruned
  <1> HIDE DEF newest
  <1>4. CASE older = None
    BY <1>2, <1>3, <1>4
  <1>5. CASE older # None
    <2>1. older \in Int
      <3>1. Cutoffs \subseteq Times \cup {Unparsable} /\ MaxTime \in Nat
        BY DEF ChronoMapAssumption
      <3>2. older \in Times
        BY <1>5, <3>1
      <3> QED
        BY <3>1, <3>2 DEF Times
    <2>2. newest \in Seq(Admitted)
      BY <1>2 DEF IsTail
    <2> HIDE DEF Admitted
    <2>3. IsTail(DropOlder(newest, older), newest, Admitted)
      BY <1>1, <1>2, <2>1, <2>2, DropOlderIsTail
    <2> QED
      BY <1>1, <1>2, <1>3, <1>5, <2>3, TailOfTail
  <1> QED
    BY <1>4, <1>5

(***************************************************************************)
(* What a prune has taken is finite where it has pruned one key, and is    *)
(* all from the keys it has pruned.                                        *)
(***************************************************************************)
LEMMA NothingTakenFromTheSame ==
    ASSUME NEW n \in Nat
    PROVE  1 .. n - n = {}
  OBVIOUS

LEMMA NothingTakenElsewhere ==
    ASSUME NEW h, NEW g, NEW S, NEW f, NEW e, NEW D,
           DOMAIN g = DOMAIN h, S \subseteq DOMAIN h,
           \A k \in DOMAIN h : h[k] \in Seq(D),
           \A k \in DOMAIN h \ S : g[k] = h[k],
           DOMAIN e = S, \A k \in S : f[k] = h[k] /\ e[k] = g[k]
    PROVE  Taken(h, g) = Taken(f, e)
  <1>1. \A k \in DOMAIN h \ S : Len(h[k]) \in Nat /\ Len(g[k]) = Len(h[k])
    OBVIOUS
  <1>2. \A k \in DOMAIN h \ S : 1 .. Len(h[k]) - Len(g[k]) = {}
    BY <1>1, NothingTakenFromTheSame
  <1>3. \A k \in S : 1 .. Len(h[k]) - Len(g[k]) = 1 .. Len(f[k]) - Len(e[k])
    OBVIOUS
  <1> DEFINE before(k) == 1 .. Len(h[k]) - Len(g[k])
             after(k) == 1 .. Len(f[k]) - Len(e[k])
  <1>4. /\ \A k \in DOMAIN h \ S : before(k) = {}
        /\ \A k \in S : before(k) = after(k)
    BY <1>2, <1>3
  <1>5. /\ Taken(h, g) = UNION {{k} \X before(k) : k \in DOMAIN h}
        /\ Taken(f, e) = UNION {{k} \X after(k) : k \in S}
    BY DEF Taken
  <1> HIDE DEF before, after
  <1>6. \A k \in DOMAIN h \ S : {k} \X before(k) = {}
    BY <1>4
  <1>7. \A k \in S : {k} \X before(k) = {k} \X after(k)
    BY <1>4
  <1> QED
    BY <1>5, <1>6, <1>7

LEMMA OneKeysVersionsAreCounted ==
    ASSUME NEW h, NEW g, NEW k, NEW D, DOMAIN g = DOMAIN h, k \in DOMAIN h,
           \A j \in DOMAIN h : h[j] \in Seq(D) /\ g[j] \in Seq(D),
           \A j \in DOMAIN h \ {k} : g[j] = h[j]
    PROVE  Cardinality(Taken(h, g)) \in Nat
  <1> DEFINE n == Len(h[k]) - Len(g[k])
             f == [j \in {k} |-> h[j]]
             e == [j \in {k} |-> g[j]]
  <1>1. Taken(h, g) = Taken(f, e)
    BY NothingTakenElsewhere
  <1>2. Taken(f, e) = {k} \X (1 .. n)
    BY DEF Taken
  <1>3. n \in Int
    OBVIOUS
  <1> HIDE DEF n
  <1>4. IsFiniteSet(1 .. n)
    <2>1. 1 \in Int
      OBVIOUS
    <2> QED
      BY <1>3, <2>1, FS_Interval
  <1>5. IsFiniteSet({k} \X (1 .. n))
    <2>1. IsFiniteSet({k})
      BY FS_Singleton
    <2> QED
      BY <1>4, <2>1, FS_Product
  <1> QED
    BY <1>1, <1>2, <1>5, FS_CardinalityType

LEMMA PruneIsPromised ==
    ASSUME ChronoMapAssumption, WellUsed, WellFormed,
           NEW keep \in {None} \cup KeepArgs, NEW older \in {None} \cup Cutoffs,
           Prune(keep, older)
    PROVE  Promise!Next
  <1>1. older # Unparsable
    BY DEF WellUsed, ChronoMapAssumption
  <1>2. PICK S : PruneKeys(S, keep, older) /\ ((\E k \in Keys : S = {k}) \/ S = Live)
    BY <1>1 DEF Prune
  <1>3. /\ ttl' = ttl /\ now' = now /\ told' = {}
        /\ answer' = [removed |-> Cardinality(Taken(store, store'))]
        /\ store' = [k \in DOMAIN store |->
                       IF k \in S THEN Pruned(store[k], keep, older) ELSE store[k]]
    BY <1>2 DEF PruneKeys
  <1>4. ASSUME NEW k \in DOMAIN store
        PROVE  /\ IsSuffix(store'[k], store[k])
               /\ store[k] \in Seq(Admitted) /\ store'[k] \in Seq(Admitted)
    <2>1. Sound(store[k]) /\ now \in Times /\ store[k] \in Seq(Admitted)
      BY DEF WellFormed, Sound
    <2>2. IsTail(Pruned(store[k], keep, older), store[k], Admitted)
      BY <1>1, <2>1, PrunedIsTail
    <2>3. IsTail(store[k], store[k], Admitted)
      BY <2>1, WholeIsTail
    <2>4. IsTail(store'[k], store[k], Admitted)
      BY <1>3, <2>2, <2>3
    <2> QED
      BY <2>1, <2>4, TailIsSuffix DEF IsTail
  <1>5. Live' = Live /\ DOMAIN store' = DOMAIN store
    BY <1>3 DEF Live, Expired
  <1>6. /\ DOMAIN Held' = DOMAIN Held /\ DOMAIN Held = Live
        /\ \A k \in Live : Held'[k] = store'[k] /\ Held[k] = store[k] /\ k \in DOMAIN store
    BY <1>5 DEF Held, Restrict, Live
  <1>7. /\ \A k \in DOMAIN Held : Promise!IsSuffix(Held'[k], Held[k])
        /\ \A k \in DOMAIN Held \ S : Held'[k] = Held[k]
    BY <1>3, <1>4, <1>6, SameSuffix
  <1>8. Expiry' = Expiry /\ Lingering' = Lingering
    BY <1>3, <1>5 DEF Expiry, Lingering, Restrict
  <1>9. S \in SUBSET Keys
    BY <1>2 DEF Live, WellFormed
  <1>10. CASE S \cap Lingering = {}
    <2>1. \A k \in DOMAIN store \ Live : store'[k] = store[k]
      BY <1>3, <1>10 DEF Lingering
    <2>2. Taken(store, store') = Taken(Held, Held')
      BY <1>4, <1>5, <1>6, <2>1, NothingTakenElsewhere
    <2>3. answer' = [removed |-> Promise!Cardinality(Promise!Taken(Held, Held'))]
      BY <1>3, <2>2, SameCounts
    <2>4. Promise!Prune(S)
      BY <1>3, <1>6, <1>7, <1>8, <2>3 DEF Promise!Prune, Held, Expiry, Lingering
    <2> QED
      BY <1>9, <2>4 DEF Promise!Next
  <1>11. CASE S \cap Lingering # {}
    <2>1. PICK k \in Keys : S = {k} /\ k \in DOMAIN store
      BY <1>2, <1>11 DEF Lingering, Live
    <2>2. Cardinality(Taken(store, store')) \in Nat
      BY <1>3, <1>4, <1>5, <2>1, OneKeysVersionsAreCounted
    <2>3. answer' \in [removed : Nat]
      BY <1>3, <2>2
    <2>4. Promise!Prune(S)
      BY <1>3, <1>6, <1>7, <1>8, <1>11, <2>3 DEF Promise!Prune, Held, Expiry, Lingering
    <2> QED
      BY <1>9, <2>4 DEF Promise!Next
  <1> QED
    BY <1>10, <1>11

(***************************************************************************)
(* Merging and rolling back.  When no key of the map has expired, what it  *)
(* shows is what it stores.                                                *)
(***************************************************************************)
LEMMA AllIsHeld ==
    ASSUME ChronoMapAssumption, WellFormed, \A k \in Keys : ~Expired(k)
    PROVE  /\ Held = [k \in DOMAIN store |-> store[k]] /\ DOMAIN Held = DOMAIN store
           /\ Expiry = [k \in DOMAIN ttl |-> ttl[k]] /\ DOMAIN Expiry = DOMAIN ttl
           /\ \A k : Promise!HeldOf(k) = Versions(k)
  <1>1. Live = DOMAIN store /\ DOMAIN ttl \cap Live = DOMAIN ttl
    BY DEF Live, WellFormed
  <1>2. \A k : Promise!HeldOf(k) = Versions(k)
    <2>1. \A k : Expired(k) => k \in Keys
      BY DEF Expired, WellFormed
    <2> QED
      BY <2>1, WhatAKeyHas DEF Current
  <1> QED
    BY <1>1, <1>2 DEF Held, Expiry, Restrict

LEMMA OverwriteIsPromised ==
    ASSUME ChronoMapAssumption, ~MergeExpired, WellFormed, WellFormed',
           NEW m \in OtherMaps, MergeOverwrite(m)
    PROVE  Promise!Next
  <1>1. /\ \A k \in Keys : ~Expired(k)
        /\ store' = Updated(store, m.store) /\ ttl' = Updated(ttl, m.ttl)
        /\ now' = now /\ Quiet
    BY DEF MergeOverwrite, Mergeable
  <1>2. /\ DOMAIN Held = DOMAIN store /\ \A k \in DOMAIN store : Held[k] = store[k]
        /\ DOMAIN Expiry = DOMAIN ttl /\ \A k \in DOMAIN ttl : Expiry[k] = ttl[k]
    BY <1>1, AllIsHeld
  <1>3. Updated(Held, m.store) = Updated(store, m.store)
    BY <1>2 DEF Updated
  <1>4. Updated(Expiry, m.ttl) = Updated(ttl, m.ttl)
    BY <1>2 DEF Updated
  <1>5. Promise!Become(Promise!Updated(Held, m.store), Promise!Updated(Expiry, m.ttl))
    BY <1>1, <1>3, <1>4, ShowsAsItIs, SameDicts
  <1>6. Promise!Overwrite(m)
    BY <1>1, <1>5 DEF Promise!Overwrite, Promise!Quiet, Quiet, Held, Expiry
  <1> QED
    BY <1>6 DEF Promise!Next

LEMMA MergeIsPromised ==
    ASSUME ChronoMapAssumption, ~MergeExpired, WellFormed, WellFormed',
           NEW m \in OtherMaps, MergeTimestamp(m)
    PROVE  Promise!Next
  <1>1. /\ \A k \in Keys : ~Expired(k) /\ FromThePast(m)
        /\ store' = MergedStore(m) /\ ttl' = MergedTtl(m)
        /\ now' = now /\ Quiet
    BY DEF MergeTimestamp, Mergeable
  <1>2. /\ DOMAIN Held = DOMAIN store /\ \A k \in DOMAIN store : Held[k] = store[k]
        /\ DOMAIN Expiry = DOMAIN ttl /\ \A k \in DOMAIN ttl : Expiry[k] = ttl[k]
        /\ \A k : Promise!HeldOf(k) = Versions(k)
    BY <1>1, AllIsHeld
  <1> DEFINE new == [k \in DOMAIN m.store |-> AutoPrune(Absorb(Versions(k), m.store[k]), Cap)]
             promised == [k \in DOMAIN m.store |->
                            Promise!AutoPrune(Promise!Absorb(Promise!HeldOf(k), m.store[k]), Cap)]
             later == {k \in DOMAIN m.ttl : k \notin DOMAIN ttl \/ m.ttl[k] > ttl[k]}
             ends == [k \in later |-> m.ttl[k]]
             last == [k \in DOMAIN m.ttl |->
                        IF k \in DOMAIN Expiry /\ Expiry[k] > m.ttl[k] THEN Expiry[k] ELSE m.ttl[k]]
  <1>3. promised = new
    BY <1>2, SameHistories, SameAbsorb
  <1>4. store' = Updated(store, new) /\ ttl' = Updated(ttl, ends)
    BY <1>1 DEF MergedStore, MergedTtl
  <1>5. Updated(Held, new) = Updated(store, new)
    <2> HIDE DEF new
    <2> QED
      BY <1>2 DEF Updated
  <1>6. Updated(Expiry, last) = Updated(ttl, ends)
    <2>1. /\ \A k \in DOMAIN ttl : ttl[k] \in Int
          /\ \A k \in DOMAIN m.ttl : m.ttl[k] \in Int
      BY <1>1, OtherMapsAreSound DEF WellFormed
    <2>2. DOMAIN last = DOMAIN m.ttl /\ DOMAIN ends = later
      OBVIOUS
    <2>3. DOMAIN Updated(Expiry, last) = DOMAIN Updated(ttl, ends)
      BY <1>2, <2>2 DEF Updated
    <2>4. ASSUME NEW k \in DOMAIN Updated(ttl, ends)
          PROVE  Updated(Expiry, last)[k] = Updated(ttl, ends)[k]
      <3>1. CASE k \in later
        <4>1. k \in DOMAIN m.ttl /\ ~(k \in DOMAIN Expiry /\ Expiry[k] > m.ttl[k])
          BY <1>2, <2>1, <3>1
        <4>2. last[k] = m.ttl[k] /\ ends[k] = m.ttl[k]
          BY <3>1, <4>1
        <4> QED
          BY <1>2, <2>2, <2>3, <2>4, <3>1, <4>1, <4>2 DEF Updated
      <3>2. CASE k \in DOMAIN m.ttl /\ k \notin later
        <4>1. k \in DOMAIN ttl /\ Expiry[k] = ttl[k] /\ ~(m.ttl[k] > ttl[k])
          BY <1>2, <3>2
        <4>2. last[k] = ttl[k]
          BY <1>2, <2>1, <3>2, <4>1
        <4> QED
          BY <1>2, <2>2, <2>3, <2>4, <3>2, <4>1, <4>2 DEF Updated
      <3>3. CASE k \notin DOMAIN m.ttl
        BY <1>2, <2>2, <2>3, <2>4, <3>3 DEF Updated
      <3> QED
        BY <3>1, <3>2, <3>3
    <2> QED
      BY <2>3, <2>4 DEF Updated
  <1>7. Promise!Become(Promise!Updated(Held, promised), Promise!Updated(Expiry, last))
    <2>1. Promise!Updated(Held, promised) = store'
      BY <1>3, <1>4, <1>5, SameDicts
    <2>2. Promise!Updated(Expiry, last) = ttl'
      BY <1>4, <1>6, SameDicts
    <2> HIDE DEF promised, last
    <2> QED
      BY <1>1, <2>1, <2>2, ShowsAsItIs
  <1>8. Promise!Merge(m)
    BY <1>1, <1>7 DEF Promise!Merge, Promise!Quiet, Quiet, Held, Expiry
  <1> QED
    BY <1>8 DEF Promise!Next

LEMMA RollbackIsPromised ==
    ASSUME WellFormed', NEW m \in OtherMaps, Rollback(m)
    PROVE  Promise!Next
  <1>1. Promise!Become(m.store, m.ttl) /\ Quiet /\ now' = now
    BY ShowsAsItIs DEF Rollback
  <1>2. Lingering' \subseteq DOMAIN m.store
    BY DEF Rollback, Lingering
  <1>3. Promise!Restore(m)
    BY <1>1, <1>2 DEF Promise!Restore, Promise!Quiet, Quiet, Lingering
  <1> QED
    BY <1>3 DEF Promise!Next

(***************************************************************************)
(* Every step.  The cache must tell the truth, the memory limit must not   *)
(* have been met, and no merge may find an expired key: put() would raise  *)
(* after the write, or the merge would bring the expired history back.     *)
(***************************************************************************)
LEMMA NextIsPromised ==
    ASSUME ChronoMapAssumption, WellUsed, ~MergeExpired, LifetimesEnd,
           WellFormed, WellFormed', CacheTellsTheTruth, ~OverLimit(store'), Next
    PROVE  Promise!Next
  <1>1. CASE Tick
    BY <1>1, TickIsPromised
  <1>2. CASE \E k \in Keys, v \in Values, at \in Moments, life \in Lives : Put(k, v, at, life)
    BY <1>2, PutIsPromised
  <1>3. CASE \E items \in Items, at \in Moments, life \in Lives : PutMany(items, at, life)
    BY <1>3, PutManyIsPromised
  <1>4. CASE \E k \in Keys, v \in Values, life \in Lives : GetOrSet(k, v, life)
    BY <1>4, GetOrSetIsPromised
  <1>5. CASE CleanExpiredKeys \/ \E k \in Keys : FactoryRaises(k)
    BY <1>5, SweepIsPromised, FactoryRaisesUnseen
  <1>6. CASE \E k \in Keys, at \in {None} \cup Times : Get(k, at)
    BY <1>6, GetIsPromised
  <1>7. CASE \E S \in SUBSET Keys : Delete(S)
    BY <1>7, DeleteIsPromised
  <1>8. CASE \E keep \in {None} \cup KeepArgs, older \in {None} \cup Cutoffs : Prune(keep, older)
    BY <1>8, PruneIsPromised
  <1>9. CASE \E m \in OtherMaps : MergeTimestamp(m) \/ MergeOverwrite(m) \/ Rollback(m)
    BY <1>9, MergeIsPromised, OverwriteIsPromised, RollbackIsPromised
  <1>10. CASE Clear
    BY <1>10, ClearIsPromised
  <1>11. CASE ResetStats
    BY <1>11, ResetIsPromised
  <1>12. CASE Ask
    BY <1>12, AskIsPromised
  <1> QED
    BY <1>1, <1>2, <1>3, <1>4, <1>5, <1>6, <1>7, <1>8, <1>9, <1>10, <1>11, <1>12 DEF Next

(***************************************************************************)
(* For all keys, values, caps and cache sizes: as long as no write exceeds *)
(* the memory limit, a ChronoMap that is used as its documentation has it  *)
(* (WellUsed) and is not merged into while it holds expired keys is a      *)
(* TimeMap.  No answer tells its cache from a map that answers every       *)
(* question from the histories, and its lazily expired keys are seen in    *)
(* the counts of what calls remove (Forget, Sweep and Prune) and nowhere   *)
(* else.                                                                   *)
(***************************************************************************)
THEOREM MapKeepsItsPromise ==
    ASSUME WellUsed, ~MergeExpired, LifetimesEnd
    PROVE  Spec /\ []~OverLimit(store) => ImplementsTimeMap
  <1> USE ChronoMapAssumption, WellUsed, ~MergeExpired, LifetimesEnd
  <1>1. Init => Promise!Init
    <2> SUFFICES ASSUME Init PROVE Promise!Init
      OBVIOUS
    <2>1. /\ store = EmptyDict /\ ttl = EmptyDict /\ now = 0 /\ answer = Silent /\ told = {}
      BY DEF Init
    <2>2. DOMAIN store = {} /\ DOMAIN ttl = {}
      BY <2>1 DEF EmptyDict
    <2>3. Restrict(store, Live) = Promise!EmptyDict
      BY <2>2 DEF Restrict, Live, Promise!EmptyDict
    <2>4. Restrict(ttl, DOMAIN ttl \cap Live) = Promise!EmptyDict
      BY <2>2 DEF Restrict, Live, Promise!EmptyDict
    <2>5. DOMAIN store \ Live = {}
      BY <2>2
    <2> QED
      BY <2>1, <2>3, <2>4, <2>5 DEF Promise!Init
  <1>2. /\ WellFormed /\ WellFormed' /\ CacheTellsTheTruth /\ (~OverLimit(store))'
        /\ [Next]_vars
        => [Promise!Next]_(Promise!vars)
    <2> SUFFICES ASSUME WellFormed, WellFormed', CacheTellsTheTruth, ~OverLimit(store'), [Next]_vars
                 PROVE  [Promise!Next]_(Promise!vars)
      OBVIOUS
    <2>1. CASE Next
      BY <2>1, NextIsPromised
    <2>2. CASE UNCHANGED vars
      BY <2>2 DEF vars, Promise!vars, Restrict, Live, Expired
    <2> QED
      BY <2>1, <2>2
  <1>3. Spec => []WellFormed
    BY HistoriesStayWellFormed
  <1>4. Spec => []CacheTellsTheTruth
    BY CacheStaysTruthful
  <1>5. Spec /\ []~OverLimit(store) => Promise!Init /\ [][Promise!Next]_(Promise!vars)
    BY <1>1, <1>2, <1>3, <1>4, PTL DEF Spec
  <1> QED
    BY <1>5 DEF ImplementsTimeMap, Promise!Spec
=============================================================================
