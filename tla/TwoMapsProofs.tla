--------------------------- MODULE TwoMapsProofs ----------------------------
(***************************************************************************)
(* What diff() and merge() promise of two maps that others write to, for   *)
(* any writers, keys, values and times: the inductive invariant Inv of     *)
(* TwoMaps and what follows from it, whenever the dicts close their gaps.  *)
(***************************************************************************)
EXTENDS TwoMaps, VersionHistoryProofs

(***************************************************************************)
(* Histories of versions that are not ahead of the clock, and dicts of     *)
(* them; times to live; dicts of histories that can be searched.           *)
(***************************************************************************)
Past(h, t) == h \in Seq(Version) /\ \A i \in 1 .. Len(h) : h[i].ts <= t

PastAll(d, t) == DOMAIN d \subseteq Keys /\ \A k \in DOMAIN d : Past(d[k], t)

Lives(e) == \A k \in DOMAIN e : e[k] \in Nat

Sorted(d) == \A k \in DOMAIN d : Ordered(d[k])

StoresOK ==
    /\ now \in 0 .. MaxTime
    /\ DOMAIN store = Maps /\ DOMAIN ttl = Maps
    /\ \A m \in Maps : PastAll(store[m], now) /\ Lives(ttl[m])

(***************************************************************************)
(* The layout of other's dict names the keys that it has.                  *)
(***************************************************************************)
LayoutOK ==
    /\ entries \in Seq(Keys \cup {None})
    /\ \A k \in Keys : k \in DOMAIN store.other <=> \E p \in 1 .. Len(entries) : entries[p] = k

(***************************************************************************)
(* Who holds which lock: a put() that of its map, the caller self's.       *)
(***************************************************************************)
Busy(w, m) == put[w] # None /\ put[w].map = m

Stacks == {<< >>, <<"R">>, <<"W">>}

LocksOK ==
    /\ put \in [Writers -> Puts \cup {None}]
    /\ held \in [Threads -> Stacks] /\ heldOther \in [Threads -> Stacks]
    /\ held[Caller] = IF Diffing THEN <<"R">> ELSE IF Walking THEN <<"W">> ELSE << >>
    /\ heldOther[Caller] = << >>
    /\ \A w \in Writers : held[w] = IF Busy(w, "self") THEN <<"W">> ELSE << >>
    /\ \A w \in Writers : heldOther[w] = IF Busy(w, "other") THEN <<"W">> ELSE << >>
    /\ \A w \in Writers : Busy(w, "self") => ~Diffing /\ ~Walking
    /\ \A m \in Maps : \A w, u \in Writers : Busy(w, m) /\ Busy(u, m) => w = u

ListsOK ==
    \A w \in Writers : /\ put[w] # None => put[w].ts <= now
                       /\ put[w] # None /\ put[w].at = "listed" =>
                            put[w].key \in DOMAIN store[put[w].map]

OrderOK ==
    /\ Sorted(store.other)
    /\ Diffing \/ (Walking /\ local.op = "merge") \/ (\E w \in Writers : Busy(w, "self"))
          => Sorted(store.self)

WalkOK ==
    Walking =>
      /\ DOMAIN local = {"op", "position", "size", "left", "key", "list", "i", "copy", "copies"}
      /\ local.op \in {"merge", "overwrite", "rollback"}
      /\ local.position \in Nat
      /\ PastAll(local.copies, now)
      /\ pc = "versions" =>
           /\ local.key \in Keys /\ local.i \in Nat /\ Past(local.copy, now)
           /\ local.op = "merge" => local.key \in DOMAIN store.self
           /\ IF local.list = None
              THEN local.key \in DOMAIN store.other
              ELSE Past(local.list, now) /\ << >> \in histories[local.key]

ObservedOK ==
    Walking => DOMAIN histories = Keys /\ \A k \in Keys : HistoryOf("other", k) \in histories[k]

(***************************************************************************)
(* Other has had version v of key k all the while.                         *)
(***************************************************************************)
Stays(k, v) == \A h \in histories[k] : v \in ToSet(h)

Copied(k) == IF k \in DOMAIN local.copies THEN local.copies[k] ELSE << >>

Result(k) == IF local.op = "rollback" THEN Copied(k) ELSE HistoryOf("self", k)

Partial == IF local.op = "merge" THEN HistoryOf("self", local.key) ELSE local.copy

Passed(k, p) == p <= local.position /\ (pc = "versions" => k # local.key)

KeysReached ==
    pc \in {"walk", "versions"} =>
       \A k \in Keys \ shifted : \A v \in Version : \A p \in 1 .. Len(entries) :
          Stays(k, v) /\ entries[p] = k /\ Passed(k, p) => v \in ToSet(Result(k))

VersionsReached ==
    pc = "versions" /\ local.list = None /\ local.key \notin shifted =>
       \A v \in Version : Stays(local.key, v) =>
          \/ v \in ToSet(Partial)
          \/ \E j \in 1 .. Len(HistoryOf("other", local.key)) :
                j > local.i /\ HistoryOf("other", local.key)[j] = v

AllReached ==
    pc \in {"walked", "returned"} =>
       \A k \in Keys \ shifted : \A v \in Version : Stays(k, v) => v \in ToSet(HistoryOf("self", k))

Judged == \E d \in verdicts[local.key] : IF local.differs THEN d.flagged ELSE ~d.values

DiffOK ==
    Diffing =>
      /\ DOMAIN local = {"todo", "key", "own", "differs", "since"}
      /\ local.todo \subseteq Keys /\ local.since \in 0 .. now
      /\ pc # "keys" => local.key \in Keys
      /\ DOMAIN verdicts = Keys
      /\ \A k \in Keys : \A at \in local.since .. now : Difference(k, at) \in verdicts[k]
      /\ PastAll(store.self, local.since)

SteadyOK ==
    Diffing /\ pc # "keys" /\ local.key \notin unsteady =>
      /\ pc \in {"checked", "both", "got"} => ~Expired("self", local.key)
      /\ pc \in {"either", "again"} => Expired("self", local.key) \/ Expired("other", local.key)
      /\ pc = "again" => local.own = Expired("self", local.key)
      /\ pc = "got" => /\ local.own.ts \in local.since .. now
                       /\ local.own.val = AsOf("self", local.key, local.own.ts)
      /\ pc = "judged" => Judged

Base == StoresOK /\ LayoutOK /\ LocksOK /\ ListsOK /\ OrderOK

Walks == WalkOK /\ ObservedOK /\ KeysReached /\ VersionsReached /\ AllReached

Diffs == DiffOK /\ SteadyOK

Inv == Base /\ Walks /\ Diffs

-----------------------------------------------------------------------------

(***************************************************************************)
(* Versions, histories and dicts.                                          *)
(***************************************************************************)
LEMMA VersionIsTimed == Timed(Version) /\ \A v \in Version : v.ts \in 0 .. MaxTime /\ v.ts \in Int
  BY TwoMapsAssumption DEF Timed, Version

LEMMA PastLater ==
    ASSUME NEW t \in Int, NEW u \in Int, t <= u, NEW h, Past(h, t)
    PROVE  Past(h, u)
  <1>1. \A i \in 1 .. Len(h) : h[i] \in Version
    BY DEF Past
  <1> QED
    BY <1>1, VersionIsTimed DEF Past

LEMMA EmptyPast == \A t : Past(<< >>, t) /\ ToSet(<< >>) = {}
  BY DEF Past, ToSet

LEMMA WithoutFacts ==
    ASSUME NEW d, NEW S
    PROVE  /\ DOMAIN Without(d, S) = DOMAIN d \ S
           /\ \A k \in DOMAIN d \ S : Without(d, S)[k] = d[k]
  BY DEF Without, Restrict

LEMMA UpdatedFacts ==
    ASSUME NEW d, NEW k, NEW h
    PROVE  /\ DOMAIN Updated(d, Single(k, h)) = DOMAIN d \cup {k}
           /\ Updated(d, Single(k, h))[k] = h
           /\ \A j \in DOMAIN d : j # k => Updated(d, Single(k, h))[j] = d[j]
  BY DEF Updated, Single

(***************************************************************************)
(* An insertion loses nothing, brings no version forward, and adds one.    *)
(***************************************************************************)
LEMMA InsertMoves ==
    ASSUME NEW h \in Seq(Version), Ordered(h), NEW v \in Version
    PROVE  /\ InsertVersion(h, v) \in Seq(Version) /\ Ordered(InsertVersion(h, v))
           /\ Len(InsertVersion(h, v)) = Len(h) + 1
           /\ \A j \in 1 .. Len(h) : \E i \in j .. Len(h) + 1 : InsertVersion(h, v)[i] = h[j]
           /\ \E i \in 1 .. Len(h) + 1 : InsertVersion(h, v)[i] = v
           /\ \A i \in 1 .. Len(h) + 1 :
                 InsertVersion(h, v)[i] = v \/ \E j \in 1 .. Len(h) : InsertVersion(h, v)[i] = h[j]
  <1> DEFINE g == InsertVersion(h, v)
  <1>1. g \in Seq(Version) /\ Ordered(g)
    BY InsertOrdered, VersionIsTimed
  <1>2. \E n \in 0 .. Len(h) : /\ Len(g) = Len(h) + 1
                               /\ \A j \in 1 .. n : g[j] = h[j]
                               /\ g[n + 1] = v
                               /\ \A j \in n + 2 .. Len(h) + 1 : g[j] = h[j - 1]
    <2>1. CASE h = << >> \/ v.ts >= h[Len(h)].ts
      <3>1. g = Append(h, v)
        BY <2>1 DEF InsertVersion
      <3>2. /\ Len(h) \in 0 .. Len(h) /\ Len(g) = Len(h) + 1 /\ g[Len(h) + 1] = v
            /\ \A j \in 1 .. Len(h) : g[j] = h[j]
            /\ \A j \in Len(h) + 2 .. Len(h) + 1 : g[j] = h[j - 1]
        BY <3>1
      <3> QED
        BY <3>2
    <2>2. CASE ~(h = << >> \/ v.ts >= h[Len(h)].ts)
      <3> DEFINE n == BisectRight(h, v.ts)
      <3>1. g = InsertAt(h, n + 1, v)
        BY <2>2 DEF InsertVersion
      <3>2. n \in 0 .. Len(h)
        BY BisectRightFinds, VersionIsTimed
      <3> HIDE DEF n, g
      <3>3. Len(g) = Len(h) + 1
        BY <3>1, <3>2, InsertAtFacts
      <3>4. \A j \in 1 .. n : g[j] = h[j]
        BY <3>1, <3>2, InsertAtFacts
      <3>5. g[n + 1] = v
        BY <3>1, <3>2, InsertAtFacts
      <3>6. \A j \in n + 2 .. Len(h) + 1 : g[j] = h[j - 1]
        BY <3>1, <3>2, InsertAtFacts
      <3> QED
        BY <3>2, <3>3, <3>4, <3>5, <3>6
    <2> QED
      BY <2>1, <2>2
  <1> HIDE DEF g
  <1>3. PICK n \in 0 .. Len(h) : /\ Len(g) = Len(h) + 1
                                 /\ \A j \in 1 .. n : g[j] = h[j]
                                 /\ g[n + 1] = v
                                 /\ \A j \in n + 2 .. Len(h) + 1 : g[j] = h[j - 1]
    BY <1>2
  <1>4. Len(h) \in Nat
    OBVIOUS
  <1>5. ASSUME NEW j \in 1 .. Len(h) PROVE \E i \in j .. Len(h) + 1 : g[i] = h[j]
    <2>1. CASE j \in 1 .. n
      <3>1. j \in j .. Len(h) + 1 /\ g[j] = h[j]
        BY <1>3, <1>4, <2>1
      <3> QED
        BY <3>1
    <2>2. CASE j \notin 1 .. n
      <3>1. j + 1 \in n + 2 .. Len(h) + 1 /\ j + 1 \in j .. Len(h) + 1 /\ (j + 1) - 1 = j
        BY <1>3, <1>4, <2>2
      <3>2. g[j + 1] = h[j]
        BY <1>3, <3>1
      <3> QED
        BY <3>1, <3>2
    <2> QED
      BY <2>1, <2>2
  <1>6. \E i \in 1 .. Len(h) + 1 : g[i] = v
    <2>1. n + 1 \in 1 .. Len(h) + 1
      BY <1>4
    <2> QED
      BY <1>3, <2>1
  <1>7. ASSUME NEW i \in 1 .. Len(h) + 1 PROVE g[i] = v \/ \E j \in 1 .. Len(h) : g[i] = h[j]
    <2>1. CASE i \in 1 .. n
      <3>1. i \in 1 .. Len(h)
        BY <1>4, <2>1
      <3> QED
        BY <1>3, <2>1, <3>1
    <2>2. CASE i = n + 1
      BY <1>3, <2>2
    <2>3. CASE i \in n + 2 .. Len(h) + 1
      <3>1. i - 1 \in 1 .. Len(h)
        BY <1>4, <2>3
      <3> QED
        BY <1>3, <2>3, <3>1
    <2>4. i \in 1 .. n \/ i = n + 1 \/ i \in n + 2 .. Len(h) + 1
      BY <1>4
    <2> QED
      BY <2>1, <2>2, <2>3, <2>4
  <1> QED
    BY <1>1, <1>3, <1>5, <1>6, <1>7 DEF g

LEMMA InsertPast ==
    ASSUME NEW t \in Int, NEW h, Past(h, t), Ordered(h), NEW v \in Version, v.ts <= t
    PROVE  /\ Past(InsertVersion(h, v), t)
           /\ ToSet(InsertVersion(h, v)) = ToSet(h) \cup {v}
  <1> DEFINE g == InsertVersion(h, v)
  <1>1. h \in Seq(Version) /\ \A i \in 1 .. Len(h) : h[i].ts <= t
    BY DEF Past
  <1>2. g \in Seq(Version) /\ Len(g) = Len(h) + 1 /\ Len(h) \in Nat
    BY <1>1, InsertMoves
  <1>7. \A j \in 1 .. Len(h) : \E i \in j .. Len(h) + 1 : g[i] = h[j]
    BY <1>1, InsertMoves
  <1>8. \E i \in 1 .. Len(h) + 1 : g[i] = v
    BY <1>1, InsertMoves
  <1>9. \A i \in 1 .. Len(h) + 1 : g[i] = v \/ \E j \in 1 .. Len(h) : g[i] = h[j]
    BY <1>1, InsertMoves
  <1> HIDE DEF g
  <1>3. Past(g, t)
    BY <1>1, <1>2, <1>9 DEF Past
  <1>4. DOMAIN h = 1 .. Len(h) /\ DOMAIN g = 1 .. Len(h) + 1
    BY <1>1, <1>2
  <1>5. \A j \in 1 .. Len(h) : \E i \in 1 .. Len(h) + 1 : g[i] = h[j]
    BY <1>2, <1>7
  <1>6. ToSet(g) = ToSet(h) \cup {v}
    <2>1. \A x : x \in ToSet(g) <=> \E i \in 1 .. Len(h) + 1 : g[i] = x
      BY <1>4 DEF ToSet
    <2>2. \A x : x \in ToSet(h) <=> \E j \in 1 .. Len(h) : h[j] = x
      BY <1>4 DEF ToSet
    <2> QED
      BY <1>5, <1>8, <1>9, <2>1, <2>2
  <1> QED
    BY <1>3, <1>6 DEF g

LEMMA KeepLastPast ==
    ASSUME NEW t \in Int, NEW h, Past(h, t)
    PROVE  Past(KeepLast(h, 1), t) /\ (Ordered(h) => Ordered(KeepLast(h, 1)))
  <1>1. h \in Seq(Version) /\ \A i \in 1 .. Len(h) : h[i].ts <= t
    BY DEF Past
  <1> DEFINE g == KeepLast(h, 1)
  <1>2. IsTail(g, h, Version)
    BY <1>1, KeepLastIsTail
  <1>3. Ordered(h) => Ordered(g)
    BY <1>1, KeepLastShortened DEF Shortened
  <1> HIDE DEF g
  <1>4. Past(g, t)
    BY <1>1, <1>2 DEF Past, IsTail
  <1> QED
    BY <1>3, <1>4 DEF g

LEMMA PastAllLater ==
    ASSUME NEW t \in Int, NEW u \in Int, t <= u, NEW d, PastAll(d, t)
    PROVE  PastAll(d, u)
  BY PastLater DEF PastAll

LEMMA PastAllWithout ==
    ASSUME NEW t, NEW d, PastAll(d, t), NEW S
    PROVE  PastAll(Without(d, S), t)
  <1> DEFINE e == Without(d, S)
  <1>1. DOMAIN e = DOMAIN d \ S /\ \A k \in DOMAIN d \ S : e[k] = d[k]
    BY WithoutFacts
  <1> HIDE DEF e
  <1>2. PastAll(e, t)
    BY <1>1 DEF PastAll
  <1> QED
    BY <1>2 DEF e

LEMMA PastAllUpdated ==
    ASSUME NEW t, NEW d, PastAll(d, t), NEW k \in Keys, NEW h, Past(h, t)
    PROVE  PastAll(Updated(d, Single(k, h)), t)
  <1> DEFINE e == Updated(d, Single(k, h))
  <1>1. DOMAIN e = DOMAIN d \cup {k} /\ e[k] = h /\ \A j \in DOMAIN d : j # k => e[j] = d[j]
    BY DEF Updated, Single
  <1> HIDE DEF e
  <1>2. PastAll(e, t)
    BY <1>1 DEF PastAll
  <1> QED
    BY <1>2 DEF e

LEMMA PastAllExcept ==
    ASSUME NEW t, NEW d, PastAll(d, t), NEW k, NEW h, Past(h, t)
    PROVE  PastAll([d EXCEPT ![k] = h], t)
  BY DEF PastAll

LEMMA SortedWithout ==
    ASSUME NEW d, Sorted(d), NEW S
    PROVE  Sorted(Without(d, S))
  <1> DEFINE e == Without(d, S)
  <1>1. DOMAIN e = DOMAIN d \ S /\ \A k \in DOMAIN d \ S : e[k] = d[k]
    BY WithoutFacts
  <1> HIDE DEF e
  <1>2. Sorted(e)
    BY <1>1 DEF Sorted
  <1> QED
    BY <1>2 DEF e

LEMMA SortedUpdated ==
    ASSUME NEW d, Sorted(d), NEW k, NEW h, Ordered(h)
    PROVE  Sorted(Updated(d, Single(k, h)))
  <1> DEFINE e == Updated(d, Single(k, h))
  <1>1. DOMAIN e = DOMAIN d \cup {k} /\ e[k] = h /\ \A j \in DOMAIN d : j # k => e[j] = d[j]
    BY DEF Updated, Single
  <1> HIDE DEF e
  <1>2. Sorted(e)
    BY <1>1 DEF Sorted
  <1> QED
    BY <1>2 DEF e

LEMMA SortedExcept ==
    ASSUME NEW d, Sorted(d), NEW k, NEW h, Ordered(h)
    PROVE  Sorted([d EXCEPT ![k] = h])
  BY DEF Sorted

(***************************************************************************)
(* What a map has of a key: a history, which may be empty.                 *)
(***************************************************************************)
LEMMA HistoryIsPast ==
    ASSUME StoresOK, NEW m \in Maps, NEW k
    PROVE  Past(HistoryOf(m, k), now)
  BY EmptyPast DEF StoresOK, PastAll, HistoryOf

LEMMA HistoryIsOrdered ==
    ASSUME NEW m, Sorted(store[m]), NEW k
    PROVE  Ordered(HistoryOf(m, k))
  BY DEF Sorted, HistoryOf, Ordered

-----------------------------------------------------------------------------

(***************************************************************************)
(* The locks.                                                              *)
(***************************************************************************)
LEMMA StackFacts ==
    /\ Append(<< >>, "R") = <<"R">> /\ Append(<< >>, "W") = <<"W">>
    /\ SubSeq(<<"R">>, 1, Len(<<"R">>) - 1) = << >> /\ SubSeq(<<"W">>, 1, Len(<<"W">>) - 1) = << >>
    /\ <<"R">> # << >> /\ <<"W">> # << >> /\ <<"R">> # <<"W">>
    /\ \A u : <<u>>[1] = u /\ 1 \in DOMAIN <<u>>
  OBVIOUS

LEMMA ThreadFacts ==
    Caller \in Threads /\ Writers \subseteq Threads /\ Caller \notin Writers
  BY TwoMapsAssumption DEF Threads

(***************************************************************************)
(* Whoever is given the lock of a map, or finds it free, is alone with it. *)
(***************************************************************************)
LEMMA TheirAlone ==
    ASSUME LocksOK, \A t \in Threads : heldOther[t] = << >>
    PROVE  \A u \in Writers : ~Busy(u, "other")
  BY StackFacts, ThreadFacts DEF LocksOK

LEMMA FreeAlone ==
    ASSUME LocksOK, NEW m \in Maps, Free(m)
    PROVE  /\ \A u \in Writers : ~Busy(u, m)
           /\ m = "self" => ~Diffing /\ ~Walking
  <1>1. CASE m = "self"
    <2>1. \A t \in Threads : held[t] = << >>
      BY <1>1 DEF Free
    <2> QED
      BY <1>1, <2>1, StackFacts, ThreadFacts DEF LocksOK
  <1>2. CASE m = "other"
    <2>1. \A t \in Threads : heldOther[t] = << >>
      BY <1>2 DEF Free
    <2> QED
      BY <1>2, <2>1, TheirAlone
  <1> QED
    BY <1>1, <1>2 DEF Maps

LEMMA AdmitAlone ==
    ASSUME LocksOK, NEW w \in Writers, put[w] = None, NEW m \in Maps, Admit(w, m)
    PROVE  /\ \A u \in Writers : ~Busy(u, m)
           /\ m = "self" => /\ ~Diffing /\ ~Walking
                            /\ held' = [held EXCEPT ![w] = <<"W">>] /\ heldOther' = heldOther
           /\ m = "other" => heldOther' = [heldOther EXCEPT ![w] = <<"W">>] /\ held' = held
  <1>1. ~Busy(w, "self") /\ ~Busy(w, "other") /\ held[w] = << >> /\ heldOther[w] = << >>
    BY DEF Busy, LocksOK
  <1>2. held \in [Threads -> Stacks] /\ heldOther \in [Threads -> Stacks] /\ w \in Threads
    BY ThreadFacts DEF LocksOK
  <1>3. CASE m = "self"
    <2>1. /\ \A u \in Threads \ {w} : held[u] = << >>
          /\ held' = [held EXCEPT ![w] = Append(@, "W")] /\ heldOther' = heldOther
      BY <1>3 DEF Admit, Own!AdmitWriter
    <2>2. held' = [held EXCEPT ![w] = <<"W">>]
      BY <1>1, <1>2, <2>1, StackFacts
    <2>3. \A u \in Threads : held[u] = << >>
      BY <1>1, <2>1
    <2> QED
      BY <1>3, <2>1, <2>2, <2>3, StackFacts, ThreadFacts DEF LocksOK
  <1>4. CASE m = "other"
    <2>1. /\ \A u \in Threads \ {w} : heldOther[u] = << >>
          /\ heldOther' = [heldOther EXCEPT ![w] = Append(@, "W")] /\ held' = held
      BY <1>4 DEF Admit, Their!AdmitWriter
    <2>2. heldOther' = [heldOther EXCEPT ![w] = <<"W">>]
      BY <1>1, <1>2, <2>1, StackFacts
    <2>3. \A u \in Threads : heldOther[u] = << >>
      BY <1>1, <2>1
    <2> QED
      BY <1>4, <2>1, <2>2, <2>3, TheirAlone
  <1> QED
    BY <1>3, <1>4 DEF Maps

LEMMA ReleaseLeaves ==
    ASSUME LocksOK, NEW w \in Writers, NEW m \in Maps, Busy(w, m), Release(w, m)
    PROVE  /\ m = "self" => held' = [held EXCEPT ![w] = << >>] /\ heldOther' = heldOther
           /\ m = "other" => heldOther' = [heldOther EXCEPT ![w] = << >>] /\ held' = held
  <1>1. held \in [Threads -> Stacks] /\ heldOther \in [Threads -> Stacks] /\ w \in Threads
    BY ThreadFacts DEF LocksOK
  <1>2. CASE m = "self"
    <2>1. held[w] = <<"W">>
      BY <1>2 DEF LocksOK
    <2>2. held' = [held EXCEPT ![w] = SubSeq(@, 1, Len(@) - 1)] /\ heldOther' = heldOther
      BY <1>2 DEF Release, Own!Leave, Own!Pop
    <2> QED
      BY <1>1, <1>2, <2>1, <2>2, StackFacts
  <1>3. CASE m = "other"
    <2>1. heldOther[w] = <<"W">>
      BY <1>3 DEF LocksOK
    <2>2. heldOther' = [heldOther EXCEPT ![w] = SubSeq(@, 1, Len(@) - 1)] /\ held' = held
      BY <1>3 DEF Release, Their!Leave, Their!Pop
    <2> QED
      BY <1>1, <1>3, <2>1, <2>2, StackFacts
  <1> QED
    BY <1>2, <1>3 DEF Maps

LEMMA CallerAdmitted ==
    ASSUME LocksOK, pc = "idle"
    PROVE  /\ Own!AdmitReader(Caller) =>
                held' = [held EXCEPT ![Caller] = <<"R">>] /\ \A u \in Writers : ~Busy(u, "self")
           /\ Own!AdmitWriter(Caller) =>
                held' = [held EXCEPT ![Caller] = <<"W">>] /\ \A u \in Writers : ~Busy(u, "self")
  <1>1. held[Caller] = << >> /\ held \in [Threads -> Stacks]
    BY DEF LocksOK, Diffing, Walking
  <1>2. ASSUME NEW u \in Writers, Busy(u, "self")
        PROVE  u \in Threads \ {Caller} /\ held[u] = <<"W">> /\ held[u] # << >> /\ Own!Holds(u, "W")
    BY <1>2, StackFacts, ThreadFacts DEF LocksOK, Own!Holds
  <1>3. ASSUME Own!AdmitReader(Caller)
        PROVE  held' = [held EXCEPT ![Caller] = <<"R">>] /\ \A u \in Writers : ~Busy(u, "self")
    BY <1>1, <1>2, <1>3, StackFacts, ThreadFacts DEF Own!AdmitReader
  <1>4. ASSUME Own!AdmitWriter(Caller)
        PROVE  held' = [held EXCEPT ![Caller] = <<"W">>] /\ \A u \in Writers : ~Busy(u, "self")
    BY <1>1, <1>2, <1>4, StackFacts, ThreadFacts DEF Own!AdmitWriter
  <1> QED
    BY <1>3, <1>4

LEMMA CallerLeaves ==
    ASSUME LocksOK, Diffing \/ Walking, Own!Leave(Caller)
    PROVE  held' = [held EXCEPT ![Caller] = << >>]
  <1>1. held[Caller] \in {<<"R">>, <<"W">>} /\ held \in [Threads -> Stacks]
    BY DEF LocksOK
  <1>2. held' = [held EXCEPT ![Caller] = SubSeq(@, 1, Len(@) - 1)]
    BY DEF Own!Leave, Own!Pop
  <1> QED
    BY <1>1, <1>2, StackFacts, ThreadFacts

-----------------------------------------------------------------------------

(***************************************************************************)
(* The writers keep the maps, the layout and the locks in order; what they *)
(* do to self, they do while nothing else is under way there.              *)
(***************************************************************************)
LEMMA PutFacts ==
    ASSUME LocksOK, NEW w \in Writers, put[w] # None
    PROVE  /\ put[w] \in Puts /\ put[w].map \in Maps /\ put[w].key \in Keys
           /\ put[w].life \in Nat \cup {None} /\ Busy(w, put[w].map)
           /\ [ts |-> put[w].ts, val |-> put[w].val] \in Version
           /\ put[w].ts \in 0 .. MaxTime
  <1>1. put[w] \in Puts
    BY DEF LocksOK
  <1> QED
    BY <1>1, TwoMapsAssumption DEF Puts, Maps, Busy, Version

LEMMA NowIsInt == StoresOK => now \in Int /\ now \in Nat
  BY TwoMapsAssumption DEF StoresOK

LEMMA TickKeepsBase ==
    ASSUME Base, Tick
    PROVE  Base'
  <1>1. /\ now' = now + 1 /\ now < MaxTime /\ now \in Int /\ now \in Nat /\ MaxTime \in Nat
        /\ store' = store /\ ttl' = ttl /\ entries' = entries /\ held' = held
        /\ heldOther' = heldOther /\ put' = put /\ pc' = pc /\ local' = local
    BY NowIsInt, TwoMapsAssumption DEF Base, Tick, maps
  <1>2. StoresOK'
    <2>1. ASSUME NEW m \in Maps PROVE PastAll(store[m], now')
      BY <1>1, PastAllLater DEF Base, StoresOK
    <2>2. now' \in 0 .. MaxTime
      BY <1>1
    <2> QED
      BY <1>1, <2>1, <2>2 DEF Base, StoresOK
  <1>3. LayoutOK' /\ LocksOK' /\ OrderOK'
    BY <1>1 DEF Base, LayoutOK, LocksOK, OrderOK, Diffing, Walking, Busy
  <1>4. ListsOK'
    <2>1. ASSUME NEW w \in Writers, put[w] # None PROVE put[w].ts <= now'
      <3>1. put[w].ts <= now /\ put[w].ts \in 0 .. MaxTime
        BY <2>1, PutFacts DEF Base, ListsOK
      <3> QED
        BY <1>1, <3>1
    <2>2. \A w \in Writers : put[w] # None /\ put[w].at = "listed" =>
             put[w].key \in DOMAIN store[put[w].map]
      BY DEF Base, ListsOK
    <2> QED
      BY <1>1, <2>1, <2>2 DEF ListsOK
  <1> QED
    BY <1>2, <1>3, <1>4 DEF Base

(***************************************************************************)
(* A key goes.                                                             *)
(***************************************************************************)
LEMMA DiscardFacts ==
    ASSUME Base, NEW m \in Maps, NEW k \in Keys, Discard(m, k), now' = now
    PROVE  /\ StoresOK' /\ LayoutOK' /\ Sorted(store'.other)
           /\ Sorted(store.self) => Sorted(store'.self)
           /\ m = "other" => store'.self = store.self /\ ttl'.self = ttl.self
           /\ \A n \in Maps \ {m} : store'[n] = store[n]
           /\ DOMAIN entries' = DOMAIN entries /\ Len(entries') = Len(entries)
           /\ \A p \in 1 .. Len(entries) :
                 entries'[p] = IF m = "other" /\ entries[p] = k THEN None ELSE entries[p]
  <1> DEFINE s == Without(store[m], {k})
             e == Without(ttl[m], {k})
  <1>1. /\ DOMAIN store = Maps /\ DOMAIN ttl = Maps
        /\ \A n \in Maps : PastAll(store[n], now) /\ Lives(ttl[n])
    BY DEF Base, StoresOK
  <1>2. store' = [store EXCEPT ![m] = s] /\ ttl' = [ttl EXCEPT ![m] = e]
    BY DEF Discard
  <1>3. PastAll(s, now) /\ (Sorted(store[m]) => Sorted(s))
    BY <1>1, PastAllWithout, SortedWithout
  <1>4. DOMAIN s = DOMAIN store[m] \ {k}
    BY WithoutFacts
  <1>5. Lives(e)
    <2>1. DOMAIN e = DOMAIN ttl[m] \ {k} /\ \A j \in DOMAIN ttl[m] \ {k} : e[j] = ttl[m][j]
      BY WithoutFacts
    <2> HIDE DEF e
    <2> QED
      BY <1>1, <2>1 DEF Lives
  <1> HIDE DEF s, e
  <1>6. /\ DOMAIN store' = Maps /\ DOMAIN ttl' = Maps
        /\ store'[m] = s /\ ttl'[m] = e
        /\ \A n \in Maps \ {m} : store'[n] = store[n] /\ ttl'[n] = ttl[n]
    BY <1>1, <1>2
  <1>7. StoresOK'
    BY <1>1, <1>3, <1>5, <1>6 DEF Base, StoresOK
  <1>8. /\ Sorted(store'.other) /\ (Sorted(store.self) => Sorted(store'.self))
        /\ m = "other" => store'.self = store.self /\ ttl'.self = ttl.self
    BY <1>3, <1>6 DEF Base, OrderOK, Maps
  <1>9. entries \in Seq(Keys \cup {None}) /\ None \notin Keys
    BY TwoMapsAssumption DEF Base, LayoutOK
  <1>10. /\ entries' \in Seq(Keys \cup {None}) /\ Len(entries') = Len(entries)
         /\ DOMAIN entries' = DOMAIN entries
         /\ \A p \in 1 .. Len(entries) :
               entries'[p] = IF m = "other" /\ entries[p] = k THEN None ELSE entries[p]
    <2>1. CASE m = "self"
      BY <1>9, <2>1 DEF Discard
    <2>2. CASE m = "other"
      <3>1. entries' = [p \in 1 .. Len(entries) |-> IF entries[p] = k THEN None ELSE entries[p]]
        BY <1>9, <2>2 DEF Discard
      <3> QED
        BY <1>9, <2>2, <3>1
    <2> QED
      BY <2>1, <2>2 DEF Maps
  <1>11. ASSUME NEW j \in Keys
         PROVE  j \in DOMAIN store'.other <=> \E p \in 1 .. Len(entries') : entries'[p] = j
    <2>1. j \in DOMAIN store.other <=> \E p \in 1 .. Len(entries) : entries[p] = j
      BY DEF Base, LayoutOK
    <2>2. CASE m = "self"
      BY <1>6, <1>10, <2>1, <2>2 DEF Maps
    <2>3. CASE m = "other" /\ j = k
      BY <1>4, <1>6, <1>9, <1>10, <2>3
    <2>4. CASE m = "other" /\ j # k
      BY <1>4, <1>6, <1>9, <1>10, <2>1, <2>4
    <2> QED
      BY <2>2, <2>3, <2>4 DEF Maps
  <1>12. LayoutOK'
    BY <1>10, <1>11 DEF LayoutOK
  <1> QED
    BY <1>6, <1>7, <1>8, <1>10, <1>12

LEMMA PurgeKeepsBase ==
    ASSUME Base, WalkOK, NEW w \in Writers, NEW m \in Maps, NEW k \in Keys, NEW v \in Values,
           NEW at \in 0 .. MaxTime, NEW life \in Lifetimes \cup {None},
           Purge(w, m, k, v, at, life)
    PROVE  Base' /\ (m = "self" => ~Diffing /\ ~Walking)
  <1>1. /\ put[w] = None /\ Searchable(m) /\ at <= now /\ Admit(w, m)
        /\ put' = [put EXCEPT ![w] = [map |-> m, key |-> k, val |-> v, ts |-> at, life |-> life,
                                      at |-> "purged"]]
        /\ now' = now /\ pc' = pc
        /\ IF Expired(m, k) THEN Discard(m, k) ELSE UNCHANGED <<store, ttl, entries, local>>
    BY DEF Purge
  <1>2. /\ \A u \in Writers : ~Busy(u, m)
        /\ m = "self" => /\ ~Diffing /\ ~Walking
                         /\ held' = [held EXCEPT ![w] = <<"W">>] /\ heldOther' = heldOther
        /\ m = "other" => heldOther' = [heldOther EXCEPT ![w] = <<"W">>] /\ held' = held
    BY <1>1, AdmitAlone DEF Base
  <1>3. /\ put'[w] \in Puts /\ put'[w] # None /\ put'[w].map = m /\ put'[w].ts = at
        /\ put'[w].at = "purged" /\ put' \in [Writers -> Puts \cup {None}]
        /\ \A u \in Writers \ {w} : put'[u] = put[u]
    BY <1>1, TwoMapsAssumption DEF Base, LocksOK, Puts, Maps
  <1>4. /\ StoresOK' /\ LayoutOK' /\ Sorted(store'.other) /\ (Sorted(store.self) => Sorted(store'.self))
        /\ \A n \in Maps \ {m} : store'[n] = store[n]
        /\ m = "other" => store'.self = store.self
    <2>1. CASE Expired(m, k)
      BY <1>1, <2>1, DiscardFacts
    <2>2. CASE ~Expired(m, k)
      BY <1>1, <2>2 DEF Base, StoresOK, LayoutOK, OrderOK
    <2> QED
      BY <2>1, <2>2
  <1>5. ~Busy(w, "self") /\ ~Busy(w, "other")
    BY <1>1 DEF Busy
  <1>6. \A u \in Writers, n \in Maps : Busy(u, n)' <=> Busy(u, n) \/ (u = w /\ n = m)
    BY <1>1, <1>3 DEF Busy
  <1>7. LocksOK'
    <2>1. Diffing' = Diffing /\ Walking' = Walking
      BY <1>1 DEF Diffing, Walking
    <2>2. w \in Threads /\ w # Caller /\ Caller \in Threads /\ Writers \subseteq Threads
      BY ThreadFacts
    <2>3. CASE m = "self"
      <3>1. held' = [held EXCEPT ![w] = <<"W">>] /\ heldOther' = heldOther /\ ~Diffing /\ ~Walking
        BY <1>2, <2>3
      <3>2. /\ held' \in [Threads -> Stacks] /\ held'[w] = <<"W">>
            /\ \A t \in Threads \ {w} : held'[t] = held[t]
        BY <2>2, <3>1 DEF Base, LocksOK, Stacks
      <3> QED
        BY <1>2, <1>3, <1>5, <1>6, <2>1, <2>2, <2>3, <3>1, <3>2 DEF Base, LocksOK, Maps
    <2>4. CASE m = "other"
      <3>1. heldOther' = [heldOther EXCEPT ![w] = <<"W">>] /\ held' = held
        BY <1>2, <2>4
      <3>2. /\ heldOther' \in [Threads -> Stacks] /\ heldOther'[w] = <<"W">>
            /\ \A t \in Threads \ {w} : heldOther'[t] = heldOther[t]
        BY <2>2, <3>1 DEF Base, LocksOK, Stacks
      <3> QED
        BY <1>2, <1>3, <1>5, <1>6, <2>1, <2>2, <2>4, <3>1, <3>2 DEF Base, LocksOK, Maps
    <2> QED
      BY <2>3, <2>4 DEF Maps
  <1>8. ListsOK'
    <2>1. ASSUME NEW u \in Writers, put'[u] # None
          PROVE  put'[u].ts <= now' /\ (put'[u].at = "listed" => put'[u].key \in DOMAIN store'[put'[u].map])
      <3>1. CASE u = w
        BY <1>1, <1>3, <3>1
      <3>2. CASE u # w
        <4>1. put'[u] = put[u] /\ put[u] # None
          BY <1>3, <2>1, <3>2
        <4>2. put[u].map \in Maps /\ Busy(u, put[u].map)
          BY <4>1, PutFacts DEF Base
        <4>3. put[u].map \in Maps \ {m}
          BY <1>2, <4>2
        <4> QED
          BY <1>1, <1>4, <4>1, <4>3 DEF Base, ListsOK
      <3> QED
        BY <3>1, <3>2
    <2> QED
      BY <2>1 DEF ListsOK
  <1>9. OrderOK'
    <2>1. CASE m = "self"
      <3>1. Sorted(store.self)
        BY <1>1, <2>1 DEF Searchable, Sorted
      <3> QED
        BY <1>4, <3>1 DEF OrderOK
    <2>2. CASE m = "other"
      <3>1. local'.op = local.op \/ ~Walking
        <4>1. CASE local' = local
          BY <4>1
        <4>2. CASE local' # local /\ pc = "versions" /\ local' = [local EXCEPT !.list = store.other[k]]
          BY <4>2 DEF WalkOK, Walking
        <4> QED
          BY <1>1, <4>1, <4>2 DEF Discard
      <3>2. Diffing' = Diffing /\ Walking' = Walking
        BY <1>1 DEF Diffing, Walking
      <3>3. (\E u \in Writers : Busy(u, "self")') <=> \E u \in Writers : Busy(u, "self")
        BY <1>6, <2>2 DEF Maps
      <3> QED
        BY <1>4, <2>2, <3>1, <3>2, <3>3 DEF Base, OrderOK
    <2> QED
      BY <2>1, <2>2 DEF Maps
  <1> QED
    BY <1>2, <1>4, <1>7, <1>8, <1>9 DEF Base

(***************************************************************************)
(* A new key leaves the others in the dict, with its gaps or without.  One *)
(* that now lies where the walk has been did so before, or is shifted.     *)
(***************************************************************************)
LEMMA AddKeyFacts ==
    ASSUME entries \in Seq(Keys \cup {None}), NEW k \in Keys, AddKey(k)
    PROVE  /\ entries' \in Seq(Keys \cup {None})
           /\ \A j \in Keys : (\E p \in 1 .. Len(entries') : entries'[p] = j) <=>
                                (\E p \in 1 .. Len(entries) : entries[p] = j) \/ j = k
           /\ shifted \subseteq shifted'
           /\ Walking /\ local.position \in Nat =>
                \A j \in Keys \ shifted' : \A p \in 1 .. Len(entries') :
                   p <= local.position /\ entries'[p] = j =>
                      j = k \/ \E q \in 1 .. Len(entries) : q <= local.position /\ entries[q] = j
  <1>1. DOMAIN entries = 1 .. Len(entries) /\ Len(entries) \in Nat /\ None \notin Keys
    BY TwoMapsAssumption
  <1>2. CASE entries' = Append(entries, k) /\ UNCHANGED shifted
    <2>1. /\ entries' \in Seq(Keys \cup {None}) /\ Len(entries') = Len(entries) + 1
          /\ entries'[Len(entries) + 1] = k
          /\ \A p \in 1 .. Len(entries) : entries'[p] = entries[p]
      BY <1>1, <1>2
    <2>2. \A p \in 1 .. Len(entries') : p \in 1 .. Len(entries) \/ entries'[p] = k
      BY <1>1, <2>1
    <2> QED
      BY <1>1, <1>2, <2>1, <2>2
  <1>3. ASSUME NEW n \in 0 .. Len(entries), NEW f \in Layouts(n),
               entries' = Append([i \in 1 .. n |-> entries[f[i]]], k),
               shifted' = IF Walking THEN shifted \cup Moved(f) ELSE shifted
        PROVE  /\ entries' \in Seq(Keys \cup {None})
               /\ \A j \in Keys : (\E p \in 1 .. Len(entries') : entries'[p] = j) <=>
                                    (\E p \in 1 .. Len(entries) : entries[p] = j) \/ j = k
               /\ Walking /\ local.position \in Nat =>
                    \A j \in Keys \ shifted' : \A p \in 1 .. Len(entries') :
                       p <= local.position /\ entries'[p] = j =>
                          j = k \/ \E q \in 1 .. Len(entries) :
                                      q <= local.position /\ entries[q] = j
    <2>1. f \in [1 .. n -> Filled] /\ {f[i] : i \in 1 .. n} = Filled /\ n \in Nat
      BY <1>1, <1>3 DEF Layouts
    <2>2. \A q : q \in Filled <=> q \in 1 .. Len(entries) /\ entries[q] # None
      BY <1>1 DEF Filled
    <2>3. \A i \in 1 .. n : f[i] \in 1 .. Len(entries) /\ entries[f[i]] \in Keys
      BY <2>1, <2>2
    <2>4. \A q \in 1 .. Len(entries) : entries[q] \in Keys => \E i \in 1 .. n : f[i] = q
      <3>1. SUFFICES ASSUME NEW q \in 1 .. Len(entries), entries[q] \in Keys
                     PROVE  \E i \in 1 .. n : f[i] = q
        OBVIOUS
      <3>2. q \in Filled
        BY <1>1, <2>2, <3>1
      <3> QED
        BY <2>1, <3>2
    <2> DEFINE e == [i \in 1 .. n |-> entries[f[i]]]
    <2>5. e \in Seq(Keys \cup {None}) /\ Len(e) = n /\ \A i \in 1 .. n : e[i] = entries[f[i]]
      BY <2>1, <2>3
    <2>6. entries' = Append(e, k)
      BY <1>3
    <2> HIDE DEF e
    <2>7. /\ entries' \in Seq(Keys \cup {None}) /\ Len(entries') = n + 1
          /\ entries'[n + 1] = k
          /\ \A p \in 1 .. n : entries'[p] = entries[f[p]]
      BY <2>1, <2>5, <2>6
    <2>8. \A p \in 1 .. Len(entries') : p \in 1 .. n \/ entries'[p] = k
      BY <2>1, <2>7
    <2>9. ASSUME NEW j \in Keys
          PROVE  (\E p \in 1 .. Len(entries') : entries'[p] = j) <=>
                    (\E p \in 1 .. Len(entries) : entries[p] = j) \/ j = k
      <3>1. ASSUME NEW p \in 1 .. Len(entries'), entries'[p] = j
            PROVE  (\E q \in 1 .. Len(entries) : entries[q] = j) \/ j = k
        BY <2>3, <2>7, <2>8, <3>1
      <3>2. ASSUME NEW q \in 1 .. Len(entries), entries[q] = j
            PROVE  \E p \in 1 .. Len(entries') : entries'[p] = j
        <4>1. PICK i \in 1 .. n : f[i] = q
          BY <2>4, <2>9, <3>2
        <4>2. i \in 1 .. Len(entries') /\ entries'[i] = j
          BY <2>1, <2>7, <3>2, <4>1
        <4> QED
          BY <4>2
      <3>3. n + 1 \in 1 .. Len(entries') /\ entries'[n + 1] = k
        BY <2>1, <2>7
      <3> QED
        BY <3>1, <3>2, <3>3
    <2>10. ASSUME Walking, local.position \in Nat, NEW j \in Keys \ shifted',
                  NEW p \in 1 .. Len(entries'), p <= local.position, entries'[p] = j, j # k
           PROVE  \E q \in 1 .. Len(entries) : q <= local.position /\ entries[q] = j
      <3>1. p \in 1 .. n /\ entries[f[p]] = j /\ f[p] \in 1 .. Len(entries)
        BY <2>3, <2>7, <2>8, <2>10
      <3>2. CASE f[p] > local.position
        <4>1. p \in DOMAIN f
          BY <2>1, <3>1
        <4>2. j \in Moved(f)
          BY <2>10, <3>1, <3>2, <4>1 DEF Moved
        <4> QED
          BY <1>3, <2>10, <4>2
      <3>3. CASE ~(f[p] > local.position)
        <4>1. f[p] <= local.position
          BY <2>10, <3>1, <3>3
        <4> QED
          BY <3>1, <4>1
      <3> QED
        BY <3>2, <3>3
    <2> QED
      BY <2>7, <2>9, <2>10
  <1>4. CASE ~(entries' = Append(entries, k) /\ UNCHANGED shifted)
    <2>1. PICK n \in 0 .. Len(entries) : \E f \in Layouts(n) :
             /\ entries' = Append([i \in 1 .. n |-> entries[f[i]]], k)
             /\ shifted' = IF Walking THEN shifted \cup Moved(f) ELSE shifted
      BY <1>4 DEF AddKey
    <2>2. PICK f \in Layouts(n) :
             /\ entries' = Append([i \in 1 .. n |-> entries[f[i]]], k)
             /\ shifted' = IF Walking THEN shifted \cup Moved(f) ELSE shifted
      BY <2>1
    <2>3. shifted \subseteq shifted'
      BY <2>2
    <2> QED
      BY <1>3, <2>2, <2>3
  <1> QED
    BY <1>2, <1>4

(***************************************************************************)
(* A put() that has the lock makes a list and inserts.                     *)
(***************************************************************************)
LEMMA MakeListKeepsBase ==
    ASSUME Base, NEW w \in Writers, MakeList(w)
    PROVE  Base' /\ (put[w].map = "self" => ~Diffing /\ ~Walking)
  <1> DEFINE m == put[w].map
             k == put[w].key
             s == Updated(store[m], Single(k, HistoryOf(m, k)))
  <1>1. /\ put[w] # None /\ put[w].at = "purged"
        /\ store' = [store EXCEPT ![m] = s]
        /\ IF m = "other" /\ k \notin DOMAIN store.other THEN AddKey(k) ELSE entries' = entries
        /\ put' = [put EXCEPT ![w].at = "listed"]
        /\ ttl' = ttl /\ now' = now /\ held' = held /\ heldOther' = heldOther
        /\ pc' = pc /\ local' = local
    BY DEF MakeList
  <1>2. m \in Maps /\ k \in Keys /\ Busy(w, m) /\ put[w] \in Puts
    BY <1>1, PutFacts DEF Base
  <1>3. PastAll(s, now) /\ (Sorted(store[m]) => Sorted(s))
    BY <1>2, HistoryIsPast, HistoryIsOrdered, PastAllUpdated, SortedUpdated DEF Base, StoresOK
  <1>4. DOMAIN s = DOMAIN store[m] \cup {k}
    BY DEF Updated, Single
  <1> HIDE DEF m, k, s
  <1>5. /\ DOMAIN store' = Maps /\ store'[m] = s
        /\ \A n \in Maps \ {m} : store'[n] = store[n]
    BY <1>1, <1>2 DEF Base, StoresOK
  <1>6. StoresOK'
    BY <1>1, <1>2, <1>3, <1>5 DEF Base, StoresOK
  <1>7. LayoutOK'
    <2>1. entries \in Seq(Keys \cup {None})
      BY DEF Base, LayoutOK
    <2>2. CASE m = "other" /\ k \notin DOMAIN store.other
      <3>1. AddKey(k)
        BY <1>1, <2>2
      <3>2. /\ entries' \in Seq(Keys \cup {None})
            /\ \A j \in Keys : (\E p \in 1 .. Len(entries') : entries'[p] = j) <=>
                                 (\E p \in 1 .. Len(entries) : entries[p] = j) \/ j = k
        BY <1>2, <2>1, <3>1, AddKeyFacts
      <3>3. ASSUME NEW j \in Keys
            PROVE  j \in DOMAIN store'.other <=> \E p \in 1 .. Len(entries') : entries'[p] = j
        <4>1. j \in DOMAIN store'.other <=> j \in DOMAIN store.other \/ j = k
          BY <1>4, <1>5, <2>2
        <4>2. j \in DOMAIN store.other <=> \E p \in 1 .. Len(entries) : entries[p] = j
          BY DEF Base, LayoutOK
        <4>3. (\E p \in 1 .. Len(entries') : entries'[p] = j) <=>
                 (\E p \in 1 .. Len(entries) : entries[p] = j) \/ j = k
          BY <3>2
        <4> QED
          BY <4>1, <4>2, <4>3
      <3> QED
        BY <3>2, <3>3 DEF LayoutOK
    <2>3. CASE ~(m = "other" /\ k \notin DOMAIN store.other)
      <3>1. entries' = entries /\ DOMAIN store'.other = DOMAIN store.other
        <4>1. CASE m = "self"
          BY <1>1, <1>5, <4>1 DEF Maps
        <4>2. CASE m = "other"
          BY <1>1, <1>4, <1>5, <2>3, <4>2
        <4> QED
          BY <1>2, <4>1, <4>2 DEF Maps
      <3> QED
        BY <3>1 DEF Base, LayoutOK
    <2> QED
      BY <2>2, <2>3
  <1>8. /\ put'[w] \in Puts /\ put'[w] # None /\ put'[w].map = m /\ put'[w].ts = put[w].ts
        /\ put'[w].key = k
        /\ put' \in [Writers -> Puts \cup {None}]
        /\ \A u \in Writers \ {w} : put'[u] = put[u]
    <2>1. [put[w] EXCEPT !.at = "listed"] \in Puts
      BY <1>2 DEF Puts
    <2>2. put'[w] = [put[w] EXCEPT !.at = "listed"] /\ put' \in [Writers -> Puts \cup {None}]
          /\ \A u \in Writers \ {w} : put'[u] = put[u]
      BY <1>1, <2>1 DEF Base, LocksOK
    <2>3. put'[w].map = m /\ put'[w].ts = put[w].ts /\ put'[w].key = k
      BY <1>2, <2>2 DEF Puts, m, k
    <2> QED
      BY <2>1, <2>2, <2>3, TwoMapsAssumption
  <1>9. \A u \in Writers, n \in Maps : Busy(u, n)' <=> Busy(u, n)
    BY <1>1, <1>2, <1>8 DEF Busy, m
  <1>10. LocksOK'
    <2>1. Diffing' = Diffing /\ Walking' = Walking
      BY <1>1 DEF Diffing, Walking
    <2> QED
      BY <1>1, <1>8, <1>9, <2>1 DEF Base, LocksOK, Maps
  <1>11. ListsOK'
    <2>1. ASSUME NEW u \in Writers, put'[u] # None
          PROVE  put'[u].ts <= now' /\ (put'[u].at = "listed" => put'[u].key \in DOMAIN store'[put'[u].map])
      <3>1. CASE u = w
        BY <1>1, <1>4, <1>5, <1>8, <3>1 DEF Base, ListsOK
      <3>2. CASE u # w
        <4>1. put'[u] = put[u] /\ put[u] # None
          BY <1>8, <2>1, <3>2
        <4>2. put[u].map \in Maps
          BY <4>1, PutFacts DEF Base
        <4> QED
          BY <1>1, <1>4, <1>5, <4>1, <4>2 DEF Base, ListsOK
      <3> QED
        BY <3>1, <3>2
    <2> QED
      BY <2>1 DEF ListsOK
  <1>12. OrderOK'
    <2>1. Diffing' = Diffing /\ Walking' = Walking
      BY <1>1 DEF Diffing, Walking
    <2>2. (\E u \in Writers : Busy(u, "self")') <=> \E u \in Writers : Busy(u, "self")
      BY <1>9 DEF Maps
    <2>3. Sorted(store'.other) /\ (Sorted(store.self) => Sorted(store'.self))
      BY <1>2, <1>3, <1>5 DEF Base, OrderOK, Maps
    <2> QED
      BY <1>1, <2>1, <2>2, <2>3 DEF Base, OrderOK
  <1>13. m = "self" => ~Diffing /\ ~Walking
    BY <1>2 DEF Base, LocksOK
  <1> QED
    BY <1>6, <1>7, <1>10, <1>11, <1>12, <1>13 DEF Base, m

LEMMA InsertFacts ==
    ASSUME Base, NEW w \in Writers, Insert(w)
    PROVE  LET m == put[w].map
               k == put[w].key
               v == [ts |-> put[w].ts, val |-> put[w].val]
           IN  /\ put[w] # None /\ m \in Maps /\ k \in Keys /\ v \in Version /\ v.ts <= now
               /\ Busy(w, m) /\ k \in DOMAIN store[m] /\ Sorted(store[m])
               /\ DOMAIN store' = Maps
               /\ store'[m] = [store[m] EXCEPT ![k] = InsertVersion(store[m][k], v)]
               /\ \A n \in Maps \ {m} : store'[n] = store[n] /\ ttl'[n] = ttl[n]
               /\ DOMAIN ttl' = Maps /\ Lives(ttl'[m])
  <1> DEFINE m == put[w].map
             k == put[w].key
             v == [ts |-> put[w].ts, val |-> put[w].val]
  <1>1. /\ put[w] # None /\ put[w].at = "listed"
        /\ store' = [store EXCEPT ![m][k] = InsertVersion(@, v)]
        /\ ttl' = IF put[w].life = None THEN ttl
                  ELSE [ttl EXCEPT ![m] = Updated(@, Single(k, now + put[w].life))]
    BY DEF Insert
  <1>2. /\ m \in Maps /\ k \in Keys /\ v \in Version /\ Busy(w, m)
        /\ put[w].life \in Nat \cup {None}
    BY <1>1, PutFacts DEF Base
  <1>3. k \in DOMAIN store[m] /\ v.ts <= now
    BY <1>1 DEF Base, ListsOK
  <1>4. Sorted(store[m])
    BY <1>2 DEF Base, OrderOK, Maps
  <1> DEFINE e == Updated(ttl[m], Single(k, now + put[w].life))
  <1>5. put[w].life # None => Lives(e)
    <2>1. ASSUME put[w].life # None PROVE now + put[w].life \in Nat
      BY <1>2, <2>1, NowIsInt DEF Base
    <2>2. DOMAIN e = DOMAIN ttl[m] \cup {k} /\ e[k] = now + put[w].life
      BY DEF Updated, Single
    <2>3. \A j \in DOMAIN ttl[m] : j # k => e[j] = ttl[m][j]
      BY DEF Updated, Single
    <2>4. Lives(ttl[m])
      BY <1>2 DEF Base, StoresOK
    <2> HIDE DEF e
    <2> QED
      BY <2>1, <2>2, <2>3, <2>4 DEF Lives
  <1> HIDE DEF m, k, v, e
  <1>6. DOMAIN store = Maps /\ DOMAIN ttl = Maps /\ \A n \in Maps : Lives(ttl[n])
    BY DEF Base, StoresOK
  <1>7. /\ DOMAIN store' = Maps
        /\ store'[m] = [store[m] EXCEPT ![k] = InsertVersion(store[m][k], v)]
        /\ \A n \in Maps \ {m} : store'[n] = store[n]
    BY <1>1, <1>2, <1>6
  <1>8. DOMAIN ttl' = Maps /\ Lives(ttl'[m]) /\ \A n \in Maps \ {m} : ttl'[n] = ttl[n]
    <2>1. CASE put[w].life = None
      BY <1>1, <1>2, <1>6, <2>1
    <2>2. CASE put[w].life # None
      <3>1. ttl' = [ttl EXCEPT ![m] = e]
        BY <1>1, <2>2 DEF e
      <3> QED
        BY <1>2, <1>5, <1>6, <2>2, <3>1
    <2> QED
      BY <2>1, <2>2
  <1> QED
    BY <1>1, <1>2, <1>3, <1>4, <1>7, <1>8 DEF m, k, v

LEMMA InsertKeepsBase ==
    ASSUME Base, NEW w \in Writers, Insert(w)
    PROVE  Base' /\ (put[w].map = "self" => ~Diffing /\ ~Walking)
  <1> DEFINE m == put[w].map
             k == put[w].key
             v == [ts |-> put[w].ts, val |-> put[w].val]
             g == InsertVersion(store[m][k], v)
  <1>1. /\ put[w] # None /\ m \in Maps /\ k \in Keys /\ v \in Version /\ v.ts <= now
        /\ Busy(w, m) /\ k \in DOMAIN store[m] /\ Sorted(store[m])
        /\ DOMAIN store' = Maps
        /\ store'[m] = [store[m] EXCEPT ![k] = g]
        /\ \A n \in Maps \ {m} : store'[n] = store[n] /\ ttl'[n] = ttl[n]
        /\ DOMAIN ttl' = Maps /\ Lives(ttl'[m])
    BY InsertFacts
  <1>2. /\ Release(w, m) /\ put' = [put EXCEPT ![w] = None]
        /\ entries' = entries /\ now' = now /\ pc' = pc /\ local' = local
    BY DEF Insert
  <1>3. Past(store[m][k], now) /\ Ordered(store[m][k]) /\ now \in Int
    BY <1>1, NowIsInt DEF Base, StoresOK, PastAll, Sorted
  <1>4. Past(g, now) /\ Ordered(g)
    <2>1. store[m][k] \in Seq(Version)
      BY <1>3 DEF Past
    <2>2. Ordered(g)
      BY <1>1, <1>3, <2>1, InsertMoves
    <2>3. Past(g, now)
      BY <1>1, <1>3, InsertPast
    <2> QED
      BY <2>2, <2>3
  <1> HIDE DEF m, k, v, g
  <1>5. /\ PastAll(store'[m], now) /\ Sorted(store'[m]) /\ DOMAIN store'[m] = DOMAIN store[m]
    <2>1. PastAll(store[m], now)
      BY <1>1 DEF Base, StoresOK
    <2> QED
      BY <1>1, <1>4, <2>1 DEF PastAll, Sorted
  <1>6. StoresOK'
    BY <1>1, <1>2, <1>5 DEF Base, StoresOK
  <1>7. LayoutOK'
    BY <1>1, <1>2, <1>5 DEF Base, LayoutOK, Maps
  <1>8. /\ m = "self" => held' = [held EXCEPT ![w] = << >>] /\ heldOther' = heldOther
        /\ m = "other" => heldOther' = [heldOther EXCEPT ![w] = << >>] /\ held' = held
    BY <1>1, <1>2, ReleaseLeaves DEF Base
  <1>9. /\ put' \in [Writers -> Puts \cup {None}] /\ put'[w] = None
        /\ \A u \in Writers \ {w} : put'[u] = put[u]
    BY <1>2 DEF Base, LocksOK
  <1>10. \A u \in Writers, n \in Maps : Busy(u, n)' <=> Busy(u, n) /\ u # w
    BY <1>9 DEF Busy
  <1>11. /\ Diffing' = Diffing /\ Walking' = Walking
         /\ \A n \in Maps : Busy(w, n) <=> n = m
    BY <1>1, <1>2 DEF Diffing, Walking, Busy, m
  <1>12. LocksOK'
    <2>1. w \in Threads /\ w # Caller /\ Caller \in Threads /\ Writers \subseteq Threads
      BY ThreadFacts
    <2>2. CASE m = "self"
      <3>1. /\ held' \in [Threads -> Stacks] /\ held'[w] = << >> /\ heldOther' = heldOther
            /\ \A t \in Threads \ {w} : held'[t] = held[t]
        BY <1>8, <2>1, <2>2 DEF Base, LocksOK, Stacks
      <3> QED
        BY <1>9, <1>10, <1>11, <2>1, <2>2, <3>1 DEF Base, LocksOK, Maps
    <2>3. CASE m = "other"
      <3>1. /\ heldOther' \in [Threads -> Stacks] /\ heldOther'[w] = << >> /\ held' = held
            /\ \A t \in Threads \ {w} : heldOther'[t] = heldOther[t]
        BY <1>8, <2>1, <2>3 DEF Base, LocksOK, Stacks
      <3> QED
        BY <1>9, <1>10, <1>11, <2>1, <2>3, <3>1 DEF Base, LocksOK, Maps
    <2> QED
      BY <1>1, <2>2, <2>3 DEF Maps
  <1>13. ListsOK'
    <2>1. ASSUME NEW u \in Writers, put'[u] # None
          PROVE  put'[u].ts <= now' /\ (put'[u].at = "listed" => put'[u].key \in DOMAIN store'[put'[u].map])
      <3>1. put'[u] = put[u] /\ put[u] # None
        BY <1>9, <2>1
      <3>2. put[u].map \in Maps
        BY <3>1, PutFacts DEF Base
      <3> QED
        BY <1>1, <1>2, <1>5, <3>1, <3>2 DEF Base, ListsOK
    <2> QED
      BY <2>1 DEF ListsOK
  <1>14. OrderOK'
    <2>1. (\E u \in Writers : Busy(u, "self")') => \E u \in Writers : Busy(u, "self")
      BY <1>10 DEF Maps
    <2>2. Sorted(store'.other) /\ (Sorted(store.self) => Sorted(store'.self))
      BY <1>1, <1>5 DEF Base, OrderOK, Maps
    <2> QED
      BY <1>2, <1>11, <2>1, <2>2 DEF Base, OrderOK
  <1>15. m = "self" => ~Diffing /\ ~Walking
    BY <1>1 DEF Base, LocksOK
  <1> QED
    BY <1>6, <1>7, <1>12, <1>13, <1>14, <1>15 DEF Base, m

(***************************************************************************)
(* delete() and prune_history() find the lock free.                        *)
(***************************************************************************)
LEMMA FreeKeepsBase ==
    ASSUME Base, NEW m \in Maps, Free(m), DOMAIN store' = Maps,
           StoresOK', LayoutOK', Sorted(store'.other), Sorted(store.self) => Sorted(store'.self),
           \A n \in Maps \ {m} : store'[n] = store[n],
           now' = now, held' = held, heldOther' = heldOther, put' = put, pc' = pc,
           Walking => local'.op = local.op
    PROVE  Base' /\ (m = "self" => ~Diffing /\ ~Walking)
  <1>1. (\A u \in Writers : ~Busy(u, m)) /\ (m = "self" => ~Diffing /\ ~Walking)
    BY FreeAlone DEF Base
  <1>2. Diffing' = Diffing /\ Walking' = Walking
    BY DEF Diffing, Walking
  <1>3. \A u \in Writers, n \in Maps : Busy(u, n)' <=> Busy(u, n)
    BY DEF Busy
  <1>4. LocksOK'
    BY <1>2, <1>3 DEF Base, LocksOK, Maps
  <1>5. ListsOK'
    <2>1. ASSUME NEW u \in Writers, put'[u] # None
          PROVE  put'[u].ts <= now' /\ (put'[u].at = "listed" => put'[u].key \in DOMAIN store'[put'[u].map])
      <3>1. put[u].map \in Maps /\ Busy(u, put[u].map)
        BY <2>1, PutFacts DEF Base
      <3>2. put[u].map \in Maps \ {m}
        BY <1>1, <3>1
      <3> QED
        BY <2>1, <3>2 DEF Base, ListsOK
    <2> QED
      BY <2>1 DEF ListsOK
  <1>6. OrderOK'
    <2>1. (\E u \in Writers : Busy(u, "self")') <=> \E u \in Writers : Busy(u, "self")
      BY <1>3 DEF Maps
    <2> QED
      BY <1>2, <2>1 DEF Base, OrderOK
  <1> QED
    BY <1>1, <1>4, <1>5, <1>6 DEF Base

LEMMA DeleteKeepsBase ==
    ASSUME Base, WalkOK, NEW w \in Writers, NEW m \in Maps, NEW k \in Keys, Delete(w, m, k)
    PROVE  Base' /\ (m = "self" => ~Diffing /\ ~Walking)
  <1>1. /\ Free(m) /\ Discard(m, k) /\ now' = now /\ held' = held /\ heldOther' = heldOther
        /\ put' = put /\ pc' = pc
    BY DEF Delete
  <1>2. /\ StoresOK' /\ LayoutOK' /\ Sorted(store'.other) /\ (Sorted(store.self) => Sorted(store'.self))
        /\ \A n \in Maps \ {m} : store'[n] = store[n]
    BY <1>1, DiscardFacts
  <1>3. Walking => local'.op = local.op
    BY <1>1 DEF Discard, WalkOK
  <1>4. DOMAIN store' = Maps
    BY <1>2 DEF StoresOK
  <1> QED
    BY <1>1, <1>2, <1>3, <1>4, FreeKeepsBase

LEMMA PruneKeepsBase ==
    ASSUME Base, NEW w \in Writers, NEW m \in Maps, NEW k \in Keys, Prune(w, m, k)
    PROVE  Base' /\ (m = "self" => ~Diffing /\ ~Walking)
  <1> DEFINE g == KeepLast(store[m][k], 1)
  <1>1. /\ Free(m) /\ now' = now /\ held' = held /\ heldOther' = heldOther
        /\ put' = put /\ pc' = pc /\ local' = local /\ ttl' = ttl /\ entries' = entries
        /\ store' = [store EXCEPT ![m][k] = g]
    BY DEF Prune
  <1>2. k \in DOMAIN store[m]
    <2>1. HistoryOf(m, k) # << >>
      BY DEF Prune
    <2> QED
      BY <2>1 DEF HistoryOf
  <1>3. /\ DOMAIN store = Maps /\ DOMAIN ttl = Maps /\ now \in Int
        /\ \A n \in Maps : PastAll(store[n], now) /\ Lives(ttl[n])
    BY NowIsInt DEF Base, StoresOK
  <1>4. Past(g, now) /\ (Ordered(store[m][k]) => Ordered(g))
    BY <1>2, <1>3, KeepLastPast DEF PastAll
  <1> HIDE DEF g
  <1>5. /\ DOMAIN store' = Maps /\ store'[m] = [store[m] EXCEPT ![k] = g]
        /\ \A n \in Maps \ {m} : store'[n] = store[n]
    BY <1>1, <1>3
  <1>6. /\ PastAll(store'[m], now) /\ (Sorted(store[m]) => Sorted(store'[m]))
        /\ DOMAIN store'[m] = DOMAIN store[m]
    <2>1. Sorted(store[m]) => Ordered(g)
      BY <1>2, <1>4 DEF Sorted
    <2> QED
      BY <1>3, <1>4, <1>5, <2>1 DEF PastAll, Sorted
  <1>7. StoresOK'
    BY <1>1, <1>3, <1>5, <1>6 DEF Base, StoresOK
  <1>8. LayoutOK'
    BY <1>1, <1>5, <1>6 DEF Base, LayoutOK, Maps
  <1>9. Sorted(store'.other) /\ (Sorted(store.self) => Sorted(store'.self))
    BY <1>5, <1>6 DEF Base, OrderOK, Maps
  <1> QED
    BY <1>1, <1>5, <1>7, <1>8, <1>9, FreeKeepsBase

-----------------------------------------------------------------------------

(***************************************************************************)
(* The caller's steps keep them in order.                                  *)
(***************************************************************************)
LEMMA CallerKeepsBase ==
    ASSUME Base, StoresOK', now' = now, entries' = entries, put' = put, heldOther' = heldOther,
           store'.other = store.other,
           store'.self = store.self \/ \A u \in Writers : ~Busy(u, "self"),
           held' \in [Threads -> Stacks], \A w \in Writers : held'[w] = held[w],
           held'[Caller] = IF Diffing' THEN <<"R">> ELSE IF Walking' THEN <<"W">> ELSE << >>,
           Diffing' \/ Walking' => \A u \in Writers : ~Busy(u, "self"),
           Diffing' \/ (Walking' /\ local'.op = "merge") => Sorted(store'.self)
    PROVE  Base'
  <1>1. \A u \in Writers, n \in Maps : Busy(u, n)' <=> Busy(u, n)
    BY DEF Busy
  <1>2. LayoutOK'
    BY DEF Base, LayoutOK
  <1>3. LocksOK'
    BY <1>1 DEF Base, LocksOK, Maps
  <1>4. ListsOK'
    <2>1. ASSUME NEW u \in Writers, put'[u] # None
          PROVE  put'[u].ts <= now' /\ (put'[u].at = "listed" => put'[u].key \in DOMAIN store'[put'[u].map])
      <3>1. put[u].map \in Maps /\ Busy(u, put[u].map)
        BY <2>1, PutFacts DEF Base
      <3>2. put[u].map = "other" \/ (put[u].map = "self" /\ store'.self = store.self)
        BY <3>1 DEF Maps
      <3> QED
        BY <2>1, <3>2 DEF Base, ListsOK
    <2> QED
      BY <2>1 DEF ListsOK
  <1>5. OrderOK'
    <2>1. (\E u \in Writers : Busy(u, "self")') <=> \E u \in Writers : Busy(u, "self")
      BY <1>1 DEF Maps
    <2>2. (\E u \in Writers : Busy(u, "self")) => Sorted(store'.self)
      BY DEF Base, OrderOK
    <2> QED
      BY <2>1, <2>2 DEF Base, OrderOK
  <1> QED
    BY <1>2, <1>3, <1>4, <1>5 DEF Base

LEMMA DiffKeepsBase ==
    ASSUME Base, Diff \/ Compare \/ DiffReturns
    PROVE  Base'
  <1>1. /\ store' = store /\ ttl' = ttl /\ entries' = entries /\ now' = now
        /\ heldOther' = heldOther /\ put' = put
    BY DEF Diff, Compare, DiffReturns, maps
  <1>2. StoresOK'
    BY <1>1 DEF Base, StoresOK
  <1>3. held \in [Threads -> Stacks]
    BY DEF Base, LocksOK
  <1>4. CASE Diff
    <2>1. pc = "idle" /\ pc' = "keys" /\ Searchable("self")
      BY <1>4 DEF Diff, GoWith
    <2>2. held' = [held EXCEPT ![Caller] = <<"R">>] /\ \A u \in Writers : ~Busy(u, "self")
      BY <1>4, <2>1, CallerAdmitted DEF Base, Diff
    <2>3. Diffing' /\ Sorted(store'.self)
      BY <1>1, <2>1 DEF Diffing, Searchable, Sorted
    <2>4. /\ held' \in [Threads -> Stacks] /\ held'[Caller] = <<"R">>
          /\ \A w \in Writers : held'[w] = held[w]
      BY <1>3, <2>2, ThreadFacts DEF Stacks
    <2> QED
      BY <1>1, <1>2, <2>2, <2>3, <2>4, CallerKeepsBase
  <1>5. CASE Compare
    <2>1. Diffing /\ Diffing' /\ held' = held
      BY <1>5 DEF Compare, CheckSelf, CheckOther, AgainSelf, AgainOther, GetSelf, GetOther,
                  NextInDiff, Go, GoWith, Diffing
    <2>2. (\A u \in Writers : ~Busy(u, "self")) /\ Sorted(store.self) /\ held[Caller] = <<"R">>
      BY <2>1 DEF Base, LocksOK, OrderOK
    <2> QED
      BY <1>1, <1>2, <1>3, <2>1, <2>2, CallerKeepsBase
  <1>6. CASE DiffReturns
    <2>1. pc = "keys" /\ pc' = "idle"
      BY <1>6 DEF DiffReturns, GoWith
    <2>2. Diffing /\ ~Diffing' /\ ~Walking'
      BY <2>1 DEF Diffing, Walking
    <2>3. held' = [held EXCEPT ![Caller] = << >>]
      BY <1>6, <2>2, CallerLeaves DEF Base, DiffReturns
    <2>4. /\ held' \in [Threads -> Stacks] /\ held'[Caller] = << >>
          /\ \A w \in Writers : held'[w] = held[w]
      BY <1>3, <2>3, ThreadFacts DEF Stacks
    <2> QED
      BY <1>1, <1>2, <2>2, <2>4, CallerKeepsBase
  <1> QED
    BY <1>4, <1>5, <1>6

(***************************************************************************)
(* The steps of a walk that change self.store only, or nothing.            *)
(***************************************************************************)
LEMMA WalkerKeepsBase ==
    ASSUME Base, Walking, Walking', DOMAIN store' = Maps, store'.other = store.other,
           PastAll(store'.self, now), local'.op = "merge" => Sorted(store'.self),
           DOMAIN ttl' = Maps, \A m \in Maps : Lives(ttl'[m]),
           now' = now, entries' = entries, put' = put, held' = held, heldOther' = heldOther
    PROVE  Base'
  <1>1. StoresOK'
    BY DEF Base, StoresOK, Maps
  <1>2. ~Diffing /\ ~Diffing'
    BY DEF Walking, Diffing
  <1>3. /\ (\A u \in Writers : ~Busy(u, "self")) /\ held[Caller] = <<"W">>
        /\ held \in [Threads -> Stacks]
    BY <1>2 DEF Base, LocksOK
  <1> QED
    BY <1>1, <1>2, <1>3, CallerKeepsBase

LEMMA WalkKeepsBase ==
    ASSUME Base, NEW op \in {"merge", "overwrite", "rollback"}, Walk(op)
    PROVE  Base'
  <1>1. /\ store' = store /\ ttl' = ttl /\ entries' = entries /\ now' = now
        /\ heldOther' = heldOther /\ put' = put /\ pc = "idle" /\ pc' = "walk"
        /\ local'.op = op /\ (op = "merge" => Searchable("self")) /\ Own!AdmitWriter(Caller)
    BY DEF Walk, GoWith
  <1>2. StoresOK'
    BY <1>1 DEF Base, StoresOK
  <1>3. held' = [held EXCEPT ![Caller] = <<"W">>] /\ \A u \in Writers : ~Busy(u, "self")
    BY <1>1, CallerAdmitted DEF Base
  <1>4. held \in [Threads -> Stacks]
    BY DEF Base, LocksOK
  <1>5. /\ held' \in [Threads -> Stacks] /\ held'[Caller] = <<"W">>
        /\ \A w \in Writers : held'[w] = held[w]
    BY <1>3, <1>4, ThreadFacts DEF Stacks
  <1>6. Walking' /\ ~Diffing' /\ (local'.op = "merge" => Sorted(store'.self))
    BY <1>1 DEF Walking, Diffing, Searchable, Sorted
  <1> QED
    BY <1>1, <1>2, <1>3, <1>5, <1>6, CallerKeepsBase

LEMMA WalkEndsKeepsBase ==
    ASSUME Base, WalkRaises \/ WalkReturns
    PROVE  Base'
  <1>1. /\ store' = store /\ ttl' = ttl /\ entries' = entries /\ now' = now
        /\ heldOther' = heldOther /\ put' = put /\ pc' = "idle" /\ Own!Leave(Caller)
        /\ pc \in {"walk", "returned"}
    BY DEF WalkRaises, WalkReturns, GoWith, maps
  <1>2. StoresOK'
    BY <1>1 DEF Base, StoresOK
  <1>3. Walking /\ ~Diffing' /\ ~Walking'
    BY <1>1 DEF Walking, Diffing
  <1>4. held' = [held EXCEPT ![Caller] = << >>] /\ held \in [Threads -> Stacks]
    BY <1>1, <1>3, CallerLeaves DEF Base, LocksOK
  <1>5. /\ held' \in [Threads -> Stacks] /\ held'[Caller] = << >>
        /\ \A w \in Writers : held'[w] = held[w]
    BY <1>4, ThreadFacts DEF Stacks
  <1> QED
    BY <1>1, <1>2, <1>3, <1>5, CallerKeepsBase

(***************************************************************************)
(* The key that the walk comes to is the next that the layout names.       *)
(***************************************************************************)
LEMMA NextKeyFacts ==
    ASSUME Base, WalkOK, NextKey
    PROVE  /\ pc = "walk" /\ pc' = "versions" /\ Walking /\ Walking'
           /\ DOMAIN local' = DOMAIN local /\ local'.op = local.op /\ local'.copies = local.copies
           /\ local'.list = None /\ local'.i = 0 /\ local'.copy = << >>
           /\ local'.position \in 1 .. Len(entries) /\ local'.position > local.position
           /\ local'.key = entries[local'.position] /\ local'.key \in Keys
           /\ \A q \in 1 .. Len(entries) :
                 q < local'.position /\ q > local.position => entries[q] = None
           /\ store' = IF local.op # "merge" THEN store
                       ELSE [store EXCEPT !.self =
                                Updated(@, Single(local'.key, HistoryOf("self", local'.key)))]
  <1> DEFINE p == Min(Ahead)
  <1>1. /\ pc = "walk" /\ Ahead # {} /\ pc' = "versions"
        /\ local' = [local EXCEPT !.position = p, !.left = @ - 1, !.key = entries[p],
                                  !.list = None, !.i = 0, !.copy = << >>]
        /\ store' = IF local.op # "merge" THEN store
                    ELSE [store EXCEPT !.self =
                             Updated(@, Single(entries[p], HistoryOf("self", entries[p])))]
    BY DEF NextKey, GoWith
  <1>2. entries \in Seq(Keys \cup {None}) /\ DOMAIN entries = 1 .. Len(entries)
    BY DEF Base, LayoutOK
  <1>3. p \in Ahead /\ \A q \in Ahead : p <= q
    <2>1. Ahead \subseteq Nat
      BY <1>2 DEF Ahead
    <2>2. \E n \in Ahead : \A q \in Ahead : n <= q
      BY <1>1, <2>1, LeastNatural
    <2> QED
      BY <2>2 DEF Min
  <1> HIDE DEF p
  <1>4. /\ p \in 1 .. Len(entries) /\ p > local.position /\ entries[p] \in Keys
        /\ \A q \in 1 .. Len(entries) : q < p /\ q > local.position => entries[q] = None
    <2>1. p \in 1 .. Len(entries) /\ p > local.position /\ entries[p] # None
      BY <1>2, <1>3 DEF Ahead
    <2>2. ASSUME NEW q \in 1 .. Len(entries), q < p, q > local.position PROVE entries[q] = None
      BY <1>2, <1>3, <2>1, <2>2 DEF Ahead
    <2> QED
      BY <1>2, <2>1, <2>2
  <1>5. Walking /\ Walking'
    BY <1>1 DEF Walking
  <1>6. /\ DOMAIN local' = DOMAIN local /\ local'.op = local.op /\ local'.copies = local.copies
        /\ local'.list = None /\ local'.i = 0 /\ local'.copy = << >>
        /\ local'.position = p /\ local'.key = entries[p]
    BY <1>1, <1>5 DEF WalkOK
  <1> QED
    BY <1>1, <1>4, <1>5, <1>6

LEMMA NextKeyKeepsBase ==
    ASSUME Base, WalkOK, NextKey
    PROVE  /\ Base' /\ store'.other = store.other
           /\ \A k \in Keys : HistoryOf("self", k)' = HistoryOf("self", k)
           /\ local.op = "merge" => local'.key \in DOMAIN store'.self
  <1> DEFINE k == local'.key
             d == Updated(store.self, Single(k, HistoryOf("self", k)))
  <1>1. /\ Walking /\ Walking' /\ local'.op = local.op /\ k \in Keys
        /\ store' = IF local.op # "merge" THEN store ELSE [store EXCEPT !.self = d]
    BY NextKeyFacts
  <1>2. /\ ttl' = ttl /\ now' = now /\ entries' = entries /\ put' = put /\ held' = held
        /\ heldOther' = heldOther
    BY DEF NextKey
  <1>3. /\ DOMAIN store = Maps /\ PastAll(store.self, now)
        /\ DOMAIN ttl = Maps /\ \A m \in Maps : Lives(ttl[m])
    BY DEF Base, StoresOK, Maps
  <1>4. local.op = "merge" => Sorted(store.self)
    BY <1>1 DEF Base, OrderOK
  <1>5. Past(HistoryOf("self", k), now)
    BY HistoryIsPast DEF Base, Maps
  <1>6. PastAll(d, now)
    BY <1>1, <1>3, <1>5, PastAllUpdated
  <1>7. local.op = "merge" => Sorted(d)
    <2>1. ASSUME local.op = "merge" PROVE Ordered(HistoryOf("self", k)) /\ Sorted(store.self)
      BY <1>4, <2>1, HistoryIsOrdered
    <2> QED
      BY <2>1, SortedUpdated
  <1>8. /\ DOMAIN d = DOMAIN store.self \cup {k} /\ d[k] = HistoryOf("self", k)
        /\ \A j \in DOMAIN store.self : j # k => d[j] = store.self[j]
    BY DEF Updated, Single
  <1> HIDE DEF k, d
  <1>9. /\ DOMAIN store' = Maps /\ store'.other = store.other
        /\ store'.self = IF local.op # "merge" THEN store.self ELSE d
    BY <1>1, <1>3 DEF Maps
  <1>10. Base'
    BY <1>1, <1>2, <1>3, <1>4, <1>6, <1>7, <1>9, WalkerKeepsBase
  <1>11. ASSUME NEW j \in Keys PROVE HistoryOf("self", j)' = HistoryOf("self", j)
    <2>1. CASE local.op # "merge"
      BY <1>9, <2>1 DEF HistoryOf
    <2>2. CASE local.op = "merge" /\ j = k
      BY <1>8, <1>9, <2>2 DEF HistoryOf
    <2>3. CASE local.op = "merge" /\ j # k
      BY <1>8, <1>9, <2>3 DEF HistoryOf
    <2> QED
      BY <2>1, <2>2, <2>3
  <1> QED
    BY <1>8, <1>9, <1>10, <1>11 DEF k

(***************************************************************************)
(* The version that the walk takes is one that other has, or had when the  *)
(* list went.                                                              *)
(***************************************************************************)
LEMMA NextVersionFacts ==
    ASSUME Base, WalkOK, NextVersion
    PROVE  LET v == WalkedList[local.i + 1]
           IN  /\ pc = "versions" /\ pc' = "versions" /\ Walking /\ Walking'
               /\ local.i \in Nat /\ local.i + 1 \in 1 .. Len(WalkedList)
               /\ v \in Version /\ v.ts <= now
               /\ DOMAIN local' = DOMAIN local /\ local'.op = local.op
               /\ local'.copies = local.copies /\ local'.position = local.position
               /\ local'.list = local.list /\ local'.key = local.key /\ local'.i = local.i + 1
               /\ local'.copy = IF local.op = "merge" THEN local.copy ELSE Append(local.copy, v)
               /\ store' = IF local.op # "merge" THEN store
                           ELSE [store EXCEPT !.self[local.key] = InsertVersion(@, v)]
  <1> DEFINE v == WalkedList[local.i + 1]
  <1>1. pc = "versions" /\ local.i < Len(WalkedList) /\ Take(v)
    BY DEF NextVersion
  <1>2. Walking
    BY <1>1 DEF Walking
  <1>3. /\ local.key \in Keys /\ local.i \in Nat
        /\ local.list = None \/ Past(local.list, now)
        /\ DOMAIN local = {"op", "position", "size", "left", "key", "list", "i", "copy", "copies"}
    BY <1>1, <1>2 DEF WalkOK
  <1>4. Past(WalkedList, now)
    BY <1>3, HistoryIsPast DEF WalkedList, Base, Maps
  <1> HIDE DEF v
  <1>5. /\ pc' = "versions"
        /\ local' = IF local.op = "merge" THEN [local EXCEPT !.i = @ + 1]
                    ELSE [local EXCEPT !.i = @ + 1, !.copy = Append(@, v)]
        /\ store' = IF local.op # "merge" THEN store
                    ELSE [store EXCEPT !.self[local.key] = InsertVersion(@, v)]
    BY <1>1 DEF Take, GoWith
  <1>6. Walking'
    BY <1>5 DEF Walking
  <1>7. local.i + 1 \in 1 .. Len(WalkedList)
    <2>1. Len(WalkedList) \in Nat
      BY <1>4 DEF Past
    <2> QED
      BY <1>1, <1>3, <2>1
  <1>8. v \in Version /\ v.ts <= now
    BY <1>4, <1>7 DEF Past, v
  <1>9. /\ DOMAIN local' = DOMAIN local /\ local'.op = local.op
        /\ local'.copies = local.copies /\ local'.position = local.position
        /\ local'.list = local.list /\ local'.key = local.key /\ local'.i = local.i + 1
        /\ local'.copy = IF local.op = "merge" THEN local.copy ELSE Append(local.copy, v)
    BY <1>3, <1>5
  <1> QED
    BY <1>1, <1>2, <1>3, <1>5, <1>6, <1>7, <1>8, <1>9 DEF v

LEMMA NextVersionKeepsBase ==
    ASSUME Base, WalkOK, NextVersion
    PROVE  /\ Base' /\ store'.other = store.other
           /\ \A k \in Keys : ToSet(HistoryOf("self", k)) \subseteq ToSet(HistoryOf("self", k)')
           /\ \A k \in Keys : k = local.key /\ local.op = "merge" =>
                 /\ WalkedList[local.i + 1] \in ToSet(HistoryOf("self", k)')
                 /\ k \in DOMAIN store'.self
  <1> DEFINE v == WalkedList[local.i + 1]
             k == local.key
             g == InsertVersion(store.self[k], v)
             d == [store.self EXCEPT ![k] = g]
  <1>1. /\ pc = "versions" /\ Walking /\ Walking' /\ local'.op = local.op
        /\ v \in Version /\ v.ts <= now
        /\ store' = IF local.op # "merge" THEN store
                    ELSE [store EXCEPT !.self[k] = InsertVersion(@, v)]
    BY NextVersionFacts
  <1>2. /\ ttl' = ttl /\ now' = now /\ entries' = entries /\ put' = put /\ held' = held
        /\ heldOther' = heldOther
    BY DEF NextVersion
  <1>3. /\ DOMAIN store = Maps /\ PastAll(store.self, now) /\ now \in Int
        /\ DOMAIN ttl = Maps /\ \A m \in Maps : Lives(ttl[m])
    BY NowIsInt DEF Base, StoresOK, Maps
  <1>4. k \in Keys /\ (local.op = "merge" => k \in DOMAIN store.self)
    BY <1>1 DEF WalkOK
  <1>5. CASE local.op # "merge"
    <2>1. store' = store
      BY <1>1, <1>5
    <2>2. Base'
      BY <1>1, <1>2, <1>3, <1>5, <2>1, WalkerKeepsBase
    <2> QED
      BY <1>5, <2>1, <2>2 DEF HistoryOf
  <1>6. CASE local.op = "merge"
    <2>1. Sorted(store.self)
      BY <1>1, <1>6 DEF Base, OrderOK
    <2>2. Past(store.self[k], now) /\ Ordered(store.self[k])
      BY <1>3, <1>4, <1>6, <2>1 DEF PastAll, Sorted
    <2>3. store.self[k] \in Seq(Version)
      BY <2>2 DEF Past
    <2>4. Ordered(g)
      BY <1>1, <2>2, <2>3, InsertMoves
    <2>5. Past(g, now)
      BY <1>1, <1>3, <2>2, InsertPast
    <2>6. ToSet(g) = ToSet(store.self[k]) \cup {v}
      BY <1>1, <1>3, <2>2, InsertPast
    <2>7. store' = [store EXCEPT !.self[k] = g]
      BY <1>1, <1>6
    <2> HIDE DEF v, k, g
    <2>8. DOMAIN store' = Maps /\ store'.other = store.other /\ store'.self = d
      BY <1>3, <2>7 DEF Maps
    <2>9. PastAll(d, now) /\ Sorted(d)
      BY <1>3, <2>1, <2>4, <2>5 DEF PastAll, Sorted
    <2>10. DOMAIN d = DOMAIN store.self /\ d[k] = g /\ \A j \in DOMAIN d : j # k => d[j] = store.self[j]
      BY <1>4, <1>6
    <2> HIDE DEF d
    <2>11. Base'
      BY <1>1, <1>2, <1>3, <2>8, <2>9, WalkerKeepsBase
    <2>12. ASSUME NEW j \in Keys
           PROVE  ToSet(HistoryOf("self", j)) \subseteq ToSet(HistoryOf("self", j)')
      <3>1. CASE j = k
        BY <1>4, <1>6, <2>6, <2>8, <2>10, <3>1 DEF HistoryOf
      <3>2. CASE j # k
        BY <2>8, <2>10, <3>2 DEF HistoryOf
      <3> QED
        BY <3>1, <3>2
    <2>13. k \in DOMAIN store'.self /\ store'.self[k] = g
      BY <1>4, <1>6, <2>8, <2>10
    <2>14. ASSUME NEW j \in Keys, j = k
           PROVE  v \in ToSet(HistoryOf("self", j)') /\ j \in DOMAIN store'.self
      BY <2>6, <2>13, <2>14 DEF HistoryOf
    <2> QED
      BY <2>8, <2>11, <2>12, <2>14 DEF v, k
  <1> QED
    BY <1>5, <1>6

LEMMA EndOfListFacts ==
    ASSUME Base, WalkOK, EndOfList
    PROVE  /\ pc = "versions" /\ pc' = "walk" /\ Walking /\ Walking' /\ local.key \in Keys
           /\ DOMAIN local' = DOMAIN local /\ local'.op = local.op
           /\ local'.position = local.position
           /\ local'.copies = IF local.op = "rollback"
                              THEN Updated(local.copies, Single(local.key, local.copy))
                              ELSE local.copies
           /\ store' = IF local.op # "overwrite" THEN store
                       ELSE [store EXCEPT !.self = Updated(@, Single(local.key, local.copy))]
           /\ local.i \in Nat /\ local.i >= Len(WalkedList)
           /\ Past(local.copy, now) /\ PastAll(local'.copies, now)
  <1>1. /\ pc = "versions" /\ pc' = "walk" /\ local.i >= Len(WalkedList)
        /\ local' = [local EXCEPT !.copies =
                        IF local.op = "rollback" THEN Updated(@, Single(local.key, local.copy)) ELSE @]
        /\ store' = IF local.op # "overwrite" THEN store
                    ELSE [store EXCEPT !.self = Updated(@, Single(local.key, local.copy))]
    BY DEF EndOfList, GoWith
  <1>2. Walking /\ Walking'
    BY <1>1 DEF Walking
  <1>3. /\ local.key \in Keys /\ local.i \in Nat /\ Past(local.copy, now) /\ PastAll(local.copies, now)
        /\ DOMAIN local = {"op", "position", "size", "left", "key", "list", "i", "copy", "copies"}
    BY <1>1, <1>2 DEF WalkOK
  <1>4. /\ DOMAIN local' = DOMAIN local /\ local'.op = local.op
        /\ local'.position = local.position
        /\ local'.copies = IF local.op = "rollback"
                           THEN Updated(local.copies, Single(local.key, local.copy))
                           ELSE local.copies
    BY <1>1, <1>3
  <1>5. PastAll(Updated(local.copies, Single(local.key, local.copy)), now)
    BY <1>3, PastAllUpdated
  <1>6. PastAll(local'.copies, now)
    BY <1>3, <1>4, <1>5
  <1> QED
    BY <1>1, <1>2, <1>3, <1>4, <1>6

LEMMA EndOfListKeepsBase ==
    ASSUME Base, WalkOK, EndOfList
    PROVE  /\ Base' /\ store'.other = store.other
           /\ \A k \in Keys : k # local.key \/ local.op # "overwrite" =>
                 HistoryOf("self", k)' = HistoryOf("self", k)
           /\ \A k \in Keys : k = local.key /\ local.op = "overwrite" =>
                 HistoryOf("self", k)' = local.copy
  <1> DEFINE k == local.key
             d == Updated(store.self, Single(k, local.copy))
  <1>1. /\ Walking /\ Walking' /\ local'.op = local.op /\ k \in Keys /\ Past(local.copy, now)
        /\ store' = IF local.op # "overwrite" THEN store ELSE [store EXCEPT !.self = d]
    BY EndOfListFacts
  <1>2. /\ ttl' = ttl /\ now' = now /\ entries' = entries /\ put' = put /\ held' = held
        /\ heldOther' = heldOther
    BY DEF EndOfList
  <1>3. /\ DOMAIN store = Maps /\ PastAll(store.self, now)
        /\ DOMAIN ttl = Maps /\ \A m \in Maps : Lives(ttl[m])
    BY DEF Base, StoresOK, Maps
  <1>4. local.op = "merge" => Sorted(store.self)
    BY <1>1 DEF Base, OrderOK
  <1>5. PastAll(d, now)
    BY <1>1, <1>3, PastAllUpdated
  <1>6. /\ DOMAIN d = DOMAIN store.self \cup {k} /\ d[k] = local.copy
        /\ \A j \in DOMAIN store.self : j # k => d[j] = store.self[j]
    BY DEF Updated, Single
  <1> HIDE DEF k, d
  <1>7. /\ DOMAIN store' = Maps /\ store'.other = store.other
        /\ store'.self = IF local.op # "overwrite" THEN store.self ELSE d
    BY <1>1, <1>3 DEF Maps
  <1>8. Base'
    BY <1>1, <1>2, <1>3, <1>4, <1>5, <1>7, WalkerKeepsBase
  <1>9. ASSUME NEW j \in Keys, j # k \/ local.op # "overwrite"
        PROVE  HistoryOf("self", j)' = HistoryOf("self", j)
    <2>1. CASE local.op # "overwrite"
      BY <1>7, <2>1 DEF HistoryOf
    <2>2. CASE local.op = "overwrite" /\ j # k
      BY <1>6, <1>7, <2>2 DEF HistoryOf
    <2> QED
      BY <1>9, <2>1, <2>2
  <1>10. ASSUME NEW j \in Keys, j = k, local.op = "overwrite"
         PROVE  HistoryOf("self", j)' = local.copy
    <2>1. k \in DOMAIN store'.self /\ store'.self[k] = local.copy
      BY <1>6, <1>7, <1>10
    <2> QED
      BY <1>10, <2>1 DEF HistoryOf
  <1> QED
    BY <1>7, <1>8, <1>9, <1>10 DEF k

LEMMA EndOfWalkKeepsBase ==
    ASSUME Base, WalkOK, EndOfWalk
    PROVE  /\ Base' /\ store'.other = store.other /\ local' = local /\ pc = "walk" /\ pc' = "walked"
           /\ store'.self = IF local.op = "rollback" THEN local.copies ELSE store.self
  <1>1. /\ pc = "walk" /\ pc' = "walked" /\ local' = local
        /\ store' = IF local.op = "rollback" THEN [store EXCEPT !.self = local.copies] ELSE store
        /\ ttl' = ttl /\ now' = now /\ entries' = entries /\ put' = put /\ held' = held
        /\ heldOther' = heldOther
    BY DEF EndOfWalk, Go
  <1>2. Walking /\ Walking'
    BY <1>1 DEF Walking
  <1>3. /\ DOMAIN store = Maps /\ PastAll(store.self, now) /\ PastAll(local.copies, now)
        /\ DOMAIN ttl = Maps /\ \A m \in Maps : Lives(ttl[m])
    BY <1>2 DEF Base, StoresOK, Maps, WalkOK
  <1>4. local.op = "merge" => Sorted(store.self)
    BY <1>2 DEF Base, OrderOK
  <1>5. /\ DOMAIN store' = Maps /\ store'.other = store.other
        /\ store'.self = IF local.op = "rollback" THEN local.copies ELSE store.self
    BY <1>1, <1>3 DEF Maps
  <1>6. Base'
    BY <1>1, <1>2, <1>3, <1>4, <1>5, WalkerKeepsBase
  <1> QED
    BY <1>1, <1>5, <1>6

LEMMA TakeTtlKeepsBase ==
    ASSUME Base, WalkOK, TakeTtl
    PROVE  Base' /\ store' = store /\ local' = local /\ pc = "walked" /\ pc' = "returned"
  <1>1. /\ pc = "walked" /\ pc' = "returned" /\ local' = local /\ store' = store
        /\ ttl' = [ttl EXCEPT !.self = MergedTtl]
        /\ now' = now /\ entries' = entries /\ put' = put /\ held' = held
        /\ heldOther' = heldOther
    BY DEF TakeTtl, Go
  <1>2. Walking /\ Walking'
    BY <1>1 DEF Walking
  <1>3. /\ DOMAIN store = Maps /\ PastAll(store.self, now)
        /\ DOMAIN ttl = Maps /\ Lives(ttl.self) /\ Lives(ttl.other)
        /\ local.op \in {"merge", "overwrite", "rollback"}
    BY <1>2 DEF Base, StoresOK, Maps, WalkOK
  <1>4. local.op = "merge" => Sorted(store.self)
    BY <1>2 DEF Base, OrderOK
  <1>5. Lives(MergedTtl)
    <2>1. CASE local.op = "merge"
      <3>1. MergedTtl = [k \in DOMAIN ttl.self \cup DOMAIN ttl.other |-> LaterExpiry(k)]
        BY <2>1 DEF MergedTtl
      <3>2. ASSUME NEW k \in DOMAIN ttl.self \cup DOMAIN ttl.other PROVE LaterExpiry(k) \in Nat
        BY <1>3 DEF LaterExpiry, Lives
      <3> QED
        BY <3>1, <3>2 DEF Lives
    <2>2. CASE local.op = "overwrite"
      <3>1. MergedTtl = [k \in DOMAIN ttl.self \cup DOMAIN ttl.other |->
                            IF k \in DOMAIN ttl.other THEN ttl.other[k] ELSE ttl.self[k]]
        BY <2>2 DEF MergedTtl, Updated
      <3> QED
        BY <1>3, <3>1 DEF Lives
    <2>3. CASE local.op = "rollback"
      <3>1. MergedTtl = ttl.other
        BY <2>3 DEF MergedTtl
      <3> QED
        BY <1>3, <3>1
    <2> QED
      BY <1>3, <2>1, <2>2, <2>3
  <1> HIDE DEF MergedTtl
  <1>6. DOMAIN ttl' = Maps /\ \A m \in Maps : Lives(ttl'[m])
    BY <1>1, <1>3, <1>5 DEF Maps
  <1>7. Base'
    BY <1>1, <1>2, <1>3, <1>4, <1>6, WalkerKeepsBase
  <1> QED
    BY <1>1, <1>7

(***************************************************************************)
(* What every step of a writer leaves as it is.                            *)
(***************************************************************************)
LEMMA WriteFacts ==
    ASSUME Base, WalkOK, NEW w \in Writers, Write(w)
    PROVE  /\ Base' /\ pc' = pc /\ now' = now
           /\ Diffing \/ Walking => store'.self = store.self /\ ttl'.self = ttl.self
           /\ pc # "versions" => local' = local
  <1>1. ASSUME NEW m \in Maps, NEW k \in Keys, Discard(m, k), now' = now, Base',
               m = "self" => ~Diffing /\ ~Walking
        PROVE  /\ Diffing \/ Walking => store'.self = store.self /\ ttl'.self = ttl.self
               /\ pc # "versions" => local' = local
    <2>1. m = "other" => store'.self = store.self /\ ttl'.self = ttl.self
      BY <1>1, DiscardFacts
    <2>2. pc # "versions" => local' = local
      BY <1>1 DEF Discard
    <2> QED
      BY <1>1, <2>1, <2>2 DEF Maps
  <1>2. ASSUME NEW m \in Maps, NEW k \in Keys, NEW v \in Values, NEW at \in 0 .. MaxTime,
               NEW life \in Lifetimes \cup {None}, Purge(w, m, k, v, at, life)
        PROVE  /\ Base' /\ pc' = pc /\ now' = now
               /\ Diffing \/ Walking => store'.self = store.self /\ ttl'.self = ttl.self
               /\ pc # "versions" => local' = local
    <2>1. Base' /\ (m = "self" => ~Diffing /\ ~Walking)
      BY <1>2, PurgeKeepsBase
    <2>2. /\ pc' = pc /\ now' = now
          /\ IF Expired(m, k) THEN Discard(m, k) ELSE UNCHANGED <<store, ttl, entries, local>>
      BY <1>2 DEF Purge
    <2>3. CASE Expired(m, k)
      BY <1>1, <2>1, <2>2, <2>3
    <2>4. CASE ~Expired(m, k)
      BY <2>1, <2>2, <2>4
    <2> QED
      BY <2>3, <2>4
  <1>3. ASSUME MakeList(w)
        PROVE  /\ Base' /\ pc' = pc /\ now' = now
               /\ Diffing \/ Walking => store'.self = store.self /\ ttl'.self = ttl.self
               /\ pc # "versions" => local' = local
    <2>1. Base' /\ (put[w].map = "self" => ~Diffing /\ ~Walking)
      BY <1>3, MakeListKeepsBase
    <2>2. put[w] # None /\ put[w].map \in Maps
      BY <1>3, PutFacts DEF MakeList, Base
    <2>3. pc' = pc /\ now' = now /\ local' = local /\ ttl' = ttl
      BY <1>3 DEF MakeList
    <2>4. CASE put[w].map = "other"
      <3>1. store'.self = store.self
        BY <1>3, <2>4 DEF MakeList, Base, StoresOK, Maps
      <3> QED
        BY <2>1, <2>3, <3>1
    <2>5. CASE put[w].map = "self"
      BY <2>1, <2>3, <2>5
    <2> QED
      BY <2>2, <2>4, <2>5 DEF Maps
  <1>4. ASSUME Insert(w)
        PROVE  /\ Base' /\ pc' = pc /\ now' = now
               /\ Diffing \/ Walking => store'.self = store.self /\ ttl'.self = ttl.self
               /\ pc # "versions" => local' = local
    <2>1. Base' /\ (put[w].map = "self" => ~Diffing /\ ~Walking)
      BY <1>4, InsertKeepsBase
    <2>2. /\ put[w].map \in Maps
          /\ \A n \in Maps \ {put[w].map} : store'[n] = store[n] /\ ttl'[n] = ttl[n]
      BY <1>4, InsertFacts
    <2>3. pc' = pc /\ now' = now /\ local' = local
      BY <1>4 DEF Insert
    <2> QED
      BY <2>1, <2>2, <2>3 DEF Maps
  <1>5. ASSUME NEW m \in Maps, NEW k \in Keys, Delete(w, m, k)
        PROVE  /\ Base' /\ pc' = pc /\ now' = now
               /\ Diffing \/ Walking => store'.self = store.self /\ ttl'.self = ttl.self
               /\ pc # "versions" => local' = local
    <2>1. Base' /\ (m = "self" => ~Diffing /\ ~Walking)
      BY <1>5, DeleteKeepsBase
    <2>2. pc' = pc /\ now' = now /\ Discard(m, k)
      BY <1>5 DEF Delete
    <2> QED
      BY <1>1, <2>1, <2>2
  <1>6. ASSUME NEW m \in Maps, NEW k \in Keys, Prune(w, m, k)
        PROVE  /\ Base' /\ pc' = pc /\ now' = now
               /\ Diffing \/ Walking => store'.self = store.self /\ ttl'.self = ttl.self
               /\ pc # "versions" => local' = local
    <2>1. Base' /\ (m = "self" => ~Diffing /\ ~Walking)
      BY <1>6, PruneKeepsBase
    <2>2. pc' = pc /\ now' = now /\ local' = local /\ ttl' = ttl
      BY <1>6 DEF Prune
    <2>3. CASE m = "other"
      <3>1. store'.self = store.self
        BY <1>6, <2>3 DEF Prune, Base, StoresOK, Maps
      <3> QED
        BY <2>1, <2>2, <3>1
    <2>4. CASE m = "self"
      BY <2>1, <2>2, <2>4
    <2> QED
      BY <2>3, <2>4 DEF Maps
  <1> QED
    BY <1>2, <1>3, <1>4, <1>5, <1>6 DEF Write

-----------------------------------------------------------------------------

(***************************************************************************)
(* diff().  While it holds self's lock, self only ages: its histories have *)
(* no version that is later than the call's beginning, so that a key of it *)
(* has the same value at every moment since, as long as it does not        *)
(* expire.                                                                 *)
(***************************************************************************)
LEMMA ValueIsLast ==
    ASSUME Sorted(store.self), NEW t \in Int, PastAll(store.self, t), NEW k, NEW at \in Int,
           t <= at, ~Expired("self", k)
    PROVE  LET h == HistoryOf("self", k)
           IN  AsOf("self", k, at) = IF Len(h) = 0 THEN Absent ELSE h[Len(h)].val
  <1> DEFINE h == HistoryOf("self", k)
             i == BisectRight(h, at)
  <1>1. Past(h, t) /\ Ordered(h)
    <2>1. Ordered(h)
      BY HistoryIsOrdered
    <2>2. Past(h, t)
      BY EmptyPast DEF HistoryOf, PastAll
    <2> QED
      BY <2>1, <2>2
  <1>2. h \in Seq(Version) /\ \A j \in 1 .. Len(h) : h[j].ts <= t /\ h[j].ts \in Int
    BY <1>1, VersionIsTimed DEF Past
  <1>3. i \in 0 .. Len(h) /\ \A j \in i + 1 .. Len(h) : at < h[j].ts
    BY <1>1, <1>2, BisectRightFinds, VersionIsTimed
  <1>4. AsOf("self", k, at) = IF i = 0 THEN Absent ELSE h[i].val
    BY DEF AsOf, IndexAsOf
  <1> HIDE DEF h, i
  <1>5. i = Len(h)
    <2>1. ASSUME i # Len(h) PROVE FALSE
      <3>1. i + 1 \in i + 1 .. Len(h) /\ i + 1 \in 1 .. Len(h)
        BY <1>2, <1>3, <2>1
      <3>2. at < h[i + 1].ts /\ h[i + 1].ts <= t /\ h[i + 1].ts \in Int
        BY <1>2, <1>3, <3>1
      <3> QED
        BY <3>2
    <2> QED
      BY <2>1
  <1> QED
    BY <1>4, <1>5 DEF h

LEMMA SameValue ==
    ASSUME Sorted(store.self), NEW t \in Int, PastAll(store.self, t), NEW k,
           NEW u \in Int, t <= u, NEW at \in Int, t <= at, ~Expired("self", k)
    PROVE  AsOf("self", k, u) = AsOf("self", k, at)
  <1> DEFINE h == HistoryOf("self", k)
  <1>1. AsOf("self", k, u) = IF Len(h) = 0 THEN Absent ELSE h[Len(h)].val
    BY ValueIsLast
  <1>2. AsOf("self", k, at) = IF Len(h) = 0 THEN Absent ELSE h[Len(h)].val
    BY ValueIsLast
  <1> QED
    BY <1>1, <1>2

(***************************************************************************)
(* The call sees every difference that there is, and forgets none.         *)
(***************************************************************************)
LEMMA VerdictsGrow ==
    ASSUME Observe, Diffing'
    PROVE  /\ DOMAIN verdicts' = Keys
           /\ \A k \in Keys : \A at \in local'.since .. now' : Difference(k, at)' \in verdicts'[k]
           /\ Diffing => \A k \in Keys : verdicts[k] \subseteq verdicts'[k]
           /\ Diffing => \A k \in Keys : k \notin unsteady' =>
                 /\ k \notin unsteady
                 /\ Expired("self", k)' => Expired("self", k)
                 /\ Expired("other", k) => Expired("other", k)'
  <1>1. verdicts' = [k \in Keys |-> (IF Diffing THEN verdicts[k] ELSE {})
                                       \cup {Difference(k, at)' : at \in local'.since .. now'}]
    BY DEF Observe
  <1>2. Diffing => unsteady' = unsteady \cup {k \in Keys :
                      \/ ~Expired("self", k) /\ Expired("self", k)'
                      \/ Expired("other", k) /\ ~Expired("other", k)'}
    BY DEF Observe
  <1>3. DOMAIN verdicts' = Keys
    BY <1>1
  <1>4. ASSUME NEW k \in Keys, NEW at \in local'.since .. now'
        PROVE  Difference(k, at)' \in verdicts'[k]
    BY <1>1, <1>4
  <1>5. ASSUME Diffing, NEW k \in Keys PROVE verdicts[k] \subseteq verdicts'[k]
    BY <1>1, <1>5
  <1>6. ASSUME Diffing, NEW k \in Keys, k \notin unsteady'
        PROVE  /\ k \notin unsteady
               /\ Expired("self", k)' => Expired("self", k)
               /\ Expired("other", k) => Expired("other", k)'
    BY <1>2, <1>6
  <1> QED
    BY <1>3, <1>4, <1>5, <1>6

(***************************************************************************)
(* While the caller stands still, what it knows stays true, or is          *)
(* unsteady.                                                               *)
(***************************************************************************)
LEMMA StandingKeepsDiffs ==
    ASSUME Base, Base', Diffs, Observe, Diffing, pc' = pc, local' = local, now <= now',
           store'.self = store.self, ttl'.self = ttl.self
    PROVE  Diffs'
  <1>1. Diffing' /\ now \in Int /\ now' \in Int /\ now \in Nat /\ now' \in Nat
    BY NowIsInt, TwoMapsAssumption DEF Diffing, Base, StoresOK
  <1>2. /\ DOMAIN verdicts' = Keys
        /\ \A k \in Keys : \A at \in local'.since .. now' : Difference(k, at)' \in verdicts'[k]
        /\ \A k \in Keys : verdicts[k] \subseteq verdicts'[k]
        /\ \A k \in Keys : k \notin unsteady' =>
              /\ k \notin unsteady
              /\ Expired("self", k)' => Expired("self", k)
              /\ Expired("other", k) => Expired("other", k)'
    BY <1>1, VerdictsGrow
  <1>3. /\ DOMAIN local = {"todo", "key", "own", "differs", "since"}
        /\ local.todo \subseteq Keys /\ local.since \in 0 .. now
        /\ pc # "keys" => local.key \in Keys
        /\ PastAll(store.self, local.since)
    BY DEF Diffs, DiffOK
  <1>4. DiffOK'
    BY <1>1, <1>2, <1>3 DEF DiffOK
  <1>5. SteadyOK'
    <2>1. SUFFICES ASSUME pc # "keys", local.key \notin unsteady'
                   PROVE  SteadyOK'
      BY DEF SteadyOK
    <2> DEFINE k == local.key
    <2>2. /\ k \in Keys /\ k \notin unsteady
          /\ Expired("self", k)' => Expired("self", k)
          /\ Expired("other", k) => Expired("other", k)'
          /\ verdicts[k] \subseteq verdicts'[k]
      BY <1>2, <1>3, <2>1
    <2>3. Expired("self", k)' <=> Expired("self", k)
      <3>1. ASSUME Expired("self", k) PROVE now' >= ttl.self[k]
        <4>1. k \in DOMAIN ttl.self /\ now >= ttl.self[k]
          BY <3>1 DEF Expired
        <4>2. ttl.self[k] \in Nat
          BY <4>1 DEF Base, StoresOK, Maps, Lives
        <4> QED
          BY <1>1, <4>1, <4>2
      <3> QED
        BY <2>2, <3>1 DEF Expired
    <2>4. AsOf("self", k, local.own.ts)' = AsOf("self", k, local.own.ts)
      BY <2>3 DEF AsOf, HistoryOf
    <2>5. /\ pc \in {"checked", "both", "got"} => ~Expired("self", k)
          /\ pc \in {"either", "again"} => Expired("self", k) \/ Expired("other", k)
          /\ pc = "again" => local.own = Expired("self", k)
          /\ pc = "got" => /\ local.own.ts \in local.since .. now
                           /\ local.own.val = AsOf("self", k, local.own.ts)
          /\ pc = "judged" => Judged
      BY <2>1, <2>2 DEF Diffs, SteadyOK
    <2>6. local.own.ts \in local.since .. now => local.own.ts \in local.since .. now'
      BY <1>1, <1>3
    <2>7. Judged => Judged'
      BY <2>2 DEF Judged
    <2>8. Expired("self", k)' = Expired("self", k)
      BY <2>3 DEF Expired
    <2> QED
      BY <2>2, <2>4, <2>5, <2>6, <2>7, <2>8 DEF SteadyOK
  <1> QED
    BY <1>4, <1>5 DEF Diffs

(***************************************************************************)
(* One lemma for each step of the call.                                    *)
(***************************************************************************)
LEMMA DiffStarts ==
    ASSUME Base, Observe, Diff
    PROVE  Diffs'
  <1>1. /\ pc' = "keys" /\ Searchable("self") /\ store' = store /\ now' = now
        /\ local' = [todo |-> AllKeys, key |-> None, own |-> None, differs |-> FALSE, since |-> now]
    BY DEF Diff, GoWith, maps
  <1>2. Diffing' /\ now \in Int /\ now \in Nat
    BY <1>1, NowIsInt DEF Diffing, Base
  <1>3. /\ DOMAIN verdicts' = Keys
        /\ \A k \in Keys : \A at \in local'.since .. now' : Difference(k, at)' \in verdicts'[k]
    BY <1>2, VerdictsGrow
  <1>4. PastAll(store.self, now) /\ AllKeys \subseteq Keys
    BY DEF Base, StoresOK, Maps, PastAll, AllKeys
  <1>5. DiffOK'
    BY <1>1, <1>2, <1>3, <1>4 DEF DiffOK
  <1>6. SteadyOK'
    BY <1>1 DEF SteadyOK
  <1> QED
    BY <1>5, <1>6 DEF Diffs

(***************************************************************************)
(* A step of Compare changes nothing but pc and local variables.           *)
(***************************************************************************)
LEMMA CompareKeepsDiffOK ==
    ASSUME Base, DiffOK, Observe, Diffing, Diffing', store' = store, ttl' = ttl, now' = now,
           DOMAIN local' = DOMAIN local, local'.since = local.since, local'.todo \subseteq local.todo,
           pc' # "keys" => local'.key \in Keys
    PROVE  /\ DiffOK'
           /\ \A k \in Keys : k \notin unsteady' => k \notin unsteady
           /\ \A k : Expired("self", k)' <=> Expired("self", k)
           /\ \A k : Expired("other", k)' <=> Expired("other", k)
           /\ \A k \in Keys : \A at \in local.since .. now : Difference(k, at) \in verdicts'[k]
           /\ now \in Int /\ local.since \in 0 .. now
           /\ Sorted(store.self) /\ PastAll(store.self, local.since)
  <1>1. now \in Int
    BY NowIsInt DEF Base
  <1>2. /\ DOMAIN verdicts' = Keys
        /\ \A k \in Keys : \A at \in local'.since .. now' : Difference(k, at)' \in verdicts'[k]
        /\ \A k \in Keys : verdicts[k] \subseteq verdicts'[k]
        /\ \A k \in Keys : k \notin unsteady' => k \notin unsteady
    BY VerdictsGrow
  <1>3. /\ DOMAIN local = {"todo", "key", "own", "differs", "since"}
        /\ local.todo \subseteq Keys /\ local.since \in 0 .. now
        /\ PastAll(store.self, local.since)
        /\ \A k \in Keys : \A at \in local.since .. now : Difference(k, at) \in verdicts[k]
    BY DEF DiffOK
  <1>4. DiffOK'
    BY <1>1, <1>2, <1>3 DEF DiffOK
  <1>5. Sorted(store.self)
    BY DEF Base, OrderOK
  <1>6. ASSUME NEW k
        PROVE  (Expired("self", k)' <=> Expired("self", k)) /\ (Expired("other", k)' <=> Expired("other", k))
    BY DEF Expired
  <1> QED
    BY <1>1, <1>2, <1>3, <1>4, <1>5, <1>6

LEMMA ChecksKeepDiffs ==
    ASSUME Base, Diffs, Observe, CheckSelf \/ CheckOther \/ NextInDiff,
           store' = store, ttl' = ttl, now' = now
    PROVE  Diffs'
  <1>1. Diffing /\ Diffing'
    BY DEF CheckSelf, CheckOther, NextInDiff, Go, GoWith, Diffing
  <1>2. /\ DOMAIN local = {"todo", "key", "own", "differs", "since"} /\ local.todo \subseteq Keys
        /\ pc # "keys" => local.key \in Keys
    BY <1>1 DEF Diffs, DiffOK
  <1>3. /\ DOMAIN local' = DOMAIN local /\ local'.since = local.since
        /\ local'.todo \subseteq local.todo /\ (pc' # "keys" => local'.key \in Keys)
    <2>1. CASE CheckSelf
      BY <1>2, <2>1 DEF CheckSelf, GoWith
    <2>2. CASE CheckOther
      BY <1>2, <2>2 DEF CheckOther, Go
    <2>3. CASE NextInDiff
      BY <1>2, <2>3 DEF NextInDiff, GoWith
    <2> QED
      BY <2>1, <2>2, <2>3
  <1>4. /\ DiffOK'
        /\ \A k \in Keys : k \notin unsteady' => k \notin unsteady
        /\ \A k : Expired("self", k)' <=> Expired("self", k)
        /\ \A k : Expired("other", k)' <=> Expired("other", k)
    BY <1>1, <1>3, CompareKeepsDiffOK DEF Diffs
  <1>5. SteadyOK'
    <2>1. CASE CheckSelf
      <3>1. PICK k \in local.todo : /\ pc' = IF Expired("self", k) THEN "either" ELSE "checked"
                                    /\ local' = [local EXCEPT !.key = k]
        BY <2>1 DEF CheckSelf, GoWith
      <3>2. local'.key = k
        BY <1>2, <3>1
      <3>3. CASE Expired("self", k)
        <4>1. pc' = "either" /\ Expired("self", local'.key)
          BY <3>1, <3>2, <3>3
        <4> QED
          BY <1>4, <4>1 DEF SteadyOK, Expired
      <3>4. CASE ~Expired("self", k)
        <4>1. pc' = "checked" /\ ~Expired("self", local'.key)
          BY <3>1, <3>2, <3>4
        <4> QED
          BY <1>4, <4>1 DEF SteadyOK, Expired
      <3> QED
        BY <3>3, <3>4
    <2>2. CASE CheckOther
      <3>1. /\ pc = "checked" /\ pc' = IF Expired("other", local.key) THEN "either" ELSE "both"
            /\ local' = local
        BY <2>2 DEF CheckOther, Go
      <3>2. ASSUME local.key \notin unsteady' PROVE ~Expired("self", local.key)
        BY <1>1, <1>2, <1>4, <3>1, <3>2 DEF Diffs, SteadyOK
      <3>3. CASE Expired("other", local.key)
        BY <3>1, <3>3 DEF SteadyOK, Expired
      <3>4. CASE ~Expired("other", local.key)
        BY <3>1, <3>2, <3>4 DEF SteadyOK, Expired
      <3> QED
        BY <3>3, <3>4
    <2>3. CASE NextInDiff
      BY <2>3 DEF NextInDiff, GoWith, SteadyOK
    <2> QED
      BY <2>1, <2>2, <2>3
  <1> QED
    BY <1>4, <1>5 DEF Diffs

LEMMA AgainKeepsDiffs ==
    ASSUME Base, Diffs, Observe, AgainSelf \/ AgainOther,
           store' = store, ttl' = ttl, now' = now
    PROVE  Diffs'
  <1>1. Diffing /\ Diffing' /\ pc # "keys" /\ pc' # "keys"
    BY DEF AgainSelf, AgainOther, GoWith, Diffing
  <1> DEFINE k == local.key
  <1>2. DOMAIN local = {"todo", "key", "own", "differs", "since"} /\ k \in Keys
    BY <1>1 DEF Diffs, DiffOK
  <1>3. /\ DOMAIN local' = DOMAIN local /\ local'.since = local.since
        /\ local'.todo = local.todo /\ local'.key = k
    BY <1>2 DEF AgainSelf, AgainOther, GoWith
  <1>4. /\ DiffOK'
        /\ k \notin unsteady' => k \notin unsteady
        /\ Expired("self", k) <=> (k \in DOMAIN ttl'.self /\ now' >= ttl'.self[k])
        /\ Expired("other", k) <=> (k \in DOMAIN ttl'.other /\ now' >= ttl'.other[k])
        /\ \A at \in local.since .. now : Difference(k, at) \in verdicts'[k]
        /\ now \in Int /\ local.since \in 0 .. now
    <2>1. /\ DiffOK' /\ \A j \in Keys : j \notin unsteady' => j \notin unsteady
          /\ \A j \in Keys : \A at \in local.since .. now : Difference(j, at) \in verdicts'[j]
          /\ now \in Int /\ local.since \in 0 .. now
      BY <1>1, <1>2, <1>3, CompareKeepsDiffOK DEF Diffs
    <2> QED
      BY <1>2, <2>1 DEF Expired
  <1>5. SteadyOK'
    <2>1. SUFFICES ASSUME k \notin unsteady'
                   PROVE  SteadyOK'
      BY <1>3 DEF SteadyOK
    <2>2. k \notin unsteady
      BY <1>4, <2>1
    <2>3. Expired("self", k) \/ Expired("other", k)
      BY <1>1, <2>2 DEF Diffs, SteadyOK, AgainSelf, AgainOther
    <2>4. CASE AgainSelf
      <3>1. pc' = "again" /\ local'.own = Expired("self", k)
        BY <1>2, <2>4 DEF AgainSelf, GoWith
      <3> QED
        BY <1>3, <1>4, <2>3, <3>1 DEF SteadyOK, Expired
    <2>5. CASE AgainOther
      <3>1. /\ pc = "again" /\ pc' = "judged"
            /\ local'.differs = (local.own # Expired("other", k))
        BY <1>2, <2>5 DEF AgainOther, GoWith
      <3>2. local.own = Expired("self", k)
        BY <1>1, <2>2, <3>1 DEF Diffs, SteadyOK
      <3>3. now \in local.since .. now
        BY <1>4
      <3> DEFINE d == Difference(k, now)
      <3>4. d \in verdicts'[k]
        BY <1>4, <3>3
      <3>5. IF local'.differs THEN d.flagged ELSE ~d.values
        <4>1. CASE Expired("self", k) /\ Expired("other", k)
          <5>1. AsOf("self", k, now) = AsOf("other", k, now)
            BY <4>1 DEF AsOf
          <5>2. ~local'.differs
            BY <3>1, <3>2, <4>1 DEF Expired
          <5> QED
            BY <5>1, <5>2 DEF Difference
        <4>2. CASE Expired("self", k) # Expired("other", k)
          <5>1. d.flagged
            BY <4>2 DEF Difference
          <5>2. local'.differs
            BY <3>1, <3>2, <4>2
          <5> QED
            BY <5>1, <5>2
        <4> QED
          BY <2>3, <4>1, <4>2
      <3>6. Judged'
        BY <1>3, <3>4, <3>5 DEF Judged
      <3> QED
        BY <3>1, <3>6 DEF SteadyOK
    <2> QED
      BY <2>4, <2>5
  <1> QED
    BY <1>4, <1>5 DEF Diffs

LEMMA GetsKeepDiffs ==
    ASSUME Base, Diffs, Observe, GetSelf \/ GetOther,
           store' = store, ttl' = ttl, now' = now
    PROVE  Diffs'
  <1>1. Diffing /\ Diffing' /\ pc \in {"both", "got"} /\ pc' # "keys"
    BY DEF GetSelf, GetOther, GoWith, Diffing
  <1> DEFINE k == local.key
  <1>2. DOMAIN local = {"todo", "key", "own", "differs", "since"} /\ k \in Keys
    BY <1>1 DEF Diffs, DiffOK
  <1>3. /\ DOMAIN local' = DOMAIN local /\ local'.since = local.since
        /\ local'.todo = local.todo /\ local'.key = k
    BY <1>2 DEF GetSelf, GetOther, GoWith
  <1>4. /\ DiffOK' /\ (k \notin unsteady' => k \notin unsteady)
        /\ \A at \in local.since .. now : Difference(k, at) \in verdicts'[k]
        /\ now \in Int /\ local.since \in 0 .. now
        /\ Sorted(store.self) /\ PastAll(store.self, local.since)
    BY <1>1, <1>2, <1>3, CompareKeepsDiffOK DEF Diffs
  <1>5. SteadyOK'
    <2>1. SUFFICES ASSUME k \notin unsteady'
                   PROVE  SteadyOK'
      BY <1>3 DEF SteadyOK
    <2>2. k \notin unsteady /\ ~Expired("self", k)
      BY <1>1, <1>4, <2>1 DEF Diffs, SteadyOK
    <2>3. CASE GetSelf
      <3>1. /\ pc' = "got" /\ local'.own = [val |-> AsOf("self", k, now), ts |-> now]
        BY <1>2, <2>3 DEF GetSelf, GoWith
      <3>2. local'.own.ts = now /\ local'.own.val = AsOf("self", k, now)
        BY <3>1
      <3>3. AsOf("self", local.key, local.own.ts)' = AsOf("self", k, now)
        BY <1>3, <3>2 DEF AsOf, HistoryOf, Expired
      <3>4. ~Expired("self", local.key)'
        BY <1>3, <2>2 DEF Expired
      <3> QED
        BY <1>3, <1>4, <3>1, <3>2, <3>3, <3>4 DEF SteadyOK
    <2>4. CASE GetOther
      <3>1. /\ pc = "got" /\ pc' = "judged"
            /\ \/ Expired("other", k) /\ local'.differs = (local.own.val # Absent)
               \/ \E ts \in local.own.ts .. now :
                     local'.differs = (local.own.val # AsOf("other", k, ts))
        BY <1>2, <2>4 DEF GetOther, GoWith
      <3>2. /\ local.own.ts \in local.since .. now
            /\ local.own.val = AsOf("self", k, local.own.ts)
        BY <1>1, <2>2, <3>1 DEF Diffs, SteadyOK
      <3>3. PICK ts \in local.own.ts .. now : local'.differs = (local.own.val # AsOf("other", k, ts))
        <4>1. CASE Expired("other", k) /\ local'.differs = (local.own.val # Absent)
          <5>1. AsOf("other", k, now) = Absent
            BY <4>1 DEF AsOf
          <5>2. now \in local.own.ts .. now
            BY <1>4, <3>2
          <5> QED
            BY <4>1, <5>1, <5>2
        <4> QED
          BY <3>1, <4>1
      <3>4. /\ ts \in local.since .. now /\ ts \in Int /\ local.since \in Int /\ local.since <= ts
            /\ local.own.ts \in Int /\ local.since <= local.own.ts
        BY <1>4, <3>2
      <3>5. AsOf("self", k, local.own.ts) = AsOf("self", k, ts)
        BY <1>4, <2>2, <3>4, SameValue
      <3> DEFINE d == Difference(k, ts)
      <3>6. d \in verdicts'[k]
        BY <1>4, <3>4
      <3>7. IF local'.differs THEN d.flagged ELSE ~d.values
        BY <3>2, <3>3, <3>5 DEF Difference
      <3>8. Judged'
        BY <1>3, <3>6, <3>7 DEF Judged
      <3> QED
        BY <3>1, <3>8 DEF SteadyOK
    <2> QED
      BY <2>3, <2>4
  <1> QED
    BY <1>4, <1>5 DEF Diffs

LEMMA DiffsKept ==
    ASSUME Base, Base', WalkOK, Diffs, Next
    PROVE  Diffs'
  <1>1. Observe /\ (Tick \/ Call \/ \E w \in Writers : Write(w))
    BY DEF Next
  <1>2. CASE ~Diffing'
    BY <1>2 DEF Diffs, DiffOK, SteadyOK
  <1>3. CASE Diffing' /\ Tick
    <2>1. now' = now + 1 /\ pc' = pc /\ local' = local /\ store' = store /\ ttl' = ttl
      BY <1>3 DEF Tick, maps
    <2>2. Diffing /\ now <= now'
      BY <1>3, <2>1, NowIsInt DEF Diffing, Base
    <2> QED
      BY <1>1, <2>1, <2>2, StandingKeepsDiffs
  <1>4. CASE Diffing' /\ \E w \in Writers : Write(w)
    <2>1. PICK w \in Writers : Write(w)
      BY <1>4
    <2>2. /\ pc' = pc /\ now' = now
          /\ Diffing \/ Walking => store'.self = store.self /\ ttl'.self = ttl.self
          /\ pc # "versions" => local' = local
      BY <2>1, WriteFacts
    <2>3. Diffing /\ pc # "versions" /\ now <= now'
      BY <1>4, <2>2, NowIsInt DEF Diffing, Base
    <2> QED
      BY <1>1, <2>2, <2>3, StandingKeepsDiffs
  <1>5. CASE Diffing' /\ Call
    <2>1. Diff \/ Compare
      BY <1>5 DEF Call, DiffReturns, Walk, NextKey, NextVersion, Take, EndOfList, EndOfWalk, TakeTtl,
                  WalkRaises, WalkReturns, Go, GoWith, Diffing
    <2>2. CASE Diff
      BY <1>1, <2>2, DiffStarts
    <2>3. CASE Compare
      <3>1. store' = store /\ ttl' = ttl /\ now' = now
        BY <2>3 DEF Compare, maps
      <3> QED
        BY <1>1, <2>3, <3>1, ChecksKeepDiffs, AgainKeepsDiffs, GetsKeepDiffs DEF Compare
    <2> QED
      BY <2>1, <2>2, <2>3
  <1> QED
    BY <1>1, <1>2, <1>3, <1>4, <1>5

-----------------------------------------------------------------------------

(***************************************************************************)
(* The walk.  The call sees every history that other has of a key: what    *)
(* stays is in all of them.                                                *)
(***************************************************************************)
LEMMA HistoriesGrow ==
    ASSUME Observe, Walking'
    PROVE  /\ ObservedOK'
           /\ Walking => \A k \in Keys : histories[k] \subseteq histories'[k]
           /\ \A k \in Keys : \A v : Stays(k, v)' =>
                 v \in ToSet(HistoryOf("other", k)') /\ (Walking => Stays(k, v))
  <1>1. histories' = [k \in Keys |-> (IF Walking THEN histories[k] ELSE {})
                                        \cup {HistoryOf("other", k)'}]
    BY DEF Observe
  <1>2. ASSUME NEW k \in Keys
        PROVE  /\ HistoryOf("other", k)' \in histories'[k]
               /\ Walking => histories[k] \subseteq histories'[k]
    BY <1>1
  <1>3. DOMAIN histories' = Keys
    BY <1>1
  <1>4. ASSUME NEW k \in Keys, NEW v, Stays(k, v)'
        PROVE  v \in ToSet(HistoryOf("other", k)') /\ (Walking => Stays(k, v))
    <2>1. \A h \in histories'[k] : v \in ToSet(h)
      BY <1>4 DEF Stays
    <2> QED
      BY <1>2, <2>1 DEF Stays
  <1>5. ObservedOK'
    BY <1>2, <1>3 DEF ObservedOK
  <1> QED
    BY <1>2, <1>4, <1>5

LEMMA NotMissing == \A k \in Keys : \A v : << >> \in histories[k] => ~Stays(k, v)
  BY EmptyPast DEF Stays

(***************************************************************************)
(* While the caller stands still: keys may go, come back behind all        *)
(* others, or move forward, and a version may move backward in its list;   *)
(* but what now lies where the walk has been did so before, is shifted, or *)
(* is a key that other did not have at some moment.                        *)
(***************************************************************************)
LEMMA StandingKeepsWalks ==
    ASSUME Base, Base', Walks, Observe, Walking, pc' = pc, now <= now',
           store'.self = store.self, shifted \subseteq shifted',
           DOMAIN local' = DOMAIN local, local'.op = local.op, local'.position = local.position,
           local'.key = local.key, local'.i = local.i, local'.copy = local.copy,
           local'.copies = local.copies,
           \A k \in Keys \ shifted' : \A p \in 1 .. Len(entries') :
              p <= local.position /\ entries'[p] = k =>
                 \/ << >> \in histories'[k]
                 \/ \E q \in 1 .. Len(entries) : q <= local.position /\ entries[q] = k,
           pc = "versions" /\ local'.list = None =>
              local.list = None /\ local.key \in DOMAIN store'.other,
           pc = "versions" /\ local'.list # None =>
              Past(local'.list, now') /\ << >> \in histories'[local.key],
           \A k \in Keys : pc = "versions" /\ k = local.key /\ local'.list = None /\ k \notin shifted' =>
              \A j \in 1 .. Len(HistoryOf("other", k)) :
                 \E i \in j .. Len(HistoryOf("other", k)') :
                    HistoryOf("other", k)'[i] = HistoryOf("other", k)[j]
    PROVE  Walks'
  <1>1. /\ Walking' /\ now \in Int /\ now' \in Int
        /\ entries \in Seq(Keys \cup {None}) /\ entries' \in Seq(Keys \cup {None})
        /\ Len(entries) \in Nat /\ Len(entries') \in Nat /\ None \notin Keys
    BY NowIsInt, TwoMapsAssumption DEF Walking, Base, StoresOK, LayoutOK
  <1>2. /\ ObservedOK'
        /\ \A k \in Keys : \A v : Stays(k, v)' =>
              v \in ToSet(HistoryOf("other", k)') /\ Stays(k, v)
    BY <1>1, HistoriesGrow
  <1>3. /\ DOMAIN local = {"op", "position", "size", "left", "key", "list", "i", "copy", "copies"}
        /\ local.op \in {"merge", "overwrite", "rollback"}
        /\ local.position \in Nat /\ PastAll(local.copies, now)
        /\ pc = "versions" =>
              /\ local.key \in Keys /\ local.i \in Nat /\ Past(local.copy, now)
              /\ local.op = "merge" => local.key \in DOMAIN store.self
    BY DEF Walks, WalkOK
  <1>4. PastAll(local.copies, now') /\ (pc = "versions" => Past(local.copy, now'))
    BY <1>1, <1>3, PastLater, PastAllLater
  <1>5. WalkOK'
    BY <1>1, <1>3, <1>4 DEF WalkOK
  <1>6. \A k \in Keys : Result(k)' = Result(k)
    BY DEF Result, Copied, HistoryOf
  <1>7. KeysReached'
    <2>1. SUFFICES ASSUME pc \in {"walk", "versions"}, NEW k \in Keys \ shifted', NEW v \in Version,
                          NEW p \in 1 .. Len(entries'), Stays(k, v)', entries'[p] = k, Passed(k, p)'
                   PROVE  v \in ToSet(Result(k)')
      BY DEF KeysReached
    <2>2. p <= local.position /\ ~(<< >> \in histories'[k])
      BY <2>1, EmptyPast DEF Passed, Stays
    <2>3. PICK q \in 1 .. Len(entries) : entries[q] = k /\ Passed(k, q)
      BY <2>1, <2>2 DEF Passed
    <2>4. Stays(k, v) /\ k \in Keys \ shifted
      BY <1>2, <2>1
    <2>5. v \in ToSet(Result(k))
      BY <2>1, <2>3, <2>4 DEF Walks, KeysReached
    <2> QED
      BY <1>6, <2>5
  <1>8. VersionsReached'
    <2>1. SUFFICES ASSUME pc = "versions", local'.list = None, local.key \notin shifted',
                          NEW v \in Version, Stays(local.key, v)'
                   PROVE  \/ v \in ToSet(Partial')
                          \/ \E j \in 1 .. Len(HistoryOf("other", local.key)') :
                                j > local.i /\ HistoryOf("other", local.key)'[j] = v
      BY DEF VersionsReached
    <2>2. PICK k \in Keys : k = local.key
      BY <1>3, <2>1
    <2>3. Stays(k, v)'
      BY <2>1, <2>2
    <2>4. Stays(k, v) /\ local.list = None /\ local.key \notin shifted
      BY <1>2, <2>1, <2>2, <2>3
    <2>5. \/ v \in ToSet(Partial)
          \/ \E j \in 1 .. Len(HistoryOf("other", k)) : j > local.i /\ HistoryOf("other", k)[j] = v
      BY <2>1, <2>2, <2>4 DEF Walks, VersionsReached
    <2>6. Partial' = Partial
      BY DEF Partial, HistoryOf
    <2>7. CASE v \in ToSet(Partial)
      BY <2>6, <2>7
    <2>8. ASSUME NEW j \in 1 .. Len(HistoryOf("other", k)), j > local.i, HistoryOf("other", k)[j] = v
          PROVE  \E i \in 1 .. Len(HistoryOf("other", k)') : i > local.i /\ HistoryOf("other", k)'[i] = v
      <3>1. PICK i \in j .. Len(HistoryOf("other", k)') :
               HistoryOf("other", k)'[i] = HistoryOf("other", k)[j]
        BY <2>1, <2>2, <2>8
      <3>2. local.i \in Nat /\ j \in Int /\ i \in Int /\ j <= i /\ 1 <= j
        BY <1>3, <2>1
      <3>3. i > local.i /\ i \in 1 .. Len(HistoryOf("other", k)')
        BY <2>8, <3>2
      <3> QED
        BY <2>8, <3>1, <3>3
    <2> QED
      BY <2>2, <2>5, <2>7, <2>8
  <1>9. AllReached'
    <2>1. SUFFICES ASSUME pc \in {"walked", "returned"}, NEW k \in Keys \ shifted', NEW v \in Version,
                          Stays(k, v)'
                   PROVE  v \in ToSet(HistoryOf("self", k)')
      BY DEF AllReached
    <2>2. Stays(k, v) /\ k \in Keys \ shifted
      BY <1>2, <2>1
    <2>3. v \in ToSet(HistoryOf("self", k))
      BY <2>1, <2>2 DEF Walks, AllReached
    <2> QED
      BY <2>3 DEF HistoryOf
  <1> QED
    BY <1>2, <1>5, <1>7, <1>8, <1>9 DEF Walks

(***************************************************************************)
(* A step that leaves other, the layout and the local variables alone.     *)
(***************************************************************************)
LEMMA NothingMoves ==
    ASSUME Base, Base', Walks, Observe, Walking, pc' = pc, now <= now',
           store'.self = store.self, DOMAIN store'.other = DOMAIN store.other,
           shifted \subseteq shifted', local' = local, entries' = entries,
           \A k \in Keys : k \notin shifted' =>
              \A j \in 1 .. Len(HistoryOf("other", k)) :
                 \E i \in j .. Len(HistoryOf("other", k)') :
                    HistoryOf("other", k)'[i] = HistoryOf("other", k)[j]
    PROVE  Walks'
  <1>1. Walking' /\ now \in Int /\ now' \in Int
    BY TwoMapsAssumption DEF Walking, Base, StoresOK
  <1>2. \A k \in Keys : histories[k] \subseteq histories'[k]
    BY <1>1, HistoriesGrow
  <1>3. pc = "versions" =>
           /\ local.key \in Keys
           /\ IF local.list = None
              THEN local.key \in DOMAIN store.other
              ELSE Past(local.list, now) /\ << >> \in histories[local.key]
    BY DEF Walks, WalkOK
  <1>4. pc = "versions" /\ local.list # None => Past(local.list, now') /\ << >> \in histories'[local.key]
    BY <1>1, <1>2, <1>3, PastLater
  <1>5. Len(entries) \in Nat
    BY DEF Base, LayoutOK
  <1> QED
    BY <1>3, <1>4, <1>5, StandingKeepsWalks

LEMMA SameHistories ==
    ASSUME store' = store
    PROVE  \A k : \A j \in 1 .. Len(HistoryOf("other", k)) :
              \E i \in j .. Len(HistoryOf("other", k)') :
                 HistoryOf("other", k)'[i] = HistoryOf("other", k)[j]
  <1>1. ASSUME NEW k, NEW j \in 1 .. Len(HistoryOf("other", k))
        PROVE  \E i \in j .. Len(HistoryOf("other", k)') :
                  HistoryOf("other", k)'[i] = HistoryOf("other", k)[j]
    <2>1. HistoryOf("other", k)' = HistoryOf("other", k)
      BY DEF HistoryOf
    <2>2. j \in j .. Len(HistoryOf("other", k))
      OBVIOUS
    <2> QED
      BY <2>1, <2>2
  <1> QED
    BY <1>1

(***************************************************************************)
(* A key goes from under the walk.                                         *)
(***************************************************************************)
LEMMA DiscardKeepsWalks ==
    ASSUME Base, Base', Walks, Observe, Walking, pc' = pc, now' = now, shifted' = shifted,
           NEW k \in Keys, Discard("other", k)
    PROVE  Walks'
  <1>1. now \in Int /\ Len(entries) \in Nat /\ entries \in Seq(Keys \cup {None}) /\ None \notin Keys
    BY NowIsInt, TwoMapsAssumption DEF Base, LayoutOK
  <1>2. /\ store'.self = store.self /\ Len(entries') = Len(entries)
        /\ \A p \in 1 .. Len(entries) :
              entries'[p] = IF entries[p] = k THEN None ELSE entries[p]
    BY DiscardFacts DEF Maps
  <1>3. store'.other = Without(store.other, {k})
    BY DEF Discard, Base, StoresOK, Maps
  <1>4. /\ DOMAIN store'.other = DOMAIN store.other \ {k}
        /\ \A j \in DOMAIN store.other \ {k} : store'.other[j] = store.other[j]
    <2> DEFINE d == store.other
               e == Without(d, {k})
    <2>1. DOMAIN e = DOMAIN d \ {k} /\ \A j \in DOMAIN d \ {k} : e[j] = d[j]
      BY WithoutFacts
    <2> HIDE DEF e
    <2>2. store'.other = e
      BY <1>3 DEF e
    <2> QED
      BY <2>1, <2>2
  <1>5. /\ HistoryOf("other", k)' = << >>
        /\ \A j \in Keys : j # k => HistoryOf("other", j)' = HistoryOf("other", j)
    BY <1>4 DEF HistoryOf
  <1>6. Walking' /\ ObservedOK' /\ \A j \in Keys : histories[j] \subseteq histories'[j]
    <2>1. Walking'
      BY DEF Walking
    <2> QED
      BY <2>1, HistoriesGrow
  <1>7. << >> \in histories'[k]
    BY <1>5, <1>6 DEF ObservedOK
  <1>8. /\ DOMAIN local = {"op", "position", "size", "left", "key", "list", "i", "copy", "copies"}
        /\ pc = "versions" =>
              /\ local.key \in Keys
              /\ IF local.list = None
                 THEN local.key \in DOMAIN store.other
                 ELSE Past(local.list, now) /\ << >> \in histories[local.key]
    BY DEF Walks, WalkOK
  <1>11. ASSUME NEW j \in Keys, NEW p \in 1 .. Len(entries'), p <= local.position, entries'[p] = j
         PROVE  \E q \in 1 .. Len(entries) : q <= local.position /\ entries[q] = j
    BY <1>1, <1>2, <1>11
  <1>9. CASE pc = "versions" /\ local.key = k /\ local.list = None
    <2>1. local' = [local EXCEPT !.list = store.other[k]]
      BY <1>9 DEF Discard
    <2>2. k \in DOMAIN store.other
      BY <1>8, <1>9
    <2>3. Past(store.other[k], now)
      BY <2>2 DEF Base, StoresOK, PastAll, Maps
    <2>4. store.other[k] # None
      BY <2>3, TwoMapsAssumption DEF Past
    <2>5. /\ DOMAIN local' = DOMAIN local /\ local'.op = local.op /\ local'.position = local.position
          /\ local'.key = local.key /\ local'.i = local.i /\ local'.copy = local.copy
          /\ local'.copies = local.copies /\ local'.list = store.other[k]
      BY <1>8, <2>1
    <2> QED
      BY <1>1, <1>2, <1>7, <1>9, <1>11, <2>3, <2>4, <2>5, StandingKeepsWalks
  <1>10. CASE ~(pc = "versions" /\ local.key = k /\ local.list = None)
    <2>1. local' = local
      BY <1>10 DEF Discard
    <2>2. pc = "versions" /\ local.list = None => local.key \in DOMAIN store'.other
      BY <1>4, <1>8, <1>10
    <2>3. pc = "versions" /\ local.list # None =>
             Past(local.list, now') /\ << >> \in histories'[local.key]
      BY <1>1, <1>6, <1>8
    <2>4. ASSUME NEW j \in Keys, pc = "versions", j = local.key, local.list = None,
                 NEW n \in 1 .. Len(HistoryOf("other", j))
          PROVE  \E i \in n .. Len(HistoryOf("other", j)') :
                    HistoryOf("other", j)'[i] = HistoryOf("other", j)[n]
      <3>1. HistoryOf("other", j)' = HistoryOf("other", j)
        BY <1>5, <1>10, <2>4
      <3>2. n \in n .. Len(HistoryOf("other", j))
        OBVIOUS
      <3> QED
        BY <3>1, <3>2
    <2> QED
      BY <1>1, <1>2, <1>11, <2>1, <2>2, <2>3, <2>4, StandingKeepsWalks
  <1> QED
    BY <1>9, <1>10

(***************************************************************************)
(* A key is listed anew.                                                   *)
(***************************************************************************)
LEMMA MakeListKeepsWalks ==
    ASSUME Base, Base', Walks, Observe, Walking, NEW w \in Writers, MakeList(w),
           put[w].map = "other"
    PROVE  Walks'
  <1> DEFINE k == put[w].key
             s == Updated(store.other, Single(k, HistoryOf("other", k)))
  <1>1. /\ store' = [store EXCEPT !.other = s]
        /\ IF k \notin DOMAIN store.other THEN AddKey(k) ELSE entries' = entries /\ shifted' = shifted
        /\ now' = now /\ pc' = pc /\ local' = local
    BY DEF MakeList
  <1>2. k \in Keys /\ put[w] # None
    BY PutFacts DEF Base, MakeList
  <1>3. /\ DOMAIN s = DOMAIN store.other \cup {k} /\ s[k] = HistoryOf("other", k)
        /\ \A j \in DOMAIN store.other : j # k => s[j] = store.other[j]
    BY DEF Updated, Single
  <1> HIDE DEF k, s
  <1>4. store'.other = s /\ store'.self = store.self
    BY <1>1 DEF Base, StoresOK, Maps
  <1>5. ASSUME NEW j \in Keys PROVE HistoryOf("other", j)' = HistoryOf("other", j)
    <2>1. CASE j = k
      BY <1>3, <1>4, <2>1 DEF HistoryOf
    <2>2. CASE j # k
      BY <1>3, <1>4, <2>2 DEF HistoryOf
    <2> QED
      BY <2>1, <2>2
  <1>6. entries \in Seq(Keys \cup {None}) /\ now \in Int
    BY NowIsInt DEF Base, LayoutOK
  <1>7. /\ Walking' /\ \A j \in Keys : histories[j] \subseteq histories'[j]
        /\ \A j \in Keys : HistoryOf("other", j) \in histories[j]
    <2>1. Walking'
      BY <1>1 DEF Walking
    <2> QED
      BY <2>1, HistoriesGrow DEF Walks, ObservedOK
  <1>8. /\ local.position \in Nat
        /\ pc = "versions" =>
              /\ local.key \in Keys
              /\ IF local.list = None
                 THEN local.key \in DOMAIN store.other
                 ELSE Past(local.list, now) /\ << >> \in histories[local.key]
    BY DEF Walks, WalkOK
  <1>9. /\ shifted \subseteq shifted'
        /\ \A j \in Keys \ shifted' : \A p \in 1 .. Len(entries') :
              p <= local.position /\ entries'[p] = j =>
                 \/ << >> \in histories'[j]
                 \/ \E q \in 1 .. Len(entries) : q <= local.position /\ entries[q] = j
    <2>1. CASE k \notin DOMAIN store.other
      <3>1. << >> \in histories'[k]
        BY <1>2, <1>7, <2>1 DEF HistoryOf
      <3>2. AddKey(k)
        BY <1>1, <2>1
      <3> QED
        BY <1>2, <1>6, <1>8, <3>1, <3>2, AddKeyFacts
    <2>2. CASE k \in DOMAIN store.other
      BY <1>1, <2>2
    <2> QED
      BY <2>1, <2>2
  <1>10. /\ pc = "versions" /\ local.list = None => local.key \in DOMAIN store'.other
         /\ pc = "versions" /\ local.list # None =>
               Past(local.list, now') /\ << >> \in histories'[local.key]
    BY <1>1, <1>3, <1>4, <1>7, <1>8
  <1>11. ASSUME NEW j \in Keys, NEW n \in 1 .. Len(HistoryOf("other", j))
         PROVE  \E i \in n .. Len(HistoryOf("other", j)') :
                   HistoryOf("other", j)'[i] = HistoryOf("other", j)[n]
    <2>1. HistoryOf("other", j)' = HistoryOf("other", j)
      BY <1>5
    <2>2. n \in n .. Len(HistoryOf("other", j))
      OBVIOUS
    <2> QED
      BY <2>1, <2>2
  <1>12. pc' = pc /\ now <= now' /\ local' = local
    BY <1>1, <1>6
  <1> QED
    BY <1>4, <1>9, <1>10, <1>11, <1>12, StandingKeepsWalks

(***************************************************************************)
(* A version is inserted; those behind it move backward.                   *)
(***************************************************************************)
LEMMA InsertKeepsWalks ==
    ASSUME Base, Base', Walks, Observe, Walking, NEW w \in Writers, Insert(w),
           put[w].map = "other"
    PROVE  Walks'
  <1> DEFINE k == put[w].key
             v == [ts |-> put[w].ts, val |-> put[w].val]
             g == InsertVersion(store.other[k], v)
  <1>1. /\ k \in Keys /\ v \in Version /\ k \in DOMAIN store.other /\ Sorted(store.other)
        /\ store'.other = [store.other EXCEPT ![k] = g]
        /\ store'.self = store.self /\ DOMAIN store'.other = DOMAIN store.other
    BY InsertFacts DEF Maps
  <1>2. entries' = entries /\ now' = now /\ pc' = pc /\ local' = local /\ shifted' = shifted
    BY DEF Insert
  <1>3. store.other[k] \in Seq(Version) /\ Ordered(store.other[k])
    BY <1>1 DEF Base, StoresOK, PastAll, Past, Sorted, Maps
  <1> HIDE DEF k, v
  <1> DEFINE h == store.other[k]
  <1> HIDE DEF h
  <1>4. Len(InsertVersion(h, v)) = Len(h) + 1
    BY <1>1, <1>3, InsertMoves DEF h
  <1>5. \A j \in 1 .. Len(h) : \E i \in j .. Len(h) + 1 : InsertVersion(h, v)[i] = h[j]
    BY <1>1, <1>3, InsertMoves DEF h
  <1>6. ASSUME NEW j \in Keys, NEW n \in 1 .. Len(HistoryOf("other", j))
        PROVE  \E i \in n .. Len(HistoryOf("other", j)') :
                  HistoryOf("other", j)'[i] = HistoryOf("other", j)[n]
    <2>1. CASE j = k
      <3>1. HistoryOf("other", j)' = InsertVersion(h, v) /\ HistoryOf("other", j) = h
        BY <1>1, <2>1 DEF HistoryOf, h
      <3> QED
        BY <1>4, <1>5, <3>1
    <2>2. CASE j # k
      <3>1. HistoryOf("other", j)' = HistoryOf("other", j)
        BY <1>1, <2>2 DEF HistoryOf
      <3>2. n \in n .. Len(HistoryOf("other", j))
        OBVIOUS
      <3> QED
        BY <3>1, <3>2
    <2> QED
      BY <2>1, <2>2
  <1>7. now <= now'
    BY <1>2, NowIsInt DEF Base
  <1> QED
    BY <1>1, <1>2, <1>6, <1>7, NothingMoves

(***************************************************************************)
(* A list is shortened: the walk may miss what moves forward in it.        *)
(***************************************************************************)
LEMMA PruneKeepsWalks ==
    ASSUME Base, Base', Walks, Observe, Walking, NEW w \in Writers, NEW k \in Keys,
           Prune(w, "other", k)
    PROVE  Walks'
  <1>1. /\ entries' = entries /\ now' = now /\ pc' = pc /\ local' = local
        /\ shifted' = shifted \cup {k}
        /\ store' = [store EXCEPT !.other[k] = KeepLast(@, 1)]
    BY DEF Prune
  <1>2. /\ store'.self = store.self /\ store'.other = [store.other EXCEPT ![k] = KeepLast(@, 1)]
        /\ DOMAIN store'.other = DOMAIN store.other
    BY <1>1 DEF Base, StoresOK, Maps
  <1>3. ASSUME NEW j \in Keys, j \notin shifted', NEW n \in 1 .. Len(HistoryOf("other", j))
        PROVE  \E i \in n .. Len(HistoryOf("other", j)') :
                  HistoryOf("other", j)'[i] = HistoryOf("other", j)[n]
    <2>1. HistoryOf("other", j)' = HistoryOf("other", j)
      BY <1>1, <1>2, <1>3 DEF HistoryOf
    <2>2. n \in n .. Len(HistoryOf("other", j))
      OBVIOUS
    <2> QED
      BY <2>1, <2>2
  <1>4. now <= now'
    BY <1>1, NowIsInt DEF Base
  <1> QED
    BY <1>1, <1>2, <1>3, <1>4, NothingMoves

LEMMA WriteKeepsWalks ==
    ASSUME Base, Base', Walks, Observe, Walking, NEW w \in Writers, Write(w)
    PROVE  Walks'
  <1>1. now \in Int /\ WalkOK
    BY NowIsInt DEF Base, Walks
  <1>2. ASSUME NEW m \in Maps, NEW k \in Keys, NEW v \in Values, NEW at \in 0 .. MaxTime,
               NEW life \in Lifetimes \cup {None}, Purge(w, m, k, v, at, life)
        PROVE  Walks'
    <2>1. m = "other"
      BY <1>1, <1>2, PurgeKeepsBase DEF Maps
    <2>2. /\ pc' = pc /\ now' = now /\ shifted' = shifted
          /\ IF Expired("other", k) THEN Discard("other", k)
             ELSE UNCHANGED <<store, ttl, entries, local>>
      BY <1>2, <2>1 DEF Purge
    <2>3. CASE Expired("other", k)
      BY <2>2, <2>3, DiscardKeepsWalks
    <2>4. CASE ~Expired("other", k)
      <3>1. store' = store /\ entries' = entries /\ local' = local
        BY <2>2, <2>4
      <3>2. now <= now'
        BY <1>1, <2>2
      <3> QED
        BY <2>2, <3>1, <3>2, SameHistories, NothingMoves
    <2> QED
      BY <2>3, <2>4
  <1>3. ASSUME MakeList(w) PROVE Walks'
    <2>1. put[w].map = "other"
      BY <1>3, MakeListKeepsBase, PutFacts DEF Maps, Base, MakeList
    <2> QED
      BY <1>3, <2>1, MakeListKeepsWalks
  <1>4. ASSUME Insert(w) PROVE Walks'
    <2>1. put[w].map = "other"
      BY <1>4, InsertKeepsBase, PutFacts DEF Maps, Base, Insert
    <2> QED
      BY <1>4, <2>1, InsertKeepsWalks
  <1>5. ASSUME NEW m \in Maps, NEW k \in Keys, Delete(w, m, k) PROVE Walks'
    <2>1. m = "other"
      BY <1>1, <1>5, DeleteKeepsBase DEF Maps
    <2>2. pc' = pc /\ now' = now /\ shifted' = shifted /\ Discard("other", k)
      BY <1>5, <2>1 DEF Delete
    <2> QED
      BY <2>2, DiscardKeepsWalks
  <1>6. ASSUME NEW m \in Maps, NEW k \in Keys, Prune(w, m, k) PROVE Walks'
    <2>1. m = "other"
      BY <1>6, PruneKeepsBase DEF Maps
    <2> QED
      BY <1>6, <2>1, PruneKeepsWalks
  <1> QED
    BY <1>2, <1>3, <1>4, <1>5, <1>6 DEF Write

(***************************************************************************)
(* The steps of the walk.                                                  *)
(***************************************************************************)
LEMMA WalkStarts ==
    ASSUME Base, Base', Observe, NEW op \in {"merge", "overwrite", "rollback"}, Walk(op)
    PROVE  Walks'
  <1>1. /\ pc' = "walk"
        /\ \E size : local' = [op |-> op, position |-> 0, size |-> size, left |-> size, key |-> None,
                               list |-> None, i |-> 0, copy |-> << >>, copies |-> EmptyDict]
    BY DEF Walk, GoWith
  <1>2. /\ DOMAIN local' = {"op", "position", "size", "left", "key", "list", "i", "copy", "copies"}
        /\ local'.op = op /\ local'.position = 0 /\ local'.copies = EmptyDict
    BY <1>1
  <1>3. Walking' /\ ObservedOK'
    <2>1. Walking'
      BY <1>1 DEF Walking
    <2> QED
      BY <2>1, HistoriesGrow
  <1>4. entries' \in Seq(Keys \cup {None})
    BY DEF Base, LayoutOK
  <1>5. PastAll(EmptyDict, now')
    BY DEF PastAll, EmptyDict
  <1>6. WalkOK'
    BY <1>1, <1>2, <1>4, <1>5 DEF WalkOK
  <1>7. KeysReached'
    <2>1. ASSUME NEW k, NEW p \in 1 .. Len(entries') PROVE ~Passed(k, p)'
      BY <1>2, <1>4 DEF Passed
    <2> QED
      BY <2>1 DEF KeysReached
  <1>8. VersionsReached' /\ AllReached'
    BY <1>1 DEF VersionsReached, AllReached
  <1> QED
    BY <1>3, <1>6, <1>7, <1>8 DEF Walks

LEMMA NextKeyKeepsWalks ==
    ASSUME Base, Base', Walks, Observe, NextKey
    PROVE  Walks'
  <1>1. /\ pc = "walk" /\ pc' = "versions" /\ Walking /\ Walking'
        /\ DOMAIN local' = DOMAIN local /\ local'.op = local.op /\ local'.copies = local.copies
        /\ local'.list = None /\ local'.i = 0 /\ local'.copy = << >>
        /\ local'.position \in 1 .. Len(entries) /\ local'.position > local.position
        /\ local'.key = entries[local'.position] /\ local'.key \in Keys
        /\ \A q \in 1 .. Len(entries) :
              q < local'.position /\ q > local.position => entries[q] = None
    BY NextKeyFacts DEF Walks
  <1>2. /\ store'.other = store.other
        /\ \A k \in Keys : HistoryOf("self", k)' = HistoryOf("self", k)
        /\ local.op = "merge" => local'.key \in DOMAIN store'.self
    BY NextKeyKeepsBase DEF Walks
  <1>3. entries' = entries /\ now' = now /\ shifted' = shifted
    BY DEF NextKey
  <1>4. /\ ObservedOK' /\ \A k \in Keys : \A v : Stays(k, v)' =>
              v \in ToSet(HistoryOf("other", k)') /\ Stays(k, v)
    BY <1>1, HistoriesGrow
  <1>5. /\ DOMAIN local = {"op", "position", "size", "left", "key", "list", "i", "copy", "copies"}
        /\ local.op \in {"merge", "overwrite", "rollback"}
        /\ local.position \in Nat /\ PastAll(local.copies, now)
    BY <1>1 DEF Walks, WalkOK
  <1>6. /\ Len(entries) \in Nat /\ None \notin Keys /\ Past(<< >>, now)
        /\ local'.key \in DOMAIN store'.other
    BY <1>1, <1>2, TwoMapsAssumption, EmptyPast DEF Base, LayoutOK
  <1>7. WalkOK'
    BY <1>1, <1>2, <1>3, <1>5, <1>6 DEF WalkOK
  <1>8. KeysReached'
    <2>1. SUFFICES ASSUME NEW k \in Keys \ shifted', NEW v \in Version,
                          NEW p \in 1 .. Len(entries'), Stays(k, v)', entries'[p] = k, Passed(k, p)'
                   PROVE  v \in ToSet(Result(k)')
      BY DEF KeysReached
    <2>2. p < local'.position /\ entries[p] = k /\ p \in 1 .. Len(entries)
      <3>1. p <= local'.position /\ k # local'.key /\ entries[p] = k /\ p \in 1 .. Len(entries)
        BY <1>1, <1>3, <2>1 DEF Passed
      <3>2. p # local'.position
        BY <1>1, <3>1
      <3> QED
        BY <1>1, <1>6, <3>1, <3>2
    <2>3. ~(p > local.position)
      BY <1>1, <1>6, <2>1, <2>2
    <2>4. Passed(k, p)
      BY <1>1, <1>5, <2>2, <2>3 DEF Passed
    <2>5. v \in ToSet(Result(k))
      BY <1>1, <1>3, <1>4, <2>1, <2>2, <2>4 DEF Walks, KeysReached
    <2>6. Result(k)' = Result(k)
      BY <1>1, <1>2 DEF Result, Copied
    <2> QED
      BY <2>5, <2>6
  <1>9. VersionsReached'
    <2>1. SUFFICES ASSUME NEW k \in Keys, k = local'.key, NEW v \in Version, Stays(k, v)'
                   PROVE  \E j \in 1 .. Len(HistoryOf("other", k)') :
                             j > local'.i /\ HistoryOf("other", k)'[j] = v
      BY <1>1 DEF VersionsReached
    <2> DEFINE h == HistoryOf("other", k)'
    <2>2. v \in ToSet(h)
      BY <1>4, <2>1
    <2>3. h \in Seq(Version)
      <3>1. Past(HistoryOf("other", k), now)
        BY HistoryIsPast DEF Base, Maps
      <3> QED
        BY <1>2, <3>1 DEF HistoryOf, Past
    <2> HIDE DEF h
    <2>4. \E j \in 1 .. Len(h) : h[j] = v
      BY <2>2, <2>3 DEF ToSet
    <2>5. \E j \in 1 .. Len(h) : j > local'.i /\ h[j] = v
      BY <1>1, <2>4
    <2> QED
      BY <2>5 DEF h
  <1>10. AllReached'
    BY <1>1 DEF AllReached
  <1> QED
    BY <1>4, <1>7, <1>8, <1>9, <1>10 DEF Walks

LEMMA AppendFacts ==
    ASSUME NEW D, NEW s \in Seq(D), NEW v \in D
    PROVE  /\ Append(s, v) \in Seq(D) /\ Len(Append(s, v)) = Len(s) + 1
           /\ \A i \in 1 .. Len(s) : Append(s, v)[i] = s[i]
           /\ Append(s, v)[Len(s) + 1] = v
           /\ ToSet(Append(s, v)) = ToSet(s) \cup {v}
  <1> DEFINE t == Append(s, v)
  <1>1. /\ t \in Seq(D) /\ Len(t) = Len(s) + 1 /\ Len(s) \in Nat
        /\ DOMAIN t = 1 .. Len(s) + 1 /\ DOMAIN s = 1 .. Len(s)
        /\ \A i \in 1 .. Len(s) : t[i] = s[i]
        /\ t[Len(s) + 1] = v
    OBVIOUS
  <1> HIDE DEF t
  <1>2. ToSet(t) = ToSet(s) \cup {v}
    BY <1>1 DEF ToSet
  <1> QED
    BY <1>1, <1>2 DEF t

LEMMA NextVersionKeepsWalks ==
    ASSUME Base, Base', Walks, Observe, NextVersion
    PROVE  Walks'
  <1> DEFINE u == WalkedList[local.i + 1]
  <1>1. /\ pc = "versions" /\ pc' = "versions" /\ Walking /\ Walking'
        /\ local.i \in Nat /\ local.i + 1 \in 1 .. Len(WalkedList)
        /\ u \in Version /\ u.ts <= now
        /\ DOMAIN local' = DOMAIN local /\ local'.op = local.op
        /\ local'.copies = local.copies /\ local'.position = local.position
        /\ local'.list = local.list /\ local'.key = local.key /\ local'.i = local.i + 1
        /\ local'.copy = IF local.op = "merge" THEN local.copy ELSE Append(local.copy, u)
    BY NextVersionFacts DEF Walks
  <1>2. /\ store'.other = store.other
        /\ \A k \in Keys : ToSet(HistoryOf("self", k)) \subseteq ToSet(HistoryOf("self", k)')
        /\ \A k \in Keys : k = local.key /\ local.op = "merge" =>
              u \in ToSet(HistoryOf("self", k)') /\ k \in DOMAIN store'.self
    BY NextVersionKeepsBase DEF Walks
  <1>3. entries' = entries /\ now' = now /\ shifted' = shifted
    BY DEF NextVersion
  <1>4. /\ ObservedOK' /\ (\A k \in Keys : histories[k] \subseteq histories'[k])
        /\ \A k \in Keys : \A v : Stays(k, v)' =>
              v \in ToSet(HistoryOf("other", k)') /\ Stays(k, v)
    BY <1>1, HistoriesGrow
  <1>5. /\ DOMAIN local = {"op", "position", "size", "left", "key", "list", "i", "copy", "copies"}
        /\ local.op \in {"merge", "overwrite", "rollback"}
        /\ local.position \in Nat /\ PastAll(local.copies, now)
        /\ local.key \in Keys /\ Past(local.copy, now)
        /\ IF local.list = None
           THEN local.key \in DOMAIN store.other
           ELSE Past(local.list, now) /\ << >> \in histories[local.key]
    BY <1>1 DEF Walks, WalkOK
  <1>6. /\ Past(Append(local.copy, u), now)
        /\ ToSet(Append(local.copy, u)) = ToSet(local.copy) \cup {u}
    <2>1. local.copy \in Seq(Version) /\ \A i \in 1 .. Len(local.copy) : local.copy[i].ts <= now
      BY <1>5 DEF Past
    <2> DEFINE c == local.copy
               t == Append(c, u)
    <2>2. /\ t \in Seq(Version) /\ Len(t) = Len(c) + 1 /\ \A i \in 1 .. Len(c) : t[i] = c[i]
          /\ t[Len(c) + 1] = u /\ ToSet(t) = ToSet(c) \cup {u} /\ Len(c) \in Nat
      BY <1>1, <2>1, AppendFacts
    <2> HIDE DEF t, u
    <2>3. u.ts <= now /\ \A i \in 1 .. Len(c) : c[i].ts <= now
      BY <1>1, <2>1
    <2>4. \A i \in 1 .. Len(t) : i \in 1 .. Len(c) \/ i = Len(c) + 1
      BY <2>2
    <2>5. \A i \in 1 .. Len(t) : t[i].ts <= now
      <3> HIDE DEF c
      <3> QED
        BY <2>2, <2>3, <2>4
    <2>6. Past(t, now)
      BY <2>2, <2>5 DEF Past
    <2> QED
      BY <2>2, <2>6 DEF t
  <1> HIDE DEF u
  <1>7. WalkOK'
    BY <1>1, <1>2, <1>3, <1>4, <1>5, <1>6 DEF WalkOK
  <1>8. KeysReached'
    <2>1. SUFFICES ASSUME NEW k \in Keys \ shifted', NEW v \in Version,
                          NEW p \in 1 .. Len(entries'), Stays(k, v)', entries'[p] = k, Passed(k, p)'
                   PROVE  v \in ToSet(Result(k)')
      BY DEF KeysReached
    <2>2. Passed(k, p) /\ entries[p] = k /\ p \in 1 .. Len(entries)
      BY <1>1, <1>3, <2>1 DEF Passed
    <2>3. v \in ToSet(Result(k))
      BY <1>1, <1>3, <1>4, <2>1, <2>2 DEF Walks, KeysReached
    <2>4. ToSet(Result(k)) \subseteq ToSet(Result(k)')
      BY <1>1, <1>2 DEF Result, Copied
    <2> QED
      BY <2>3, <2>4
  <1>9. VersionsReached'
    <2>1. SUFFICES ASSUME NEW k \in Keys, k = local.key, local.list = None, k \notin shifted,
                          NEW v \in Version, Stays(k, v)'
                   PROVE  \/ v \in ToSet(Partial')
                          \/ \E j \in 1 .. Len(HistoryOf("other", k)') :
                                j > local.i + 1 /\ HistoryOf("other", k)'[j] = v
      BY <1>1, <1>3, <1>5 DEF VersionsReached
    <2>2. \/ v \in ToSet(Partial)
          \/ \E j \in 1 .. Len(HistoryOf("other", k)) : j > local.i /\ HistoryOf("other", k)[j] = v
      BY <1>1, <1>4, <2>1 DEF Walks, VersionsReached
    <2>3. ToSet(Partial) \cup {u} \subseteq ToSet(Partial')
      <3>1. CASE local.op = "merge"
        <4>1. Partial = HistoryOf("self", k) /\ Partial' = HistoryOf("self", k)'
          BY <1>1, <2>1, <3>1 DEF Partial
        <4> QED
          BY <1>2, <2>1, <3>1, <4>1
      <3>2. CASE local.op # "merge"
        <4>1. Partial = local.copy /\ Partial' = Append(local.copy, u)
          BY <1>1, <3>2 DEF Partial
        <4> QED
          BY <1>6, <4>1
      <3> QED
        BY <3>1, <3>2
    <2>4. HistoryOf("other", k)' = HistoryOf("other", k)
      BY <1>2 DEF HistoryOf
    <2>5. u = HistoryOf("other", k)[local.i + 1]
      BY <2>1 DEF u, WalkedList
    <2>6. ASSUME NEW j \in 1 .. Len(HistoryOf("other", k)), j > local.i, HistoryOf("other", k)[j] = v,
                 v # u
          PROVE  j > local.i + 1
      BY <1>1, <2>5, <2>6
    <2> QED
      BY <2>2, <2>3, <2>4, <2>6
  <1>10. AllReached'
    BY <1>1 DEF AllReached
  <1> QED
    BY <1>4, <1>7, <1>8, <1>9, <1>10 DEF Walks

LEMMA EndOfListKeepsWalks ==
    ASSUME Base, Base', Walks, Observe, EndOfList
    PROVE  Walks'
  <1>1. /\ pc = "versions" /\ pc' = "walk" /\ Walking /\ Walking' /\ local.key \in Keys
        /\ DOMAIN local' = DOMAIN local /\ local'.op = local.op
        /\ local'.position = local.position
        /\ local'.copies = IF local.op = "rollback"
                           THEN Updated(local.copies, Single(local.key, local.copy))
                           ELSE local.copies
        /\ local.i \in Nat /\ local.i >= Len(WalkedList)
        /\ PastAll(local'.copies, now)
    BY EndOfListFacts DEF Walks
  <1>2. /\ store'.other = store.other
        /\ \A k \in Keys : k # local.key \/ local.op # "overwrite" =>
              HistoryOf("self", k)' = HistoryOf("self", k)
        /\ \A k \in Keys : k = local.key /\ local.op = "overwrite" =>
              HistoryOf("self", k)' = local.copy
    BY EndOfListKeepsBase DEF Walks
  <1>3. entries' = entries /\ now' = now /\ shifted' = shifted
    BY DEF EndOfList
  <1>4. ObservedOK' /\ \A k \in Keys : \A v : Stays(k, v)' => Stays(k, v)
    BY <1>1, HistoriesGrow
  <1>5. /\ DOMAIN local = {"op", "position", "size", "left", "key", "list", "i", "copy", "copies"}
        /\ local.op \in {"merge", "overwrite", "rollback"}
        /\ local.position \in Nat
        /\ local.list # None => << >> \in histories[local.key]
    BY <1>1 DEF Walks, WalkOK
  <1>7. WalkOK'
    BY <1>1, <1>3, <1>5 DEF WalkOK
  <1>8. ASSUME NEW k \in Keys, k = local.key, k \notin shifted, NEW v \in Version, Stays(k, v)
        PROVE  v \in ToSet(Partial)
    <2>1. local.list = None
      BY <1>5, <1>8, NotMissing
    <2>2. \/ v \in ToSet(Partial)
          \/ \E j \in 1 .. Len(HistoryOf("other", k)) : j > local.i /\ HistoryOf("other", k)[j] = v
      BY <1>1, <1>8, <2>1 DEF Walks, VersionsReached
    <2>3. WalkedList = HistoryOf("other", k)
      BY <1>8, <2>1 DEF WalkedList
    <2>4. Len(HistoryOf("other", k)) \in Nat
      BY HistoryIsPast DEF Base, Maps, Past
    <2> QED
      BY <1>1, <2>2, <2>3, <2>4
  <1>9. ASSUME NEW k \in Keys, k = local.key PROVE Result(k)' = Partial
    <2>1. CASE local.op = "rollback"
      <3>1. k \in DOMAIN local'.copies /\ local'.copies[k] = local.copy
        BY <1>1, <1>9, <2>1 DEF Updated, Single
      <3> QED
        BY <1>1, <2>1, <3>1 DEF Result, Copied, Partial
    <2>2. CASE local.op = "overwrite"
      BY <1>1, <1>2, <1>9, <2>2 DEF Result, Partial
    <2>3. CASE local.op = "merge"
      BY <1>1, <1>2, <1>9, <2>3 DEF Result, Partial
    <2> QED
      BY <1>5, <2>1, <2>2, <2>3
  <1>10. ASSUME NEW k \in Keys, k # local.key PROVE Result(k)' = Result(k)
    <2>1. CASE local.op = "rollback"
      <3>1. /\ k \in DOMAIN local'.copies <=> k \in DOMAIN local.copies
            /\ k \in DOMAIN local.copies => local'.copies[k] = local.copies[k]
        BY <1>1, <1>10, <2>1 DEF Updated, Single
      <3> QED
        BY <1>1, <2>1, <3>1 DEF Result, Copied
    <2>2. CASE local.op # "rollback"
      BY <1>1, <1>2, <1>10, <2>2 DEF Result
    <2> QED
      BY <2>1, <2>2
  <1>11. KeysReached'
    <2>1. SUFFICES ASSUME NEW k \in Keys \ shifted', NEW v \in Version,
                          NEW p \in 1 .. Len(entries'), Stays(k, v)', entries'[p] = k, Passed(k, p)'
                   PROVE  v \in ToSet(Result(k)')
      BY DEF KeysReached
    <2>2. Stays(k, v) /\ k \notin shifted
      BY <1>3, <1>4, <2>1
    <2>3. CASE k = local.key
      BY <1>8, <1>9, <2>2, <2>3
    <2>4. CASE k # local.key
      <3>1. entries[p] = k /\ p \in 1 .. Len(entries) /\ Passed(k, p)
        BY <1>1, <1>3, <2>1, <2>4 DEF Passed
      <3>4. v \in ToSet(Result(k))
        BY <1>1, <2>2, <3>1 DEF Walks, KeysReached
      <3> QED
        BY <1>10, <2>4, <3>4
    <2> QED
      BY <2>3, <2>4
  <1>12. VersionsReached' /\ AllReached'
    BY <1>1 DEF VersionsReached, AllReached
  <1> QED
    BY <1>4, <1>7, <1>11, <1>12 DEF Walks

LEMMA EndOfWalkKeepsWalks ==
    ASSUME Base, Base', Walks, Observe, EndOfWalk
    PROVE  Walks'
  <1>1. /\ store'.other = store.other /\ local' = local /\ pc = "walk" /\ pc' = "walked"
        /\ store'.self = IF local.op = "rollback" THEN local.copies ELSE store.self
    BY EndOfWalkKeepsBase DEF Walks
  <1>2. entries' = entries /\ now' = now /\ shifted' = shifted /\ Ahead = {}
    BY DEF EndOfWalk
  <1>3. Walking /\ Walking'
    BY <1>1 DEF Walking
  <1>4. ObservedOK' /\ \A k \in Keys : \A v : Stays(k, v)' =>
            v \in ToSet(HistoryOf("other", k)') /\ Stays(k, v)
    BY <1>3, HistoriesGrow
  <1>5. WalkOK'
    BY <1>1, <1>2, <1>3 DEF Walks, WalkOK
  <1>6. KeysReached' /\ VersionsReached'
    BY <1>1 DEF KeysReached, VersionsReached
  <1>7. AllReached'
    <2>1. SUFFICES ASSUME NEW k \in Keys \ shifted', NEW v \in Version, Stays(k, v)'
                   PROVE  v \in ToSet(HistoryOf("self", k)')
      BY DEF AllReached
    <2>2. v \in ToSet(HistoryOf("other", k)) /\ Stays(k, v) /\ k \notin shifted
      BY <1>1, <1>2, <1>4, <2>1 DEF HistoryOf
    <2>3. k \in DOMAIN store.other
      BY <2>2, EmptyPast DEF HistoryOf
    <2>4. PICK p \in 1 .. Len(entries) : entries[p] = k
      BY <2>3 DEF Base, LayoutOK
    <2>5. Passed(k, p)
      <3>1. DOMAIN entries = 1 .. Len(entries) /\ None \notin Keys
        BY TwoMapsAssumption DEF Base, LayoutOK
      <3>2. ~(p > local.position)
        BY <1>2, <2>4, <3>1 DEF Ahead
      <3>3. local.position \in Int /\ p \in Int
        BY <1>3 DEF Walks, WalkOK
      <3> QED
        BY <1>1, <3>2, <3>3 DEF Passed
    <2>6. v \in ToSet(Result(k))
      BY <1>1, <2>2, <2>4, <2>5 DEF Walks, KeysReached
    <2>7. Result(k) = HistoryOf("self", k)'
      BY <1>1 DEF Result, Copied, HistoryOf
    <2> QED
      BY <2>6, <2>7
  <1> QED
    BY <1>4, <1>5, <1>6, <1>7 DEF Walks

LEMMA TakeTtlKeepsWalks ==
    ASSUME Base, Base', Walks, Observe, TakeTtl
    PROVE  Walks'
  <1>1. store' = store /\ local' = local /\ pc = "walked" /\ pc' = "returned"
    BY TakeTtlKeepsBase DEF Walks
  <1>2. entries' = entries /\ now' = now /\ shifted' = shifted
    BY DEF TakeTtl
  <1>3. Walking /\ Walking'
    BY <1>1 DEF Walking
  <1>4. ObservedOK' /\ \A k \in Keys : \A v : Stays(k, v)' => Stays(k, v)
    BY <1>3, HistoriesGrow
  <1>5. WalkOK'
    BY <1>1, <1>2, <1>3 DEF Walks, WalkOK
  <1>6. KeysReached' /\ VersionsReached'
    BY <1>1 DEF KeysReached, VersionsReached
  <1>7. AllReached'
    <2>1. SUFFICES ASSUME NEW k \in Keys \ shifted', NEW v \in Version, Stays(k, v)'
                   PROVE  v \in ToSet(HistoryOf("self", k)')
      BY DEF AllReached
    <2>2. v \in ToSet(HistoryOf("self", k))
      BY <1>1, <1>2, <1>4, <2>1 DEF Walks, AllReached
    <2> QED
      BY <1>1, <2>2 DEF HistoryOf
  <1> QED
    BY <1>4, <1>5, <1>6, <1>7 DEF Walks

LEMMA WalksKept ==
    ASSUME Base, Base', Walks, Next
    PROVE  Walks'
  <1>1. Observe /\ (Tick \/ Call \/ \E w \in Writers : Write(w))
    BY DEF Next
  <1>2. CASE ~Walking'
    BY <1>2 DEF Walks, WalkOK, ObservedOK, KeysReached, VersionsReached, AllReached, Walking
  <1>3. CASE Walking' /\ Tick
    <2>1. /\ now' = now + 1 /\ pc' = pc /\ local' = local /\ store' = store /\ entries' = entries
          /\ shifted' = shifted
      BY <1>3 DEF Tick, maps
    <2>2. Walking /\ now <= now'
      BY <1>3, <2>1, NowIsInt DEF Walking, Base
    <2> QED
      BY <1>1, <2>1, <2>2, SameHistories, NothingMoves
  <1>4. CASE Walking' /\ \E w \in Writers : Write(w)
    <2>1. PICK w \in Writers : Write(w)
      BY <1>4
    <2>2. Walking
      BY <1>4, <2>1, WriteFacts DEF Walking, Walks
    <2> QED
      BY <1>1, <2>1, <2>2, WriteKeepsWalks
  <1>5. CASE Walking' /\ Call
    <2>1. \/ \E op \in {"merge", "overwrite", "rollback"} : Walk(op)
          \/ NextKey \/ NextVersion \/ EndOfList \/ EndOfWalk \/ TakeTtl
      BY <1>5 DEF Call, Diff, Compare, CheckSelf, CheckOther, AgainSelf, AgainOther, GetSelf, GetOther,
                  NextInDiff, DiffReturns, WalkRaises, WalkReturns, Go, GoWith, Walking
    <2> QED
      BY <1>1, <2>1, WalkStarts, NextKeyKeepsWalks, NextVersionKeepsWalks, EndOfListKeepsWalks,
         EndOfWalkKeepsWalks, TakeTtlKeepsWalks
  <1> QED
    BY <1>1, <1>2, <1>3, <1>4, <1>5

-----------------------------------------------------------------------------

(***************************************************************************)
(* The invariant.                                                          *)
(***************************************************************************)
LEMMA BaseKept ==
    ASSUME Base, WalkOK, Next
    PROVE  Base'
  <1>1. Tick \/ Call \/ \E w \in Writers : Write(w)
    BY DEF Next
  <1>2. CASE Tick
    BY <1>2, TickKeepsBase
  <1>3. CASE \E w \in Writers : Write(w)
    BY <1>3, WriteFacts
  <1>4. CASE Call
    <2>1. CASE Diff \/ Compare \/ DiffReturns
      BY <2>1, DiffKeepsBase
    <2>2. CASE \E op \in {"merge", "overwrite", "rollback"} : Walk(op)
      BY <2>2, WalkKeepsBase
    <2>3. CASE NextKey \/ NextVersion \/ EndOfList
      BY <2>3, NextKeyKeepsBase, NextVersionKeepsBase, EndOfListKeepsBase
    <2>4. CASE EndOfWalk \/ TakeTtl \/ WalkRaises \/ WalkReturns
      BY <2>4, EndOfWalkKeepsBase, TakeTtlKeepsBase, WalkEndsKeepsBase
    <2> QED
      BY <1>4, <2>1, <2>2, <2>3, <2>4 DEF Call
  <1> QED
    BY <1>1, <1>2, <1>3, <1>4

LEMMA InvHolds == Spec => []Inv
  <1>1. Init => Inv
    <2>1. SUFFICES ASSUME Init PROVE Inv
      OBVIOUS
    <2>2. /\ store = [m \in Maps |-> EmptyDict] /\ ttl = [m \in Maps |-> EmptyDict]
          /\ entries = << >> /\ now = 0 /\ pc = "idle" /\ put = [w \in Writers |-> None]
          /\ held = [t \in Threads |-> << >>] /\ heldOther = [t \in Threads |-> << >>]
      BY <2>1 DEF Init, Own!Init, Their!Init
    <2>3. StoresOK /\ LayoutOK /\ ListsOK /\ OrderOK
      BY <2>2, TwoMapsAssumption DEF StoresOK, LayoutOK, ListsOK, OrderOK, EmptyDict, PastAll, Lives,
                                     Sorted, Maps
    <2>4. ~Diffing /\ ~Walking /\ \A w \in Writers : \A m : ~Busy(w, m)
      BY <2>2 DEF Diffing, Walking, Busy
    <2>5. LocksOK
      BY <2>2, <2>4, ThreadFacts DEF LocksOK, Stacks
    <2>6. Walks /\ Diffs
      BY <2>2, <2>4 DEF Walks, WalkOK, ObservedOK, KeysReached, VersionsReached, AllReached,
                        Diffs, DiffOK, SteadyOK
    <2> QED
      BY <2>3, <2>5, <2>6 DEF Inv, Base
  <1>2. Inv /\ [Next]_vars => Inv'
    <2>1. ASSUME Inv, Next PROVE Inv'
      <3>1. Base'
        BY <2>1, BaseKept DEF Inv, Walks
      <3>2. Walks'
        BY <2>1, <3>1, WalksKept DEF Inv
      <3>3. Diffs'
        BY <2>1, <3>1, DiffsKept DEF Inv, Walks
      <3> QED
        BY <3>1, <3>2, <3>3 DEF Inv
    <2>2. ASSUME Inv, UNCHANGED vars PROVE Inv'
      <3>1. /\ store' = store /\ ttl' = ttl /\ entries' = entries /\ now' = now /\ held' = held
            /\ heldOther' = heldOther /\ put' = put /\ pc' = pc /\ local' = local
            /\ verdicts' = verdicts /\ histories' = histories /\ unsteady' = unsteady
            /\ shifted' = shifted
        BY <2>2 DEF vars, maps, seen
      <3>2. StoresOK' /\ LayoutOK' /\ LocksOK' /\ ListsOK' /\ OrderOK'
        BY <2>2, <3>1 DEF Inv, Base, StoresOK, LayoutOK, LocksOK, ListsOK, OrderOK, Diffing, Walking,
                          Busy
      <3>3. WalkOK' /\ ObservedOK'
        BY <2>2, <3>1 DEF Inv, Walks, WalkOK, ObservedOK, Walking, HistoryOf
      <3>4. KeysReached'
        BY <2>2, <3>1 DEF Inv, Walks, KeysReached, Stays, Passed, Result, Copied, HistoryOf
      <3>5. VersionsReached'
        BY <2>2, <3>1 DEF Inv, Walks, VersionsReached, Stays, Partial, HistoryOf
      <3>6. AllReached'
        BY <2>2, <3>1 DEF Inv, Walks, AllReached, Stays, HistoryOf
      <3>7. \A k, at : Difference(k, at)' = Difference(k, at)
        BY <3>1 DEF Difference, AsOf, HistoryOf, Expired
      <3>8. DiffOK'
        BY <2>2, <3>1, <3>7 DEF Inv, Diffs, DiffOK, Diffing
      <3>9. SteadyOK'
        BY <2>2, <3>1 DEF Inv, Diffs, SteadyOK, Diffing, Expired, AsOf, HistoryOf, Judged
      <3> QED
        BY <3>2, <3>3, <3>4, <3>5, <3>6, <3>8, <3>9 DEF Inv, Base, Walks, Diffs
    <2> QED
      BY <2>1, <2>2
  <1> QED
    BY <1>1, <1>2, PTL DEF Spec

(***************************************************************************)
(* merge(strategy="timestamp") keeps both maps in the order in which they  *)
(* can be searched, at every step, whatever others write to the map that   *)
(* it walks through.                                                       *)
(***************************************************************************)
THEOREM MergesKeepOrder == Spec => []MergeKeepsOrder
  <1>1. Inv => MergeKeepsOrder
    <2>1. SUFFICES ASSUME Inv, Walking, local.op = "merge", NEW m \in Maps
                   PROVE  Sorted(store[m])
      BY DEF MergeKeepsOrder, InOrder, Searchable, Sorted
    <2> QED
      BY <2>1 DEF Inv, Base, OrderOK, Maps
  <1> QED
    BY <1>1, InvHolds, PTL

(***************************************************************************)
(* diff() tells a key that was different, or differed in whether it had    *)
(* expired, at some moment of the call, and passes over one that was the   *)
(* same; unless self's key expired, or a put() brought back one of other's *)
(* that had, in the meantime.                                              *)
(***************************************************************************)
THEOREM DiffsAreTrue == Spec => []SteadyDiffIsTrue
  <1>1. Inv => SteadyDiffIsTrue
    BY DEF Inv, Diffs, SteadyOK, SteadyDiffIsTrue, Judged, Diffing
  <1> QED
    BY <1>1, InvHolds, PTL

(***************************************************************************)
(* A walk that comes to its end has every version that other had all the   *)
(* while, of every key whose history was not shortened and that the dict,  *)
(* when it closed its gaps, did not move to where the walk had been.       *)
(***************************************************************************)
THEOREM WalksAreComplete == Spec => []WalkMissesNothing
  <1>1. Inv => WalkMissesNothing
    <2>1. SUFFICES ASSUME Inv, pc = "returned", NEW k \in Keys \ shifted,
                          NEW v \in ToSet(HistoryOf("other", k)), \A h \in histories[k] : v \in ToSet(h)
                   PROVE  v \in ToSet(HistoryOf("self", k))
      BY DEF WalkMissesNothing
    <2>2. Past(HistoryOf("other", k), now)
      BY <2>1, HistoryIsPast DEF Inv, Base, Maps
    <2>3. v \in Version
      BY <2>1, <2>2 DEF Past, ToSet
    <2>4. Stays(k, v)
      BY <2>1 DEF Stays
    <2> QED
      BY <2>1, <2>3, <2>4 DEF Inv, Walks, AllReached
  <1> QED
    BY <1>1, InvHolds, PTL

=============================================================================
