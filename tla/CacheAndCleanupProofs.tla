----------------------- MODULE CacheAndCleanupProofs -----------------------
(***************************************************************************)
(* The two helpers that a ChronoMap makes for itself: the read cache, for  *)
(* any keys, moments, values and capacity, and the thread that sweeps, for *)
(* any number of threads that start() makes one after the other.           *)
(***************************************************************************)
EXTENDS LRUCache, TTLCleanup, FiniteSetTheorems, WellFoundedInduction, SequenceTheorems, TLAPS

(***************************************************************************)
(* Every nonempty set of naturals has a least one.                         *)
(***************************************************************************)
LEMMA LeastNatural ==
    ASSUME NEW T, T \subseteq Nat, T # {}
    PROVE  \E n \in T : \A m \in T : n <= m
  <1>1. PICK n \in T : \A m \in T : ~(<<m, n>> \in OpToRel(<, Nat))
    BY NatLessThanWellFounded, WFMin, Zenon
  <1>2. \A m \in T : ~(m < n)
    BY <1>1 DEF OpToRel
  <1> QED
    BY <1>2

-----------------------------------------------------------------------------

(***************************************************************************)
(* What Sift computes: g is made of entries of s that are in S, all of     *)
(* them, and in the order they have in s, of which it has seen the first n.*)
(***************************************************************************)
Sifted(g, s, n, S) ==
    /\ Len(g) <= n
    /\ (\E i \in 1 .. n : s[i] \notin S) => Len(g) < n
    /\ \A i \in 1 .. n : s[i] \in S => \E j \in 1 .. Len(g) : g[j] = s[i]
    /\ \A j \in 1 .. Len(g) : \E i \in 1 .. n : g[j] = s[i] /\ s[i] \in S
    /\ \A j, k \in 1 .. Len(g) : j < k =>
          \E a, b \in 1 .. n : a < b /\ g[j] = s[a] /\ g[k] = s[b]

LEMMA SiftStep ==
    ASSUME NEW D, NEW s \in Seq(D), NEW S, NEW n \in 1 .. Len(s),
           NEW g \in Seq(D), Sifted(g, s, n - 1, S)
    PROVE  /\ s[n] \in S => Sifted(Append(g, s[n]), s, n, S)
           /\ s[n] \notin S => Sifted(g, s, n, S)
  <1>1. n \in Nat /\ Len(g) \in Nat /\ s[n] \in D
    OBVIOUS
  <1>2. ASSUME s[n] \notin S PROVE Sifted(g, s, n, S)
    <2>1. \A i \in 1 .. n : i \in 1 .. n - 1 \/ i = n
      BY <1>1
    <2>2. \A i \in 1 .. n - 1 : i \in 1 .. n
      BY <1>1
    <2> QED
      BY <1>1, <1>2, <2>1, <2>2 DEF Sifted
  <1>3. ASSUME s[n] \in S PROVE Sifted(Append(g, s[n]), s, n, S)
    <2> DEFINE f == Append(g, s[n])
    <2>1. /\ Len(f) = Len(g) + 1 /\ f[Len(g) + 1] = s[n]
          /\ \A j \in 1 .. Len(g) : f[j] = g[j]
      BY <1>1
    <2> HIDE DEF f
    <2>2. /\ \A i \in 1 .. n : i \in 1 .. n - 1 \/ i = n
          /\ \A i \in 1 .. n - 1 : i \in 1 .. n /\ i < n
      BY <1>1
    <2>3. /\ \A j \in 1 .. Len(f) : j \in 1 .. Len(g) \/ j = Len(g) + 1
          /\ \A j \in 1 .. Len(g) : j \in 1 .. Len(f)
          /\ Len(g) + 1 \in 1 .. Len(f)
      BY <1>1, <2>1
    <2>4. /\ Len(f) <= n
          /\ (\E i \in 1 .. n : s[i] \notin S) => Len(f) < n
      BY <1>1, <1>3, <2>1, <2>2 DEF Sifted
    <2>5. \A i \in 1 .. n : s[i] \in S => \E j \in 1 .. Len(f) : f[j] = s[i]
      <3> SUFFICES ASSUME NEW i \in 1 .. n, s[i] \in S
                   PROVE  \E j \in 1 .. Len(f) : f[j] = s[i]
        OBVIOUS
      <3>1. CASE i = n
        BY <2>1, <2>3, <3>1
      <3>2. CASE i # n
        <4>1. PICK j \in 1 .. Len(g) : g[j] = s[i]
          BY <2>2, <3>2 DEF Sifted
        <4> QED
          BY <2>1, <2>3, <4>1
      <3> QED
        BY <3>1, <3>2
    <2>6. \A j \in 1 .. Len(f) : \E i \in 1 .. n : f[j] = s[i] /\ s[i] \in S
      <3> SUFFICES ASSUME NEW j \in 1 .. Len(f)
                   PROVE  \E i \in 1 .. n : f[j] = s[i] /\ s[i] \in S
        OBVIOUS
      <3>1. CASE j = Len(g) + 1
        BY <1>3, <2>1, <3>1
      <3>2. CASE j \in 1 .. Len(g)
        <4>1. PICK i \in 1 .. n - 1 : g[j] = s[i] /\ s[i] \in S
          BY <3>2 DEF Sifted
        <4> QED
          BY <2>1, <2>2, <3>2, <4>1
      <3> QED
        BY <2>3, <3>1, <3>2
    <2>7. \A j, k \in 1 .. Len(f) : j < k =>
             \E a, b \in 1 .. n : a < b /\ f[j] = s[a] /\ f[k] = s[b]
      <3> SUFFICES ASSUME NEW j \in 1 .. Len(f), NEW k \in 1 .. Len(f), j < k
                   PROVE  \E a, b \in 1 .. n : a < b /\ f[j] = s[a] /\ f[k] = s[b]
        OBVIOUS
      <3>1. j \in 1 .. Len(g)
        BY <1>1, <2>1
      <3>2. CASE k = Len(g) + 1
        <4>1. PICK a \in 1 .. n - 1 : g[j] = s[a]
          BY <3>1 DEF Sifted
        <4>2. a \in 1 .. n /\ a < n /\ f[j] = s[a] /\ f[k] = s[n]
          BY <2>1, <2>2, <3>1, <3>2, <4>1
        <4> QED
          BY <4>2
      <3>3. CASE k \in 1 .. Len(g)
        <4>1. PICK a \in 1 .. n - 1, b \in 1 .. n - 1 : a < b /\ g[j] = s[a] /\ g[k] = s[b]
          BY <3>1, <3>3 DEF Sifted
        <4>2. f[j] = s[a] /\ f[k] = s[b] /\ a \in 1 .. n /\ b \in 1 .. n
          BY <2>1, <2>2, <3>1, <3>3, <4>1
        <4> QED
          BY <4>1, <4>2
      <3> QED
        BY <2>3, <3>2, <3>3
    <2>8. Sifted(f, s, n, S)
      BY <2>4, <2>5, <2>6, <2>7 DEF Sifted
    <2> QED
      BY <2>8 DEF f
  <1> QED
    BY <1>2, <1>3

LEMMA SiftFinds ==
    ASSUME NEW D, NEW s \in Seq(D), NEW S
    PROVE  Sift(s, S) \in Seq(D) /\ Sifted(Sift(s, S), s, Len(s), S)
  <1> DEFINE m == Len(s)
             Grown(g, n) == IF s[n] \in S THEN Append(g, s[n]) ELSE g
             IsRun(f, l) == f = [n \in 0 .. l |-> IF n = 0 THEN << >> ELSE Grown(f[n - 1], n)]
             Unreached == {l \in 0 .. m : ~\E f : IsRun(f, l)}
             kept[n \in 0 .. m] ==
                IF n = 0 THEN << >>
                ELSE IF s[n] \in S THEN Append(kept[n - 1], s[n]) ELSE kept[n - 1]
  <1>1. m \in Nat
    OBVIOUS
  <1> HIDE DEF m
  <1>2. Unreached = {}
    <2> SUFFICES ASSUME Unreached # {} PROVE FALSE
      OBVIOUS
    <2>1. PICK l \in Unreached : \A k \in Unreached : l <= k
      <3>1. Unreached \subseteq Nat
        BY <1>1
      <3> HIDE DEF Unreached
      <3> QED
        BY <3>1, LeastNatural
    <2>2. l \in 0 .. m /\ ~\E f : IsRun(f, l)
      BY <2>1
    <2>3. CASE l = 0
      <3> DEFINE g == [n \in 0 .. l |-> << >>]
      <3>1. IsRun(g, l)
        BY <2>3
      <3> QED
        BY <2>2, <3>1
    <2>4. CASE l # 0
      <3>1. l - 1 \in 0 .. m /\ l - 1 \notin Unreached
        <4>1. l - 1 \in 0 .. m /\ ~(l <= l - 1)
          BY <1>1, <2>2, <2>4
        <4> HIDE DEF Unreached
        <4> QED
          BY <2>1, <4>1
      <3>2. PICK f : IsRun(f, l - 1)
        BY <3>1
      <3> HIDE DEF Grown
      <3> DEFINE g == [n \in 0 .. l |-> IF n < l THEN f[n] ELSE Grown(f[l - 1], l)]
      <3>3. \A n \in 0 .. l : g[n] = IF n = 0 THEN << >> ELSE Grown(g[n - 1], n)
        <4> SUFFICES ASSUME NEW n \in 0 .. l
                     PROVE  g[n] = IF n = 0 THEN << >> ELSE Grown(g[n - 1], n)
          OBVIOUS
        <4>1. \A j \in 0 .. l - 1 : f[j] = IF j = 0 THEN << >> ELSE Grown(f[j - 1], j)
          <5> HIDE DEF g
          <5> QED
            BY <3>2
        <4>2. CASE n = 0
          BY <2>2, <2>4, <4>1, <4>2
        <4>3. CASE n # 0 /\ n < l
          <5>1. n \in 0 .. l - 1 /\ n - 1 \in 0 .. l /\ n - 1 < l
            BY <2>2, <4>3
          <5>2. g[n] = f[n] /\ g[n - 1] = f[n - 1]
            BY <4>3, <5>1
          <5>3. f[n] = Grown(f[n - 1], n)
            BY <4>1, <4>3, <5>1
          <5> HIDE DEF g
          <5> QED
            BY <4>3, <5>2, <5>3
        <4>4. CASE n = l
          <5>1. n - 1 \in 0 .. l /\ n - 1 < l
            BY <2>2, <2>4, <4>4
          <5>2. g[n] = Grown(f[l - 1], l) /\ g[n - 1] = f[l - 1]
            BY <4>4, <5>1
          <5> HIDE DEF g
          <5> QED
            BY <2>4, <4>4, <5>2
        <4> QED
          BY <2>2, <4>2, <4>3, <4>4
      <3>4. g = [n \in 0 .. l |-> g[n]]
        OBVIOUS
      <3> HIDE DEF g
      <3>5. IsRun(g, l)
        BY <3>3, <3>4
      <3> QED
        BY <2>2, <3>5
    <2> QED
      BY <2>3, <2>4
  <1>3. \E f : IsRun(f, m)
    <2>1. m \in 0 .. m
      BY <1>1
    <2> QED
      BY <1>2, <2>1
  <1>4. kept = CHOOSE f : IsRun(f, m)
    OBVIOUS
  <1>5. Sift(s, S) = kept[m]
    BY DEF Sift, m
  <1> HIDE DEF kept
  <1>6. IsRun(kept, m)
    <2> HIDE DEF IsRun
    <2> QED
      BY <1>3, <1>4
  <1>7. \A n \in 0 .. m : kept[n] = IF n = 0 THEN << >> ELSE Grown(kept[n - 1], n)
    <2> HIDE DEF Grown
    <2> QED
      BY <1>6
  <1> HIDE DEF IsRun
  <1> DEFINE Bad == {n \in 0 .. m : ~(kept[n] \in Seq(D) /\ Sifted(kept[n], s, n, S))}
  <1>8. Bad = {}
    <2> SUFFICES ASSUME Bad # {} PROVE FALSE
      OBVIOUS
    <2>1. PICK n \in Bad : \A k \in Bad : n <= k
      <3>1. Bad \subseteq Nat
        BY <1>1
      <3> HIDE DEF Bad
      <3> QED
        BY <3>1, LeastNatural
    <2>2. n \in 0 .. m /\ ~(kept[n] \in Seq(D) /\ Sifted(kept[n], s, n, S))
      BY <2>1
    <2>3. CASE n = 0
      <3>1. kept[n] = << >>
        BY <1>7, <2>2, <2>3
      <3>2. << >> \in Seq(D) /\ Sifted(<< >>, s, 0, S)
        BY DEF Sifted
      <3> QED
        BY <2>2, <2>3, <3>1, <3>2
    <2>4. CASE n # 0
      <3>1. n - 1 \in 0 .. m /\ n \in 1 .. m /\ ~(n <= n - 1)
        BY <1>1, <2>2, <2>4
      <3>2. kept[n - 1] \in Seq(D) /\ Sifted(kept[n - 1], s, n - 1, S)
        BY <2>1, <3>1
      <3>3. n \in 1 .. Len(s) /\ s[n] \in D
        BY <3>1 DEF m
      <3>4. kept[n] = Grown(kept[n - 1], n)
        BY <1>7, <2>2, <2>4
      <3>5. CASE s[n] \in S
        BY <2>2, <3>2, <3>3, <3>4, <3>5, SiftStep
      <3>6. CASE s[n] \notin S
        BY <2>2, <3>2, <3>3, <3>4, <3>6, SiftStep
      <3> QED
        BY <3>5, <3>6
    <2> QED
      BY <2>3, <2>4
  <1>9. m \in 0 .. m
    BY <1>1
  <1> QED
    BY <1>5, <1>8, <1>9 DEF m

-----------------------------------------------------------------------------

(***************************************************************************)
(* The inductive invariant of the cache: its entries are in the order of   *)
(* their last use, which r tells, and no two are for one (key, moment).    *)
(***************************************************************************)
Ranked(s, r) ==
    \A i, j \in 1 .. Len(s) : i < j => /\ Id(s[i]) # Id(s[j])
                                      /\ Id(s[j]) \in r[Id(s[i])]

CacheInv ==
    /\ cache \in Seq(Entry) /\ Len(cache) <= Capacity
    /\ since \in [Ids -> SUBSET Ids]
    /\ Ranked(cache, since)

LEMMA IdOfEntry == \A e \in Entry : Id(e) \in Ids
  BY DEF Entry, Ids, Id

LEMMA SiftRanked ==
    ASSUME NEW s \in Seq(Entry), NEW S, NEW r, Ranked(s, r)
    PROVE  /\ Sift(s, S) \in Seq(Entry) /\ Len(Sift(s, S)) <= Len(s)
           /\ Ranked(Sift(s, S), r)
  <1> DEFINE g == Sift(s, S)
  <1>1. g \in Seq(Entry) /\ Sifted(g, s, Len(s), S)
    BY SiftFinds
  <1> HIDE DEF g
  <1>2. Len(g) <= Len(s)
    BY <1>1 DEF Sifted
  <1>3. Ranked(g, r)
    <2> SUFFICES ASSUME NEW i \in 1 .. Len(g), NEW j \in 1 .. Len(g), i < j
                 PROVE  Id(g[i]) # Id(g[j]) /\ Id(g[j]) \in r[Id(g[i])]
      BY DEF Ranked
    <2>1. PICK a \in 1 .. Len(s), b \in 1 .. Len(s) : a < b /\ g[i] = s[a] /\ g[j] = s[b]
      BY <1>1 DEF Sifted
    <2> QED
      BY <2>1 DEF Ranked
  <1> QED
    BY <1>1, <1>2, <1>3 DEF g

LEMMA AppendRanked ==
    ASSUME NEW g \in Seq(Entry), Ranked(g, since), since \in [Ids -> SUBSET Ids],
           NEW e \in Entry, \A j \in 1 .. Len(g) : Id(g[j]) # Id(e), Use(Id(e))
    PROVE  Ranked(Append(g, e), since')
  <1> DEFINE f == Append(g, e)
  <1>1. /\ Len(f) = Len(g) + 1 /\ f[Len(g) + 1] = e
        /\ \A j \in 1 .. Len(g) : f[j] = g[j]
    OBVIOUS
  <1>2. Len(g) \in Nat /\ \A j \in 1 .. Len(g) : g[j] \in Entry /\ Id(g[j]) \in Ids
    BY IdOfEntry
  <1> HIDE DEF f
  <1>3. \A j \in 1 .. Len(g) : since'[Id(g[j])] = since[Id(g[j])] \cup {Id(e)}
    BY <1>2 DEF Use
  <1>4. Ranked(f, since')
    <2> SUFFICES ASSUME NEW i \in 1 .. Len(f), NEW j \in 1 .. Len(f), i < j
                 PROVE  Id(f[i]) # Id(f[j]) /\ Id(f[j]) \in since'[Id(f[i])]
      BY DEF Ranked
    <2>1. i \in 1 .. Len(g) /\ f[i] = g[i]
      BY <1>1, <1>2
    <2>2. CASE j \in 1 .. Len(g)
      BY <1>1, <1>3, <2>1, <2>2 DEF Ranked
    <2>3. CASE j = Len(g) + 1
      BY <1>1, <1>3, <2>1, <2>3
    <2> QED
      BY <1>1, <1>2, <2>2, <2>3
  <1> QED
    BY <1>4 DEF f

(***************************************************************************)
(* The cache without its entry for a (key, moment).                        *)
(***************************************************************************)
LEMMA WithoutFinds ==
    ASSUME CacheInv, NEW k \in Keys, NEW at \in Moments
    PROVE  /\ Without(k, at) \in Seq(Entry) /\ Ranked(Without(k, at), since)
           /\ Len(Without(k, at)) <= Len(cache)
           /\ Found(k, at) # {} => Len(Without(k, at)) < Len(cache)
           /\ \A j \in 1 .. Len(Without(k, at)) : Id(Without(k, at)[j]) # <<k, at>>
           /\ \A i \in 1 .. Len(cache) : Id(cache[i]) # <<k, at>> =>
                 \E j \in 1 .. Len(Without(k, at)) : Without(k, at)[j] = cache[i]
           /\ \A j \in 1 .. Len(Without(k, at)) : \E i \in 1 .. Len(cache) :
                 Without(k, at)[j] = cache[i]
  <1> DEFINE S == {e \in Entry : Id(e) # <<k, at>>}
             g == Sift(cache, S)
  <1>1. Without(k, at) = g
    BY DEF Without
  <1>2. cache \in Seq(Entry) /\ \A i \in 1 .. Len(cache) : cache[i] \in Entry
    BY DEF CacheInv
  <1>3. \A e \in Entry : e \in S <=> Id(e) # <<k, at>>
    OBVIOUS
  <1> HIDE DEF S
  <1>4. g \in Seq(Entry) /\ Sifted(g, cache, Len(cache), S)
    BY <1>2, SiftFinds
  <1>5. Ranked(g, since) /\ Len(g) <= Len(cache)
    BY <1>2, SiftRanked DEF CacheInv
  <1> HIDE DEF g
  <1>6. Found(k, at) # {} => Len(g) < Len(cache)
    <2> SUFFICES ASSUME Found(k, at) # {} PROVE Len(g) < Len(cache)
      OBVIOUS
    <2>1. PICK i \in 1 .. Len(cache) : Id(cache[i]) = <<k, at>>
      BY <1>2 DEF Found
    <2>2. cache[i] \notin S
      BY <1>2, <1>3, <2>1
    <2> QED
      BY <1>4, <2>1, <2>2 DEF Sifted
  <1>7. \A j \in 1 .. Len(g) : /\ Id(g[j]) # <<k, at>>
                               /\ \E i \in 1 .. Len(cache) : g[j] = cache[i]
    BY <1>2, <1>3, <1>4 DEF Sifted
  <1>8. \A i \in 1 .. Len(cache) : Id(cache[i]) # <<k, at>> =>
           \E j \in 1 .. Len(g) : g[j] = cache[i]
    BY <1>2, <1>3, <1>4 DEF Sifted
  <1> QED
    BY <1>1, <1>4, <1>5, <1>6, <1>7, <1>8

(***************************************************************************)
(* The first entry goes when there are too many.                           *)
(***************************************************************************)
LEMMA PutCases ==
    ASSUME CacheInv, NEW e \in Entry, Put(e)
    PROVE  \E all \in Seq(Entry) :
              /\ all = Append(Without(e.key, e.at), e)
              /\ Ranked(all, since') /\ since' \in [Ids -> SUBSET Ids]
              /\ \/ Len(all) <= Capacity /\ cache' = all
                 \/ Len(all) = Capacity + 1 /\ cache' = Tail(all)
  <1> DEFINE W == Without(e.key, e.at)
             all == Append(W, e)
  <1>1. e.key \in Keys /\ e.at \in Moments /\ Id(e) = <<e.key, e.at>> /\ Id(e) \in Ids
    BY IdOfEntry DEF Entry, Id
  <1>2. /\ W \in Seq(Entry) /\ Ranked(W, since) /\ Len(W) <= Len(cache)
        /\ \A j \in 1 .. Len(W) : Id(W[j]) # Id(e)
    BY <1>1, WithoutFinds
  <1>3. /\ cache' = IF Len(all) > Capacity THEN Tail(all) ELSE all
        /\ Use(Id(e))
    BY DEF Put
  <1>4. since \in [Ids -> SUBSET Ids] /\ Len(cache) \in Nat /\ Len(cache) <= Capacity
    BY DEF CacheInv
  <1> HIDE DEF W
  <1>5. all \in Seq(Entry) /\ Len(all) = Len(W) + 1 /\ Len(W) \in Nat
    BY <1>2
  <1>6. Ranked(all, since')
    BY <1>2, <1>3, <1>4, AppendRanked
  <1>7. since' \in [Ids -> SUBSET Ids]
    BY <1>1, <1>3, <1>4 DEF Use
  <1> HIDE DEF all
  <1>8. \/ Len(all) <= Capacity /\ cache' = all
        \/ Len(all) = Capacity + 1 /\ cache' = Tail(all)
    BY <1>2, <1>3, <1>4, <1>5, LRUCacheAssumption
  <1>9. all = Append(Without(e.key, e.at), e)
    BY DEF all, W
  <1> QED
    BY <1>5, <1>6, <1>7, <1>8, <1>9

LEMMA TailRanked ==
    ASSUME NEW s \in Seq(Entry), NEW r, Ranked(s, r), Len(s) > 0
    PROVE  /\ Tail(s) \in Seq(Entry) /\ Len(Tail(s)) = Len(s) - 1
           /\ \A i \in 1 .. Len(s) - 1 : Tail(s)[i] = s[i + 1]
           /\ Ranked(Tail(s), r)
  <1> DEFINE t == Tail(s)
  <1>1. /\ t \in Seq(Entry) /\ Len(t) = Len(s) - 1 /\ Len(s) \in Nat
        /\ \A i \in 1 .. Len(s) - 1 : t[i] = s[i + 1]
    OBVIOUS
  <1> HIDE DEF t
  <1>2. Ranked(t, r)
    <2> SUFFICES ASSUME NEW i \in 1 .. Len(t), NEW j \in 1 .. Len(t), i < j
                 PROVE  Id(t[i]) # Id(t[j]) /\ Id(t[j]) \in r[Id(t[i])]
      BY DEF Ranked
    <2>1. /\ i + 1 \in 1 .. Len(s) /\ j + 1 \in 1 .. Len(s) /\ i + 1 < j + 1
          /\ t[i] = s[i + 1] /\ t[j] = s[j + 1]
      BY <1>1
    <2> QED
      BY <2>1 DEF Ranked
  <1> QED
    BY <1>1, <1>2 DEF t

LEMMA CacheInitInv == CacheInit => CacheInv
  <1> SUFFICES ASSUME CacheInit PROVE CacheInv
    OBVIOUS
  <1>1. cache = << >> /\ since = [x \in Ids |-> {}]
    BY DEF CacheInit
  <1>2. << >> \in Seq(Entry) /\ Len(<< >>) = 0
    OBVIOUS
  <1> QED
    BY <1>1, <1>2, LRUCacheAssumption DEF CacheInv, Ranked

LEMMA CacheNextInv == CacheInv /\ [CacheNext]_cacheVars => CacheInv'
  <1> SUFFICES ASSUME CacheInv, [CacheNext]_cacheVars PROVE CacheInv'
    OBVIOUS
  <1>1. /\ cache \in Seq(Entry) /\ Len(cache) \in Nat /\ Len(cache) <= Capacity
        /\ since \in [Ids -> SUBSET Ids] /\ Ranked(cache, since)
    BY DEF CacheInv
  <1>2. ASSUME NEW k \in Keys, NEW at \in Moments, Get(k, at) PROVE CacheInv'
    <2>1. CASE Found(k, at) = {}
      <3>1. cache' = cache /\ since' = since
        BY <1>2, <2>1 DEF Get
      <3> QED
        BY <1>1, <3>1 DEF CacheInv
    <2>2. CASE Found(k, at) # {}
      <3>1. PICK i \in Found(k, at) : /\ cache' = Append(Without(k, at), cache[i])
                                     /\ Use(<<k, at>>)
        BY <1>2, <2>2 DEF Get
      <3>2. cache[i] \in Entry /\ Id(cache[i]) = <<k, at>> /\ <<k, at>> \in Ids
        <4>1. i \in DOMAIN cache /\ Id(cache[i]) = <<k, at>>
          BY <3>1 DEF Found
        <4>2. cache[i] \in Entry
          BY <1>1, <4>1
        <4>3. Id(cache[i]) \in Ids
          BY <4>2, IdOfEntry
        <4> QED
          BY <4>1, <4>2, <4>3
      <3>3. /\ Without(k, at) \in Seq(Entry) /\ Ranked(Without(k, at), since)
            /\ Len(Without(k, at)) < Len(cache)
            /\ \A j \in 1 .. Len(Without(k, at)) : Id(Without(k, at)[j]) # <<k, at>>
        BY <2>2, WithoutFinds
      <3>4. Ranked(cache', since')
        BY <1>1, <3>1, <3>2, <3>3, AppendRanked
      <3>5. cache' \in Seq(Entry) /\ Len(cache') <= Capacity
        BY <1>1, <3>1, <3>2, <3>3, LRUCacheAssumption
      <3>6. since' \in [Ids -> SUBSET Ids]
        BY <1>1, <3>1, <3>2 DEF Use
      <3> QED
        BY <3>4, <3>5, <3>6 DEF CacheInv
    <2> QED
      BY <2>1, <2>2
  <1>3. ASSUME NEW e \in Entry, Put(e) PROVE CacheInv'
    <2>1. PICK all \in Seq(Entry) :
             /\ Ranked(all, since') /\ since' \in [Ids -> SUBSET Ids]
             /\ \/ Len(all) <= Capacity /\ cache' = all
                \/ Len(all) = Capacity + 1 /\ cache' = Tail(all)
      BY <1>3, PutCases
    <2>2. CASE Len(all) <= Capacity /\ cache' = all
      BY <2>1, <2>2 DEF CacheInv
    <2>3. CASE Len(all) = Capacity + 1 /\ cache' = Tail(all)
      <3>1. Capacity \in Nat /\ Len(all) > 0
        BY <2>3, LRUCacheAssumption
      <3>2. Tail(all) \in Seq(Entry) /\ Len(Tail(all)) = Capacity /\ Ranked(Tail(all), since')
        BY <2>1, <2>3, <3>1, TailRanked
      <3> QED
        BY <2>1, <2>3, <3>1, <3>2 DEF CacheInv
    <2> QED
      BY <2>1, <2>2, <2>3
  <1>4. ASSUME NEW k \in Keys, Invalidate(k) PROVE CacheInv'
    <2>1. cache' = Sift(cache, {e \in Entry : e.key # k}) /\ since' = since
      BY <1>4 DEF Invalidate
    <2>2. cache' \in Seq(Entry) /\ Len(cache') <= Len(cache) /\ Ranked(cache', since)
      BY <1>1, <2>1, SiftRanked
    <2> QED
      BY <1>1, <2>1, <2>2, LRUCacheAssumption DEF CacheInv
  <1>5. CASE Clear
    <2>1. cache' = << >> /\ since' = since
      BY <1>5 DEF Clear
    <2>2. << >> \in Seq(Entry) /\ Len(<< >>) = 0
      OBVIOUS
    <2> QED
      BY <1>1, <2>1, <2>2, LRUCacheAssumption DEF CacheInv, Ranked
  <1>6. CASE UNCHANGED cacheVars
    BY <1>6 DEF cacheVars, CacheInv, Ranked
  <1> QED
    BY <1>2, <1>3, <1>4, <1>5, <1>6 DEF CacheNext

(***************************************************************************)
(* The cache keeps its order of last use and its capacity.                 *)
(***************************************************************************)
LEMMA CacheStaysRanked == CacheSpec => []CacheInv
  BY CacheInitInv, CacheNextInv, PTL DEF CacheSpec

-----------------------------------------------------------------------------

LEMMA PutEvictsLeastRecentlyUsed ==
    ASSUME CacheInv, NEW e \in Entry, Put(e), NEW lost \in ToSet(cache) \ ToSet(cache')
    PROVE  Id(lost) = Id(e) \/ \A kept \in ToSet(cache') : UsedBefore(Id(lost), Id(kept))'
  <1> SUFFICES ASSUME Id(lost) # Id(e), NEW kept \in ToSet(cache')
               PROVE  Id(kept) \in since'[Id(lost)]
    BY DEF UsedBefore
  <1> DEFINE W == Without(e.key, e.at)
  <1>1. e.key \in Keys /\ e.at \in Moments /\ Id(e) = <<e.key, e.at>>
    BY DEF Entry, Id
  <1>2. PICK i \in 1 .. Len(cache) : lost = cache[i]
    BY DEF ToSet, CacheInv
  <1>3. /\ W \in Seq(Entry)
        /\ \A n \in 1 .. Len(cache) : Id(cache[n]) # Id(e) => \E j \in 1 .. Len(W) : W[j] = cache[n]
    BY <1>1, WithoutFinds
  <1> HIDE DEF W
  <1>4. PICK j \in 1 .. Len(W) : W[j] = lost
    BY <1>2, <1>3
  <1>5. PICK all \in Seq(Entry) :
           /\ all = Append(W, e)
           /\ Ranked(all, since')
           /\ \/ Len(all) <= Capacity /\ cache' = all
              \/ Len(all) = Capacity + 1 /\ cache' = Tail(all)
    BY PutCases DEF W
  <1>6. j \in 1 .. Len(all) /\ all[j] = lost
    BY <1>3, <1>4, <1>5
  <1>7. cache' = Tail(all) /\ Len(all) > 0
    <2>1. CASE cache' = all
      BY <1>6, <2>1 DEF ToSet
    <2>2. CASE Len(all) = Capacity + 1
      BY <1>5, <2>1, <2>2, LRUCacheAssumption
    <2> QED
      BY <1>5, <1>6, <2>1, <2>2
  <1>8. /\ Tail(all) \in Seq(Entry) /\ Len(Tail(all)) = Len(all) - 1
        /\ \A n \in 1 .. Len(all) - 1 : Tail(all)[n] = all[n + 1]
    BY <1>7
  <1>9. j = 1
    <2> SUFFICES ASSUME j # 1 PROVE FALSE
      OBVIOUS
    <2>1. j - 1 \in 1 .. Len(all) - 1 /\ (j - 1) + 1 = j
      BY <1>6
    <2>2. j - 1 \in DOMAIN cache' /\ cache'[j - 1] = lost
      BY <1>6, <1>7, <1>8, <2>1
    <2> QED
      BY <2>2 DEF ToSet
  <1>10. PICK n \in 1 .. Len(all) - 1 : kept = all[n + 1]
    BY <1>7, <1>8 DEF ToSet
  <1>11. 1 \in 1 .. Len(all) /\ n + 1 \in 1 .. Len(all) /\ 1 < n + 1
    BY <1>7, <1>10
  <1> QED
    BY <1>5, <1>6, <1>9, <1>10, <1>11 DEF Ranked

(***************************************************************************)
(* "LRU cache": for any keys, moments, values and capacity, when put()     *)
(* drops an entry to make room, every entry it keeps has been looked up or *)
(* stored since that one last was.                                         *)
(***************************************************************************)
THEOREM CacheEvictsLeastRecentlyUsed == CacheSpec => EvictsLeastRecentlyUsed
  <1>1. CacheInv => \A e \in Entry : Put(e) =>
           \A lost \in ToSet(cache) \ ToSet(cache') :
              Id(lost) = Id(e) \/ \A kept \in ToSet(cache') : UsedBefore(Id(lost), Id(kept))'
    BY PutEvictsLeastRecentlyUsed
  <1> QED
    BY <1>1, CacheStaysRanked, PTL DEF EvictsLeastRecentlyUsed

-----------------------------------------------------------------------------

(***************************************************************************)
(* As a set the cache is what BoundedCache says.                           *)
(***************************************************************************)
LEMMA RankedCounts ==
    ASSUME NEW s \in Seq(Entry), NEW r, Ranked(s, r)
    PROVE  AnyCache!Cardinality(ToSet(s)) = Len(s)
  <1> DEFINE n == Len(s)
             S == ToSet(s)
  <1>1. n \in Nat /\ DOMAIN s = 1 .. n
    OBVIOUS
  <1>2. s \in [1 .. n -> S] /\ \A e \in S : \E j \in 1 .. n : s[j] = e
    BY <1>1 DEF ToSet
  <1>3. \A j, k \in 1 .. n : s[j] = s[k] => j = k
    <2> SUFFICES ASSUME NEW j \in 1 .. n, NEW k \in 1 .. n, j < k PROVE s[j] # s[k]
      BY <1>1
    <2> QED
      BY DEF Ranked
  <1> HIDE DEF n, S
  <1>4. ExistsBijection(1 .. n, S)
    BY <1>2, <1>3 DEF ExistsBijection, Bijection, Injection, Surjection, IsInjective
  <1>5. Cardinality(S) = n
    BY <1>1, <1>4, FS_CountingElements
  <1>6. AnyCache!Cardinality(S) = Cardinality(S)
    BY DEF AnyCache!Cardinality, Cardinality
  <1> QED
    BY <1>5, <1>6 DEF n, S

LEMMA GetKeepsTheSet ==
    ASSUME CacheInv, NEW k \in Keys, NEW at \in Moments, Get(k, at)
    PROVE  ToSet(cache') = ToSet(cache)
  <1>1. cache \in Seq(Entry)
    BY DEF CacheInv
  <1>2. CASE Found(k, at) = {}
    BY <1>2 DEF Get
  <1>3. CASE Found(k, at) # {}
    <2> DEFINE W == Without(k, at)
    <2>1. PICK i \in Found(k, at) : cache' = Append(W, cache[i])
      BY <1>3 DEF Get
    <2>2. i \in 1 .. Len(cache) /\ Id(cache[i]) = <<k, at>> /\ cache[i] \in Entry
      BY <1>1, <2>1 DEF Found
    <2>3. /\ W \in Seq(Entry)
          /\ \A n \in 1 .. Len(cache) : Id(cache[n]) # <<k, at>> =>
                \E j \in 1 .. Len(W) : W[j] = cache[n]
          /\ \A j \in 1 .. Len(W) : \E n \in 1 .. Len(cache) : W[j] = cache[n]
      BY WithoutFinds
    <2> HIDE DEF W
    <2>4. \A n \in 1 .. Len(cache) : Id(cache[n]) = <<k, at>> => n = i
      <3> SUFFICES ASSUME NEW n \in 1 .. Len(cache), Id(cache[n]) = <<k, at>>, n # i PROVE FALSE
        OBVIOUS
      <3>1. n < i \/ i < n
        BY <2>2
      <3> QED
        BY <2>2, <3>1 DEF CacheInv, Ranked
    <2>5. /\ DOMAIN cache' = 1 .. Len(W) + 1 /\ cache'[Len(W) + 1] = cache[i] /\ Len(W) \in Nat
          /\ \A j \in 1 .. Len(W) : cache'[j] = W[j]
      BY <2>1, <2>2, <2>3
    <2>6. ASSUME NEW e \in ToSet(cache') PROVE e \in ToSet(cache)
      <3>1. PICK j \in 1 .. Len(W) + 1 : e = cache'[j]
        BY <2>5 DEF ToSet
      <3>2. \E n \in 1 .. Len(cache) : e = cache[n]
        <4>1. j \in 1 .. Len(W) \/ j = Len(W) + 1
          BY <2>5
        <4> QED
          BY <2>2, <2>3, <2>5, <3>1, <4>1
      <3> QED
        BY <1>1, <3>2 DEF ToSet
    <2>7. ASSUME NEW e \in ToSet(cache) PROVE e \in ToSet(cache')
      <3>1. PICK n \in 1 .. Len(cache) : e = cache[n]
        BY <1>1 DEF ToSet
      <3>2. \E j \in DOMAIN cache' : cache'[j] = e
        <4>1. CASE n = i
          BY <2>5, <3>1, <4>1
        <4>2. CASE n # i
          <5>1. PICK j \in 1 .. Len(W) : W[j] = e
            BY <2>3, <2>4, <3>1, <4>2
          <5> QED
            BY <2>5, <5>1
        <4> QED
          BY <4>1, <4>2
      <3> QED
        BY <3>2 DEF ToSet
    <2> QED
      BY <2>6, <2>7
  <1> QED
    BY <1>2, <1>3

LEMMA PutKeeps ==
    ASSUME CacheInv, NEW e \in Entry, Put(e)
    PROVE  AnyCache!Keep(e)
  <1> DEFINE W == Without(e.key, e.at)
             others == ToSet(cache) \ AnyCache!For(e.key, e.at)
  <1>1. e.key \in Keys /\ e.at \in Moments /\ Id(e) = <<e.key, e.at>>
    BY DEF Entry, Id
  <1>2. cache \in Seq(Entry) /\ DOMAIN cache = 1 .. Len(cache)
    BY DEF CacheInv
  <1>3. /\ W \in Seq(Entry) /\ Ranked(W, since)
        /\ \A j \in 1 .. Len(W) : Id(W[j]) # Id(e)
        /\ \A i \in 1 .. Len(cache) : Id(cache[i]) # Id(e) =>
              \E j \in 1 .. Len(W) : W[j] = cache[i]
        /\ \A j \in 1 .. Len(W) : \E i \in 1 .. Len(cache) : W[j] = cache[i]
    BY <1>1, WithoutFinds
  <1>4. PICK all \in Seq(Entry) :
           /\ all = Append(W, e)
           /\ \/ Len(all) <= Capacity /\ cache' = all
              \/ Len(all) = Capacity + 1 /\ cache' = Tail(all)
    BY PutCases
  <1> HIDE DEF W
  <1>5. ToSet(W) = others
    <2>1. \A x \in ToSet(cache) : x \in AnyCache!For(e.key, e.at) <=> Id(x) = Id(e)
      BY <1>1, <1>2 DEF AnyCache!For, Id
    <2>2. \A x \in ToSet(W) : x \in others
      <3> SUFFICES ASSUME NEW x \in ToSet(W) PROVE x \in others
        OBVIOUS
      <3>1. PICK j \in 1 .. Len(W) : x = W[j]
        BY <1>3 DEF ToSet
      <3>2. x \in ToSet(cache) /\ Id(x) # Id(e)
        BY <1>2, <1>3, <3>1 DEF ToSet
      <3> QED
        BY <2>1, <3>2
    <2>3. \A x \in others : x \in ToSet(W)
      <3> SUFFICES ASSUME NEW x \in ToSet(cache), Id(x) # Id(e) PROVE x \in ToSet(W)
        BY <2>1
      <3>1. PICK i \in 1 .. Len(cache) : x = cache[i]
        BY <1>2 DEF ToSet
      <3> QED
        BY <1>3, <3>1 DEF ToSet
    <2> QED
      BY <2>2, <2>3
  <1>6. AnyCache!Cardinality(others) = Len(W)
    BY <1>3, <1>5, RankedCounts
  <1>7. /\ Len(all) = Len(W) + 1 /\ all[Len(W) + 1] = e /\ Len(W) \in Nat
        /\ \A j \in 1 .. Len(W) : all[j] = W[j]
    BY <1>3, <1>4
  <1>8. \A j \in 1 .. Len(W) : W[j] \in ToSet(W)
    <2>1. DOMAIN W = 1 .. Len(W)
      BY <1>3
    <2> QED
      BY <2>1 DEF ToSet
  <1>9. CASE Len(all) <= Capacity /\ cache' = all
    <2>1. Len(W) < Capacity
      BY <1>7, <1>9, LRUCacheAssumption
    <2>2. ToSet(all) = ToSet(W) \cup {e}
      <3>1. DOMAIN all = 1 .. Len(W) \cup {Len(W) + 1} /\ DOMAIN W = 1 .. Len(W)
        BY <1>3, <1>7
      <3>2. ToSet(all) = {all[j] : j \in DOMAIN all} /\ ToSet(W) = {W[j] : j \in DOMAIN W}
        BY DEF ToSet
      <3> QED
        BY <1>7, <3>1, <3>2
    <2> HIDE DEF others
    <2>3. ToSet(cache') = others \cup {e}
      BY <1>5, <1>9, <2>2
    <2> QED
      BY <1>6, <2>1, <2>3 DEF AnyCache!Keep, others
  <1>10. CASE Len(all) = Capacity + 1 /\ cache' = Tail(all)
    <2> DEFINE victim == W[1]
               t == Tail(all)
    <2>1. Len(W) = Capacity /\ 1 \in 1 .. Len(W)
      BY <1>7, <1>10, LRUCacheAssumption
    <2>2. /\ Len(t) = Len(W) /\ DOMAIN t = 1 .. Len(W)
          /\ \A j \in 1 .. Len(W) : t[j] = all[j + 1]
      BY <1>7
    <2>3. \A j \in 2 .. Len(W) : W[j] # victim
      <3> SUFFICES ASSUME NEW j \in 2 .. Len(W) PROVE Id(W[1]) # Id(W[j])
        BY DEF victim
      <3>1. j \in 1 .. Len(W) /\ 1 < j
        OBVIOUS
      <3> QED
        BY <1>3, <2>1, <3>1 DEF Ranked
    <2>4. victim \in others
      BY <1>5, <1>8, <2>1
    <2> HIDE DEF t, victim
    <2>5. ASSUME NEW x \in ToSet(t) PROVE x \in (others \ {victim}) \cup {e}
      <3>1. PICK j \in 1 .. Len(W) : x = all[j + 1]
        BY <2>2 DEF ToSet
      <3>2. CASE j = Len(W)
        BY <1>7, <3>1, <3>2
      <3>3. CASE j # Len(W)
        <4>1. j + 1 \in 2 .. Len(W) /\ j + 1 \in 1 .. Len(W)
          BY <1>7, <3>3
        <4>2. x = W[j + 1] /\ x # victim
          BY <1>7, <2>3, <3>1, <4>1
        <4>3. x \in ToSet(W)
          BY <1>8, <4>1, <4>2
        <4> QED
          BY <1>5, <4>2, <4>3
      <3> QED
        BY <3>2, <3>3
    <2>6. ASSUME NEW x \in (others \ {victim}) \cup {e} PROVE x \in ToSet(t)
      <3>1. CASE x = e
        <4>1. t[Len(W)] = e /\ Len(W) \in 1 .. Len(W)
          BY <1>7, <2>1, <2>2
        <4> QED
          BY <2>2, <3>1, <4>1 DEF ToSet
      <3>2. CASE x # e
        <4>1. PICK j \in 1 .. Len(W) : x = W[j]
          BY <1>3, <1>5, <2>6, <3>2 DEF ToSet
        <4>2. j # 1
          BY <2>6, <3>2, <4>1 DEF victim
        <4>3. j - 1 \in 1 .. Len(W) /\ (j - 1) + 1 = j
          BY <4>2
        <4>4. t[j - 1] = x
          BY <1>7, <2>2, <4>1, <4>3
        <4> QED
          BY <2>2, <4>3, <4>4 DEF ToSet
      <3> QED
        BY <3>1, <3>2
    <2> HIDE DEF others
    <2>7. ToSet(cache') = (others \ {victim}) \cup {e}
      BY <1>10, <2>5, <2>6 DEF t
    <2> QED
      BY <1>6, <2>1, <2>4, <2>7 DEF AnyCache!Keep, others
  <1> QED
    BY <1>4, <1>9, <1>10

LEMMA InvalidateDrops ==
    ASSUME CacheInv, NEW k \in Keys, Invalidate(k)
    PROVE  AnyCache!Drop({k})
  <1> DEFINE S == {e \in Entry : e.key # k}
  <1>1. cache \in Seq(Entry) /\ DOMAIN cache = 1 .. Len(cache)
    BY DEF CacheInv
  <1>2. cache' = Sift(cache, S)
    BY DEF Invalidate
  <1>3. \A e \in Entry : e \in S <=> e.key # k
    OBVIOUS
  <1> HIDE DEF S
  <1>4. cache' \in Seq(Entry) /\ Sifted(cache', cache, Len(cache), S)
    BY <1>1, <1>2, SiftFinds
  <1>5. ASSUME NEW x \in ToSet(cache') PROVE x \in ToSet(cache) /\ x.key # k
    <2>1. PICK j \in 1 .. Len(cache') : x = cache'[j]
      BY <1>4 DEF ToSet
    <2>2. PICK i \in 1 .. Len(cache) : x = cache[i] /\ cache[i] \in S
      BY <1>4, <2>1 DEF Sifted
    <2> QED
      BY <1>1, <1>3, <2>2 DEF ToSet
  <1>6. ASSUME NEW x \in ToSet(cache), x.key # k PROVE x \in ToSet(cache')
    <2>1. PICK i \in 1 .. Len(cache) : x = cache[i]
      BY <1>1 DEF ToSet
    <2>2. cache[i] \in S
      BY <1>1, <1>3, <1>6, <2>1
    <2>3. \E j \in 1 .. Len(cache') : cache'[j] = x
      BY <1>4, <2>1, <2>2 DEF Sifted
    <2> QED
      BY <1>4, <2>3 DEF ToSet
  <1>7. ToSet(cache') = {e \in ToSet(cache) : e.key \notin {k}}
    BY <1>5, <1>6
  <1> QED
    BY <1>7 DEF AnyCache!Drop

(***************************************************************************)
(* The cache is the one ChronoMap is modelled with, and proved about: never*)
(* beyond its capacity, never with two answers for one (key, moment), and  *)
(* without the answers of a key once that has been invalidated.            *)
(***************************************************************************)
THEOREM CacheIsBounded == CacheSpec => ImplementsBoundedCache
  <1>1. CacheInit => AnyCache!Init
    <2> SUFFICES ASSUME CacheInit PROVE ToSet(cache) = {}
      BY DEF AnyCache!Init
    <2> QED
      BY DEF CacheInit, ToSet
  <1>2. CacheInv /\ [CacheNext]_cacheVars => [AnyCache!Next]_(ToSet(cache))
    <2> SUFFICES ASSUME CacheInv, [CacheNext]_cacheVars
                 PROVE  AnyCache!Next \/ ToSet(cache') = ToSet(cache)
      OBVIOUS
    <2>1. ASSUME NEW k \in Keys, NEW at \in Moments, Get(k, at) PROVE ToSet(cache') = ToSet(cache)
      BY <2>1, GetKeepsTheSet
    <2>2. ASSUME NEW e \in Entry, Put(e) PROVE AnyCache!Next
      <3>1. AnyCache!Keep(e) /\ e \in AnyCache!Entry
        BY <2>2, PutKeeps DEF Entry, AnyCache!Entry
      <3> QED
        BY <3>1 DEF AnyCache!Next
    <2>3. ASSUME NEW k \in Keys, Invalidate(k) PROVE AnyCache!Next
      <3>1. AnyCache!Drop({k}) /\ {k} \in SUBSET Keys
        BY <2>3, InvalidateDrops
      <3> QED
        BY <3>1 DEF AnyCache!Next
    <2>4. CASE Clear
      <3>1. ToSet(cache') = {}
        BY <2>4 DEF Clear, ToSet
      <3> QED
        BY <3>1 DEF AnyCache!Next, AnyCache!Empty
    <2>5. CASE UNCHANGED cacheVars
      BY <2>5 DEF cacheVars
    <2> QED
      BY <2>1, <2>2, <2>3, <2>4, <2>5 DEF CacheNext
  <1> QED
    BY <1>1, <1>2, CacheStaysRanked, PTL DEF CacheSpec, ImplementsBoundedCache, AnyCache!Spec
-----------------------------------------------------------------------------

(***************************************************************************)
(* The sweeper: where a thread may be.                                     *)
(***************************************************************************)
Labels == {"unborn", "test", "deref", "sweep", "swept", "wait", "ended"}

(***************************************************************************)
(* TypeOK is inductive: the map goes with its last reference, and a thread *)
(* is made only when the one before has ended.                             *)
(***************************************************************************)
LEMMA InitTypeOK == Init => TypeOK
<1> SUFFICES ASSUME Init PROVE TypeOK
  OBVIOUS
<1>1. pc \in [Loops -> Labels]
  BY DEF Init, Labels
<1>2. \A l \in Loops : Live(l) => l = thread
  BY DEF Init, Live
<1>3. alive <=> owned \/ cm # {}
  BY DEF Init
<1> QED
  BY <1>1, <1>2, <1>3 DEF Init, TypeOK, Labels

(***************************************************************************)
(* A thread that lets go of the map.                                       *)
(***************************************************************************)
LEMMA LetGoTypeOK ==
  ASSUME TypeOK, NEW l \in Loops, Live(l),
         NEW where \in Labels, LetGo(l, where)
  PROVE  TypeOK'
<1>1. /\ thread' \in Loops /\ cm' \subseteq Loops /\ failed' \subseteq Loops
      /\ pc' \in [Loops -> Labels]
  BY DEF LetGo, Go, calls, TypeOK, Labels
<1>2. \A k \in Loops : Live(k)' => k = thread'
  BY DEF LetGo, Go, calls, TypeOK, Live
<1>3. alive' <=> owned' \/ cm' # {}
  <2>1. owned' = owned /\ cm' = cm \ {l} /\ (alive <=> owned \/ cm # {})
    BY DEF LetGo, calls, TypeOK
  <2>2. CASE alive /\ ~owned /\ cm' = {}
    BY <2>1, <2>2 DEF LetGo
  <2>3. CASE ~(alive /\ ~owned /\ cm' = {})
    <3>1. alive' = alive
      BY <2>3 DEF LetGo
    <3> QED
      BY <2>1, <2>3, <3>1
  <2> QED
    BY <2>2, <2>3
<1> QED
  BY <1>1, <1>2, <1>3 DEF TypeOK, Labels

(***************************************************************************)
(* A step that changes the label of one live thread, and neither threads   *)
(* nor references otherwise.                                               *)
(***************************************************************************)
LEMMA GoTypeOK ==
  ASSUME TypeOK, NEW l \in Loops, Live(l), NEW where \in Labels, Go(l, where),
         thread' = thread, cm' = cm, failed' \subseteq Loops, alive' = alive, owned' = owned
  PROVE  TypeOK'
<1>1. pc' \in [Loops -> Labels]
  BY DEF Go, TypeOK, Labels
<1>2. \A k \in Loops : Live(k)' => k = thread'
  BY DEF Go, TypeOK, Live
<1> QED
  BY <1>1, <1>2 DEF TypeOK, Labels

LEMMA NextTypeOK == TypeOK /\ [Next]_vars => TypeOK'
<1> SUFFICES ASSUME TypeOK, [Next]_vars PROVE TypeOK'
  OBVIOUS
<1>1. CASE Start
  <2>1. owned' = owned /\ cm' = cm /\ failed' = failed /\ alive' = alive
    BY <1>1 DEF Start, AskToStart
  <2>2. CASE Live(thread)
    BY <1>1, <2>1, <2>2 DEF Start, TypeOK, Live
  <2>3. CASE ~Live(thread)
    <3>1. PICK l \in Loops : Go(l, "test") /\ thread' = l
      BY <1>1, <2>3 DEF Start, Spawn
    <3>2. pc' \in [Loops -> Labels]
      BY <3>1 DEF Go, TypeOK, Labels
    <3>3. \A k \in Loops : Live(k)' => k = thread'
      BY <2>3, <3>1 DEF Go, TypeOK, Live
    <3> QED
      BY <2>1, <3>1, <3>2, <3>3 DEF TypeOK, Labels
  <2> QED
    BY <2>2, <2>3
<1>2. CASE Stop
  BY <1>2 DEF Stop, TypeOK, Live
<1>3. CASE Join
  BY <1>3 DEF Join, TypeOK, Live
<1>4. CASE Drop
  <2>1. /\ thread' = thread /\ pc' = pc /\ cm' = cm /\ failed' = failed
        /\ owned' = FALSE /\ owned
    BY <1>4 DEF Drop
  <2>2. alive' <=> cm' # {}
    <3>1. CASE cm = {}
      BY <1>4, <2>1, <3>1 DEF Drop
    <3>2. CASE cm # {}
      BY <1>4, <2>1, <3>2 DEF Drop, TypeOK
    <3> QED
      BY <3>1, <3>2
  <2> QED
    BY <2>1, <2>2 DEF TypeOK, Live
<1>5. CASE Expire
  BY <1>5 DEF Expire, calls, TypeOK, Live
<1>6. ASSUME NEW l \in Loops, Loop(l) PROVE TypeOK'
  <2>1. CASE TestEvent(l)
    <3>1. Live(l)
      BY <2>1 DEF TestEvent, Live
    <3>2. CASE stopEvent
      BY <2>1, <3>1, <3>2, LetGoTypeOK DEF TestEvent, Labels
    <3>3. CASE ~stopEvent
      <4>1. /\ Go(l, "deref") /\ thread' = thread /\ cm' = cm /\ failed' = failed
            /\ alive' = alive /\ owned' = owned
        BY <2>1, <3>3 DEF TestEvent, calls
      <4> QED
        BY <3>1, <4>1, GoTypeOK DEF Labels, TypeOK
    <3> QED
      BY <3>2, <3>3
  <2>2. CASE Deref(l)
    <3>1. Live(l) /\ thread' = thread /\ failed' = failed /\ alive' = alive /\ owned' = owned
      BY <2>2 DEF Deref, Live, calls
    <3>2. CASE alive
      <4>1. Go(l, "sweep") /\ cm' = cm \cup {l}
        BY <2>2, <3>2 DEF Deref
      <4>2. pc' \in [Loops -> Labels]
        BY <4>1 DEF Go, TypeOK, Labels
      <4>3. \A k \in Loops : Live(k)' => k = thread'
        BY <3>1, <4>1 DEF Go, TypeOK, Live
      <4> QED
        BY <3>1, <3>2, <4>1, <4>2, <4>3 DEF TypeOK, Labels
    <3>3. CASE ~alive
      <4>1. Go(l, "ended") /\ cm' = cm
        BY <2>2, <3>3 DEF Deref
      <4> QED
        BY <3>1, <4>1, GoTypeOK DEF Labels, TypeOK
    <3> QED
      BY <3>2, <3>3
  <2>3. CASE Sweep(l)
    <3>1. /\ Live(l) /\ Go(l, "swept") /\ thread' = thread /\ cm' = cm
          /\ failed' = failed \ {l} /\ alive' = alive /\ owned' = owned
      BY <2>3 DEF Sweep, Live, calls
    <3> QED
      BY <3>1, GoTypeOK DEF Labels, TypeOK
  <2>4. CASE SweepRaises(l)
    <3>1. /\ Live(l) /\ Go(l, "wait") /\ thread' = thread /\ cm' = cm
          /\ failed' = failed \cup {l} /\ alive' = alive /\ owned' = owned
      BY <2>4 DEF SweepRaises, Live, calls
    <3> QED
      BY <3>1, GoTypeOK DEF Labels, TypeOK
  <2>5. CASE DelMap(l)
    BY <2>5, LetGoTypeOK DEF DelMap, Live, Labels
  <2>6. CASE Wake(l)
    <3>1. /\ Live(l) /\ Go(l, "test") /\ thread' = thread /\ cm' = cm
          /\ failed' = failed /\ alive' = alive /\ owned' = owned
      BY <2>6 DEF Wake, Live, calls
    <3> QED
      BY <3>1, GoTypeOK DEF Labels, TypeOK
  <2> QED
    BY <1>6, <2>1, <2>2, <2>3, <2>4, <2>5, <2>6 DEF Loop
<1>7. CASE UNCHANGED vars
  BY <1>7 DEF vars, calls, TypeOK, Live
<1> QED
  BY <1>1, <1>2, <1>3, <1>4, <1>5, <1>6, <1>7 DEF Next

(***************************************************************************)
(* At most one sweeper runs, the one that stop() would join, and the map   *)
(* lives exactly as long as somebody refers to it.                         *)
(***************************************************************************)
THEOREM OneSweeper == Spec => []TypeOK
<1> QED
  BY InitTypeOK, NextTypeOK, PTL DEF Spec

-----------------------------------------------------------------------------

LEMMA NextHoldsOnlyAfterFailure ==
  TypeOK /\ HoldsOnlyAfterFailure /\ [Next]_vars => HoldsOnlyAfterFailure'
<1> SUFFICES ASSUME TypeOK, HoldsOnlyAfterFailure, [Next]_vars PROVE HoldsOnlyAfterFailure'
  OBVIOUS
<1>1. CASE Start
  <2>1. /\ cm' = cm /\ failed' = failed
        /\ \A k \in Loops : pc'[k] = "wait" => pc[k] = "wait"
    BY <1>1 DEF Start, AskToStart, Spawn, Go, TypeOK
  <2> QED
    BY <2>1 DEF HoldsOnlyAfterFailure, TypeOK
<1>2. CASE Stop \/ Join \/ Drop \/ Expire \/ UNCHANGED vars
  <2>1. cm' = cm /\ failed' = failed /\ pc' = pc
    BY <1>2 DEF Stop, Join, Drop, Expire, vars, calls
  <2> QED
    BY <2>1 DEF HoldsOnlyAfterFailure
<1>3. ASSUME NEW l \in Loops, Loop(l) PROVE HoldsOnlyAfterFailure'
  <2> USE DEF HoldsOnlyAfterFailure, TypeOK, Go
  <2>1. CASE TestEvent(l)
    BY <2>1 DEF TestEvent, LetGo, calls
  <2>2. CASE Deref(l)
    BY <2>2 DEF Deref, calls
  <2>3. CASE Sweep(l)
    BY <2>3 DEF Sweep, calls
  <2>4. CASE SweepRaises(l)
    BY <2>4 DEF SweepRaises, calls
  <2>5. CASE DelMap(l)
    BY <2>5 DEF DelMap, LetGo, calls
  <2>6. CASE Wake(l)
    BY <2>6 DEF Wake, calls
  <2> QED
    BY <1>3, <2>1, <2>2, <2>3, <2>4, <2>5, <2>6 DEF Loop
<1> QED
  BY <1>1, <1>2, <1>3 DEF Next

(***************************************************************************)
(* A thread that waits for its interval to pass holds no reference to the  *)
(* map, unless its last sweep raised.                                      *)
(***************************************************************************)
THEOREM WaitersHoldNothing == Spec => []HoldsOnlyAfterFailure
<1>1. Init => HoldsOnlyAfterFailure
  BY DEF Init, HoldsOnlyAfterFailure
<1> QED
  BY <1>1, OneSweeper, NextHoldsOnlyAfterFailure, PTL DEF Spec

-----------------------------------------------------------------------------

LEMMA NextStoppedMeansQuiet ==
  TypeOK /\ StoppedMeansQuiet /\ [Next]_vars => StoppedMeansQuiet'
<1> SUFFICES ASSUME TypeOK, StoppedMeansQuiet, [Next]_vars PROVE StoppedMeansQuiet'
  OBVIOUS
<1>1. CASE Start
  BY <1>1 DEF Start, AskToStart, StoppedMeansQuiet
<1>2. CASE Stop \/ Drop \/ Expire \/ UNCHANGED vars
  <2>1. joined' = joined /\ pc' = pc
    BY <1>2 DEF Stop, Drop, Expire, vars, calls
  <2> QED
    BY <2>1 DEF StoppedMeansQuiet, Live
<1>3. CASE Join
  <2>1. joined' = ~Live(thread) /\ pc' = pc
    BY <1>3 DEF Join
  <2> QED
    BY <2>1 DEF StoppedMeansQuiet, TypeOK, Live
<1>4. ASSUME NEW l \in Loops, Loop(l) PROVE StoppedMeansQuiet'
  <2>1. Live(l) /\ joined' = joined
    BY <1>4 DEF Loop, TestEvent, Deref, Sweep, SweepRaises, DelMap, Wake, LetGo, Live, calls
  <2> QED
    BY <2>1 DEF StoppedMeansQuiet
<1> QED
  BY <1>1, <1>2, <1>3, <1>4 DEF Next

(***************************************************************************)
(* Once stop() has seen the thread end, no thread sweeps until start().    *)
(***************************************************************************)
THEOREM StopIsFinal == Spec => []StoppedMeansQuiet
<1>1. Init => StoppedMeansQuiet
  BY DEF Init, StoppedMeansQuiet
<1> QED
  BY <1>1, OneSweeper, NextStoppedMeansQuiet, PTL DEF Spec
=============================================================================
