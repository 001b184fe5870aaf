------------------------ MODULE VersionHistoryProofs ------------------------
(***************************************************************************)
(* What the operators of VersionHistory return, for every history over a   *)
(* set D of versions with integer timestamps.                              *)
(***************************************************************************)
EXTENDS VersionHistory, TLAPS, WellFoundedInduction, SequenceTheorems

Timed(D) == \A d \in D : d.ts \in Int

-----------------------------------------------------------------------------

(***************************************************************************)
(* A nonempty set of natural numbers has a least element.                  *)
(***************************************************************************)
LEMMA LeastNatural ==
    ASSUME NEW T, T \subseteq Nat, T # {}
    PROVE  \E n \in T : \A m \in T : n <= m
  <1>1. PICK n \in T : \A m \in T : ~(<<m, n>> \in OpToRel(<, Nat))
    BY NatLessThanWellFounded, WFMin, Zenon
  <1>2. \A m \in T : ~(m < n)
    BY <1>1 DEF OpToRel
  <1> QED
    BY <1>2

(***************************************************************************)
(* In a sorted history there is a place for every timestamp, so that the   *)
(* CHOOSE of BisectRight finds one.                                        *)
(***************************************************************************)
LEMMA BisectRightFinds ==
    ASSUME NEW D, Timed(D), NEW h \in Seq(D), Ordered(h), NEW t \in Int
    PROVE  /\ BisectRight(h, t) \in 0 .. Len(h)
           /\ \A j \in 1 .. BisectRight(h, t) : h[j].ts <= t
           /\ \A j \in BisectRight(h, t) + 1 .. Len(h) : t < h[j].ts
  <1> DEFINE Place(i) == /\ \A j \in 1 .. i : h[j].ts <= t
                         /\ \A j \in i + 1 .. Len(h) : t < h[j].ts
             T == {i \in 0 .. Len(h) : \A j \in i + 1 .. Len(h) : t < h[j].ts}
  <1>1. Len(h) \in T
    OBVIOUS
  <1>2. PICK i \in T : \A m \in T : i <= m
    <2>1. T \subseteq Nat /\ T # {}
      BY <1>1
    <2> HIDE DEF T
    <2> QED
      BY <2>1, LeastNatural
  <1>3. \A j \in 1 .. i : h[j].ts <= t
    <2> SUFFICES ASSUME NEW j \in 1 .. i, ~(h[j].ts <= t) PROVE FALSE
      OBVIOUS
    <2>1. \A k \in j .. Len(h) : t < h[k].ts
      <3> SUFFICES ASSUME NEW k \in j .. Len(h) PROVE t < h[k].ts
        OBVIOUS
      <3>1. j \in DOMAIN h /\ k \in DOMAIN h /\ h[j] \in D /\ h[k] \in D
        OBVIOUS
      <3>2. h[j].ts <= h[k].ts
        <4>1. CASE j = k
          BY <3>1, <4>1 DEF Timed
        <4>2. CASE j # k
          BY <3>1, <4>2 DEF Ordered
        <4> QED
          BY <4>1, <4>2
      <3> QED
        BY <3>1, <3>2 DEF Timed
    <2>2. j - 1 \in T
      BY <2>1
    <2>3. i <= j - 1
      BY <1>2, <2>2
    <2> QED
      BY <2>3
  <1>4. i \in 0 .. Len(h) /\ Place(i)
    BY <1>3
  <1>5. \E k \in 0 .. Len(h) : Place(k)
    BY <1>4
  <1>6. BisectRight(h, t) = CHOOSE k \in 0 .. Len(h) : Place(k)
    BY DEF BisectRight
  <1> HIDE DEF Place
  <1>7. BisectRight(h, t) \in 0 .. Len(h) /\ Place(BisectRight(h, t))
    BY <1>5, <1>6
  <1> QED
    BY <1>7 DEF Place

LEMMA BisectLeftFinds ==
    ASSUME NEW D, Timed(D), NEW h \in Seq(D), Ordered(h), NEW t \in Int
    PROVE  /\ BisectLeft(h, t) \in 0 .. Len(h)
           /\ \A j \in 1 .. BisectLeft(h, t) : h[j].ts < t
           /\ \A j \in BisectLeft(h, t) + 1 .. Len(h) : t <= h[j].ts
  <1>1. /\ BisectRight(h, t - 1) \in 0 .. Len(h)
        /\ \A j \in 1 .. BisectRight(h, t - 1) : h[j].ts <= t - 1
        /\ \A j \in BisectRight(h, t - 1) + 1 .. Len(h) : t - 1 < h[j].ts
    <2>1. t - 1 \in Int
      OBVIOUS
    <2> QED
      BY <2>1, BisectRightFinds, Zenon
  <1> DEFINE Place(i) == /\ \A j \in 1 .. i : h[j].ts < t
                         /\ \A j \in i + 1 .. Len(h) : t <= h[j].ts
  <1>2. \A j \in 1 .. Len(h) : h[j].ts \in Int
    <2>1. \A j \in 1 .. Len(h) : h[j] \in D
      OBVIOUS
    <2> QED
      BY <2>1 DEF Timed
  <1>3. \E k \in 0 .. Len(h) : Place(k)
    <2>1. Place(BisectRight(h, t - 1))
      BY <1>1, <1>2
    <2> QED
      BY <1>1, <2>1
  <1>4. BisectLeft(h, t) = CHOOSE k \in 0 .. Len(h) : Place(k)
    BY DEF BisectLeft
  <1> HIDE DEF Place
  <1>5. BisectLeft(h, t) \in 0 .. Len(h) /\ Place(BisectLeft(h, t))
    BY <1>3, <1>4
  <1> QED
    BY <1>5 DEF Place

(***************************************************************************)
(* Insertion: one version more, the order kept, nothing else changed.      *)
(***************************************************************************)
LEMMA InsertAtFacts ==
    ASSUME NEW D, NEW h \in Seq(D), NEW v \in D, NEW i \in 0 .. Len(h)
    PROVE  /\ InsertAt(h, i + 1, v) \in Seq(D)
           /\ Len(InsertAt(h, i + 1, v)) = Len(h) + 1
           /\ \A j \in 1 .. i : InsertAt(h, i + 1, v)[j] = h[j]
           /\ InsertAt(h, i + 1, v)[i + 1] = v
           /\ \A j \in i + 2 .. Len(h) + 1 : InsertAt(h, i + 1, v)[j] = h[j - 1]
  <1> DEFINE front == SubSeq(h, 1, i)
             back == SubSeq(h, i + 1, Len(h))
             start == front \o <<v>>
             g == start \o back
  <1>1. InsertAt(h, i + 1, v) = g
    <2>1. (i + 1) - 1 = i
      OBVIOUS
    <2> QED
      BY <2>1 DEF InsertAt
  <1>2. /\ front \in Seq(D) /\ Len(front) = i
        /\ \A j \in 1 .. i : front[j] = h[j]
    OBVIOUS
  <1>3. /\ back \in Seq(D) /\ Len(back) = Len(h) - i
        /\ \A j \in 1 .. Len(h) - i : back[j] = h[i + j]
    OBVIOUS
  <1>4. <<v>> \in Seq(D) /\ Len(<<v>>) = 1 /\ <<v>>[1] = v /\ Len(h) \in Nat
    OBVIOUS
  <1> HIDE DEF front, back
  <1>5. /\ start \in Seq(D) /\ Len(start) = Len(front) + Len(<<v>>)
        /\ \A j \in 1 .. Len(front) + Len(<<v>>) :
              start[j] = IF j <= Len(front) THEN front[j] ELSE <<v>>[j - Len(front)]
    BY <1>2, <1>4, ConcatProperties, Zenon
  <1>6. /\ Len(start) = i + 1
        /\ \A j \in 1 .. i : start[j] = h[j]
        /\ start[i + 1] = v
    BY <1>2, <1>4, <1>5
  <1> HIDE DEF start
  <1>7. /\ g \in Seq(D) /\ Len(g) = Len(start) + Len(back)
        /\ \A j \in 1 .. Len(start) + Len(back) :
              g[j] = IF j <= Len(start) THEN start[j] ELSE back[j - Len(start)]
    <2>1. start \in Seq(D)
      BY <1>5
    <2>2. back \in Seq(D)
      BY <1>3
    <2> QED
      BY <2>1, <2>2, ConcatProperties, Zenon
  <1> HIDE DEF g
  <1>8. \A j \in i + 2 .. Len(h) + 1 : g[j] = h[j - 1]
    <2> SUFFICES ASSUME NEW j \in i + 2 .. Len(h) + 1 PROVE g[j] = h[j - 1]
      OBVIOUS
    <2>1. g[j] = back[j - (i + 1)]
      BY <1>3, <1>6, <1>7
    <2>2. j - (i + 1) \in 1 .. Len(h) - i /\ i + (j - (i + 1)) = j - 1
      OBVIOUS
    <2> QED
      BY <1>3, <2>1, <2>2
  <1>9. Len(g) = Len(h) + 1 /\ g[i + 1] = v /\ \A j \in 1 .. i : g[j] = h[j]
    <2>1. Len(g) = Len(h) + 1
      BY <1>3, <1>4, <1>6, <1>7
    <2>2. ASSUME NEW j \in 1 .. i + 1 PROVE g[j] = start[j]
      <3>1. j \in 1 .. Len(start) + Len(back) /\ j <= Len(start)
        BY <1>3, <1>4, <1>6
      <3> QED
        BY <1>7, <3>1, Zenon
    <2>3. i + 1 \in 1 .. i + 1 /\ \A j \in 1 .. i : j \in 1 .. i + 1
      OBVIOUS
    <2> QED
      BY <1>6, <2>1, <2>2, <2>3
  <1> QED
    BY <1>1, <1>7, <1>8, <1>9

(***************************************************************************)
(* put() and merge() insert without breaking the order.                    *)
(***************************************************************************)
LEMMA InsertOrdered ==
    ASSUME NEW D, Timed(D), NEW h \in Seq(D), Ordered(h), NEW v \in D
    PROVE  InsertVersion(h, v) \in Seq(D) /\ Ordered(InsertVersion(h, v))
  <1>1. v.ts \in Int /\ \A i \in DOMAIN h : h[i].ts \in Int
    <2>1. \A i \in DOMAIN h : h[i] \in D
      OBVIOUS
    <2> QED
      BY <2>1 DEF Timed
  <1>2. CASE h = << >> \/ v.ts >= h[Len(h)].ts
    <2> DEFINE g == Append(h, v)
    <2>1. InsertVersion(h, v) = g
      BY <1>2 DEF InsertVersion
    <2>2. /\ g \in Seq(D) /\ Len(g) = Len(h) + 1
          /\ \A i \in DOMAIN h : g[i] = h[i]
          /\ g[Len(h) + 1] = v
      OBVIOUS
    <2> HIDE DEF g
    <2>3. \A i \in DOMAIN h : h[i].ts <= v.ts
      <3> SUFFICES ASSUME NEW i \in DOMAIN h PROVE h[i].ts <= v.ts
        OBVIOUS
      <3>1. Len(h) \in DOMAIN h /\ v.ts >= h[Len(h)].ts
        BY <1>2
      <3>2. CASE i = Len(h)
        BY <1>1, <3>1, <3>2
      <3>3. CASE i # Len(h)
        <4>1. h[i].ts <= h[Len(h)].ts
          BY <3>1, <3>3 DEF Ordered
        <4> QED
          BY <1>1, <3>1, <4>1
      <3> QED
        BY <3>2, <3>3
    <2>4. Ordered(g)
      <3> SUFFICES ASSUME NEW i \in 1 .. Len(h) + 1, NEW j \in 1 .. Len(h) + 1, i < j
                   PROVE  g[i].ts <= g[j].ts
        BY <2>2 DEF Ordered
      <3>1. CASE j <= Len(h)
        <4>1. i \in DOMAIN h /\ j \in DOMAIN h
          BY <3>1
        <4> QED
          BY <2>2, <4>1 DEF Ordered
      <3>2. CASE j = Len(h) + 1
        <4>1. i \in DOMAIN h /\ g[j] = v
          BY <2>2, <3>2
        <4> QED
          BY <2>2, <2>3, <4>1
      <3> QED
        BY <3>1, <3>2
    <2> QED
      BY <2>1, <2>2, <2>4
  <1>3. CASE ~(h = << >> \/ v.ts >= h[Len(h)].ts)
    <2> DEFINE n == BisectRight(h, v.ts)
               g == InsertAt(h, n + 1, v)
    <2>1. InsertVersion(h, v) = g
      BY <1>3 DEF InsertVersion
    <2>2. /\ n \in 0 .. Len(h)
          /\ \A j \in 1 .. n : h[j].ts <= v.ts
          /\ \A j \in n + 1 .. Len(h) : v.ts < h[j].ts
      BY <1>1, BisectRightFinds
    <2> HIDE DEF n
    <2>3. /\ g \in Seq(D) /\ Len(g) = Len(h) + 1
          /\ \A j \in 1 .. n : g[j] = h[j]
          /\ g[n + 1] = v
          /\ \A j \in n + 2 .. Len(h) + 1 : g[j] = h[j - 1]
      <3>1. g \in Seq(D)
        BY <2>2, InsertAtFacts
      <3>2. Len(g) = Len(h) + 1
        BY <2>2, InsertAtFacts
      <3>3. \A j \in 1 .. n : g[j] = h[j]
        BY <2>2, InsertAtFacts
      <3>4. g[n + 1] = v
        BY <2>2, InsertAtFacts
      <3>5. \A j \in n + 2 .. Len(h) + 1 : g[j] = h[j - 1]
        BY <2>2, InsertAtFacts
      <3> QED
        BY <3>1, <3>2, <3>3, <3>4, <3>5
    <2> HIDE DEF g
    <2>4. Ordered(g)
      <3> SUFFICES ASSUME NEW i \in 1 .. Len(h) + 1, NEW j \in 1 .. Len(h) + 1, i < j
                   PROVE  g[i].ts <= g[j].ts
        BY <2>3 DEF Ordered
      <3>1. CASE j <= n
        <4>1. i \in DOMAIN h /\ j \in DOMAIN h /\ g[i] = h[i] /\ g[j] = h[j]
          BY <2>2, <2>3, <3>1
        <4> QED
          BY <4>1 DEF Ordered
      <3>2. CASE j = n + 1
        BY <2>2, <2>3, <3>2
      <3>3. CASE i = n + 1
        <4>1. j - 1 \in DOMAIN h /\ g[j] = h[j - 1] /\ g[i] = v /\ v.ts < h[j - 1].ts
          BY <2>2, <2>3, <3>3
        <4> QED
          BY <1>1, <4>1
      <3>4. CASE i <= n /\ j > n + 1
        <4>1. i \in DOMAIN h /\ j - 1 \in DOMAIN h /\ i < j - 1
          BY <2>2, <3>4
        <4>2. g[i] = h[i] /\ g[j] = h[j - 1]
          <5>1. i \in 1 .. n /\ j \in n + 2 .. Len(h) + 1
            BY <2>2, <3>4
          <5> QED
            BY <2>3, <5>1
        <4> QED
          BY <4>1, <4>2 DEF Ordered
      <3>5. CASE i > n + 1
        <4>1. /\ i - 1 \in DOMAIN h /\ j - 1 \in DOMAIN h /\ i - 1 < j - 1
              /\ g[i] = h[i - 1] /\ g[j] = h[j - 1]
          BY <2>2, <2>3, <3>5
        <4> QED
          BY <4>1 DEF Ordered
      <3> QED
        BY <2>2, <3>1, <3>2, <3>3, <3>4, <3>5
    <2> QED
      BY <2>1, <2>3, <2>4
  <1> QED
    BY <1>2, <1>3

(***************************************************************************)
(* A history without its oldest versions is in order.                      *)
(***************************************************************************)
LEMMA PartOrdered ==
    ASSUME NEW D, NEW h \in Seq(D), Ordered(h), NEW m \in 1 .. Len(h) + 1
    PROVE  /\ SubSeq(h, m, Len(h)) \in Seq(D)
           /\ Len(SubSeq(h, m, Len(h))) = Len(h) - m + 1
           /\ Ordered(SubSeq(h, m, Len(h)))
           /\ m = 1 => SubSeq(h, m, Len(h)) = h
  <1> DEFINE g == SubSeq(h, m, Len(h))
  <1>1. /\ g \in Seq(D) /\ Len(g) = Len(h) - m + 1
        /\ \A j \in 1 .. Len(h) - m + 1 : g[j] = h[j + m - 1] /\ j + m - 1 \in DOMAIN h
    OBVIOUS
  <1>2. m = 1 => g = h
    OBVIOUS
  <1> HIDE DEF g
  <1>3. Ordered(g)
    <2> SUFFICES ASSUME NEW i \in 1 .. Len(h) - m + 1, NEW j \in 1 .. Len(h) - m + 1, i < j
                 PROVE  g[i].ts <= g[j].ts
      BY <1>1 DEF Ordered
    <2>1. i + m - 1 < j + m - 1
      OBVIOUS
    <2> QED
      BY <1>1, <2>1 DEF Ordered
  <1> QED
    BY <1>1, <1>2, <1>3 DEF g

(***************************************************************************)
(* What the prunings leave: a history in order that is the old one if it   *)
(* is as long.                                                             *)
(***************************************************************************)
Shortened(g, h, D) ==
    /\ g \in Seq(D)
    /\ Ordered(g)
    /\ Len(g) <= Len(h)
    /\ Len(g) = Len(h) => g = h

LEMMA PartShortened ==
    ASSUME NEW D, NEW h \in Seq(D), Ordered(h), NEW m \in Int, m >= 1
    PROVE  Shortened(SubSeq(h, m, Len(h)), h, D)
  <1>1. Len(h) \in Nat
    OBVIOUS
  <1>2. CASE m \in 1 .. Len(h) + 1
    <2>1. /\ SubSeq(h, m, Len(h)) \in Seq(D)
          /\ Len(SubSeq(h, m, Len(h))) = Len(h) - m + 1
          /\ Ordered(SubSeq(h, m, Len(h)))
          /\ m = 1 => SubSeq(h, m, Len(h)) = h
      BY <1>2, PartOrdered
    <2>2. Len(h) - m + 1 <= Len(h) /\ (Len(h) - m + 1 = Len(h) => m = 1)
      BY <1>1
    <2> QED
      BY <2>1, <2>2 DEF Shortened
  <1>3. CASE m > Len(h) + 1
    <2>1. SubSeq(h, m, Len(h)) = << >>
      BY <1>3
    <2>2. Len(h) = 0 => h = << >>
      OBVIOUS
    <2> QED
      BY <1>1, <2>1, <2>2 DEF Shortened, Ordered
  <1> QED
    BY <1>1, <1>2, <1>3

LEMMA KeepLastShortened ==
    ASSUME NEW D, NEW h \in Seq(D), Ordered(h), NEW n \in Int
    PROVE  Shortened(KeepLast(h, n), h, D)
  <1>1. Len(h) \in Nat
    OBVIOUS
  <1>2. CASE n > 0 /\ n >= Len(h)
    BY <1>1, <1>2 DEF KeepLast, Shortened
  <1>3. CASE n > 0 /\ n < Len(h)
    <2>1. KeepLast(h, n) = SubSeq(h, Len(h) - n + 1, Len(h))
      BY <1>3 DEF KeepLast
    <2>2. Len(h) - n + 1 \in Int /\ Len(h) - n + 1 >= 1
      BY <1>1, <1>3
    <2> QED
      BY <2>1, <2>2, PartShortened
  <1>4. CASE n <= 0
    <2>1. KeepLast(h, n) = SubSeq(h, 1 - n, Len(h))
      BY <1>4 DEF KeepLast
    <2>2. 1 - n \in Int /\ 1 - n >= 1
      BY <1>4
    <2> QED
      BY <2>1, <2>2, PartShortened
  <1> QED
    BY <1>1, <1>2, <1>3, <1>4

LEMMA DropOlderShortened ==
    ASSUME NEW D, Timed(D), NEW h \in Seq(D), Ordered(h), NEW t \in Int
    PROVE  Shortened(DropOlder(h, t), h, D)
  <1>1. BisectLeft(h, t) \in Nat
    BY BisectLeftFinds
  <1>2. BisectLeft(h, t) + 1 \in Int /\ BisectLeft(h, t) + 1 >= 1
    BY <1>1
  <1>3. DropOlder(h, t) = SubSeq(h, BisectLeft(h, t) + 1, Len(h))
    BY DEF DropOlder
  <1> QED
    BY <1>2, <1>3, PartShortened

LEMMA AutoPruneShortened ==
    ASSUME NEW D, NEW h \in Seq(D), Ordered(h), NEW cap, cap = NoCap \/ cap \in Int
    PROVE  Shortened(AutoPrune(h, cap), h, D)
  <1>1. CASE cap # NoCap /\ Len(h) > cap
    <2>1. AutoPrune(h, cap) = KeepLast(h, cap) /\ cap \in Int
      BY <1>1 DEF AutoPrune
    <2> QED
      BY <2>1, KeepLastShortened
  <1>2. CASE ~(cap # NoCap /\ Len(h) > cap)
    <2>1. AutoPrune(h, cap) = h
      BY <1>2 DEF AutoPrune
    <2> QED
      BY <2>1 DEF Shortened
  <1> QED
    BY <1>1, <1>2

(***************************************************************************)
(* merge() of two histories in order gives a history in order.             *)
(***************************************************************************)
LEMMA AbsorbOrdered ==
    ASSUME NEW D, Timed(D), NEW h \in Seq(D), Ordered(h), NEW o \in Seq(D)
    PROVE  Absorb(h, o) \in Seq(D) /\ Ordered(Absorb(h, o))
  <1> DEFINE n == Len(o)
             IsRun(f, m) ==
                f = [i \in 0 .. m |-> IF i = 0 THEN h ELSE InsertVersion(f[i - 1], o[i])]
             Unreached == {m \in 0 .. n : ~\E f : IsRun(f, m)}
             after[i \in 0 .. n] == IF i = 0 THEN h ELSE InsertVersion(after[i - 1], o[i])
  <1>1. n \in Nat /\ \A i \in 1 .. n : o[i] \in D
    OBVIOUS
  <1> HIDE DEF n
  <1>2. Unreached = {}
    <2> SUFFICES ASSUME Unreached # {} PROVE FALSE
      OBVIOUS
    <2>1. PICK m \in Unreached : \A k \in Unreached : m <= k
      <3>1. Unreached \subseteq Nat
        BY <1>1
      <3> HIDE DEF Unreached
      <3> QED
        BY <3>1, LeastNatural
    <2>2. m \in 0 .. n /\ ~\E f : IsRun(f, m)
      BY <2>1
    <2>3. CASE m = 0
      <3> DEFINE g == [i \in 0 .. m |-> h]
      <3>1. IsRun(g, m)
        BY <2>3
      <3> QED
        BY <2>2, <3>1
    <2>4. CASE m # 0
      <3>1. m - 1 \in 0 .. n /\ m - 1 \notin Unreached
        <4>1. m - 1 \in 0 .. n /\ ~(m <= m - 1)
          BY <1>1, <2>2, <2>4
        <4> HIDE DEF Unreached
        <4> QED
          BY <2>1, <4>1
      <3>2. PICK f : IsRun(f, m - 1)
        BY <3>1
      <3> DEFINE g == [i \in 0 .. m |-> IF i < m THEN f[i] ELSE InsertVersion(f[m - 1], o[m])]
      <3>3. \A i \in 0 .. m : g[i] = IF i = 0 THEN h ELSE InsertVersion(g[i - 1], o[i])
        <4> SUFFICES ASSUME NEW i \in 0 .. m
                     PROVE  g[i] = IF i = 0 THEN h ELSE InsertVersion(g[i - 1], o[i])
          OBVIOUS
        <4>1. \A j \in 0 .. m - 1 :
                 f[j] = IF j = 0 THEN h ELSE InsertVersion(f[j - 1], o[j])
          <5> HIDE DEF g
          <5> QED
            BY <3>2
        <4>2. CASE i = 0
          BY <2>2, <2>4, <4>1, <4>2
        <4>3. CASE i # 0 /\ i < m
          <5>1. i \in 0 .. m - 1 /\ i - 1 \in 0 .. m /\ i - 1 < m
            BY <2>2, <4>3
          <5>2. g[i] = f[i] /\ g[i - 1] = f[i - 1]
            BY <4>3, <5>1
          <5>3. f[i] = InsertVersion(f[i - 1], o[i])
            BY <4>1, <4>3, <5>1
          <5> HIDE DEF g
          <5> QED
            BY <4>3, <5>2, <5>3
        <4>4. CASE i = m
          <5>1. i - 1 \in 0 .. m /\ i - 1 < m
            BY <2>2, <2>4, <4>4
          <5>2. g[i] = InsertVersion(f[m - 1], o[m]) /\ g[i - 1] = f[m - 1]
            BY <4>4, <5>1
          <5> HIDE DEF g
          <5> QED
            BY <2>4, <4>4, <5>2
        <4> QED
          BY <2>2, <4>2, <4>3, <4>4
      <3>4. g = [i \in 0 .. m |-> g[i]]
        OBVIOUS
      <3> HIDE DEF g
      <3>5. IsRun(g, m)
        BY <3>3, <3>4
      <3> QED
        BY <2>2, <3>5
    <2> QED
      BY <2>3, <2>4
  <1>3. \E f : IsRun(f, n)
    <2>1. n \in 0 .. n
      BY <1>1
    <2> QED
      BY <1>2, <2>1
  <1>4. after = CHOOSE f : IsRun(f, n)
    OBVIOUS
  <1>5. Absorb(h, o) = after[n]
    BY DEF Absorb, n
  <1> HIDE DEF after
  <1>6. IsRun(after, n)
    <2> HIDE DEF IsRun
    <2> QED
      BY <1>3, <1>4
  <1>7. \A i \in 0 .. n : after[i] = IF i = 0 THEN h ELSE InsertVersion(after[i - 1], o[i])
    BY <1>6
  <1> HIDE DEF IsRun
  <1> DEFINE Bad == {i \in 0 .. n : ~(after[i] \in Seq(D) /\ Ordered(after[i]))}
  <1>8. Bad = {}
    <2> SUFFICES ASSUME Bad # {} PROVE FALSE
      OBVIOUS
    <2>1. PICK m \in Bad : \A k \in Bad : m <= k
      <3>1. Bad \subseteq Nat
        BY <1>1
      <3> HIDE DEF Bad
      <3> QED
        BY <3>1, LeastNatural
    <2>2. m \in 0 .. n /\ ~(after[m] \in Seq(D) /\ Ordered(after[m]))
      BY <2>1
    <2>3. m # 0
      BY <1>7, <2>2
    <2>4. m - 1 \in 0 .. n /\ m - 1 \notin Bad /\ m \in 1 .. n
      BY <1>1, <2>1, <2>2, <2>3
    <2>5. after[m - 1] \in Seq(D) /\ Ordered(after[m - 1]) /\ o[m] \in D
      BY <1>1, <2>4
    <2>6. after[m] = InsertVersion(after[m - 1], o[m])
      BY <1>7, <2>2, <2>3
    <2> QED
      BY <2>2, <2>5, <2>6, InsertOrdered
  <1>9. n \in 0 .. n
    BY <1>1
  <1> QED
    BY <1>5, <1>8, <1>9
-----------------------------------------------------------------------------
(***************************************************************************)
(* What pruning leaves are the newest versions: a suffix of the history.   *)
(***************************************************************************)
IsTail(g, h, D) ==
    /\ g \in Seq(D)
    /\ Len(g) <= Len(h)
    /\ \A j \in 1 .. Len(g) : g[j] = h[Len(h) - Len(g) + j]

LEMMA PartIsTail ==
    ASSUME NEW D, NEW h \in Seq(D), NEW m \in Int, m >= 1
    PROVE  IsTail(SubSeq(h, m, Len(h)), h, D)
  <1>1. Len(h) \in Nat
    OBVIOUS
  <1>2. CASE m \in 1 .. Len(h) + 1
    <2> DEFINE g == SubSeq(h, m, Len(h))
    <2>1. /\ g \in Seq(D) /\ Len(g) = Len(h) - m + 1
          /\ \A j \in 1 .. Len(h) - m + 1 : g[j] = h[j + m - 1]
      BY <1>1, <1>2
    <2> HIDE DEF g
    <2>2. \A j \in 1 .. Len(g) : g[j] = h[Len(h) - Len(g) + j]
      BY <1>1, <1>2, <2>1
    <2>3. Len(g) <= Len(h)
      BY <1>1, <1>2, <2>1
    <2> QED
      BY <2>1, <2>2, <2>3 DEF IsTail, g
  <1>3. CASE m > Len(h) + 1
    <2>1. SubSeq(h, m, Len(h)) = << >>
      BY <1>1, <1>3
    <2> QED
      BY <1>1, <2>1 DEF IsTail
  <1> QED
    BY <1>1, <1>2, <1>3

LEMMA WholeIsTail ==
    ASSUME NEW D, NEW h \in Seq(D)
    PROVE  IsTail(h, h, D)
  BY DEF IsTail

LEMMA TailOfTail ==
    ASSUME NEW D, NEW h \in Seq(D), NEW g, NEW f, IsTail(g, h, D), IsTail(f, g, D)
    PROVE  IsTail(f, h, D)
  <1>1. /\ Len(f) \in Nat /\ Len(g) \in Nat /\ Len(h) \in Nat
        /\ Len(f) <= Len(g) /\ Len(g) <= Len(h) /\ f \in Seq(D)
    BY DEF IsTail
  <1>2. ASSUME NEW j \in 1 .. Len(f) PROVE f[j] = h[Len(h) - Len(f) + j]
    <2>1. f[j] = g[Len(g) - Len(f) + j]
      BY DEF IsTail
    <2>2. Len(g) - Len(f) + j \in 1 .. Len(g)
      BY <1>1
    <2>3. g[Len(g) - Len(f) + j] = h[Len(h) - Len(g) + (Len(g) - Len(f) + j)]
      BY <2>2 DEF IsTail
    <2>4. Len(h) - Len(g) + (Len(g) - Len(f) + j) = Len(h) - Len(f) + j
      BY <1>1
    <2> QED
      BY <2>1, <2>3, <2>4
  <1> QED
    BY <1>1, <1>2 DEF IsTail

LEMMA TailIsSuffix ==
    ASSUME NEW D, NEW h \in Seq(D), NEW g, IsTail(g, h, D)
    PROVE  IsSuffix(g, h)
  <1>1. Len(g) \in Nat /\ Len(h) \in Nat /\ Len(g) <= Len(h) /\ g \in Seq(D)
    BY DEF IsTail
  <1> DEFINE G == Reverse(g)
             H == Reverse(h)
  <1>2. /\ G \in Seq(D) /\ Len(G) = Len(g)
        /\ \A i \in 1 .. Len(g) : G[i] = g[Len(g) - i + 1]
    BY <1>1 DEF Reverse
  <1>3. /\ H \in Seq(D) /\ Len(H) = Len(h)
        /\ \A i \in 1 .. Len(h) : H[i] = h[Len(h) - i + 1]
    BY <1>1 DEF Reverse
  <1> HIDE DEF G, H
  <1>4. ASSUME NEW i \in 1 .. Len(g) PROVE G[i] = H[i]
    <2>1. Len(g) - i + 1 \in 1 .. Len(g) /\ i \in 1 .. Len(h)
      BY <1>1
    <2>2. g[Len(g) - i + 1] = h[Len(h) - Len(g) + (Len(g) - i + 1)]
      BY <2>1 DEF IsTail
    <2>3. Len(h) - Len(g) + (Len(g) - i + 1) = Len(h) - i + 1
      BY <1>1, <2>1
    <2> QED
      BY <1>2, <1>3, <2>1, <2>2, <2>3
  <1>5. SubSeq(G, 1, Len(G)) = SubSeq(H, 1, Len(G))
    BY <1>1, <1>2, <1>3, <1>4
  <1> QED
    BY <1>1, <1>2, <1>3, <1>5 DEF IsSuffix, IsPrefix, G, H

LEMMA KeepLastIsTail ==
    ASSUME NEW D, NEW h \in Seq(D), NEW n \in Int
    PROVE  IsTail(KeepLast(h, n), h, D)
  <1>1. Len(h) \in Nat
    OBVIOUS
  <1>2. CASE n > 0 /\ n >= Len(h)
    BY <1>1, <1>2, WholeIsTail DEF KeepLast
  <1>3. CASE n > 0 /\ n < Len(h)
    <2>1. KeepLast(h, n) = SubSeq(h, Len(h) - n + 1, Len(h))
      BY <1>1, <1>3 DEF KeepLast
    <2>2. Len(h) - n + 1 \in Int /\ Len(h) - n + 1 >= 1
      BY <1>1, <1>3
    <2> QED
      BY <2>1, <2>2, PartIsTail
  <1>4. CASE ~(n > 0)
    <2>1. KeepLast(h, n) = SubSeq(h, 1 - n, Len(h)) /\ 1 - n \in Int /\ 1 - n >= 1
      BY <1>4 DEF KeepLast
    <2> QED
      BY <2>1, PartIsTail
  <1> QED
    BY <1>1, <1>2, <1>3, <1>4

LEMMA DropOlderIsTail ==
    ASSUME NEW D, Timed(D), NEW h \in Seq(D), Ordered(h), NEW t \in Int
    PROVE  IsTail(DropOlder(h, t), h, D)
  <1>1. BisectLeft(h, t) \in Nat
    BY BisectLeftFinds
  <1>2. BisectLeft(h, t) + 1 \in Int /\ BisectLeft(h, t) + 1 >= 1
    BY <1>1
  <1> QED
    BY <1>2, PartIsTail DEF DropOlder
=============================================================================
