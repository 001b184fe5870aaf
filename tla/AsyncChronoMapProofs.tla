------------------------ MODULE AsyncChronoMapProofs ------------------------
(***************************************************************************)
(* Proofs about AsyncChronoMap for any number of tasks and keys.           *)
(***************************************************************************)
EXTENDS AsyncChronoMap, VersionHistoryProofs, SequenceTheorems

-----------------------------------------------------------------------------
(***************************************************************************)
(* The queue of the lock.                                                  *)
(***************************************************************************)
Before(q, u, w) == \E i, j \in DOMAIN q : i < j /\ q[i] = u /\ q[j] = w

(***************************************************************************)
(* r is the queue q after t has left it, or was never in it.               *)
(***************************************************************************)
Leaves(q, t, r) ==
    /\ r \in Seq(Tasks) /\ IsInjective(r)
    /\ ToSet(r) = ToSet(q) \ {t}
    /\ \A u, w \in Tasks : Before(r, u, w) => Before(q, u, w)

LEMMA NotInIt ==
    ASSUME NEW q \in Seq(Tasks), IsInjective(q), NEW t, t \notin ToSet(q)
    PROVE  Leaves(q, t, q)
  BY DEF Leaves

LEMMA FirstLeaves ==
    ASSUME NEW q \in Seq(Tasks), IsInjective(q), q # << >>
    PROVE  /\ Leaves(q, Head(q), Tail(q))
           /\ \A w \in ToSet(Tail(q)) : Before(q, Head(q), w)
  <1>1. /\ Tail(q) \in Seq(Tasks) /\ Len(q) \in Nat /\ Len(q) >= 1
        /\ Len(Tail(q)) = Len(q) - 1 /\ Head(q) = q[1]
        /\ \A i \in 1 .. Len(q) - 1 : Tail(q)[i] = q[i + 1]
    BY HeadTailProperties
  <1>2. DOMAIN q = 1 .. Len(q) /\ DOMAIN Tail(q) = 1 .. Len(q) - 1
    BY <1>1
  <1> DEFINE r == Tail(q)
             h == Head(q)
  <1> HIDE DEF r, h
  <1>3. /\ r \in Seq(Tasks) /\ Len(q) \in Nat /\ Len(q) >= 1 /\ h = q[1]
        /\ DOMAIN q = 1 .. Len(q) /\ DOMAIN r = 1 .. Len(q) - 1
        /\ \A i \in DOMAIN r : r[i] = q[i + 1] /\ i + 1 \in DOMAIN q
    BY <1>1, <1>2 DEF r, h
  <1>4. IsInjective(r)
    BY <1>3 DEF IsInjective
  <1>5. ToSet(r) = ToSet(q) \ {h}
    <2>1. ASSUME NEW w \in ToSet(r) PROVE w \in ToSet(q) /\ w # h
      <3>1. PICK i \in DOMAIN r : w = r[i]
        BY DEF ToSet
      <3>2. w = q[i + 1] /\ i + 1 \in DOMAIN q /\ i + 1 # 1 /\ 1 \in DOMAIN q
        BY <1>3, <3>1
      <3> QED
        BY <1>3, <3>2 DEF ToSet, IsInjective
    <2>2. ASSUME NEW w \in ToSet(q), w # h PROVE w \in ToSet(r)
      <3>1. PICK i \in DOMAIN q : w = q[i]
        BY DEF ToSet
      <3>2. i # 1
        BY <1>3, <2>2, <3>1
      <3>3. i - 1 \in DOMAIN r /\ w = r[i - 1]
        BY <1>3, <3>1, <3>2
      <3> QED
        BY <3>3 DEF ToSet
    <2> QED
      BY <2>1, <2>2
  <1>6. \A u, w \in Tasks : Before(r, u, w) => Before(q, u, w)
    <2> SUFFICES ASSUME NEW u \in Tasks, NEW w \in Tasks, Before(r, u, w)
                 PROVE  Before(q, u, w)
      OBVIOUS
    <2>1. PICK i \in DOMAIN r, j \in DOMAIN r : i < j /\ r[i] = u /\ r[j] = w
      BY DEF Before
    <2>2. i + 1 \in DOMAIN q /\ j + 1 \in DOMAIN q /\ i + 1 < j + 1 /\ q[i + 1] = u /\ q[j + 1] = w
      BY <1>3, <2>1
    <2> QED
      BY <2>2 DEF Before
  <1>7. ASSUME NEW w \in ToSet(r) PROVE Before(q, h, w)
    <2>1. PICK i \in DOMAIN r : w = r[i]
      BY DEF ToSet
    <2>2. 1 \in DOMAIN q /\ i + 1 \in DOMAIN q /\ 1 < i + 1 /\ q[1] = h /\ q[i + 1] = w
      BY <1>3, <2>1
    <2> QED
      BY <2>2 DEF Before
  <1>8. Leaves(q, h, r)
    BY <1>3, <1>4, <1>5, <1>6 DEF Leaves
  <1> QED
    BY <1>7, <1>8 DEF r, h

LEMMA OneLeaves ==
    ASSUME NEW q \in Seq(Tasks), IsInjective(q), NEW p \in DOMAIN q
    PROVE  Leaves(q, q[p], RemoveAt(q, p))
  <1> DEFINE front == SubSeq(q, 1, p - 1)
             back == SubSeq(q, p + 1, Len(q))
             r == front \o back
  <1>1. Len(q) \in Nat /\ DOMAIN q = 1 .. Len(q) /\ p \in 1 .. Len(q)
    OBVIOUS
  <1>2. /\ front \in Seq(Tasks) /\ Len(front) = p - 1
        /\ \A i \in 1 .. p - 1 : front[i] = q[i]
    BY <1>1
  <1>3. /\ back \in Seq(Tasks) /\ Len(back) = Len(q) - p
        /\ \A i \in 1 .. Len(q) - p : back[i] = q[p + i]
    BY <1>1
  <1> HIDE DEF front, back
  <1>4. /\ r \in Seq(Tasks) /\ Len(r) = Len(q) - 1
        /\ \A i \in 1 .. Len(q) - 1 : r[i] = IF i < p THEN front[i] ELSE back[i - (p - 1)]
    <2>1. /\ r \in Seq(Tasks) /\ Len(r) = Len(front) + Len(back)
          /\ \A i \in 1 .. Len(front) + Len(back) :
                r[i] = IF i <= Len(front) THEN front[i] ELSE back[i - Len(front)]
      BY <1>2, <1>3, ConcatProperties
    <2> HIDE DEF r
    <2>2. Len(front) + Len(back) = Len(q) - 1 /\ \A i \in Int : i <= Len(front) <=> i < p
      BY <1>1, <1>2, <1>3
    <2> QED
      BY <1>2, <2>1, <2>2
  <1> HIDE DEF r
  <1>5. /\ r \in Seq(Tasks) /\ DOMAIN r = 1 .. Len(q) - 1
        /\ \A i \in DOMAIN r : r[i] = q[IF i < p THEN i ELSE i + 1]
    <2>1. r \in Seq(Tasks) /\ DOMAIN r = 1 .. Len(q) - 1
      BY <1>4
    <2>2. ASSUME NEW i \in 1 .. Len(q) - 1, i < p PROVE r[i] = q[i]
      BY <1>1, <1>2, <1>4, <2>2
    <2>3. ASSUME NEW i \in 1 .. Len(q) - 1, ~(i < p) PROVE r[i] = q[i + 1]
      <3>1. r[i] = back[i - (p - 1)] /\ i - (p - 1) \in 1 .. Len(q) - p /\ p + (i - (p - 1)) = i + 1
        BY <1>1, <1>4, <2>3
      <3> QED
        BY <1>3, <3>1
    <2> QED
      BY <2>1, <2>2, <2>3
  <1>6. RemoveAt(q, p) = r
    BY DEF RemoveAt, r, front, back
  <1> DEFINE at(i) == IF i < p THEN i ELSE i + 1
  <1>7. /\ \A i \in DOMAIN r : at(i) \in DOMAIN q /\ at(i) # p /\ r[i] = q[at(i)]
        /\ \A i, j \in DOMAIN r : i < j => at(i) < at(j)
        /\ \A j \in DOMAIN q : j # p => \E i \in DOMAIN r : j = at(i)
    <2>1. \A j \in DOMAIN q : j < p => j \in DOMAIN r /\ j = at(j)
      BY <1>1, <1>5
    <2>2. \A j \in DOMAIN q : j > p => j - 1 \in DOMAIN r /\ j = at(j - 1)
      BY <1>1, <1>5
    <2> QED
      BY <1>1, <1>5, <2>1, <2>2
  <1>8. DOMAIN r \subseteq Int
    BY <1>1, <1>5
  <1> HIDE DEF at
  <1>9. IsInjective(r)
    <2> SUFFICES ASSUME NEW i \in DOMAIN r, NEW j \in DOMAIN r, r[i] = r[j] PROVE i = j
      BY DEF IsInjective
    <2>1. at(i) = at(j)
      BY <1>7 DEF IsInjective
    <2>2. at(i) \in Int /\ ~(i < j) /\ ~(j < i)
      BY <1>1, <1>7, <2>1
    <2> QED
      BY <1>8, <2>2
  <1>10. ToSet(r) = ToSet(q) \ {q[p]}
    <2>1. ASSUME NEW w \in ToSet(r) PROVE w \in ToSet(q) /\ w # q[p]
      BY <1>7 DEF ToSet, IsInjective
    <2>2. ASSUME NEW w \in ToSet(q), w # q[p] PROVE w \in ToSet(r)
      <3>1. PICK j \in DOMAIN q : w = q[j]
        BY DEF ToSet
      <3>2. PICK i \in DOMAIN r : j = at(i)
        BY <1>7, <2>2, <3>1
      <3> QED
        BY <1>7, <3>1, <3>2 DEF ToSet
    <2> QED
      BY <2>1, <2>2
  <1>11. \A u, w \in Tasks : Before(r, u, w) => Before(q, u, w)
    BY <1>7 DEF Before
  <1> QED
    BY <1>5, <1>6, <1>9, <1>10, <1>11 DEF Leaves

LEMMA LastComes ==
    ASSUME NEW q \in Seq(Tasks), IsInjective(q), NEW t \in Tasks, t \notin ToSet(q)
    PROVE  /\ Append(q, t) \in Seq(Tasks) /\ IsInjective(Append(q, t))
           /\ ToSet(Append(q, t)) = ToSet(q) \cup {t}
           /\ \A u, w \in Tasks : Before(Append(q, t), u, w) =>
                 \/ w # t /\ u # t /\ Before(q, u, w)
                 \/ w = t
  <1> DEFINE r == Append(q, t)
  <1>1. /\ r \in Seq(Tasks) /\ Len(r) = Len(q) + 1 /\ r[Len(q) + 1] = t
        /\ \A i \in 1 .. Len(q) : r[i] = q[i]
    BY AppendProperties
  <1>2. Len(q) \in Nat /\ DOMAIN q = 1 .. Len(q)
    OBVIOUS
  <1> HIDE DEF r
  <1>3. DOMAIN r = 1 .. Len(q) + 1
    BY <1>1
  <1>4. \A i \in DOMAIN r : \/ i = Len(q) + 1 /\ r[i] = t
                            \/ i \in DOMAIN q /\ r[i] = q[i] /\ r[i] # t
    <2> SUFFICES ASSUME NEW i \in DOMAIN r, i # Len(q) + 1
                 PROVE  i \in DOMAIN q /\ r[i] = q[i] /\ r[i] # t
      BY <1>1
    <2>1. i \in DOMAIN q /\ r[i] = q[i]
      BY <1>1, <1>2, <1>3
    <2> QED
      BY <2>1 DEF ToSet
  <1>5. IsInjective(r)
    BY <1>4 DEF IsInjective
  <1>6. ToSet(r) = ToSet(q) \cup {t}
    <2>1. ASSUME NEW w \in ToSet(r) PROVE w \in ToSet(q) \cup {t}
      BY <1>4 DEF ToSet
    <2>2. ASSUME NEW w \in ToSet(q) PROVE w \in ToSet(r)
      <3>1. PICK i \in DOMAIN q : w = q[i]
        BY DEF ToSet
      <3>2. i \in DOMAIN r /\ r[i] = w
        BY <1>1, <1>2, <1>3, <3>1
      <3> QED
        BY <3>2 DEF ToSet
    <2>3. t \in ToSet(r)
      <3>1. Len(q) + 1 \in DOMAIN r
        BY <1>2, <1>3
      <3> QED
        BY <1>1, <3>1 DEF ToSet
    <2> QED
      BY <2>1, <2>2, <2>3
  <1>7. \A u, w \in Tasks : Before(r, u, w) => (w # t /\ u # t /\ Before(q, u, w)) \/ w = t
    <2> SUFFICES ASSUME NEW u \in Tasks, NEW w \in Tasks, Before(r, u, w), w # t
                 PROVE  u # t /\ Before(q, u, w)
      OBVIOUS
    <2>1. PICK i \in DOMAIN r, j \in DOMAIN r : i < j /\ r[i] = u /\ r[j] = w
      BY DEF Before
    <2>2. j \in DOMAIN q /\ r[j] = q[j]
      BY <1>4, <2>1
    <2>3. i \in DOMAIN q /\ i # Len(q) + 1
      BY <1>2, <2>1, <2>2, <1>3
    <2> QED
      BY <1>4, <2>1, <2>2, <2>3 DEF Before
  <1> QED
    BY <1>1, <1>5, <1>6, <1>7 DEF r

-----------------------------------------------------------------------------
(***************************************************************************)
(* What a task was given, by what it is doing: the stamps of writes are    *)
(* not past the horizon, which is the present if there is no Lead.         *)
(***************************************************************************)
Horizon == IF Lead = 0 THEN now ELSE MaxTime

LEMMA HorizonIsATime ==
    ASSUME AsyncChronoMapAssumption, now \in Times
    PROVE  /\ Horizon \in Times /\ Horizon \in Int /\ now \in 0 .. Horizon
           /\ \A s \in Times : s <= now + Lead => s <= Horizon
  BY DEF Horizon, Times, AsyncChronoMapAssumption

Batches == UNION {[S -> Values] : S \in SUBSET Keys}

Past == {s \in Stamps : s # None => s <= Horizon}

PutCalls ==
    {c \in [op : {"put"}, items : Batches, at : Past, life : Lives, key : Keys, ts : 0 .. Horizon] :
       c.key \in DOMAIN c.items}

GetCalls == [op : {"get"}, key : Keys, at : Asked, ts : Times]

FactoryCalls ==
    {c \in [op : {"get_or_set"}, key : Keys, ts : 0 .. Horizon, life : Lives, items : {EmptyDict}] :
       Acceptable(c.life)}

OtherCalls == [op : {"delete"}, key : Keys] \cup [op : {"read"}]

Calls == PutCalls \cup GetCalls \cup FactoryCalls \cup OtherCalls

Loops == [op : {"put"}, items : Batches, at : Past, life : Lives, key : {None}, ts : {None}]

Called ==
    \A t \in Tasks :
       \/ pc[t] = "idle"
       \/ pc[t] = "waiting" /\ local[t] \in Calls
       \/ pc[t] = "making" /\ local[t] \in FactoryCalls
       \/ pc[t] = "telling" /\ local[t] \in Loops \cup {None}

Writes(c) == c.op \in {"put", "get_or_set"}

AsksNow(c) == Lead = 0 /\ c.op = "get" /\ c.at = None

(***************************************************************************)
(* Histories in order, without a version later than n.                     *)
(***************************************************************************)
Until(n) == [ts : 0 .. n, val : Values]

Ever(S, n) == \A k \in DOMAIN S : S[k] \in Seq(Until(n)) /\ Ordered(S[k])

(***************************************************************************)
(* If there is no Lead, whoever waits to ask about the present took the    *)
(* time after everybody whose write is in the map, is being made, or is to *)
(* come before it.                                                         *)
(***************************************************************************)
Turns ==
    \A w \in ToSet(queue) : AsksNow(local[w]) =>
       /\ Ever(store, local[w].ts)
       /\ holder # Nobody => local[holder].ts <= local[w].ts
       /\ \A u \in Tasks : Before(queue, u, w) /\ Writes(local[u])
                              => local[u].ts <= local[w].ts

Placed ==
    /\ TypeOK
    /\ queue \in Seq(Tasks) /\ holder \in Tasks \cup {Nobody}
    /\ DOMAIN pc = Tasks /\ DOMAIN local = Tasks

Inv == Placed /\ Called /\ Ever(store, Horizon) /\ Turns

-----------------------------------------------------------------------------
(***************************************************************************)
(* A step after which t is at w with d, in line or out of it no longer,    *)
(* and which writes nothing later than m: every step but those of a task   *)
(* that begins to wait and of the clock.                                   *)
(***************************************************************************)
Proceeds(t, w, d, m) ==
    /\ Leaves(queue, t, queue')
    /\ pc' = [pc EXCEPT ![t] = w] /\ local' = [local EXCEPT ![t] = d]
    /\ now' = now
    /\ \/ w = "making" /\ d \in FactoryCalls /\ d.ts <= m /\ holder = Nobody /\ holder' = t
       \/ w = "telling" /\ d \in Loops \cup {None} /\ holder' = IF holder = t THEN Nobody ELSE holder
       \/ w = "idle" /\ holder' = IF holder = t THEN Nobody ELSE holder
    /\ \A u \in ToSet(queue') : AsksNow(local[u]) => m <= local[u].ts
    /\ m \in Times /\ m <= Horizon
    /\ \A n \in Times : n >= m /\ Ever(store, n) => Ever(store', n)
    /\ DOMAIN store' \subseteq Keys /\ DOMAIN ttl' \subseteq DOMAIN store'

LEMMA ProceedingKeepsInv ==
    ASSUME AsyncChronoMapAssumption, Inv, NEW t \in Tasks, NEW w, NEW d, NEW m,
           Proceeds(t, w, d, m)
    PROVE  Inv'
  <1>1. /\ pc' = [pc EXCEPT ![t] = w] /\ local' = [local EXCEPT ![t] = d]
        /\ DOMAIN pc = Tasks /\ DOMAIN local = Tasks
    BY DEF Proceeds, Inv, Placed
  <1>2. /\ pc'[t] = w /\ local'[t] = d /\ DOMAIN pc' = Tasks /\ DOMAIN local' = Tasks
        /\ \A u \in Tasks \ {t} : pc'[u] = pc[u] /\ local'[u] = local[u]
    BY <1>1
  <1>3. /\ Leaves(queue, t, queue') /\ now' = now /\ now \in Times
        /\ Nobody \notin Tasks
    BY DEF Proceeds, Inv, Placed, TypeOK, AsyncChronoMapAssumption
  <1>4. \/ w = "making" /\ d \in FactoryCalls /\ d.ts <= m /\ holder = Nobody /\ holder' = t
        \/ w = "telling" /\ d \in Loops \cup {None} /\ holder' = IF holder = t THEN Nobody ELSE holder
        \/ w = "idle" /\ holder' = IF holder = t THEN Nobody ELSE holder
    BY DEF Proceeds
  <1>5. Placed'
    <2>1. TypeOK'
      <3>1. \A u \in Tasks : pc'[u] = "making" <=> holder' = u
        BY <1>2, <1>3, <1>4 DEF Inv, Placed, TypeOK
      <3>2. \A u \in Tasks : pc'[u] = "waiting" <=> u \in ToSet(queue')
        BY <1>2, <1>3, <1>4 DEF Inv, Placed, TypeOK, Leaves
      <3> QED
        BY <1>3, <3>1, <3>2 DEF TypeOK, Proceeds, Leaves
    <2> QED
      BY <1>2, <1>3, <1>4, <2>1 DEF Placed, Inv, Leaves
  <1>6. Called'
    <2>1. Calls' = Calls /\ FactoryCalls' = FactoryCalls /\ Loops' = Loops
      BY <1>3 DEF Calls, FactoryCalls, Loops, PutCalls, Past, Horizon, GetCalls, OtherCalls
    <2>2. Called
      BY DEF Inv
    <2> QED
      BY <1>2, <1>4, <2>1, <2>2 DEF Called
  <1>7. /\ m \in Times /\ m <= Horizon
        /\ \A n \in Times : n >= m /\ Ever(store, n) => Ever(store', n)
        /\ \A u \in ToSet(queue') : AsksNow(local[u]) => m <= local[u].ts
    BY DEF Proceeds
  <1>8. Horizon \in Times /\ Horizon \in Int /\ m \in Int /\ Horizon' = Horizon
    BY <1>3, <1>7, HorizonIsATime DEF Times, Horizon
  <1>9. Ever(store', Horizon')
    BY <1>3, <1>7, <1>8 DEF Inv
  <1>10. Turns'
    <2> SUFFICES ASSUME NEW u \in ToSet(queue'), AsksNow(local'[u])
                 PROVE  /\ Ever(store', local'[u].ts)
                        /\ holder' # Nobody => local'[holder'].ts <= local'[u].ts
                        /\ \A x \in Tasks : Before(queue', x, u) /\ Writes(local'[x])
                              => local'[x].ts <= local'[u].ts
      BY DEF Turns, AsksNow, Writes
    <2>1. u \in ToSet(queue) /\ u \in Tasks /\ u # t /\ local'[u] = local[u]
      <3>1. u \in ToSet(queue) /\ u # t
        BY <1>3 DEF Leaves
      <3>2. u \in Tasks
        BY <3>1 DEF Inv, Placed, ToSet
      <3> QED
        BY <1>2, <3>1, <3>2
    <2>2. /\ Ever(store, local[u].ts)
          /\ holder # Nobody => local[holder].ts <= local[u].ts
          /\ \A x \in Tasks : Before(queue, x, u) /\ Writes(local[x])
                              => local[x].ts <= local[u].ts
          /\ m <= local[u].ts
      BY <1>7, <2>1 DEF Inv, Turns
    <2>3. local[u].ts \in Times /\ local[u].ts \in Int
      <3>1. local[u] \in Calls
        BY <2>1 DEF Inv, Called, Placed, TypeOK
      <3>2. local[u] \in GetCalls
        BY <2>1, <3>1 DEF AsksNow, Calls, PutCalls, FactoryCalls, OtherCalls
      <3> QED
        BY <3>2 DEF GetCalls, Times
    <2>4. Ever(store', local'[u].ts)
      BY <1>7, <1>8, <2>1, <2>2, <2>3
    <2>5. holder' # Nobody => local'[holder'].ts <= local'[u].ts
      <3>1. CASE w = "making"
        <4>1. d.ts <= m /\ d.ts \in Int /\ local'[holder'] = d
          BY <1>2, <1>4, <1>3, <3>1 DEF FactoryCalls, Times
        <4> QED
          BY <1>8, <2>1, <2>2, <2>3, <4>1
      <3>2. CASE w # "making" /\ holder' # Nobody
        <4>1. holder' = holder /\ holder # t /\ holder \in Tasks
          BY <1>4, <3>2 DEF Inv, Placed
        <4> QED
          BY <1>2, <2>1, <2>2, <3>2, <4>1
      <3> QED
        BY <3>1, <3>2
    <2>6. ASSUME NEW x \in Tasks, Before(queue', x, u), Writes(local'[x])
          PROVE  local'[x].ts <= local'[u].ts
      <3>1. Before(queue, x, u) /\ x \in ToSet(queue')
        BY <1>3, <2>1, <2>6 DEF Leaves, Before, ToSet
      <3>2. x # t
        BY <1>3, <3>1 DEF Leaves
      <3> QED
        BY <1>2, <2>1, <2>2, <2>6, <3>1, <3>2
    <2> QED
      BY <2>4, <2>5, <2>6
  <1> QED
    BY <1>5, <1>6, <1>9, <1>10 DEF Inv

LEMMA WaiterTookTheTime ==
    ASSUME Inv, NEW u \in ToSet(queue)
    PROVE  /\ u \in Tasks /\ pc[u] = "waiting" /\ local[u] \in Calls
           /\ AsksNow(local[u]) => local[u].ts \in Times
  <1>1. u \in Tasks /\ pc[u] = "waiting" /\ local[u] \in Calls
    BY DEF Inv, Placed, TypeOK, Called, ToSet
  <1>2. ASSUME AsksNow(local[u]) PROVE local[u].ts \in Times
    <2>1. local[u] \in GetCalls
      BY <1>1, <1>2 DEF AsksNow, Calls, PutCalls, FactoryCalls, OtherCalls
    <2> QED
      BY <2>1 DEF GetCalls
  <1> QED
    BY <1>1, <1>2

(***************************************************************************)
(* Whoever writes has a stamp that is not past the horizon.                *)
(***************************************************************************)
LEMMA WriterIsStamped ==
    ASSUME NEW c \in Calls, Writes(c)
    PROVE  c \in PutCalls \cup FactoryCalls /\ c.ts \in 0 .. Horizon
  BY DEF Writes, Calls, PutCalls, FactoryCalls, GetCalls, OtherCalls

LEMMA JoiningKeepsInv ==
    ASSUME AsyncChronoMapAssumption, Inv, NEW t \in Tasks, NEW c \in Calls,
           pc[t] \in {"idle", "telling"}, AsksNow(c) => c.ts = now,
           queue' = Append(queue, t), Go(t, "waiting", c),
           UNCHANGED <<store, ttl, now, holder>>
    PROVE  Inv'
  <1>1. /\ queue \in Seq(Tasks) /\ IsInjective(queue) /\ t \notin ToSet(queue)
        /\ DOMAIN pc = Tasks /\ DOMAIN local = Tasks /\ now \in Times
    BY DEF Inv, Placed, TypeOK
  <1>2. /\ pc'[t] = "waiting" /\ local'[t] = c /\ DOMAIN pc' = Tasks /\ DOMAIN local' = Tasks
        /\ \A u \in Tasks \ {t} : pc'[u] = pc[u] /\ local'[u] = local[u]
    BY <1>1 DEF Go
  <1>3. /\ queue' \in Seq(Tasks) /\ IsInjective(queue') /\ ToSet(queue') = ToSet(queue) \cup {t}
        /\ \A u, w \in Tasks : Before(queue', u, w) =>
              \/ w # t /\ u # t /\ Before(queue, u, w)
              \/ w = t
    BY <1>1, LastComes
  <1>4. Placed'
    BY <1>1, <1>2, <1>3 DEF Inv, Placed, TypeOK
  <1>5. Called'
    <2>1. Calls' = Calls /\ FactoryCalls' = FactoryCalls /\ Loops' = Loops
      BY DEF Calls, FactoryCalls, Loops, PutCalls, Past, Horizon, GetCalls, OtherCalls
    <2>2. Called
      BY DEF Inv
    <2> QED
      BY <1>2, <2>1, <2>2 DEF Called
  <1>6. Ever(store', Horizon')
    BY DEF Inv, Horizon
  <1>7. Turns'
    <2> SUFFICES ASSUME NEW w \in ToSet(queue'), AsksNow(local'[w])
                 PROVE  /\ Ever(store, local'[w].ts)
                        /\ holder # Nobody => local'[holder].ts <= local'[w].ts
                        /\ \A u \in Tasks : Before(queue', u, w) /\ Writes(local'[u])
                              => local'[u].ts <= local'[w].ts
      BY DEF Turns, AsksNow, Writes
    <2>1. ASSUME holder # Nobody
          PROVE  holder \in Tasks \ {t} /\ local[holder].ts \in 0 .. Horizon
      <3>1. holder \in Tasks /\ pc[holder] = "making"
        BY <2>1 DEF Inv, Placed, TypeOK
      <3>2. local[holder] \in FactoryCalls
        BY <3>1 DEF Inv, Called
      <3> QED
        BY <3>1, <3>2 DEF FactoryCalls
    <2>2. CASE w = t
      <3>1. local'[w].ts = now /\ ~Writes(c) /\ Horizon = now
        BY <1>2, <2>2 DEF AsksNow, Writes, Horizon
      <3>2. Ever(store, local'[w].ts)
        BY <3>1 DEF Inv
      <3>3. holder # Nobody => local'[holder].ts <= local'[w].ts
        BY <1>1, <1>2, <2>1, <3>1 DEF Times
      <3>4. ASSUME NEW u \in Tasks, Before(queue', u, w), Writes(local'[u])
            PROVE  local'[u].ts <= local'[w].ts
        <4>1. u # t
          BY <1>2, <3>1, <3>4
        <4>2. u \in ToSet(queue) /\ local'[u] = local[u]
          BY <1>2, <1>3, <3>4, <4>1 DEF Before, ToSet
        <4>3. local[u].ts \in 0 .. Horizon
          BY <3>4, <4>2, WaiterTookTheTime, WriterIsStamped
        <4> QED
          BY <1>1, <3>1, <4>2, <4>3 DEF Times
      <3> QED
        BY <3>2, <3>3, <3>4
    <2>3. CASE w # t
      <3>1. w \in ToSet(queue) /\ w \in Tasks /\ local'[w] = local[w]
        BY <1>2, <1>3, <2>3, WaiterTookTheTime
      <3>2. /\ Ever(store, local[w].ts)
            /\ holder # Nobody => local[holder].ts <= local[w].ts
            /\ \A u \in Tasks : Before(queue, u, w) /\ Writes(local[u])
                                   => local[u].ts <= local[w].ts
        BY <2>3, <3>1 DEF Inv, Turns
      <3> QED
        BY <1>2, <1>3, <2>1, <2>3, <3>1, <3>2
    <2> QED
      BY <2>2, <2>3
  <1> QED
    BY <1>4, <1>5, <1>6, <1>7 DEF Inv

-----------------------------------------------------------------------------
(***************************************************************************)
(* What the calls leave in the store.                                      *)
(***************************************************************************)
LEMMA UntilIsTimed == ASSUME NEW n PROVE Timed(Until(n))
  BY DEF Timed, Until

LEMMA WithoutKeepsEver ==
    ASSUME NEW S, NEW X, NEW n, Ever(S, n)
    PROVE  Ever(Without(S, X), n)
  BY DEF Ever, Without, Restrict

LEMMA UpdateKeepsEver ==
    ASSUME NEW S, NEW k, NEW h, NEW n, Ever(S, n), h \in Seq(Until(n)), Ordered(h)
    PROVE  Ever(Updated(S, Single(k, h)), n)
  BY DEF Ever, Updated, Single

LEMMA WriteKeepsEver ==
    ASSUME AsyncChronoMapAssumption, NEW n \in Times, NEW k, NEW s \in 0 .. n, NEW v \in Values,
           NEW h, h = << >> \/ h = HistoryOf(k), Ever(store, n)
    PROVE  LET g == InsertVersion(h, [ts |-> s, val |-> v])
           IN  /\ g \in Seq(Until(n)) /\ Ordered(g)
               /\ AutoPrune(g, Cap) \in Seq(Until(n)) /\ Ordered(AutoPrune(g, Cap))
  <1> DEFINE g == InsertVersion(h, [ts |-> s, val |-> v])
  <1>1. h \in Seq(Until(n)) /\ Ordered(h)
    <2>1. << >> \in Seq(Until(n)) /\ Ordered(<< >>)
      BY DEF Ordered
    <2>2. k \in DOMAIN store => store[k] \in Seq(Until(n)) /\ Ordered(store[k])
      BY DEF Ever
    <2> QED
      BY <2>1, <2>2 DEF HistoryOf
  <1>2. [ts |-> s, val |-> v] \in Until(n)
    BY DEF Until
  <1>3. Timed(Until(n))
    BY UntilIsTimed
  <1>4. g \in Seq(Until(n)) /\ Ordered(g)
    <2> HIDE DEF Until
    <2> QED
      BY <1>1, <1>2, <1>3, InsertOrdered
  <1> HIDE DEF g
  <1>5. Cap = NoCap \/ Cap \in Int
    BY DEF AsyncChronoMapAssumption
  <1>6. Shortened(AutoPrune(g, Cap), g, Until(n))
    BY <1>4, <1>5, AutoPruneShortened
  <1>7. AutoPrune(g, Cap) \in Seq(Until(n)) /\ Ordered(AutoPrune(g, Cap))
    BY <1>6 DEF Shortened
  <1> QED
    BY <1>4, <1>7 DEF g

LEMMA RestIsALoop ==
    ASSUME NEW c \in PutCalls \cup FactoryCalls
    PROVE  Rest(c) \in Loops \cup {None}
  <1> DEFINE items == Without(c.items, {c.key})
  <1>1. CASE c \in PutCalls
    <2>1. PICK S \in SUBSET Keys : c.items \in [S -> Values]
      BY <1>1 DEF PutCalls, Batches
    <2>2. items \in [S \ {c.key} -> Values] /\ S \ {c.key} \in SUBSET Keys
      BY <2>1 DEF Without, Restrict
    <2>3. items \in Batches
      BY <2>2 DEF Batches
    <2> HIDE DEF items
    <2>4. [c EXCEPT !.items = items, !.key = None, !.ts = None] \in Loops
      BY <1>1, <2>3 DEF PutCalls, Loops
    <2> QED
      BY <2>4 DEF Rest, items
  <1>2. CASE c \in FactoryCalls
    <2>1. c.items = EmptyDict
      BY <1>2 DEF FactoryCalls
    <2>2. items = EmptyDict
      BY <2>1 DEF Without, Restrict, EmptyDict
    <2> QED
      BY <2>2 DEF Rest
  <1> QED
    BY <1>1, <1>2

(***************************************************************************)
(* What a step inside the lock, of a task whose turn it is, comes to.      *)
(***************************************************************************)
LEMMA PutProceeds ==
    ASSUME AsyncChronoMapAssumption, Inv, NEW t \in Tasks, NEW c \in PutCalls, Put(t, c),
           holder = Nobody, now' = now, Leaves(queue, t, queue'),
           \A u \in ToSet(queue') : AsksNow(local[u]) => c.ts <= local[u].ts
    PROVE  \E w, d : Proceeds(t, w, d, c.ts)
  <1>1. /\ c.ts \in 0 .. Horizon /\ c.key \in Keys /\ c.items[c.key] \in Values
        /\ now \in Times /\ MaxTime \in Nat /\ Nobody \notin Tasks
    <2>1. PICK S \in SUBSET Keys : c.items \in [S -> Values]
      BY DEF PutCalls, Batches
    <2>2. c.key \in DOMAIN c.items
      BY DEF PutCalls
    <2> QED
      BY <2>1, <2>2 DEF PutCalls, Inv, Placed, TypeOK, AsyncChronoMapAssumption
  <1>2. c.ts \in Times /\ c.ts <= Horizon
    BY <1>1, HorizonIsATime DEF Times
  <1>3. DOMAIN store \subseteq Keys /\ DOMAIN ttl \subseteq DOMAIN store
    BY DEF Inv, Placed, TypeOK
  <1>4. ASSUME NEW n \in Times, n >= c.ts, Ever(store, n)
        PROVE  /\ Inserted(c) \in Seq(Until(n)) /\ Ordered(Inserted(c))
               /\ AutoPrune(Inserted(c), Cap) \in Seq(Until(n))
               /\ Ordered(AutoPrune(Inserted(c), Cap))
    <2>1. c.ts \in 0 .. n
      BY <1>1, <1>4 DEF Times
    <2>2. Current(c.key) = << >> \/ Current(c.key) = HistoryOf(c.key)
      BY DEF Current
    <2> QED
      BY <1>1, <1>4, <2>1, <2>2, WriteKeepsEver DEF Inserted
  <1>5. CASE Acceptable(c.life)
    <2>1. /\ store' = Updated(store, Single(c.key, AutoPrune(Inserted(c), Cap)))
          /\ ttl' = IF c.life = None THEN Without(ttl, Outdated(c.key))
                    ELSE Updated(ttl, Single(c.key, now + c.life))
          /\ pc' = [pc EXCEPT ![t] = "telling"] /\ local' = [local EXCEPT ![t] = Rest(c)]
          /\ holder' = holder
      BY <1>5 DEF Put, Announce, Go
    <2>2. Rest(c) \in Loops \cup {None}
      BY RestIsALoop
    <2>3. \A n \in Times : n >= c.ts /\ Ever(store, n) => Ever(store', n)
      BY <1>4, <2>1, UpdateKeepsEver
    <2>4. DOMAIN store' \subseteq Keys /\ DOMAIN ttl' \subseteq DOMAIN store'
      BY <1>1, <1>3, <2>1 DEF Updated, Single, Without, Restrict
    <2>5. Proceeds(t, "telling", Rest(c), c.ts)
      BY <1>1, <1>2, <2>1, <2>2, <2>3, <2>4 DEF Proceeds
    <2> QED
      BY <2>5
  <1>6. CASE ~Acceptable(c.life)
    <2>1. /\ store' = Updated(store, Single(c.key, Inserted(c)))
          /\ ttl' = Without(ttl, Outdated(c.key))
          /\ pc' = [pc EXCEPT ![t] = "idle"] /\ local' = [local EXCEPT ![t] = None]
          /\ holder' = holder
      BY <1>6 DEF Put, Done, Go
    <2>2. \A n \in Times : n >= c.ts /\ Ever(store, n) => Ever(store', n)
      BY <1>4, <2>1, UpdateKeepsEver
    <2>3. DOMAIN store' \subseteq Keys /\ DOMAIN ttl' \subseteq DOMAIN store'
      BY <1>1, <1>3, <2>1 DEF Updated, Single, Without, Restrict
    <2>4. Proceeds(t, "idle", None, c.ts)
      BY <1>1, <1>2, <2>1, <2>2, <2>3 DEF Proceeds
    <2> QED
      BY <2>4
  <1> QED
    BY <1>5, <1>6

(***************************************************************************)
(* Whatever writes nothing and ends or leaves the call.                    *)
(***************************************************************************)
LEMMA EndProceeds ==
    ASSUME AsyncChronoMapAssumption, Inv, NEW t \in Tasks, Done(t), now' = now,
           Leaves(queue, t, queue'), holder' = IF holder = t THEN Nobody ELSE holder,
           NEW X, store' = store \/ store' = Without(store, X),
           DOMAIN ttl' \subseteq DOMAIN store'
    PROVE  Proceeds(t, "idle", None, 0)
  <1>1. 0 \in Times /\ 0 <= Horizon
    BY HorizonIsATime DEF Inv, Placed, TypeOK, Times, AsyncChronoMapAssumption
  <1>2. \A u \in ToSet(queue') : AsksNow(local[u]) => 0 <= local[u].ts
    <2> SUFFICES ASSUME NEW u \in ToSet(queue'), AsksNow(local[u]) PROVE 0 <= local[u].ts
      OBVIOUS
    <2>1. u \in ToSet(queue)
      BY DEF Leaves
    <2>2. local[u].ts \in Times
      BY <2>1, WaiterTookTheTime
    <2> QED
      BY <2>2 DEF Times
  <1>3. \A n \in Times : Ever(store, n) => Ever(store', n)
    BY WithoutKeepsEver
  <1>4. DOMAIN store' \subseteq Keys
    BY DEF Inv, Placed, TypeOK, Without, Restrict
  <1> QED
    BY <1>1, <1>2, <1>3, <1>4 DEF Proceeds, Done, Go

LEMMA GetOrSetProceeds ==
    ASSUME AsyncChronoMapAssumption, Inv, NEW t \in Tasks, NEW c \in FactoryCalls, GetOrSet(t, c),
           holder = Nobody, now' = now, Leaves(queue, t, queue'),
           \A u \in ToSet(queue') : AsksNow(local[u]) => c.ts <= local[u].ts
    PROVE  \E w, d, m : Proceeds(t, w, d, m)
  <1>1. Nobody \notin Tasks
    BY DEF AsyncChronoMapAssumption
  <1>2. DOMAIN store \subseteq Keys /\ DOMAIN ttl \subseteq DOMAIN store
    BY DEF Inv, Placed, TypeOK
  <1>3. CASE Current(c.key) # << >>
    <2>1. Done(t) /\ store' = store /\ ttl' = ttl /\ holder' = holder
      BY <1>3 DEF GetOrSet
    <2>2. Proceeds(t, "idle", None, 0)
      BY <1>1, <1>2, <2>1, EndProceeds
    <2> QED
      BY <2>2
  <1>4. CASE Current(c.key) = << >>
    <2>1. /\ store' = Without(store, Outdated(c.key)) /\ ttl' = Without(ttl, Outdated(c.key))
          /\ pc' = [pc EXCEPT ![t] = "making"] /\ local' = [local EXCEPT ![t] = c]
          /\ holder' = t
      BY <1>4 DEF GetOrSet, Purge, Go
    <2>2. c.ts \in Times /\ c.ts <= Horizon /\ c.ts <= c.ts
      BY HorizonIsATime DEF FactoryCalls, Times, Inv, Placed, TypeOK
    <2>3. \A n \in Times : Ever(store, n) => Ever(store', n)
      BY <2>1, WithoutKeepsEver
    <2>4. DOMAIN store' \subseteq Keys /\ DOMAIN ttl' \subseteq DOMAIN store'
      BY <1>2, <2>1 DEF Without, Restrict
    <2>5. Proceeds(t, "making", c, c.ts)
      BY <2>1, <2>2, <2>3, <2>4 DEF Proceeds
    <2> QED
      BY <2>5
  <1> QED
    BY <1>3, <1>4

LEMMA InsideProceeds ==
    ASSUME AsyncChronoMapAssumption, Inv, NEW t \in Tasks, NEW c \in Calls, Inside(t, c),
           holder = Nobody, now' = now, Leaves(queue, t, queue'),
           Writes(c) => \A u \in ToSet(queue') : AsksNow(local[u]) => c.ts <= local[u].ts
    PROVE  \E w, d, m : Proceeds(t, w, d, m)
  <1>1. Nobody \notin Tasks
    BY DEF AsyncChronoMapAssumption
  <1>2. DOMAIN store \subseteq Keys /\ DOMAIN ttl \subseteq DOMAIN store
    BY DEF Inv, Placed, TypeOK
  <1>3. CASE c.op = "put" /\ Put(t, c)
    <2>1. c \in PutCalls /\ Writes(c)
      BY <1>3 DEF Writes, Calls, PutCalls, FactoryCalls, GetCalls, OtherCalls
    <2> QED
      BY <1>3, <2>1, PutProceeds
  <1>4. CASE c.op = "get_or_set" /\ GetOrSet(t, c)
    <2>1. c \in FactoryCalls /\ Writes(c)
      BY <1>4 DEF Writes, Calls, PutCalls, FactoryCalls, GetCalls, OtherCalls
    <2> QED
      BY <1>4, <2>1, GetOrSetProceeds
  <1>5. CASE c.op = "get" /\ Get(t, c)
    <2>1. /\ Done(t) /\ holder' = holder
          /\ store' = Without(store, Outdated(c.key)) /\ ttl' = Without(ttl, Outdated(c.key))
      BY <1>5 DEF Get, Purge
    <2>2. DOMAIN ttl' \subseteq DOMAIN store'
      BY <1>2, <2>1 DEF Without, Restrict
    <2> QED
      BY <1>1, <2>1, <2>2, EndProceeds
  <1>6. CASE c.op = "delete" /\ Delete(t, c)
    <2>1. /\ Done(t) /\ holder' = holder
          /\ store' = Without(store, {c.key}) /\ ttl' = Without(ttl, {c.key} \cap DOMAIN store)
      BY <1>6 DEF Delete
    <2>2. DOMAIN ttl' \subseteq DOMAIN store'
      BY <1>2, <2>1 DEF Without, Restrict
    <2> QED
      BY <1>1, <2>1, <2>2, EndProceeds
  <1>7. CASE c.op = "read" /\ (Latest(t) \/ ListKeys(t))
    <2>1. Done(t) /\ holder' = holder /\ store' = store /\ ttl' = ttl
      BY <1>7 DEF Latest, ListKeys
    <2> QED
      BY <1>1, <1>2, <2>1, EndProceeds
  <1> QED
    BY <1>3, <1>4, <1>5, <1>6, <1>7 DEF Inside

-----------------------------------------------------------------------------
(***************************************************************************)
(* The steps.                                                              *)
(***************************************************************************)
LEMMA LockKeepsInv ==
    ASSUME AsyncChronoMapAssumption, Inv, NEW t \in Tasks, NEW c \in Calls,
           pc[t] \in {"idle", "telling"}, AsksNow(c) => c.ts = now, Lock(t, c)
    PROVE  Inv'
  <1>1. CASE /\ holder = Nobody /\ queue = << >>
             /\ Inside(t, c)
             /\ UNCHANGED <<queue, now>>
    <2>1. queue \in Seq(Tasks) /\ IsInjective(queue)
      BY DEF Inv, Placed, TypeOK
    <2>2. ToSet(queue) = {}
      BY <1>1 DEF ToSet
    <2>3. Leaves(queue, t, queue') /\ ToSet(queue') = {}
      BY <1>1, <2>1, <2>2, NotInIt
    <2>4. \E w, d, m : Proceeds(t, w, d, m)
      BY <1>1, <2>3, InsideProceeds
    <2> QED
      BY <2>4, ProceedingKeepsInv
  <1>2. CASE /\ queue' = Append(queue, t)
             /\ Go(t, "waiting", c)
             /\ UNCHANGED <<store, ttl, now, holder>>
    BY <1>2, JoiningKeepsInv
  <1> QED
    BY <1>1, <1>2 DEF Lock

LEMMA EnterKeepsInv ==
    ASSUME AsyncChronoMapAssumption, Inv, NEW t \in Tasks, Enter(t)
    PROVE  Inv'
  <1>1. /\ holder = Nobody /\ queue # << >> /\ Head(queue) = t
        /\ queue' = Tail(queue) /\ Inside(t, local[t]) /\ now' = now
    BY DEF Enter
  <1>2. queue \in Seq(Tasks) /\ IsInjective(queue)
    BY DEF Inv, Placed, TypeOK
  <1>3. Leaves(queue, t, queue') /\ \A u \in ToSet(queue') : Before(queue, t, u)
    BY <1>1, <1>2, FirstLeaves
  <1>4. local[t] \in Calls
    <2>1. t \in ToSet(queue)
      BY <1>1, <1>2 DEF ToSet
    <2> QED
      BY <2>1, WaiterTookTheTime
  <1>5. ASSUME Writes(local[t]), NEW u \in ToSet(queue'), AsksNow(local[u])
        PROVE  local[t].ts <= local[u].ts
    <2>1. u \in ToSet(queue)
      BY <1>3 DEF Leaves
    <2> QED
      BY <1>3, <1>5, <2>1 DEF Inv, Turns
  <1>6. \E w, d, m : Proceeds(t, w, d, m)
    BY <1>1, <1>3, <1>4, <1>5, InsideProceeds
  <1> QED
    BY <1>6, ProceedingKeepsInv

LEMMA FactoryWrites ==
    ASSUME AsyncChronoMapAssumption, Inv, NEW t \in Tasks, NEW v \in Values, Made(t, v)
    PROVE  /\ holder = t /\ local[t] \in FactoryCalls /\ t \notin ToSet(queue)
           /\ local[t].ts \in Times /\ local[t].ts <= Horizon /\ local[t].key \in Keys
           /\ InsertVersion(<< >>, [ts |-> local[t].ts, val |-> v]) = <<[ts |-> local[t].ts, val |-> v]>>
  <1>1. pc[t] = "making"
    BY DEF Made
  <1>2. holder = t /\ local[t] \in FactoryCalls /\ t \notin ToSet(queue) /\ now \in Times
    BY <1>1 DEF Inv, Called, Placed, TypeOK
  <1>3. local[t].ts \in Times /\ local[t].ts <= Horizon /\ local[t].key \in Keys
    BY <1>2, HorizonIsATime DEF FactoryCalls, Times
  <1>4. InsertVersion(<< >>, [ts |-> local[t].ts, val |-> v]) = <<[ts |-> local[t].ts, val |-> v]>>
    BY DEF InsertVersion
  <1> QED
    BY <1>2, <1>3, <1>4

LEMMA MadeKeepsInv ==
    ASSUME AsyncChronoMapAssumption, Inv, NEW t \in Tasks, NEW v \in Values, Made(t, v)
    PROVE  Inv'
  <1> DEFINE c == local[t]
             h == AutoPrune(<<[ts |-> c.ts, val |-> v]>>, Cap)
  <1>1. /\ holder' = Nobody /\ queue' = queue /\ now' = now
        /\ pc' = [pc EXCEPT ![t] = "telling"] /\ local' = [local EXCEPT ![t] = Rest(c)]
        /\ store' = Updated(store, Single(c.key, h))
        /\ ttl' = Extended(c.key, c.life)
    BY DEF Made, Announce, Go
  <1>2. /\ holder = t /\ c \in FactoryCalls /\ t \notin ToSet(queue)
        /\ c.ts \in Times /\ c.ts <= Horizon /\ c.key \in Keys
        /\ InsertVersion(<< >>, [ts |-> c.ts, val |-> v]) = <<[ts |-> c.ts, val |-> v]>>
    BY FactoryWrites
  <1>3. Leaves(queue, t, queue')
    BY <1>1, <1>2, NotInIt DEF Inv, Placed, TypeOK
  <1>4. \A u \in ToSet(queue') : AsksNow(local[u]) => c.ts <= local[u].ts
    BY <1>1, <1>2 DEF Inv, Turns, AsyncChronoMapAssumption
  <1>5. Rest(c) \in Loops \cup {None}
    BY <1>2, RestIsALoop
  <1>6. ASSUME NEW n \in Times, n >= c.ts, Ever(store, n)
        PROVE  Ever(store', n)
    <2>1. c.ts \in 0 .. n
      BY <1>2, <1>6 DEF Times
    <2>2. h \in Seq(Until(n)) /\ Ordered(h)
      BY <1>2, <1>6, <2>1, WriteKeepsEver
    <2> QED
      BY <1>1, <1>6, <2>2, UpdateKeepsEver
  <1>7. DOMAIN store' \subseteq Keys /\ DOMAIN ttl' \subseteq DOMAIN store'
    <2>1. DOMAIN store \subseteq Keys /\ DOMAIN ttl \subseteq DOMAIN store
      BY DEF Inv, Placed, TypeOK
    <2> QED
      BY <1>1, <1>2, <2>1 DEF Extended, Updated, Single
  <1> HIDE DEF c
  <1>8. Proceeds(t, "telling", Rest(c), c.ts)
    BY <1>1, <1>2, <1>3, <1>4, <1>5, <1>6, <1>7 DEF Proceeds
  <1> QED
    BY <1>8, ProceedingKeepsInv

LEMMA GivenIsATime ==
    ASSUME AsyncChronoMapAssumption, now \in Times, NEW at, at = None \/ at \in Times
    PROVE  /\ Given(at) \in Times /\ (at = None => Given(at) = now)
           /\ (at # None => at <= Horizon) => Given(at) \in 0 .. Horizon
  BY HorizonIsATime DEF Given, Times, AsyncChronoMapAssumption

(***************************************************************************)
(* A call comes to the lock with what it was given.                        *)
(***************************************************************************)
Comes(t) ==
    \E c \in Calls :
       /\ pc[t] \in {"idle", "telling"}
       /\ AsksNow(c) => c.ts = now
       /\ Lock(t, c)

LEMMA ComingKeepsInv ==
    ASSUME AsyncChronoMapAssumption, Inv, NEW t \in Tasks, Comes(t)
    PROVE  Inv'
  <1>1. PICK c \in Calls : /\ pc[t] \in {"idle", "telling"}
                           /\ AsksNow(c) => c.ts = now
                           /\ Lock(t, c)
    BY DEF Comes
  <1> QED
    BY <1>1, LockKeepsInv

LEMMA PutNextComes ==
    ASSUME AsyncChronoMapAssumption, Inv, NEW t \in Tasks, pc[t] \in {"idle", "telling"},
           NEW c \in Loops, PutNext(t, c)
    PROVE  Comes(t)
  <1>1. PICK k \in DOMAIN c.items : Lock(t, [c EXCEPT !.key = k, !.ts = Given(c.at)])
    BY DEF PutNext
  <1> DEFINE e == [c EXCEPT !.key = k, !.ts = Given(c.at)]
  <1>2. k \in Keys
    BY DEF Loops, Batches
  <1>3. Given(c.at) \in 0 .. Horizon
    <2>1. c.at \in Stamps /\ (c.at # None => c.at <= Horizon)
      BY DEF Loops, Past
    <2>2. c.at = None \/ c.at \in Times
      BY <2>1 DEF AsyncChronoMapAssumption
    <2>3. now \in Times
      BY DEF Inv, Placed, TypeOK
    <2> QED
      BY <2>1, <2>2, <2>3, GivenIsATime
  <1>4. e \in PutCalls
    BY <1>2, <1>3 DEF Loops, PutCalls
  <1>5. e \in Calls /\ ~AsksNow(e)
    BY <1>4 DEF Calls, AsksNow, PutCalls
  <1> HIDE DEF e
  <1> QED
    BY <1>1, <1>5 DEF e, Comes

LEMMA CallsCome ==
    ASSUME AsyncChronoMapAssumption, Inv, NEW t \in Tasks
    PROVE  /\ \A items \in Items, at \in Stamps, life \in Lives : PutMany(t, items, at, life) => Comes(t)
           /\ \A k \in Keys, at \in Asked : CallGet(t, k, at) => Comes(t)
           /\ \A k \in Keys, life \in Lives : CallGetOrSet(t, k, life) => Comes(t)
           /\ \A k \in Keys : CallDelete(t, k) => Comes(t)
           /\ CallReader(t) => Comes(t)
  <1>1. now \in Times /\ now \in 0 .. Horizon
    BY HorizonIsATime DEF Inv, Placed, TypeOK
  <1>2. ASSUME NEW items \in Items, NEW at \in Stamps, NEW life \in Lives,
               PutMany(t, items, at, life)
        PROVE  Comes(t)
    <2> DEFINE c == [op |-> "put", items |-> items, at |-> at, life |-> life,
                     key |-> None, ts |-> None]
    <2>1. items \in Batches
      BY DEF Items, Batches
    <2>2. pc[t] = "idle" /\ (at # None => at <= Horizon) /\ PutNext(t, c)
      <3>1. pc[t] = "idle" /\ (at # None => at <= now + Lead) /\ PutNext(t, c)
        BY <1>2 DEF PutMany
      <3>2. at # None => at \in Times
        BY DEF AsyncChronoMapAssumption
      <3> QED
        BY <1>1, <3>1, <3>2, HorizonIsATime
    <2>3. c \in Loops
      BY <2>1, <2>2 DEF Loops, Past
    <2> HIDE DEF c
    <2> QED
      BY <2>2, <2>3, PutNextComes
  <1>3. ASSUME NEW k \in Keys, NEW at \in Asked, CallGet(t, k, at)
        PROVE  Comes(t)
    <2> DEFINE c == [op |-> "get", key |-> k, at |-> at, ts |-> Given(at)]
    <2>1. Given(at) \in Times /\ (at = None => Given(at) = now)
      BY <1>1, GivenIsATime DEF AsyncChronoMapAssumption
    <2>2. c \in Calls /\ (AsksNow(c) => c.ts = now)
      BY <2>1 DEF Calls, GetCalls, AsksNow
    <2>3. pc[t] = "idle" /\ Lock(t, c)
      BY <1>3 DEF CallGet
    <2> HIDE DEF c
    <2> QED
      BY <2>2, <2>3 DEF Comes
  <1>4. ASSUME NEW k \in Keys, NEW life \in Lives, CallGetOrSet(t, k, life)
        PROVE  Comes(t)
    <2> DEFINE c == [op |-> "get_or_set", key |-> k, ts |-> now, life |-> life,
                     items |-> EmptyDict]
    <2>1. pc[t] = "idle" /\ Acceptable(life) /\ Lock(t, c)
      BY <1>4 DEF CallGetOrSet
    <2>2. c \in Calls /\ ~AsksNow(c)
      BY <1>1, <2>1 DEF Calls, FactoryCalls, AsksNow
    <2> HIDE DEF c
    <2> QED
      BY <2>1, <2>2 DEF Comes
  <1>5. ASSUME NEW k \in Keys, CallDelete(t, k)
        PROVE  Comes(t)
    <2> DEFINE c == [op |-> "delete", key |-> k]
    <2>1. pc[t] = "idle" /\ Lock(t, c)
      BY <1>5 DEF CallDelete
    <2>2. c \in Calls /\ ~AsksNow(c)
      BY DEF Calls, OtherCalls, AsksNow
    <2> HIDE DEF c
    <2> QED
      BY <2>1, <2>2 DEF Comes
  <1>6. ASSUME CallReader(t)
        PROVE  Comes(t)
    <2> DEFINE c == [op |-> "read"]
    <2>1. pc[t] = "idle" /\ Lock(t, c)
      BY <1>6 DEF CallReader
    <2>2. c \in Calls /\ ~AsksNow(c)
      BY DEF Calls, OtherCalls, AsksNow
    <2> HIDE DEF c
    <2> QED
      BY <2>1, <2>2 DEF Comes
  <1> QED
    BY <1>2, <1>3, <1>4, <1>5, <1>6

LEMMA ToldKeepsInv ==
    ASSUME AsyncChronoMapAssumption, Inv, NEW t \in Tasks, Told(t)
    PROVE  Inv'
  <1>1. pc[t] = "telling" /\ local[t] \in Loops \cup {None} /\ t \notin ToSet(queue) /\ holder # t
    BY DEF Told, Inv, Called, Placed, TypeOK
  <1>2. CASE /\ Done(t)
             /\ UNCHANGED <<store, ttl, now, holder, queue>>
    <2>1. Leaves(queue, t, queue')
      BY <1>1, <1>2, NotInIt DEF Inv, Placed, TypeOK
    <2>2. DOMAIN ttl' \subseteq DOMAIN store'
      BY <1>2 DEF Inv, Placed, TypeOK
    <2>3. Proceeds(t, "idle", None, 0)
      BY <1>1, <1>2, <2>1, <2>2, EndProceeds
    <2> QED
      BY <2>3, ProceedingKeepsInv
  <1>3. CASE local[t] # None /\ PutNext(t, local[t])
    <2>1. Comes(t)
      BY <1>1, <1>3, PutNextComes
    <2> QED
      BY <2>1, ComingKeepsInv
  <1> QED
    BY <1>2, <1>3 DEF Told

LEMMA FailKeepsInv ==
    ASSUME AsyncChronoMapAssumption, Inv, NEW t \in Tasks, Fail(t)
    PROVE  Inv'
  <1>1. /\ Done(t) /\ queue' = Leaving(t) /\ UNCHANGED <<store, ttl, now>>
        /\ holder' = IF holder = t THEN Nobody ELSE holder
    BY DEF Fail
  <1>2. queue \in Seq(Tasks) /\ IsInjective(queue)
    BY DEF Inv, Placed, TypeOK
  <1>3. Leaves(queue, t, queue')
    <2>1. CASE pc[t] = "waiting"
      <3> DEFINE p == CHOOSE i \in DOMAIN queue : queue[i] = t
      <3>1. t \in ToSet(queue)
        BY <2>1 DEF Inv, Placed, TypeOK
      <3>2. p \in DOMAIN queue /\ queue[p] = t
        BY <3>1 DEF ToSet
      <3>3. queue' = RemoveAt(queue, p)
        BY <1>1, <2>1 DEF Leaving
      <3> HIDE DEF p
      <3> QED
        BY <1>2, <3>2, <3>3, OneLeaves
    <2>2. CASE pc[t] # "waiting"
      BY <1>1, <1>2, <2>2, NotInIt DEF Leaving, Inv, Placed, TypeOK
    <2> QED
      BY <2>1, <2>2
  <1>4. DOMAIN ttl' \subseteq DOMAIN store'
    BY <1>1 DEF Inv, Placed, TypeOK
  <1>5. Proceeds(t, "idle", None, 0)
    BY <1>1, <1>3, <1>4, EndProceeds
  <1> QED
    BY <1>5, ProceedingKeepsInv

LEMMA TickKeepsInv ==
    ASSUME AsyncChronoMapAssumption, Inv, Tick
    PROVE  Inv'
  <1>1. /\ now < MaxTime /\ now' = now + 1
        /\ UNCHANGED <<store, ttl, holder, queue, pc, local>>
    BY DEF Tick
  <1>2. /\ now \in Times /\ now' \in Times /\ now \in Int
        /\ Horizon \in Int /\ Horizon' \in Int /\ Horizon <= Horizon'
    BY <1>1 DEF Inv, Placed, TypeOK, Times, Horizon, AsyncChronoMapAssumption
  <1>3. Placed'
    BY <1>1, <1>2 DEF Inv, Placed, TypeOK
  <1>4. Called'
    <2>1. 0 .. Horizon \subseteq 0 .. Horizon'
      BY <1>1, <1>2
    <2>2. Past \subseteq Past'
      <3>1. ASSUME NEW s \in Stamps, s # None, s <= Horizon PROVE s <= Horizon'
        <4>1. s \in Int
          BY <3>1 DEF AsyncChronoMapAssumption, Times
        <4> QED
          BY <1>1, <1>2, <3>1, <4>1
      <3> QED
        BY <3>1 DEF Past
    <2>3. PutCalls \subseteq PutCalls' /\ FactoryCalls \subseteq FactoryCalls'
      BY <2>1, <2>2 DEF PutCalls, FactoryCalls
    <2>4. Loops \subseteq Loops'
      BY <2>2 DEF Loops
    <2>5. Calls \subseteq Calls'
      BY <2>3 DEF Calls, GetCalls, OtherCalls
    <2>6. Called
      BY DEF Inv
    <2> QED
      BY <1>1, <2>3, <2>4, <2>5, <2>6 DEF Called
  <1>5. Ever(store', Horizon')
    <2>1. Until(Horizon) \subseteq Until(Horizon')
      BY <1>1, <1>2 DEF Until
    <2>2. Ever(store, Horizon)
      BY DEF Inv
    <2>3. ASSUME NEW k \in DOMAIN store PROVE store[k] \in Seq(Until(Horizon')) /\ Ordered(store[k])
      <3>1. store[k] \in Seq(Until(Horizon)) /\ Ordered(store[k])
        BY <2>2 DEF Ever
      <3> HIDE DEF Until
      <3> QED
        BY <2>1, <3>1
    <2> QED
      BY <1>1, <2>3 DEF Ever
  <1>6. Turns'
    BY <1>1 DEF Inv, Turns, AsksNow, Writes
  <1> QED
    BY <1>3, <1>4, <1>5, <1>6 DEF Inv

LEMMA NextKeepsInv ==
    ASSUME AsyncChronoMapAssumption, Inv, [Next]_vars
    PROVE  Inv'
  <1>1. CASE Tick
    BY <1>1, TickKeepsInv
  <1>2. ASSUME NEW t \in Tasks, Step(t)
        PROVE  Inv'
    <2>1. CASE Goes(t)
      BY <2>1, EnterKeepsInv, ToldKeepsInv, MadeKeepsInv DEF Goes
    <2>2. CASE Fail(t)
      BY <2>2, FailKeepsInv
    <2> QED
      <3>1. CASE Comes(t)
        BY <3>1, ComingKeepsInv
      <3> QED
        BY <1>2, <2>1, <2>2, <3>1, CallsCome DEF Step
  <1>3. CASE UNCHANGED vars
    <2>1. Placed' /\ Called' /\ Turns'
      <3>1. Calls' = Calls /\ FactoryCalls' = FactoryCalls /\ Loops' = Loops
        BY <1>3 DEF vars, Calls, FactoryCalls, Loops, PutCalls, Past, Horizon, GetCalls, OtherCalls
      <3> QED
        BY <1>3, <3>1 DEF Inv, vars, Placed, TypeOK, Called, Turns, AsksNow, Writes
    <2>2. Ever(store', Horizon')
      BY <1>3 DEF Inv, vars, Horizon
    <2> QED
      BY <2>1, <2>2 DEF Inv
  <1> QED
    BY <1>1, <1>2, <1>3 DEF Next

LEMMA InitHasInv ==
    ASSUME AsyncChronoMapAssumption, Init
    PROVE  Inv
  <1>1. /\ store = EmptyDict /\ ttl = EmptyDict /\ now = 0
        /\ holder = Nobody /\ queue = << >>
        /\ pc = [t \in Tasks |-> "idle"] /\ local = [t \in Tasks |-> None]
        /\ MaxTime \in Nat /\ Nobody \notin Tasks
    BY DEF Init, AsyncChronoMapAssumption
  <1>2. ToSet(queue) = {} /\ IsInjective(queue) /\ queue \in Seq(Tasks)
    BY <1>1 DEF ToSet, IsInjective
  <1>3. DOMAIN store = {} /\ DOMAIN ttl = {}
    BY <1>1 DEF EmptyDict
  <1> QED
    BY <1>1, <1>2, <1>3 DEF Inv, Placed, TypeOK, Called, Ever, Turns, Times

(***************************************************************************)
(* For any number of tasks, whoever raises or is cancelled meanwhile: the  *)
(* lock is held exactly while a factory is awaited, and whoever waits is   *)
(* in the queue, once.                                                     *)
(***************************************************************************)
THEOREM LockIsNeverLost == Spec => []TypeOK
  <1> USE AsyncChronoMapAssumption
  <1>1. Init => Inv
    BY InitHasInv
  <1>2. Inv /\ [Next]_vars => Inv'
    BY NextKeepsInv
  <1>3. Inv => TypeOK
    BY DEF Inv, Placed
  <1> QED
    BY <1>1, <1>2, <1>3, PTL DEF Spec

LEMMA CurrentIsOrdered ==
    ASSUME NEW n, Ever(store, n), NEW k
    PROVE  Current(k) \in Seq(Until(n)) /\ Ordered(Current(k))
  <1>1. << >> \in Seq(Until(n)) /\ Ordered(<< >>)
    BY DEF Ordered
  <1>2. k \in DOMAIN store => store[k] \in Seq(Until(n)) /\ Ordered(store[k])
    BY DEF Ever
  <1> QED
    BY <1>1, <1>2 DEF Current, HistoryOf

LEMMA FirstAsksOfTheNewest ==
    ASSUME Inv, NEW t \in Tasks, Enter(t), AsksNow(local[t])
    PROVE  LET found == Current(local[t].key)
           IN  IndexAsOf(found, local[t].ts) = Len(found)
  <1> DEFINE n == local[t].ts
             h == Current(local[t].key)
  <1>1. t \in ToSet(queue)
    BY DEF Enter, Inv, Placed, ToSet
  <1>2. n \in Times /\ n \in Int
    BY <1>1, WaiterTookTheTime DEF Times
  <1>3. Ever(store, n)
    BY <1>1 DEF Inv, Turns
  <1> HIDE DEF n
  <1>4. h \in Seq(Until(n)) /\ Ordered(h)
    BY <1>3, CurrentIsOrdered
  <1>5. Timed(Until(n))
    BY UntilIsTimed
  <1> HIDE DEF h
  <1>6. /\ BisectRight(h, n) \in 0 .. Len(h)
        /\ \A j \in BisectRight(h, n) + 1 .. Len(h) : n < h[j].ts
    <2> HIDE DEF Until
    <2> QED
      BY <1>2, <1>4, <1>5, BisectRightFinds
  <1>7. \A j \in 1 .. Len(h) : h[j].ts \in Int /\ h[j].ts <= n
    <2>1. \A j \in 1 .. Len(h) : h[j] \in Until(n)
      <3> HIDE DEF Until
      <3> QED
        BY <1>4
    <2> QED
      BY <1>2, <2>1 DEF Until
  <1>8. BisectRight(h, n) = Len(h)
    <2> SUFFICES ASSUME BisectRight(h, n) # Len(h) PROVE FALSE
      OBVIOUS
    <2>1. Len(h) \in Nat /\ Len(h) \in BisectRight(h, n) + 1 .. Len(h) /\ Len(h) \in 1 .. Len(h)
      BY <1>4, <1>6
    <2> QED
      BY <1>2, <1>6, <1>7, <2>1
  <1> QED
    BY <1>8 DEF IndexAsOf, n, h

(***************************************************************************)
(* As long as nobody stamps a version ahead of the clock, a question about *)
(* the present finds the newest version however long it waited, for any    *)
(* number of tasks: the queue is in the order in which they took the time. *)
(***************************************************************************)
THEOREM QuestionsAreNotOvertaken ==
    ASSUME Lead = 0
    PROVE  Spec => NowIsNewest
  <1> USE AsyncChronoMapAssumption
  <1> DEFINE Finds == \A t \in Tasks :
                (Enter(t) /\ local[t].op = "get" /\ local[t].at = None)
                   => LET found == Current(local[t].key)
                      IN  IndexAsOf(found, local[t].ts) = Len(found)
  <1>1. Init => Inv
    BY InitHasInv
  <1>2. Inv /\ [Next]_vars => Inv'
    BY NextKeepsInv
  <1>3. Inv => Finds
    BY FirstAsksOfTheNewest DEF AsksNow
  <1>4. Inv /\ [Next]_vars => [Finds]_vars
    BY <1>3
  <1> HIDE DEF Finds
  <1>5. Spec => [][Finds]_vars
    BY <1>1, <1>2, <1>4, PTL DEF Spec
  <1> QED
    BY <1>5 DEF NowIsNewest, Finds

-----------------------------------------------------------------------------
(***************************************************************************)
(* The refinement of TimeMap.  Its operators are those of this module.     *)
(***************************************************************************)
LEMMA SameDicts ==
    ASSUME NEW d, NEW e, NEW S, NEW k, NEW v
    PROVE  /\ Promise!Without(d, S) = Without(d, S)
           /\ Promise!Updated(d, e) = Updated(d, e)
           /\ Promise!Single(k, v) = Single(k, v)
  BY DEF Promise!Without, Without, Promise!Updated, Updated, Promise!Single, Single,
         Promise!Restrict, Restrict

LEMMA SameHistories ==
    ASSUME NEW h, NEW v, NEW n
    PROVE  /\ Promise!InsertVersion(h, v) = InsertVersion(h, v)
           /\ Promise!AutoPrune(h, n) = AutoPrune(h, n)
           /\ Promise!IndexAsOf(h, n) = IndexAsOf(h, n)
           /\ Promise!Last(h) = Last(h)
  <1>1. Promise!InsertVersion(h, v) = InsertVersion(h, v)
    BY DEF Promise!InsertVersion, InsertVersion, Promise!InsertAt, InsertAt,
           Promise!BisectRight, BisectRight
  <1>2. Promise!AutoPrune(h, n) = AutoPrune(h, n)
    BY DEF Promise!AutoPrune, AutoPrune, Promise!KeepLast, KeepLast
  <1>3. Promise!IndexAsOf(h, n) = IndexAsOf(h, n)
    BY DEF Promise!IndexAsOf, IndexAsOf, Promise!BisectRight, BisectRight
  <1>4. Promise!Last(h) = Last(h)
    BY DEF Promise!Last, Last
  <1> QED
    BY <1>1, <1>2, <1>3, <1>4

(***************************************************************************)
(* What the map holds for its users.                                       *)
(***************************************************************************)
Held == Restrict(store, Live)

Expiry == Restrict(ttl, DOMAIN ttl \cap Live)

LEMMA WhatIsHeld ==
    ASSUME Inv
    PROVE  /\ DOMAIN Held = {k \in DOMAIN store : ~(k \in DOMAIN ttl /\ now >= ttl[k])}
           /\ Held = [k \in DOMAIN Held |-> store[k]]
           /\ DOMAIN Expiry = {k \in DOMAIN ttl : ~(now >= ttl[k])}
           /\ Expiry = [k \in DOMAIN Expiry |-> ttl[k]]
           /\ DOMAIN Expiry \subseteq DOMAIN Held
  BY DEF Held, Expiry, Restrict, Live, Expired, Inv, Placed, TypeOK

(***************************************************************************)
(* The expired keys that nothing has removed.                              *)
(***************************************************************************)
Lingering == DOMAIN store \ Live

LEMMA WhatLingers ==
    ASSUME DOMAIN ttl \subseteq DOMAIN store
    PROVE  /\ Lingering = {k \in DOMAIN ttl : now >= ttl[k]}
           /\ DOMAIN store = DOMAIN Held \cup Lingering
  BY DEF Lingering, Held, Restrict, Live, Expired

LEMMA SameCounts ==
    ASSUME NEW S
    PROVE  Promise!Cardinality(S) = Cardinality(S)
  BY DEF Promise!Cardinality, Cardinality

LEMMA WhatAKeyHas ==
    ASSUME NEW k
    PROVE  /\ Promise!HeldOf(k) = Current(k)
           /\ Promise!NewestOf(k) = NewestValue(k)
           /\ \A t : Promise!AsOf(k, t) = AsOf(k, t)
  <1>1. Promise!HeldOf(k) = Current(k)
    BY DEF Promise!HeldOf, Current, HistoryOf, Restrict, Live
  <1>2. Promise!NewestOf(k) = NewestValue(k)
    BY <1>1, SameHistories DEF Promise!NewestOf, NewestValue
  <1>3. \A t : Promise!AsOf(k, t) = AsOf(k, t)
    BY <1>1, SameHistories DEF Promise!AsOf, AsOf
  <1> QED
    BY <1>1, <1>2, <1>3

LEMMA NothingIsTaken ==
    ASSUME NEW f, f = [k \in DOMAIN f |-> f[k]]
    PROVE  Promise!Without(f, {}) = f
  <1>1. (DOMAIN f) \ {} = DOMAIN f
    OBVIOUS
  <1>2. Promise!Without(f, {}) = [k \in (DOMAIN f) \ {} |-> f[k]]
    BY SameDicts DEF Without, Restrict
  <1> QED
    BY <1>1, <1>2

LEMMA Becoming ==
    ASSUME now' = now, NEW h, NEW x, Held' = h, Expiry' = x,
           h = [k \in DOMAIN h |-> h[k]], x = [k \in DOMAIN x |-> x[k]],
           \A k \in DOMAIN x : ~(x[k] <= now),
           Lingering' \subseteq Lingering
    PROVE  Promise!Become(h, x)
  <1> DEFINE over == {k \in DOMAIN x : x[k] <= now'}
  <1>1. over = {}
    OBVIOUS
  <1>2. Promise!Without(h, over) = h /\ Promise!Without(x, over) = x
    BY <1>1, NothingIsTaken
  <1> HIDE DEF over
  <1>3. Held' = Promise!Without(h, over) /\ Expiry' = Promise!Without(x, over)
    BY <1>2
  <1>4. Lingering' \subseteq (Lingering \cup over) \ DOMAIN Held'
    <2>1. Lingering' \cap DOMAIN Held' = {}
      BY DEF Lingering, Held, Restrict, Live
    <2> QED
      BY <2>1
  <1> QED
    BY <1>3, <1>4 DEF Promise!Become, over, Held, Expiry, Lingering

LEMMA NothingHeldIsOver ==
    ASSUME Inv
    PROVE  /\ \A k \in DOMAIN Expiry : ~(Expiry[k] <= now)
           /\ Held = [k \in DOMAIN Held |-> Held[k]]
           /\ Expiry = [k \in DOMAIN Expiry |-> Expiry[k]]
  <1>1. /\ Held = [k \in DOMAIN Held |-> store[k]]
        /\ DOMAIN Expiry = {k \in DOMAIN ttl : ~(now >= ttl[k])}
        /\ Expiry = [k \in DOMAIN Expiry |-> ttl[k]]
    BY WhatIsHeld
  <1> QED
    BY <1>1

(***************************************************************************)
(* A step that is not to be seen.                                          *)
(***************************************************************************)
LEMMA NothingHappens ==
    ASSUME answer' = Silent, told' = {}, now' = now, Held' = Held, Expiry' = Expiry,
           Lingering' \subseteq Lingering
    PROVE  Promise!Next
  <1>1. Promise!Nothing
    BY DEF Promise!Nothing, Promise!Same, Promise!Quiet, Held, Expiry, Lingering
  <1> QED
    BY <1>1 DEF Promise!Next

LEMMA SingleIsWritten ==
    ASSUME NEW k \in Keys, NEW v \in Values
    PROVE  /\ Promise!Single(k, v) \in Promise!Items
           /\ DOMAIN Promise!Single(k, v) = {k} /\ Promise!Single(k, v)[k] = v
  <1>1. Promise!Single(k, v) = [j \in {k} |-> v]
    BY DEF Promise!Single
  <1>2. {k} \in (SUBSET Keys) \ {{}}
    OBVIOUS
  <1>3. [j \in {k} |-> v] \in [{k} -> Values]
    OBVIOUS
  <1>4. Promise!Single(k, v) \in Promise!Items
    BY <1>1, <1>2, <1>3 DEF Promise!Items
  <1> QED
    BY <1>1, <1>4

LEMMA AWrite ==
    ASSUME AsyncChronoMapAssumption, Inv, \A l \in Lifetimes : l <= MaxTime,
           NEW k \in Keys, NEW v \in Values, NEW s \in Times, NEW life \in Lives, Acceptable(life),
           now' = now, answer' = Silent,
           told' = {[key |-> k, old |-> NewestValue(k), new |-> v, ts |-> s]},
           Held' = Updated(Held, Single(k,
                      AutoPrune(InsertVersion(Current(k), [ts |-> s, val |-> v]), Cap))),
           Expiry' = IF life = None THEN Expiry ELSE Updated(Expiry, Single(k, now + life)),
           Lingering' \subseteq Lingering
    PROVE  Promise!Next
  <1> DEFINE items == Promise!Single(k, v)
             new(j) == Promise!AutoPrune(
                          Promise!InsertVersion(Promise!HeldOf(j), [ts |-> s, val |-> items[j]]), Cap)
             h == Updated(Held, Single(k,
                      AutoPrune(InsertVersion(Current(k), [ts |-> s, val |-> v]), Cap)))
             x == IF life = None THEN Expiry ELSE Updated(Expiry, Single(k, now + life))
  <1>1. items \in Promise!Items /\ DOMAIN items = {k} /\ items[k] = v
    BY SingleIsWritten
  <1> HIDE DEF items
  <1>2. life \in Promise!Lives /\ (life # None => life \in Int /\ life > 0)
    <2>1. CASE life = None
      BY <2>1 DEF Promise!Lives
    <2>2. CASE life # None
      <3>1. life \in Int /\ life > 0 /\ life <= MaxTime /\ MaxTime \in Nat
        BY <2>2 DEF Lives, Acceptable, AsyncChronoMapAssumption
      <3>2. life \in 1 .. MaxTime
        BY <3>1
      <3> QED
        BY <3>1, <3>2 DEF Promise!Lives
    <2> QED
      BY <2>1, <2>2
  <1>3. new(k) = AutoPrune(InsertVersion(Current(k), [ts |-> s, val |-> v]), Cap)
    BY <1>1, WhatAKeyHas, SameHistories
  <1>4. h = Promise!Updated(Held, [j \in DOMAIN items |-> new(j)])
    <2>1. [j \in DOMAIN items |-> new(j)] = Single(k, new(k))
      <3> HIDE DEF new
      <3> QED
        BY <1>1 DEF Single
    <2> HIDE DEF new
    <2> QED
      BY <1>3, <2>1, SameDicts
  <1>5. x = IF life = None THEN Expiry
            ELSE Promise!Updated(Expiry, [j \in DOMAIN items |-> now + life])
    <2>1. [j \in DOMAIN items |-> now + life] = Single(k, now + life)
      BY <1>1 DEF Single
    <2> QED
      BY <2>1, SameDicts
  <1>6. Promise!Become(h, x)
    <2>1. Held' = h /\ Expiry' = x
      OBVIOUS
    <2>2. h = [j \in DOMAIN h |-> h[j]]
      BY DEF Updated
    <2>3. \A j \in DOMAIN x : ~(x[j] <= now)
      <3>1. now \in Int
        BY DEF Inv, Placed, TypeOK, Times
      <3>2. life # None => ~(now + life <= now)
        BY <1>2, <3>1
      <3>3. \A j \in DOMAIN Expiry : ~(Expiry[j] <= now)
        BY NothingHeldIsOver
      <3> QED
        BY <3>2, <3>3 DEF Updated, Single
    <2>4. x = [j \in DOMAIN x |-> x[j]]
      BY NothingHeldIsOver DEF Updated
    <2> HIDE DEF h, x
    <2> QED
      BY <2>1, <2>2, <2>3, <2>4, Becoming
  <1>7. Promise!Tell(items, s)
    <2>1. told' = {[key |-> j, old |-> Promise!NewestOf(j), new |-> items[j], ts |-> s] : j \in DOMAIN items}
      BY <1>1, WhatAKeyHas
    <2> QED
      BY <2>1 DEF Promise!Tell
  <1>8. Promise!Become(Promise!Updated(Held, [j \in DOMAIN items |-> new(j)]),
                       IF life = None THEN Expiry
                       ELSE Promise!Updated(Expiry, [j \in DOMAIN items |-> now + life]))
    <2> HIDE DEF new, h, x
    <2> QED
      BY <1>4, <1>5, <1>6
  <1>9. Promise!Write(items, s, life)
    BY <1>8 DEF Promise!Write, Held, Expiry
  <1>10. Promise!Put(items, s)
    BY <1>2, <1>7, <1>9 DEF Promise!Put
  <1>11. s \in Promise!Times
    BY DEF Promise!Times, Times
  <1> QED
    BY <1>1, <1>10, <1>11 DEF Promise!Next

(***************************************************************************)
(* How steps of the store show.                                            *)
(***************************************************************************)
LEMMA WhatWillBeHeld ==
    ASSUME DOMAIN ttl' \subseteq DOMAIN store', now' = now
    PROVE  /\ DOMAIN Held' = {k \in DOMAIN store' : ~(k \in DOMAIN ttl' /\ now >= ttl'[k])}
           /\ Held' = [k \in DOMAIN Held' |-> store'[k]]
           /\ DOMAIN Expiry' = {k \in DOMAIN ttl' : ~(now >= ttl'[k])}
           /\ Expiry' = [k \in DOMAIN Expiry' |-> ttl'[k]]
           /\ Lingering' = {k \in DOMAIN ttl' : now >= ttl'[k]}
  BY DEF Held, Expiry, Lingering, Restrict, Live, Expired

LEMMA PurgingHidesNothing ==
    ASSUME Inv, NEW k, now' = now, store' = Without(store, Outdated(k)),
           ttl' = Without(ttl, Outdated(k))
    PROVE  Held' = Held /\ Expiry' = Expiry /\ Lingering' \subseteq Lingering
  <1>1. DOMAIN ttl \subseteq DOMAIN store
    BY DEF Inv, Placed, TypeOK
  <1>2. /\ DOMAIN store' = DOMAIN store \ Outdated(k) /\ DOMAIN ttl' = DOMAIN ttl \ Outdated(k)
        /\ \A j \in DOMAIN store' : store'[j] = store[j]
        /\ \A j \in DOMAIN ttl' : ttl'[j] = ttl[j]
        /\ \A j \in Outdated(k) : j \in DOMAIN ttl /\ now >= ttl[j]
    BY DEF Without, Restrict, Outdated, Expired
  <1>3. /\ DOMAIN Held = {j \in DOMAIN store : ~(j \in DOMAIN ttl /\ now >= ttl[j])}
        /\ Held = [j \in DOMAIN Held |-> store[j]]
        /\ DOMAIN Expiry = {j \in DOMAIN ttl : ~(now >= ttl[j])}
        /\ Expiry = [j \in DOMAIN Expiry |-> ttl[j]]
    BY WhatIsHeld
  <1>4. /\ DOMAIN Held' = {j \in DOMAIN store' : ~(j \in DOMAIN ttl' /\ now >= ttl'[j])}
        /\ Held' = [j \in DOMAIN Held' |-> store'[j]]
        /\ DOMAIN Expiry' = {j \in DOMAIN ttl' : ~(now >= ttl'[j])}
        /\ Expiry' = [j \in DOMAIN Expiry' |-> ttl'[j]]
    BY <1>1, <1>2, WhatWillBeHeld
  <1>5. DOMAIN Held' = DOMAIN Held /\ DOMAIN Expiry' = DOMAIN Expiry
    BY <1>2, <1>3, <1>4
  <1>6. \A j \in DOMAIN Held : store'[j] = store[j]
    BY <1>2, <1>4, <1>5
  <1>7. \A j \in DOMAIN Expiry : ttl'[j] = ttl[j]
    BY <1>2, <1>4, <1>5
  <1>8. Held' = [j \in DOMAIN Held |-> store[j]]
    BY <1>4, <1>5, <1>6
  <1>9. Expiry' = [j \in DOMAIN Expiry |-> ttl[j]]
    BY <1>4, <1>5, <1>7
  <1>10. Lingering' \subseteq Lingering
    BY <1>1, <1>2, WhatLingers, WhatWillBeHeld
  <1> QED
    BY <1>3, <1>8, <1>9, <1>10

LEMMA WritingShows ==
    ASSUME Inv, NEW k, NEW h, now' = now, store' = Updated(store, Single(k, h)),
           DOMAIN ttl' = DOMAIN ttl \ Outdated(k), \A j \in DOMAIN ttl' : ttl'[j] = ttl[j]
    PROVE  /\ Held' = Updated(Held, Single(k, h)) /\ Expiry' = Expiry
           /\ Lingering' \subseteq Lingering
  <1>1. DOMAIN ttl \subseteq DOMAIN store
    BY DEF Inv, Placed, TypeOK
  <1>2. /\ DOMAIN store' = DOMAIN store \cup {k} /\ store'[k] = h
        /\ \A j \in DOMAIN store' : j # k => store'[j] = store[j]
    BY DEF Updated, Single
  <1>3. \A j : j \in Outdated(k) <=> j = k /\ j \in DOMAIN ttl /\ now >= ttl[j]
    BY DEF Outdated, Expired
  <1>4. /\ DOMAIN Held = {j \in DOMAIN store : ~(j \in DOMAIN ttl /\ now >= ttl[j])}
        /\ Held = [j \in DOMAIN Held |-> store[j]]
        /\ DOMAIN Expiry = {j \in DOMAIN ttl : ~(now >= ttl[j])}
        /\ Expiry = [j \in DOMAIN Expiry |-> ttl[j]]
    BY WhatIsHeld
  <1>5. /\ DOMAIN Held' = {j \in DOMAIN store' : ~(j \in DOMAIN ttl' /\ now >= ttl'[j])}
        /\ Held' = [j \in DOMAIN Held' |-> store'[j]]
        /\ DOMAIN Expiry' = {j \in DOMAIN ttl' : ~(now >= ttl'[j])}
        /\ Expiry' = [j \in DOMAIN Expiry' |-> ttl'[j]]
    BY <1>1, <1>2, WhatWillBeHeld
  <1>6. DOMAIN Held' = DOMAIN Held \cup {k} /\ DOMAIN Expiry' = DOMAIN Expiry
    BY <1>2, <1>3, <1>4, <1>5
  <1>7. \A j \in DOMAIN Held \cup {k} : store'[j] = IF j = k THEN h ELSE Held[j]
    <2>1. \A j \in DOMAIN Held : Held[j] = store[j]
      BY <1>4
    <2> QED
      BY <1>2, <1>5, <1>6, <2>1
  <1>8. Updated(Held, Single(k, h)) = [j \in DOMAIN Held \cup {k} |-> IF j = k THEN h ELSE Held[j]]
    BY DEF Updated, Single
  <1>9. Held' = Updated(Held, Single(k, h))
    BY <1>5, <1>6, <1>7, <1>8
  <1>10. \A j \in DOMAIN Expiry : ttl'[j] = ttl[j]
    BY <1>5, <1>6
  <1>11. Expiry' = [j \in DOMAIN Expiry |-> ttl[j]]
    BY <1>5, <1>6, <1>10
  <1>12. Lingering' \subseteq Lingering
    BY <1>1, <1>2, WhatLingers, WhatWillBeHeld
  <1> QED
    BY <1>4, <1>9, <1>11, <1>12

LEMMA WritingForAWhileShows ==
    ASSUME Inv, NEW k, NEW h, NEW e, ~(now >= e),
           now' = now, store' = Updated(store, Single(k, h)), ttl' = Updated(ttl, Single(k, e))
    PROVE  /\ Held' = Updated(Held, Single(k, h)) /\ Expiry' = Updated(Expiry, Single(k, e))
           /\ Lingering' \subseteq Lingering
  <1>1. DOMAIN ttl \subseteq DOMAIN store
    BY DEF Inv, Placed, TypeOK
  <1>2. /\ DOMAIN store' = DOMAIN store \cup {k} /\ store'[k] = h
        /\ \A j \in DOMAIN store' : j # k => store'[j] = store[j]
        /\ DOMAIN ttl' = DOMAIN ttl \cup {k} /\ ttl'[k] = e
        /\ \A j \in DOMAIN ttl' : j # k => ttl'[j] = ttl[j]
    BY DEF Updated, Single
  <1>3. /\ DOMAIN Held = {j \in DOMAIN store : ~(j \in DOMAIN ttl /\ now >= ttl[j])}
        /\ Held = [j \in DOMAIN Held |-> store[j]]
        /\ DOMAIN Expiry = {j \in DOMAIN ttl : ~(now >= ttl[j])}
        /\ Expiry = [j \in DOMAIN Expiry |-> ttl[j]]
    BY WhatIsHeld
  <1>4. /\ DOMAIN Held' = {j \in DOMAIN store' : ~(j \in DOMAIN ttl' /\ now >= ttl'[j])}
        /\ Held' = [j \in DOMAIN Held' |-> store'[j]]
        /\ DOMAIN Expiry' = {j \in DOMAIN ttl' : ~(now >= ttl'[j])}
        /\ Expiry' = [j \in DOMAIN Expiry' |-> ttl'[j]]
    BY <1>1, <1>2, WhatWillBeHeld
  <1>5. DOMAIN Held' = DOMAIN Held \cup {k} /\ DOMAIN Expiry' = DOMAIN Expiry \cup {k}
    BY <1>2, <1>3, <1>4
  <1>6. /\ \A j \in DOMAIN Held : Held[j] = store[j]
        /\ \A j \in DOMAIN Expiry : Expiry[j] = ttl[j]
    BY <1>3
  <1>7. /\ \A j \in DOMAIN Held \cup {k} : store'[j] = IF j = k THEN h ELSE Held[j]
        /\ \A j \in DOMAIN Expiry \cup {k} : ttl'[j] = IF j = k THEN e ELSE Expiry[j]
    BY <1>2, <1>4, <1>5, <1>6
  <1>8. /\ Updated(Held, Single(k, h)) = [j \in DOMAIN Held \cup {k} |-> IF j = k THEN h ELSE Held[j]]
        /\ Updated(Expiry, Single(k, e))
              = [j \in DOMAIN Expiry \cup {k} |-> IF j = k THEN e ELSE Expiry[j]]
    BY DEF Updated, Single
  <1>9. Lingering' \subseteq Lingering
    BY <1>1, <1>2, WhatLingers, WhatWillBeHeld
  <1> QED
    BY <1>4, <1>5, <1>7, <1>8, <1>9

(***************************************************************************)
(* A deletion.                                                             *)
(***************************************************************************)
LEMMA DeletingShows ==
    ASSUME Inv, NEW k \in Keys, now' = now, told' = {},
           answer' = [deleted |-> Cardinality({k} \cap DOMAIN store)],
           store' = Without(store, {k}), ttl' = Without(ttl, {k} \cap DOMAIN store)
    PROVE  Promise!Next
  <1>1. DOMAIN ttl \subseteq DOMAIN store
    BY DEF Inv, Placed, TypeOK
  <1>2. /\ DOMAIN store' = DOMAIN store \ {k} /\ DOMAIN ttl' = DOMAIN ttl \ {k}
        /\ \A j \in DOMAIN store' : store'[j] = store[j]
        /\ \A j \in DOMAIN ttl' : ttl'[j] = ttl[j]
    BY <1>1 DEF Without, Restrict
  <1>3. /\ DOMAIN Held = {j \in DOMAIN store : ~(j \in DOMAIN ttl /\ now >= ttl[j])}
        /\ Held = [j \in DOMAIN Held |-> store[j]]
        /\ DOMAIN Expiry = {j \in DOMAIN ttl : ~(now >= ttl[j])}
        /\ Expiry = [j \in DOMAIN Expiry |-> ttl[j]]
    BY WhatIsHeld
  <1>4. /\ DOMAIN Held' = {j \in DOMAIN store' : ~(j \in DOMAIN ttl' /\ now >= ttl'[j])}
        /\ Held' = [j \in DOMAIN Held' |-> store'[j]]
        /\ DOMAIN Expiry' = {j \in DOMAIN ttl' : ~(now >= ttl'[j])}
        /\ Expiry' = [j \in DOMAIN Expiry' |-> ttl'[j]]
    BY <1>1, <1>2, WhatWillBeHeld
  <1>5. DOMAIN Held' = (DOMAIN Held) \ {k} /\ DOMAIN Expiry' = (DOMAIN Expiry) \ {k}
    <2>1. ASSUME NEW j PROVE j \in DOMAIN Held' <=> j \in DOMAIN Held /\ j # k
      BY <1>2, <1>3, <1>4
    <2>2. ASSUME NEW j PROVE j \in DOMAIN Expiry' <=> j \in DOMAIN Expiry /\ j # k
      BY <1>2, <1>3, <1>4
    <2> QED
      BY <2>1, <2>2
  <1>6. /\ \A j \in DOMAIN Held : Held[j] = store[j]
        /\ \A j \in DOMAIN Expiry : Expiry[j] = ttl[j]
    BY <1>3
  <1>7. /\ \A j \in DOMAIN Held \ {k} : store'[j] = Held[j]
        /\ \A j \in DOMAIN Expiry \ {k} : ttl'[j] = Expiry[j]
    BY <1>2, <1>4, <1>5, <1>6
  <1> DEFINE h == Promise!Without(Held, {k})
             x == Promise!Without(Expiry, {k})
  <1>8. /\ h = [j \in DOMAIN Held \ {k} |-> Held[j]]
        /\ x = [j \in DOMAIN Expiry \ {k} |-> Expiry[j]]
    BY SameDicts DEF Without, Restrict
  <1> HIDE DEF h, x
  <1>9. Held' = h /\ Expiry' = x
    <2>1. Held' = [j \in (DOMAIN Held) \ {k} |-> Held[j]]
      BY <1>4, <1>5, <1>7
    <2>2. Expiry' = [j \in (DOMAIN Expiry) \ {k} |-> Expiry[j]]
      BY <1>4, <1>5, <1>7
    <2> QED
      BY <1>8, <2>1, <2>2
  <1>10. \A j \in DOMAIN x : ~(x[j] <= now)
    BY <1>8, NothingHeldIsOver
  <1>11. h = [j \in DOMAIN h |-> h[j]] /\ x = [j \in DOMAIN x |-> x[j]]
    BY <1>8
  <1>12. /\ Lingering' \subseteq Lingering /\ Lingering' \cap {k} = {}
         /\ DOMAIN store = DOMAIN Held \cup Lingering
    BY <1>1, <1>2, WhatLingers, WhatWillBeHeld
  <1>13. Promise!Become(h, x)
    BY <1>9, <1>10, <1>11, <1>12, Becoming
  <1>14. answer' = [deleted |-> Promise!Cardinality({k} \cap (DOMAIN Held \cup Lingering))]
    BY <1>12, SameCounts
  <1>15. Promise!Forget({k})
    BY <1>12, <1>13, <1>14 DEF Promise!Forget, Held, Expiry, Lingering, h, x
  <1> QED
    BY <1>15 DEF Promise!Next

(***************************************************************************)
(* The clock.                                                              *)
(***************************************************************************)
LEMMA TickingShows ==
    ASSUME AsyncChronoMapAssumption, Inv, \A k \in DOMAIN ttl : ttl[k] \in Int, Tick
    PROVE  Promise!Next
  <1>1. /\ now < MaxTime /\ now' = now + 1 /\ store' = store /\ ttl' = ttl
        /\ answer' = Silent /\ told' = {}
    BY DEF Tick, Quiet
  <1>2. DOMAIN ttl \subseteq DOMAIN store /\ now \in Int
    BY DEF Inv, Placed, TypeOK, Times
  <1> DEFINE over == {k \in DOMAIN Expiry : Expiry[k] <= now'}
  <1>3. /\ DOMAIN Held = {j \in DOMAIN store : ~(j \in DOMAIN ttl /\ now >= ttl[j])}
        /\ Held = [j \in DOMAIN Held |-> store[j]]
        /\ DOMAIN Expiry = {j \in DOMAIN ttl : ~(now >= ttl[j])}
        /\ Expiry = [j \in DOMAIN Expiry |-> ttl[j]]
    BY WhatIsHeld
  <1>4. /\ DOMAIN Held' = {j \in DOMAIN store : ~(j \in DOMAIN ttl /\ now' >= ttl[j])}
        /\ Held' = [j \in DOMAIN Held' |-> store[j]]
        /\ DOMAIN Expiry' = {j \in DOMAIN ttl : ~(now' >= ttl[j])}
        /\ Expiry' = [j \in DOMAIN Expiry' |-> ttl[j]]
    BY <1>1, <1>2 DEF Held, Expiry, Restrict, Live, Expired
  <1>5. \A k \in DOMAIN ttl : now >= ttl[k] => now' >= ttl[k]
    BY <1>1, <1>2
  <1>6. /\ \A j \in DOMAIN Held : Held[j] = store[j]
        /\ \A j \in DOMAIN Expiry : Expiry[j] = ttl[j]
    BY <1>3
  <1>7. \A j : j \in over <=> j \in DOMAIN ttl /\ ~(now >= ttl[j]) /\ now' >= ttl[j]
    BY <1>1, <1>2, <1>3, <1>6
  <1> HIDE DEF over
  <1>8. DOMAIN Held' = (DOMAIN Held) \ over /\ DOMAIN Expiry' = (DOMAIN Expiry) \ over
    <2>1. ASSUME NEW j PROVE j \in DOMAIN Held' <=> j \in DOMAIN Held /\ j \notin over
      BY <1>3, <1>4, <1>5, <1>7
    <2>2. ASSUME NEW j PROVE j \in DOMAIN Expiry' <=> j \in DOMAIN Expiry /\ j \notin over
      BY <1>3, <1>4, <1>5, <1>7
    <2> QED
      BY <2>1, <2>2
  <1>9. Held' = [j \in (DOMAIN Held) \ over |-> Held[j]]
    BY <1>4, <1>6, <1>8
  <1>10. Expiry' = [j \in (DOMAIN Expiry) \ over |-> Expiry[j]]
    BY <1>4, <1>6, <1>8
  <1>11. Held' = Promise!Without(Held, over) /\ Expiry' = Promise!Without(Expiry, over)
    BY <1>9, <1>10, SameDicts DEF Without, Restrict
  <1>12. Lingering' \subseteq (Lingering \cup over) \ DOMAIN Held'
    <2>1. /\ Lingering = {j \in DOMAIN ttl : now >= ttl[j]}
          /\ Lingering' = {j \in DOMAIN ttl : now' >= ttl[j]}
      BY <1>1, <1>2, WhatLingers DEF Lingering, Live, Expired
    <2>2. ASSUME NEW j \in Lingering' PROVE j \in Lingering \cup over /\ j \notin DOMAIN Held'
      BY <1>4, <1>7, <2>1
    <2> QED
      BY <2>2
  <1>13. Promise!Become(Held, Expiry)
    BY <1>11, <1>12 DEF Promise!Become, Held, Expiry, Lingering, over
  <1>14. Promise!Tick
    BY <1>1, <1>13 DEF Promise!Tick, Promise!Quiet, Held, Expiry
  <1> QED
    BY <1>14 DEF Promise!Next

-----------------------------------------------------------------------------
(***************************************************************************)
(* A cap that leaves at least one version, or none: with a negative one a  *)
(* key can have an empty history, and the factory of a get_or_set() that   *)
(* began with such a key would write to what expires meanwhile.            *)
(***************************************************************************)
CapLeavesOne == Cap # NoCap => Cap >= 0

(***************************************************************************)
(* TimeMap's lifetimes end with its clock.                                 *)
(***************************************************************************)
LifetimesEnd == \A life \in Lifetimes : life <= MaxTime

(***************************************************************************)
(* No key is without versions, and none comes back while a factory makes   *)
(* its value.                                                              *)
(***************************************************************************)
Spared ==
    /\ \A k \in DOMAIN store : store[k] # << >>
    /\ \A k \in DOMAIN ttl : ttl[k] \in Int
    /\ \A t \in Tasks : pc[t] = "making" => local[t].key \notin DOMAIN store

LEMMA InsertionIsLonger ==
    ASSUME NEW D, Timed(D), NEW h \in Seq(D), Ordered(h), NEW v \in D
    PROVE  InsertVersion(h, v) \in Seq(D) /\ Len(InsertVersion(h, v)) = Len(h) + 1
  <1>1. InsertVersion(h, v) \in Seq(D)
    BY InsertOrdered
  <1>2. CASE h = << >> \/ v.ts >= h[Len(h)].ts
    <2>1. InsertVersion(h, v) = Append(h, v)
      BY <1>2 DEF InsertVersion
    <2> QED
      BY <1>1, <2>1
  <1>3. CASE ~(h = << >> \/ v.ts >= h[Len(h)].ts)
    <2>1. InsertVersion(h, v) = InsertAt(h, BisectRight(h, v.ts) + 1, v)
      BY <1>3 DEF InsertVersion
    <2>2. v.ts \in Int
      BY DEF Timed
    <2>3. BisectRight(h, v.ts) \in 0 .. Len(h)
      BY <2>2, BisectRightFinds
    <2>4. Len(InsertAt(h, BisectRight(h, v.ts) + 1, v)) = Len(h) + 1
      BY <2>3, InsertAtFacts
    <2> QED
      BY <1>1, <2>1, <2>4
  <1> QED
    BY <1>2, <1>3

LEMMA CutLeavesOne ==
    ASSUME AsyncChronoMapAssumption, CapLeavesOne, NEW D, NEW h \in Seq(D), Len(h) >= 1
    PROVE  AutoPrune(h, Cap) # << >>
  <1>1. CASE Cap # NoCap /\ Len(h) > Cap
    <2>1. Cap \in Int /\ Cap >= 0 /\ AutoPrune(h, Cap) = KeepLast(h, Cap) /\ Len(h) \in Nat
      BY <1>1 DEF CapLeavesOne, AsyncChronoMapAssumption, AutoPrune
    <2>2. CASE Cap > 0
      <3>1. KeepLast(h, Cap) = SubSeq(h, Len(h) - Cap + 1, Len(h))
        BY <1>1, <2>1, <2>2 DEF KeepLast
      <3>2. /\ Len(h) - Cap + 1 \in 1 .. Len(h) /\ Len(h) \in 1 .. Len(h)
            /\ Len(h) - (Len(h) - Cap + 1) + 1 = Cap
        BY <1>1, <2>1, <2>2
      <3>3. Len(SubSeq(h, Len(h) - Cap + 1, Len(h))) = Cap
        BY <3>2
      <3>4. Len(<< >>) = 0
        OBVIOUS
      <3>5. Len(AutoPrune(h, Cap)) = Cap
        BY <2>1, <3>1, <3>3
      <3> QED
        BY <2>2, <3>4, <3>5
    <2>3. CASE Cap = 0
      <3>1. KeepLast(h, Cap) = SubSeq(h, 1, Len(h))
        BY <2>3 DEF KeepLast
      <3>2. SubSeq(h, 1, Len(h)) = h
        OBVIOUS
      <3> QED
        BY <2>1, <3>1, <3>2
    <2> QED
      BY <2>1, <2>2, <2>3
  <1>2. CASE ~(Cap # NoCap /\ Len(h) > Cap)
    BY <1>2 DEF AutoPrune
  <1> QED
    BY <1>1, <1>2

LEMMA WriteLeavesOne ==
    ASSUME AsyncChronoMapAssumption, CapLeavesOne, Inv, NEW k, NEW s \in 0 .. Horizon, NEW v \in Values,
           NEW h, h = << >> \/ h = HistoryOf(k)
    PROVE  LET g == InsertVersion(h, [ts |-> s, val |-> v])
           IN  g # << >> /\ AutoPrune(g, Cap) # << >>
  <1> DEFINE w == [ts |-> s, val |-> v]
             g == InsertVersion(h, w)
  <1>1. h \in Seq(Until(Horizon)) /\ Ordered(h)
    <2>1. << >> \in Seq(Until(Horizon)) /\ Ordered(<< >>)
      BY DEF Ordered
    <2>2. k \in DOMAIN store => store[k] \in Seq(Until(Horizon)) /\ Ordered(store[k])
      BY DEF Ever, Inv
    <2> QED
      BY <2>1, <2>2 DEF HistoryOf
  <1>2. w \in Until(Horizon)
    BY DEF Until
  <1>3. Timed(Until(Horizon))
    BY UntilIsTimed
  <1> HIDE DEF w
  <1>4. g \in Seq(Until(Horizon)) /\ Len(g) = Len(h) + 1 /\ Len(h) \in Nat
    <2> HIDE DEF Until
    <2> QED
      BY <1>1, <1>2, <1>3, InsertionIsLonger
  <1> HIDE DEF g
  <1>5. g # << >> /\ Len(g) >= 1
    BY <1>4
  <1>6. AutoPrune(g, Cap) # << >>
    <2> HIDE DEF Until
    <2> QED
      BY <1>4, <1>5, CutLeavesOne
  <1> QED
    BY <1>5, <1>6 DEF g, w

-----------------------------------------------------------------------------
(***************************************************************************)
(* Every step keeps Spared and is a step of TimeMap.                       *)
(***************************************************************************)
Promised == answer' = Refused \/ Promise!Next

(***************************************************************************)
(* A task leaves or finishes what it did; nothing is added to the map.     *)
(***************************************************************************)
LEMMA SparedAgain ==
    ASSUME Inv, Spared, NEW t \in Tasks, NEW w, NEW d, Go(t, w, d),
           NEW X, store' = store \/ store' = Without(store, X),
           NEW Y, ttl' = ttl \/ ttl' = Without(ttl, Y),
           w = "making" => d.key \notin DOMAIN store'
    PROVE  Spared'
  <1>1. /\ DOMAIN store' \subseteq DOMAIN store
        /\ \A k \in DOMAIN store' : store'[k] = store[k]
    BY DEF Without, Restrict
  <1>2. DOMAIN ttl' \subseteq DOMAIN ttl /\ \A k \in DOMAIN ttl' : ttl'[k] = ttl[k]
    BY DEF Without, Restrict
  <1>3. /\ pc'[t] = w /\ local'[t] = d
        /\ \A u \in Tasks \ {t} : pc'[u] = pc[u] /\ local'[u] = local[u]
    BY DEF Go, Inv, Placed
  <1> QED
    BY <1>1, <1>2, <1>3 DEF Spared

(***************************************************************************)
(* A version is written while no other task makes one.                     *)
(***************************************************************************)
LEMMA SparedAfterWrite ==
    ASSUME AsyncChronoMapAssumption, Inv, Spared, NEW t \in Tasks, holder \in {Nobody, t},
           NEW w, w # "making", NEW d, Go(t, w, d), NEW k, NEW h, h # << >>, store' = Updated(store, Single(k, h)),
           \/ DOMAIN ttl' \subseteq DOMAIN ttl /\ \A j \in DOMAIN ttl' : ttl'[j] = ttl[j]
           \/ \E e \in Int : ttl' = Updated(ttl, Single(k, e))
    PROVE  Spared'
  <1>1. \A j \in DOMAIN store' : store'[j] # << >>
    BY DEF Updated, Single, Spared
  <1>2. \A j \in DOMAIN ttl' : ttl'[j] \in Int
    BY DEF Updated, Single, Spared
  <1>3. \A u \in Tasks : pc'[u] # "making"
    <2>1. pc' = [pc EXCEPT ![t] = w] /\ DOMAIN pc = Tasks
      BY DEF Go, Inv, Placed
    <2>2. \A u \in Tasks \ {t} : pc[u] # "making"
      <3>1. \A u \in Tasks : pc[u] = "making" <=> holder = u
        BY DEF Inv, Placed, TypeOK
      <3> QED
        BY <3>1 DEF AsyncChronoMapAssumption
    <2> QED
      BY <2>1, <2>2
  <1> QED
    BY <1>1, <1>2, <1>3 DEF Spared

LEMMA ExpiryIsToCome ==
    ASSUME AsyncChronoMapAssumption, Inv, NEW life \in Lives, Acceptable(life), life # None
    PROVE  now + life \in Int /\ ~(now >= now + life)
  <1>1. life \in Int /\ life > 0
    BY DEF Lives, Acceptable, AsyncChronoMapAssumption
  <1>2. now \in Int
    BY DEF Inv, Placed, TypeOK, Times
  <1> QED
    BY <1>1, <1>2

LEMMA PutIsPromised ==
    ASSUME AsyncChronoMapAssumption, CapLeavesOne, LifetimesEnd, Inv, Spared,
           NEW t \in Tasks, NEW c \in PutCalls, Put(t, c), holder = Nobody, now' = now
    PROVE  Spared' /\ Promised
  <1> DEFINE k == c.key
             v == c.items[c.key]
             s == c.ts
  <1>1. k \in Keys /\ v \in Values /\ s \in 0 .. Horizon /\ s \in Times /\ c.life \in Lives
    <2>1. PICK S \in SUBSET Keys : c.items \in [S -> Values]
      BY DEF PutCalls, Batches
    <2>2. Horizon \in Times /\ MaxTime \in Nat
      BY HorizonIsATime DEF Inv, Placed, TypeOK, AsyncChronoMapAssumption
    <2> QED
      BY <2>1, <2>2 DEF PutCalls, Times
  <1>2. Inserted(c) # << >> /\ AutoPrune(Inserted(c), Cap) # << >>
    <2>1. Current(k) = << >> \/ Current(k) = HistoryOf(k)
      BY DEF Current
    <2> QED
      BY <1>1, <2>1, WriteLeavesOne DEF Inserted
  <1>3. /\ DOMAIN Without(ttl, Outdated(k)) = (DOMAIN ttl) \ Outdated(k)
        /\ \A j \in (DOMAIN ttl) \ Outdated(k) : Without(ttl, Outdated(k))[j] = ttl[j]
    BY DEF Without, Restrict
  <1>4. CASE Acceptable(c.life)
    <2> DEFINE h == AutoPrune(Inserted(c), Cap)
    <2>1. /\ store' = Updated(store, Single(k, h))
          /\ ttl' = IF c.life = None THEN Without(ttl, Outdated(k))
                    ELSE Updated(ttl, Single(k, now + c.life))
          /\ Go(t, "telling", Rest(c)) /\ answer' = Silent
          /\ told' = {[key |-> k, old |-> NewestValue(k), new |-> v, ts |-> s]}
      BY <1>4 DEF Put, Announce
    <2>2. h = AutoPrune(InsertVersion(Current(k), [ts |-> s, val |-> v]), Cap)
      BY DEF Inserted
    <2> HIDE DEF h
    <2>3. c.life # None => now + c.life \in Int /\ ~(now >= now + c.life)
      BY <1>1, <1>4, ExpiryIsToCome
    <2>4. /\ Held' = Updated(Held, Single(k, h))
          /\ Expiry' = IF c.life = None THEN Expiry ELSE Updated(Expiry, Single(k, now + c.life))
          /\ Lingering' \subseteq Lingering
      BY <1>3, <2>1, <2>3, WritingShows, WritingForAWhileShows
    <2>5. Promise!Next
      <3> HIDE DEF k, v, s
      <3> QED
        BY <1>1, <1>4, <2>1, <2>2, <2>4, AWrite DEF LifetimesEnd
    <2>6. h # << >>
      BY <1>2 DEF h
    <2>7. \/ DOMAIN ttl' \subseteq DOMAIN ttl /\ \A j \in DOMAIN ttl' : ttl'[j] = ttl[j]
          \/ \E e \in Int : ttl' = Updated(ttl, Single(k, e))
      BY <1>3, <2>1, <2>3
    <2>8. Spared'
      BY <2>1, <2>6, <2>7, SparedAfterWrite
    <2> QED
      BY <2>5, <2>8 DEF Promised
  <1>5. CASE ~Acceptable(c.life)
    <2>1. /\ store' = Updated(store, Single(k, Inserted(c)))
          /\ ttl' = Without(ttl, Outdated(k))
          /\ Go(t, "idle", None) /\ answer' = Refused
      BY <1>5 DEF Put, Done
    <2>2. DOMAIN ttl' \subseteq DOMAIN ttl /\ \A j \in DOMAIN ttl' : ttl'[j] = ttl[j]
      BY <1>3, <2>1
    <2>3. Spared'
      BY <1>2, <2>1, <2>2, SparedAfterWrite
    <2> QED
      BY <2>1, <2>3 DEF Promised
  <1> QED
    BY <1>4, <1>5

LEMMA GetIsPromised ==
    ASSUME AsyncChronoMapAssumption, Inv, Spared,
           NEW t \in Tasks, NEW c \in GetCalls, Get(t, c), now' = now
    PROVE  Spared' /\ Promised
  <1>1. /\ answer' = AsOf(c.key, c.ts) /\ told' = {} /\ Go(t, "idle", None)
        /\ store' = Without(store, Outdated(c.key)) /\ ttl' = Without(ttl, Outdated(c.key))
    BY DEF Get, Purge, Done
  <1>2. Held' = Held /\ Expiry' = Expiry /\ Lingering' \subseteq Lingering
    BY <1>1, PurgingHidesNothing
  <1>3. c.key \in Keys /\ c.ts \in Promise!Times
    BY DEF GetCalls, Times, Promise!Times
  <1>4. Promise!Ask(c.key, c.ts)
    BY <1>1, <1>2, WhatAKeyHas DEF Promise!Ask, Promise!Same, Held, Expiry, Lingering
  <1>5. Promise!Next
    BY <1>3, <1>4 DEF Promise!Next, Promise!Read
  <1>6. Spared'
    BY <1>1, SparedAgain
  <1> QED
    BY <1>5, <1>6 DEF Promised

LEMMA NewestIsAValue ==
    ASSUME Inv, NEW k, Current(k) # << >>
    PROVE  NewestValue(k) \in Values
  <1>1. Current(k) \in Seq(Until(Horizon))
    BY CurrentIsOrdered DEF Inv
  <1>2. Last(Current(k)) \in Until(Horizon)
    <2> HIDE DEF Until
    <2> QED
      BY <1>1 DEF Last
  <1> QED
    BY <1>2 DEF NewestValue, Until

LEMMA GetOrSetIsPromised ==
    ASSUME AsyncChronoMapAssumption, Inv, Spared,
           NEW t \in Tasks, NEW c \in FactoryCalls, GetOrSet(t, c), now' = now
    PROVE  Spared' /\ Promised
  <1> DEFINE k == c.key
  <1>1. k \in Keys
    BY DEF FactoryCalls
  <1>2. CASE Current(k) # << >>
    <2>1. /\ answer' = NewestValue(k) /\ told' = {} /\ Go(t, "idle", None)
          /\ store' = store /\ ttl' = ttl
      BY <1>2 DEF GetOrSet, Done
    <2>2. Promise!Same
      BY <2>1 DEF Promise!Same, Restrict, Live, Expired
    <2>3. NewestValue(k) \in Values
      BY <1>2, NewestIsAValue
    <2>4. Promise!GetOrSet(k, NewestValue(k))
      BY <1>2, <2>1, <2>2, WhatAKeyHas DEF Promise!GetOrSet
    <2>5. Promise!Next
      BY <1>1, <2>3, <2>4 DEF Promise!Next
    <2>6. Spared'
      BY <2>1, SparedAgain
    <2> QED
      BY <2>5, <2>6 DEF Promised
  <1>3. CASE Current(k) = << >>
    <2>1. /\ answer' = Silent /\ told' = {} /\ Go(t, "making", c)
          /\ store' = Without(store, Outdated(k)) /\ ttl' = Without(ttl, Outdated(k))
      BY <1>3 DEF GetOrSet, Purge, Quiet
    <2>2. Held' = Held /\ Expiry' = Expiry /\ Lingering' \subseteq Lingering
      BY <2>1, PurgingHidesNothing
    <2>3. Promise!Next
      BY <2>1, <2>2, NothingHappens
    <2>4. k \notin DOMAIN store'
      <3>1. DOMAIN store' = (DOMAIN store) \ Outdated(k)
        BY <2>1 DEF Without, Restrict
      <3>2. ASSUME k \in DOMAIN store PROVE k \in Outdated(k)
        <4>1. HistoryOf(k) # << >>
          BY <3>2 DEF HistoryOf, Spared
        <4> QED
          BY <1>3, <4>1 DEF Current, Outdated
      <3> QED
        BY <3>1, <3>2
    <2>5. Spared'
      BY <2>1, <2>4, SparedAgain
    <2> QED
      BY <2>3, <2>5 DEF Promised
  <1> QED
    BY <1>2, <1>3

LEMMA ReadersArePromised ==
    ASSUME AsyncChronoMapAssumption, Inv, Spared,
           NEW t \in Tasks, Latest(t) \/ ListKeys(t), now' = now
    PROVE  Spared' /\ Promised
  <1>1. /\ told' = {} /\ Go(t, "idle", None) /\ store' = store /\ ttl' = ttl
    BY DEF Latest, ListKeys, Done
  <1>2. Promise!Same
    BY <1>1 DEF Promise!Same, Restrict, Live, Expired
  <1>3. Spared'
    BY <1>1, SparedAgain
  <1>4. DOMAIN Held = Live /\ \A k \in Live : Held[k] = store[k]
    BY DEF Held, Restrict
  <1>5. CASE Latest(t)
    <2> DEFINE S == {k \in Live : store[k] # << >>}
    <2>1. {k \in DOMAIN Held : Held[k] # << >>} = S
      BY <1>4
    <2>2. \A k \in S : NewestValue(k) = Promise!Last(Held[k]).val
      <3>1. ASSUME NEW k \in S PROVE NewestValue(k) = Promise!Last(Held[k]).val
        <4>1. Current(k) = store[k] /\ store[k] # << >> /\ Held[k] = store[k]
          BY <1>4 DEF Current, HistoryOf, Live
        <4> QED
          BY <4>1, SameHistories DEF NewestValue
      <3> QED
        BY <3>1
    <2>3. answer' = [values |-> [k \in S |-> NewestValue(k)]]
      BY <1>5 DEF Latest
    <2> HIDE DEF S
    <2>4. [k \in S |-> NewestValue(k)]
             = [k \in {k \in DOMAIN Held : Held[k] # << >>} |-> Promise!Last(Held[k]).val]
      BY <2>1, <2>2
    <2>5. Promise!Newest
      BY <1>1, <1>2, <2>3, <2>4, <1>5 DEF Promise!Newest, Promise!Reply, Held
    <2>6. Promise!Next
      BY <2>5 DEF Promise!Next, Promise!Read
    <2> QED
      BY <1>3, <2>6 DEF Promised
  <1>6. CASE ListKeys(t)
    <2>1. answer' = [keys |-> DOMAIN Held]
      BY <1>4, <1>6 DEF ListKeys
    <2>2. Promise!List
      BY <1>1, <1>2, <2>1 DEF Promise!List, Promise!Reply, Held
    <2>3. Promise!Next
      BY <2>2 DEF Promise!Next, Promise!Read
    <2> QED
      BY <1>3, <2>3 DEF Promised
  <1> QED
    BY <1>5, <1>6

LEMMA InsideIsPromised ==
    ASSUME AsyncChronoMapAssumption, CapLeavesOne, LifetimesEnd, Inv, Spared,
           NEW t \in Tasks, NEW c \in Calls, Inside(t, c), holder = Nobody, now' = now
    PROVE  Spared' /\ Promised
  <1>1. CASE c.op = "put" /\ Put(t, c)
    <2>1. c \in PutCalls
      BY <1>1 DEF Calls, PutCalls, FactoryCalls, GetCalls, OtherCalls
    <2> QED
      BY <1>1, <2>1, PutIsPromised
  <1>2. CASE c.op = "get" /\ Get(t, c)
    <2>1. c \in GetCalls
      BY <1>2 DEF Calls, PutCalls, FactoryCalls, GetCalls, OtherCalls
    <2> QED
      BY <1>2, <2>1, GetIsPromised
  <1>3. CASE c.op = "get_or_set" /\ GetOrSet(t, c)
    <2>1. c \in FactoryCalls
      BY <1>3 DEF Calls, PutCalls, FactoryCalls, GetCalls, OtherCalls
    <2> QED
      BY <1>3, <2>1, GetOrSetIsPromised
  <1>4. CASE c.op = "delete" /\ Delete(t, c)
    <2>1. c.key \in Keys
      BY <1>4 DEF Calls, PutCalls, FactoryCalls, GetCalls, OtherCalls
    <2>2. /\ answer' = [deleted |-> Cardinality({c.key} \cap DOMAIN store)]
          /\ told' = {} /\ Go(t, "idle", None)
          /\ store' = Without(store, {c.key}) /\ ttl' = Without(ttl, {c.key} \cap DOMAIN store)
      BY <1>4 DEF Delete, Done
    <2>3. Promise!Next
      BY <2>1, <2>2, DeletingShows
    <2>4. Spared'
      BY <2>2, SparedAgain
    <2> QED
      BY <2>3, <2>4 DEF Promised
  <1>5. CASE c.op = "read" /\ (Latest(t) \/ ListKeys(t))
    BY <1>5, ReadersArePromised
  <1> QED
    BY <1>1, <1>2, <1>3, <1>4, <1>5 DEF Inside

LEMMA MadeIsPromised ==
    ASSUME AsyncChronoMapAssumption, CapLeavesOne, LifetimesEnd, Inv, Spared,
           NEW t \in Tasks, NEW v \in Values, Made(t, v)
    PROVE  Spared' /\ Promised
  <1> DEFINE c == local[t]
             k == c.key
             s == c.ts
             h == AutoPrune(<<[ts |-> s, val |-> v]>>, Cap)
  <1>1. /\ store' = Updated(store, Single(k, h)) /\ ttl' = Extended(k, c.life) /\ now' = now
        /\ Go(t, "telling", Rest(c)) /\ answer' = Silent
        /\ told' = {[key |-> k, old |-> Absent, new |-> v, ts |-> s]}
    BY DEF Made, Announce
  <1>2. /\ holder = t /\ c \in FactoryCalls /\ s \in Times /\ k \in Keys
        /\ InsertVersion(<< >>, [ts |-> s, val |-> v]) = <<[ts |-> s, val |-> v]>>
    BY FactoryWrites
  <1>3. k \notin DOMAIN store /\ k \notin DOMAIN ttl
    BY DEF Made, Spared, Inv, Placed, TypeOK
  <1>4. c.life \in Lives /\ Acceptable(c.life) /\ s \in 0 .. Horizon
    BY <1>2 DEF FactoryCalls
  <1> HIDE DEF c
  <1>5. Current(k) = << >> /\ NewestValue(k) = Absent /\ Outdated(k) = {}
    BY <1>3 DEF Current, HistoryOf, NewestValue, Outdated, Expired
  <1>6. h = AutoPrune(InsertVersion(Current(k), [ts |-> s, val |-> v]), Cap)
    BY <1>2, <1>5
  <1>7. h # << >>
    BY <1>4, <1>6, <1>5, WriteLeavesOne
  <1> HIDE DEF h
  <1>8. c.life # None => now + c.life \in Int /\ ~(now >= now + c.life)
    BY <1>4, ExpiryIsToCome
  <1>9. ttl' = IF c.life = None THEN ttl ELSE Updated(ttl, Single(k, now + c.life))
    BY <1>1 DEF Extended
  <1>10. /\ Held' = Updated(Held, Single(k, h))
         /\ Expiry' = IF c.life = None THEN Expiry ELSE Updated(Expiry, Single(k, now + c.life))
         /\ Lingering' \subseteq Lingering
    <2>1. CASE c.life = None
      <3>1. DOMAIN ttl' = (DOMAIN ttl) \ Outdated(k) /\ \A j \in DOMAIN ttl' : ttl'[j] = ttl[j]
        BY <1>5, <1>9, <2>1
      <3> QED
        BY <1>1, <2>1, <3>1, WritingShows
    <2>2. CASE c.life # None
      BY <1>1, <1>8, <1>9, <2>2, WritingForAWhileShows
    <2> QED
      BY <2>1, <2>2
  <1>11. Promise!Next
    <2> HIDE DEF k, s
    <2> QED
      BY <1>1, <1>2, <1>4, <1>5, <1>6, <1>10, AWrite DEF LifetimesEnd
  <1>12. Spared'
    BY <1>1, <1>2, <1>7, <1>8, <1>9, SparedAfterWrite
  <1> QED
    BY <1>11, <1>12 DEF Promised

(***************************************************************************)
(* A task begins to wait, finishes or fails.                               *)
(***************************************************************************)
LEMMA SilenceIsPromised ==
    ASSUME AsyncChronoMapAssumption, Inv, Spared, NEW t \in Tasks, NEW w, w # "making", NEW d,
           Go(t, w, d), Quiet, UNCHANGED <<store, ttl, now>>
    PROVE  Spared' /\ Promised
  <1>1. Held' = Held /\ Expiry' = Expiry /\ Lingering' = Lingering
    BY DEF Held, Expiry, Lingering, Restrict, Live, Expired
  <1>2. Promise!Next
    BY <1>1, NothingHappens DEF Quiet
  <1>3. Spared'
    BY SparedAgain
  <1> QED
    BY <1>2, <1>3 DEF Promised

LEMMA LockIsPromised ==
    ASSUME AsyncChronoMapAssumption, CapLeavesOne, LifetimesEnd, Inv, Spared,
           NEW t \in Tasks, NEW c \in Calls, Lock(t, c)
    PROVE  Spared' /\ Promised
  <1>1. CASE /\ holder = Nobody /\ queue = << >>
             /\ Inside(t, c)
             /\ UNCHANGED <<queue, now>>
    BY <1>1, InsideIsPromised
  <1>2. CASE /\ Go(t, "waiting", c)
             /\ Quiet
             /\ UNCHANGED <<store, ttl, now, holder>>
    BY <1>2, SilenceIsPromised
  <1> QED
    BY <1>1, <1>2 DEF Lock

LEMMA NextIsPromised ==
    ASSUME AsyncChronoMapAssumption, CapLeavesOne, LifetimesEnd, Inv, Spared, Next
    PROVE  Spared' /\ Promised
  <1>1. CASE Tick
    <2>1. Promise!Next
      BY <1>1, TickingShows DEF Spared
    <2>2. Spared'
      BY <1>1 DEF Tick, Spared
    <2> QED
      BY <2>1, <2>2 DEF Promised
  <1>2. ASSUME NEW t \in Tasks, Step(t)
        PROVE  Spared' /\ Promised
    <2>1. CASE Enter(t)
      <3>1. /\ holder = Nobody /\ now' = now /\ Inside(t, local[t])
            /\ queue # << >> /\ Head(queue) = t
        BY <2>1 DEF Enter
      <3>2. t \in ToSet(queue)
        BY <3>1 DEF Inv, Placed, ToSet
      <3>3. local[t] \in Calls
        BY <3>2, WaiterTookTheTime
      <3> QED
        BY <3>1, <3>3, InsideIsPromised
    <2>2. CASE \E v \in Values : Made(t, v)
      BY <2>2, MadeIsPromised
    <2>3. CASE Comes(t)
      <3>1. PICK c \in Calls : Lock(t, c)
        BY <2>3 DEF Comes
      <3> QED
        BY <3>1, LockIsPromised
    <2>4. CASE Told(t)
      <3>1. CASE Done(t) /\ Quiet /\ UNCHANGED <<store, ttl, now, holder, queue>>
        BY <3>1, SilenceIsPromised DEF Done
      <3>2. CASE local[t] # None /\ PutNext(t, local[t])
        <4>1. pc[t] = "telling" /\ local[t] \in Loops
          BY <2>4, <3>2 DEF Told, Inv, Called
        <4> QED
          BY <2>3, <3>2, <4>1, PutNextComes
      <3> QED
        BY <2>4, <3>1, <3>2 DEF Told
    <2>5. CASE Fail(t)
      BY <2>5, SilenceIsPromised DEF Fail, Done
    <2> QED
      BY <1>2, <2>1, <2>2, <2>3, <2>4, <2>5, CallsCome DEF Step, Goes
  <1> QED
    BY <1>1, <1>2 DEF Next

(***************************************************************************)
(* For any number of tasks that are suspended, raise and are cancelled     *)
(* anywhere, AsyncChronoMap is a TimeMap: every call takes effect at one   *)
(* moment, a get_or_set() when its value is there, and expired keys are    *)
(* seen in what delete() returns and nowhere else.                         *)
(***************************************************************************)
THEOREM CallsTakeEffectAtOnce ==
    ASSUME CapLeavesOne, LifetimesEnd
    PROVE  Spec => ImplementsTimeMap
  <1> USE AsyncChronoMapAssumption, CapLeavesOne, LifetimesEnd
  <1>1. Init => Inv /\ Spared /\ Promise!Init
    <2> SUFFICES ASSUME Init PROVE Inv /\ Spared /\ Promise!Init
      OBVIOUS
    <2>1. /\ store = EmptyDict /\ ttl = EmptyDict /\ now = 0
          /\ pc = [t \in Tasks |-> "idle"] /\ answer = Silent /\ told = {}
      BY DEF Init
    <2>2. DOMAIN store = {} /\ DOMAIN ttl = {}
      BY <2>1 DEF EmptyDict
    <2>3. Spared
      BY <2>1, <2>2 DEF Spared
    <2>4. Restrict(store, Live) = Promise!EmptyDict
      BY <2>2 DEF Restrict, Live, Promise!EmptyDict
    <2>5. Restrict(ttl, DOMAIN ttl \cap Live) = Promise!EmptyDict
      BY <2>2 DEF Restrict, Live, Promise!EmptyDict
    <2>6. DOMAIN store \ Live = {}
      BY <2>2
    <2> QED
      BY <2>1, <2>3, <2>4, <2>5, <2>6, InitHasInv DEF Promise!Init
  <1>2. Inv /\ [Next]_vars => Inv'
    BY NextKeepsInv
  <1>3. Inv /\ Spared /\ [Next]_vars => Spared' /\ [answer' = Refused \/ Promise!Next]_(Promise!vars)
    <2> SUFFICES ASSUME Inv, Spared, [Next]_vars
                 PROVE  Spared' /\ [answer' = Refused \/ Promise!Next]_(Promise!vars)
      OBVIOUS
    <2>1. CASE Next
      BY <2>1, NextIsPromised DEF Promised
    <2>2. CASE UNCHANGED vars
      BY <2>2 DEF vars, Spared, Promise!vars, Restrict, Live, Expired
    <2> QED
      BY <2>1, <2>2
  <1>4. Spec => Promise!Init /\ [][answer' = Refused \/ Promise!Next]_(Promise!vars)
    BY <1>1, <1>2, <1>3, PTL DEF Spec
  <1> QED
    BY <1>4 DEF ImplementsTimeMap
=============================================================================
