----------------------- MODULE ChronoMapThreadsProofs -----------------------
(***************************************************************************)
(* Proofs about ChronoMapThreads for any number of threads, keys, values   *)
(* and moments, any cap and any size of the cache.                         *)
(***************************************************************************)
EXTENDS ChronoMapThreads, VersionHistoryProofs

(***************************************************************************)
(* The labels at which a writer is inside the lock, and those at which the *)
(* map may differ from what it was settled as.                             *)
(***************************************************************************)
Writing == {"writing", "purged", "insert", "changed", "replaced"}

Busy == {"purged", "insert", "changed", "replaced"}

Labels == {"idle", "waiting"} \cup Asking \cup Writing

Mode(l) == IF l = "found" THEN <<"R">> ELSE IF l \in Writing THEN <<"W">> ELSE << >>

(***************************************************************************)
(* The local variables of each call.                                       *)
(***************************************************************************)
Question == [key : Keys, at : Times \cup {None}, ts : Times, val : Values \cup {Absent}]

PutCall == [op : {"put"}, items : Items, todo : SUBSET Keys, key : Keys \cup {None},
            ts : Times, life : {None} \cup Lifetimes]

RemoveCall == [op : {"delete", "sweep"}, todo : SUBSET Keys, key : Keys \cup {None}]

ReplaceCall == [op : {"replace"}, image : Images, todo : SUBSET {None}, key : {None}]

Fits(l, c) ==
    /\ l \in Asking => c \in Question /\ (c.at # None => c.ts = c.at)
    /\ l \in Writing \cup {"waiting"} =>
          \/ /\ c \in PutCall /\ c.todo \subseteq DOMAIN c.items
             /\ l # "replaced"
             /\ l \in Busy => c.key \in c.todo
          \/ /\ c \in RemoveCall /\ l \in {"waiting", "writing", "changed"}
             /\ l = "changed" => c.key \in c.todo
          \/ c \in ReplaceCall /\ l \in {"waiting", "writing", "replaced"}

(***************************************************************************)
(* The lock is held as the labels say, by readers or by one writer, and    *)
(* the local variables are those of the call.                              *)
(***************************************************************************)
Shape ==
    /\ now \in Times
    /\ pc \in [Threads -> Labels]
    /\ local = [t \in Threads |-> local[t]]
    /\ hold = [t \in Threads |-> Mode(pc[t])]
    /\ \A t, u \in Threads : pc[t] \in Writing /\ pc[u] \in Writing \cup {"found"} => t = u
    /\ \A t \in Threads : Fits(pc[t], local[t])

(***************************************************************************)
(* A map whose histories are in order.                                     *)
(***************************************************************************)
Version == [ts : Times, val : Values]

Sound(m) ==
    /\ DOMAIN m.store \subseteq Keys /\ DOMAIN m.ttl \subseteq DOMAIN m.store
    /\ \A k \in DOMAIN m.store : m.store[k] \in Seq(Version) /\ Ordered(m.store[k])
    /\ \A k \in DOMAIN m.ttl : m.ttl[k] \in Int

(***************************************************************************)
(* Key k is in map m what it is in map n.                                  *)
(***************************************************************************)
Agree(m, n, k) ==
    /\ k \in DOMAIN m.store <=> k \in DOMAIN n.store
    /\ k \in DOMAIN m.store => m.store[k] = n.store[k]
    /\ k \in DOMAIN m.ttl <=> k \in DOMAIN n.ttl
    /\ k \in DOMAIN m.ttl => m.ttl[k] = n.ttl[k]

Unchanged(k) == Agree(Actual, settled, k)

(***************************************************************************)
(* Only a writer that is busy with a key makes it differ from what was     *)
(* settled, and if it has yet to insert its version it has invalidated the *)
(* key's answers.                                                          *)
(***************************************************************************)
BusyWith(t, k) == pc[t] = "replaced" \/ (pc[t] \in Busy /\ local[t].key = k)

Settled ==
    /\ \A k \in Keys : Unchanged(k) \/ \E t \in Threads : BusyWith(t, k)
    /\ \A t \in Threads : pc[t] = "insert" =>
          \/ Unchanged(local[t].key)
          \/ \A e \in cache : e.key # local[t].key

(***************************************************************************)
(* The answers in the cache, and the one that a reader is about to put     *)
(* there, are of keys that were settled, and those about a moment that the *)
(* caller named are what the settled history says.                         *)
(***************************************************************************)
Remembered(k, at, v) ==
    /\ v \in Values
    /\ k \in DOMAIN settled.store
    /\ at # None => v = StoredIn(settled, k, at)

CacheIsRight ==
    /\ cache \subseteq Cache!Entry
    /\ \A e \in cache : Remembered(e.key, e.at, e.val)
    /\ \A t \in Threads :
          pc[t] = "found" /\ local[t].val # Absent
             => Remembered(local[t].key, local[t].at, local[t].val)

(***************************************************************************)
(* What a get() about a named moment will return or may find in the cache  *)
(* was true during the call.                                               *)
(***************************************************************************)
AskedFor(t, k, at) == local[t].key = k /\ local[t].at = at /\ at # None

SeenIsEnough ==
    /\ \A t \in Threads : pc[t] = "expired" /\ local[t].at # None => Absent \in seen[t]
    /\ \A t \in Threads : pc[t] = "found" /\ local[t].at # None => local[t].val \in seen[t]
    /\ \A t \in Threads, e \in cache :
          pc[t] = "in_time" /\ AskedFor(t, e.key, e.at) => e.val \in seen[t]
    /\ \A t, u \in Threads :
          pc[t] = "in_time" /\ pc[u] = "found" /\ AskedFor(t, local[u].key, local[u].at)
             /\ local[u].val # Absent => local[u].val \in seen[t]

-----------------------------------------------------------------------------

(***************************************************************************)
(* A step of a thread that neither takes nor leaves the lock.              *)
(***************************************************************************)
LEMMA InsideKeepsShape ==
    ASSUME Shape, NEW t \in Threads, NEW l \in Labels, NEW c,
           GoWith(t, l, c), Fits(l, c), Mode(l) = Mode(pc[t]), hold' = hold, now' = now
    PROVE  Shape'
  <1>1. /\ pc' = [pc EXCEPT ![t] = l] /\ pc' \in [Threads -> Labels]
        /\ local' = [u \in Threads |-> IF u = t THEN c ELSE local[u]]
    BY DEF GoWith, Shape
  <1>2. local' = [u \in Threads |-> local'[u]]
    BY <1>1
  <1>3. \A u \in Threads : Fits(pc'[u], local'[u])
    BY <1>1 DEF Shape
  <1>4. hold' = [u \in Threads |-> Mode(pc'[u])]
    BY <1>1 DEF Shape
  <1>5. (l \in Writing <=> pc[t] \in Writing) /\ (l = "found" <=> pc[t] = "found")
    BY DEF Mode, Writing
  <1>6. \A u, w \in Threads :
           pc'[u] \in Writing /\ pc'[w] \in Writing \cup {"found"} => u = w
    BY <1>1, <1>5 DEF Shape
  <1> QED
    BY <1>1, <1>2, <1>3, <1>4, <1>6 DEF Shape

(***************************************************************************)
(* A step of a thread that takes or leaves the lock.                       *)
(***************************************************************************)
LEMMA LockingKeepsShape ==
    ASSUME Shape, NEW t \in Threads, NEW l \in Labels, NEW c,
           GoWith(t, l, c), Fits(l, c), hold' = [hold EXCEPT ![t] = Mode(l)], now' = now,
           l \in Writing => \A u \in Threads \ {t} : pc[u] \notin Writing \cup {"found"},
           l = "found" => \A u \in Threads \ {t} : pc[u] \notin Writing
    PROVE  Shape'
  <1>1. /\ pc' = [pc EXCEPT ![t] = l] /\ pc' \in [Threads -> Labels]
        /\ local' = [u \in Threads |-> IF u = t THEN c ELSE local[u]]
    BY DEF GoWith, Shape
  <1>2. local' = [u \in Threads |-> local'[u]]
    BY <1>1
  <1>3. \A u \in Threads : Fits(pc'[u], local'[u])
    BY <1>1 DEF Shape
  <1>4. hold' = [u \in Threads |-> Mode(pc'[u])]
    BY <1>1 DEF Shape
  <1>5. \A u, w \in Threads :
           pc'[u] \in Writing /\ pc'[w] \in Writing \cup {"found"} => u = w
    <2>1. "found" \notin Writing
      BY DEF Writing
    <2> QED
      BY <1>1, <2>1 DEF Shape
  <1> QED
    BY <1>1, <1>2, <1>3, <1>4, <1>5 DEF Shape

(***************************************************************************)
(* What the lock asks of the other threads, and how it is left.            *)
(***************************************************************************)
LEMMA WriterEntersAlone ==
    ASSUME Shape, NEW t \in Threads, pc[t] = "waiting", Lock!AdmitWriter(t)
    PROVE  /\ \A u \in Threads \ {t} : pc[u] \notin Writing \cup {"found"}
           /\ hold' = [hold EXCEPT ![t] = Mode("writing")]
  <1>1. hold[t] = << >> /\ Mode("writing") = <<"W">>
    BY DEF Shape, Mode, Writing
  <1>2. hold' = [hold EXCEPT ![t] = Mode("writing")]
    <2>1. Append(hold[t], "W") = Mode("writing")
      BY <1>1
    <2> QED
      BY <2>1 DEF Lock!AdmitWriter
  <1>3. \A u \in Threads \ {t} : Mode(pc[u]) = << >>
    BY DEF Lock!AdmitWriter, Shape
  <1> QED
    BY <1>2, <1>3 DEF Mode

LEMMA ReaderEntersAmongReaders ==
    ASSUME Shape, NEW t \in Threads, pc[t] = "missed", Lock!AdmitReader(t)
    PROVE  /\ \A u \in Threads \ {t} : pc[u] \notin Writing
           /\ hold' = [hold EXCEPT ![t] = Mode("found")]
  <1>1. hold[t] = << >> /\ Mode("found") = <<"R">>
    BY DEF Shape, Mode, Writing
  <1>2. hold' = [hold EXCEPT ![t] = Mode("found")]
    <2>1. Append(hold[t], "R") = Mode("found")
      BY <1>1
    <2> QED
      BY <2>1 DEF Lock!AdmitReader
  <1>3. ASSUME NEW u \in Threads \ {t}, pc[u] \in Writing PROVE FALSE
    <2>1. hold[u] = <<"W">>
      BY <1>3 DEF Shape, Mode, Writing
    <2>2. Lock!Holds(u, "W")
      BY <2>1 DEF Lock!Holds
    <2> QED
      BY <2>2 DEF Lock!AdmitReader
  <1> QED
    BY <1>2, <1>3

LEMMA LeavingPops ==
    ASSUME Shape, NEW t \in Threads, pc[t] \in Writing \cup {"found"}, Lock!Leave(t)
    PROVE  hold' = [hold EXCEPT ![t] = Mode("idle")]
  <1>1. hold[t] \in {<<"R">>, <<"W">>} /\ Mode("idle") = << >>
    BY DEF Shape, Mode, Writing
  <1>2. Lock!Pop(hold[t]) = << >>
    <2>1. \A m : Len(<<m>>) = 1 /\ SubSeq(<<m>>, 1, 0) = << >>
      OBVIOUS
    <2>2. Lock!Pop(<<"R">>) = << >> /\ Lock!Pop(<<"W">>) = << >>
      BY <2>1 DEF Lock!Pop
    <2> QED
      BY <1>1, <2>2
  <1> QED
    BY <1>1, <1>2 DEF Lock!Leave

LEMMA WriterIsTyped ==
    ASSUME Shape, NEW t \in Threads, pc[t] \in Writing
    PROVE  /\ local[t].op = "put" => local[t] \in PutCall
           /\ local[t].op \in {"delete", "sweep"} => local[t] \in RemoveCall
           /\ local[t].op = "replace" => local[t] \in ReplaceCall
           /\ pc[t] \in {"purged", "insert"} => local[t] \in PutCall
  BY DEF Shape, Fits, PutCall, RemoveCall, ReplaceCall

(***************************************************************************)
(* The steps of get().                                                     *)
(***************************************************************************)
LEMMA GetKeepsShape ==
    ASSUME Shape, NEW t \in Threads, NEW k \in Keys, NEW at \in Asked, Get(t, k, at)
    PROVE  Shape'
  <1> DEFINE c == [key |-> k, at |-> at, ts |-> Given(at), val |-> Absent]
  <1>1. GoWith(t, "asked", c) /\ hold' = hold /\ now' = now /\ pc[t] = "idle"
    BY DEF Get
  <1>2. at \in Times \cup {None} /\ Given(at) \in Times
    BY ChronoMapThreadsAssumption DEF Given, Shape
  <1>3. Fits("asked", c)
    BY <1>2 DEF Fits, Question, Given, Writing
  <1>4. Mode("asked") = Mode(pc[t]) /\ "asked" \in Labels
    BY <1>1 DEF Mode, Writing, Labels, Asking
  <1> HIDE DEF c
  <1> QED
    BY <1>1, <1>3, <1>4, InsideKeepsShape

LEMMA LookKeepsShape ==
    ASSUME Shape, NEW t \in Threads,
           IsInTtl(t) \/ ReadTtl(t) \/ ForgetExpired(t) \/ LookInCache(t)
    PROVE  Shape'
  <1>1. /\ pc[t] \in {"asked", "in_ttl", "expired", "in_time"} /\ hold' = hold /\ now' = now
        /\ \/ \E l \in {"in_ttl", "in_time", "expired", "missed"} : Go(t, l)
           \/ Done(t)
    BY DEF IsInTtl, ReadTtl, ForgetExpired, LookInCache, Return
  <1>2. CASE Done(t)
    <2>1. GoWith(t, "idle", None) /\ Fits("idle", None)
      BY <1>2 DEF Done, Fits, Asking, Writing
    <2>2. Mode("idle") = Mode(pc[t]) /\ "idle" \in Labels
      BY <1>1 DEF Mode, Writing, Labels
    <2> QED
      BY <1>1, <2>1, <2>2, InsideKeepsShape
  <1>3. ASSUME NEW l \in {"in_ttl", "in_time", "expired", "missed"}, Go(t, l) PROVE Shape'
    <2>1. GoWith(t, l, local[t])
      BY <1>3 DEF Go, GoWith, Shape
    <2>2. Fits(l, local[t])
      BY <1>1 DEF Shape, Fits, Asking, Writing
    <2>3. Mode(l) = Mode(pc[t]) /\ l \in Labels
      BY <1>1 DEF Mode, Writing, Labels, Asking
    <2> QED
      BY <1>1, <2>1, <2>2, <2>3, InsideKeepsShape
  <1> QED
    BY <1>1, <1>2, <1>3

(***************************************************************************)
(* What a lookup finds in a map whose histories are in order is a value or *)
(* nothing.                                                                *)
(***************************************************************************)
LEMMA VersionsAreTimed == Timed(Version)
  BY ChronoMapThreadsAssumption DEF Timed, Version, Times

LEMMA ValueIsFound ==
    ASSUME NEW m, Sound(m), NEW k, NEW at \in Int
    PROVE  /\ StoredIn(m, k, at) \in Values \cup {Absent}
           /\ k \notin DOMAIN m.store => StoredIn(m, k, at) = Absent
  <1> DEFINE h == HistoryIn(m, k)
  <1>1. h \in Seq(Version) /\ Ordered(h)
    <2>1. << >> \in Seq(Version) /\ Ordered(<< >>)
      BY DEF Ordered
    <2> QED
      BY <2>1 DEF Sound, HistoryIn
  <1>2. k \notin DOMAIN m.store => h = << >>
    BY DEF HistoryIn
  <1>3. StoredIn(m, k, at) = IF BisectRight(h, at) = 0 THEN Absent ELSE h[BisectRight(h, at)].val
    BY DEF StoredIn, ValueAt, IndexAsOf
  <1> HIDE DEF h
  <1>4. BisectRight(h, at) \in 0 .. Len(h)
    BY <1>1, VersionsAreTimed, BisectRightFinds
  <1>5. h = << >> => BisectRight(h, at) = 0
    BY <1>4
  <1>6. BisectRight(h, at) # 0 => h[BisectRight(h, at)].val \in Values
    <2> SUFFICES ASSUME BisectRight(h, at) # 0 PROVE h[BisectRight(h, at)].val \in Values
      OBVIOUS
    <2>1. BisectRight(h, at) \in 1 .. Len(h)
      BY <1>4
    <2>2. h[BisectRight(h, at)] \in Version
      BY <1>1, <2>1
    <2> QED
      BY <2>2 DEF Version
  <1> QED
    BY <1>2, <1>3, <1>5, <1>6

LEMMA AnswerIsFound ==
    ASSUME NEW m, Sound(m), NEW k, NEW clock, NEW at \in Int
    PROVE  /\ AsOfIn(m, k, clock, at) \in Values \cup {Absent}
           /\ k \notin DOMAIN m.store => AsOfIn(m, k, clock, at) = Absent
  BY ValueIsFound DEF AsOfIn

LEMMA LookupKeepsShape ==
    ASSUME Shape, Sound(Actual), NEW t \in Threads, Lookup(t)
    PROVE  Shape'
  <1>1. pc[t] = "missed" /\ GoWith(t, "found", LookedUp(t)) /\ Lock!AdmitReader(t) /\ now' = now
    BY DEF Lookup
  <1>2. local[t] \in Question /\ (local[t].at # None => local[t].ts = local[t].at)
    BY <1>1 DEF Shape, Fits, Asking
  <1>3. AsOfIn(Actual, local[t].key, now, local[t].ts) \in Values \cup {Absent}
    <2>1. local[t].ts \in Int
      BY <1>2, ChronoMapThreadsAssumption DEF Question, Times
    <2> QED
      BY <2>1, AnswerIsFound
  <1>4. Fits("found", LookedUp(t))
    BY <1>2, <1>3 DEF Fits, LookedUp, Question, Writing
  <1>5. /\ \A u \in Threads \ {t} : pc[u] \notin Writing
        /\ hold' = [hold EXCEPT ![t] = Mode("found")]
    BY <1>1, ReaderEntersAmongReaders
  <1>6. "found" \in Labels /\ "found" \notin Writing
    BY DEF Labels, Asking, Writing
  <1> QED
    BY <1>1, <1>4, <1>5, <1>6, LockingKeepsShape

LEMMA LeavingKeepsShape ==
    ASSUME Shape, NEW t \in Threads, CacheAndReturn(t) \/ LeaveWrite(t)
    PROVE  Shape'
  <1>1. /\ pc[t] \in Writing \cup {"found"} /\ Lock!Leave(t) /\ GoWith(t, "idle", None)
        /\ now' = now
    BY DEF CacheAndReturn, LeaveWrite, Return, Done, Writing
  <1>2. hold' = [hold EXCEPT ![t] = Mode("idle")]
    BY <1>1, LeavingPops
  <1>3. Fits("idle", None) /\ "idle" \in Labels /\ "idle" # "found" /\ "idle" \notin Writing
    BY DEF Fits, Labels, Asking, Writing
  <1> QED
    BY <1>1, <1>2, <1>3, LockingKeepsShape

(***************************************************************************)
(* The calls that write, and their way into the lock.                      *)
(***************************************************************************)
LEMMA CallKeepsShape ==
    ASSUME Shape, NEW t \in Threads, NEW c, Call(t, c),
           \/ c \in PutCall /\ c.todo \subseteq DOMAIN c.items
           \/ c \in RemoveCall
           \/ c \in ReplaceCall
    PROVE  Shape'
  <1>1. pc[t] = "idle" /\ GoWith(t, "waiting", c) /\ hold' = hold /\ now' = now
    BY DEF Call
  <1>2. Fits("waiting", c)
    BY DEF Fits, Asking, Writing, Busy
  <1>3. Mode("waiting") = Mode(pc[t]) /\ "waiting" \in Labels
    BY <1>1 DEF Mode, Labels, Writing
  <1> QED
    BY <1>1, <1>2, <1>3, InsideKeepsShape

LEMMA CallsKeepShape ==
    ASSUME Shape, NEW t \in Threads
    PROVE  /\ \A items \in Items, at \in Stamps, life \in {None} \cup Lifetimes :
                 PutMany(t, items, at, life) => Shape'
           /\ \A S \in SUBSET Keys : Delete(t, S) => Shape'
           /\ CleanExpiredKeys(t) => Shape'
           /\ \A m \in Images : Replace(t, m) => Shape'
  <1>1. ASSUME NEW items \in Items, NEW at \in Stamps, NEW life \in {None} \cup Lifetimes,
               PutMany(t, items, at, life)
        PROVE  Shape'
    <2> DEFINE c == [op |-> "put", items |-> items, todo |-> DOMAIN items, key |-> None,
                     ts |-> Given(at), life |-> life]
    <2>1. Given(at) \in Times
      BY ChronoMapThreadsAssumption DEF Given, Shape
    <2>2. DOMAIN items \subseteq Keys
      BY DEF Items
    <2>3. c \in PutCall /\ c.todo \subseteq DOMAIN c.items
      BY <2>1, <2>2 DEF PutCall
    <2>4. Call(t, c)
      BY <1>1 DEF PutMany
    <2> HIDE DEF c
    <2> QED
      BY <2>3, <2>4, CallKeepsShape
  <1>2. ASSUME NEW S \in SUBSET Keys, Delete(t, S) PROVE Shape'
    <2> DEFINE c == [op |-> "delete", todo |-> S, key |-> None]
    <2>1. c \in RemoveCall /\ Call(t, c)
      BY <1>2 DEF RemoveCall, Delete
    <2> HIDE DEF c
    <2> QED
      BY <2>1, CallKeepsShape
  <1>3. ASSUME CleanExpiredKeys(t) PROVE Shape'
    <2> DEFINE c == [op |-> "sweep", todo |-> {}, key |-> None]
    <2>1. c \in RemoveCall /\ Call(t, c)
      BY <1>3 DEF RemoveCall, CleanExpiredKeys
    <2> HIDE DEF c
    <2> QED
      BY <2>1, CallKeepsShape
  <1>4. ASSUME NEW m \in Images, Replace(t, m) PROVE Shape'
    <2> DEFINE c == [op |-> "replace", image |-> m, todo |-> {None}, key |-> None]
    <2>1. c \in ReplaceCall /\ Call(t, c)
      BY <1>4 DEF ReplaceCall, Replace
    <2> HIDE DEF c
    <2> QED
      BY <2>1, CallKeepsShape
  <1> QED
    BY <1>1, <1>2, <1>3, <1>4

LEMMA EnterWriteKeepsShape ==
    ASSUME Shape, Sound(Actual), NEW t \in Threads, EnterWrite(t)
    PROVE  Shape'
  <1> DEFINE c == [local[t] EXCEPT !.todo = ToRemove(local[t])]
  <1>1. pc[t] = "waiting" /\ GoWith(t, "writing", c) /\ Lock!AdmitWriter(t) /\ now' = now
    BY DEF EnterWrite
  <1>2. \/ local[t] \in PutCall /\ local[t].todo \subseteq DOMAIN local[t].items
        \/ local[t] \in RemoveCall
        \/ local[t] \in ReplaceCall
    BY <1>1 DEF Shape, Fits
  <1>3. Fits("writing", c)
    <2>1. CASE local[t] \in PutCall /\ local[t].todo \subseteq DOMAIN local[t].items
      <3>1. ToRemove(local[t]) = local[t].todo
        BY <2>1 DEF ToRemove, PutCall
      <3>2. c \in PutCall /\ c.todo \subseteq DOMAIN c.items
        BY <2>1, <3>1 DEF PutCall
      <3> HIDE DEF c
      <3> QED
        BY <3>2 DEF Fits, Asking, Busy
    <2>2. CASE local[t] \in RemoveCall
      <3>1. ToRemove(local[t]) \subseteq Keys
        BY <2>2 DEF ToRemove, RemoveCall, Sound, Actual
      <3>2. c \in RemoveCall
        BY <2>2, <3>1 DEF RemoveCall
      <3> HIDE DEF c
      <3> QED
        BY <3>2 DEF Fits, Asking
    <2>3. CASE local[t] \in ReplaceCall
      <3>1. ToRemove(local[t]) = local[t].todo
        BY <2>3 DEF ToRemove, ReplaceCall
      <3>2. c \in ReplaceCall
        BY <2>3, <3>1 DEF ReplaceCall
      <3> HIDE DEF c
      <3> QED
        BY <3>2 DEF Fits, Asking
    <2> QED
      BY <1>2, <2>1, <2>2, <2>3
  <1>4. /\ \A u \in Threads \ {t} : pc[u] \notin Writing \cup {"found"}
        /\ hold' = [hold EXCEPT ![t] = Mode("writing")]
    BY <1>1, WriterEntersAlone
  <1>5. "writing" \in Labels
    BY DEF Labels, Writing
  <1> HIDE DEF c
  <1> QED
    BY <1>1, <1>3, <1>4, <1>5, LockingKeepsShape

(***************************************************************************)
(* The steps of a writer inside the lock.                                  *)
(***************************************************************************)
LEMMA WriterKeepsShape ==
    ASSUME Shape, NEW t \in Threads, pc[t] \in Writing, NEW l \in Writing, NEW c,
           GoWith(t, l, c), Fits(l, c), hold' = hold, now' = now
    PROVE  Shape'
  <1>1. Mode(l) = Mode(pc[t]) /\ l \in Labels
    BY DEF Mode, Labels, Writing
  <1> QED
    BY <1>1, InsideKeepsShape

LEMMA PurgeKeepsShape ==
    ASSUME Shape, NEW t \in Threads, Purge(t)
    PROVE  Shape'
  <1>1. /\ pc[t] = "writing" /\ local[t].op = "put" /\ pc[t] \in Writing
        /\ hold' = hold /\ now' = now
    BY DEF Purge, Writing
  <1>2. PICK k \in local[t].todo, l \in {"purged", "insert"} :
           GoWith(t, l, [local[t] EXCEPT !.key = k])
    BY DEF Purge
  <1>3. local[t] \in PutCall /\ local[t].todo \subseteq DOMAIN local[t].items
    BY <1>1 DEF Shape, Fits, PutCall, RemoveCall, ReplaceCall
  <1> DEFINE c == [local[t] EXCEPT !.key = k]
  <1>4. c \in PutCall /\ c.todo \subseteq DOMAIN c.items /\ c.key \in c.todo
    BY <1>2, <1>3 DEF PutCall
  <1>5. GoWith(t, l, c)
    BY <1>2
  <1> HIDE DEF c
  <1>6. Fits(l, c) /\ l \in Writing
    BY <1>2, <1>4 DEF Fits, Asking, Writing
  <1> QED
    BY <1>1, <1>5, <1>6, WriterKeepsShape

LEMMA ForgetPurgedKeepsShape ==
    ASSUME Shape, NEW t \in Threads, ForgetPurged(t)
    PROVE  Shape'
  <1>1. /\ pc[t] = "purged" /\ GoWith(t, "insert", local[t]) /\ hold' = hold /\ now' = now
    BY DEF ForgetPurged, Go, GoWith, Shape
  <1>2. Fits("insert", local[t]) /\ "insert" \in Writing /\ pc[t] \in Writing
    BY <1>1 DEF Shape, Fits, Asking, Writing, Busy
  <1> QED
    BY <1>1, <1>2, WriterKeepsShape

LEMMA PutVersionKeepsShape ==
    ASSUME Shape, NEW t \in Threads, PutVersion(t)
    PROVE  Shape'
  <1>1. /\ pc[t] = "insert" /\ GoWith(t, "changed", local[t]) /\ hold' = hold /\ now' = now
    BY DEF PutVersion, Go, GoWith, Shape
  <1>2. Fits("changed", local[t]) /\ "changed" \in Writing /\ pc[t] \in Writing
    BY <1>1 DEF Shape, Fits, Asking, Writing, Busy
  <1> QED
    BY <1>1, <1>2, WriterKeepsShape

LEMMA PopKeyKeepsShape ==
    ASSUME Shape, NEW t \in Threads, PopKey(t)
    PROVE  Shape'
  <1>1. /\ pc[t] = "writing" /\ local[t].op \in {"delete", "sweep"} /\ pc[t] \in Writing
        /\ hold' = hold /\ now' = now
    BY DEF PopKey, Writing
  <1>2. PICK k \in local[t].todo : GoWith(t, "changed", [local[t] EXCEPT !.key = k])
    BY DEF PopKey
  <1>3. local[t] \in RemoveCall
    BY <1>1, WriterIsTyped
  <1> DEFINE c == [local[t] EXCEPT !.key = k]
  <1>4. c \in RemoveCall /\ c.key \in c.todo /\ GoWith(t, "changed", c)
    BY <1>2, <1>3 DEF RemoveCall
  <1> HIDE DEF c
  <1>5. Fits("changed", c) /\ "changed" \in Writing
    BY <1>4 DEF Fits, Asking, Writing
  <1> QED
    BY <1>1, <1>4, <1>5, WriterKeepsShape

LEMMA ForgetKeepsShape ==
    ASSUME Shape, NEW t \in Threads, Forget(t)
    PROVE  Shape'
  <1> DEFINE c == [local[t] EXCEPT !.todo = @ \ {local[t].key}]
  <1>1. /\ pc[t] = "changed" /\ GoWith(t, "writing", c) /\ hold' = hold /\ now' = now
    BY DEF Forget
  <1>2. \/ local[t] \in PutCall /\ local[t].todo \subseteq DOMAIN local[t].items
        \/ local[t] \in RemoveCall
    BY <1>1 DEF Shape, Fits, Writing
  <1>3. \/ c \in PutCall /\ c.todo \subseteq DOMAIN c.items
        \/ c \in RemoveCall
    BY <1>2 DEF PutCall, RemoveCall
  <1> HIDE DEF c
  <1>4. Fits("writing", c) /\ "writing" \in Writing /\ pc[t] \in Writing
    BY <1>1, <1>3 DEF Fits, Asking, Writing, Busy
  <1> QED
    BY <1>1, <1>4, WriterKeepsShape

LEMMA ImageKeepsShape ==
    ASSUME Shape, NEW t \in Threads, SetImage(t) \/ ForgetAll(t)
    PROVE  Shape'
  <1>1. /\ pc[t] \in {"writing", "replaced"} /\ hold' = hold /\ now' = now /\ pc[t] \in Writing
    BY DEF SetImage, ForgetAll, Writing
  <1>2. local[t] \in ReplaceCall
    BY DEF SetImage, ForgetAll, Shape, Fits, Writing, Busy, PutCall, RemoveCall, ReplaceCall
  <1>3. CASE SetImage(t)
    <2>1. GoWith(t, "replaced", local[t])
      BY <1>3 DEF SetImage, Go, GoWith, Shape
    <2>2. Fits("replaced", local[t]) /\ "replaced" \in Writing
      BY <1>2 DEF Fits, Asking, Writing
    <2> QED
      BY <1>1, <2>1, <2>2, WriterKeepsShape
  <1>4. CASE ForgetAll(t)
    <2> DEFINE c == [local[t] EXCEPT !.todo = {}]
    <2>1. GoWith(t, "writing", c) /\ c \in ReplaceCall
      BY <1>2, <1>4 DEF ForgetAll, ReplaceCall
    <2> HIDE DEF c
    <2>2. Fits("writing", c) /\ "writing" \in Writing
      BY <2>1 DEF Fits, Asking, Writing
    <2> QED
      BY <1>1, <2>1, <2>2, WriterKeepsShape
  <1> QED
    BY <1>3, <1>4

LEMMA NextKeepsShape ==
    ASSUME Shape, Sound(Actual), [Next]_vars
    PROVE  Shape'
  <1>1. CASE Tick
    <2>1. now' \in Times
      BY <1>1, ChronoMapThreadsAssumption DEF Tick, Shape, Times
    <2>2. pc' = pc /\ local' = local /\ hold' = hold
      BY <1>1 DEF Tick
    <2> QED
      BY <2>1, <2>2 DEF Shape
  <1>2. CASE ResetStats \/ UNCHANGED vars
    BY <1>2 DEF ResetStats, vars, Shape
  <1>3. ASSUME NEW t \in Threads, Step(t) PROVE Shape'
    <2>1. CASE \E k \in Keys, at \in Asked : Get(t, k, at)
      BY <2>1, GetKeepsShape
    <2>2. CASE IsInTtl(t) \/ ReadTtl(t) \/ ForgetExpired(t) \/ LookInCache(t)
      BY <2>2, LookKeepsShape
    <2>3. CASE Lookup(t)
      BY <2>3, LookupKeepsShape
    <2>4. CASE CacheAndReturn(t) \/ LeaveWrite(t)
      BY <2>4, LeavingKeepsShape
    <2>5. CASE \/ \E items \in Items, at \in Stamps, life \in {None} \cup Lifetimes :
                     PutMany(t, items, at, life)
               \/ \E S \in (SUBSET Keys) \ {{}} : Delete(t, S)
               \/ CleanExpiredKeys(t)
               \/ \E m \in Images : Replace(t, m)
      BY <2>5, CallsKeepShape
    <2>6. CASE EnterWrite(t)
      BY <2>6, EnterWriteKeepsShape
    <2>7. CASE Purge(t)
      BY <2>7, PurgeKeepsShape
    <2>8. CASE ForgetPurged(t)
      BY <2>8, ForgetPurgedKeepsShape
    <2>9. CASE PutVersion(t)
      BY <2>9, PutVersionKeepsShape
    <2>10. CASE PopKey(t)
      BY <2>10, PopKeyKeepsShape
    <2>11. CASE Forget(t)
      BY <2>11, ForgetKeepsShape
    <2>12. CASE SetImage(t) \/ ForgetAll(t)
      BY <2>12, ImageKeepsShape
    <2> QED
      BY <1>3, <2>1, <2>2, <2>3, <2>4, <2>5, <2>6, <2>7, <2>8, <2>9, <2>10, <2>11, <2>12
         DEF Step
  <1> QED
    BY <1>1, <1>2, <1>3 DEF Next

-----------------------------------------------------------------------------

(***************************************************************************)
(* What the writers do to a map leaves its histories in order.             *)
(***************************************************************************)
LEMMA WithoutIsSound ==
    ASSUME NEW m, Sound(m), NEW k
    PROVE  Sound([store |-> Without(m.store, {k}), ttl |-> Without(m.ttl, {k})])
  <1> DEFINE s == Without(m.store, {k})
             l == Without(m.ttl, {k})
  <1>1. /\ DOMAIN s = DOMAIN m.store \ {k} /\ DOMAIN l = DOMAIN m.ttl \ {k}
        /\ \A j \in DOMAIN s : s[j] = m.store[j]
        /\ \A j \in DOMAIN l : l[j] = m.ttl[j]
    BY DEF Without, Restrict
  <1> HIDE DEF s, l
  <1>2. /\ DOMAIN m.store \subseteq Keys /\ DOMAIN m.ttl \subseteq DOMAIN m.store
        /\ \A j \in DOMAIN m.store : m.store[j] \in Seq(Version) /\ Ordered(m.store[j])
        /\ \A j \in DOMAIN m.ttl : m.ttl[j] \in Int
    BY DEF Sound
  <1>3. /\ DOMAIN s \subseteq Keys /\ DOMAIN l \subseteq DOMAIN s
        /\ \A j \in DOMAIN s : s[j] \in Seq(Version) /\ Ordered(s[j])
        /\ \A j \in DOMAIN l : l[j] \in Int
    BY <1>1, <1>2
  <1> QED
    BY <1>3 DEF Sound, s, l

LEMMA PutIsSound ==
    ASSUME NEW m, Sound(m), NEW k \in Keys, NEW h \in Seq(Version), Ordered(h),
           NEW l, l = m.ttl \/ \E life \in Int : l = Updated(m.ttl, Single(k, life))
    PROVE  Sound([store |-> Updated(m.store, Single(k, h)), ttl |-> l])
  <1> DEFINE s == Updated(m.store, Single(k, h))
  <1>1. /\ DOMAIN s = DOMAIN m.store \cup {k}
        /\ s[k] = h /\ \A j \in DOMAIN m.store \ {k} : s[j] = m.store[j]
    BY DEF Updated, Single
  <1>2. /\ DOMAIN l \subseteq DOMAIN m.ttl \cup {k}
        /\ \A j \in DOMAIN l : l[j] \in Int
    BY DEF Updated, Single, Sound
  <1> HIDE DEF s
  <1>3. /\ DOMAIN s \subseteq Keys /\ DOMAIN l \subseteq DOMAIN s
    BY <1>1, <1>2 DEF Sound
  <1>4. \A j \in DOMAIN s : s[j] \in Seq(Version) /\ Ordered(s[j])
    <2>1. \A j \in DOMAIN m.store : m.store[j] \in Seq(Version) /\ Ordered(m.store[j])
      BY DEF Sound
    <2> QED
      BY <1>1, <2>1
  <1> QED
    BY <1>2, <1>3, <1>4 DEF Sound, s

Data == Sound(Actual) /\ Sound(settled)

LEMMA PutVersionIsSound ==
    ASSUME Shape, Data, NEW t \in Threads, PutVersion(t)
    PROVE  Sound(Actual')
  <1> DEFINE k == local[t].key
             v == [ts |-> local[t].ts, val |-> local[t].items[k]]
             h == AutoPrune(InsertVersion(HistoryIn(Actual, k), v), Cap)
  <1>1. pc[t] = "insert" /\ pc[t] \in Writing
    BY DEF PutVersion, Writing
  <1>2. /\ local[t] \in PutCall /\ local[t].todo \subseteq DOMAIN local[t].items
        /\ k \in local[t].todo
    BY <1>1 DEF Shape, Fits, Busy
  <1>3. k \in Keys /\ v \in Version
    <2>1. local[t].items[k] \in Values
      BY <1>2 DEF PutCall, Items
    <2> QED
      BY <1>2, <2>1 DEF PutCall, Version
  <1>4. HistoryIn(Actual, k) \in Seq(Version) /\ Ordered(HistoryIn(Actual, k))
    <2>1. << >> \in Seq(Version) /\ Ordered(<< >>)
      BY DEF Ordered
    <2> QED
      BY <2>1 DEF Data, Sound, HistoryIn
  <1>5. store' = Updated(store, Single(k, h))
    BY DEF PutVersion
  <1>6. ttl' = ttl \/ \E life \in Int : ttl' = Updated(ttl, Single(k, life))
    <2>1. CASE local[t].life = None
      BY <2>1 DEF PutVersion
    <2>2. CASE local[t].life # None
      <3>1. local[t].life \in Int /\ now \in Int
        BY <1>2, <2>2, ChronoMapThreadsAssumption DEF PutCall, Shape, Times
      <3>2. now + local[t].life \in Int
        BY <3>1
      <3> QED
        BY <2>2, <3>2 DEF PutVersion
    <2> QED
      BY <2>1, <2>2
  <1> HIDE DEF v
  <1>7. /\ InsertVersion(HistoryIn(Actual, k), v) \in Seq(Version)
        /\ Ordered(InsertVersion(HistoryIn(Actual, k), v))
    BY <1>3, <1>4, VersionsAreTimed, InsertOrdered
  <1>8. h \in Seq(Version) /\ Ordered(h)
    BY <1>7, AutoPruneShortened, ChronoMapThreadsAssumption DEF Shortened
  <1> HIDE DEF h, k
  <1>9. Sound(Actual) /\ Actual.store = store /\ Actual.ttl = ttl
    BY DEF Data, Actual
  <1>10. Sound([store |-> Updated(Actual.store, Single(k, h)), ttl |-> ttl'])
    BY <1>3, <1>6, <1>8, <1>9, PutIsSound
  <1> QED
    BY <1>5, <1>9, <1>10 DEF Actual

LEMMA ImagesAreSound ==
    ASSUME NEW m \in Images
    PROVE  Sound([store |-> m.store, ttl |-> m.ttl])
  BY ChronoMapThreadsAssumption DEF Sound, Version

LEMMA RestKeepsShared ==
    ASSUME NEW t \in Threads, Step(t),
           ~Purge(t), ~PutVersion(t), ~PopKey(t), ~Forget(t), ~SetImage(t), ~ForgetAll(t)
    PROVE  UNCHANGED shared
  BY DEF Step, Get, IsInTtl, ReadTtl, ForgetExpired, LookInCache, Lookup, CacheAndReturn,
         PutMany, Delete, CleanExpiredKeys, Replace, Call, EnterWrite, LeaveWrite, ForgetPurged

LEMMA NextKeepsData ==
    ASSUME Shape, Data, [Next]_vars
    PROVE  Data'
  <1>1. CASE UNCHANGED shared
    BY <1>1 DEF shared, Data, Actual
  <1>2. ASSUME NEW t \in Threads, Step(t) PROVE Data'
    <2>1. CASE Purge(t) \/ PopKey(t)
      <3>1. settled' = settled
        BY <2>1 DEF Purge, PopKey
      <3>2. \/ UNCHANGED <<store, ttl>>
            \/ \E k \in local[t].todo : store' = Without(store, {k}) /\ ttl' = Without(ttl, {k})
        BY <2>1 DEF Purge, PopKey
      <3>3. Sound(Actual')
        <4>1. CASE UNCHANGED <<store, ttl>>
          BY <4>1 DEF Data, Actual
        <4>2. ASSUME NEW k, store' = Without(store, {k}), ttl' = Without(ttl, {k})
              PROVE  Sound(Actual')
          <5>1. Sound(Actual) /\ Actual.store = store /\ Actual.ttl = ttl
            BY DEF Data, Actual
          <5>2. Sound([store |-> Without(Actual.store, {k}), ttl |-> Without(Actual.ttl, {k})])
            BY <5>1, WithoutIsSound
          <5> QED
            BY <4>2, <5>1, <5>2 DEF Actual
        <4> QED
          BY <3>2, <4>1, <4>2
      <3> QED
        BY <3>1, <3>3 DEF Data
    <2>2. CASE PutVersion(t)
      <3>1. settled' = settled
        BY <2>2 DEF PutVersion
      <3> QED
        BY <2>2, <3>1, PutVersionIsSound DEF Data
    <2>3. CASE Forget(t) \/ ForgetAll(t)
      <3>1. settled' = Actual /\ Actual' = Actual
        BY <2>3 DEF Forget, ForgetAll, Settle, Actual
      <3> QED
        BY <3>1 DEF Data
    <2>4. CASE SetImage(t)
      <3>1. local[t] \in ReplaceCall
        <4>1. pc[t] \in Writing /\ local[t].op = "replace"
          BY <2>4 DEF SetImage, Writing
        <4> QED
          BY <4>1, WriterIsTyped
      <3>2. /\ local[t].image \in Images /\ settled' = settled
            /\ Actual' = [store |-> local[t].image.store, ttl |-> local[t].image.ttl]
        BY <2>4, <3>1 DEF SetImage, ReplaceCall, Actual
      <3>3. Sound(Actual')
        BY <3>2, ImagesAreSound
      <3> QED
        BY <3>2, <3>3 DEF Data
    <2> QED
      BY <1>1, <1>2, <2>1, <2>2, <2>3, <2>4, RestKeepsShared
  <1>3. CASE Tick \/ ResetStats \/ UNCHANGED vars
    BY <1>1, <1>3 DEF Tick, ResetStats, vars, shared
  <1> QED
    BY <1>2, <1>3 DEF Next

LEMMA InitShapeData == Init => Shape /\ Data
  <1> SUFFICES ASSUME Init PROVE Shape /\ Data
    OBVIOUS
  <1>1. Shape
    BY ChronoMapThreadsAssumption
       DEF Init, Lock!Init, Shape, Times, Labels, Mode, Writing, Asking, Fits
  <1>2. Sound([store |-> EmptyDict, ttl |-> EmptyDict])
    BY DEF Sound, EmptyDict
  <1>3. Data
    BY <1>2 DEF Init, Data, Actual
  <1> QED
    BY <1>1, <1>3

(***************************************************************************)
(* Writers that took the time before they waited for the lock still leave  *)
(* every history in order (put() inserts where bisect_right says).         *)
(***************************************************************************)
THEOREM HistoriesInOrder == Spec => []InOrder
  <1>1. Shape /\ Data /\ [Next]_vars => Shape' /\ Data'
    BY NextKeepsShape, NextKeepsData DEF Data
  <1>2. Data => InOrder
    BY DEF Data, Sound, Actual, InOrder
  <1> QED
    BY InitShapeData, <1>1, <1>2, PTL DEF Spec

-----------------------------------------------------------------------------

LEMMA AgreeingMaps ==
    ASSUME NEW m, NEW n, NEW k, Agree(m, n, k), NEW at, NEW clock
    PROVE  /\ StoredIn(m, k, at) = StoredIn(n, k, at)
           /\ AsOfIn(m, k, clock, at) = AsOfIn(n, k, clock, at)
  <1>1. HistoryIn(m, k) = HistoryIn(n, k)
    BY DEF Agree, HistoryIn
  <1>2. ExpiredIn(m, k, clock) <=> ExpiredIn(n, k, clock)
    BY DEF Agree, ExpiredIn
  <1> QED
    BY <1>1, <1>2 DEF StoredIn, AsOfIn

(***************************************************************************)
(* While a reader is inside, or a writer that is not busy with a key, the  *)
(* map is what was settled.                                                *)
(***************************************************************************)
LEMMA NobodyBusy ==
    ASSUME Settled, \A u \in Threads : pc[u] \notin Busy, NEW k \in Keys
    PROVE  Unchanged(k)
  BY DEF Settled, BusyWith, Busy

LEMMA QuietMap ==
    ASSUME Shape, Settled, NEW t \in Threads, pc[t] \in {"found", "writing"}
    PROVE  /\ \A u \in Threads : pc[u] \notin Busy
           /\ \A k \in Keys : Unchanged(k)
  <1>1. \A u \in Threads : pc[u] \notin Busy
    BY DEF Shape, Writing, Busy
  <1> QED
    BY <1>1, NobodyBusy

(***************************************************************************)
(* A writer that is busy with one key leaves the others alone.             *)
(***************************************************************************)
LEMMA OthersUnchanged ==
    ASSUME Shape, Settled, NEW t \in Threads, pc[t] \in Writing, pc[t] # "replaced",
           NEW k \in Keys, k # local[t].key
    PROVE  Unchanged(k)
  <1>1. ASSUME NEW u \in Threads, BusyWith(u, k) PROVE FALSE
    <2>1. pc[u] \in Writing
      BY <1>1 DEF BusyWith, Busy, Writing
    <2>2. u = t
      BY <2>1 DEF Shape
    <2> QED
      BY <1>1, <2>2 DEF BusyWith
  <1> QED
    BY <1>1 DEF Settled

(***************************************************************************)
(* A step after which nobody is busy that was not before.                  *)
(***************************************************************************)
LEMMA IdleKeepsSettled ==
    ASSUME Settled, UNCHANGED shared, NEW t \in Threads,
           \A u \in Threads \ {t} : pc'[u] = pc[u] /\ local'[u] = local[u],
           pc[t] \notin Busy, pc'[t] \notin Busy,
           cache' \subseteq cache \/ \A u \in Threads : pc[u] # "insert"
    PROVE  Settled'
  <1>1. \A k : Unchanged(k)' <=> Unchanged(k)
    BY DEF shared, Unchanged, Actual, Agree
  <1>2. \A u \in Threads, k \in Keys : BusyWith(u, k) => BusyWith(u, k)'
    BY DEF BusyWith, Busy
  <1>3. ASSUME NEW u \in Threads, pc'[u] = "insert"
        PROVE  \/ Unchanged(local[u].key)'
               \/ \A e \in cache' : e.key # local'[u].key
    <2>1. u # t /\ pc[u] = "insert" /\ local'[u] = local[u]
      BY <1>3 DEF Busy
    <2>2. cache' \subseteq cache
      BY <2>1
    <2>3. CASE Unchanged(local[u].key)
      BY <1>1, <2>1, <2>3
    <2>4. CASE \A e \in cache : e.key # local[u].key
      BY <2>1, <2>2, <2>4
    <2> QED
      BY <2>1, <2>3, <2>4 DEF Settled
  <1>4. \A k \in Keys : Unchanged(k)' \/ \E u \in Threads : BusyWith(u, k)'
    BY <1>1, <1>2 DEF Settled
  <1> QED
    BY <1>3, <1>4 DEF Settled

LEMMA WithoutAgrees ==
    ASSUME NEW m, NEW n, NEW k, NEW j, j # k, Agree(m, n, j)
    PROVE  Agree([store |-> Without(m.store, {k}), ttl |-> Without(m.ttl, {k})], n, j)
  BY DEF Agree, Without, Restrict

LEMMA UpdatedAgrees ==
    ASSUME NEW m, NEW n, NEW k, NEW h, NEW j, j # k, Agree(m, n, j),
           NEW l, l = m.ttl \/ \E life : l = Updated(m.ttl, Single(k, life))
    PROVE  Agree([store |-> Updated(m.store, Single(k, h)), ttl |-> l], n, j)
  <1>1. /\ j \in DOMAIN l <=> j \in DOMAIN m.ttl
        /\ j \in DOMAIN m.ttl => l[j] = m.ttl[j]
    BY DEF Updated, Single
  <1> QED
    BY <1>1 DEF Agree, Updated, Single

LEMMA PurgeKeepsSettled ==
    ASSUME Shape, Settled, NEW t \in Threads, Purge(t)
    PROVE  Settled'
  <1>1. pc[t] = "writing" /\ local[t].op = "put" /\ pc[t] \in Writing /\ settled' = settled
        /\ cache' = cache
    BY DEF Purge, Writing
  <1>2. \A k \in Keys : Unchanged(k)
    BY <1>1, QuietMap
  <1>3. PICK k \in local[t].todo :
           IF Expired(k)
           THEN /\ GoWith(t, "purged", [local[t] EXCEPT !.key = k])
                /\ store' = Without(store, {k}) /\ ttl' = Without(ttl, {k})
           ELSE /\ GoWith(t, "insert", [local[t] EXCEPT !.key = k])
                /\ UNCHANGED <<store, ttl>>
    BY DEF Purge
  <1>4. local[t] \in PutCall
    BY <1>1, WriterIsTyped
  <1>5. /\ k \in Keys /\ pc'[t] \in {"purged", "insert"} /\ local'[t].key = k
        /\ \A u \in Threads \ {t} : pc'[u] = pc[u]
    BY <1>3, <1>4 DEF GoWith, Shape, PutCall
  <1>6. BusyWith(t, k)'
    BY <1>5 DEF BusyWith, Busy
  <1>7. \A j \in Keys \ {k} : Unchanged(j)'
    <2> SUFFICES ASSUME NEW j \in Keys \ {k} PROVE Agree(Actual', settled', j)
      BY DEF Unchanged
    <2>1. Agree(Actual, settled, j) /\ Actual.store = store /\ Actual.ttl = ttl
      BY <1>2 DEF Unchanged, Actual
    <2>2. CASE Expired(k)
      <3>1. Agree([store |-> Without(Actual.store, {k}), ttl |-> Without(Actual.ttl, {k})],
                  settled, j)
        BY <2>1, WithoutAgrees
      <3> QED
        BY <1>1, <1>3, <2>1, <2>2, <3>1 DEF Actual
    <2>3. CASE ~Expired(k)
      BY <1>1, <1>3, <2>1, <2>3 DEF Actual
    <2> QED
      BY <2>2, <2>3
  <1>8. ASSUME NEW u \in Threads, pc'[u] = "insert" PROVE Unchanged(local[u].key)'
    <2>1. u = t
      BY <1>1, <1>5, <1>8 DEF Shape, Writing
    <2>2. UNCHANGED <<store, ttl>>
      BY <1>3, <1>5, <1>8, <2>1 DEF GoWith, Shape
    <2>3. Unchanged(k)
      BY <1>2, <1>5
    <2>4. Agree(Actual', settled', k)
      BY <1>1, <2>2, <2>3 DEF Unchanged, Actual
    <2> QED
      BY <1>5, <2>1, <2>4 DEF Unchanged
  <1> QED
    BY <1>5, <1>6, <1>7, <1>8 DEF Settled

LEMMA PopKeyKeepsSettled ==
    ASSUME Shape, Settled, NEW t \in Threads, PopKey(t)
    PROVE  Settled'
  <1>1. pc[t] = "writing" /\ local[t].op \in {"delete", "sweep"} /\ pc[t] \in Writing
        /\ settled' = settled /\ cache' = cache
    BY DEF PopKey, Writing
  <1>2. \A k \in Keys : Unchanged(k)
    BY <1>1, QuietMap
  <1>3. PICK k \in local[t].todo :
           /\ GoWith(t, "changed", [local[t] EXCEPT !.key = k])
           /\ store' = Without(store, {k}) /\ ttl' = Without(ttl, {k})
    BY DEF PopKey
  <1>4. local[t] \in RemoveCall
    BY <1>1, WriterIsTyped
  <1>5. /\ pc'[t] = "changed" /\ local'[t].key = k
        /\ \A u \in Threads \ {t} : pc'[u] = pc[u]
    BY <1>3, <1>4 DEF GoWith, Shape, RemoveCall
  <1>6. BusyWith(t, k)'
    BY <1>5 DEF BusyWith, Busy
  <1>7. \A j \in Keys \ {k} : Unchanged(j)'
    <2> SUFFICES ASSUME NEW j \in Keys \ {k} PROVE Agree(Actual', settled', j)
      BY DEF Unchanged
    <2>1. Agree(Actual, settled, j) /\ Actual.store = store /\ Actual.ttl = ttl
      BY <1>2 DEF Unchanged, Actual
    <2>2. Agree([store |-> Without(Actual.store, {k}), ttl |-> Without(Actual.ttl, {k})],
                settled, j)
      BY <2>1, WithoutAgrees
    <2> QED
      BY <1>1, <1>3, <2>1, <2>2 DEF Actual
  <1>8. \A u \in Threads : pc'[u] # "insert"
    BY <1>1, <1>5 DEF Shape, Writing
  <1> QED
    BY <1>5, <1>6, <1>7, <1>8 DEF Settled

LEMMA ForgetPurgedKeepsSettled ==
    ASSUME Shape, Settled, NEW t \in Threads, ForgetPurged(t)
    PROVE  Settled'
  <1>1. /\ pc[t] = "purged" /\ pc[t] \in Writing /\ pc' = [pc EXCEPT ![t] = "insert"]
        /\ local' = local /\ UNCHANGED shared /\ \A e \in cache' : e.key # local[t].key
    BY DEF ForgetPurged, Go, Cache!Drop, Writing
  <1>2. \A k : Unchanged(k)' <=> Unchanged(k)
    BY <1>1 DEF shared, Unchanged, Actual, Agree
  <1>3. \A u \in Threads, k \in Keys : BusyWith(u, k) => BusyWith(u, k)'
    BY <1>1 DEF BusyWith, Busy, Shape
  <1>4. \A u \in Threads : pc'[u] = "insert" => u = t
    BY <1>1 DEF Shape, Writing
  <1> QED
    BY <1>1, <1>2, <1>3, <1>4 DEF Settled

LEMMA PutVersionKeepsSettled ==
    ASSUME Shape, Settled, NEW t \in Threads, PutVersion(t)
    PROVE  Settled'
  <1> DEFINE put == AutoPrune(InsertVersion(HistoryIn(Actual, local[t].key),
                       [ts |-> local[t].ts, val |-> local[t].items[local[t].key]]), Cap)
  <1>1. PICK k, h : k = local[t].key /\ h = put
    OBVIOUS
  <1>2. /\ pc[t] = "insert" /\ pc[t] \in Writing /\ pc' = [pc EXCEPT ![t] = "changed"]
        /\ local' = local /\ settled' = settled /\ cache' = cache
        /\ store' = Updated(store, Single(k, h))
        /\ ttl' = ttl \/ \E life : ttl' = Updated(ttl, Single(k, life))
    BY <1>1 DEF PutVersion, Go, Writing
  <1> HIDE DEF put
  <1>3. BusyWith(t, k)'
    BY <1>1, <1>2 DEF BusyWith, Busy, Shape
  <1>4. \A j \in Keys \ {k} : Unchanged(j)'
    <2> SUFFICES ASSUME NEW j \in Keys \ {k} PROVE Agree(Actual', settled', j)
      BY DEF Unchanged
    <2>1. Agree(Actual, settled, j) /\ Actual.store = store /\ Actual.ttl = ttl
      BY <1>1, <1>2, OthersUnchanged DEF Unchanged, Actual
    <2>2. Agree([store |-> Updated(Actual.store, Single(k, h)), ttl |-> ttl'], settled, j)
      BY <1>2, <2>1, UpdatedAgrees
    <2> QED
      BY <1>2, <2>1, <2>2 DEF Actual
  <1>5. \A u \in Threads : pc'[u] # "insert"
    BY <1>2 DEF Shape, Writing
  <1> QED
    BY <1>3, <1>4, <1>5 DEF Settled

LEMMA SettleSettles ==
    ASSUME Settle, UNCHANGED <<store, ttl>>
    PROVE  Settled'
  <1>1. Actual' = settled'
    BY DEF Settle, Actual
  <1>2. \A k : Unchanged(k)'
    BY <1>1 DEF Unchanged, Agree
  <1> QED
    BY <1>2 DEF Settled

LEMMA NextKeepsSettled ==
    ASSUME Shape, Settled, [Next]_vars
    PROVE  Settled'
  <1>1. CASE Tick \/ ResetStats \/ UNCHANGED vars
    <2>1. UNCHANGED <<shared, pc, local>> /\ cache' \subseteq cache
      BY <1>1 DEF Tick, ResetStats, vars, shared, Cache!Empty
    <2>2. /\ \A k : Unchanged(k)' <=> Unchanged(k)
          /\ \A u \in Threads, k \in Keys : BusyWith(u, k)' <=> BusyWith(u, k)
      BY <2>1 DEF shared, Unchanged, Actual, Agree, BusyWith
    <2> QED
      BY <2>1, <2>2 DEF Settled
  <1>2. ASSUME NEW t \in Threads, Step(t) PROVE Settled'
    <2>1. CASE Purge(t)
      BY <2>1, PurgeKeepsSettled
    <2>2. CASE PopKey(t)
      BY <2>2, PopKeyKeepsSettled
    <2>3. CASE ForgetPurged(t)
      BY <2>3, ForgetPurgedKeepsSettled
    <2>4. CASE PutVersion(t)
      BY <2>4, PutVersionKeepsSettled
    <2>5. CASE Forget(t) \/ ForgetAll(t)
      BY <2>5, SettleSettles DEF Forget, ForgetAll
    <2>6. CASE SetImage(t)
      <3>1. pc'[t] = "replaced" /\ \A u \in Threads : pc'[u] # "insert"
        BY <2>6 DEF SetImage, Go, Shape, Writing
      <3> QED
        BY <3>1 DEF Settled, BusyWith
    <2>7. CASE \/ \E k \in Keys, at \in Asked : Get(t, k, at)
               \/ IsInTtl(t) \/ ReadTtl(t) \/ ForgetExpired(t) \/ LookInCache(t) \/ Lookup(t)
      <3>1. /\ UNCHANGED shared /\ cache' \subseteq cache
            /\ pc[t] \in {"idle", "asked", "in_ttl", "expired", "in_time", "missed"}
            /\ \E l \in Labels \ Busy : pc' = [pc EXCEPT ![t] = l]
            /\ \A u \in Threads \ {t} : local'[u] = local[u]
        BY <2>7 DEF Get, IsInTtl, ReadTtl, ForgetExpired, LookInCache, Lookup, Return, Done,
             Go, GoWith, Cache!Drop, Labels, Asking, Busy, Shape
      <3>2. pc[t] \notin Busy /\ pc'[t] \notin Busy /\ \A u \in Threads \ {t} : pc'[u] = pc[u]
        BY <3>1 DEF Busy, Shape
      <3> QED
        BY <3>1, <3>2, IdleKeepsSettled
    <2>8. CASE CacheAndReturn(t)
      <3>1. /\ UNCHANGED shared /\ pc[t] = "found" /\ pc' = [pc EXCEPT ![t] = "idle"]
            /\ \A u \in Threads \ {t} : local'[u] = local[u]
        BY <2>8 DEF CacheAndReturn, Return, Done, GoWith, Shape
      <3>2. \A u \in Threads : pc[u] # "insert"
        BY <3>1, QuietMap DEF Busy
      <3>3. pc[t] \notin Busy /\ pc'[t] \notin Busy /\ \A u \in Threads \ {t} : pc'[u] = pc[u]
        BY <3>1 DEF Busy, Shape
      <3> QED
        BY <3>1, <3>2, <3>3, IdleKeepsSettled
    <2>9. CASE \/ \E items \in Items, at \in Stamps, life \in {None} \cup Lifetimes :
                     PutMany(t, items, at, life)
               \/ \E S \in (SUBSET Keys) \ {{}} : Delete(t, S)
               \/ CleanExpiredKeys(t)
               \/ \E m \in Images : Replace(t, m)
               \/ EnterWrite(t) \/ LeaveWrite(t)
      <3>1. /\ UNCHANGED shared /\ cache' = cache
            /\ pc[t] \in {"idle", "waiting", "writing"}
            /\ \E l \in {"idle", "waiting", "writing"} : pc' = [pc EXCEPT ![t] = l]
            /\ \A u \in Threads \ {t} : local'[u] = local[u]
        BY <2>9 DEF PutMany, Delete, CleanExpiredKeys, Replace, Call, EnterWrite, LeaveWrite,
             Done, GoWith, Shape
      <3>2. pc[t] \notin Busy /\ pc'[t] \notin Busy /\ \A u \in Threads \ {t} : pc'[u] = pc[u]
        BY <3>1 DEF Busy, Shape
      <3> QED
        BY <3>1, <3>2, IdleKeepsSettled
    <2> QED
      BY <1>2, <2>1, <2>2, <2>3, <2>4, <2>5, <2>6, <2>7, <2>8, <2>9 DEF Step
  <1> QED
    BY <1>1, <1>2 DEF Next

-----------------------------------------------------------------------------

(***************************************************************************)
(* What is remembered stays right when a writer that was busy with another *)
(* key settles the map.                                                    *)
(***************************************************************************)
LEMMA SettlingRemembers ==
    ASSUME NEW k, NEW at, NEW v, Remembered(k, at, v), settled' = Actual, Unchanged(k)
    PROVE  Remembered(k, at, v)'
  <1>1. StoredIn(Actual, k, at) = StoredIn(settled, k, at)
    BY AgreeingMaps DEF Unchanged
  <1>2. k \in DOMAIN Actual.store
    BY DEF Remembered, Unchanged, Agree
  <1>3. v \in Values /\ (at # None => v = StoredIn(Actual, k, at))
    BY <1>1 DEF Remembered
  <1> QED
    BY <1>2, <1>3 DEF Remembered

LEMMA KeepAdds ==
    ASSUME NEW e, Cache!Keep(e)
    PROVE  cache' \subseteq cache \cup {e}
  BY DEF Cache!Keep

LEMMA FoundIsRemembered ==
    ASSUME Shape, Data, Settled, NEW t \in Threads, Lookup(t), LookedUp(t).val # Absent
    PROVE  Remembered(local[t].key, local[t].at, LookedUp(t).val)
  <1>1. pc[t] = "missed" /\ Lock!AdmitReader(t)
    BY DEF Lookup
  <1>2. /\ local[t] \in Question /\ (local[t].at # None => local[t].ts = local[t].at)
    BY <1>1 DEF Shape, Fits, Asking
  <1> DEFINE k == local[t].key
             ts == local[t].ts
             v == LookedUp(t).val
  <1>3. k \in Keys /\ ts \in Int /\ v = AsOfIn(Actual, k, now, ts)
    BY <1>2, ChronoMapThreadsAssumption DEF Question, Times, LookedUp
  <1>4. \A u \in Threads : pc[u] \notin Busy
    BY <1>1, ReaderEntersAmongReaders DEF Writing, Busy
  <1>5. Agree(Actual, settled, k)
    BY <1>3, <1>4, NobodyBusy DEF Unchanged
  <1>6. v \in Values /\ k \in DOMAIN Actual.store
    <2> HIDE DEF k, ts, v
    <2> QED
      BY <1>3, AnswerIsFound DEF Data, v
  <1>7. v = StoredIn(Actual, k, ts) /\ StoredIn(Actual, k, ts) = StoredIn(settled, k, ts)
    BY <1>3, <1>5, AgreeingMaps DEF AsOfIn
  <1>8. k \in DOMAIN settled.store
    BY <1>5, <1>6 DEF Agree
  <1> QED
    BY <1>2, <1>6, <1>7, <1>8 DEF Remembered

LEMMA NextKeepsCacheRight ==
    ASSUME Shape, Data, Settled, CacheIsRight, [Next]_vars
    PROVE  CacheIsRight'
  <1>1. ASSUME settled' = settled, cache' \subseteq cache,
               \A u \in Threads : pc'[u] = "found" => pc[u] = "found" /\ local'[u] = local[u]
        PROVE  CacheIsRight'
    <2>1. \A k, at, v : Remembered(k, at, v)' <=> Remembered(k, at, v)
      BY <1>1 DEF Remembered
    <2>2. \A e \in cache' : e \in Cache!Entry /\ Remembered(e.key, e.at, e.val)'
      BY <1>1, <2>1 DEF CacheIsRight
    <2>3. ASSUME NEW u \in Threads, pc'[u] = "found", local'[u].val # Absent
          PROVE  Remembered(local[u].key, local[u].at, local[u].val)'
      <3>1. Remembered(local[u].key, local[u].at, local[u].val)
        BY <1>1, <2>3 DEF CacheIsRight
      <3> QED
        BY <1>1, <2>1, <2>3, <3>1
    <2> QED
      BY <2>2, <2>3 DEF CacheIsRight
  <1>2. ASSUME NEW t \in Threads, Step(t) PROVE CacheIsRight'
    <2>1. CASE Forget(t)
      <3>1. /\ pc[t] = "changed" /\ pc[t] \in Writing /\ settled' = Actual
            /\ cache' \subseteq cache /\ \A e \in cache' : e.key # local[t].key
            /\ pc'[t] = "writing" /\ \A u \in Threads \ {t} : pc'[u] = pc[u]
        BY <2>1 DEF Forget, Settle, Cache!Drop, GoWith, Shape, Writing
      <3>2. \A u \in Threads : pc'[u] # "found"
        BY <3>1 DEF Shape
      <3>3. ASSUME NEW e \in cache' PROVE Remembered(e.key, e.at, e.val)'
        <4>1. Remembered(e.key, e.at, e.val) /\ e.key \in Keys
          BY <3>1 DEF CacheIsRight, Cache!Entry
        <4>2. Unchanged(e.key)
          BY <3>1, <4>1, OthersUnchanged
        <4> QED
          BY <3>1, <4>1, <4>2, SettlingRemembers
      <3> QED
        BY <3>1, <3>2, <3>3 DEF CacheIsRight
    <2>2. CASE ForgetAll(t)
      <3>1. cache' = {} /\ pc[t] = "replaced" /\ pc'[t] = "writing" /\ pc[t] \in Writing
            /\ \A u \in Threads \ {t} : pc'[u] = pc[u]
        BY <2>2 DEF ForgetAll, Cache!Empty, GoWith, Shape, Writing
      <3>2. \A u \in Threads : pc'[u] # "found"
        BY <3>1 DEF Shape
      <3> QED
        BY <3>1, <3>2 DEF CacheIsRight
    <2>3. CASE Lookup(t)
      <3>1. /\ settled' = settled /\ cache' = cache /\ local'[t] = LookedUp(t)
            /\ \A u \in Threads \ {t} : pc'[u] = pc[u] /\ local'[u] = local[u]
        BY <2>3 DEF Lookup, GoWith, Shape, shared
      <3>2. LookedUp(t).key = local[t].key /\ LookedUp(t).at = local[t].at
        BY <2>3 DEF LookedUp, Lookup, Shape, Fits, Asking, Question
      <3>3. \A k, at, v : Remembered(k, at, v)' <=> Remembered(k, at, v)
        BY <3>1 DEF Remembered
      <3>4. \A e \in cache' : e \in Cache!Entry /\ Remembered(e.key, e.at, e.val)'
        BY <3>1, <3>3 DEF CacheIsRight
      <3>5. ASSUME NEW u \in Threads, pc'[u] = "found", local'[u].val # Absent
            PROVE  Remembered(local[u].key, local[u].at, local[u].val)'
        <4>1. CASE u = t
          <5>1. Remembered(local[t].key, local[t].at, LookedUp(t).val)
            BY <2>3, <3>1, <3>5, <4>1, FoundIsRemembered
          <5> QED
            BY <3>1, <3>2, <3>3, <4>1, <5>1
        <4>2. CASE u # t
          <5>1. Remembered(local[u].key, local[u].at, local[u].val)
            BY <3>1, <3>5, <4>2 DEF CacheIsRight
          <5> QED
            BY <3>1, <3>3, <4>2, <5>1
        <4> QED
          BY <4>1, <4>2
      <3> QED
        BY <3>4, <3>5 DEF CacheIsRight
    <2>4. CASE CacheAndReturn(t)
      <3> DEFINE e == [key |-> local[t].key, at |-> local[t].at, val |-> local[t].val]
      <3>1. /\ pc[t] = "found" /\ settled' = settled /\ pc'[t] = "idle"
            /\ \A u \in Threads \ {t} : pc'[u] = pc[u] /\ local'[u] = local[u]
            /\ cache' = cache \/ (local[t].val # Absent /\ Cache!Keep(e))
        BY <2>4 DEF CacheAndReturn, Return, Done, GoWith, Shape, shared
      <3>2. CASE cache' = cache
        BY <1>1, <3>1, <3>2
      <3>3. CASE local[t].val # Absent /\ Cache!Keep(e)
        <4>1. local[t] \in Question
          BY <3>1 DEF Shape, Fits, Asking
        <4>2. Remembered(local[t].key, local[t].at, local[t].val)
          BY <3>1, <3>3 DEF CacheIsRight
        <4>3. /\ e \in Cache!Entry /\ Remembered(e.key, e.at, e.val)
          BY <4>1, <4>2 DEF Cache!Entry, Question, Remembered
        <4> HIDE DEF e
        <4>4. cache' \subseteq cache \cup {e}
          BY <3>3, KeepAdds
        <4>5. \A k, at, v : Remembered(k, at, v)' <=> Remembered(k, at, v)
          BY <3>1 DEF Remembered
        <4>6. \A f \in cache' : f \in Cache!Entry /\ Remembered(f.key, f.at, f.val)'
          BY <4>3, <4>4, <4>5 DEF CacheIsRight
        <4>7. ASSUME NEW u \in Threads, pc'[u] = "found", local'[u].val # Absent
              PROVE  Remembered(local[u].key, local[u].at, local[u].val)'
          <5>1. u # t
            BY <3>1, <4>7
          <5>2. Remembered(local[u].key, local[u].at, local[u].val)
            BY <3>1, <4>7, <5>1 DEF CacheIsRight
          <5> QED
            BY <3>1, <4>5, <5>1, <5>2
        <4> QED
          BY <4>6, <4>7 DEF CacheIsRight
      <3> QED
        BY <3>1, <3>2, <3>3
    <2>5. CASE ~(Forget(t) \/ ForgetAll(t) \/ Lookup(t) \/ CacheAndReturn(t))
      <3>1. /\ settled' = settled /\ cache' \subseteq cache
            /\ \A u \in Threads \ {t} : pc'[u] = pc[u] /\ local'[u] = local[u]
            /\ pc'[t] # "found"
        BY <1>2, <2>5
           DEF Step, Get, IsInTtl, ReadTtl, ForgetExpired, LookInCache, PutMany, Delete,
               CleanExpiredKeys, Replace, Call, EnterWrite, LeaveWrite, Purge, ForgetPurged,
               PutVersion, PopKey, SetImage, Return, Done, Go, GoWith, Cache!Drop, Shape, shared
      <3> QED
        BY <1>1, <3>1
    <2> QED
      BY <2>1, <2>2, <2>3, <2>4, <2>5
  <1>3. CASE Tick \/ ResetStats \/ UNCHANGED vars
    <2>1. settled' = settled /\ cache' \subseteq cache /\ pc' = pc /\ local' = local
      BY <1>3 DEF Tick, ResetStats, vars, shared, Cache!Empty
    <2> QED
      BY <1>1, <2>1
  <1> QED
    BY <1>2, <1>3 DEF Next

(***************************************************************************)
(* The invariant that is inductive.                                        *)
(***************************************************************************)
Inv == Shape /\ Data /\ Settled /\ CacheIsRight

LEMMA InitInv == Init => Inv
  <1> SUFFICES ASSUME Init PROVE Inv
    OBVIOUS
  <1>1. Settled
    BY DEF Init, Settled, Unchanged, Agree, Actual
  <1>2. CacheIsRight
    BY DEF Init, CacheIsRight, Cache!Init
  <1> QED
    BY <1>1, <1>2, InitShapeData DEF Inv

LEMMA NextKeepsInv == Inv /\ [Next]_vars => Inv'
  BY NextKeepsShape, NextKeepsData, NextKeepsSettled, NextKeepsCacheRight DEF Inv, Data

-----------------------------------------------------------------------------

(***************************************************************************)
(* The history variable: what is true of the map after a step is seen by   *)
(* every get() in progress, and what was seen stays.                       *)
(***************************************************************************)
LEMMA SeenGrows ==
    ASSUME Observe, NEW t \in Threads, pc'[t] \in Asking
    PROVE  seen[t] \subseteq seen'[t]
  BY DEF Observe

LEMMA NowSeen ==
    ASSUME Observe, NEW t \in Threads, pc'[t] \in Asking,
           NEW k, NEW at, at # None, local'[t].key = k, local'[t].at = at
    PROVE  /\ AsOfIn(Actual', k, now', at) \in seen'[t]
           /\ k \in Unsettled' => StoredIn(settled', k, at) \in seen'[t]
  <1>1. True(local[t])' \subseteq seen'[t]
    BY DEF Observe
  <1>2. /\ AsOfIn(Actual', k, now', at) \in True(local[t])'
        /\ k \in Unsettled' => StoredIn(settled', k, at) \in True(local[t])'
    <2> HIDE DEF AsOfIn, StoredIn, Actual, Unsettled
    <2> QED
      BY DEF True
  <1> QED
    BY <1>1, <1>2

LEMMA BusyIsUnsettled ==
    ASSUME NEW u \in Threads, NEW k \in Keys, BusyWith(u, k), pc[u] # "insert"
    PROVE  k \in Unsettled
  <1>1. k \in IF pc[u] = "replaced" THEN Keys
              ELSE IF pc[u] \in {"purged", "changed"} THEN {local[u].key} ELSE {}
    BY DEF BusyWith, Busy
  <1> QED
    BY <1>1 DEF Unsettled

(***************************************************************************)
(* A thread that found its key alive has seen what the cache has of it and *)
(* what a reader inside the lock has found.                                *)
(***************************************************************************)
LEMMA LivingIsSeen ==
    ASSUME Inv, Observe, NEW t \in Threads, pc[t] \in {"asked", "in_ttl"}, pc'[t] = "in_time",
           UNCHANGED <<shared, now, local>>, \A u \in Threads \ {t} : pc'[u] = pc[u],
           ~Expired(local[t].key)
    PROVE  /\ \A e \in cache : AskedFor(t, e.key, e.at) => e.val \in seen'[t]
           /\ \A u \in Threads : pc[u] = "found" /\ AskedFor(t, local[u].key, local[u].at)
                 /\ local[u].val # Absent => local[u].val \in seen'[t]
  <1>1. PICK k, at : k = local[t].key /\ at = local[t].at
    OBVIOUS
  <1>2. k \in Keys
    BY <1>1 DEF Inv, Shape, Fits, Asking, Question
  <1>3. Actual' = Actual /\ settled' = settled /\ now' = now /\ local' = local
    BY DEF shared, Actual
  <1>4. at # None => /\ AsOfIn(Actual, k, now, at) \in seen'[t]
                     /\ k \in Unsettled' => StoredIn(settled, k, at) \in seen'[t]
    BY <1>1, <1>3, NowSeen DEF Asking
  <1>5. AsOfIn(Actual, k, now, at) = StoredIn(Actual, k, at)
    BY <1>1 DEF Expired, AsOfIn
  <1>6. Unchanged(k) => StoredIn(Actual, k, at) = StoredIn(settled, k, at)
    BY AgreeingMaps DEF Unchanged
  <1>7. ASSUME NEW e \in cache, AskedFor(t, e.key, e.at) PROVE e.val \in seen'[t]
    <2>1. e.key = k /\ e.at = at /\ at # None /\ e.val = StoredIn(settled, k, at)
      BY <1>1, <1>7 DEF AskedFor, Inv, CacheIsRight, Remembered
    <2>2. CASE Unchanged(k)
      BY <1>4, <1>5, <1>6, <2>1, <2>2
    <2>3. CASE ~Unchanged(k)
      <3>1. PICK u \in Threads : BusyWith(u, k)
        BY <1>2, <2>3 DEF Inv, Settled
      <3>2. pc[u] # "insert"
        BY <2>1, <2>3, <3>1 DEF Inv, Settled, BusyWith
      <3>3. u # t
        BY <3>1 DEF BusyWith, Busy
      <3>4. pc'[u] = pc[u] /\ local'[u] = local[u]
        BY <1>3, <3>3
      <3>5. k \in Unsettled'
        <4>1. k \in IF pc'[u] = "replaced" THEN Keys
                    ELSE IF pc'[u] \in {"purged", "changed"} THEN {local'[u].key} ELSE {}
          BY <1>2, <3>1, <3>2, <3>4 DEF BusyWith, Busy
        <4> QED
          BY <4>1 DEF Unsettled
      <3> QED
        BY <1>4, <2>1, <3>5
    <2> QED
      BY <2>2, <2>3
  <1>8. ASSUME NEW u \in Threads, pc[u] = "found", AskedFor(t, local[u].key, local[u].at),
               local[u].val # Absent
        PROVE  local[u].val \in seen'[t]
    <2>1. local[u].key = k /\ local[u].at = at /\ at # None
      BY <1>1, <1>8 DEF AskedFor
    <2>2. local[u].val = StoredIn(settled, k, at)
      BY <1>8, <2>1 DEF Inv, CacheIsRight, Remembered
    <2>3. Unchanged(k)
      BY <1>2, <1>8, QuietMap DEF Inv
    <2> QED
      BY <1>4, <1>5, <1>6, <2>1, <2>2, <2>3
  <1> QED
    BY <1>7, <1>8

(***************************************************************************)
(* A step in which no get() comes to a label where it must have seen       *)
(* something, and no answer comes into the cache.                          *)
(***************************************************************************)
Telling == {"expired", "found", "in_time"}

LEMMA SeenPersists ==
    ASSUME Observe, SeenIsEnough, cache' \subseteq cache,
           \A u \in Threads : pc'[u] \in Telling => pc'[u] = pc[u] /\ local'[u] = local[u]
    PROVE  SeenIsEnough'
  <1>1. \A u \in Threads : pc'[u] \in Telling => seen[u] \subseteq seen'[u]
    BY SeenGrows DEF Telling, Asking
  <1>2. /\ \A u \in Threads : pc'[u] = "expired" /\ local'[u].at # None => Absent \in seen'[u]
        /\ \A u \in Threads : pc'[u] = "found" /\ local'[u].at # None
              => local'[u].val \in seen'[u]
    BY <1>1 DEF Telling, SeenIsEnough
  <1>3. \A u \in Threads, e \in cache' :
           pc'[u] = "in_time" /\ AskedFor(u, e.key, e.at)' => e.val \in seen'[u]
    BY <1>1 DEF Telling, SeenIsEnough, AskedFor
  <1>4. \A u, w \in Threads :
           pc'[u] = "in_time" /\ pc'[w] = "found" /\ AskedFor(u, local[w].key, local[w].at)'
              /\ local'[w].val # Absent => local'[w].val \in seen'[u]
    BY <1>1 DEF Telling, SeenIsEnough, AskedFor
  <1> QED
    BY <1>2, <1>3, <1>4 DEF SeenIsEnough

LEMMA LookKeepsSeen ==
    ASSUME Inv, SeenIsEnough, Observe, NEW t \in Threads, IsInTtl(t) \/ ReadTtl(t)
    PROVE  SeenIsEnough'
  <1>1. /\ UNCHANGED <<shared, cache, now>> /\ pc[t] \in {"asked", "in_ttl"}
        /\ \A u \in Threads \ {t} : pc'[u] = pc[u] /\ local'[u] = local[u]
    BY DEF IsInTtl, ReadTtl, Go, Return, Done, GoWith, Inv, Shape
  <1>2. /\ pc'[t] \in {"expired", "in_time"} => local' = local
        /\ pc'[t] = "expired" => Expired(local[t].key)
        /\ pc'[t] = "in_time" => ~Expired(local[t].key)
        /\ pc'[t] # "found"
    BY DEF IsInTtl, ReadTtl, Go, Return, Done, GoWith, Inv, Shape, Expired, ExpiredIn, Actual
  <1>3. \A u \in Threads : pc'[u] \in Telling => seen[u] \subseteq seen'[u]
    BY SeenGrows DEF Telling, Asking
  <1>4. CASE pc'[t] \notin Telling
    <2>1. \A u \in Threads : pc'[u] \in Telling => pc'[u] = pc[u] /\ local'[u] = local[u]
      BY <1>1, <1>4
    <2> QED
      BY <1>1, <2>1, SeenPersists
  <1>5. CASE pc'[t] = "expired"
    <2>1. local' = local
      BY <1>2, <1>5
    <2>2. local[t].at # None => Absent \in seen'[t]
      <3>1. Actual' = Actual /\ now' = now
        BY <1>1 DEF shared, Actual
      <3>2. local[t].at # None => AsOfIn(Actual, local[t].key, now, local[t].at) \in seen'[t]
        BY <1>5, <2>1, <3>1, NowSeen DEF Asking
      <3> QED
        BY <1>2, <1>5, <3>2 DEF AsOfIn, Expired
    <2>3. \A u \in Threads : pc'[u] = "expired" /\ local'[u].at # None => Absent \in seen'[u]
      BY <1>1, <1>3, <2>1, <2>2 DEF Telling, SeenIsEnough
    <2>4. \A u \in Threads : pc'[u] = "found" /\ local'[u].at # None
              => local'[u].val \in seen'[u]
      BY <1>1, <1>3, <1>5, <2>1 DEF Telling, SeenIsEnough
    <2>5. \A u \in Threads, e \in cache' :
             pc'[u] = "in_time" /\ AskedFor(u, e.key, e.at)' => e.val \in seen'[u]
      BY <1>1, <1>3, <1>5, <2>1 DEF Telling, SeenIsEnough, AskedFor
    <2>6. \A u, w \in Threads :
             pc'[u] = "in_time" /\ pc'[w] = "found" /\ AskedFor(u, local[w].key, local[w].at)'
                /\ local'[w].val # Absent => local'[w].val \in seen'[u]
      BY <1>1, <1>3, <1>5, <2>1 DEF Telling, SeenIsEnough, AskedFor
    <2> QED
      BY <2>3, <2>4, <2>5, <2>6 DEF SeenIsEnough
  <1>6. CASE pc'[t] = "in_time"
    <2>1. local' = local
      BY <1>2, <1>6
    <2>2. /\ \A e \in cache : AskedFor(t, e.key, e.at) => e.val \in seen'[t]
          /\ \A u \in Threads : pc[u] = "found" /\ AskedFor(t, local[u].key, local[u].at)
                /\ local[u].val # Absent => local[u].val \in seen'[t]
      BY <1>1, <1>2, <1>6, <2>1, LivingIsSeen
    <2>3. \A u \in Threads : pc'[u] = "expired" /\ local'[u].at # None => Absent \in seen'[u]
      BY <1>1, <1>3, <1>6, <2>1 DEF Telling, SeenIsEnough
    <2>4. \A u \in Threads : pc'[u] = "found" /\ local'[u].at # None
              => local'[u].val \in seen'[u]
      BY <1>1, <1>3, <1>6, <2>1 DEF Telling, SeenIsEnough
    <2>5. \A u \in Threads, e \in cache' :
             pc'[u] = "in_time" /\ AskedFor(u, e.key, e.at)' => e.val \in seen'[u]
      BY <1>1, <1>3, <2>1, <2>2 DEF Telling, SeenIsEnough, AskedFor
    <2>6. \A u, w \in Threads :
             pc'[u] = "in_time" /\ pc'[w] = "found" /\ AskedFor(u, local[w].key, local[w].at)'
                /\ local'[w].val # Absent => local'[w].val \in seen'[u]
      BY <1>1, <1>2, <1>3, <2>1, <2>2 DEF Telling, SeenIsEnough, AskedFor
    <2> QED
      BY <2>3, <2>4, <2>5, <2>6 DEF SeenIsEnough
  <1> QED
    BY <1>2, <1>4, <1>5, <1>6 DEF Telling

LEMMA LookupKeepsSeen ==
    ASSUME Inv, SeenIsEnough, Observe, NEW t \in Threads, Lookup(t)
    PROVE  SeenIsEnough'
  <1>1. /\ UNCHANGED <<shared, cache, now>> /\ pc[t] = "missed" /\ pc'[t] = "found"
        /\ local'[t] = LookedUp(t)
        /\ \A u \in Threads \ {t} : pc'[u] = pc[u] /\ local'[u] = local[u]
    BY DEF Lookup, GoWith, Inv, Shape
  <1>2. PICK k, at, v : k = local[t].key /\ at = local[t].at /\ v = LookedUp(t).val
    OBVIOUS
  <1>3. local[t] \in Question /\ (at # None => local[t].ts = at)
    BY <1>1, <1>2 DEF Inv, Shape, Fits, Asking
  <1>4. /\ local'[t].key = k /\ local'[t].at = at /\ local'[t].val = v
        /\ at # None => v = AsOfIn(Actual, k, now, at)
    BY <1>1, <1>2, <1>3 DEF LookedUp, Question
  <1>5. Actual' = Actual /\ now' = now
    BY <1>1 DEF shared, Actual
  <1>6. \A u \in Threads : pc'[u] \in Telling => seen[u] \subseteq seen'[u]
    BY SeenGrows DEF Telling, Asking
  <1>7. ASSUME NEW u \in Threads, pc'[u] \in Asking, local'[u].key = k, local'[u].at = at,
               at # None
        PROVE  v \in seen'[u]
    BY <1>4, <1>5, <1>7, NowSeen
  <1>8. \A u \in Threads : pc'[u] = "expired" /\ local'[u].at # None => Absent \in seen'[u]
    BY <1>1, <1>6 DEF Telling, SeenIsEnough
  <1>9. \A u \in Threads : pc'[u] = "found" /\ local'[u].at # None
           => local'[u].val \in seen'[u]
    BY <1>1, <1>4, <1>6, <1>7 DEF Telling, SeenIsEnough, Asking
  <1>10. \A u \in Threads, e \in cache' :
            pc'[u] = "in_time" /\ AskedFor(u, e.key, e.at)' => e.val \in seen'[u]
    BY <1>1, <1>6 DEF Telling, SeenIsEnough, AskedFor
  <1>11. ASSUME NEW u \in Threads, NEW w \in Threads, pc'[u] = "in_time", pc'[w] = "found",
                AskedFor(u, local[w].key, local[w].at)', local'[w].val # Absent
         PROVE  local'[w].val \in seen'[u]
    <2>1. u # t
      BY <1>1, <1>11
    <2>2. CASE w = t
      BY <1>4, <1>7, <1>11, <2>2 DEF AskedFor, Asking
    <2>3. CASE w # t
      BY <1>1, <1>6, <1>11, <2>1, <2>3 DEF Telling, SeenIsEnough, AskedFor
    <2> QED
      BY <2>2, <2>3
  <1> QED
    BY <1>8, <1>9, <1>10, <1>11 DEF SeenIsEnough

LEMMA CachingKeepsSeen ==
    ASSUME Inv, SeenIsEnough, Observe, NEW t \in Threads, CacheAndReturn(t)
    PROVE  SeenIsEnough'
  <1> DEFINE e == [key |-> local[t].key, at |-> local[t].at, val |-> local[t].val]
  <1>1. /\ pc[t] = "found" /\ pc'[t] = "idle"
        /\ \A u \in Threads \ {t} : pc'[u] = pc[u] /\ local'[u] = local[u]
        /\ cache' = cache \/ (local[t].val # Absent /\ Cache!Keep(e))
    BY DEF CacheAndReturn, Return, Done, GoWith, Inv, Shape
  <1>2. \A u \in Threads : pc'[u] \in Telling => seen[u] \subseteq seen'[u]
    BY SeenGrows DEF Telling, Asking
  <1>3. \A u \in Threads : pc'[u] \in Telling => pc'[u] = pc[u] /\ local'[u] = local[u]
    BY <1>1 DEF Telling
  <1>4. CASE cache' = cache
    BY <1>3, <1>4, SeenPersists
  <1>5. CASE local[t].val # Absent /\ Cache!Keep(e)
    <2>1. cache' \subseteq cache \cup {e}
      BY <1>5, KeepAdds
    <2>2. ASSUME NEW u \in Threads, NEW f \in cache', pc'[u] = "in_time",
                 AskedFor(u, f.key, f.at)'
          PROVE  f.val \in seen'[u]
      <3>1. pc[u] = "in_time" /\ AskedFor(u, f.key, f.at) /\ seen[u] \subseteq seen'[u]
        BY <1>2, <1>3, <2>2 DEF Telling, AskedFor
      <3>2. CASE f \in cache
        BY <3>1, <3>2 DEF SeenIsEnough
      <3>3. CASE f = e
        <4>1. f.key = local[t].key /\ f.at = local[t].at /\ f.val = local[t].val
          BY <3>3
        <4> QED
          BY <1>1, <1>5, <3>1, <4>1 DEF SeenIsEnough
      <3> QED
        BY <2>1, <3>2, <3>3
    <2>3. \A u \in Threads : pc'[u] = "expired" /\ local'[u].at # None => Absent \in seen'[u]
      BY <1>2, <1>3 DEF Telling, SeenIsEnough
    <2>4. \A u \in Threads : pc'[u] = "found" /\ local'[u].at # None
              => local'[u].val \in seen'[u]
      BY <1>2, <1>3 DEF Telling, SeenIsEnough
    <2>5. \A u, w \in Threads :
             pc'[u] = "in_time" /\ pc'[w] = "found" /\ AskedFor(u, local[w].key, local[w].at)'
                /\ local'[w].val # Absent => local'[w].val \in seen'[u]
      BY <1>2, <1>3 DEF Telling, SeenIsEnough, AskedFor
    <2> QED
      BY <2>2, <2>3, <2>4, <2>5 DEF SeenIsEnough
  <1> QED
    BY <1>1, <1>4, <1>5

LEMMA NextKeepsSeen ==
    ASSUME Inv, SeenIsEnough, [Next]_vars
    PROVE  SeenIsEnough'
  <1>1. CASE UNCHANGED vars
    BY <1>1 DEF vars, SeenIsEnough, AskedFor
  <1>2. ASSUME Observe, NEW t \in Threads, Step(t) PROVE SeenIsEnough'
    <2>1. CASE IsInTtl(t) \/ ReadTtl(t)
      BY <1>2, <2>1, LookKeepsSeen
    <2>2. CASE Lookup(t)
      BY <1>2, <2>2, LookupKeepsSeen
    <2>3. CASE CacheAndReturn(t)
      BY <1>2, <2>3, CachingKeepsSeen
    <2>4. CASE ~(IsInTtl(t) \/ ReadTtl(t) \/ Lookup(t) \/ CacheAndReturn(t))
      <3>1. /\ cache' \subseteq cache /\ pc'[t] \notin Telling
            /\ \A u \in Threads \ {t} : pc'[u] = pc[u] /\ local'[u] = local[u]
        BY <1>2, <2>4
           DEF Step, Get, ForgetExpired, LookInCache, PutMany, Delete, CleanExpiredKeys,
               Replace, Call, EnterWrite, LeaveWrite, Purge, ForgetPurged, PutVersion, PopKey,
               Forget, SetImage, ForgetAll, Return, Done, Go, GoWith, Cache!Drop, Cache!Empty,
               Inv, Shape, Telling
      <3> QED
        BY <1>2, <3>1, SeenPersists
    <2> QED
      BY <2>1, <2>2, <2>3, <2>4
  <1>3. CASE Observe /\ (Tick \/ ResetStats)
    <2>1. cache' \subseteq cache /\ pc' = pc /\ local' = local
      BY <1>3 DEF Tick, ResetStats, Cache!Empty
    <2> QED
      BY <1>3, <2>1, SeenPersists
  <1> QED
    BY <1>1, <1>2, <1>3 DEF Next

LEMMA NextKeepsAnswersTrue ==
    ASSUME Inv, SeenIsEnough, PastAnswersWereTrue, [Next]_vars
    PROVE  PastAnswersWereTrue'
  <1>1. CASE UNCHANGED vars
    BY <1>1 DEF vars, PastAnswersWereTrue
  <1>2. CASE returned' = {}
    BY <1>2 DEF PastAnswersWereTrue
  <1>3. ASSUME NEW t \in Threads, NEW v, Return(t, v),
               local[t].at # None /\ v # KeyError => v \in seen[t]
        PROVE  PastAnswersWereTrue'
    BY <1>3 DEF Return, PastAnswersWereTrue
  <1>4. ASSUME NEW t \in Threads, Step(t), returned' # {} PROVE PastAnswersWereTrue'
    <2>1. CASE ReadTtl(t)
      <3>1. Return(t, KeyError)
        BY <1>4, <2>1 DEF ReadTtl
      <3> QED
        BY <1>3, <3>1
    <2>2. CASE ForgetExpired(t)
      <3>1. pc[t] = "expired" /\ Return(t, Absent)
        BY <2>2 DEF ForgetExpired
      <3> QED
        BY <1>3, <3>1 DEF SeenIsEnough
    <2>3. CASE LookInCache(t)
      <3>1. PICK e \in Cache!For(local[t].key, local[t].at) : Return(t, e.val)
        BY <1>4, <2>3 DEF LookInCache
      <3>2. pc[t] = "in_time" /\ e \in cache /\ e.key = local[t].key /\ e.at = local[t].at
        BY <2>3 DEF LookInCache, Cache!For
      <3>3. local[t].at # None => e.val \in seen[t]
        BY <3>2 DEF SeenIsEnough, AskedFor
      <3> QED
        BY <1>3, <3>1, <3>3
    <2>4. CASE CacheAndReturn(t)
      <3>1. pc[t] = "found" /\ Return(t, local[t].val)
        BY <2>4 DEF CacheAndReturn
      <3> QED
        BY <1>3, <3>1 DEF SeenIsEnough
    <2> QED
      BY <1>4, <2>1, <2>2, <2>3, <2>4
         DEF Step, Get, IsInTtl, Lookup, PutMany, Delete, CleanExpiredKeys, Replace, Call,
             EnterWrite, LeaveWrite, Purge, ForgetPurged, PutVersion, PopKey, Forget, SetImage,
             ForgetAll
  <1>5. CASE Tick \/ ResetStats
    BY <1>2, <1>5 DEF Tick, ResetStats
  <1> QED
    BY <1>1, <1>2, <1>4, <1>5 DEF Next

(***************************************************************************)
(* get() about a moment that the caller names: whether the answer came     *)
(* from the lookup under the read lock or from the cache without it, and   *)
(* whatever was written, purged, swept, cleared or rolled back meanwhile,  *)
(* it was true at some time between the call and the return.               *)
(***************************************************************************)
THEOREM PastAnswersAreTrue == Spec => []PastAnswersWereTrue
  <1>1. Init => SeenIsEnough /\ PastAnswersWereTrue
    BY DEF Init, SeenIsEnough, PastAnswersWereTrue
  <1> QED
    BY InitInv, <1>1, NextKeepsInv, NextKeepsSeen, NextKeepsAnswersTrue, PTL DEF Spec

(***************************************************************************)
(* get(), delete(), clear(), rollback() and the purges of put(): a reader  *)
(* that looked a key up before it was removed cannot leave its answer in   *)
(* the cache behind the removal.                                           *)
(***************************************************************************)
THEOREM NoGhostsAmongThreads == Spec => []NoGhosts
  <1>1. Inv => NoGhosts
    <2> SUFFICES ASSUME Inv, NEW e \in cache, e.key \notin DOMAIN store
                 PROVE  e.key \in Unsettled
      BY DEF NoGhosts
    <2>1. e.key \in Keys /\ e.key \in DOMAIN settled.store
      BY DEF Inv, CacheIsRight, Cache!Entry, Remembered
    <2>2. ~Unchanged(e.key)
      BY <2>1 DEF Unchanged, Agree, Actual
    <2>3. PICK u \in Threads : BusyWith(u, e.key)
      BY <2>1, <2>2 DEF Inv, Settled
    <2>4. pc[u] # "insert"
      BY <2>2, <2>3 DEF Inv, Settled, BusyWith
    <2> QED
      BY <2>1, <2>3, <2>4, BusyIsUnsettled
  <1> QED
    BY InitInv, NextKeepsInv, <1>1, PTL DEF Spec

(***************************************************************************)
(* get() and the writers: an answer in the cache about a moment that the   *)
(* caller named is what the history of its key says, outside the window    *)
(* between a change of the key and its invalidation.                       *)
(***************************************************************************)
THEOREM CacheFollowsHistories == Spec => []PastIsRemembered
  <1>1. Inv => PastIsRemembered
    <2> SUFFICES ASSUME Inv, NEW e \in cache, e.at # None, e.key \notin Unsettled,
                        ~Expired(e.key)
                 PROVE  e.val = AsOfIn(Actual, e.key, now, e.at)
      BY DEF PastIsRemembered
    <2>1. e.key \in Keys /\ e.val = StoredIn(settled, e.key, e.at)
      BY DEF Inv, CacheIsRight, Cache!Entry, Remembered
    <2>2. Unchanged(e.key)
      <3> SUFFICES ASSUME ~Unchanged(e.key) PROVE FALSE
        OBVIOUS
      <3>1. PICK u \in Threads : BusyWith(u, e.key)
        BY <2>1 DEF Inv, Settled
      <3>2. pc[u] # "insert"
        BY <3>1 DEF Inv, Settled, BusyWith
      <3> QED
        BY <2>1, <3>1, <3>2, BusyIsUnsettled
    <2>3. StoredIn(Actual, e.key, e.at) = StoredIn(settled, e.key, e.at)
      BY <2>2, AgreeingMaps DEF Unchanged
    <2> QED
      BY <2>1, <2>3 DEF AsOfIn, Expired
  <1> QED
    BY InitInv, NextKeepsInv, <1>1, PTL DEF Spec

(***************************************************************************)
(* The methods that take the lock: a thread is where its label says, inside*)
(* as a reader or alone as the writer, and _ttl never names a key that     *)
(* _store does not have.                                                   *)
(***************************************************************************)
THEOREM ThreadsTypeCorrect == Spec => []TypeOK
  <1>1. Shape => /\ Lock!MutualExclusion
                 /\ \A t \in Threads : /\ pc[t] = "found" <=> Lock!Holds(t, "R")
                                       /\ pc[t] \in Writing <=> Lock!Holds(t, "W")
    <2> SUFFICES ASSUME Shape
                 PROVE  /\ Lock!MutualExclusion
                        /\ \A t \in Threads : /\ pc[t] = "found" <=> Lock!Holds(t, "R")
                                              /\ pc[t] \in Writing <=> Lock!Holds(t, "W")
      OBVIOUS
    <2>1. ASSUME NEW t \in Threads
          PROVE  /\ pc[t] = "found" <=> Lock!Holds(t, "R")
                 /\ pc[t] \in Writing <=> Lock!Holds(t, "W")
      <3>1. hold[t] = Mode(pc[t]) /\ "found" \notin Writing
        BY DEF Shape, Writing
      <3>2. CASE pc[t] = "found"
        BY <3>1, <3>2 DEF Mode, Lock!Holds
      <3>3. CASE pc[t] \in Writing
        BY <3>1, <3>3 DEF Mode, Lock!Holds
      <3>4. CASE pc[t] # "found" /\ pc[t] \notin Writing
        BY <3>1, <3>4 DEF Mode, Lock!Holds
      <3> QED
        BY <3>2, <3>3, <3>4
    <2>2. ASSUME NEW t \in Threads, Lock!Holds(t, "W"), NEW u \in Threads \ {t}
          PROVE  hold[u] = << >>
      <3>1. pc[t] \in Writing
        BY <2>1, <2>2
      <3>2. pc[u] \notin Writing /\ pc[u] # "found"
        BY <3>1 DEF Shape
      <3> QED
        BY <3>2 DEF Shape, Mode
    <2> QED
      BY <2>1, <2>2 DEF Lock!MutualExclusion
  <1>2. Inv => TypeOK
    BY <1>1 DEF Inv, Data, Sound, Actual, CacheIsRight, TypeOK, Shape, Writing
  <1> QED
    BY InitInv, NextKeepsInv, <1>2, PTL DEF Spec
=============================================================================
