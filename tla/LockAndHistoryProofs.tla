------------------------ MODULE LockAndHistoryProofs ------------------------
(***************************************************************************)
(* Proofs about what every call of a ChronoMap rests on: the lock it takes *)
(* (RWLock) and the list of versions it keeps for a key (KeyHistory).      *)
(*                                                                         *)
(* The lock: for every number of threads and every set of nestings in      *)
(* which no acquire_read is nested in an acquire_write.  The invariant     *)
(* says what the lock's two counters and the owner of its RLock stand for: *)
(* _readers is the number of outstanding read acquisitions, and the RLock  *)
(* is held exactly by the thread that writes.                              *)
(*                                                                         *)
(* The history: for every set of timestamps, every bound on the history    *)
(* and every history merged in.                                            *)
(***************************************************************************)
EXTENDS RWLock, KeyHistory, VersionHistoryProofs, FiniteSetTheorems

(***************************************************************************)
(* No thread asks to read while it writes (a change callback that calls    *)
(* get() does: with it the lock does not exclude writers).*)
(***************************************************************************)
NoReadInWrite ==
    \A s \in Nestings : \A i, j \in DOMAIN s : i < j => ~(s[i] = "W" /\ s[j] = "R")

(***************************************************************************)
(* No thread asks for the other mode while it holds the lock.              *)
(***************************************************************************)
OneMode == \A s \in Nestings : \A i, j \in DOMAIN s : s[i] = s[j]

-----------------------------------------------------------------------------

ReadersCounted == IsFiniteSet(ReadHolds) /\ readers = Cardinality(ReadHolds)

WriterOwns == \A t \in Threads : Holds(t, "W") <=> owner = t

WriterExcludesReaders == \A t \in Threads : Holds(t, "W") => readers = 0

(***************************************************************************)
(* A thread in the middle of a method asks for a nesting that is allowed.  *)
(***************************************************************************)
PcNests ==
    \A t \in Threads :
        /\ pc[t] \in {"r_acq", "r_wait"} => Append(hold[t], "R") \in Nestings
        /\ pc[t] \in {"w_load", "w_store", "w_acq", "w_wait"}
                => Append(hold[t], "W") \in Nestings
        /\ pc[t] = "d_store" => hold[t] # << >> /\ Top(t) = "W"

LockInv == TypeOK /\ ReadersCounted /\ WriterOwns /\ WriterExcludesReaders /\ PcNests

(***************************************************************************)
(* What the counter of writers stands for when updates are indivisible.    *)
(***************************************************************************)
UpdatesAlone ==
    \A t, u \in Threads :
        pc[t] \in {"w_store", "d_store"} /\ pc[u] \in {"w_store", "d_store"} => t = u

LoadedIsCurrent ==
    \A t \in Threads : pc[t] \in {"w_store", "d_store"} => tmp[t] = writers

WritersCounted == IsFiniteSet(WriteClaims) /\ writers = Cardinality(WriteClaims)

CountInv == UpdatesAlone /\ LoadedIsCurrent /\ WritersCounted

-----------------------------------------------------------------------------

(***************************************************************************)
(* Pushing a mode on a stack adds one index and leaves the others alone.   *)
(***************************************************************************)
LEMMA PushFacts ==
    ASSUME NEW S, NEW s \in Seq(S), NEW k \in S
    PROVE  /\ Append(s, k) \in Seq(S)
           /\ DOMAIN Append(s, k) = DOMAIN s \cup {Len(s) + 1}
           /\ Len(s) + 1 \notin DOMAIN s
           /\ \A i \in DOMAIN s : Append(s, k)[i] = s[i]
           /\ Append(s, k)[Len(s) + 1] = k
    OBVIOUS

(***************************************************************************)
(* Popping a mode off a stack removes its last index.                      *)
(***************************************************************************)
LEMMA PopFacts ==
    ASSUME NEW S, NEW s \in Seq(S), s # << >>
    PROVE  /\ Pop(s) \in Seq(S)
           /\ Len(s) \in DOMAIN s
           /\ DOMAIN Pop(s) = DOMAIN s \ {Len(s)}
           /\ \A i \in DOMAIN Pop(s) : Pop(s)[i] = s[i]
    BY DEF Pop

(***************************************************************************)
(* Membership in the set of outstanding acquisitions.                      *)
(***************************************************************************)
LEMMA AcquisitionsDef ==
    ASSUME NEW stacks, NEW m, NEW x
    PROVE  x \in Acquisitions(stacks, m)
             <=> \E t \in Threads : \E i \in DOMAIN stacks[t] :
                     stacks[t][i] = m /\ x = <<t, i>>
    BY DEF Acquisitions

(***************************************************************************)
(* after differs from before by a mode k pushed, or popped, by t.          *)
(***************************************************************************)
Newest(stacks, t) == <<t, Len(stacks[t])>>

NextNewest(stacks, t) == <<t, Len(stacks[t]) + 1>>

Pushes(before, after, t, k) ==
    /\ before[t] \in Seq({"R", "W"}) /\ k \in {"R", "W"}
    /\ after[t] = Append(before[t], k)
    /\ \A u \in Threads : u # t => after[u] = before[u]

Pops(before, after, t, k) ==
    /\ before[t] \in Seq({"R", "W"}) /\ before[t] # << >>
    /\ k = before[t][Len(before[t])]
    /\ after[t] = Pop(before[t])
    /\ \A u \in Threads : u # t => after[u] = before[u]

(***************************************************************************)
(* An acquisition adds one element, in the mode pushed and in no other.    *)
(***************************************************************************)
LEMMA PushChanges ==
    ASSUME NEW stacks, NEW pushed, NEW m, NEW t \in Threads, NEW k,
           Pushes(stacks, pushed, t, k)
    PROVE  /\ \A x : x \in Acquisitions(pushed, m)
                    <=> \/ x \in Acquisitions(stacks, m)
                        \/ k = m /\ x = NextNewest(stacks, t)
           /\ NextNewest(stacks, t) \notin Acquisitions(stacks, m)
  <1> DEFINE new == NextNewest(stacks, t)
  <1> USE DEF NextNewest
  <1>1. \A u \in Threads : u # t => pushed[u] = stacks[u]
    BY DEF Pushes
  <1>3. /\ DOMAIN pushed[t] = DOMAIN stacks[t] \cup {Len(stacks[t]) + 1}
        /\ Len(stacks[t]) + 1 \notin DOMAIN stacks[t]
        /\ \A i \in DOMAIN stacks[t] : pushed[t][i] = stacks[t][i]
        /\ pushed[t][Len(stacks[t]) + 1] = k
    BY PushFacts DEF Pushes
  <1>4. new \notin Acquisitions(stacks, m)
    BY <1>3, AcquisitionsDef
  <1>5. ASSUME NEW x PROVE x \in Acquisitions(pushed, m)
                             <=> x \in Acquisitions(stacks, m) \/ (k = m /\ x = new)
    <2>1. ASSUME x \in Acquisitions(pushed, m)
          PROVE  x \in Acquisitions(stacks, m) \/ (k = m /\ x = new)
      <3>1. PICK u, i : u \in Threads /\ i \in DOMAIN pushed[u] /\ pushed[u][i] = m /\ x = <<u, i>>
        BY <2>1, AcquisitionsDef
      <3>2. CASE u = t
        BY <3>1, <3>2, <1>3, AcquisitionsDef
      <3>3. CASE u # t
        BY <3>1, <3>3, <1>1, AcquisitionsDef
      <3> QED
        BY <3>2, <3>3
    <2>2. ASSUME x \in Acquisitions(stacks, m)
          PROVE  x \in Acquisitions(pushed, m)
      <3>1. PICK u, i : u \in Threads /\ i \in DOMAIN stacks[u] /\ stacks[u][i] = m /\ x = <<u, i>>
        BY <2>2, AcquisitionsDef
      <3>2. i \in DOMAIN pushed[u] /\ pushed[u][i] = m
        BY <3>1, <1>1, <1>3
      <3> QED
        BY <3>1, <3>2, AcquisitionsDef
    <2>3. ASSUME k = m, x = new
          PROVE  x \in Acquisitions(pushed, m)
      BY <2>3, <1>3, AcquisitionsDef
    <2> QED
      BY <2>1, <2>2, <2>3
  <1> QED
    BY <1>4, <1>5

LEMMA PushAcquires ==
    ASSUME NEW stacks, NEW pushed, NEW t \in Threads, NEW m, Pushes(stacks, pushed, t, m)
    PROVE  /\ Acquisitions(pushed, m)
                  = Acquisitions(stacks, m) \cup {NextNewest(stacks, t)}
           /\ NextNewest(stacks, t) \notin Acquisitions(stacks, m)
    BY PushChanges

LEMMA PushKeeps ==
    ASSUME NEW stacks, NEW pushed, NEW t \in Threads, NEW m, NEW k, k # m,
           Pushes(stacks, pushed, t, k)
    PROVE  Acquisitions(pushed, m) = Acquisitions(stacks, m)
    BY PushChanges

(***************************************************************************)
(* A release removes one element, in the mode popped and in no other.      *)
(***************************************************************************)
LEMMA PopChanges ==
    ASSUME NEW stacks, NEW popped, NEW m, NEW t \in Threads, NEW k,
           Pops(stacks, popped, t, k)
    PROVE  /\ \A x : x \in Acquisitions(popped, m)
                    <=> x \in Acquisitions(stacks, m) /\ x # Newest(stacks, t)
           /\ Newest(stacks, t) \in Acquisitions(stacks, m) <=> k = m
  <1> DEFINE old == Newest(stacks, t)
  <1> USE DEF Newest
  <1>1. \A u \in Threads : u # t => popped[u] = stacks[u]
    BY DEF Pops
  <1>2. k = stacks[t][Len(stacks[t])]
    BY DEF Pops
  <1>3. /\ DOMAIN popped[t] = DOMAIN stacks[t] \ {Len(stacks[t])}
        /\ Len(stacks[t]) \in DOMAIN stacks[t]
        /\ \A i \in DOMAIN popped[t] : popped[t][i] = stacks[t][i]
    BY PopFacts DEF Pops
  <1>4. k = m => old \in Acquisitions(stacks, m)
    BY <1>2, <1>3, AcquisitionsDef
  <1>5. ASSUME NEW x PROVE x \in Acquisitions(popped, m)
                             <=> x \in Acquisitions(stacks, m) /\ x # old
    <2>1. ASSUME x \in Acquisitions(popped, m)
          PROVE  x \in Acquisitions(stacks, m) /\ x # old
      <3>1. PICK u, i : u \in Threads /\ i \in DOMAIN popped[u] /\ popped[u][i] = m /\ x = <<u, i>>
        BY <2>1, AcquisitionsDef
      <3>2. CASE u = t
        BY <3>1, <3>2, <1>3, AcquisitionsDef
      <3>3. CASE u # t
        BY <3>1, <3>3, <1>1, AcquisitionsDef
      <3> QED
        BY <3>2, <3>3
    <2>2. ASSUME x \in Acquisitions(stacks, m), x # old
          PROVE  x \in Acquisitions(popped, m)
      <3>1. PICK u, i : u \in Threads /\ i \in DOMAIN stacks[u] /\ stacks[u][i] = m /\ x = <<u, i>>
        BY <2>2, AcquisitionsDef
      <3>2. CASE u = t
        BY <3>1, <3>2, <2>2, <1>2, <1>3, AcquisitionsDef
      <3>3. CASE u # t
        BY <3>1, <3>3, <1>1, AcquisitionsDef
      <3> QED
        BY <3>2, <3>3
    <2> QED
      BY <2>1, <2>2
  <1>6. k # m => old \notin Acquisitions(stacks, m)
    BY <1>2, AcquisitionsDef
  <1> QED
    BY <1>4, <1>5, <1>6

LEMMA PopReleases ==
    ASSUME NEW stacks, NEW popped, NEW t \in Threads, NEW m, Pops(stacks, popped, t, m)
    PROVE  /\ Acquisitions(popped, m) = Acquisitions(stacks, m) \ {Newest(stacks, t)}
           /\ Newest(stacks, t) \in Acquisitions(stacks, m)
    BY PopChanges

LEMMA PopKeeps ==
    ASSUME NEW stacks, NEW popped, NEW t \in Threads, NEW m, NEW k, k # m,
           Pops(stacks, popped, t, k)
    PROVE  Acquisitions(popped, m) = Acquisitions(stacks, m)
    BY PopChanges

-----------------------------------------------------------------------------

LEMMA HoldTyped ==
    ASSUME TypeOK
    PROVE  /\ hold \in [Threads -> Seq({"R", "W"})]
           /\ \A t \in Threads : hold[t] \in Seq({"R", "W"}) /\ hold[t] \in Nestings
    BY RWLockAssumption DEF TypeOK

(***************************************************************************)
(* What a thread holds after it is let in.                                 *)
(***************************************************************************)
LEMMA PushHolds ==
    ASSUME TypeOK, NEW t \in Threads, NEW k \in {"R", "W"},
           hold' = [hold EXCEPT ![t] = Append(@, k)]
    PROVE  /\ Pushes(hold, hold', t, k)
           /\ \A u \in Threads : u # t => hold'[u] = hold[u]
           /\ hold'[t] = Append(hold[t], k)
           /\ \A m : Holds(t, m)' <=> Holds(t, m) \/ m = k
           /\ \A m : \A u \in Threads : u # t => (Holds(u, m)' <=> Holds(u, m))
  <1>1. hold[t] \in Seq({"R", "W"}) /\ hold \in [Threads -> Seq({"R", "W"})]
    BY HoldTyped
  <1>2. /\ \A u \in Threads : u # t => hold'[u] = hold[u]
        /\ hold'[t] = Append(hold[t], k)
    BY <1>1
  <1>3. \A m : Holds(t, m)' <=> Holds(t, m) \/ m = k
    BY <1>1, <1>2, PushFacts DEF Holds
  <1>4. Pushes(hold, hold', t, k)
    BY <1>1, <1>2 DEF Pushes
  <1> QED
    BY <1>2, <1>3, <1>4 DEF Holds

(***************************************************************************)
(* What a thread holds after it leaves.                                    *)
(***************************************************************************)
LEMMA PopHolds ==
    ASSUME TypeOK, NEW t \in Threads, hold[t] # << >>,
           hold' = [hold EXCEPT ![t] = Pop(@)]
    PROVE  /\ Pops(hold, hold', t, Top(t))
           /\ \A u \in Threads : u # t => hold'[u] = hold[u]
           /\ hold'[t] = Pop(hold[t])
           /\ \A m : Holds(t, m)' => Holds(t, m)
           /\ \A m : Top(t) # m => (Holds(t, m)' <=> Holds(t, m))
           /\ \A m : \A u \in Threads : u # t => (Holds(u, m)' <=> Holds(u, m))
           /\ Pop(hold[t]) \in Nestings
           /\ Holds(t, Top(t))
  <1>1. hold[t] \in Seq({"R", "W"}) /\ hold \in [Threads -> Seq({"R", "W"})]
    BY HoldTyped
  <1>2. /\ \A u \in Threads : u # t => hold'[u] = hold[u]
        /\ hold'[t] = Pop(hold[t])
    BY <1>1
  <1> DEFINE top == Len(hold[t])
  <1>0. /\ top \in DOMAIN hold[t]
        /\ DOMAIN hold'[t] = DOMAIN hold[t] \ {top}
        /\ \A i \in DOMAIN hold'[t] : hold'[t][i] = hold[t][i]
    <2>1. /\ Len(hold[t]) \in DOMAIN hold[t]
          /\ DOMAIN Pop(hold[t]) = DOMAIN hold[t] \ {Len(hold[t])}
          /\ \A i \in DOMAIN Pop(hold[t]) : Pop(hold[t])[i] = hold[t][i]
      BY <1>1, PopFacts
    <2> QED
      BY <1>2, <2>1
  <1>3. \A m : Holds(t, m)' => Holds(t, m)
    BY <1>0 DEF Holds
  <1>4. \A m : Top(t) # m => (Holds(t, m) => Holds(t, m)')
    BY <1>0 DEF Holds, Top
  <1>5. Pop(hold[t]) \in Nestings
    BY HoldTyped, RWLockAssumption DEF Pop
  <1>6. Holds(t, Top(t))
    BY <1>0 DEF Holds, Top
  <1>7. Pops(hold, hold', t, Top(t))
    BY <1>1, <1>2 DEF Pops, Top
  <1> QED
    BY <1>2, <1>3, <1>4, <1>5, <1>6, <1>7 DEF Holds

(***************************************************************************)
(* A thread that may still ask to read holds nothing for writing.          *)
(***************************************************************************)
LEMMA ReaderIsNoWriter ==
    ASSUME TypeOK, NoReadInWrite, NEW t \in Threads, Append(hold[t], "R") \in Nestings
    PROVE  ~Holds(t, "W")
  <1>1. hold[t] \in Seq({"R", "W"})
    BY HoldTyped
  <1> DEFINE asked == Append(hold[t], "R")
             new == Len(hold[t]) + 1
  <1>2. \A i \in DOMAIN hold[t] : i < new
    BY <1>1
  <1>3. /\ DOMAIN asked = DOMAIN hold[t] \cup {new}
        /\ \A i \in DOMAIN hold[t] : asked[i] = hold[t][i]
        /\ asked[new] = "R"
    BY <1>1, PushFacts
  <1> HIDE DEF asked, new
  <1>4. \A i \in DOMAIN hold[t] : hold[t][i] # "W"
    <2> SUFFICES ASSUME NEW i \in DOMAIN hold[t], hold[t][i] = "W" PROVE FALSE
      OBVIOUS
    <2>1. asked[i] = "W" /\ i \in DOMAIN asked /\ new \in DOMAIN asked /\ i < new
      BY <1>2, <1>3
    <2>2. asked \in Nestings
      BY DEF asked
    <2> QED
      BY <1>3, <2>1, <2>2 DEF NoReadInWrite
  <1> QED
    BY <1>4 DEF Holds

(***************************************************************************)
(* While _readers is zero nobody reads.                                    *)
(***************************************************************************)
LEMMA NobodyReads ==
    ASSUME TypeOK, ReadersCounted, readers <= 0, NEW t \in Threads
    PROVE  ReadHolds = {} /\ ~Holds(t, "R")
  <1>1. readers = 0
    BY DEF TypeOK
  <1>2. ReadHolds = {}
    BY <1>1, FS_EmptySet DEF ReadersCounted
  <1>3. \A i \in DOMAIN hold[t] : hold[t][i] = "R" => <<t, i>> \in ReadHolds
    BY AcquisitionsDef DEF ReadHolds
  <1> QED
    BY <1>2, <1>3 DEF Holds

(***************************************************************************)
(* A stack that holds nothing for reading or writing is empty.             *)
(***************************************************************************)
LEMMA NothingHeld ==
    ASSUME TypeOK, NEW t \in Threads, ~Holds(t, "R"), ~Holds(t, "W")
    PROVE  hold[t] = << >>
  <1>1. hold[t] \in Seq({"R", "W"})
    BY HoldTyped
  <1> QED
    BY <1>1 DEF Holds

-----------------------------------------------------------------------------

(***************************************************************************)
(* notify_all() changes only where the waiters are.                        *)
(***************************************************************************)
LEMMA NotifiedFacts ==
    ASSUME pc \in [Threads -> Locations]
    PROVE  /\ Notified(pc) \in [Threads -> Locations]
           /\ \A u \in Threads :
                 /\ Notified(pc)[u] \notin {"r_wait", "w_wait"}
                 /\ Notified(pc)[u] \in {"r_acq"} => pc[u] \in {"r_acq", "r_wait"}
                 /\ Notified(pc)[u] \in {"w_acq"} => pc[u] \in {"w_acq", "w_wait"}
                 /\ pc[u] \notin {"r_wait", "w_wait"} => Notified(pc)[u] = pc[u]
                 /\ pc[u] = "r_wait" => Notified(pc)[u] = "r_acq"
                 /\ pc[u] = "w_wait" => Notified(pc)[u] = "w_acq"
    BY DEF Notified, Locations

LEMMA LockInvInit == Init => LockInv
  <1> SUFFICES ASSUME Init PROVE LockInv
    OBVIOUS
  <1>1. \A t \in Threads : hold[t] = << >> /\ pc[t] = "run"
    BY DEF Init
  <1>2. TypeOK
    BY RWLockAssumption DEF Init, TypeOK, Locations
  <1>3. \A t \in Threads, m \in {"R", "W"} : ~Holds(t, m)
    BY <1>1 DEF Holds
  <1>4. ReadHolds = {}
    BY <1>1, AcquisitionsDef DEF ReadHolds
  <1>5. ReadersCounted
    BY <1>4, FS_EmptySet DEF ReadersCounted, Init
  <1>6. WriterOwns /\ WriterExcludesReaders
    BY <1>3, RWLockAssumption DEF WriterOwns, WriterExcludesReaders, Init
  <1>7. PcNests
    BY <1>1 DEF PcNests
  <1> QED
    BY <1>2, <1>5, <1>6, <1>7 DEF LockInv

(***************************************************************************)
(* The steps that let a thread in, let it out, or make it wait.            *)
(***************************************************************************)
LEMMA EnterReadKeeps ==
    ASSUME LockInv, NoReadInWrite, NEW t \in Threads, EnterRead(t)
    PROVE  LockInv'
  <1> USE DEF LockInv
  <1>1. Append(hold[t], "R") \in Nestings
    BY DEF EnterRead, PcNests
  <1>2. ~Holds(t, "W")
    BY <1>1, ReaderIsNoWriter
  <1>3. /\ \A u \in Threads : u # t => hold'[u] = hold[u]
        /\ hold'[t] = Append(hold[t], "R")
        /\ \A u \in Threads : Holds(u, "W")' <=> Holds(u, "W")
    BY PushHolds DEF EnterRead
  <1>4. owner = NoThread /\ owner' = NoThread
    BY <1>2 DEF EnterRead, OwnerAfterRelease, Holds, CanTake, WriterOwns
  <1>5. TypeOK'
    BY <1>1, <1>4 DEF EnterRead, TypeOK, Locations
  <1>6. ReadersCounted'
    <2>1. /\ ReadHolds' = ReadHolds \cup {NextNewest(hold, t)}
          /\ NextNewest(hold, t) \notin ReadHolds
      <3>1. ReadHolds' = Acquisitions(hold', "R")
        BY DEF ReadHolds, Acquisitions
      <3>2. Pushes(hold, hold', t, "R")
        BY PushHolds DEF EnterRead
      <3> QED
        BY <3>1, <3>2, PushAcquires DEF ReadHolds
    <2> QED
      BY <2>1, FS_AddElement DEF ReadersCounted, EnterRead, TypeOK
  <1>7. WriterOwns' /\ WriterExcludesReaders'
    BY <1>3, <1>4, RWLockAssumption DEF WriterOwns, WriterExcludesReaders
  <1>8. PcNests'
    BY <1>3 DEF EnterRead, PcNests, TypeOK, Top
  <1> QED
    BY <1>5, <1>6, <1>7, <1>8

LEMMA ReleaseReadKeeps ==
    ASSUME LockInv, NEW t \in Threads, ReleaseRead(t)
    PROVE  LockInv'
  <1> USE DEF LockInv
  <1>1. /\ \A u \in Threads : u # t => hold'[u] = hold[u]
        /\ hold'[t] = Pop(hold[t])
        /\ \A u \in Threads : Holds(u, "W")' <=> Holds(u, "W")
        /\ Pop(hold[t]) \in Nestings
        /\ Holds(t, "R")
    BY PopHolds DEF ReleaseRead
  <1>2. /\ ReadHolds' = ReadHolds \ {Newest(hold, t)}
        /\ Newest(hold, t) \in ReadHolds
    <2>1. ReadHolds' = Acquisitions(hold', "R")
      BY DEF ReadHolds, Acquisitions
    <2>2. Pops(hold, hold', t, "R")
      BY PopHolds DEF ReleaseRead
    <2> QED
      BY <2>1, <2>2, PopReleases DEF ReadHolds
  <1>3. readers # 0
    BY <1>2, FS_EmptySet DEF ReadersCounted
  <1>4. \A u \in Threads : ~Holds(u, "W")
    BY <1>3 DEF WriterExcludesReaders
  <1>5. owner = NoThread /\ owner' = NoThread
    BY <1>1, <1>4 DEF ReleaseRead, OwnerAfterRelease, Holds, CanTake, WriterOwns
  <1>6. pc' \in {pc, Notified(pc)}
    BY DEF ReleaseRead
  <1>7. TypeOK'
    BY <1>1, <1>3, <1>5, <1>6, NotifiedFacts DEF ReleaseRead, TypeOK
  <1>8. ReadersCounted'
    <2>1. /\ IsFiniteSet(ReadHolds')
          /\ Cardinality(ReadHolds') = Cardinality(ReadHolds) - 1
      BY <1>2, FS_RemoveElement DEF ReadersCounted
    <2> QED
      BY <2>1 DEF ReadersCounted, ReleaseRead
  <1>9. WriterOwns' /\ WriterExcludesReaders'
    BY <1>1, <1>4, <1>5, RWLockAssumption DEF WriterOwns, WriterExcludesReaders
  <1>10. PcNests'
    <2>1. pc'[t] = "run"
      BY <1>6, NotifiedFacts DEF ReleaseRead, TypeOK
    <2> QED
      BY <1>1, <1>6, <2>1, NotifiedFacts DEF PcNests, TypeOK, Top
  <1> QED
    BY <1>7, <1>8, <1>9, <1>10

LEMMA EnterWriteKeeps ==
    ASSUME LockInv, NEW t \in Threads, EnterWrite(t)
    PROVE  LockInv'
  <1> USE DEF LockInv
  <1>1. Append(hold[t], "W") \in Nestings
    BY DEF EnterWrite, PcNests
  <1>2. /\ \A u \in Threads : u # t => hold'[u] = hold[u]
        /\ hold'[t] = Append(hold[t], "W")
        /\ Holds(t, "W")'
        /\ \A u \in Threads : u # t => (Holds(u, "W")' <=> Holds(u, "W"))
    BY PushHolds DEF EnterWrite
  <1>3. readers' = 0 /\ owner' = t
    BY DEF EnterWrite, TypeOK
  <1>4. \A u \in Threads : u # t => ~Holds(u, "W")
    BY RWLockAssumption DEF WriterOwns, EnterWrite, CanTake
  <1>5. TypeOK'
    BY <1>1 DEF EnterWrite, TypeOK, Locations
  <1>6. ReadersCounted'
    <2>1. ReadHolds' = ReadHolds
      <3>1. ReadHolds' = Acquisitions(hold', "R")
        BY DEF ReadHolds, Acquisitions
      <3>2. Pushes(hold, hold', t, "W")
        BY PushHolds DEF EnterWrite
      <3>3. Acquisitions(hold', "R") = Acquisitions(hold, "R")
        BY <3>2, PushKeeps
      <3> QED
        BY <3>1, <3>3 DEF ReadHolds
    <2> QED
      BY <2>1 DEF ReadersCounted, EnterWrite
  <1>7. WriterOwns' /\ WriterExcludesReaders'
    BY <1>2, <1>3, <1>4 DEF WriterOwns, WriterExcludesReaders
  <1>8. PcNests'
    BY <1>2 DEF EnterWrite, PcNests, TypeOK, Top
  <1> QED
    BY <1>5, <1>6, <1>7, <1>8

LEMMA StoreReleasedKeeps ==
    ASSUME LockInv, NEW t \in Threads, StoreReleased(t)
    PROVE  LockInv'
  <1> USE DEF LockInv
  <1>1. hold[t] # << >> /\ Top(t) = "W"
    BY DEF StoreReleased, PcNests
  <1>2. /\ \A u \in Threads : u # t => hold'[u] = hold[u]
        /\ hold'[t] = Pop(hold[t])
        /\ \A u \in Threads : u # t => (Holds(u, "W")' <=> Holds(u, "W"))
        /\ Pop(hold[t]) \in Nestings
        /\ Holds(t, "W")
    BY <1>1, PopHolds DEF StoreReleased
  <1>3. readers = 0 /\ owner = t
    BY <1>2 DEF WriterExcludesReaders, WriterOwns
  <1>4. \A u \in Threads : u # t => ~Holds(u, "W")'
    BY <1>2, <1>3 DEF WriterOwns
  <1>5. owner' = IF Holds(t, "W")' THEN t ELSE NoThread
    BY <1>2 DEF StoreReleased, OwnerAfterRelease, Holds
  <1>6. TypeOK'
    <2>1. pc' \in [Threads -> Locations]
      BY NotifiedFacts DEF StoreReleased, TypeOK, Locations
    <2> QED
      BY <1>2, <1>5, <2>1 DEF StoreReleased, TypeOK
  <1>7. ReadersCounted'
    <2>1. ReadHolds' = ReadHolds
      <3>1. ReadHolds' = Acquisitions(hold', "R")
        BY DEF ReadHolds, Acquisitions
      <3>2. Pops(hold, hold', t, "W")
        BY <1>1, PopHolds DEF StoreReleased
      <3>3. Acquisitions(hold', "R") = Acquisitions(hold, "R")
        BY <3>2, PopKeeps
      <3> QED
        BY <3>1, <3>3 DEF ReadHolds
    <2> QED
      BY <2>1 DEF ReadersCounted, StoreReleased
  <1>8. WriterOwns' /\ WriterExcludesReaders'
    BY <1>3, <1>4, <1>5, RWLockAssumption DEF WriterOwns, WriterExcludesReaders, StoreReleased
  <1>9. PcNests'
    BY <1>2, NotifiedFacts DEF StoreReleased, PcNests, TypeOK, Top
  <1> QED
    BY <1>6, <1>7, <1>8, <1>9

(***************************************************************************)
(* The steps that change neither who holds the lock nor the readers.       *)
(***************************************************************************)
LEMMA OtherStepsKeep ==
    ASSUME LockInv, NoReadInWrite, NEW t \in Threads,
           \/ BeginRead(t) \/ WaitRead(t) \/ BeginWrite(t) \/ LoadToCount(t)
           \/ StoreCounted(t) \/ WaitWrite(t) \/ LoadToRelease(t) \/ NotifyNobody(t)
    PROVE  LockInv' /\ hold' = hold
  <1> USE DEF LockInv
  <1>1. readers' = readers /\ hold' = hold
    BY DEF BeginRead, WaitRead, BeginWrite, LoadToCount, StoreCounted, WaitWrite,
           LoadToRelease, NotifyNobody
  <1>2. \A u \in Threads : Holds(u, "W")' <=> Holds(u, "W")
    BY <1>1 DEF Holds
  <1>3. owner' = owner
    <2>1. CASE WaitRead(t)
      <3>1. ~Holds(t, "W")
        BY <2>1, ReaderIsNoWriter DEF WaitRead, PcNests
      <3> QED
        BY <2>1, <3>1 DEF WaitRead, WriterOwns, CanTake
    <2>2. CASE WaitWrite(t)
      <3>1. ~Holds(t, "W")
        BY <2>2 DEF WaitWrite, WriterExcludesReaders, TypeOK
      <3> QED
        BY <2>2, <3>1 DEF WaitWrite, WriterOwns, CanTake
    <2> QED
      BY <2>1, <2>2 DEF BeginRead, BeginWrite, LoadToCount, StoreCounted,
                        LoadToRelease, NotifyNobody
  <1>4. TypeOK'
    <2>1. pc' \in [Threads -> Locations]
      BY DEF BeginRead, WaitRead, BeginWrite, LoadToCount, StoreCounted, WaitWrite,
             LoadToRelease, NotifyNobody, TypeOK, Locations
    <2>2. writers' \in Int /\ tmp' \in [Threads -> Int] /\ wrOwner' \in Threads \cup {NoThread}
      BY DEF BeginRead, WaitRead, BeginWrite, LoadToCount, StoreCounted, WaitWrite,
             LoadToRelease, NotifyNobody, TypeOK
    <2> QED
      BY <1>1, <1>3, <2>1, <2>2 DEF TypeOK
  <1>5. ReadersCounted'
    BY <1>1 DEF ReadersCounted, ReadHolds, Acquisitions
  <1>6. WriterOwns' /\ WriterExcludesReaders'
    BY <1>1, <1>2, <1>3 DEF WriterOwns, WriterExcludesReaders
  <1>7. PcNests'
    BY <1>1 DEF BeginRead, WaitRead, BeginWrite, LoadToCount, StoreCounted, WaitWrite,
           LoadToRelease, NotifyNobody, PcNests, TypeOK, Top
  <1> QED
    BY <1>1, <1>4, <1>5, <1>6, <1>7

LEMMA LockInvStep ==
    ASSUME LockInv, NoReadInWrite, [Next]_vars
    PROVE  LockInv'
  <1>1. CASE UNCHANGED vars
    BY <1>1 DEF LockInv, TypeOK, ReadersCounted, ReadHolds, Acquisitions, WriterOwns,
                WriterExcludesReaders, Holds, PcNests, Top, vars
  <1>2. ASSUME NEW t \in Threads, BeginRead(t) \/ BeginWrite(t) \/ Step(t)
        PROVE  LockInv'
    BY <1>2, EnterReadKeeps, ReleaseReadKeeps, EnterWriteKeeps, StoreReleasedKeeps,
       OtherStepsKeep DEF Step
  <1> QED
    BY <1>1, <1>2 DEF Next

(***************************************************************************)
(* _readers never falls below zero and the lock's state stays well formed. *)
(***************************************************************************)
THEOREM TypeCorrect ==
    ASSUME NoReadInWrite
    PROVE  Spec => []TypeOK
  <1>1. LockInv /\ [Next]_vars => LockInv'
    BY LockInvStep
  <1>2. LockInv => TypeOK
    BY DEF LockInv
  <1> QED
    BY <1>1, <1>2, LockInvInit, PTL DEF Spec

(***************************************************************************)
(* A writer is alone, however many threads there are and whether or not    *)
(* the interpreter can switch threads inside  self._writers -= 1 .         *)
(***************************************************************************)
THEOREM WriterIsAlone ==
    ASSUME NoReadInWrite
    PROVE  Spec => []MutualExclusion
  <1>1. LockInv /\ [Next]_vars => LockInv'
    BY LockInvStep
  <1>2. LockInv => MutualExclusion
    <2> SUFFICES ASSUME LockInv, NEW t \in Threads, Holds(t, "W"),
                        NEW u \in Threads \ {t}
                 PROVE  hold[u] = << >>
      BY DEF MutualExclusion, Exclusion!MutualExclusion, Exclusion!Holds, Holds
    <2> USE DEF LockInv
    <2>1. readers = 0 /\ owner = t
      BY DEF WriterExcludesReaders, WriterOwns
    <2>2. ~Holds(u, "W") /\ ~Holds(u, "R")
      BY <2>1, NobodyReads DEF WriterOwns, TypeOK
    <2> QED
      BY <2>2, NothingHeld
  <1> QED
    BY <1>1, <1>2, LockInvInit, PTL DEF Spec

(***************************************************************************)
(* A step of the lock is a step of ReadWriteExclusion or changes nothing   *)
(* that specification sees.                                                *)
(***************************************************************************)
LEMMA StepRefines ==
    ASSUME LockInv, NoReadInWrite, [Next]_vars
    PROVE  [Exclusion!Next]_hold
  <1> USE DEF LockInv
  <1>1. CASE UNCHANGED vars
    BY <1>1 DEF vars
  <1>2. ASSUME NEW t \in Threads, EnterRead(t)
        PROVE  Exclusion!AdmitReader(t)
    <2>1. \A u \in Threads \ {t} : ~Holds(u, "W")
      BY <1>2, RWLockAssumption DEF EnterRead, CanTake, WriterOwns
    <2> QED
      BY <1>2, <2>1 DEF EnterRead, Exclusion!AdmitReader, Exclusion!Holds, Holds
  <1>3. ASSUME NEW t \in Threads, EnterWrite(t)
        PROVE  Exclusion!AdmitWriter(t)
    <2>1. \A u \in Threads : ~Holds(u, "R")
      BY <1>3, NobodyReads DEF EnterWrite
    <2>2. \A u \in Threads \ {t} : hold[u] = << >>
      BY <1>3, <2>1, NothingHeld, RWLockAssumption DEF EnterWrite, CanTake, WriterOwns
    <2> QED
      BY <1>3, <2>1, <2>2 DEF EnterWrite, Exclusion!AdmitWriter, Exclusion!Holds, Holds
  <1>4. ASSUME NEW t \in Threads, ReleaseRead(t) \/ StoreReleased(t)
        PROVE  Exclusion!Leave(t)
    BY <1>4 DEF ReleaseRead, StoreReleased, PcNests, Exclusion!Leave, Exclusion!Pop, Pop
  <1>5. ASSUME NEW t \in Threads, BeginRead(t) \/ BeginWrite(t) \/ Step(t)
        PROVE  [Exclusion!Next]_hold
    BY <1>2, <1>3, <1>4, <1>5, OtherStepsKeep DEF Step, Exclusion!Next
  <1> QED
    BY <1>1, <1>5 DEF Next

(***************************************************************************)
(* _lock.py implements the promise of its docstring, with any number of    *)
(* threads and whether or not the counter updates are indivisible.         *)
(***************************************************************************)
THEOREM Refinement ==
    ASSUME NoReadInWrite
    PROVE  Spec => ImplementsExclusion
  <1>1. LockInv /\ [Next]_vars => LockInv'
    BY LockInvStep
  <1>2. LockInv /\ [Next]_vars => [Exclusion!Next]_hold
    BY StepRefines
  <1>3. Init => Exclusion!Init
    BY DEF Init, Exclusion!Init
  <1> QED
    BY <1>1, <1>2, <1>3, LockInvInit, PTL
    DEF Spec, ImplementsExclusion, Exclusion!Spec

-----------------------------------------------------------------------------

(***************************************************************************)
(* What self._writers counts, when an augmented assignment is indivisible. *)
(***************************************************************************)
Claims == [t \in Threads |-> Claim(t)]

LEMMA CountInvInit == Init => CountInv
  <1> SUFFICES ASSUME Init PROVE CountInv
    OBVIOUS
  <1>1. \A t \in Threads : Claims[t] = << >> /\ pc[t] = "run"
    BY DEF Init, Claims, Claim
  <1>2. WriteClaims = {}
    BY <1>1, AcquisitionsDef DEF WriteClaims, Claims
  <1> QED
    BY <1>1, <1>2, FS_EmptySet
    DEF Init, CountInv, UpdatesAlone, LoadedIsCurrent, WritersCounted

(***************************************************************************)
(* A writer claims its place with the increment and gives it up with the   *)
(* decrement; no other step changes the set of claims.                     *)
(***************************************************************************)
LEMMA ClaimsChange ==
    ASSUME LockInv, NoReadInWrite, NEW t \in Threads,
           BeginRead(t) \/ BeginWrite(t) \/ Step(t)
    PROVE  /\ StoreCounted(t) => Pushes(Claims, Claims', t, "W")
           /\ StoreReleased(t) => Pops(Claims, Claims', t, "W")
           /\ ~StoreCounted(t) /\ ~StoreReleased(t) => WriteClaims' = WriteClaims
  <1> USE DEF LockInv
  <1>0. hold[t] \in Seq({"R", "W"})
    BY HoldTyped
  <1>1. /\ \A u \in Threads : Claims[u] = Claim(u) /\ Claims'[u] = Claim(u)'
        /\ WriteClaims = Acquisitions(Claims, "W")
        /\ WriteClaims' = Acquisitions(Claims', "W")
    BY DEF Claims, WriteClaims, Acquisitions
  <1>2. ASSUME StoreCounted(t) PROVE Pushes(Claims, Claims', t, "W")
    <2>1. Claim(t) = hold[t] /\ Claim(t)' = Append(hold[t], "W")
      BY <1>2 DEF StoreCounted, Claim, TypeOK
    <2>2. \A u \in Threads : u # t => Claim(u)' = Claim(u)
      BY <1>2 DEF StoreCounted, Claim, TypeOK
    <2> QED
      BY <1>0, <1>1, <2>1, <2>2 DEF Pushes
  <1>3. ASSUME StoreReleased(t) PROVE Pops(Claims, Claims', t, "W")
    <2>1. /\ hold[t] # << >> /\ Top(t) = "W"
          /\ pc[t] = "d_store" /\ pc'[t] = "d_tail"
      BY <1>3 DEF StoreReleased, PcNests, TypeOK, Notified
    <2>2. Claim(t) = hold[t] /\ Claim(t)' = Pop(hold[t])
      BY <1>3, <2>1, PopHolds DEF StoreReleased, Claim
    <2>3. ASSUME NEW u \in Threads, u # t PROVE Claim(u)' = Claim(u)
      <3>1. hold'[u] = hold[u]
        BY <1>3, <2>1, <2>3, PopHolds DEF StoreReleased
      <3>2. pc'[u] = Notified(pc)[u]
        BY <1>3, <2>3, NotifiedFacts DEF StoreReleased, TypeOK
      <3>3. pc'[u] \in {"w_acq", "w_wait"} <=> pc[u] \in {"w_acq", "w_wait"}
        BY <3>2, NotifiedFacts DEF TypeOK
      <3> QED
        BY <3>1, <3>3 DEF Claim
    <2> QED
      BY <1>0, <1>1, <2>1, <2>2, <2>3 DEF Pops, Top
  <1>4. ASSUME EnterRead(t) PROVE WriteClaims' = WriteClaims
    <2>1. Claim(t) = hold[t] /\ Claim(t)' = Append(hold[t], "R")
      BY <1>4, PushHolds DEF EnterRead, Claim, TypeOK
    <2>2. \A u \in Threads : u # t => Claim(u)' = Claim(u)
      BY <1>4, PushHolds DEF EnterRead, Claim, TypeOK
    <2>3. Pushes(Claims, Claims', t, "R")
      BY <1>0, <1>1, <2>1, <2>2 DEF Pushes
    <2> QED
      BY <1>1, <2>3, PushKeeps
  <1>5. ASSUME ReleaseRead(t) PROVE WriteClaims' = WriteClaims
    <2>1. /\ pc' \in {pc, Notified(pc)}
          /\ pc[t] = "run" /\ pc'[t] = "run"
      BY <1>5, NotifiedFacts DEF ReleaseRead, TypeOK
    <2>2. Claim(t) = hold[t] /\ Claim(t)' = Pop(hold[t])
      BY <1>5, <2>1, PopHolds DEF ReleaseRead, Claim
    <2>3. ASSUME NEW u \in Threads, u # t PROVE Claim(u)' = Claim(u)
      <3>1. hold'[u] = hold[u]
        BY <1>5, <2>3, PopHolds DEF ReleaseRead
      <3>2. pc'[u] \in {"w_acq", "w_wait"} <=> pc[u] \in {"w_acq", "w_wait"}
        BY <2>1, NotifiedFacts DEF TypeOK
      <3> QED
        BY <3>1, <3>2 DEF Claim
    <2>4. Pops(Claims, Claims', t, "R")
      BY <1>0, <1>1, <1>5, <2>2, <2>3 DEF Pops, ReleaseRead, Top
    <2> QED
      BY <1>1, <2>4, PopKeeps
  <1>6. ASSUME EnterWrite(t) PROVE WriteClaims' = WriteClaims
    <2>1. \A u \in Threads : Claim(u)' = Claim(u)
      BY <1>6, PushHolds DEF EnterWrite, Claim, TypeOK
    <2> QED
      BY <1>1, <2>1 DEF Acquisitions
  <1>7. ASSUME \/ BeginRead(t) \/ WaitRead(t) \/ BeginWrite(t) \/ LoadToCount(t)
               \/ WaitWrite(t) \/ LoadToRelease(t) \/ NotifyNobody(t)
        PROVE  WriteClaims' = WriteClaims
    <2>1. \A u \in Threads : Claim(u)' = Claim(u)
      BY <1>7 DEF BeginRead, WaitRead, BeginWrite, LoadToCount, WaitWrite, LoadToRelease,
                  NotifyNobody, Claim, TypeOK
    <2> QED
      BY <1>1, <2>1 DEF Acquisitions
  <1> QED
    BY <1>2, <1>3, <1>4, <1>5, <1>6, <1>7 DEF Step

LEMMA CountInvStep ==
    ASSUME LockInv, CountInv, NoReadInWrite, GilAtomic, [Next]_vars
    PROVE  CountInv'
  <1> USE DEF LockInv, CountInv
  <1>1. CASE UNCHANGED vars
    <2>1. WriteClaims' = WriteClaims
      BY <1>1 DEF vars, WriteClaims, Acquisitions, Claim
    <2> QED
      BY <1>1, <2>1 DEF vars, UpdatesAlone, LoadedIsCurrent, WritersCounted
  <1>2. ASSUME NEW t \in Threads, BeginRead(t) \/ BeginWrite(t) \/ Step(t)
        PROVE  CountInv'
    <2>1. WritersCounted'
      <3>1. ASSUME StoreCounted(t) PROVE WritersCounted'
        <4>1. tmp[t] = writers
          BY <3>1 DEF StoreCounted, LoadedIsCurrent
        <4>2. /\ WriteClaims' = WriteClaims \cup {NextNewest(Claims, t)}
              /\ NextNewest(Claims, t) \notin WriteClaims
          <5>1. /\ WriteClaims = Acquisitions(Claims, "W")
                /\ WriteClaims' = Acquisitions(Claims', "W")
            BY DEF Claims, WriteClaims, Acquisitions
          <5> QED
            BY <1>2, <3>1, <5>1, ClaimsChange, PushAcquires
        <4> QED
          BY <3>1, <4>1, <4>2, FS_AddElement DEF StoreCounted, WritersCounted
      <3>2. ASSUME StoreReleased(t) PROVE WritersCounted'
        <4>1. tmp[t] = writers
          BY <3>2 DEF StoreReleased, LoadedIsCurrent
        <4>2. /\ WriteClaims' = WriteClaims \ {Newest(Claims, t)}
              /\ Newest(Claims, t) \in WriteClaims
          <5>1. /\ WriteClaims = Acquisitions(Claims, "W")
                /\ WriteClaims' = Acquisitions(Claims', "W")
            BY DEF Claims, WriteClaims, Acquisitions
          <5> QED
            BY <1>2, <3>2, <5>1, ClaimsChange, PopReleases
        <4> QED
          BY <3>2, <4>1, <4>2, FS_RemoveElement DEF StoreReleased, WritersCounted
      <3>3. ASSUME ~StoreCounted(t), ~StoreReleased(t) PROVE WritersCounted'
        <4>1. writers' = writers
          BY <1>2, <3>3 DEF Step, BeginRead, BeginWrite, EnterRead, WaitRead, ReleaseRead,
                LoadToCount, EnterWrite, WaitWrite, LoadToRelease, NotifyNobody
        <4>2. WriteClaims' = WriteClaims
          BY <1>2, <3>3, ClaimsChange
        <4> QED
          BY <4>1, <4>2 DEF WritersCounted
      <3> QED
        BY <3>1, <3>2, <3>3
    <2>2. /\ UpdatesAlone'
          /\ LoadedIsCurrent'
      <3>1. CASE LoadToCount(t) \/ LoadToRelease(t)
        BY <3>1 DEF LoadToCount, LoadToRelease, MayUpdateWriters, UpdatesAlone,
                    LoadedIsCurrent, TypeOK
      <3>2. CASE StoreCounted(t)
        BY <3>2 DEF StoreCounted, UpdatesAlone, LoadedIsCurrent, TypeOK
      <3>3. CASE StoreReleased(t)
        BY <3>3, NotifiedFacts DEF StoreReleased, UpdatesAlone, LoadedIsCurrent, TypeOK
      <3>4. CASE ReleaseRead(t)
        <4>1. \A u \in Threads : pc'[u] \in {"w_store", "d_store"} => pc[u] = pc'[u]
          BY <3>4, NotifiedFacts DEF ReleaseRead, TypeOK
        <4> QED
          BY <3>4, <4>1 DEF ReleaseRead, UpdatesAlone, LoadedIsCurrent
      <3>5. CASE \/ BeginRead(t) \/ BeginWrite(t) \/ EnterRead(t) \/ WaitRead(t)
                 \/ EnterWrite(t) \/ WaitWrite(t) \/ NotifyNobody(t)
        BY <3>5 DEF BeginRead, BeginWrite, EnterRead, WaitRead, EnterWrite, WaitWrite,
                    NotifyNobody, UpdatesAlone, LoadedIsCurrent, TypeOK
      <3> QED
        BY <1>2, <3>1, <3>2, <3>3, <3>4, <3>5 DEF Step
    <2> QED
      BY <2>1, <2>2
  <1> QED
    BY <1>1, <1>2 DEF Next

(***************************************************************************)
(* On an interpreter with indivisible augmented assignments the counter of *)
(* writers is right whenever nobody is in the middle of an update.         *)
(***************************************************************************)
THEOREM WritersAreCounted ==
    ASSUME NoReadInWrite, GilAtomic
    PROVE  Spec => []NoPhantomWriter
  <1>1. LockInv /\ CountInv /\ [Next]_vars => LockInv' /\ CountInv'
    BY LockInvStep, CountInvStep
  <1>2. CountInv => NoPhantomWriter
    BY DEF CountInv, WritersCounted, NoPhantomWriter
  <1> QED
    BY <1>1, <1>2, LockInvInit, CountInvInit, PTL DEF Spec

(***************************************************************************)
(* A reader that arrives after a writer was counted waits for it.          *)
(***************************************************************************)
THEOREM WritersAreNotOvertaken ==
    ASSUME NoReadInWrite, GilAtomic
    PROVE  Spec => NoReaderOvertakesWriter
  <1> DEFINE Waiting == \E t \in Threads : pc[t] \in {"w_acq", "w_wait"}
  <1>1. LockInv /\ CountInv /\ [Next]_vars => LockInv' /\ CountInv'
    BY LockInvStep, CountInvStep
  <1>2. LockInv /\ CountInv /\ [Next]_vars => [Waiting => readers' <= readers]_vars
    <2> SUFFICES ASSUME LockInv, CountInv, Next, NEW w \in Threads,
                        pc[w] \in {"w_acq", "w_wait"}
                 PROVE  readers' <= readers
      OBVIOUS
    <2> USE DEF LockInv, CountInv
    <2>1. writers # 0
      <3>1. Claims[w] = Append(hold[w], "W") /\ hold[w] \in Seq({"R", "W"})
        BY HoldTyped DEF Claims, Claim
      <3>2. /\ Len(hold[w]) + 1 \in DOMAIN Claims[w]
            /\ Claims[w][Len(hold[w]) + 1] = "W"
        BY <3>1, PushFacts
      <3>3. <<w, Len(hold[w]) + 1>> \in WriteClaims
        BY <3>2, AcquisitionsDef DEF WriteClaims, Claims
      <3> QED
        BY <3>3, FS_EmptySet DEF WritersCounted
    <2>2. writers > 0
      BY <2>1, FS_CardinalityType DEF WritersCounted
    <2>3. PICK t \in Threads : BeginRead(t) \/ BeginWrite(t) \/ Step(t)
      BY DEF Next
    <2>4. ~EnterRead(t)
      BY <2>2 DEF EnterRead, TypeOK
    <2> QED
      BY <2>3, <2>4 DEF Step, BeginRead, BeginWrite, WaitRead, ReleaseRead, LoadToCount,
            StoreCounted, EnterWrite, WaitWrite, LoadToRelease, StoreReleased,
            NotifyNobody, TypeOK
  <1> QED
    BY <1>1, <1>2, LockInvInit, CountInvInit, PTL DEF Spec, NoReaderOvertakesWriter

-----------------------------------------------------------------------------

(***************************************************************************)
(* A thread waits only while the counter it waits for is above zero.       *)
(***************************************************************************)
WaitsForACount ==
    \A t \in Threads :
        /\ pc[t] = "r_wait" => writers > 0
        /\ pc[t] = "w_wait" => readers > 0

LEMMA WaitsStep ==
    ASSUME LockInv, CountInv, WaitsForACount, [Next]_vars
    PROVE  WaitsForACount'
  <1> USE DEF LockInv, CountInv
  <1>1. CASE UNCHANGED vars
    BY <1>1 DEF vars, WaitsForACount
  <1>2. ASSUME NEW t \in Threads, BeginRead(t) \/ BeginWrite(t) \/ Step(t)
        PROVE  WaitsForACount'
    <2>1. CASE EnterRead(t)
      BY <2>1 DEF EnterRead, WaitsForACount, TypeOK
    <2>2. CASE ReleaseRead(t)
      <3>1. CASE readers' = 0
        BY <2>2, <3>1, NotifiedFacts DEF ReleaseRead, WaitsForACount, TypeOK
      <3>2. CASE readers' # 0
        BY <2>2, <3>2, LockInvStep DEF ReleaseRead, WaitsForACount, TypeOK
      <3> QED
        BY <3>1, <3>2
    <2>3. CASE StoreCounted(t)
      BY <2>3 DEF StoreCounted, WaitsForACount, LoadedIsCurrent, TypeOK
    <2>4. CASE StoreReleased(t)
      BY <2>4, NotifiedFacts DEF StoreReleased, WaitsForACount, TypeOK
    <2>5. CASE \/ BeginRead(t) \/ BeginWrite(t) \/ WaitRead(t) \/ LoadToCount(t)
               \/ EnterWrite(t) \/ WaitWrite(t) \/ LoadToRelease(t) \/ NotifyNobody(t)
      BY <2>5 DEF BeginRead, BeginWrite, WaitRead, LoadToCount, EnterWrite, WaitWrite,
                  LoadToRelease, NotifyNobody, WaitsForACount, TypeOK
    <2> QED
      BY <1>2, <2>1, <2>2, <2>3, <2>4, <2>5 DEF Step
  <1> QED
    BY <1>1, <1>2 DEF Next

(***************************************************************************)
(* No notification is lost: whoever waits is owed one by another thread.   *)
(***************************************************************************)
THEOREM WaitersAreWoken ==
    ASSUME OneMode, GilAtomic
    PROVE  Spec => []NoLostWakeup
  <1>0. NoReadInWrite
    BY DEF OneMode, NoReadInWrite
  <1>1. LockInv /\ CountInv /\ [Next]_vars => LockInv' /\ CountInv'
    BY <1>0, LockInvStep, CountInvStep
  <1>2. LockInv /\ CountInv /\ WaitsForACount /\ [Next]_vars => WaitsForACount'
    BY WaitsStep
  <1>3. Init => WaitsForACount
    BY DEF Init, WaitsForACount
  <1>4. LockInv /\ CountInv /\ WaitsForACount => NoLostWakeup
    <2> SUFFICES ASSUME LockInv, CountInv, WaitsForACount, NEW t \in Threads
                 PROVE  /\ pc[t] = "r_wait" => \E w \in WriteClaims : w[1] # t
                        /\ pc[t] = "w_wait" => \E r \in ReadHolds : r[1] # t
      BY DEF NoLostWakeup
    <2> USE DEF LockInv, CountInv
    <2>1. ASSUME pc[t] = "r_wait" PROVE \E w \in WriteClaims : w[1] # t
      <3>0. writers = Cardinality(WriteClaims) /\ writers # 0
        <4>1. writers > 0
          BY <2>1 DEF WaitsForACount
        <4>2. writers # 0
          BY <4>1 DEF TypeOK
        <4> QED
          BY <4>2 DEF WritersCounted
      <3>1. PICK w : w \in WriteClaims
        BY <3>0, FS_EmptySet
      <3>2. PICK u, i : u \in Threads /\ i \in DOMAIN Claims[u] /\ Claims[u][i] = "W" /\ w = <<u, i>>
        BY <3>1, AcquisitionsDef DEF WriteClaims, Claims
      <3>3. u # t
        BY <1>0, <2>1, <3>2, ReaderIsNoWriter DEF PcNests, Claims, Claim, Holds
      <3> QED
        BY <3>1, <3>2, <3>3
    <2>2. ASSUME pc[t] = "w_wait" PROVE \E r \in ReadHolds : r[1] # t
      <3>1. PICK r : r \in ReadHolds
        BY <2>2, FS_EmptySet DEF WaitsForACount, ReadersCounted
      <3>2. PICK u, i : u \in Threads /\ i \in DOMAIN hold[u] /\ hold[u][i] = "R" /\ r = <<u, i>>
        BY <3>1, AcquisitionsDef DEF ReadHolds
      <3>3. u # t
        <4>1. Append(hold[t], "W") \in Nestings /\ hold[t] \in Seq({"R", "W"})
          BY <2>2, HoldTyped DEF PcNests
        <4> DEFINE asked == Append(hold[t], "W")
                   new == Len(hold[t]) + 1
        <4>3. /\ \A j \in DOMAIN hold[t] : j \in DOMAIN asked /\ asked[j] = hold[t][j]
              /\ new \in DOMAIN asked /\ asked[new] = "W"
          BY <4>1, PushFacts
        <4>4. \A i1, i2 \in DOMAIN asked : asked[i1] = asked[i2]
          BY <4>1 DEF OneMode
        <4> HIDE DEF asked, new
        <4>2. \A j \in DOMAIN hold[t] : hold[t][j] = "W"
          BY <4>3, <4>4
        <4> QED
          BY <3>2, <4>2
      <3> QED
        BY <3>1, <3>2, <3>3
    <2> QED
      BY <2>1, <2>2
  <1> QED
    BY <1>1, <1>2, <1>3, <1>4, LockInvInit, CountInvInit, PTL DEF Spec

-----------------------------------------------------------------------------
(***************************************************************************)
(*                     THE HISTORY OF A KEY (KeyHistory)                    *)
(***************************************************************************)

Stamped == [ts : Int, val : Nat]

(***************************************************************************)
(* The order of a history: by timestamp, then by arrival.                  *)
(***************************************************************************)
After(w, v) == w.ts > v.ts \/ (w.ts = v.ts /\ w.val > v.val)

Arranged(h) == \A i, j \in DOMAIN h : i < j => After(h[j], h[i])

-----------------------------------------------------------------------------

LEMMA StampedIsTimed == Timed(Stamped)
  BY DEF Timed, Stamped

LEMMA ArrangedIsOrdered ==
    ASSUME NEW h \in Seq(Stamped), Arranged(h)
    PROVE  Ordered(h)
  <1> SUFFICES ASSUME NEW i \in DOMAIN h, NEW j \in DOMAIN h, i < j
               PROVE  h[i].ts <= h[j].ts
    BY DEF Ordered
  <1>1. h[i] \in Stamped /\ h[j] \in Stamped /\ After(h[j], h[i])
    BY DEF Arranged
  <1> QED
    BY <1>1 DEF After, Stamped

-----------------------------------------------------------------------------

(***************************************************************************)
(* What insort does to the versions of this module.                        *)
(***************************************************************************)
LEMMA StampedInserted ==
    ASSUME NEW h \in Seq(Stamped), NEW v \in Stamped, NEW i \in 0 .. Len(h)
    PROVE  /\ InsertAt(h, i + 1, v) \in Seq(Stamped)
           /\ Len(InsertAt(h, i + 1, v)) = Len(h) + 1
           /\ \A j \in 1 .. i : InsertAt(h, i + 1, v)[j] = h[j]
           /\ InsertAt(h, i + 1, v)[i + 1] = v
           /\ \A j \in i + 2 .. Len(h) + 1 : InsertAt(h, i + 1, v)[j] = h[j - 1]
  <1>1. InsertAt(h, i + 1, v) \in Seq(Stamped)
    BY InsertAtFacts
  <1>2. Len(InsertAt(h, i + 1, v)) = Len(h) + 1
    BY InsertAtFacts
  <1>3. \A j \in 1 .. i : InsertAt(h, i + 1, v)[j] = h[j]
    BY InsertAtFacts
  <1>4. InsertAt(h, i + 1, v)[i + 1] = v
    BY InsertAtFacts
  <1>5. \A j \in i + 2 .. Len(h) + 1 : InsertAt(h, i + 1, v)[j] = h[j - 1]
    BY InsertAtFacts
  <1> QED
    BY <1>1, <1>2, <1>3, <1>4, <1>5

(***************************************************************************)
(* Insertion: the order kept, one version more, nothing else changed.      *)
(***************************************************************************)
LEMMA InsertArranged ==
    ASSUME NEW h \in Seq(Stamped), Arranged(h), NEW v \in Stamped,
           \A i \in DOMAIN h : h[i].val < v.val
    PROVE  /\ InsertVersion(h, v) \in Seq(Stamped)
           /\ Arranged(InsertVersion(h, v))
           /\ \A j \in DOMAIN InsertVersion(h, v) :
                 InsertVersion(h, v)[j] = v \/ \E i \in DOMAIN h : InsertVersion(h, v)[j] = h[i]
  <1>1. Ordered(h) /\ \A i \in DOMAIN h : h[i] \in Stamped
    BY ArrangedIsOrdered
  <1>2. CASE h = << >> \/ v.ts >= h[Len(h)].ts
    <2> DEFINE g == Append(h, v)
    <2>1. InsertVersion(h, v) = g
      BY <1>2 DEF InsertVersion
    <2>2. /\ g \in Seq(Stamped) /\ DOMAIN g = DOMAIN h \cup {Len(h) + 1}
          /\ \A i \in DOMAIN h : g[i] = h[i]
          /\ g[Len(h) + 1] = v
      OBVIOUS
    <2>3. \A i \in DOMAIN h : After(v, h[i])
      <3> SUFFICES ASSUME NEW i \in DOMAIN h PROVE After(v, h[i])
        OBVIOUS
      <3>1. Len(h) \in DOMAIN h /\ v.ts >= h[Len(h)].ts
        BY <1>2
      <3>2. h[i].ts <= h[Len(h)].ts
        <4>1. CASE i = Len(h)
          BY <1>1, <4>1 DEF Stamped
        <4>2. CASE i < Len(h)
          BY <1>1, <3>1, <4>2 DEF Ordered
        <4> QED
          BY <4>1, <4>2
      <3>3. h[i] \in Stamped /\ h[Len(h)] \in Stamped
        BY <1>1, <3>1
      <3> QED
        BY <3>1, <3>2, <3>3 DEF After, Stamped
    <2>4. Arranged(g)
      <3> SUFFICES ASSUME NEW i \in DOMAIN g, NEW j \in DOMAIN g, i < j
                   PROVE  After(g[j], g[i])
        BY DEF Arranged
      <3>1. i \in DOMAIN h
        BY <2>2
      <3>2. CASE j \in DOMAIN h
        BY <2>2, <3>1, <3>2 DEF Arranged
      <3>3. CASE j = Len(h) + 1
        BY <2>2, <2>3, <3>1, <3>3
      <3> QED
        BY <2>2, <3>2, <3>3
    <2> QED
      BY <2>1, <2>2, <2>4
  <1>3. CASE ~(h = << >> \/ v.ts >= h[Len(h)].ts)
    <2> DEFINE n == BisectRight(h, v.ts)
               g == InsertAt(h, n + 1, v)
    <2>1. InsertVersion(h, v) = g
      BY <1>3 DEF InsertVersion
    <2>2. /\ n \in 0 .. Len(h)
          /\ \A j \in 1 .. n : h[j].ts <= v.ts
          /\ \A j \in n + 1 .. Len(h) : v.ts < h[j].ts
      <3>1. v.ts \in Int
        BY DEF Stamped
      <3> QED
        BY <1>1, <3>1, BisectRightFinds, StampedIsTimed
    <2> HIDE DEF n
    <2>3. /\ g \in Seq(Stamped) /\ Len(g) = Len(h) + 1
          /\ \A j \in 1 .. n : g[j] = h[j]
          /\ g[n + 1] = v
          /\ \A j \in n + 2 .. Len(h) + 1 : g[j] = h[j - 1]
      BY <2>2, StampedInserted
    <2> HIDE DEF g
    <2>4. Arranged(g)
      <3> SUFFICES ASSUME NEW i \in 1 .. Len(h) + 1, NEW j \in 1 .. Len(h) + 1, i < j
                   PROVE  After(g[j], g[i])
        BY <2>3 DEF Arranged
      <3>1. CASE j <= n
        <4>1. i \in DOMAIN h /\ j \in DOMAIN h /\ g[i] = h[i] /\ g[j] = h[j]
          BY <2>2, <2>3, <3>1
        <4> QED
          BY <4>1 DEF Arranged
      <3>2. CASE j = n + 1
        <4>1. i \in DOMAIN h /\ g[i] = h[i] /\ g[j] = v /\ h[i].ts <= v.ts
          BY <2>2, <2>3, <3>2
        <4>2. h[i] \in Stamped /\ h[i].val < v.val
          BY <1>1, <4>1
        <4> QED
          BY <4>1, <4>2 DEF After, Stamped
      <3>3. CASE i = n + 1
        <4>1. j - 1 \in DOMAIN h /\ g[j] = h[j - 1] /\ g[i] = v /\ v.ts < h[j - 1].ts
          BY <2>2, <2>3, <3>3
        <4>2. h[j - 1] \in Stamped
          BY <1>1, <4>1
        <4> QED
          BY <4>1, <4>2 DEF After, Stamped
      <3>4. CASE i <= n /\ j > n + 1
        <4>1. /\ i \in DOMAIN h /\ j - 1 \in DOMAIN h /\ i < j - 1
              /\ g[i] = h[i] /\ g[j] = h[j - 1]
          BY <2>2, <2>3, <3>4
        <4> QED
          BY <4>1 DEF Arranged
      <3>5. CASE i > n + 1
        <4>1. /\ i - 1 \in DOMAIN h /\ j - 1 \in DOMAIN h /\ i - 1 < j - 1
              /\ g[i] = h[i - 1] /\ g[j] = h[j - 1]
          BY <2>2, <2>3, <3>5
        <4> QED
          BY <4>1 DEF Arranged
      <3> QED
        BY <2>2, <3>1, <3>2, <3>3, <3>4, <3>5
    <2>5. \A j \in DOMAIN g : g[j] = v \/ \E i \in DOMAIN h : g[j] = h[i]
      <3> SUFFICES ASSUME NEW j \in 1 .. Len(h) + 1
                   PROVE  g[j] = v \/ \E i \in DOMAIN h : g[j] = h[i]
        BY <2>3
      <3>1. CASE j <= n
        BY <2>2, <2>3, <3>1
      <3>2. CASE j = n + 1
        BY <2>3, <3>2
      <3>3. CASE j > n + 1
        <4>1. j - 1 \in DOMAIN h /\ g[j] = h[j - 1]
          BY <2>2, <2>3, <3>3
        <4> QED
          BY <4>1
      <3> QED
        BY <2>2, <3>1, <3>2, <3>3
    <2> QED
      BY <2>1, <2>3, <2>4, <2>5
  <1> QED
    BY <1>2, <1>3

(***************************************************************************)
(* A contiguous part of a history is in order, and holds nothing new.      *)
(***************************************************************************)
LEMMA PartArranged ==
    ASSUME NEW h \in Seq(Stamped), Arranged(h), NEW m \in 1 .. Len(h) + 1
    PROVE  /\ SubSeq(h, m, Len(h)) \in Seq(Stamped)
           /\ Len(SubSeq(h, m, Len(h))) = Len(h) - m + 1
           /\ Arranged(SubSeq(h, m, Len(h)))
           /\ \A j \in DOMAIN SubSeq(h, m, Len(h)) :
                 \E i \in DOMAIN h : SubSeq(h, m, Len(h))[j] = h[i]
  <1> DEFINE g == SubSeq(h, m, Len(h))
  <1>1. /\ g \in Seq(Stamped) /\ Len(g) = Len(h) - m + 1
        /\ \A j \in 1 .. Len(h) - m + 1 : g[j] = h[j + m - 1] /\ j + m - 1 \in DOMAIN h
    OBVIOUS
  <1> HIDE DEF g
  <1>2. Arranged(g)
    <2> SUFFICES ASSUME NEW i \in 1 .. Len(h) - m + 1, NEW j \in 1 .. Len(h) - m + 1, i < j
                 PROVE  After(g[j], g[i])
      BY <1>1 DEF Arranged
    <2>1. i + m - 1 < j + m - 1
      OBVIOUS
    <2> QED
      BY <1>1, <2>1 DEF Arranged
  <1>3. \A j \in DOMAIN g : \E i \in DOMAIN h : g[j] = h[i]
    BY <1>1
  <1> QED
    BY <1>1, <1>2, <1>3 DEF g

(***************************************************************************)
(* The slice of prune_history and _auto_prune, for every argument.         *)
(***************************************************************************)
LEMMA KeepLastArranged ==
    ASSUME NEW h \in Seq(Stamped), Arranged(h), NEW n \in Int
    PROVE  /\ KeepLast(h, n) \in Seq(Stamped)
           /\ Arranged(KeepLast(h, n))
           /\ \A j \in DOMAIN KeepLast(h, n) : \E i \in DOMAIN h : KeepLast(h, n)[j] = h[i]
           /\ n > 0 => Len(KeepLast(h, n)) <= n
  <1>1. CASE n > 0 /\ n >= Len(h)
    BY <1>1 DEF KeepLast
  <1>2. CASE n > 0 /\ n < Len(h)
    <2> DEFINE m == Len(h) - n + 1
    <2>1. KeepLast(h, n) = SubSeq(h, m, Len(h)) /\ m \in 1 .. Len(h) + 1
      BY <1>2 DEF KeepLast
    <2>2. n > 0 => Len(h) - m + 1 = n
      BY <1>2
    <2> HIDE DEF m
    <2>3. /\ SubSeq(h, m, Len(h)) \in Seq(Stamped)
          /\ Len(SubSeq(h, m, Len(h))) = Len(h) - m + 1
          /\ Arranged(SubSeq(h, m, Len(h)))
          /\ \A j \in DOMAIN SubSeq(h, m, Len(h)) :
                \E i \in DOMAIN h : SubSeq(h, m, Len(h))[j] = h[i]
      BY <2>1, PartArranged
    <2> QED
      BY <2>1, <2>2, <2>3
  <1>3. CASE n <= 0 /\ 1 - n <= Len(h) + 1
    <2> DEFINE m == 1 - n
    <2>1. KeepLast(h, n) = SubSeq(h, m, Len(h)) /\ m \in 1 .. Len(h) + 1
      BY <1>3 DEF KeepLast
    <2>2. n > 0 => Len(h) - m + 1 = n
      BY <1>3
    <2> HIDE DEF m
    <2>3. /\ SubSeq(h, m, Len(h)) \in Seq(Stamped)
          /\ Len(SubSeq(h, m, Len(h))) = Len(h) - m + 1
          /\ Arranged(SubSeq(h, m, Len(h)))
          /\ \A j \in DOMAIN SubSeq(h, m, Len(h)) :
                \E i \in DOMAIN h : SubSeq(h, m, Len(h))[j] = h[i]
      BY <2>1, PartArranged
    <2> QED
      BY <2>1, <2>2, <2>3
  <1>4. CASE n <= 0 /\ 1 - n > Len(h) + 1
    <2>1. KeepLast(h, n) = << >>
      BY <1>4 DEF KeepLast
    <2> QED
      BY <1>4, <2>1 DEF Arranged
  <1> QED
    BY <1>1, <1>2, <1>3, <1>4

-----------------------------------------------------------------------------

(***************************************************************************)
(* A history whose versions are among the first n arrivals: what every     *)
(* operation on it preserves.                                              *)
(***************************************************************************)
History(h, n) ==
    /\ h \in Seq(Stamped)
    /\ Arranged(h)
    /\ \A i \in DOMAIN h : h[i].val <= n

LEMMA HistoryGrows ==
    ASSUME NEW n \in Nat, NEW h, History(h, n), NEW t \in Int
    PROVE  History(InsertVersion(h, [ts |-> t, val |-> n + 1]), n + 1)
  <1> DEFINE v == [ts |-> t, val |-> n + 1]
             g == InsertVersion(h, v)
  <1>1. h \in Seq(Stamped) /\ Arranged(h) /\ v \in Stamped /\ v.val = n + 1
    BY DEF History, Stamped
  <1>2. \A i \in DOMAIN h : h[i].val <= n /\ h[i].val \in Nat
    <2>1. \A i \in DOMAIN h : h[i] \in Stamped
      BY <1>1
    <2> QED
      BY <2>1 DEF History, Stamped
  <1> HIDE DEF v
  <1>3. \A i \in DOMAIN h : h[i].val < v.val
    BY <1>1, <1>2
  <1>4. /\ g \in Seq(Stamped)
        /\ Arranged(g)
        /\ \A j \in DOMAIN g : g[j] = v \/ \E i \in DOMAIN h : g[j] = h[i]
    BY <1>1, <1>3, InsertArranged
  <1> HIDE DEF g
  <1>5. \A j \in DOMAIN g : g[j].val <= n + 1
    <2> SUFFICES ASSUME NEW j \in DOMAIN g PROVE g[j].val <= n + 1
      OBVIOUS
    <2>1. CASE g[j] = v
      BY <1>1, <2>1
    <2>2. CASE \E i \in DOMAIN h : g[j] = h[i]
      BY <1>2, <2>2
    <2> QED
      BY <1>4, <2>1, <2>2
  <1>6. History(g, n + 1)
    BY <1>4, <1>5 DEF History
  <1> QED
    BY <1>6 DEF g, v

LEMMA HistoryShrinks ==
    ASSUME NEW n \in Nat, NEW h, History(h, n),
           NEW g \in Seq(Stamped), Arranged(g),
           \A j \in DOMAIN g : \E i \in DOMAIN h : g[j] = h[i]
    PROVE  History(g, n)
  BY DEF History

LEMMA KeepLastHistory ==
    ASSUME NEW n \in Nat, NEW h, History(h, n), NEW k \in Int
    PROVE  History(KeepLast(h, k), n) /\ (k > 0 => Len(KeepLast(h, k)) <= k)
  <1>1. h \in Seq(Stamped) /\ Arranged(h)
    BY DEF History
  <1>2. /\ KeepLast(h, k) \in Seq(Stamped)
        /\ Arranged(KeepLast(h, k))
        /\ \A j \in DOMAIN KeepLast(h, k) : \E i \in DOMAIN h : KeepLast(h, k)[j] = h[i]
        /\ k > 0 => Len(KeepLast(h, k)) <= k
    BY <1>1, KeepLastArranged
  <1> QED
    BY <1>2, HistoryShrinks

LEMMA AutoPruneHistory ==
    ASSUME NEW n \in Nat, NEW h, History(h, n)
    PROVE  /\ History(AutoPrune(h, Cap), n)
           /\ Cap # NoCap /\ Cap > 0 => Len(AutoPrune(h, Cap)) <= Cap
  <1>1. CASE Cap # NoCap /\ Len(h) > Cap
    <2>1. Cap \in Int
      BY <1>1, KeyHistoryAssumption DEF KeyHistoryAssumption
    <2>2. AutoPrune(h, Cap) = KeepLast(h, Cap)
      BY <1>1 DEF AutoPrune
    <2> QED
      BY <2>1, <2>2, KeepLastHistory
  <1>2. CASE ~(Cap # NoCap /\ Len(h) > Cap)
    <2>1. AutoPrune(h, Cap) = h
      BY <1>2 DEF AutoPrune
    <2>2. Cap # NoCap => Cap \in Int /\ Len(h) <= Cap
      <3>1. Len(h) \in Nat
        BY DEF History
      <3> QED
        BY <1>2, <3>1, KeyHistoryAssumption DEF KeyHistoryAssumption
    <2> QED
      BY <2>1, <2>2
  <1> QED
    BY <1>1, <1>2

LEMMA DropOlderHistory ==
    ASSUME NEW n \in Nat, NEW h, History(h, n), NEW t \in Int
    PROVE  History(DropOlder(h, t), n) /\ Len(DropOlder(h, t)) <= Len(h)
  <1>1. h \in Seq(Stamped) /\ Arranged(h) /\ Ordered(h)
    BY ArrangedIsOrdered DEF History
  <1> DEFINE m == BisectLeft(h, t) + 1
             g == SubSeq(h, m, Len(h))
  <1>2. m \in 1 .. Len(h) + 1
    <2>1. BisectLeft(h, t) \in 0 .. Len(h) /\ Len(h) \in Nat
      BY <1>1, BisectLeftFinds, StampedIsTimed
    <2> QED
      BY <2>1
  <1>3. DropOlder(h, t) = g
    BY DEF DropOlder
  <1> HIDE DEF m
  <1>4. /\ g \in Seq(Stamped)
        /\ Len(g) = Len(h) - m + 1
        /\ Arranged(g)
        /\ \A j \in DOMAIN g : \E i \in DOMAIN h : g[j] = h[i]
    BY <1>1, <1>2, PartArranged
  <1> HIDE DEF g
  <1>5. Len(g) <= Len(h)
    <2>1. Len(h) \in Nat
      BY <1>1
    <2> QED
      BY <1>2, <1>4, <2>1
  <1> QED
    BY <1>3, <1>4, <1>5, HistoryShrinks

(***************************************************************************)
(* A copied history brings its own order: its versions arrive in it.       *)
(***************************************************************************)
LEMMA CopiedHistory ==
    ASSUME NEW n \in Nat, NEW other \in OverwriteFrom
    PROVE  History([i \in DOMAIN other |-> [ts |-> other[i], val |-> n + i]], n + Len(other))
  <1> DEFINE g == [i \in DOMAIN other |-> [ts |-> other[i], val |-> n + i]]
  <1>1. /\ other \in Seq(Timestamps)
        /\ \A i \in DOMAIN other : other[i] \in Int
        /\ \A i, j \in DOMAIN other : i < j => other[i] <= other[j]
    <2>1. Timestamps \subseteq Int /\ other \in Seq(Timestamps)
      BY KeyHistoryAssumption DEF KeyHistoryAssumption
    <2>2. \A i \in DOMAIN other : other[i] \in Timestamps
      BY <2>1
    <2>3. \A i, j \in DOMAIN other : i < j => other[i] <= other[j]
      BY KeyHistoryAssumption, Zenon DEF KeyHistoryAssumption
    <2> QED
      BY <2>1, <2>2, <2>3
  <1>2. DOMAIN other = 1 .. Len(other) /\ Len(other) \in Nat
    BY <1>1
  <1>3. \A i \in 1 .. Len(other) : g[i] \in Stamped
    BY <1>1, <1>2 DEF Stamped
  <1>4. g \in Seq(Stamped) /\ DOMAIN g = 1 .. Len(other)
    BY <1>2, <1>3
  <1>5. \A i \in 1 .. Len(other) : g[i].ts = other[i] /\ g[i].val = n + i
    BY <1>2
  <1> HIDE DEF g
  <1>6. Arranged(g)
    <2> SUFFICES ASSUME NEW i \in 1 .. Len(other), NEW j \in 1 .. Len(other), i < j
                 PROVE  After(g[j], g[i])
      BY <1>4 DEF Arranged
    <2>1. other[i] \in Int /\ other[j] \in Int /\ other[i] <= other[j]
      BY <1>1, <1>2
    <2> QED
      BY <1>5, <2>1 DEF After
  <1>7. \A i \in DOMAIN g : g[i].val <= n + Len(other)
    BY <1>2, <1>4, <1>5
  <1>8. History(g, n + Len(other))
    BY <1>4, <1>6, <1>7 DEF History
  <1> QED
    BY <1>8 DEF g

-----------------------------------------------------------------------------

(***************************************************************************)
(* The inductive invariant: the versions are in order and are among those  *)
(* that have arrived, so that the next arrival comes after its ties.       *)
(***************************************************************************)
Inv ==
    /\ merging \in BOOLEAN
    /\ incoming \in Seq(Timestamps)
    /\ arrived \in Nat
    /\ unpruned \in Nat
    /\ History(versions, arrived)

LEMMA SurplusFacts ==
    ASSUME NEW n \in Nat
    PROVE  Surplus(n) \in Nat /\ (Cap # NoCap => n <= Cap + Surplus(n))
  BY KeyHistoryAssumption DEF KeyHistoryAssumption, Surplus

LEMMA InvInit == HistoryInit => Inv
  <1> SUFFICES ASSUME HistoryInit PROVE Inv
    OBVIOUS
  <1>1. << >> \in Seq(Stamped) /\ << >> \in Seq(Timestamps) /\ DOMAIN << >> = {}
    OBVIOUS
  <1> QED
    BY <1>1 DEF HistoryInit, Inv, History, Arranged

LEMMA InvStep == Inv /\ [HistoryNext]_historyVars => Inv'
  <1> SUFFICES ASSUME Inv, [HistoryNext]_historyVars PROVE Inv'
    OBVIOUS
  <1> USE DEF Inv
  <1>0. Timestamps \subseteq Int /\ KeepArgs \subseteq Int
        /\ MergeFrom \subseteq Seq(Timestamps) /\ OverwriteFrom \subseteq Seq(Timestamps)
    BY KeyHistoryAssumption DEF KeyHistoryAssumption
  <1>1. ASSUME NEW t \in Timestamps, Put(t) PROVE Inv'
    <2>1. History(InsertVersion(versions, Arriving(t)), arrived + 1)
      BY <1>0, HistoryGrows DEF Arriving
    <2>2. History(versions', arrived')
      BY <1>1, <2>1, AutoPruneHistory DEF Put
    <2> QED
      BY <1>1, <2>2 DEF Put
  <1>2. ASSUME NEW t \in Timestamps, PruneOlderThan(t) PROVE Inv'
    <2>1. History(versions', arrived')
      BY <1>0, <1>2, DropOlderHistory DEF PruneOlderThan
    <2> QED
      BY <1>2, <2>1 DEF PruneOlderThan
  <1>3. ASSUME NEW n \in KeepArgs, PruneKeepLast(n) PROVE Inv'
    <2>1. History(versions', arrived')
      BY <1>0, <1>3, KeepLastHistory DEF PruneKeepLast
    <2> QED
      BY <1>3, <2>1 DEF PruneKeepLast
  <1>4. CASE Delete
    <2>1. History(versions', arrived')
      <3>1. << >> \in Seq(Stamped) /\ DOMAIN << >> = {}
        OBVIOUS
      <3> QED
        BY <1>4, <3>1 DEF Delete, History, Arranged
    <2> QED
      BY <1>4, <2>1 DEF Delete
  <1>5. ASSUME NEW other \in MergeFrom, MergeBegin(other) PROVE Inv'
    BY <1>0, <1>5 DEF MergeBegin
  <1>6. CASE MergeVersion
    <2>1. Head(incoming) \in Timestamps /\ Tail(incoming) \in Seq(Timestamps)
      BY <1>6 DEF MergeVersion
    <2>2. Head(incoming) \in Int
      BY <1>0, <2>1
    <2>3. History(versions', arrived')
      BY <1>6, <2>2, HistoryGrows DEF MergeVersion, Arriving
    <2> QED
      BY <1>6, <2>1, <2>3 DEF MergeVersion
  <1>7. CASE MergeEnd
    <2>1. History(versions', arrived')
      BY <1>7, AutoPruneHistory DEF MergeEnd
    <2> QED
      BY <1>7, <2>1 DEF MergeEnd
  <1>8. ASSUME NEW other \in OverwriteFrom, MergeOverwrite(other) PROVE Inv'
    <2>1. History(versions', arrived')
      BY <1>8, CopiedHistory DEF MergeOverwrite
    <2>2. Len(other) \in Nat
      BY <1>0
    <2> QED
      BY <1>8, <2>1, <2>2, SurplusFacts DEF MergeOverwrite
  <1>9. CASE UNCHANGED historyVars
    BY <1>9 DEF historyVars
  <1>10. ASSUME NEW t \in Timestamps, PutRejected(t) PROVE Inv'
    <2>1. History(InsertVersion(versions, Arriving(t)), arrived + 1)
      BY <1>0, HistoryGrows DEF Arriving
    <2> QED
      BY <1>10, <2>1 DEF PutRejected
  <1> QED
    BY <1>1, <1>2, <1>3, <1>4, <1>5, <1>6, <1>7, <1>8, <1>9, <1>10 DEF HistoryNext

LEMMA Invariance == HistorySpec => []Inv
  BY InvInit, InvStep, PTL DEF HistorySpec

(***************************************************************************)
(* put() and merge() keep the history in the order of timestamps and,      *)
(* within a timestamp, of arrival, for all timestamps and every cap.       *)
(***************************************************************************)
THEOREM HistoryStaysInOrder == HistorySpec => []InOrder
  <1>1. Inv => InOrder
    <2> SUFFICES ASSUME Inv, NEW i \in DOMAIN versions, NEW j \in DOMAIN versions, i < j
                 PROVE  Register!Supersedes(versions[j], versions[i])
      BY DEF InOrder
    <2>1. After(versions[j], versions[i])
      BY DEF Inv, History, Arranged
    <2> QED
      BY <2>1 DEF After, Register!Supersedes
  <1> QED
    BY <1>1, Invariance, PTL

(***************************************************************************)
(* The lookup of get() finds the write in force, whatever the history has  *)
(* been through.                                                           *)
(***************************************************************************)
LEMMA LookupFacts ==
    ASSUME NEW h \in Seq(Stamped), Arranged(h), NEW t \in Int
    PROVE  /\ IndexAsOf(h, t) \in 0 .. Len(h)
           /\ \A j \in DOMAIN h : h[j].ts <= t <=> j <= IndexAsOf(h, t)
  <1>1. Ordered(h) /\ \A j \in DOMAIN h : h[j] \in Stamped
    BY ArrangedIsOrdered
  <1>2. \A j \in DOMAIN h : h[j].ts \in Int
    BY <1>1 DEF Stamped
  <1> DEFINE n == BisectRight(h, t)
  <1>3. /\ n \in 0 .. Len(h)
        /\ \A j \in 1 .. n : h[j].ts <= t
        /\ \A j \in n + 1 .. Len(h) : t < h[j].ts
    BY <1>1, BisectRightFinds, StampedIsTimed
  <1> HIDE DEF n
  <1>4. \A j \in DOMAIN h : h[j].ts <= t <=> j <= n
    <2> SUFFICES ASSUME NEW j \in 1 .. Len(h) PROVE h[j].ts <= t <=> j <= n
      OBVIOUS
    <2>1. CASE j <= n
      BY <1>3, <2>1
    <2>2. CASE j > n
      BY <1>2, <1>3, <2>2
    <2> QED
      BY <1>3, <2>1, <2>2
  <1> QED
    BY <1>3, <1>4 DEF n, IndexAsOf

LEMMA NeverBoth ==
    ASSUME NEW v \in Stamped, NEW w \in Stamped, After(v, w)
    PROVE  ~After(w, v)
  BY DEF After, Stamped

IsCut(h, t, n) == n \in 0 .. Len(h) /\ \A j \in DOMAIN h : h[j].ts <= t <=> j <= n

IsLatest(h, t, i) ==
    h[i].ts <= t /\ \A j \in DOMAIN h : h[j].ts <= t => ~After(h[j], h[i])

LEMMA InForceIsLatest ==
    ASSUME NEW h \in Seq(Stamped), Arranged(h), NEW t \in Int, NEW n, IsCut(h, t, n)
    PROVE  \A i \in DOMAIN h : IsLatest(h, t, i) <=> i = n
  <1> USE DEF IsCut, IsLatest
  <1> SUFFICES ASSUME NEW i \in DOMAIN h
               PROVE  h[i].ts <= t /\ (\A j \in DOMAIN h : h[j].ts <= t => ~After(h[j], h[i]))
                         <=> i = n
    OBVIOUS
  <1>0. n \in 0 .. Len(h) /\ \A j \in DOMAIN h : h[j].ts <= t <=> j <= n
    OBVIOUS
  <1>1. \A j \in DOMAIN h : h[j] \in Stamped
    OBVIOUS
  <1>2. CASE i < n
    <2>1. n \in DOMAIN h /\ h[n].ts <= t /\ After(h[n], h[i])
      BY <1>2 DEF Arranged
    <2> QED
      BY <1>2, <2>1
  <1>3. CASE i > n
    BY <1>3
  <1>4. CASE i = n
    <2>1. ASSUME NEW j \in DOMAIN h, h[j].ts <= t PROVE ~After(h[j], h[i])
      <3>1. j <= n
        BY <2>1
      <3>2. CASE j = n
        BY <1>1, <1>4, <3>2 DEF After, Stamped
      <3>3. CASE j < n
        <4>1. After(h[i], h[j])
          BY <1>4, <3>3 DEF Arranged
        <4> QED
          BY <1>1, <4>1, NeverBoth
      <3> QED
        BY <3>1, <3>2, <3>3
    <2> QED
      BY <1>4, <2>1
  <1> QED
    BY <1>2, <1>3, <1>4

(***************************************************************************)
(* get(key, t) answers with the latest write not after t, the last to      *)
(* arrive among ties, for all timestamps and after any operations.         *)
(***************************************************************************)
THEOREM LookupIsRight == HistorySpec => []LookupIsInForce
  <1>1. Inv => LookupIsInForce
    <2> SUFFICES ASSUME Inv, NEW t \in Timestamps
                 PROVE  Register!InForce(t) = LET i == IndexAsOf(versions, t)
                                              IN  IF i = 0 THEN {} ELSE {versions[i]}
      BY DEF LookupIsInForce
    <2> DEFINE n == IndexAsOf(versions, t)
    <2>1. versions \in Seq(Stamped) /\ Arranged(versions) /\ t \in Int
      BY KeyHistoryAssumption DEF KeyHistoryAssumption, Inv, History
    <2>2. IsCut(versions, t, n)
      BY <2>1, LookupFacts DEF IsCut
    <2> HIDE DEF n
    <2>3. \A i \in DOMAIN versions : IsLatest(versions, t, i) <=> i = n
      BY <2>1, <2>2, InForceIsLatest
    <2>4. \A v : v \in Register!InForce(t) <=> \E i \in DOMAIN versions : v = versions[i] /\ i = n
      <3>1. ASSUME NEW v
            PROVE  v \in Register!InForce(t)
                     <=> \E i \in DOMAIN versions : v = versions[i] /\ IsLatest(versions, t, i)
        BY DEF Register!InForce, Register!Supersedes, Kept, After, IsLatest
      <3> QED
        BY <2>3, <3>1
    <2>5. CASE n = 0
      <3>1. \A v : v \notin Register!InForce(t)
        BY <2>1, <2>4, <2>5
      <3> QED
        BY <2>5, <3>1 DEF n
    <2>6. CASE n # 0
      <3>1. n \in DOMAIN versions
        BY <2>1, <2>2, <2>6 DEF IsCut
      <3>2. \A v : v \in Register!InForce(t) <=> v = versions[n]
        BY <2>4, <3>1
      <3>3. Register!InForce(t) = {versions[n]}
        BY <3>2
      <3> QED
        BY <2>6, <3>3 DEF n
    <2> QED
      BY <2>5, <2>6
  <1> QED
    BY <1>1, Invariance, PTL

-----------------------------------------------------------------------------

(***************************************************************************)
(* Inserting makes a history longer by one version; whether the rest of    *)
(* the step prunes it is what the theorem below is about.                  *)
(***************************************************************************)
LEMMA InsertLengthens ==
    ASSUME NEW h \in Seq(Stamped), NEW v \in Stamped, Arranged(h)
    PROVE  Len(InsertVersion(h, v)) = Len(h) + 1
  <1>1. CASE h = << >> \/ v.ts >= h[Len(h)].ts
    BY <1>1 DEF InsertVersion
  <1>2. CASE ~(h = << >> \/ v.ts >= h[Len(h)].ts)
    <2> DEFINE n == BisectRight(h, v.ts)
    <2>1. n \in 0 .. Len(h)
      BY ArrangedIsOrdered, BisectRightFinds, StampedIsTimed DEF Stamped
    <2>2. InsertVersion(h, v) = InsertAt(h, n + 1, v)
      BY <1>2 DEF InsertVersion
    <2> HIDE DEF n
    <2>3. Len(InsertAt(h, n + 1, v)) = Len(h) + 1
      BY <2>1, StampedInserted
    <2> QED
      BY <2>2, <2>3
  <1> QED
    BY <1>1, <1>2

(***************************************************************************)
(* For every max_history, positive or not, and whatever is merged in,      *)
(* copied or rejected: a history never has more versions than max_history  *)
(* allows beside those that came in since _auto_prune last ran on it.      *)
(***************************************************************************)
THEOREM CapHolds == HistorySpec => []CapOnWhatWasPruned
  <1>1. HistoryInit => CapOnWhatWasPruned
    <2> SUFFICES ASSUME HistoryInit, Cap # NoCap, Cap > 0 PROVE Len(versions) <= Cap + unpruned
      BY DEF CapOnWhatWasPruned
    <2>1. Cap \in Int /\ Len(versions) = 0 /\ unpruned = 0
      BY KeyHistoryAssumption DEF KeyHistoryAssumption, HistoryInit
    <2> QED
      BY <2>1
  <1>2. Inv /\ CapOnWhatWasPruned /\ [HistoryNext]_historyVars => CapOnWhatWasPruned'
    <2> SUFFICES ASSUME Inv, CapOnWhatWasPruned, [HistoryNext]_historyVars, Cap # NoCap, Cap > 0
                 PROVE  Len(versions') <= Cap + unpruned'
      BY DEF CapOnWhatWasPruned
    <2>0. /\ Cap \in Int /\ unpruned \in Nat /\ Len(versions) \in Nat
          /\ Len(versions) <= Cap + unpruned
          /\ versions \in Seq(Stamped) /\ Arranged(versions) /\ arrived \in Nat
      BY KeyHistoryAssumption DEF KeyHistoryAssumption, CapOnWhatWasPruned, Inv, History
    <2>i. ASSUME NEW t \in Timestamps, versions' = InsertVersion(versions, Arriving(t)),
                 unpruned' = unpruned + 1
          PROVE  Len(versions') <= Cap + unpruned'
      <3>1. Arriving(t) \in Stamped
        BY <2>0, KeyHistoryAssumption DEF KeyHistoryAssumption, Arriving, Stamped
      <3>2. Len(versions') = Len(versions) + 1
        BY <2>0, <2>i, <3>1, InsertLengthens
      <3> QED
        BY <2>0, <2>i, <3>2
    <2>1. ASSUME NEW t \in Timestamps, PutRejected(t) PROVE Len(versions') <= Cap + unpruned'
      BY <2>1, <2>i DEF PutRejected
    <2>2. ASSUME NEW t \in Timestamps, Put(t) PROVE Len(versions') <= Cap + unpruned'
      <3>1. t \in Int
        BY KeyHistoryAssumption DEF KeyHistoryAssumption
      <3>2. History(InsertVersion(versions, Arriving(t)), arrived + 1) /\ arrived + 1 \in Nat
        BY <3>1, HistoryGrows DEF Arriving, Inv
      <3>3. Len(versions') <= Cap /\ unpruned' = 0
        BY <2>2, <3>2, AutoPruneHistory DEF Put
      <3> QED
        BY <2>0, <3>3
    <2>3. ASSUME NEW t \in Timestamps, PruneOlderThan(t) PROVE Len(versions') <= Cap + unpruned'
      <3>1. t \in Int
        BY KeyHistoryAssumption DEF KeyHistoryAssumption
      <3>2. Len(versions') <= Len(versions) /\ Len(versions') \in Nat
        <4>1. /\ History(DropOlder(versions, t), arrived)
              /\ Len(DropOlder(versions, t)) <= Len(versions)
          BY <3>1, DropOlderHistory DEF Inv
        <4> QED
          BY <2>3, <4>1 DEF PruneOlderThan, History
      <3> QED
        BY <2>0, <2>3, <3>2 DEF PruneOlderThan
    <2>4. ASSUME NEW n \in KeepArgs, PruneKeepLast(n) PROVE Len(versions') <= Cap + unpruned'
      <3>1. n \in Int
        BY KeyHistoryAssumption DEF KeyHistoryAssumption
      <3>2. Len(KeepLast(versions, n)) <= Len(versions) /\ Len(KeepLast(versions, n)) \in Nat
        BY <2>0, <3>1 DEF KeepLast
      <3> QED
        BY <2>0, <2>4, <3>2 DEF PruneKeepLast
    <2>5. CASE Delete
      BY <2>0, <2>5 DEF Delete
    <2>6. ASSUME NEW other \in MergeFrom, MergeBegin(other) PROVE Len(versions') <= Cap + unpruned'
      BY <2>0, <2>6 DEF MergeBegin
    <2>7. CASE MergeVersion
      <3>1. Head(incoming) \in Timestamps
        BY <2>7 DEF MergeVersion, Inv
      <3> QED
        BY <2>7, <2>i, <3>1 DEF MergeVersion
    <2>8. CASE MergeEnd
      <3>1. Len(versions') <= Cap /\ unpruned' = 0
        BY <2>8, AutoPruneHistory DEF MergeEnd, Inv
      <3> QED
        BY <2>0, <3>1
    <2>9. ASSUME NEW other \in OverwriteFrom, MergeOverwrite(other)
          PROVE  Len(versions') <= Cap + unpruned'
      <3>1. /\ Len([i \in DOMAIN other |-> [ts |-> other[i], val |-> arrived + i]]) = Len(other)
            /\ Len(other) \in Nat
        BY KeyHistoryAssumption DEF KeyHistoryAssumption
      <3> QED
        BY <2>9, <3>1, SurplusFacts DEF MergeOverwrite
    <2>10. CASE UNCHANGED historyVars
      BY <2>0, <2>10 DEF historyVars
    <2> QED
      BY <2>1, <2>2, <2>3, <2>4, <2>5, <2>6, <2>7, <2>8, <2>9, <2>10 DEF HistoryNext
  <1> QED
    BY <1>1, <1>2, Invariance, PTL DEF HistorySpec

-----------------------------------------------------------------------------
(***************************************************************************)
(* The refinement of VersionedRegister.  The writes of a history, as a     *)
(* set, and what its operations do to it.                                  *)
(***************************************************************************)
Writes(h) == {h[i] : i \in DOMAIN h}

LEMMA InsertAdds ==
    ASSUME NEW h \in Seq(Stamped), Arranged(h), NEW v \in Stamped
    PROVE  Writes(InsertVersion(h, v)) = Writes(h) \cup {v}
  <1>1. CASE h = << >> \/ v.ts >= h[Len(h)].ts
    <2> DEFINE g == Append(h, v)
    <2>1. InsertVersion(h, v) = g
      BY <1>1 DEF InsertVersion
    <2>2. /\ DOMAIN g = DOMAIN h \cup {Len(h) + 1}
          /\ \A i \in DOMAIN h : g[i] = h[i]
          /\ g[Len(h) + 1] = v
      OBVIOUS
    <2> HIDE DEF g
    <2> QED
      BY <2>1, <2>2 DEF Writes
  <1>2. CASE ~(h = << >> \/ v.ts >= h[Len(h)].ts)
    <2> DEFINE n == BisectRight(h, v.ts)
               g == InsertAt(h, n + 1, v)
    <2>1. InsertVersion(h, v) = g
      BY <1>2 DEF InsertVersion
    <2>2. n \in 0 .. Len(h)
      <3>1. Ordered(h) /\ v.ts \in Int
        BY ArrangedIsOrdered DEF Stamped
      <3> QED
        BY <3>1, BisectRightFinds, StampedIsTimed
    <2> HIDE DEF n
    <2>3. /\ g \in Seq(Stamped) /\ Len(g) = Len(h) + 1
          /\ \A j \in 1 .. n : g[j] = h[j]
          /\ g[n + 1] = v
          /\ \A j \in n + 2 .. Len(h) + 1 : g[j] = h[j - 1]
      BY <2>2, StampedInserted
    <2> HIDE DEF g
    <2>4. ASSUME NEW j \in DOMAIN g PROVE g[j] = v \/ \E i \in DOMAIN h : g[j] = h[i]
      <3>1. CASE j <= n
        BY <2>2, <2>3, <3>1
      <3>2. CASE j = n + 1
        BY <2>3, <3>2
      <3>3. CASE j > n + 1
        <4>1. j - 1 \in DOMAIN h /\ g[j] = h[j - 1]
          BY <2>2, <2>3, <3>3
        <4> QED
          BY <4>1
      <3> QED
        BY <2>2, <2>3, <3>1, <3>2, <3>3
    <2>5. ASSUME NEW i \in DOMAIN h PROVE \E j \in DOMAIN g : h[i] = g[j]
      <3>1. CASE i <= n
        <4>1. i \in DOMAIN g /\ g[i] = h[i]
          BY <2>2, <2>3, <3>1
        <4> QED
          BY <4>1
      <3>2. CASE i > n
        <4>1. i + 1 \in DOMAIN g /\ g[i + 1] = h[i]
          <5>1. i + 1 \in n + 2 .. Len(h) + 1 /\ i + 1 - 1 = i
            BY <2>2, <3>2
          <5>2. g[i + 1] = h[i + 1 - 1]
            BY <2>3, <5>1
          <5> QED
            BY <2>2, <2>3, <5>1, <5>2
        <4> QED
          BY <4>1
      <3> QED
        BY <2>2, <3>1, <3>2
    <2>6. n + 1 \in DOMAIN g
      BY <2>2, <2>3
    <2> QED
      BY <2>1, <2>3, <2>4, <2>5, <2>6 DEF Writes
  <1> QED
    BY <1>1, <1>2

LEMMA WritesOfPart ==
    ASSUME NEW h \in Seq(Stamped), NEW m \in Int, m >= 1
    PROVE  Writes(SubSeq(h, m, Len(h))) = {h[i] : i \in m .. Len(h)}
  <1> DEFINE g == SubSeq(h, m, Len(h))
  <1>1. Len(h) \in Nat
    OBVIOUS
  <1>2. CASE m \in 1 .. Len(h) + 1
    <2>1. /\ g \in Seq(Stamped) /\ Len(g) = Len(h) - m + 1
          /\ \A j \in 1 .. Len(h) - m + 1 : g[j] = h[j + m - 1]
      BY <1>1, <1>2
    <2> HIDE DEF g
    <2>2. ASSUME NEW j \in DOMAIN g PROVE \E i \in m .. Len(h) : g[j] = h[i]
      <3>1. j \in 1 .. Len(h) - m + 1
        BY <2>1
      <3>2. j + m - 1 \in m .. Len(h)
        BY <1>1, <3>1
      <3> QED
        BY <2>1, <3>1, <3>2
    <2>3. ASSUME NEW i \in m .. Len(h) PROVE \E j \in DOMAIN g : h[i] = g[j]
      <3>1. i - m + 1 \in DOMAIN g /\ i - m + 1 \in 1 .. Len(h) - m + 1 /\ (i - m + 1) + m - 1 = i
        BY <1>1, <1>2, <2>1
      <3>2. g[i - m + 1] = h[(i - m + 1) + m - 1]
        BY <2>1, <3>1
      <3> QED
        BY <3>1, <3>2
    <2>4. Writes(g) = {h[i] : i \in m .. Len(h)}
      BY <2>2, <2>3 DEF Writes
    <2> QED
      BY <2>4 DEF g
  <1>3. CASE m > Len(h) + 1
    <2>1. g = << >> /\ m .. Len(h) = {}
      BY <1>1, <1>3
    <2> HIDE DEF g
    <2>2. Writes(g) = {h[i] : i \in m .. Len(h)}
      BY <2>1 DEF Writes
    <2> QED
      BY <2>2 DEF g
  <1> QED
    BY <1>1, <1>2, <1>3

(***************************************************************************)
(* How many writes supersede one: those behind it.                         *)
(***************************************************************************)
LEMMA ArrangedCounts ==
    ASSUME NEW h \in Seq(Stamped), Arranged(h), NEW i \in 0 .. Len(h)
    PROVE  Cardinality({h[j] : j \in i + 1 .. Len(h)}) = Len(h) - i
  <1> DEFINE n == Len(h) - i
             S == {h[j] : j \in i + 1 .. Len(h)}
             f == [j \in 1 .. n |-> h[i + j]]
  <1>1. Len(h) \in Nat /\ n \in Nat
    OBVIOUS
  <1>2. \A j \in 1 .. n : i + j \in DOMAIN h /\ i + j \in i + 1 .. Len(h)
    OBVIOUS
  <1>3. \A j, k \in DOMAIN h : h[j] = h[k] => j = k
    <2> SUFFICES ASSUME NEW j \in DOMAIN h, NEW k \in DOMAIN h, j < k
                 PROVE  h[j] # h[k]
      BY <1>1
    <2>1. h[j] \in Stamped /\ h[k] \in Stamped /\ After(h[k], h[j])
      BY DEF Arranged
    <2> QED
      BY <2>1 DEF After, Stamped
  <1>4. f \in [1 .. n -> S]
    BY <1>2
  <1>5. \A j, k \in 1 .. n : f[j] = f[k] => j = k
    <2> SUFFICES ASSUME NEW j \in 1 .. n, NEW k \in 1 .. n, f[j] = f[k] PROVE j = k
      OBVIOUS
    <2>1. h[i + j] = h[i + k] /\ i + j \in DOMAIN h /\ i + k \in DOMAIN h
      BY <1>2
    <2>2. i + j = i + k
      BY <1>3, <2>1
    <2> QED
      BY <2>2
  <1>6. \A s \in S : \E j \in 1 .. n : f[j] = s
    <2> SUFFICES ASSUME NEW j \in i + 1 .. Len(h) PROVE \E k \in 1 .. n : f[k] = h[j]
      OBVIOUS
    <2>1. j - i \in 1 .. n /\ i + (j - i) = j
      OBVIOUS
    <2>2. f[j - i] = h[j]
      BY <2>1
    <2> QED
      BY <2>1, <2>2
  <1> HIDE DEF n, S, f
  <1>7. ExistsBijection(1 .. n, S)
    BY <1>4, <1>5, <1>6 DEF ExistsBijection, Bijection, Injection, Surjection, IsInjective
  <1>8. Cardinality(S) = n
    BY <1>1, <1>7, FS_CountingElements
  <1> QED
    BY <1>8 DEF n, S

LEMMA Superseding ==
    ASSUME NEW h \in Seq(Stamped), Arranged(h), NEW i \in DOMAIN h
    PROVE  /\ {w \in Writes(h) : Register!Supersedes(w, h[i])} = {h[j] : j \in i + 1 .. Len(h)}
           /\ Cardinality({w \in Writes(h) : Register!Supersedes(w, h[i])}) = Len(h) - i
  <1>1. Len(h) \in Nat /\ DOMAIN h = 1 .. Len(h)
    OBVIOUS
  <1>2. ASSUME NEW j \in DOMAIN h
        PROVE  Register!Supersedes(h[j], h[i]) <=> j > i
    <2>1. h[i] \in Stamped /\ h[j] \in Stamped
      OBVIOUS
    <2>2. j > i => After(h[j], h[i])
      BY DEF Arranged
    <2>3. j < i => After(h[i], h[j])
      BY DEF Arranged
    <2> QED
      BY <1>1, <2>1, <2>2, <2>3 DEF Register!Supersedes, After, Stamped
  <1>3. \A j : j \in i + 1 .. Len(h) <=> j \in DOMAIN h /\ j > i
    BY <1>1
  <1>4. {w \in Writes(h) : Register!Supersedes(w, h[i])} = {h[j] : j \in i + 1 .. Len(h)}
    BY <1>2, <1>3 DEF Writes
  <1>5. i \in 0 .. Len(h)
    BY <1>1
  <1>6. Cardinality({h[j] : j \in i + 1 .. Len(h)}) = Len(h) - i
    BY <1>5, ArrangedCounts
  <1> QED
    BY <1>4, <1>6

LEMMA SameCardinality ==
    ASSUME NEW S
    PROVE  Register!Cardinality(S) = Cardinality(S)
  BY DEF Register!Cardinality, Cardinality

LEMMA AmongNewest ==
    ASSUME NEW S, NEW v \in S, NEW n
    PROVE  v \in Register!Newest(S, n) <=> Cardinality({w \in S : Register!Supersedes(w, v)}) < n
  BY SameCardinality DEF Register!Newest

LEMMA NewestWrites ==
    ASSUME NEW h \in Seq(Stamped), Arranged(h), NEW n \in Int, n > 0
    PROVE  Writes(KeepLast(h, n)) = Register!Newest(Writes(h), n)
  <1>1. Len(h) \in Nat /\ DOMAIN h = 1 .. Len(h)
    OBVIOUS
  <1>2. Register!Newest(Writes(h), n) = {h[i] : i \in {j \in DOMAIN h : Len(h) - j < n}}
    <2>1. \A i \in DOMAIN h :
             h[i] \in Register!Newest(Writes(h), n) <=> Len(h) - i < n
      <3> SUFFICES ASSUME NEW i \in DOMAIN h
                   PROVE  h[i] \in Register!Newest(Writes(h), n) <=> Len(h) - i < n
        OBVIOUS
      <3>1. Cardinality({w \in Writes(h) : Register!Supersedes(w, h[i])}) = Len(h) - i
        BY Superseding
      <3>2. h[i] \in Writes(h)
        BY DEF Writes
      <3>3. h[i] \in Register!Newest(Writes(h), n)
              <=> Cardinality({w \in Writes(h) : Register!Supersedes(w, h[i])}) < n
        BY <3>2, AmongNewest
      <3> QED
        BY <3>1, <3>3
    <2>2. Register!Newest(Writes(h), n) \subseteq Writes(h)
      BY DEF Register!Newest
    <2> QED
      BY <2>1, <2>2 DEF Writes
  <1>3. CASE n >= Len(h)
    <2>1. KeepLast(h, n) = h
      BY <1>1, <1>3 DEF KeepLast
    <2>2. {j \in DOMAIN h : Len(h) - j < n} = DOMAIN h
      BY <1>1, <1>3
    <2> QED
      BY <1>2, <2>1, <2>2 DEF Writes
  <1>4. CASE n < Len(h)
    <2>1. KeepLast(h, n) = SubSeq(h, Len(h) - n + 1, Len(h))
      BY <1>1, <1>4 DEF KeepLast
    <2>2. {j \in DOMAIN h : Len(h) - j < n} = Len(h) - n + 1 .. Len(h)
      BY <1>1, <1>4
    <2>3. Len(h) - n + 1 \in Int /\ Len(h) - n + 1 >= 1
      BY <1>1, <1>4
    <2> QED
      BY <1>2, <2>1, <2>2, <2>3, WritesOfPart
  <1> QED
    BY <1>1, <1>3, <1>4

(***************************************************************************)
(* The cap, when it keeps anything at all.                                 *)
(***************************************************************************)
CapKeepsSome == Cap # NoCap => Cap > 0

LEMMA RetainedWrites ==
    ASSUME CapKeepsSome, NEW h \in Seq(Stamped), Arranged(h)
    PROVE  Writes(AutoPrune(h, Cap)) = Register!Retain(Writes(h))
  <1>1. CASE Cap = NoCap
    BY <1>1 DEF AutoPrune, Register!Retain
  <1>2. CASE Cap # NoCap
    <2>1. Cap \in Int /\ Cap > 0
      BY <1>2, KeyHistoryAssumption DEF KeyHistoryAssumption, CapKeepsSome
    <2>2. Writes(KeepLast(h, Cap)) = Register!Newest(Writes(h), Cap)
      BY <2>1, NewestWrites
    <2>3. AutoPrune(h, Cap) = KeepLast(h, Cap)
      <3>1. Len(h) \in Nat
        OBVIOUS
      <3>2. CASE Len(h) > Cap
        BY <1>2, <3>2 DEF AutoPrune
      <3>3. CASE ~(Len(h) > Cap)
        BY <1>2, <2>1, <3>1, <3>3 DEF AutoPrune, KeepLast
      <3> QED
        BY <3>2, <3>3
    <2> QED
      BY <1>2, <2>2, <2>3 DEF Register!Retain
  <1> QED
    BY <1>1, <1>2

LEMMA RemainingWrites ==
    ASSUME NEW h \in Seq(Stamped), Arranged(h), NEW t \in Int
    PROVE  Writes(DropOlder(h, t)) = {v \in Writes(h) : v.ts >= t}
  <1> DEFINE n == BisectLeft(h, t)
  <1>1. Len(h) \in Nat /\ \A i \in DOMAIN h : h[i] \in Stamped
    OBVIOUS
  <1>2. /\ n \in 0 .. Len(h)
        /\ \A j \in 1 .. n : h[j].ts < t
        /\ \A j \in n + 1 .. Len(h) : t <= h[j].ts
    BY ArrangedIsOrdered, BisectLeftFinds, StampedIsTimed
  <1>3. DropOlder(h, t) = SubSeq(h, n + 1, Len(h))
    BY DEF DropOlder
  <1> HIDE DEF n
  <1>4. Writes(DropOlder(h, t)) = {h[i] : i \in n + 1 .. Len(h)}
    BY <1>2, <1>3, WritesOfPart
  <1>5. ASSUME NEW i \in DOMAIN h PROVE h[i].ts >= t <=> i \in n + 1 .. Len(h)
    <2>1. h[i].ts \in Int
      BY <1>1 DEF Stamped
    <2>2. i \in 1 .. n \/ i \in n + 1 .. Len(h)
      BY <1>1, <1>2
    <2>3. CASE i \in 1 .. n
      BY <1>1, <1>2, <2>1, <2>3
    <2>4. CASE i \in n + 1 .. Len(h)
      BY <1>2, <2>1, <2>4
    <2> QED
      BY <2>2, <2>3, <2>4
  <1>6. n + 1 .. Len(h) \subseteq DOMAIN h
    BY <1>1, <1>2
  <1> QED
    BY <1>4, <1>5, <1>6 DEF Writes

LEMMA EmptyHasNoWrites == Writes(<< >>) = {}
  BY DEF Writes

LEMMA KeepingIsRegistered ==
    ASSUME NEW h \in Seq(Stamped), Arranged(h), NEW n \in Int
    PROVE  \/ Writes(KeepLast(h, n)) = Writes(h)
           \/ Writes(KeepLast(h, n)) = {}
           \/ \E k \in 1 .. Cardinality(Writes(h)) :
                 Writes(KeepLast(h, n)) = Register!Newest(Writes(h), k)
  <1>1. Len(h) \in Nat
    OBVIOUS
  <1>2. Cardinality(Writes(h)) = Len(h)
    <2>1. 0 \in 0 .. Len(h) /\ DOMAIN h = 0 + 1 .. Len(h) /\ Len(h) - 0 = Len(h)
      BY <1>1
    <2>2. Cardinality({h[j] : j \in 0 + 1 .. Len(h)}) = Len(h) - 0
      BY <2>1, ArrangedCounts
    <2> QED
      BY <2>1, <2>2 DEF Writes
  <1>3. CASE n > 0 /\ n >= Len(h)
    BY <1>3 DEF KeepLast
  <1>4. CASE n > 0 /\ n < Len(h)
    <2>1. n \in 1 .. Cardinality(Writes(h))
      BY <1>1, <1>2, <1>4
    <2> QED
      BY <1>4, <2>1, NewestWrites
  <1>5. CASE n <= 0 /\ 1 - n <= Len(h)
    <2> DEFINE k == Len(h) + n
    <2>1. k \in 1 .. Cardinality(Writes(h)) /\ k \in Int /\ k > 0
      BY <1>1, <1>2, <1>5
    <2>2. KeepLast(h, n) = SubSeq(h, 1 - n, Len(h))
      BY <1>5 DEF KeepLast
    <2>3. KeepLast(h, k) = SubSeq(h, 1 - n, Len(h))
      <3>1. CASE n = 0
        BY <1>1, <1>5, <3>1 DEF KeepLast
      <3>2. CASE n < 0
        <4>1. k < Len(h) /\ Len(h) - k + 1 = 1 - n
          BY <1>1, <3>2
        <4> HIDE DEF k
        <4> QED
          BY <1>1, <2>1, <4>1 DEF KeepLast
      <3> QED
        BY <1>5, <3>1, <3>2
    <2>4. Writes(KeepLast(h, n)) = Register!Newest(Writes(h), k)
      <3> HIDE DEF k
      <3> QED
        BY <2>1, <2>2, <2>3, NewestWrites
    <2> QED
      BY <2>1, <2>4
  <1>6. CASE n <= 0 /\ 1 - n > Len(h)
    <2>1. KeepLast(h, n) = << >>
      BY <1>1, <1>6 DEF KeepLast
    <2> QED
      BY <2>1, EmptyHasNoWrites
  <1> QED
    BY <1>1, <1>3, <1>4, <1>5, <1>6

(***************************************************************************)
(* Every step of the history is an operation of the register, or none: the *)
(* beginning of a merge, and a prune that keeps more than there is.        *)
(***************************************************************************)
LEMMA KeptIsWrites == Kept = Writes(versions) /\ Kept' = Writes(versions')
  BY DEF Kept, Writes

LEMMA ArrivalIsStamped ==
    ASSUME Inv, NEW t \in Timestamps
    PROVE  Arriving(t) \in Stamped /\ InsertVersion(versions, Arriving(t)) \in Seq(Stamped)
           /\ Arranged(InsertVersion(versions, Arriving(t)))
           /\ Writes(InsertVersion(versions, Arriving(t))) = Kept \cup {Arriving(t)}
  <1>1. t \in Int /\ arrived \in Nat
    BY KeyHistoryAssumption DEF KeyHistoryAssumption, Inv
  <1>2. Arriving(t) \in Stamped
    BY <1>1 DEF Arriving, Stamped
  <1>3. History(InsertVersion(versions, Arriving(t)), arrived + 1)
    BY <1>1, HistoryGrows DEF Inv, Arriving
  <1>4. versions \in Seq(Stamped) /\ Arranged(versions)
    BY DEF Inv, History
  <1>5. Writes(InsertVersion(versions, Arriving(t))) = Writes(versions) \cup {Arriving(t)}
    BY <1>2, <1>4, InsertAdds
  <1> QED
    BY <1>2, <1>3, <1>5, KeptIsWrites DEF History

LEMMA StepIsRegistered ==
    ASSUME CapKeepsSome, Inv, [HistoryNext]_historyVars
    PROVE  [Register!Next]_(Register!vars)
  <1>1. /\ versions \in Seq(Stamped) /\ Arranged(versions) /\ arrived \in Nat
        /\ incoming \in Seq(Timestamps)
        /\ Timestamps \subseteq Int /\ KeepArgs \subseteq Int
        /\ OverwriteFrom \subseteq Seq(Timestamps)
    BY KeyHistoryAssumption DEF KeyHistoryAssumption, Inv, History
  <1>2. ASSUME NEW t \in Timestamps, Put(t) PROVE Register!Next
    <2>1. Kept' = Register!Retain(Kept \cup {Arriving(t)}) /\ arrived' = arrived + 1
      BY <1>2, ArrivalIsStamped, RetainedWrites, KeptIsWrites DEF Put
    <2>2. Register!Write(t)
      BY <2>1 DEF Register!Write, Arriving
    <2> QED
      BY <2>2 DEF Register!Next
  <1>3. ASSUME NEW t \in Timestamps, PruneOlderThan(t) PROVE Register!Next
    <2>1. Kept' = {v \in Kept : v.ts >= t} /\ arrived' = arrived
      <3>1. t \in Int
        BY <1>1
      <3> QED
        BY <1>1, <1>3, <3>1, RemainingWrites, KeptIsWrites DEF PruneOlderThan
    <2>2. Register!Forget(t)
      BY <2>1 DEF Register!Forget
    <2> QED
      BY <2>2 DEF Register!Next
  <1>4. ASSUME NEW n \in KeepArgs, PruneKeepLast(n) PROVE [Register!Next]_(Register!vars)
    <2>1. versions' = KeepLast(versions, n) /\ arrived' = arrived /\ n \in Int
      BY <1>1, <1>4 DEF PruneKeepLast
    <2>2. CASE Kept' = Kept
      BY <2>1, <2>2 DEF Register!vars
    <2>3. CASE Kept' = {}
      <3>1. Register!Delete
        BY <2>1, <2>3 DEF Register!Delete
      <3> QED
        BY <3>1 DEF Register!Next
    <2>4. CASE \E k \in 1 .. Cardinality(Kept) : Kept' = Register!Newest(Kept, k)
      <3>1. PICK k \in 1 .. Cardinality(Kept) : Kept' = Register!Newest(Kept, k)
        BY <2>4
      <3>2. Register!KeepNewest(k) /\ k \in 1 .. Register!Cardinality(Kept)
        BY <2>1, <3>1, SameCardinality DEF Register!KeepNewest
      <3> QED
        BY <3>2 DEF Register!Next
    <2> QED
      BY <1>1, <2>1, <2>2, <2>3, <2>4, KeepingIsRegistered, KeptIsWrites
  <1>5. CASE Delete
    <2>1. Register!Delete
      BY <1>5, KeptIsWrites, EmptyHasNoWrites DEF Delete, Register!Delete
    <2> QED
      BY <2>1 DEF Register!Next
  <1>6. ASSUME NEW other \in MergeFrom, MergeBegin(other) PROVE UNCHANGED Register!vars
    BY <1>6 DEF MergeBegin, Register!vars, Kept
  <1>7. CASE MergeVersion
    <2>1. Head(incoming) \in Timestamps
      BY <1>1, <1>7 DEF MergeVersion
    <2>2. Kept' = Kept \cup {Arriving(Head(incoming))} /\ arrived' = arrived + 1
      BY <1>7, <2>1, ArrivalIsStamped, KeptIsWrites DEF MergeVersion
    <2>3. Register!Absorb(Head(incoming))
      BY <2>2 DEF Register!Absorb, Arriving
    <2> QED
      BY <2>1, <2>3 DEF Register!Next
  <1>8. CASE MergeEnd
    <2>1. Register!Bound
      BY <1>1, <1>8, RetainedWrites, KeptIsWrites DEF MergeEnd, Register!Bound
    <2> QED
      BY <2>1 DEF Register!Next
  <1>9. ASSUME NEW other \in OverwriteFrom, MergeOverwrite(other) PROVE Register!Next
    <2>1. /\ versions' = [i \in DOMAIN other |-> [ts |-> other[i], val |-> arrived + i]]
          /\ arrived' = arrived + Len(other)
      BY <1>9 DEF MergeOverwrite
    <2>2. Kept' = {[ts |-> other[i], val |-> arrived + i] : i \in DOMAIN other}
      BY <2>1, KeptIsWrites DEF Writes
    <2>3. Register!Replace(other)
      BY <2>1, <2>2 DEF Register!Replace
    <2> QED
      BY <2>3 DEF Register!Next
  <1>10. CASE UNCHANGED historyVars
    BY <1>10 DEF historyVars, Register!vars, Kept
  <1>11. ASSUME NEW t \in Timestamps, PutRejected(t) PROVE Register!Next
    <2>1. Kept' = Kept \cup {Arriving(t)} /\ arrived' = arrived + 1
      BY <1>11, ArrivalIsStamped, KeptIsWrites DEF PutRejected
    <2>2. Register!Absorb(t)
      BY <2>1 DEF Register!Absorb, Arriving
    <2> QED
      BY <2>2 DEF Register!Next
  <1> QED
    BY <1>2, <1>3, <1>4, <1>5, <1>6, <1>7, <1>8, <1>9, <1>10, <1>11 DEF HistoryNext

(***************************************************************************)
(* For all timestamps, merges and prunes, and every cap that keeps         *)
(* something (max_history=0 keeps all, a negative one drops from the old  *)
(* end): pruning at every put() and at the end of every merge() retains    *)
(* the same versions as choosing the newest of all that were there.        *)
(***************************************************************************)
THEOREM HistoryIsARegister ==
    ASSUME CapKeepsSome
    PROVE  HistorySpec => ImplementsRegister
  <1>1. HistoryInit => Register!Init
    BY EmptyHasNoWrites, KeptIsWrites DEF HistoryInit, Register!Init
  <1>2. Inv /\ [HistoryNext]_historyVars => [Register!Next]_(Register!vars)
    BY StepIsRegistered
  <1>3. HistorySpec => Register!Init /\ [][Register!Next]_(Register!vars)
    BY <1>1, <1>2, Invariance, PTL DEF HistorySpec
  <1> QED
    BY <1>3 DEF ImplementsRegister, Register!Spec

=============================================================================
