------------------------------- MODULE RWLock -------------------------------
(***************************************************************************)
(* The readers-writer lock of chronomap/_lock.py.  Every operation of      *)
(* ChronoMap runs inside it.                                               *)
(*                                                                         *)
(* A writer holds the RLock inside the condition _read_ready from the end  *)
(* of acquire_write to the end of release_write; a reader holds it only    *)
(* for the instant in which it tests and updates the counters.  Such an    *)
(* instant is one step here.  What is NOT one step: the two updates of     *)
(* self._writers.  The increment runs under _write_ready and the decrement *)
(* under _read_ready, so nothing orders their load and store but the       *)
(* interpreter.  GilAtomic says whether the interpreter can switch threads *)
(* between the load and the store of one augmented assignment: CPython     *)
(* 3.10 and later cannot, 3.8 and 3.9 and free-threaded builds can.        *)
(*                                                                         *)
(* Nestings is the set of stacks of modes a thread may hold, which is how  *)
(* the callers use the lock: flat operations, a callback that writes       *)
(* (<<"W","W">>), diff() that calls get() (<<"R","R">>), a callback that   *)
(* reads (<<"W","R">>), a predicate that writes (<<"R","W">>).             *)
(***************************************************************************)
EXTENDS Integers, Sequences, FiniteSets

CONSTANTS
    Threads,
    NoThread,
    Nestings,     \* stacks of modes the callers build
    GilAtomic,    \* is  x += 1  indivisible?
    WriterCap     \* bound on |self._writers| at which no new writer arrives

ASSUME RWLockAssumption ==
    /\ NoThread \notin Threads
    /\ Nestings \subseteq Seq({"R", "W"})
    /\ << >> \in Nestings
    /\ \A s \in Nestings \ {<< >>} : SubSeq(s, 1, Len(s) - 1) \in Nestings
    /\ GilAtomic \in BOOLEAN
    /\ WriterCap \in Nat

VARIABLES
    readers,      \* self._readers
    writers,      \* self._writers
    owner,        \* thread that holds the RLock of _read_ready between steps
    wrOwner,      \* thread that holds the RLock of _write_ready
    hold,         \* hold[t]: modes held by t, innermost last
    pc,           \* pc[t]: where t is in a method of the lock
    tmp           \* tmp[t]: value of self._writers loaded by an update of t

vars == <<readers, writers, owner, wrOwner, hold, pc, tmp>>

Locations ==
    {"run",       \* outside the lock's code
     "r_acq",     \* acquire_read: about to take _read_ready and test
     "r_wait",    \* acquire_read: in _read_ready.wait(), not notified
     "w_load",    \* acquire_write: about to take _write_ready and load
     "w_store",   \* acquire_write: loaded, holding _write_ready
     "w_acq",     \* acquire_write: counted, about to take _read_ready and test
     "w_wait",    \* acquire_write: in _read_ready.wait(), not notified
     "d_store",   \* release_write: loaded, still holding _read_ready
     "d_tail"}    \* release_write: about to take _write_ready and notify nobody

TypeOK ==
    /\ readers \in Nat
    /\ writers \in Int
    /\ owner \in Threads \cup {NoThread}
    /\ wrOwner \in Threads \cup {NoThread}
    /\ hold \in [Threads -> Nestings]
    /\ pc \in [Threads -> Locations]
    /\ tmp \in [Threads -> Int]

Init ==
    /\ readers = 0
    /\ writers = 0
    /\ owner = NoThread
    /\ wrOwner = NoThread
    /\ hold = [t \in Threads |-> << >>]
    /\ pc = [t \in Threads |-> "run"]
    /\ tmp = [t \in Threads |-> 0]

-----------------------------------------------------------------------------

Holds(t, m) == \E i \in DOMAIN hold[t] : hold[t][i] = m

Top(t) == hold[t][Len(hold[t])]

Pop(s) == SubSeq(s, 1, Len(s) - 1)

(***************************************************************************)
(* _read_ready's lock is an RLock: t may take it when it is free or t's.   *)
(***************************************************************************)
CanTake(t) == owner \in {NoThread, t}

(***************************************************************************)
(* Who owns _read_ready's lock after t, left with the given stack, has     *)
(* released one level: each "W" in the stack keeps one.                    *)
(***************************************************************************)
OwnerAfterRelease(t, stack) ==
    IF \E i \in DOMAIN stack : stack[i] = "W" THEN t ELSE NoThread

(***************************************************************************)
(* notify_all() on _read_ready: the waiters go back to taking the lock and *)
(* to the test of their while loop.                                        *)
(***************************************************************************)
Notified(locations) ==
    [u \in Threads |-> CASE locations[u] = "r_wait" -> "r_acq"
                         [] locations[u] = "w_wait" -> "w_acq"
                         [] OTHER -> locations[u]]

(***************************************************************************)
(* An indivisible update lets no other update start in the middle of it.   *)
(***************************************************************************)
MayUpdateWriters == GilAtomic => \A u \in Threads : pc[u] \notin {"w_store", "d_store"}

-----------------------------------------------------------------------------

BeginRead(t) ==
    /\ pc[t] = "run"
    /\ Append(hold[t], "R") \in Nestings
    /\ pc' = [pc EXCEPT ![t] = "r_acq"]
    /\ UNCHANGED <<readers, writers, owner, wrOwner, hold, tmp>>

EnterReadUncounted(t) ==   \* mutant: the reader is not counted
    /\ pc[t] = "r_acq"
    /\ CanTake(t)
    /\ writers <= 0
    /\ readers' = readers
    /\ owner' = OwnerAfterRelease(t, hold[t])
    /\ hold' = [hold EXCEPT ![t] = Append(@, "R")]
    /\ pc' = [pc EXCEPT ![t] = "run"]
    /\ UNCHANGED <<writers, wrOwner, tmp>>

EnterReadUntested(t) ==   \* mutant: no test of self._writers
    /\ pc[t] = "r_acq"
    /\ CanTake(t)
    /\ readers' = readers + 1
    /\ owner' = OwnerAfterRelease(t, hold[t])
    /\ hold' = [hold EXCEPT ![t] = Append(@, "R")]
    /\ pc' = [pc EXCEPT ![t] = "run"]
    /\ UNCHANGED <<writers, wrOwner, tmp>>

(***************************************************************************)
(* acquire_read, the loop test fails: count the reader, let the lock go    *)
(* (one level of it: a thread that is also a writer keeps the others).     *)
(***************************************************************************)
EnterRead(t) ==
    /\ pc[t] = "r_acq"
    /\ CanTake(t)
    /\ writers <= 0
    /\ readers' = readers + 1
    /\ owner' = OwnerAfterRelease(t, hold[t])
    /\ hold' = [hold EXCEPT ![t] = Append(@, "R")]
    /\ pc' = [pc EXCEPT ![t] = "run"]
    /\ UNCHANGED <<writers, wrOwner, tmp>>

(***************************************************************************)
(* acquire_read, the loop test holds: wait() gives up every level of the   *)
(* RLock, those of an enclosing acquire_write included.                    *)
(***************************************************************************)
WaitRead(t) ==
    /\ pc[t] = "r_acq"
    /\ CanTake(t)
    /\ writers > 0
    /\ owner' = NoThread
    /\ pc' = [pc EXCEPT ![t] = "r_wait"]
    /\ UNCHANGED <<readers, writers, wrOwner, hold, tmp>>

ReleaseReadSilently(t) ==   \* mutant: no notify_all()
    /\ pc[t] = "run"
    /\ hold[t] # << >>
    /\ Top(t) = "R"
    /\ CanTake(t)
    /\ readers' = readers - 1
    /\ hold' = [hold EXCEPT ![t] = Pop(@)]
    /\ owner' = OwnerAfterRelease(t, Pop(hold[t]))
    /\ UNCHANGED <<writers, wrOwner, pc, tmp>>

(***************************************************************************)
(* release_read: the last reader out wakes everyone.                       *)
(***************************************************************************)
ReleaseRead(t) ==
    /\ pc[t] = "run"
    /\ hold[t] # << >>
    /\ Top(t) = "R"
    /\ CanTake(t)
    /\ readers' = readers - 1
    /\ hold' = [hold EXCEPT ![t] = Pop(@)]
    /\ owner' = OwnerAfterRelease(t, Pop(hold[t]))
    /\ pc' = IF readers' = 0 THEN Notified(pc) ELSE pc
    /\ UNCHANGED <<writers, wrOwner, tmp>>

-----------------------------------------------------------------------------

BeginWrite(t) ==
    /\ pc[t] = "run"
    /\ Append(hold[t], "W") \in Nestings
    /\ writers \in -WriterCap .. WriterCap
    /\ pc' = [pc EXCEPT ![t] = "w_load"]
    /\ UNCHANGED <<readers, writers, owner, wrOwner, hold, tmp>>

(***************************************************************************)
(* acquire_write: self._writers += 1 under _write_ready.                   *)
(***************************************************************************)
LoadToCount(t) ==
    /\ pc[t] = "w_load"
    /\ wrOwner = NoThread
    /\ MayUpdateWriters
    /\ wrOwner' = t
    /\ tmp' = [tmp EXCEPT ![t] = writers]
    /\ pc' = [pc EXCEPT ![t] = "w_store"]
    /\ UNCHANGED <<readers, writers, owner, hold>>

StoreCounted(t) ==
    /\ pc[t] = "w_store"
    /\ writers' = tmp[t] + 1
    /\ wrOwner' = NoThread
    /\ pc' = [pc EXCEPT ![t] = "w_acq"]
    /\ UNCHANGED <<readers, owner, hold, tmp>>

EnterWriteUntested(t) ==   \* mutant: no test of self._readers
    /\ pc[t] = "w_acq"
    /\ CanTake(t)
    /\ owner' = t
    /\ hold' = [hold EXCEPT ![t] = Append(@, "W")]
    /\ pc' = [pc EXCEPT ![t] = "run"]
    /\ UNCHANGED <<readers, writers, wrOwner, tmp>>

(***************************************************************************)
(* acquire_write, no readers: return with _read_ready's lock held.         *)
(***************************************************************************)
EnterWrite(t) ==
    /\ pc[t] = "w_acq"
    /\ CanTake(t)
    /\ readers <= 0
    /\ owner' = t
    /\ hold' = [hold EXCEPT ![t] = Append(@, "W")]
    /\ pc' = [pc EXCEPT ![t] = "run"]
    /\ UNCHANGED <<readers, writers, wrOwner, tmp>>

WaitWrite(t) ==
    /\ pc[t] = "w_acq"
    /\ CanTake(t)
    /\ readers > 0
    /\ owner' = NoThread
    /\ pc' = [pc EXCEPT ![t] = "w_wait"]
    /\ UNCHANGED <<readers, writers, wrOwner, hold, tmp>>

StoreReleasedSilently(t) ==   \* mutant: no notify_all()
    /\ pc[t] = "d_store"
    /\ writers' = tmp[t] - 1
    /\ hold' = [hold EXCEPT ![t] = Pop(@)]
    /\ owner' = OwnerAfterRelease(t, Pop(hold[t]))
    /\ pc' = [pc EXCEPT ![t] = "d_tail"]
    /\ UNCHANGED <<readers, wrOwner, tmp>>

(***************************************************************************)
(* release_write: self._writers -= 1 while holding only _read_ready's      *)
(* lock, then notify_all() and release one level of it.                    *)
(***************************************************************************)
LoadToRelease(t) ==
    /\ pc[t] = "run"
    /\ hold[t] # << >>
    /\ Top(t) = "W"
    /\ MayUpdateWriters
    /\ tmp' = [tmp EXCEPT ![t] = writers]
    /\ pc' = [pc EXCEPT ![t] = "d_store"]
    /\ UNCHANGED <<readers, writers, owner, wrOwner, hold>>

StoreReleasedUncounted(t) ==   \* mutant: self._writers is not decremented
    /\ pc[t] = "d_store"
    /\ hold' = [hold EXCEPT ![t] = Pop(@)]
    /\ owner' = OwnerAfterRelease(t, Pop(hold[t]))
    /\ pc' = [Notified(pc) EXCEPT ![t] = "d_tail"]
    /\ UNCHANGED <<readers, writers, wrOwner, tmp>>

StoreReleased(t) ==
    /\ pc[t] = "d_store"
    /\ writers' = tmp[t] - 1
    /\ hold' = [hold EXCEPT ![t] = Pop(@)]
    /\ owner' = OwnerAfterRelease(t, Pop(hold[t]))
    /\ pc' = [Notified(pc) EXCEPT ![t] = "d_tail"]
    /\ UNCHANGED <<readers, wrOwner, tmp>>

(***************************************************************************)
(* The end of release_write: nobody ever waits on _write_ready, so its     *)
(* notify_all() only costs the wait for its lock.                          *)
(***************************************************************************)
NotifyNobody(t) ==
    /\ pc[t] = "d_tail"
    /\ wrOwner = NoThread
    /\ pc' = [pc EXCEPT ![t] = "run"]
    /\ UNCHANGED <<readers, writers, owner, wrOwner, hold, tmp>>

-----------------------------------------------------------------------------

(***************************************************************************)
(* What a thread does once it has called the lock, and the end of its      *)
(* critical sections; the Begin steps are the callers'.                    *)
(***************************************************************************)
Step(t) ==
    \/ EnterRead(t)
    \/ WaitRead(t)
    \/ ReleaseRead(t)
    \/ LoadToCount(t)
    \/ StoreCounted(t)
    \/ EnterWrite(t)
    \/ WaitWrite(t)
    \/ LoadToRelease(t)
    \/ StoreReleased(t)
    \/ NotifyNobody(t)

Next == \E t \in Threads : BeginRead(t) \/ BeginWrite(t) \/ Step(t)

Spec == Init /\ [][Next]_vars

(***************************************************************************)
(* Fairness: a thread inside the lock's code is scheduled, every critical  *)
(* section ends, the outermost one too (the callers release in a finally   *)
(* and call back finitely often), and a thread that blocks on a mutex      *)
(* which becomes free again and again gets it.  That is strong fairness,   *)
(* and is what the operating system's mutexes provide in practice.         *)
(* Callers are under no obligation to call.                                *)
(***************************************************************************)
EndOutermost(t) == Len(hold[t]) = 1 /\ (ReleaseRead(t) \/ LoadToRelease(t))

Fairness == \A t \in Threads : SF_vars(Step(t)) /\ SF_vars(EndOutermost(t))

FairSpec == Spec /\ Fairness

-----------------------------------------------------------------------------

(***************************************************************************)
(* The outstanding read and write acquisitions, one pair per level of      *)
(* nesting.  A writer counts from its increment on, before it is let in.   *)
(***************************************************************************)
Acquisitions(stacks, m) ==
    UNION {{t} \X {i \in DOMAIN stacks[t] : stacks[t][i] = m} : t \in Threads}

ReadHolds == Acquisitions(hold, "R")

Claim(t) == IF pc[t] \in {"w_acq", "w_wait"} THEN Append(hold[t], "W") ELSE hold[t]

WriteClaims == Acquisitions([t \in Threads |-> Claim(t)], "W")

(***************************************************************************)
(* While one thread writes no other thread is inside in any mode, whatever *)
(* the interleaving of the calls and of the counter updates.               *)
(***************************************************************************)
Exclusion == INSTANCE ReadWriteExclusion

MutualExclusion == Exclusion!MutualExclusion

(***************************************************************************)
(* The lock implements the two-line promise of its docstring, nested       *)
(* acquisitions included.                                                  *)
(***************************************************************************)
ImplementsExclusion == Exclusion!Spec

(***************************************************************************)
(* A thread parked in _read_ready.wait() is always owed a notify_all() by  *)
(* ANOTHER thread: a reader by a thread counted as a writer, a writer by a *)
(* thread that reads.  No notification is lost between test and wait, and  *)
(* no thread waits for itself.                                             *)
(***************************************************************************)
NoLostWakeup ==
    \A t \in Threads :
        /\ pc[t] = "r_wait" => \E w \in WriteClaims : w[1] # t
        /\ pc[t] = "w_wait" => \E r \in ReadHolds : r[1] # t

(***************************************************************************)
(* self._writers counts the writers that are inside or on their way in: it *)
(* neither strands readers after the last writer left nor lets a reader    *)
(* past one that waits.  release_write decrements it without _write_ready. *)
(***************************************************************************)
NoPhantomWriter ==
    (\A t \in Threads : pc[t] # "d_store" /\ pc[t] # "w_store")
        => writers = Cardinality(WriteClaims)

(***************************************************************************)
(* Once a writer is counted, no reader that arrives later gets in before   *)
(* it: the number of readers can only fall until that writer is inside.    *)
(***************************************************************************)
NoReaderOvertakesWriter ==
    [][(\E t \in Threads : pc[t] \in {"w_acq", "w_wait"}) => readers' <= readers]_vars

(***************************************************************************)
(* Every writer that has been counted gets in, however many readers and    *)
(* writers keep arriving.                                                  *)
(***************************************************************************)
WritersGetIn ==
    \A t \in Threads : pc[t] \in {"w_acq", "w_wait"} ~> Holds(t, "W") /\ pc[t] = "run"

(***************************************************************************)
(* When the writers stop coming, no reader stays outside.  (While they     *)
(* keep coming a reader may starve: the lock prefers writers.)             *)
(***************************************************************************)
WriterQuiet ==
    \A u \in Threads : pc[u] \in {"run", "r_acq", "r_wait"} /\ ~Holds(u, "W")

ReadersGetIn ==
    <>[]WriterQuiet => \A t \in Threads : pc[t] \in {"r_acq", "r_wait"} ~> pc[t] = "run"
=============================================================================
