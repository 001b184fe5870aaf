---------------------------- MODULE Checkpoints -----------------------------
(***************************************************************************)
(* Copies of a whole map: snapshot() and rollback(), SnapshotContext, and  *)
(* the files of save_json() and save_pickle(), while threads write.  A     *)
(* store (with its times to live) is an object on a heap, of which only    *)
(* the versions that were written into it matter here: what is copied and  *)
(* what is only referred to decides everything.  A put_many() changes one  *)
(* key after the other inside the write lock; all other calls take place   *)
(* at a moment when nobody is inside.  (RWLock has the lock itself.)       *)
(***************************************************************************)
EXTENDS Naturals, SequencesExt, Dict

CONSTANTS
    Threads,
    Texts,        \* str(key) of each key
    Batches,      \* the items of put() and put_many(): sets of [key, val], no value twice
    Opaque,       \* the versions whose values can be copied but not serialized
    Formats,      \* "json", "pickle", or the name of a compression
    MaxSnapshots, \* bound: as many snapshots exist at a time
    Depth,        \* bound: contexts in contexts
    None

ASSUME CheckpointsAssumption ==
    /\ MaxSnapshots \in Nat /\ Depth \in Nat
    /\ \A b, c \in Batches : b = c \/ b \cap c = {}
    /\ \A v, w \in UNION Batches : v.val = w.val => v = w
    /\ \A b \in Batches : \A v \in b : v.key \in DOMAIN Texts
    /\ \A k \in DOMAIN Texts : Texts[k] \in DOMAIN Texts /\ Texts[Texts[k]] = Texts[k]
    /\ None \notin [by : Threads, batch : Batches, todo : SUBSET UNION Batches]

VARIABLES
    heap,         \* what the stores in use hold
    live,         \* self._store
    kept,         \* the snapshots that the program took with snapshot()
    contexts,     \* the contexts each thread is in, as records [snap, wrote]
    writing,      \* the put_many() inside the write lock, or None
    saving,       \* the save in progress, or None
    file,         \* what is at the path where the program saves
    up,           \* the process runs
    refused,      \* the load that it began with raised
    used,         \* bound: each batch is put once
    recent,       \* history variable: the batches that this process has put
    broken,       \* history variable: those of them that raised halfway
    taken,        \* history variable: what each snapshot was taken of
    undone,       \* history variable: the versions written in contexts that raised
    overlapped    \* history variable: two threads have been in contexts at a time

history == <<recent, broken, undone, overlapped>>

vars == <<heap, live, kept, contexts, writing, saving, file, up, refused, used, taken, history>>

NoContexts == [t \in Threads |-> << >>]

Init ==
    /\ live = 1 /\ heap = Single(1, {}) /\ kept = {} /\ taken = EmptyDict
    /\ contexts = NoContexts /\ writing = None /\ saving = None
    /\ recent = {} /\ broken = {} /\ undone = {} /\ overlapped = FALSE
    /\ file = [state |-> "absent", format |-> None, image |-> {}]
    /\ up = TRUE /\ refused = FALSE /\ used = {}

-----------------------------------------------------------------------------

Map == heap[live]

Snapshots ==
    kept \cup UNION {{contexts[t][i].snap : i \in DOMAIN contexts[t]} : t \in Threads}

(***************************************************************************)
(* A store that is not in use: a rollback copies before it lets go of the  *)
(* store that the map had.                                                 *)
(***************************************************************************)
Stores == 1 .. MaxSnapshots + 2

Fresh == CHOOSE r \in Stores : r \notin DOMAIN heap

Idle(t) == up /\ writing = None /\ (saving # None => saving.by # t)

-----------------------------------------------------------------------------

(***************************************************************************)
(* put() and put_many(): the versions come one after the other, unless one *)
(* of the keys is refused, which ends the loop.                            *)
(***************************************************************************)
Write(t, b, todo) ==
    \E v \in todo :
        /\ heap' = [heap EXCEPT ![live] = @ \cup {v}]
        /\ writing' = IF todo = {v} THEN None ELSE [by |-> t, batch |-> b, todo |-> todo \ {v}]
        /\ contexts' = IF contexts[t] = << >> THEN contexts
                       ELSE [contexts EXCEPT ![t][Len(contexts[t])].wrote = @ \cup {v}]

Put(t, b) ==
    /\ Idle(t) /\ b \notin used
    /\ Write(t, b, b)
    /\ used' = used \cup {b} /\ recent' = recent \cup {b}
    /\ UNCHANGED <<live, kept, saving, file, up, refused, taken, broken, undone, overlapped>>

PutNext(t) ==
    /\ writing # None /\ writing.by = t
    /\ Write(t, writing.batch, writing.todo)
    /\ UNCHANGED <<live, kept, saving, file, up, refused, used, taken, history>>

PutRaises(t) ==
    /\ writing # None /\ writing.by = t
    /\ writing' = None
    /\ broken' = broken \cup {writing.batch}
    /\ UNCHANGED <<heap, live, kept, contexts, saving, file, up, refused, used, taken,
                   recent, undone, overlapped>>

-----------------------------------------------------------------------------

(***************************************************************************)
(* snapshot() and rollback() make copies, stores of their own.             *)
(***************************************************************************)
SharedSnapshot == live   \* mutant: the snapshot refers to the map's store

SnapshotStore == Fresh

RolledBackToShared(s) == s   \* mutant: the map goes on with the snapshot's store

RolledBackTo(s) == Fresh

Snapshot ==
    /\ Cardinality(Snapshots) < MaxSnapshots
    /\ heap' = Updated(heap, Single(SnapshotStore, Map))
    /\ taken' = Updated(taken, Single(SnapshotStore, Map))
    /\ UNCHANGED live

(***************************************************************************)
(* What nobody refers to any more is collected.                            *)
(***************************************************************************)
Collected(h) ==
    /\ heap' = Restrict(h, {live'} \cup Snapshots')
    /\ taken' = Restrict(taken, Snapshots')

Rollback(s) ==
    /\ live' = RolledBackTo(s)
    /\ Collected(Updated(heap, Single(RolledBackTo(s), heap[s])))

TakeSnapshot(t) ==
    /\ Idle(t)
    /\ Snapshot
    /\ kept' = kept \cup {SnapshotStore}
    /\ UNCHANGED <<contexts, writing, saving, file, up, refused, used, history>>

RollbackTo(t, s) ==
    /\ Idle(t)
    /\ kept' = kept
    /\ contexts' = contexts
    /\ Rollback(s)
    /\ undone' = {}
    /\ UNCHANGED <<writing, saving, file, up, refused, used, recent, broken, overlapped>>

DropSnapshot(t, s) ==
    /\ Idle(t)
    /\ kept' = kept \ {s}
    /\ live' = live
    /\ contexts' = contexts
    /\ Collected(heap)
    /\ UNCHANGED <<writing, saving, file, up, refused, used, history>>

(***************************************************************************)
(* SnapshotContext: __enter__, and __exit__ with and without an exception. *)
(***************************************************************************)
Enter(t) ==
    /\ Idle(t) /\ Len(contexts[t]) < Depth
    /\ Snapshot
    /\ contexts' = [contexts EXCEPT ![t] = Append(@, [snap |-> SnapshotStore, wrote |-> {}])]
    /\ overlapped' = (overlapped \/ \E u \in Threads \ {t} : contexts[u] # << >>)
    /\ UNCHANGED <<kept, writing, saving, file, up, refused, used, recent, broken, undone>>

Exit(t) ==
    /\ Idle(t) /\ contexts[t] # << >>
    /\ contexts' =
         LET outer == Front(contexts[t])
         IN  [contexts EXCEPT ![t] =
                IF outer = << >> THEN outer
                ELSE [outer EXCEPT ![Len(outer)].wrote = @ \cup Last(contexts[t]).wrote]]
    /\ kept' = kept
    /\ live' = live
    /\ Collected(heap)
    /\ UNCHANGED <<writing, saving, file, up, refused, used, history>>

ExitRaising(t) ==
    /\ Idle(t) /\ contexts[t] # << >>
    /\ contexts' = [contexts EXCEPT ![t] = Front(@)]
    /\ kept' = kept
    /\ Rollback(Last(contexts[t]).snap)
    /\ undone' = undone \cup Last(contexts[t]).wrote
    /\ UNCHANGED <<writing, saving, file, up, refused, used, recent, broken, overlapped>>

-----------------------------------------------------------------------------

Packed(format) == format \notin {"json", "pickle"}

(***************************************************************************)
(* to_dict() copies the map, and serializes it too if it is to be          *)
(* compressed; a value that cannot be ends the save here.  One thread      *)
(* saves at a time.                                                        *)
(***************************************************************************)
SavePackingLate(t, format) ==   \* mutant: serialized when it is written
    /\ Idle(t) /\ saving = None
    /\ saving' = [by |-> t, format |-> format, image |-> Map, opened |-> FALSE]
    /\ UNCHANGED <<heap, live, kept, contexts, writing, file, up, refused, used, taken, history>>

Save(t, format) ==
    /\ Idle(t) /\ saving = None
    /\ Packed(format) => Map \cap Opaque = {}
    /\ saving' = [by |-> t, format |-> format, image |-> Map, opened |-> FALSE]
    /\ UNCHANGED <<heap, live, kept, contexts, writing, file, up, refused, used, taken, history>>

(***************************************************************************)
(* open() empties the file; json.dump() and pickle.dump() serialize while  *)
(* they write, and may raise.                                              *)
(***************************************************************************)
Open ==
    /\ saving # None /\ ~saving.opened
    /\ file' = [state |-> "open", format |-> saving.format, image |-> {}]
    /\ saving' = [saving EXCEPT !.opened = TRUE]
    /\ UNCHANGED <<heap, live, kept, contexts, writing, up, refused, used, taken, history>>

MapAsItIs == Map   \* mutant: the dict refers to the map's store

Image == saving.image

WriteOut ==
    /\ saving # None /\ saving.opened
    /\ file' = IF Image \cap Opaque = {} THEN [file EXCEPT !.state = "whole", !.image = Image]
               ELSE [file EXCEPT !.state = "failed"]
    /\ saving' = None
    /\ UNCHANGED <<heap, live, kept, contexts, writing, up, refused, used, taken, history>>

(***************************************************************************)
(* JSON has only strings for keys: of the keys with the same text the last *)
(* in the dict stays.                                                      *)
(***************************************************************************)
Coerced(image) ==
    LET keys == {v.key : v \in image}
        Survivors == {K \in SUBSET keys : /\ {Texts[k] : k \in K} = {Texts[k] : k \in keys}
                                          /\ \A j, k \in K : Texts[j] = Texts[k] => j = k}
    IN  {{[key |-> Texts[v.key], val |-> v.val] : v \in {w \in image : w.key \in K}} :
            K \in Survivors}

Loadable == IF file.format = "json" THEN Coerced(file.image) ELSE {file.image}

(***************************************************************************)
(* The memory of a process that holds a map and nothing else.              *)
(***************************************************************************)
Memory(content) ==
    /\ live' = 1 /\ heap' = Single(1, content) /\ kept' = {} /\ taken' = EmptyDict
    /\ contexts' = NoContexts /\ writing' = None /\ saving' = None
    /\ recent' = {} /\ broken' = {} /\ undone' = {} /\ overlapped' = FALSE

(***************************************************************************)
(* The process dies; the next one loads the file or begins anew.  A file   *)
(* that is not whole is refused.  So may a whole one that gzip compressed: *)
(* its marker is an opcode of pickle, which reads the line after it as a   *)
(* number and raises what load_pickle() does not catch.                    *)
(***************************************************************************)
Crash ==
    /\ up
    /\ up' = FALSE /\ refused' = FALSE
    /\ file' = IF file.state = "open" THEN [file EXCEPT !.state = "cut"] ELSE file
    /\ Memory({})
    /\ UNCHANGED used

Restart ==
    /\ ~up /\ up' = TRUE
    /\ \/ refused' = FALSE /\ Memory({})
       \/ /\ file.state = "whole"
          /\ refused' = FALSE
          /\ \E content \in Loadable : Memory(content)
       \/ /\ \/ file.state \in {"failed", "cut"}
             \/ file.state = "whole" /\ file.format = "gzip"
          /\ refused' = TRUE
          /\ Memory({})
    /\ UNCHANGED <<file, used>>

Step(t) ==
    \/ \E b \in Batches : Put(t, b)
    \/ PutNext(t) \/ PutRaises(t)
    \/ TakeSnapshot(t)
    \/ \E s \in kept : RollbackTo(t, s) \/ DropSnapshot(t, s)
    \/ Enter(t) \/ Exit(t) \/ ExitRaising(t)
    \/ \E format \in Formats : Save(t, format)

Next == Open \/ WriteOut \/ Crash \/ Restart \/ \E t \in Threads : Step(t)

Spec == Init /\ [][Next]_vars

-----------------------------------------------------------------------------

(***************************************************************************)
(* Nobody refers to the store that the map is writing to but the map, and  *)
(* no store is in use that nobody refers to.                               *)
(***************************************************************************)
TypeOK ==
    /\ live \notin Snapshots
    /\ DOMAIN heap = {live} \cup Snapshots
    /\ \A r \in DOMAIN heap : \A v \in heap[r] : v.key \in DOMAIN Texts

(***************************************************************************)
(* "Deep-copy snapshot of the current state": a snapshot, of the program's *)
(* or of a context, stays what it was taken of, whatever is written or     *)
(* rolled back, to it or to another, and how often.                        *)
(***************************************************************************)
SnapshotsAreFrozen == \A s \in Snapshots : heap[s] = taken[s]

(***************************************************************************)
(* README.md: "automatic rollback if the block raises".  What a block that *)
(* raised has written is gone, whatever contexts follow or enclose it.     *)
(* Once two threads have been in contexts at a time that is so no longer:  *)
(* the one's snapshot has what the other wrote before it raised, and       *)
(* rolling back to it brings that back.                                    *)
(***************************************************************************)
UndoneStaysUndone == overlapped \/ Map \cap undone = {}

(***************************************************************************)
(* No copy has half of a put_many() that ran to its end: neither snapshots *)
(* nor what is saved, although the file is written after the lock is left. *)
(***************************************************************************)
Copies == {heap[s] : s \in Snapshots} \cup {file.image}

NoHalfBatches ==
    \A b \in recent \ broken : \A copy \in Copies : b \subseteq copy \/ b \cap copy = {}

(***************************************************************************)
(* A value that cannot be serialized costs the previous save only if the   *)
(* file is JSON or plain pickle: a compressed save raises before it opens  *)
(* the file.                                                               *)
(***************************************************************************)
OnlyStreamsFailHalfway == file.state = "failed" => ~Packed(file.format)

(***************************************************************************)
(* core.py:1138: "compressed; let from_dict figure out the method".  What  *)
(* was saved can be loaded.                                                *)
(***************************************************************************)
SavesCanBeLoaded == refused => file.state # "whole"
=============================================================================
