# A verification of chronomap in TLA+

chronomap is a time-versioned key-value store in Python: every write is kept with its
timestamp, so that a program can ask "what is it now" and "what was this key at time T".
The store is one object in memory, shared by threads, with times to live, a read cache,
bounded histories, change callbacks, snapshots and merges.

This directory holds TLA+ modules translated from `src/src/chronomap/`, TLC configurations
that check them on small instances, and theorems that TLAPS proves for every value of the
constants. Line numbers below are those of `src/src/chronomap/core.py` unless another file
is named. `PROJECT.json` maps every definition to its lines.

## 1. The system

### Components, their state, and what makes them correct

| Component | Source | State | Operations | Correct when |
|---|---|---|---|---|
| Readers-writer lock | `_lock.py` | `_readers`, `_writers`, two conditions (`_read_ready`, `_write_ready`), each with an RLock | acquire/release, read/write | a writer is alone; nobody waits without being owed a wakeup; a counted writer is not overtaken; everyone gets in |
| History of a key | `core.py` 176-186, 235-241, 300-321, 495-546, 753-793 | `_store[key]`: a list of (timestamp, value) | insert, bisect, prune, merge | sorted, later arrivals last among ties; the lookup finds the write in force; at most `max_history` versions once it has been pruned |
| Read cache | `_cache.py` | an OrderedDict from (key, moment) to value, hit and miss counters | get, put, invalidate, clear | bounded; evicts the least recently used; forgets every moment of a key |
| ChronoMap | `core.py` | `_store`, `_ttl`, `_cache` | put, put_many, get, get_or_set, delete, prune, merge, rollback, clear, clean_expired_keys, ... | histories stay well formed after any sequence of calls, failing ones included; the cache cannot be noticed, nor expired keys still stored, but for what calls that remove say |
| ChronoMap under threads | `core.py` 157-174, 330-386, 550-611, 700-712, 839-852 | the same, the lock, and what each thread remembers | as above, step by step | an answer was true at some time during the call |
| Statistics | `core.py` 854-890 | `_stats`, a dict of counters | bumped by most calls, read and swapped | counts what was done |
| Memory monitor | `_memory.py` | an estimate of the size | check_memory | a call over the limit is refused whole |
| TTL cleanup | `_ttl_cleanup.py`, 122-126 | a daemon thread, a stop event, a weak reference | start, stop, sweep | sweeps run while the program wants them; the thread does not keep the map alive and ends with it |
| Snapshots | `_snapshot.py`, 676-712 | deep copies of the map | snapshot, rollback, SnapshotContext | a snapshot stays what it was; a rollback undoes what the block did |
| Callbacks and subscribers | 188-210, 243-284 | two lists of callables | on_change, subscribe, told under the write lock | every write is told once, with the value it replaced |
| AsyncChronoMap | `asynchronous.py` | the same store under an asyncio.Lock, no cache | put, put_many, get, get_or_set, delete, keys, latest | calls of several tasks take effect one after the other; none waits for ever |
| Persistence | 1012-1140 | files | to_dict, JSON, pickle | what is saved is one moment of the map, and can be loaded |
| Queries, aggregates, export | 451-494, 613-673, 795-826, 892-978 | none | functions of the histories | one consistent state is read, and expired keys are not in it |
| Command line, exceptions, release scripts | `cli.py`, `exceptions.py`, `src/scripts` | none | | |

### How they interact

All calls take the RWLock: writers from before they purge an expired key until after they
have told the callbacks, readers around the lookup. `get()` is the exception: it takes the
time (339), asks `_is_expired` and the cache (340-356) **without** the lock and takes the read
lock only on a miss (358). `reset_stats()` clears the cache, and counters change, without it
as well. User code runs inside the lock: callbacks (326, 425, 587), factories (412),
predicates (467). `diff()` and `diff_detailed()` call `get()` inside the read lock (726). The
cache has a mutex of its own. The cleanup thread calls `clean_expired_keys()` through a weak
reference; the map's `__del__`, on whatever thread drops it last, stops that thread. The tasks of an
`AsyncChronoMap` are suspended where they wait for its lock, where a factory is awaited inside it
(200), and where a write awaits callbacks after it (132, 209). `merge`,
`rollback` and `diff` read another map without that map's lock (706, 721, 768).

### What is hard here

* The lock updates one counter under two different mutexes (`_lock.py` 52, 60).
* `get()` looks at `_ttl` and at the cache at different moments, takes the time before it waits for
  the lock and caches an answer that may be out of date by then.
* Calls raise after they have done part of their work (314-316, 322, 525, 578-581, 412).
* `[-n:]` of a list for n = 0 and for negative n (182, 522).
* Expired keys stay in the store until something purges them; each call has to act as if they
  were not there.
* A dict or list is walked while others change it: iterators of CPython go by position, and a dict
  renumbers its entries when a new key makes it resize.
* User code inside the lock calls back into the map.
* The sweeper holds the only reference to the map for a moment; a `stop()` may give up waiting.
* A task may be cancelled wherever it is suspended, inside the asyncio lock too.
* Rollbacks replace the whole store, whoever has written to it; files are written in place.

`PROJECT.json` lists each of these hazards at its line with the properties that cover it, or the
reason why none does yet.

## 2. The modules

| Module | What it is |
|---|---|
| `ReadWriteExclusion` | abstract: several readers or one writer, nested acquisitions included |
| `RWLock` | `_lock.py`, one action per step between two points where a thread may be interrupted |
| `VersionHistory` | operators on one history: `InsertVersion`, `IndexAsOf`, `Absorb`, `KeepLast`, `AutoPrune`, `DropOlder` |
| `VersionedRegister` | abstract: a *set* of writes; the one in force at t has the latest timestamp not after t, the last to arrive among ties |
| `KeyHistory` | the life of one history under all operations, the loop of `merge()` included |
| `BoundedCache` | abstract: a set of answers, of which any may be evicted; all that the map relies on |
| `LRUCache` | `_cache.py` |
| `Dict` | Python's dict as a function with a finite domain |
| `TimeMap` | abstract: the map as its caller sees it, with no cache, in which an expired key is gone at once |
| `ChronoMap` | `core.py`, a call per action |
| `ChronoMapThreads` | `get()` against the writers, a step per access to shared state; composes the lock (`ReadWriteExclusion`), `BoundedCache` and `VersionHistory` |
| `AsyncChronoMap` | `asynchronous.py`, a step from one suspension of a task to the next; implements `TimeMap` |
| `TTLCleanup` | `_ttl_cleanup.py` with the program that starts, stops and drops |
| `TwoMaps` | `diff()`, `merge()` and `rollback()` on two maps that others write to, each with its lock |
| `Checkpoints` | snapshots, rollbacks, contexts and files, as copies and references on a heap |
| `MC...` | constants for TLC |
| `...Proofs` | theorems |

`RWLock` implements `ReadWriteExclusion`, `LRUCache` implements `BoundedCache`, and the modules
above them use the abstract ones; that is what makes the larger models small enough to check.
`KeyHistory` implements `VersionedRegister`; `ChronoMap` and `AsyncChronoMap`, which share no code,
implement the same `TimeMap`.

### RWLock

`readers` and `writers` are the counters. `owner` is the thread that holds the RLock of
`_read_ready` *between* steps: a writer does from the end of `acquire_write` to the end of
`release_write`. `pc[t]` says where t is inside a method, `hold[t]` is the stack of the modes t
holds. Testing the counters and updating `_readers` happens with the RLock held, so that it is one
step with taking it; the two updates of `_writers` are a load and a store each, and `GilAtomic`
says whether the interpreter may switch in between (CPython 3.10 and later does not, 3.8 and 3.9,
which the package admits, do). `wait()` gives up *every* level of the RLock. `Nestings` says what
stacks the callers build: flat calls, a callback that writes (`<<"W","W">>`), `diff()`
(`<<"R","R">>`), a callback that reads (`<<"W","R">>`).

### KeyHistory

A version's value is the number of its arrival, so that "the last to arrive" can be stated.
`merge()` is a loop: `MergeBegin`, one `MergeVersion` for each version of the other map, `MergeEnd`
with the one `_auto_prune` that the code does after the loop. `AutoPrune` and `KeepLast` keep the
meaning of Python's slices: `[-0:]` is the whole list. `PutRejected` is a `put()` or `put_many()` with a ttl that is
not positive: it raises (314-316, 578-580) after the insertion and before `_auto_prune` (319). An overwriting merge and
a `rollback()` copy a history of any length and prune nothing (784, 706). `unpruned` is a history variable: how many
versions of the list have come in without an `_auto_prune` having seen them. It lets the cap be stated of what the
code does prune (`CapOnWhatWasPruned`).

The names that all specifications have (`Init`, `Next`, `Spec`, `vars`) are prefixed here, `HistorySpec` and so on,
and in `LRUCache`, because a proof module extends each of them together with another specification.

### LRUCache

The OrderedDict is the sequence `cache`, the least recently used entry first. `Sift` is what is left of it when
entries are deleted; a hit moves the entry to the end. `since` is a history variable for the one thing that the order
of the list is to mirror: for each key and moment, those looked up or stored since it last was. `EvictsLeastRecentlyUsed`
is stated with it, not with positions in the list.

### ChronoMap and TimeMap

State: `store`, `ttl`, `cache`, the clock `now`, and two variables for what a caller
observes, `answer` (what a call returns: values, and of calls that remove something the truth value or the
number) and `told` (the events callbacks received).
Every action is a whole call: a `Put` purges the expired key, inserts, prunes, sets the time to
live, invalidates, and tells. The calls that raise halfway are disjuncts or actions of their own
(`RejectedTtl`, `PruneFails`, `FactoryRaises`, the memory limit in `Put` and `GetOrSet`), and leave
what the code leaves. A call that raises before it changes anything is no step. The readers that bypass the cache
(`Latest`, `ListKeys`, `IsIn`, `Query`, `KeysByValue`, `History`, `GetRange`) change nothing but
`answer`, which `TimeMap` determines from the histories of living keys. Other maps, for `merge()` and `rollback()`, are constants: records of a store and times to
live, sorted as `WellFormed` says of any map. The refinement mapping drops the cache and the keys
that have expired: `held <- Restrict(store, Live)`.

One thing of an expired key can be noticed while it is stored. `delete()` returns `True` for it and `del m[k]` raises
nothing, `delete_many()`, `prune_history()` and `clean_expired_keys()` count it (section 5). `TimeMap` says so: its
variable `lingering` holds the keys that are over and still count as something to remove, and only the answers of
`Delete`, `Prune` and `Clean` may depend on it. A key comes to it when the clock ends its lifetime, or when a merge or rollback brings it with its lifetime
over; any call may take keys out of it, because nobody is told when an expired key is purged. The mapping is `lingering <- DOMAIN store \ Live`.

`Lead` says how far ahead of the clock timestamps may be (here and in `AsyncChronoMap`), `MergeExpired` whether `merge()` may meet
keys that have expired. Both exist because the program behaves badly beyond them (section 5).

### ChronoMapThreads

The steps of a thread are what other threads can see: one read of `_ttl`, of the cache, or one
change. The lock is used through `AdmitReader`, `AdmitWriter` and `Leave` of
`ReadWriteExclusion`, which `RWLock` is proved to implement. `settled`, `seen` and `returned` are
history variables: `seen[t]` collects every answer that was true while t's `get()` ran, where during
a write both the state before and the state after count, and for a question about "now" every moment
since the call counts. `AnswersWereTrue` says that `get()` returns a member of it: the closest one
comes to linearizability without deciding where the linearization point lies. It does not hold (section
5); `PastAnswersWereTrue` is what does: it is about questions that name a moment, and counts a key that
is halfway through a purge both as there and as gone.

### AsyncChronoMap

`holder` is the task suspended *inside* the lock (only one that awaits a factory is), `queue` the
waiters in the order they came: a task that finds the lock free and nobody waiting goes through
without being suspended, so that its whole call is one step. `pc` is where a task is suspended:
"waiting", "making" (a factory), "telling" (a callback, after the lock). `Fail` is an exception of
user code or a cancellation at any of them. `told` is what the first callback hears, in the step
of the write; later callbacks may hear of it in another order, of which nothing is said. Each write of a
`put_many()` is a step of its own, as in the code, where other tasks run in between.
`ImplementsTimeMap` maps each call to the step in which it takes effect and everything else to
stuttering; what `delete()` returns of an expired key is mapped as for `ChronoMap`. `Lead` bounds how far ahead of the clock
timestamps may be, which the code does not restrict (102): `NowIsNewest` is about maps without such timestamps
(`Lead = 0`), since with them the version of a later time may come into force when the clock gets
there; the refinement is proved for every `Lead`. A `put()` refused for its ttl keeps its version, as in `ChronoMap`; such steps
are exempt by name.

### TTLCleanup

`pc[l]` follows `_cleanup_loop` of thread l, `cm` are the threads whose local variable is bound to
the map. `LetGo` is where a thread drops its reference: if it was the last, the map is collected and
`__del__` runs there, on the sweeper, which sets the event and joins nobody. `Drop` is the same on the
program's side. `Join` returns at any moment, because of its timeout; `gaveUp` remembers that it did so
before the thread had ended. `SweepRaises` skips `del cm` as the code does.

### Checkpoints

A store is an object on a heap, a set of versions written into it (each is written once,
so that it can be told where it went). `snapshot()` and `rollback()` make new objects; `Collected`
drops what nobody refers to. A `put_many()` is a step per key inside the write lock, and may stop
between them. A save is three steps: `Save` (`to_dict()` under the read lock, with the compression),
`Open` and `WriteOut`, the last two without the lock. `Crash` and `Restart` stand for the end of
the process and a next one that loads the file, or begins anew. `undone` collects what blocks
that raised had written, `overlapped` that two threads have been in contexts at a time.

### TwoMaps

`store`, `ttl` and the locks (two instances of `ReadWriteExclusion`) come for `self` and `other`. One
thread, the caller, makes the calls that read both maps; `pc` and `local` are its place and its
variables. `diff()` holds self's read lock throughout and looks at other in separate steps, one for each
`_is_expired` and `get()`. `merge()` and `rollback()` are a walk: `entries` is the layout of other's dict,
with gaps where keys were, `local.position` and `local.i` are the iterators of CPython, which go by
position; `NextKey` and `WalkRaises` are what a dict iterator does at its next step. `AddKey` puts a new key at the end and, if it
likes, closes gaps before it: CPython does so when the table is full (for a small dict, at the sixth insertion), and
where exactly depends on sizes that the model leaves out, so that any insertion of a new key may close any
number of gaps. A key that this brings behind the iterator is skipped. A list that leaves
the dict while it is walked stays with the walker (`local.list`). The writers' `put()` is three steps
(`Purge`, `MakeList`, `Insert`), which is what a walker without the lock can see of it. The history variables
`verdicts` and `histories` are what was so at the moments of the call, and `unsteady` and `shifted` name the
keys for which the code does less than one would wish: those that expired in self or came back in other
during a `diff()`, and, of a walk, those that `prune_history()` shortened or that a dict that closed its gaps moved
behind the iterator (`Moved`).

## 3. What is checked

The longest runs take three minutes, most of them a few seconds.

| Run | Instance | Properties and what they say |
|---|---|---|
| `lock` | 3 threads, nestings up to `<<"W","W">>`, fair; 24,733 states | `TypeOK`; `MutualExclusion`; `NoLostWakeup` (a thread that waits is owed a `notify_all` by *another*); `NoPhantomWriter` (the counter is the number of writers inside or on their way); `NoReaderOvertakesWriter`; `ImplementsExclusion`; `WritersGetIn`; `ReadersGetIn` (once the writers pause) |
| `history` | 3 timestamps, cap 3, puts with a rejected ttl, merges of 2 and 3 versions with ties, overwriting ones longer than the cap, keep_last -1, 0 and 2, 7 arrivals; 70,965 states | `InOrder`; `LookupIsInForce`; `CapOnWhatWasPruned` (at most the cap and what no pruning has seen yet); `ImplementsRegister` (pruning at every write keeps what pruning once would) |
| `cache` | 2 keys, 2 moments, 2 values, capacity 3; 8,451 states | `EvictsLeastRecentlyUsed`; `ImplementsBoundedCache` |
| `map` | 2 keys, 2 values, 3 instants, cap 2, 2 cached answers, 8 other maps; about 12,300 states | `WellFormed`; `CacheTellsTheTruth`; `ImplementsTimeMap`, for calls of one key and of several |
| `map_failures` | 2 keys, 3 instants, a ttl of 0, a bad date, a memory limit of one version, timestamps one ahead, merges into expired keys; about 56,000 states | `NoGhosts` (no cached answer outlives its key), whatever raises halfway |
| `threads` | 2 threads, 1 key, 3 instants, lifetimes, `clear()`, images to roll back to; 945,900 states | `TypeOK`; `PastAnswersWereTrue`; `PastIsRemembered`; `NoGhosts`; `InOrder` |
| `async` | 2 tasks, 2 keys, cap 2, lifetimes 0 and 1, 2 instants, no timestamps given, fair; 242,824 states | `TypeOK` (the lock is held exactly while a factory is awaited); `NowIsNewest`; `ImplementsTimeMap`; `EveryCallReturns` |
| `cleanup` | 3 sweeper threads, fair; 7,038 states | `TypeOK` (one thread at most); `HoldsOnlyAfterFailure`; `StoppedMeansQuiet`; `DroppedMapIsCollected`; `SweepsAsAsked` |
| `checkpoints` | 2 threads, 3 batches, 2 snapshots, contexts 2 deep, JSON, pickle, zlib and gzip; 649,025 states | `TypeOK` (nobody shares the map's store); `SnapshotsAreFrozen`; `UndoneStaysUndone`; `NoHalfBatches`; `OnlyStreamsFailHalfway` |
| `two_maps` | 2 keys, 2 values, 2 instants, a lifetime of 1, 3 writes and merges, or 4 (see below), dicts that close gaps; 732,071 states | `SteadyDiffIsTrue` (a difference told was there at some moment, a key passed over was equal at some moment); `MergeKeepsOrder`; `WalkMissesNothing` |
| `threads_now` | | refutes `AnswersWereTrue` for questions about "now" |
| `lock_read_in_read` | | refutes `WritersGetIn` when a reader reads again |

Every property of the passing runs has a mutant in `PROJECT.json`: a change of one definition as a plausible
bug would make it (a missing `notify_all`, `bisect_left` for `bisect_right`, an
invalidation that is forgotten, an expiry that is not purged) under which TLC finds the property
violated on the same instance. The mutants stand beside the definitions they change.

### Bounds, and why they are enough

* *Threads*: three in `lock` make a reader, a waiting writer and a third that overtakes, wakes or
  fails to wake; the proofs are for any number. In `threads` two are enough because calls repeat: an
  answer wrongly cached by one thread's `get()` is returned by a later one, of either, and the cache
  is the only thing that one `get()` leaves to another. Two tasks in `async` reach every order of the
  queue that matters: one inside, one waiting, and, after an error or a cancellation, a waiter that
  is let in while another queues again.
* *Writers arriving* (`WriterCap`): no writer arrives while the counter is beyond 4, more than
  three threads and their nested writes can bring it to.
* *Histories*: with three timestamps and a cap of 3 a version can be inserted before, between,
  after and at a tie with others, and be the one that is pruned. `MaxArrivals` = 7 fills the history
  and lets a merge of three overflow it. In the maps `Cap`, the keys and `MaxTime` bound histories;
  `Longest` bounds only those that a rejected call makes, since it skips `_auto_prune`. In `map` a
  state with more than two versions in all (`FewVersions`) is checked and has no successors: a key at
  its cap is written and pruned, alone, and two keys live side by side with one version each.
* *Values*: one value is enough in `async`: a version of now and one of before differ by their
  timestamps, and `NowIsNewest` speaks of positions in the history. What the lock has to prevent, a
  write in the middle of a `get_or_set()`, shows in the event told, not in the value. Tasks give no timestamps
  of their own there (`Stamps`): their insertions come out of order only as far as the queue lets
  them; timestamps given, past or ahead of the clock, are covered by the proof of the refinement.
* *Copies* (`MaxSnapshots`, `Depth`): two snapshots and a context inside another tell which of
  them a rollback restores. `CopiesOfOneKind` has TLC look at snapshots or at files, not at both
  together: neither reads what the other writes.
* *Threads of the sweeper* (`Loops`): the third is started after a stop of the second, so that a
  thread is both preceded and followed by one.
* *Two maps* (`InBounds`): three writes (`FewWrites`) are enough to change both maps between two looks of `diff()`, to make a
  gap in a dict of two keys, and to insert into a list that is walked. They are of one key, with two values and lifetimes, or of
  two keys, with one value and none: `diff()` and the walks treat one key after the other, and what another key adds is
  the layout of the dict. For a key to be moved behind the iterator the dict must have two keys, lose the one that was passed and get it
  back: the fourth write (`MaxWrites`), without a `diff()` beside it. Without `Moved` in `shifted` the run
  finds `WalkMissesNothing` violated. The bounds count merges too, since a merge makes
  histories longer; `diff()`, overwriting merges and rollbacks are not bounded, and one of them can always be
  called, so that TLC's search for deadlocks says that nobody waits for ever between the two locks (locks as
  `ReadWriteExclusion` promises them: for what `RWLock` makes of a read inside a read see `lock_read_in_read`).
* *Clock* (`MaxTime`): a lifetime of 1 begins, ends and is renewed or swept in three instants. In
  `async` it begins and ends.
* *View*: the runs of `ChronoMap` identify states that differ only in `answer` and `told`, on which no
  step depends. TLC still compares every step it generates with `TimeMap`, those that lead to a state
  it has seen included, so that every answer is checked. The number of states found varies a
  little from run to run, since the representative of a symmetric state may.
* *Lookups* (`MaxLookups`): only a bound for the counters of the cache; `clear()` resets them.
* *Symmetry*: of keys and values (the maps merged in are closed under both), of threads and values,
  and of threads alone in `checkpoints`. It is used in runs without liveness only, and no constant breaks it.

### Fairness

`Fairness` of `RWLock` is strong for each thread's steps
inside the lock and for the end of its outermost critical section. Strong, because a thread that
wants a mutex finds it taken again and again: that it gets it in the end is what an operating system's mutexes
give in practice, and no reader or writer of a lock built on them could be promised anything with
less. Critical sections end because the code releases in `finally` blocks and what runs inside is
finite. Nobody is obliged to call: `BeginRead` and `BeginWrite` are not fair. Readers are promised
nothing while writers keep coming, since the lock prefers writers; `ReadersGetIn` says so in its
hypothesis.

In `AsyncChronoMap` the fairness is weak, for each task's way through the lock, the end of its factory and
of its callbacks: the event loop runs every task that is ready, in turn, and the lock's queue keeps a
waiter's turn enabled. User code that never ends is not promised anything; a factory that calls the map it
runs under is of that kind. A task whose turn it is may fail instead of going on; nobody has to call.

In `TTLCleanup` every thread goes on by itself (weak fairness of `Loop`) and sweeps do not raise for
ever (strong fairness of `Sweep`). The program owes nothing, not even the end of a `stop()`.

`CHECK_DEADLOCK FALSE` stands in `lock_read_in_read`, where the deadlock is the subject and is
to be reported as the liveness that fails, and in `cleanup`, where the map has gone and its thread
has ended.

## 4. What is proved

TLAPS checks these for every value of the constants: any number of threads, keys, values and
timestamps, any cap, cache and bound.

| Theorem | Statement | Assumes |
|---|---|---|
| `LockAndHistoryProofs!TypeCorrect`, `WriterIsAlone`, `Refinement` | `TypeOK`, `MutualExclusion`, `ImplementsExclusion` | `NoReadInWrite` |
| `LockAndHistoryProofs!WritersAreCounted`, `WritersAreNotOvertaken` | `NoPhantomWriter`, `NoReaderOvertakesWriter` | `NoReadInWrite`, `GilAtomic` |
| `LockAndHistoryProofs!WaitersAreWoken` | `NoLostWakeup` | `OneMode`, `GilAtomic` |
| `VersionHistoryProofs!InsertOrdered`, `BisectRightFinds`, `AbsorbOrdered` | the operators on histories of any length | |
| `LockAndHistoryProofs!HistoryStaysInOrder`, `LookupIsRight` | `InOrder`, `LookupIsInForce` | |
| `LockAndHistoryProofs!CapHolds` | `CapOnWhatWasPruned` | |
| `LockAndHistoryProofs!HistoryIsARegister` | `ImplementsRegister` | `CapKeepsSome` |
| `ChronoMapProofs!HistoriesStayWellFormed`, `CacheHasNoGhosts` | `WellFormed`, `NoGhosts` | |
| `ChronoMapProofs!CacheStaysTruthful` | `CacheTellsTheTruth` | `WellUsed` |
| `ChronoMapProofs!MapKeepsItsPromise` | `ImplementsTimeMap` | `WellUsed`, `LifetimesEnd`, no `MergeExpired`, and of the behaviour that `MemoryLimit` is never exceeded |
| `ChronoMapThreadsProofs!ThreadsTypeCorrect`, `HistoriesInOrder`, `PastAnswersAreTrue`, `CacheFollowsHistories`, `NoGhostsAmongThreads` | `TypeOK`, `InOrder`, `PastAnswersWereTrue`, `PastIsRemembered`, `NoGhosts` | |
| `CheckpointsProofs!StoresAreDisjoint`, `SnapshotsStayFrozen`, `CopiesHaveWholeBatches`, `RaisingBlocksAreUndone`, `PackedSavesFailEarly` | `TypeOK`, `SnapshotsAreFrozen`, `NoHalfBatches`, `UndoneStaysUndone`, `OnlyStreamsFailHalfway` | |
| `AsyncChronoMapProofs!LockIsNeverLost` | `TypeOK` | |
| `AsyncChronoMapProofs!QuestionsAreNotOvertaken` | `NowIsNewest` | `Lead = 0` |
| `AsyncChronoMapProofs!CallsTakeEffectAtOnce` | `ImplementsTimeMap` | `CapLeavesOne`, `LifetimesEnd` |
| `CacheAndCleanupProofs!CacheEvictsLeastRecentlyUsed`, `CacheIsBounded` | `EvictsLeastRecentlyUsed`, `ImplementsBoundedCache` | |
| `CacheAndCleanupProofs!OneSweeper`, `WaitersHoldNothing`, `StopIsFinal` | `TypeOK`, `HoldsOnlyAfterFailure`, `StoppedMeansQuiet` | |
| `TwoMapsProofs!MergesKeepOrder`, `DiffsAreTrue`, `WalksAreComplete` | `MergeKeepsOrder`, `SteadyDiffIsTrue`, `WalkMissesNothing` | |

**The lock.** The inductive invariant `LockInv` relates what the code only implies: `readers` is
the number of read acquisitions in all stacks, the RLock is owned exactly by the thread that has
a write in its stack, and while there is one `readers` is 0. Exclusion rests on these and not on
the counter of writers, so it holds even when that counter tears (`GilAtomic` does not occur in the
assumptions). `CountInv` adds, for interpreters that do not tear, that `writers` is the number of
writers inside or counted on their way in; the loads and stores of two threads cannot then overlap.
Wakeups follow from both. `NoReadInWrite` excludes a callback that reads, under which the
lock does not exclude; `OneMode` excludes also a reader that goes on to write, which waits for
itself.

**Histories.** `Inv` of `KeyHistory` adds to the order of timestamps that, among equal timestamps,
arrivals increase, and that no arrival number is ahead of the counter: without it "last to arrive"
is not preserved by the next insertion. `bisect_right` is defined by what it finds, and the lemmas show that
such a position exists in every sorted history and is unique. `CapOnWhatWasPruned` is inductive by itself: a pruning
puts `unpruned` back to 0 and the length to the cap, every other way in counts what it brings, and nothing else
makes a history longer. It needs no assumption on the histories copied in.
The refinement of `VersionedRegister` counts: in a history in order exactly `Len(h) - i` writes supersede the
i-th (`Superseding`), so that the last n of the list are the n newest of the set (`NewestWrites`), and a prune
with a zero or negative argument keeps some number of the newest as well, or all, or none
(`KeepingIsRegistered`). `CapKeepsSome` excludes a `max_history` of 0 or less, with which the code retains other
versions than the newest so many (section 5).

**The map.** `WellFormed` is inductive by itself, one lemma per call. `CacheTellsTheTruth` is
inductive relative to it: a reader changes nothing, a call that changes a history drops the answers about it, one that keeps
the history keeps the answers right, and the clock makes no answer wrong *provided* no version lies
ahead of it (`Lead = 0`), since only then is the answer about "now" the same tomorrow. `WellUsed`
collects that, positive lifetimes and dates that parse.

`MapKeepsItsPromise` rests on both. `Held` and `Expiry` are what the refinement mapping shows of `store` and
`ttl`; `Becoming` says how a step of the map has to look for it to be TimeMap's `Become`, and there is one lemma per
call. A write to an expired key purges it and starts a history of its own, as a write to a key that is not there
does (`WrittenShows`); sweeping, and the removal of expired keys, changes nothing but `lingering` and the number
returned; the tick takes from `Held` just the keys whose
time is over (`TickIsPromised`); a prune leaves a suffix of every history (`PrunedIsTail`); `get()` answers from
the histories whether it finds the answer in the cache or not, by `CacheTellsTheTruth`. The hypotheses exclude what
section 5 lists: calls that raise halfway, `merge()` into a key that has expired, and writes that `check_memory()`
refuses after they are made. `LifetimesEnd` only says that lifetimes are within the bound that `TimeMap` puts on
its own.

**The map under threads.** `Inv` has four parts. `Shape` says what a thread's label tells of the lock and of
its local variables; `Data`, that the map and what it was settled as are both in order, the second because
a writer halfway is to be measured against it. `Settled` is the heart: a key differs from what was settled
only while *some* writer is busy with it (`BusyWith`), and a `put()` that has purged but not yet inserted has by
then dropped the key's answers. `CacheIsRight` is about the answers in the cache *and* the ones that
readers at "found" hold in hand: both agree with what was settled, about named moments. A writer cannot be inside
while a reader is at "found", so that putting a late answer into the cache is harmless; a lock that let the
two overlap would break just this step. `PastAnswersWereTrue` needs in addition that every answer a
`get()` may still pick up is in its `seen` already (`SeenIsEnough`), whichever thread put it there.

**Snapshots, contexts and files.** A copy has a store of its own because `Fresh` is one: there are two more
stores than snapshots at a time, and everything else is collected (`Layout`, by counting). From then on a write
reaches the map's store only. That no copy has half a batch is `Batched`, which also has to say of the
batch in progress that no copy has any of it; versions are told apart by their values, which is why no value may
be in two batches (the second assumption on `Batches`). `UndoneStaysUndone` rests on `Nested`: the snapshot of a
context has nothing of what was written in it or in a context it encloses. `Streams`, that what a packing save has
in hand can be serialized, is separate.

**AsyncChronoMap.** The lemmas about the queue say that entering, leaving and giving up keep the order of
the others. `Turns` is the invariant behind `NowIsNewest`: whoever waits to ask about the present took the
time after everybody whose write is in the map, is being made by the holder, or is before it in the queue;
it holds when a task comes because it takes the time in the step in which it queues, and a writer that takes it
later is behind. Timestamps given by callers are not after the clock when `Lead = 0`. The refinement goes action by action: a step of a task is one operation of `TimeMap` or none,
and the dict of what lives changes as that operation says. It needs `Spared`: no key has an empty history, and
the key whose factory is awaited is not in the map. `CapLeavesOne` excludes a
negative cap, with which it fails (section 5); `LifetimesEnd` is as above.

**The sweeper.** `TypeOK` is inductive by itself: `start()` makes a thread only when the one it knows
has ended, so there is never a second, and every step in which a reference goes, the program's in `Drop` or
the sweeper's in `LetGo`, collects the map if it was the last. The other two are inductive relative to it:
a thread comes to the wait either through `del cm` or through a sweep that raised; and a `stop()` that saw
its thread end saw the only one there was.

**The cache.** `CacheInv` says that every entry of the list was looked up or stored after all that come before it
(`Ranked`, in terms of the history variable `since`) and that no two have the same key and moment. Entries move
only to the end, and what is deleted leaves the others in their order (`SiftRanked`), so the first is always the
least recently used; that is what `put()` drops. The refinement of `BoundedCache` reads the list as a set:
distinct entries make its length the number of answers (`RankedCounts`), so that the capacity of the one is
that of the other. `Sift` is a recursive function because the provers cannot expand `SelectSeq`; `SiftFinds` shows what
it returns, by descent to a shortest prefix on which it would fail, as induction over data is out of reach.

**Two maps.** The invariant has a part for each of the three questions, and a common one. `LocksOK`
gives the stacks of both locks in closed form: the caller has self's whenever it is in a call, so that nobody changes
self under a `diff()` and nobody but the caller under a walk. `OrderOK` says that other can be searched always, and self
in every call but those that copy lists (overwriting merges and rollbacks), where it fails (section 5). For `diff()`, all
that self has was there when the call began (`DiffOK`), so what `get()` finds for the time it took is what
there is at every later moment until the key expires; `SteadyOK` then says at each place of the loop what the
looks so far have shown, except of keys in `unsteady`. For a walk, `Stays` names a version that was in other's history of
the key at all moments of the call. Such a version has been taken once its key's position is passed
(`KeysReached`), and, in the list being walked, has either been taken or is still ahead of the iterator
(`VersionsReached`): an insertion can only move it further on (`InsertMoves`); a
prune moves it back, which is why pruned keys are excepted (`shifted`). A dict that closes its gaps renumbers the keys
in their order (`AddKeyFacts`): one that comes to stand where the walk has been was there before, or is among those
moved, which are excepted as well. The iterator's position may then be past the end of the layout, and new keys come
to stand before it: such a key was in no place at some moment of the call. A key that is deleted under the walk has had no
version at some moment, so that nothing of it stays. The list that the walker alone still has (`local.list`) is of such a key.

What stays with TLC is liveness: `WritersGetIn`, `ReadersGetIn`, `SweepsAsAsked`, `DroppedMapIsCollected`
and `EveryCallReturns`, which are out of the provers' reach, and that `two_maps` has no deadlock. Every other
property of the passing runs is the conclusion of a theorem above.

## 5. Where the code and what is said of it part

Two of these are standing runs and findings in `PROJECT.json`. The others are seen by changing the
instance of a passing run as the last column says.

| Where | What happens | Shown by |
|---|---|---|
| 339, 380 | `get()` takes the time before it waits for the lock; a `put()` in between makes it cache an old value as the present one | run `threads_now` |
| 1137 | `load_pickle()` does not recognise most files that `save_pickle(compress="gzip")` wrote: their marker reads as a pickle opcode whose argument raises an exception that is not caught. zlib, bz2 and lzma are recognised | `checkpoints` with `Formats = {"gzip"}`: `SavesCanBeLoaded` |
| `_lock.py` 30, 726 | a reader that reads again and a writer that arrives in between wait for each other | run `lock_read_in_read` |
| 316, 580 | `put(key, value, ttl=0)` raises before `_auto_prune`: the version stays and the history has one more than `max_history`, against line 57; calls like it add up until one returns | `history`: `WithinCap` |
| 784, 706 | an overwriting `merge()` and a `rollback()` copy histories longer than `max_history` and do not prune them | `history`: `WithinCap` |
| 439-447, 605, 987, 521-530, 843-850, `asynchronous.py` 218-223 | `delete()` returns `True` for an expired key that is still stored and `del` raises nothing; `delete_many()` and `prune_history()` count it; to `get()` it is missing (163-167: "expired keys are invisible to readers (get/history/keys all treat them as missing)") | `map` and `async` with `lingering <- {}` in `Promise`: `ImplementsTimeMap` |
| 316, 580 | `put(key, value, ttl=0)` raises after the insertion and before the invalidation: the write stays, `get()` answers from before it | `map` with `Lifetimes = {0, 1}`: `CacheTellsTheTruth` |
| 157-160 | `_is_expired` looks at `_ttl` twice; a purge in between makes `get()` raise `KeyError` | `threads` with `PastAnswersWereTrue` about answers that are `KeyError` too |
| 172-174 | the expiry is popped before the answers are dropped: `get()` in between returns an expired value | `threads` without what `True` grants to keys in `Unsettled`: `PastAnswersWereTrue` |
| 380 | the answer about "now" is not refreshed when the clock passes a version written ahead of time | `map` with `Lead = 1`: `CacheTellsTheTruth` |
| 525 | `prune_history(keep_last=n, older_than=bad)` shortens the list, raises, and does not invalidate | `map` with `Cutoffs = {1, Unparsable}`: `CacheTellsTheTruth` |
| 768 | `merge()` treats the dead history of an expired key as alive | `map` with `MergeExpired = TRUE`: `ImplementsTimeMap` |
| 322 | a `put()` refused for want of memory has written and told nobody | `map` with `MemoryLimit = 1`: `ImplementsTimeMap` |
| 784, 706 | `deepcopy()` copies a list by position while a `put()` inserts before it: self's history ends up out of order | `two_maps`: `InOrder` |
| 770 | `merge()` walks a list by position: a `put()` of an earlier timestamp makes it take a version twice, `prune_history()` makes it miss one | `two_maps` with `WalkMissesNothing` without `shifted` |
| 768 | a new key in the other map raises `RuntimeError` in `merge()`: what was merged stays, the cache is not cleared | `WalkRaises` of `TwoMaps` |
| 768, 706 | a dict whose table is full closes its gaps when a new key comes: if another key was deleted since (the size is the same again), the iterator does not notice and skips the keys that moved behind it; `merge()` and `rollback()` lose them without an error | `two_maps` with `WalkMissesNothing` without `Moved` in `shifted` |
| 779 | a key that comes to the other map after the walk over `_store` leaves its expiry in self without a history | `two_maps` with `DOMAIN ttl.self \subseteq DOMAIN store.self` outside calls |
| 723 | an expired key and one that is not there count as different, against line 715 | `two_maps`: `DiffIsTrue` |
| 722-723 | a key of the other map that had expired and is written again in between is passed over by `diff()`, whatever its value | `two_maps` with `SteadyDiffIsTrue` without `unsteady` |
| `_snapshot.py` 34 | contexts of two threads overlap, both raise: the second rollback brings back what the first undid, and drops what others wrote | `checkpoints` with `UndoneStaysUndone` without `overlapped` |
| 1098, 1121 | a value that cannot be serialized, or a crash, costs the previous save too (not with compression, for the value) | `checkpoints`: `OnlyStreamsFailHalfway` without `~Packed`, and `Crash` after `Open` |
| `_ttl_cleanup.py` 31, 50 | a `stop()` that gave up and a `start()` soon after leave the event set: no more sweeps | `cleanup` with `SweepsAsAsked` without `gaveUp` |
| `_ttl_cleanup.py` 66 | a sweep that raises keeps the map alive through the wait that follows, against line 7 | `cleanup` with `HoldsOnlyAfterFailure` without `failed` |
| `asynchronous.py` 198-205 | a negative `max_history` can leave a key with an empty history; when its time to live ends while a factory is awaited for it, what the factory made keeps that expiry and is never seen | `async` with `Cap` -1: `ImplementsTimeMap` |
| 182 | `max_history=0` keeps everything | `history` with `Cap = 0`: `WithinCap` |
| `_lock.py` 60 | a torn update leaves a writer counted for good | `lock` with `GilAtomic = FALSE`: `NoPhantomWriter` |
| `_lock.py` 36 | a read inside a write waits for itself and lets another writer in | `lock` with `Nestings <- ReadInWrite`: `NoLostWakeup`, `MutualExclusion` |
| 526 | a prune that removes the last version leaves a key that `keys()` counts and `latest()` omits | the model does it (`PruneKeys`, `ListKeys`, `Latest`), and `TimeMap` says so (`List`, `Newest`) |

## 6. What is not modelled, and the plan

Not modelled and not planned: the command line, exceptions, the release script, the formats of
JSON, pickle and DataFrame, the size estimate of the memory monitor (the model knows
whether it is exceeded), parsing of dates (the model knows whether it succeeds), the lists of
subscribers, the counters of `core.py` that only `get_stats()` reads.

Next, in order:

1. User code under the lock: `get_or_set`'s factory and callbacks that call back, in
   `ChronoMapThreads`.
2. `diff_detailed()`, `merge(self)` and a cache in `TwoMaps`.
3. The unlocked counters, and `reset_stats()` replacing them.

## 7. Running

    tlc -workers 2 -config ChronoMap.cfg MCChronoMap
    tlapm ChronoMapProofs.tla

The module and the configuration of each run are in `PROJECT.json`.
