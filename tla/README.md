# SmashTable in TLA+

Specifications, model-checking runs and proofs for SmashTable, the header-only
C++ library of transactional containers in `src/include/smashtable/` and its
Python bindings in `src/python/`. Every definition is translated from the
source at the lines `PROJECT.json` gives for it.

## The system

| Component | State | Operations | Met by |
|---|---|---|---|
| `snapshot_clock_t` (`snapshot_store.hpp`) | stamps drawn, watermark, low-water mark, list of commits in flight, list of leases | `take_snapshot`, `retire`, move of a lease, `begin_commit`, `end_commit`, `await_published`, `low_water_mark` | every snapshot store, and all partitions of a shard set, from any thread |
| `snapshot_store` with its `transaction_t` and `publication_t` | versions keyed by (key, generation), survivor tags, live count; per transaction its snapshot, generation, pending writes, recorded reads | transactional reads and writes, `stage`, `commit`, `rollback`, `reset`; direct, bulk and windowed writes; publications; `vacuum`, `clear` | callers, one at a time; a wrapper supplies the lock |
| `partitioned_store` | one engine and one lock per partition, epochs, one shared clock; per transaction one part per partition | the same, spread over partitions; one stamp for a commit; cursors that hold no lock | many threads |
| `locked_store` | one engine, one lock | the same under one lock; `stage` and `commit` lock separately | many threads |
| `spin_shared_mutex_t` (`shared.hpp`) | one 32-bit word | exclusive and shared locking, spin then park | both wrappers, Python |
| `transaction_group` (`shared.hpp`) | one transaction per store, address order, staged or not | `stage`, `commit`, `rollback`, `reset` over all | callers |
| `monotonic_store`, `reference_store` | version chains, generation-dated watches | as the snapshot store, without snapshots | callers, wrappers |
| `atomic_hash_table`, `hash_atomic_slot_ref` | slots with a two-bit state each, counters | find, upsert, update, erase, one slot locked at a time | many threads |
| `basic_hash_table` | slots, counters | find, emplace, upsert, erase, growth, rehash, copies, conversion to and from the pinned table | the stores, one thread |
| `basic_avl_tree`, `basic_wb_tree` | nodes under a root, size; heights and parents, or sizes and a second count per subtree | search, bounds, walks, insertion, removal, ranges, split, join, merge; selection and rank by position | the stores, one thread |
| `basic_vector` | a growable array | checked allocation | the stores, one thread |
| Python layer | containers, transactions over several of them, deferred releases | GIL policy, group lifetime, draining | Python threads |

Where it is hard: commits land out of the order of their stamps; the low-water
mark is used without the lock that guards it; pruning removes the evidence that
validation reads; a transaction validates twice with anything in between; a
group of keys is stamped one version at a time; allocation may fail between two
steps of staging or of rolling back; callers may keep a transaction long after
it committed. `PROJECT.json` lists these, each at its line, with the property
that would catch it.

## Modules

| Module | Models |
|---|---|
| `SnapshotClock` | `snapshot_clock_t`, one action per section under `mutex_`, one per unlocked load |
| `AbstractClock` | what the clock promises: watermark and mark as minima of sets |
| `SnapshotClockProofs` | its theorems |
| `SnapshotStore` | one `snapshot_store`, one action per public call |
| `SnapshotIsolation` | what the store promises: one committed state, a private copy per transaction, first committer wins |
| `SnapshotStoreProofs` | lemmas about its operators (filing, dropping, stamping, pruning, reading at a snapshot), its inductive invariant, what follows from that one, that the answers of a serializable transaction stand when it commits, and that it implements `SnapshotIsolation` |
| `PartitionedStore` | `partitioned_store` over snapshot stores with one clock: threads, partition locks, calls in steps |
| `PartitionedStoreProofs` | its theorems, and those of `OrderedCursor` |
| `OrderedCursor` | `ordered_cursor_t` of `partitioned_store`, composed with those threads |
| `MonotonicStore` | `monotonic_store`, the engine of version chains and dated watches, one action per call |
| `MonotonicStoreProofs` | its theorems, and that it implements `GroupStore` |
| `ReferenceStore` | `reference_store`, the engine over a `std::set` of (key, generation) |
| `GroupStore` | what those two promise of their contents, call by call: whole commits, the last one wins |
| `LockedStore` | `locked_store`, every entry point as entering, seeing and leaving the mutex |
| `LockedStoreProofs` | its theorems |
| `SpinSharedMutex` | `spin_shared_mutex_t`, one action per atomic operation on its word |
| `SpinSharedMutexProofs` | its theorems |
| `TransactionGroup` | `transaction_group`, one visit of a participant per action |
| `PythonTransaction` | the Python transaction object and its `with` block, one span of its lock per action |
| `PythonReleases` | `releases_t`, the Python containers' ledger of deferred releases, with calls nested in finalizers |
| `HashLayout` | the slot states, probe circle and slot invariants both hash tables share |
| `AtomicHashTable` | `atomic_hash_table`, threads locking one slot at a time |
| `AtomicHashTableProofs` | its theorems |
| `HashTable` | `basic_hash_table` through growth, rehash, copies and the pinned life |
| `HashTableProofs` | its theorems |
| `AvlTree` | `basic_avl_tree`, one action per call |
| `WeightBalancedTree` | `basic_wb_tree`, one action per call, with both of its counts |
| `MC...` | the instances for TLC, one module per run or pair of runs |

What composes what: `OrderedCursor` extends `PartitionedStore`, whose watermark and
low-water mark are the functions `SnapshotClockProofs` shows the clock computes and
whose partitions behave as `SnapshotStore` says once a version is committed.
`LockedStore` takes its mutex for what `SpinSharedMutexProofs` proves and its engine
for what `SnapshotStoreProofs` proves; `TransactionGroup` and `PythonTransaction` take their
participants for stores whose calls are whole. `SnapshotClock` implements
`AbstractClock`, `SnapshotStore` implements `SnapshotIsolation`, `MonotonicStore` and
`ReferenceStore` both implement `GroupStore`.

### SnapshotClock

`commits`, `publishedStamp`, `lowWaterMark` are the members of the same name.
The intrusive lists are the sequences `inFlight` and `census`, in link order;
a node is appended at the newest end and removed from anywhere, as the code
does, and the head answers for the minimum, which is a property and not an
assumption. `pc` and `seen` are a committing thread inside `await_published`:
the load (`Poll`), the decision to sleep (`Park`, which sleeps only if the value
is still the one seen, as `atomic_wait` does) and the wake-up in `EndCommit`.
`heldMark` is a mark some pruner loaded and has not used yet.

`adopt`, which copies a whole clock and is legal only while nobody uses either,
is not an action. The relaxed loads of the watermark are modelled as loads of
the one modification order of that location, which is all the code relies on.

### SnapshotStore

A store is not thread-safe, so each public call is one action and everything
interesting happens between calls. `entries` is the core: a map from (key,
generation) to a version with its stamp, payload and survivor tag, where filing
under a pair that is there overwrites it, as an `upsert` of the core does.
A payload is a value, `Absent` for a tombstone or `Unset` for the key-only
placeholder of `stage`. The clock is at rest between calls, so it appears as the
watermark and the set of open snapshots; that `LowWaterMark` of this module is
what the concurrent clock answers is the theorem `MarkExact`.

Generations are compared for equality only. `FreshGeneration` is a number nobody
carries, so the counter stays small however long a behaviour is; a number is
carried while a version, an open transaction or a publication holds it.

Reads are queries: the answer is computed on the transaction's own view
(`Reads`: its pending writes over its snapshot), and what is written down
(`Recorded`) follows each call's own rule: keys, windows, the whole keyspace.
A record that runs out of memory latches `readSet`, as the code does. A call
that looks before it writes and refuses is the read alone. `StageFails` is the
placeholder pass running out of memory, `Rollback(t, lost)` with a non-empty
`lost` is the same inside `rollback`.

`latest`, `view` and `answers` record what callers were told: the committed
state, the state a transaction opened on, the answers it got. No guard of a
call depends on them, with one exception that only shortens behaviours:
`MaxReads` bounds the answers collected.

Moves of a transaction change no state but who holds it and are not actions. A
staged transaction's own pending writes are in the store and invisible to
itself, as in the code. Two behaviours that disagree with the documentation are
behind constants, so that the runs about the rest can exclude the callers that
reach them: `ReusesCommitted`, `ClearsPublications`; `RollbackFails` lets
`rollback` run out of memory.

`SnapshotIsolation` knows no versions, stamps per version, marks or pruning. The
refinement maps its `pending` to the transaction's pending writes or, once
staged, to the payloads its versions carry in the store.

### SpinSharedMutex

`word` is `state_` as a record of its three fields, `held`, `waiting`, `readers`;
`Queueing` and `Entering` carry into the neighbouring field as the addition on the
32-bit word would. `pc` is a thread's place in a call, `observed` the local of
that name, `tries` the loop counter of the spin. A weak exchange may fail for no
reason (`Spin`, `EnterFails`; for a queued writer such a failure changes nothing).
`wait` is two steps, as in the library: it compares and sleeps only on the value
observed (`Wait`), and a notified sleeper compares again (`Notified`). Between the
release of the word and the notification is a step of its own (`Notify`). The two
`try` calls are one step: a strong exchange that succeeds does so on the word it
loaded, and one that fails changes nothing. That no more threads use the lock
than a tally can count is an assumption (`MutexAssumption`), as the comments of
the masks make it.

Starvation among writers is possible, by design of the word, and is not claimed:
`ReadersDoNotStarve` is about readers keeping out one last writer.

### PartitionedStore and OrderedCursor

A thread is in one call at a time (`pc`, `op`, `key`) and owns one `transaction_t`
(`snapshot`, `touched`, `staging`, `unsettled` are its members). What a call does
under one partition's lock is one step; taking a lock, drawing a stamp, landing it
and waiting for it are steps of their own. `todo` is what is left of a walk over the
partitions, taken in ascending order by `TakesNext`. `settle_snapshot_` is two moves
apart, as in the code: the lease moves inside `commit`, the parts at the next call.
A direct write at the strict level waits inside the inner store, under its
partition's lock.

A version is its stamp and whether an element is there: which value it has tells no
property of this module apart. What is staged is invisible and is the set of parts
it was staged in. `log`, `own`, `returned` are history. The inner engine is the
snapshot store; over engines without a clock `commit_together_` commits each part in
turn, and is not modelled.

A cursor keeps a front per partition and the write count it was read under. A count
is only compared for equality, so it is modelled by `uncounted`, the partitions that
moved theirs since the cursor loaded it.

### MonotonicStore, ReferenceStore, GroupStore

Neither engine locks, so every call is one action. A generation is compared for
equality only; `FreshGeneration` and `NextGeneration` are numbers that nothing
remembers. `MonotonicStore` keeps a chain of versions per key, of which one may be
visible and the rest are staged under their transactions' generations;
`ReferenceStore` a set of entries. `visibleCount` and `deletedCount` are the running
counts `size()` is computed from, kept by every path (`Counted`). A watch remembers a
generation or the shape of an absence; `Drifted` is `watch_drifted`. The merged walks
(`MergeFirst`, `WalkFrom`, `Select`, `Rank`, `RangeOf`) are operators over one state,
and `WalksAgree` compares them with the point reads in every state reached.

`GroupStore` has one value per key and what each open transaction would publish. Under it
the contents of an engine are its visible versions and the pending writes of a transaction
are its change set or, once staged, the payloads under its generation in the chains
(`PendingOf`). That alone would let any call pass for a direct write, so `CallsRefine`, an
action property of either engine, names for every call the one step of `GroupStore` it
must be, with its keys and payload: a commit is `Commit` and whole, a direct write writes
the keys it names, a ranged call the keys the reads see in its window, and staging, a
staging that fails, rolling back, watching and reclaiming change neither variable.
`Reuses` and `RollbackFails` admit the callers and failures whose effects disagree
with the documentation.

### LockedStore

Calls enter under the mode their guard names (`Mode`), see the contents (`seen`),
and leave having changed them. `stage` and `commit` are two calls. Payloads count how
often a key was written, modulo `Wrap`, so that an update lost to an interleaving is a
payload too low, and `inTurn` records what the same calls leave one after another.

### TransactionGroup and PythonTransaction

A pass of the group visits its participants in the order of their stores'
addresses, one action per visit, with other groups and direct writers between any
two. Participants are reduced to what a group can meet: staged or not, has writes or
not, and whether what it watches was published over. Address order rules out a ring of
waits only among participants that would keep their lock between the visits; no
store of the repository does, so no property here rests on it.

In `PythonTransaction` a span of the object's own lock is one action and `__exit__` is
three of them. `parts` are the participants' states, `state` what the object says of
them, `lifetime` whether its handle is still usable. A transaction that is over stops.

### PythonReleases

A thread is a stack of calls, since a finalizer or an equality comparison calls back
into the container. A store call takes the store's lock, may displace objects, and
leaves; `armed`, `record` and `drain_` are steps of their own. Who holds which lock is
read off the stacks. The module is declared free-threaded (`Py_MOD_GIL_NOT_USED`), so
threads interleave at every step. `MaxDepth` bounds the nesting, `MaxRecorded` the
ledger a call may join; a finalizer makes at most one call. That waiting writers hold
off readers is left to `SpinSharedMutex`.

### HashLayout, AtomicHashTable, HashTable

A slot's state is the set of lanes whose bit is set, so locking a slot sets both and
unlocking flips the difference, as `hash_atomic_slot_ref` does. In `AtomicHashTable`
locking a slot, the work under its lock, unlocking and counting are one action each.
Values are left out: no call decides by one. It starts from every legal table that it
could have adopted. Counters are numbers modulo `CountSpan`.

`HashTable` is sequential: a call is one action, and the allocator may refuse any
request. Its probes are the sets of slots they reach. `BucketCapacity` is 4 instead of
32, so that the edges of the load come within reach; `SizeBits` and `OffsetSpan` are the
widths of `size_t` and `offset_t`, between which `make` narrows. `contents` and `room`
record what callers are owed.

### AvlTree, WeightBalancedTree

Both are sequential and neither remembers anything of a call but the tree it left, so
the state is the tree and a step is a whole call. A node is a record that holds its
children. `AvlTree` keeps the parent of a node as its key, since a rotation, a join or
a split that forgets one is wrong in the code and not only in the drawing; the other
tree has no parents, and descends anew for every step of a walk. The node functions
(`rotate_left`, `rebalance`, `extract`, `join_with_root`, `split`...) are recursive
operators as they are recursive functions, which makes these two modules TLC's alone.

Keys are compared and nothing else, so after each call they are renumbered and the
values forgotten (`Shape`): the states are the shapes that calls lead to, 112 of up to
nine entries in one tree and 220 of up to eight in the other, each reached by every call
that leads to it. What a call makes of the entries is asked in every shape of every
call (`AvlCallsKeepEntries`, `WeightCallsKeepEntries`), against what it makes of a set
of entries: which stay, which go, who wins when a key is given twice, what an
allocation refused anywhere leaves. A stored key is a multiple of four, so probes,
given ranges and other trees fall on every key and into every gap. `Meets` bounds the
trees that are given ranges and other trees, `MaxGiven` what they are given. A range of
an AVL tree is staged in a tree of its own and given whole or not at all; one of a
weight-balanced tree stops where memory does. `DswThreshold` is 1 instead of 10000, so
that all three ways of merging are taken. In `WeightBalancedTree` the value of an entry
is what its augmentation counts it as, and small trees are counted in every way
(`Countings`).

## Runs

Twelve runs: ten that pass and two that show the code disagreeing with what it says.

| Run | Instances | Shows |
|---|---|---|
| `clock_safety` | 3 committers, 3 leases, 1 pruner, 3 stamps | the watermark never passes an unfinished commit; the mark is exact; a stale mark is safe; nothing falls; the lists implement the sets |
| `mutex` | 3 threads, 1 spin, caps of 4 | the word is exact, a writer is alone, nobody passes the queue; readers do not starve a queued writer; no wake-up is lost; no deadlock |
| `store_points` | 1 key, 2 transactions, 1 publication, 3 stamps | the invariants, minimal history, snapshot isolation |
| `store_serializable` | 2 keys, 1 serializable transaction, 1 answer, 2 stamps | every shape of read, and watch, is validated, phantoms included |
| `store_groups` | 2 keys, 2 stamps: 2 transactions; 1 transaction refused memory at any key | groups appear whole; no placeholder is published; running out of memory strands nothing |
| `partitions` | 2 partitions, 2 or 3 keys, 1 to 3 threads, 2 to 4 stamps, in nine casts | snapshots name whole commits; a stage lands everywhere or nowhere; first committers win; no ring of waits, checked as deadlock too; what is read stands; walks miss nothing |
| `engines` | each engine: 2 transactions and 2 keys beside direct writes, 2 watching one key twice, 1 walking 3 keys | counts, staged versions, watches and walks of the engines without snapshots; call by call, both implement `GroupStore` |
| `wrappers` | nine casts of `LockedStore`, `TransactionGroup`, `PythonTransaction`, `PythonReleases` | calls take turns; groups end whole; references balance; no deadlock |
| `tables` | 2 threads, 2 calls each, 3 keys (2 colliding, 1 wrapping) on any table of 4 slots; a growing map of 4 keys; a set of 3 keys moved to any size; AVL trees to 9 entries and weight-balanced ones to 8, given ranges and trees of 2 | searches find what is there, and calls keep the entries they should; counters, heights and weights are exact and decide right |
| `calls_return` | the clock; strict commits and writes; probing threads; the drain | liveness of whatever waits, spins or drains |
| `store_reuse`, `store_retried` | as small as possible | the two disagreements below |

A run's composite module (`MCPartitions`, `MCEngines`, `MCWrappers`, `MCTables`,
`MCStoreGroups`, `MCCallsReturn`) holds several instances side by side: `instance` is
chosen in the initial state (`exhausted` in `MCStoreGroups`) and never changes, every step belongs to the instance it
names, and the variables of components that instance lacks have one fixed value. A
behaviour of the run is a behaviour of one instance, so nothing is shared between them
but the model checker. Each property says which instance it asks what of; the named
conjuncts are defined, with their explanations, in the component's module.

The instances differ in who calls what, because the calls that make one thing go
wrong are few and all calls at once are too many. In `partitions`: *serial* two
validating transactions; *undone* rollback and reset between commits; *windows* scans,
checked inserts and ranged erasures (both followed until every stamp is drawn, since
their property is about the history, which then stands); *alone* one thread with every call, dropping
staged transactions included; *swept* readers beside vacuum and clear; *held* three
threads over one partition or all; *strict* waiting for publications; *walked* and
*erased* a cursor. In `wrappers`: *gap*, *rest*, *cursors* split the entry points of
the locked store by what they are asked; *asks*, *turns*, *fails* are groups that ask
first, that cannot, and that run out of memory; *blocks* is the Python transaction;
*writes* and *walking* the ledger.

Why the bounds are enough. Three commits in flight are what it takes to land first,
middle and last in any order; three leases make a list with a middle. One key
through three stamps has a version below the mark, one at it and one above it.
Two keys are what a torn group and a phantom need; over two partitions, one for each,
they are also what a torn commit needs. One transaction is enough
for `AnswersStand`, since another one's commit looks to it like a direct write
of the same group. Three threads are a holder, a queued
writer and a third who arrives as either; the caps are the smallest the
assumption admits, so an addition too many would carry. A ring of waits over two
partitions and one clock needs two threads, and the third is who they would wait for.
A cursor's three keys put two in one partition, so a front has something behind it.
Two watches of one transaction on one key see it there and absent. Four slots with two
colliding keys and one that wraps hold every relation of two probes; two calls each
let an erase overtake the count of the insertion before it. Trees of ten and of eight
entries are four levels deep, where every case of rotating, of joining across levels and
of splitting occurs; both were also explored to 8 entries with ranges of three, and
`AvlTree` to 12 with ranges of one, the first size at which one removal rebalances twice.
Three stamps and two keys
together were also explored in `SnapshotStore` with one transaction and a publication
(440 thousand states) without a violation.

`MaxStamp` bounds the commits of a behaviour, `MaxReads` the answers of a transaction,
`MaxListed` and `MaxWatches` what a transaction lists and watches, `Calls` of
`AtomicHashTable` the calls of a thread, `MaxSlots` what an allocator grants;
`MaxGeneration` and `CountSpan` only have to be larger than what is carried.

Views. `SnapshotStore` and the engines run under a VIEW that replaces a generation by
who carries it: nothing compares generations except for equality, so states that
agree on it have the same futures; `EnginesView` keeps, beside that, whether each watch
has drifted. The serializable instance also identifies a key read with a key inside a
window, since validation refuses for both alike, and forgets the survivor tags and the
count, which it does not ask about. Symmetry permutes threads, transactions and
values that no operator orders; a set of names used by one instance alone may be
permuted in all of them. Liveness (`mutex`, `calls_return`) is checked without symmetry.

Deadlock is checked wherever the system cannot legitimately stop: the clock, the lock,
`partitions`, `engines`, `wrappers`, `tables`. Two ends are legitimate there and are
stuttering steps of their own: `Over`, a Python transaction that was finished, and
`Made`, threads that made their calls; *serial* and *windows* stutter once every stamp is
drawn. The runs over `SnapshotStore` say
`CHECK_DEADLOCK FALSE`: a behaviour that has spent its stamps with every transaction
closed has nothing left but calls that change nothing. `calls_return` says it because
some of its instances spend their stamps or calls too.

Fairness. `mutex`: a thread inside a call is scheduled and a critical section ends,
which callers owe the lock; a parked thread is owed nothing, nobody has to call, and a
reader's exchange may fail forever. `calls_return`: a thread that drew a stamp goes on
to land it and one inside the waiting loop is scheduled, weakly; a parked thread gets
no fairness, since only a notification makes it runnable; a thread probing slots takes
its next step, and so does one in a Python call, both weakly. Weakly means that no Python
call is promised a lock that is free only now and then: writers may overtake a writer for
ever. So the property is not that every Python call returns but that a drain ends, which
the other thread can feed for as long as it runs, or else waits for the store's lock for
ever in a finalizer it ran. The code holds no lock and calls no user code between drawing a stamp and
landing it, except the walk over its own versions.

Each property of a passing run is also shown to fail when one definition is
replaced by a plausible slip of it (`Mutant...` operators, `NewestSnapshot`,
`PublishedAtNewest`, `NobodyWoken`, `MarkBelowReaders`). A property with two halves is listed
with one of them, `ProbesAndDrainsEnd` with the drain that goes on until the ledger is empty;
its other half fails with `MutantLetsGo`, a tombstone kept locked while the probe goes on.

## What disagrees with the documentation

Two disagreements have a run that reaches them:

* `store_reuse`: a committed transaction keeps its generation, so writing the
  same key with it again and staging overwrites the committed version in place.
  Readers lose it at once, and dropping the transaction loses it for good.
  `shared.hpp:849` calls a committed transaction "immediately reusable".
* `store_retried`: a `rollback()` that runs out of memory loses a payload but
  keeps the key listed as changed; the retry publishes a bare placeholder.

Others were met while modelling. Each is behaviour the model has, or leaves out of its
instances where it says so, and each was reached by TLC on the component's model with
a property stating the quoted promise; they have no run of their own here.

* Snapshot store. `clear()` is refused by open snapshots only and drops what an
  unpublished publication staged, which `stamp_under_` asserts nobody may
  (`snapshot_store.hpp:3101`, `:2374`); `ClearsPublications` keeps it out.
* Partitioned store. An `insert` looks at the watermark, so a key just written above a
  stamp still in flight elsewhere is overwritten (`partitioned_store.hpp:2088` against
  `:2081`). `erase_range` draws one stamp per partition and a snapshot can fall between
  two of them (`:2321` against `:535`). A read after `stage` marks a part nothing was staged
  in, and the commit is refused for good (`:1253` against `:1105`); `Read` allows it, so *serial*
  has such commits and `StagesAreWhole` is asked of instances without one. A strict direct write waits for its publication
  under a partition's lock, which `snapshot_store.hpp:123` forbids; `NoRingOfWaits` shows
  that nothing comes of it. A staged transaction that is dropped changes its partitions
  without their locks (`snapshot_store.hpp:826`; in `locked_store` likewise,
  `locked_store.hpp:304`); `DropsStaged` admits it where one thread runs alone. Below the
  strict level a cursor can miss a key whose insert returned, since the count moved
  before the stamp was published (`partitioned_store.hpp:838` against `:753`);
  `WalksMissNothing` is about keys that were there throughout.
  `clear` clears one partition after another and is refused by open snapshots alone, so a commit
  that landed behind an older one still in flight elsewhere is forgotten although it is above the
  watermark; a transaction that opens below it then commits over its key unrefused
  (`partitioned_store.hpp:2572`, `snapshot_store.hpp:3101`): three threads and three stamps reach it,
  with `FirstCommitterWins` violated. A commit clears the marks of reached parts
  but not the reads recorded inside them, which only a reset does, so a read kept across a
  commit is validated again just where a part is reached again (`partitioned_store.hpp:1148`,
  `snapshot_store.hpp:1843`); `RestsOn` says which reads a commit rests on.
* Engines. Reusing a committed transaction counts a key twice in `monotonic_store`
  (`monotonic_store.hpp:1289`), slips past another's watch, and in `reference_store` is
  answered with success and never published (`reference_store.hpp:1043`); `Reuses` keeps
  it out. A failed rollback of `monotonic_store` loses a payload as above (`:1237`);
  `RollbackFails` keeps it out. `rank` gives a rank to a key the transaction erased
  (`monotonic_store.hpp:937`), `lower_bound` and `upper_bound` of a `reference_store`
  transaction show one (`reference_store.hpp:258`), and a batch that names a key twice
  counts it twice (`:1395`); `WalksAgree` asks for ranks of keys that are seen and for bounds
  with a change of the transaction ahead, and `RepeatsInBatch` keeps out the third.
* Groups. Between asking and publishing another group may commit over a watched key
  (`shared.hpp:2024`). The undo of a refused stage ignores what a rollback answers
  (`:1987`), and a rollback refused midway cannot be repeated (`:2068`). A Python block
  whose commit is refused by a later participant exits with it still staged
  (`transactions.cpp:854` against `README.md:157`), and a rollback after it succeeds but
  leaves a group that accepts nothing (`:772` against `:753`).
* Locked store. Two transactions can stage one key at once; the second validation is
  what refuses one (`locked_store.hpp:364` against the class note at `:25`).
* Hash tables. `populated_count` of the atomic table wraps while an erase overtakes the
  count of its insertion (`atomic_hash_table.hpp:397`), and `capacity()` is not a bound
  (`:176`). In the growable one the last of equivalent keys stays (`basic_hash_table.hpp:1078`),
  a copy into too few slots drops elements (`:1331`), `force_resize` admits what an
  assertion then refuses (`:1216`), tombstones double a nearly empty table (`:1206`), and a slot
  count is narrowed unchecked (`hash_layout.hpp:615`); the instances' `CopiesFit` and
  `OffsetSpan` keep out the second and the last.
* Trees. `erase_if` of an AVL tree takes heights anew and rebalances only where a node went
  (`basic_avl_tree.hpp:737`), so what it leaves may lean by more than the one level of `:82`,
  and the next insertion on the lighter side of such a node rotates round a child that is
  not there (`:521`); with `ErasesIf` TLC finds `AvlBalanced` violated. No store calls it; `erase_if` of the
  weight-balanced tree joins on its way out and stays balanced.
* Python releases. A step of an equality walk gives back a copy under the store's lock
  (`store_ops.hpp:427`), a view drains under its transaction's (`transactions.cpp:83`), a
  copy given back while another call is in flight may be recorded when nobody is left to
  drain it (`shared.hpp:286`), and calls that overlap for ever release nothing (`:278`).

## Proofs

`SnapshotClockProofs` proves, for every number of committers, leases, pruners
and stamps, from `MaxStampAssumption` alone: `TypeCorrect`, `WatermarkWhole`,
`MarkExact`, `StaleMarkSafe`, `OnlyRise` and `Refinement`.

The properties are not inductive: that the head of a list is its minimum needs
the list to be ordered and to hold exactly the right nodes. `IInv` adds that:
`InFlightOrdered` (strictly increasing stamps, listed exactly while writing, the
watermark equal to what the head says), `CensusOrdered` (snapshots
non-decreasing, none above the watermark, no lease twice, the mark equal to what
the head says), `MarksBehind`. Appending keeps order because a new stamp is the
largest drawn and a new snapshot is the watermark; removal keeps it because a
subsequence of an ordered sequence is ordered; a move keeps it because the
target inherits the snapshot. The refinement then maps the head to the minimum
of the set it stands for.

`SpinSharedMutexProofs` proves `TypeCorrect`, `Exclusion`, `Tallied` and
`QueueFirst` for any finite set of threads smaller than the caps, and any number
of spins. Exclusion is inductive only together with the tallies: a queued writer
may take the word because its fields say that nobody holds it, so the fields have
to be true. `IInv` adds `Fits`: the place of a thread agrees with its mode, and a
reader about to enter observed a word that admits it, which is the word its
exchange succeeds on. `Moves` reduces every step to how it changes the sets of
writing, reading and queued threads, and `Tally` says what that does to their
cardinalities, which stay below the caps because the threads do.

### The snapshot store

The theorems hold for any keys, values, transactions, publications, stamps and
generations, at every isolation level, under `CallsInOrder`: callers do not write with a
committed transaction before resetting it (`~ReusesCommitted`), and do not clear the store
under a publication that has staged (`~ClearsPublications`). Each excludes a disagreement
listed above, with which the properties are false: `store_reuse` reaches the first, and the
second drops versions whose frame still expects to stamp them.

The invariants say what is promised and not why. `Inv` is their reason, in four parts:

* `StoreBooks`, what `entries` has to do with the watermark, the count and the committed state
  callers were promised: reading at the watermark gives that state, no committed version is
  newer than its key's last commit, no two of a key share a stamp, and tags and count are
  those of the readable versions. Without the second and third, which version is newest
  would be a choice, and stamping a group could expose an older one.
* `ReadersServed`: an open snapshot reads the state it was drawn on, a key has a version above
  it exactly if it was committed above it, and a key not committed above it still is what
  it was. The middle part is `ConflictsShow`; the last is what makes the two halves hang
  together when a key is pruned, and what the answers need.
* `FramesApart`, whose versions are whose: no two open frames carry one generation
  (`GenerationsApart`), a closed one carries nothing (`ClosedBlank`), an uncommitted version is
  borne by exactly one frame that can still stamp it (`StagedBorne`), and what is about to be
  staged meets nothing of its own generation (`Unspent`, `FiledAlone`). The last two are why
  filing overwrites nobody, and are what reuse breaks: a committed version under the
  generation of an open transaction.
* `Typed`, the types.

A call is then one of few things to `entries`: it changes uncommitted versions alone (`Hidden`,
which changes no read and no evidence, `HiddenStep`), stamps a hidden group at a new stamp
above every reader, or prunes at the mark (`PruneStep`: at or above the mark nothing is read
differently). A lemma says so once for each operator, and the proof has one lemma
per call. From `Inv` follow `TypeCorrect`, `SnapshotsAlwaysHold`, `ConflictsAlwaysShow`,
`StagedAlwaysStands`, `CountsAlwaysExact`; `AlwaysPrunesToTheMark` is about steps and uses it on
both sides.

`Refinement` shows each call to be a step of `SnapshotIsolation` or a stutter, with `pending`
mapped to what a transaction set aside or, once staged, to the payloads its versions carry.
It adds the invariant `LeftEmpty` (nothing is set aside by who staged it) and the hypothesis
`~RollbackFails`: a rollback that runs out of memory loses a payload, which is the second run
that expects a violation. That no frame changes another's payloads is `Keeps`. Under the same
hypothesis `AlwaysWritten` proves `NothingUnwritten`, which that run sees violated without it:
`NothingBare` says that a transaction has a payload aside for every key it lists until it stages,
and gets them all back when it rolls back, so a placeholder always finds its payload. With
these and the invariants above, which admit every failure of memory, all that `store_groups`
asks of its two instances is proved for any.

`Serializable` proves `AnswersStand`. The footprint that a call records has to decide its
answer: `Covers` says that a query's record lies in a set of keys, and a lemma per query
that two states agreeing on them answer it alike, whichever those states are, with the
changes the transaction had pending laid over both. `Explained`, the invariant, says that the
read set still covers every answer given, or has latched. Validation then compares stamps,
and `ReadersServed` turns equal stamps into equal values.

### The partitioned store

`PartitionedStoreProofs` proves, for any threads, partitions, keys and stamps:

* `Base` (theorem `PartitionsTyped`), on which the others rest: types, and for each thread where
  it stands. `LockBooks`: it holds partitions only inside calls that take several, and those
  it holds come before those it wants. `CallBooks`: what it is about to write it holds, or wants
  still. `LandBooks`, `InFlight`: a stamp in flight is one thread's, and the log says what it is
  about to write. A thread leaves the books of the others alone (`Same`), so each is proved
  for the one that moves. `Moves` reduces every step to one of six things it does to versions
  and clock: nothing, drawing, landing, pruning at the mark, erasing a range, clearing a
  partition.
* `WaitsEnd`, `NobodyWaitsInACircle`: of threads that all wait for partitions, whoever wants the
  greatest finds it held by nobody among them, since all that the others hold comes before
  what they want; and who waits for a publication, under a partition's lock or not, waits for
  threads about to land, which wait for nobody.
* `OwnCommitIsRead` and, at the strict level, `StrictWritesAreVisible` (`ReturnedIsVisible`), from
  `Stands`: where marks and snapshots are while a call is on its way.
* `SnapshotsRepeat` (`ReadsStand`): pruning keeps what is read at or above the mark, landing adds
  stamps above every snapshot, clearing is refused while one is open. It needs `Faithful`: a
  version is there because a stamp that landed wrote it so.
* `FirstCommitterAlwaysWins` (`FirstCommitterWins`), from `Kept`: what was written above the mark is
  there, so looking at versions is looking at history. `SnapshotsStayWhole` (`SnapshotWhole`) adds
  `ReadsWhole`: between mark and watermark, reading versions is reading history. Both
  assume `"clear" \notin Calls`; with clear both `Kept` and `FirstCommitterWins` are false (below).
* `StagesStayWhole` (`StagedWhole`), from `StageBooks`: which parts are staged in each phase of a walk.
  At the snapshot level only: at the others a read marks a part after staging, as listed above.
* `WalksMissNoKey` (`KeptAreWalked`) and `WalksAscend` (`Ascends`), of the cursor. The walk reads
  one partition at a time, so its fronts are of different moments and none need be what its
  partition shows now. `CursorBooks` (theorem `CursorInvariance`) is why that does no harm: a key
  there all the while that has not been handed over lies no nearer than the front of its
  partition, however stale that front, because a front only moves past keys handed over or
  found missing under the partition's lock. So the least front is no farther than any such key, and when it is none,
  or past the bound, there is none left. The front erased since it was read is raised to what
  took its place, or the walk would jump the key behind it. The one hypothesis, `BoundsGiven`,
  says where a walk may start and stop: anywhere from the first key to past the last. Of the
  threads the proof asks only that they forget no count (`CountsOnlyGrow`): which locks they
  hold and whether they clear the store is all one to it.

The run `partitions` asks the same of its instances: `FirstCommitterWins` and `ReadsStand` by name,
`SnapshotWhole`, `OwnCommitRead`, `ReturnedIsVisible` inside `SnapshotsAreWhole`, `StagedWhole` inside
`StagesAreWhole`, `NobodyWaitsInACircle` inside `NoRingOfWaits`, and `Ascends` and `KeptAreWalked` of two
cursors inside `WalksMissNothing`.

### The atomic hash table

`AtomicHashTableProofs` proves, for any threads, slots, keys, hash and calls, from an allocation in
any legal state, what `KeysAreFound` and `CountsDecideRight` ask of the instance of the run
`tables`: `TypeCorrect`, `SlotsHeldAlone`, `KeysStaySingle`, `ProbesReachKeys`, `MissesAreRight`,
`FullnessIsRight` and `CountersSettle`.

A slot another thread holds is in the state its holder staged, not the one its bits show; `States`
is that state, and a slot changes it only while its holder decides (`StatesAfter`). All that can
happen to the table is that a free slot is taken and a populated one erased, each under its lock
(`TableMoves`). So a slot in use is never free again, and its key only ever goes (`StepTable`); what
a probe has walked past therefore stays in use and without its key, whoever works there since.
That is `Behind`, the part of `Inv` the properties do not say and the reason for all of them: a
probe that comes to a free slot has its key in no slot before it by `Behind` and in none after it
by `ProbesArrive` (`FreeMeansNowhere`), so two insertions of one key cannot both find room, and the
answers "missing" and "exhausted" are right when they are decided. The arithmetic of the circle
comes first: every slot is at a distance of its own from where a probe starts, and
the one that follows is one farther until the probe has been everywhere (`NextDistance`).
`CountersSettle` needs of the width only that it holds the number of slots; `Sums` says that a
counter which wrapped below zero is right again once the insertion is counted.

### The growable hash table

`HashTableProofs` proves, for any number of keys and slots, any hash and values, all the sizes callers
ask for and allocations refused anywhere, what `KeysAreFound` and `CountsDecideRight` ask of the two
instances of `tables`: `HashTypeOK`, `ProbesFindContents`, `CountsMatch` and `OverwriteNeverRefused`
under `Fits`, and `LoadStaysBelow`, `ReservationKept` and `ReserveFits` under `Buckets` as well. (The
instance *moves* is asked for the first three.)

The hypotheses are the two disagreements listed above and one of the code's constants. `Fits`: the
allocator grants no more slots than an `offset_t` counts, and a copy is asked to hold what it copies;
without either, elements are lost. `Buckets`: a bucket is four slots at least, of the 32 of the code; a
table of one slot has a threshold of none, so rounding up would fall short of what was reserved.

`Sound` is what every table is, made or left by any call: its fields have their types (`Shape`); a slot in
use has a key of its own and no free slot between it and where its probe starts (`Placed`), so a probe that
ends at a free slot has passed every slot its key could be in; the counters are those of the slots
(`Tallied`). `Holds` compares it with what the calls made of each key. A slot that a probe may store in is
an `Entry`: the one the key has, or one not in use whose nearest has no free slot before it, which is true of
the nearest slot that is not in use, the first tombstone on the way, and the free slot at its end alike
(`InsertedEntry`, `UpsertedEntry`). Whatever is stored through an `Entry` leaves a sound table
(`StoredIs`), so every call that stores is one lemma (`StoresKeep`), and every call that only moves
the elements another (`ResizedKeeps`).

Growing, rehashing and copying are `Refilled`, a function over the slots of the source. `RefilledSound` is an
induction over them (`UpFromZero`, over sets of naturals): after *i* slots the new table has the elements of
those *i* and nothing else, fewer than it has slots while one is left to move, so there is always a slot for
the next. Sizes are powers of two, and `ForElementsIs` is that three quarters of what `ForElements` rounds a
count up to are no less than the count, whichever way the division and the rounding fall.

### The monotonic store

`MonotonicStoreProofs` proves, for any keys, transactions and watches, what the run `engines` asks of
its instances: `CountsExact`, `StagedExactly`, `NothingUnwritten` (inside `CountsAndStagesExact`),
`DriftIsMove` and `WatchedStand` (inside `WatchesTell`), `WalksAgree` but for ordinals (inside
`WalksAgreeWithFinds`), and that the store implements `GroupStore` call by call: `CallsRefine`
holds of every step, and leaves no step that `GroupStore` has not (`ImplementsGroupStore`).

All of it supposes `~Reuses`: callers reset a committed transaction before they write with it
again. What comes of it otherwise is listed above, and `Unpublished` is where it breaks: a generation
that is published already would be staged under once more. `StagedExactly`, `NothingUnwritten` and
the refinement also suppose `~RollbackFails`, since a rollback that runs out of memory loses a
payload; the counts, the watches and the walks are proved with that failure admitted.

`MonotonicBooks` is the invariant. `ChainsSound`: a generation names one version of a key, and
one version at most is visible. `FramesSound` and `GensApart`: what a transaction listed covers what it
set aside, nothing is set aside once staged, and no two open transactions share a generation.
`StagedOwned`: a hidden version belongs to a staged transaction that listed its key, so publishing
and rolling back find their own and nobody else's. `Unpublished`: the generation of a
transaction that has not committed is on nothing published and in nobody's watch, without which a
watch could take a commit for the version it saw. `WatchesDated`: a watch that was not
overtaken remembers exactly what is published, and one that was remembers a generation which is not.
`CountsExact` closes the circle, since the counts are kept by differences.

The calls are of three kinds. A quiet one (`Quiet`, `QuietStep`) leaves what is published as it
is: staging, rolling back, dropping, setting aside. A loud one (`Loud`, `LoudStep`, `LoudCounted`)
publishes one version over each of some keys, or retires what is there, and tells every watch of them;
commits, direct and bulk writes, erased windows and clear are all of that kind. Vacuum takes
tombstones that nobody staged over, which a watch remembers as an absence and so does not miss.

The walk moves two cursors, one over the index and one over what the transaction set aside, each to
its next key. `WalkIsDefined` says that its recursion defines a function, since each step leaves fewer
keys ahead of one cursor and no more ahead of the other (`DownToZero`); `StepShows` says what one step
hands over, and `WalkShows` that a walk shows each key `find` sees once, in ascending order. The
bounds and the merge of their two candidates follow from it.

For the refinement `WholeBooks` adds that what a staged transaction listed is in the chains, with a
payload. Its pending writes are then what it set aside or, once staged, the payloads under its
generation (`PendingOf`). A quiet call leaves the contents and changes those of its own transaction
alone (`QuietKeeps`): staging and rolling back move them between the two places and change nothing
(`StageRefines`, `RollbackRefines`), writing adds to them, resetting and dropping empty them. A commit
lays them over the contents (`PublishRefines`), every other write is one payload over the keys the
call names (`OverwritesRefine`), and reclaiming takes tombstones, which leaves the contents too
(`VacuumRefines`). `EveryCallRefines` and `CallsAreSteps` put them together.

### The locked store

`LockedStoreProofs` proves, for any threads, keys and calls, what `CallsTakeTurns` asks of the
instances of `wrappers`: `TakesTurns`, `FoundStands`, `WalkMissesNone`, and `ChangesAlone` where no
transaction is dropped while staged, which its destructor does without the lock.

`LockedBooks` is the invariant. `HoldsMode` and `HoldsAlone` say who is inside and how; a thread that
is inside keeps the store as it found it (`FoundStands`), since whoever changes it holds the
mutex alone. So what a call makes of what it found is what it makes of what is there, which is what the
same call would have made in its turn. Between `stage` and `commit` a transaction holds nothing:
`FramesSound` says that what it opened on still is what the store has, but for the keys it is told were
published over, and the second validation asks about just those. `WalksDue` says of a cursor, which
lets go of the lock between two keys, that what it still owes is there and ahead of it.

### Model-checked only

Liveness: fairness and `ENABLED` are beyond the prover. The trees: their operators are
RECURSIVE, and what they compute is induction over data. That the partitioned store draws no
more than `MaxStamp` stamps, part of its `TypeOK`: the guard adds up what calls on their way
have yet to draw with a fold over the threads, and is a bound of the model and not of the
code (`Base` has the rest of `TypeOK`). `select` and `rank` of the monotonic store, which count along
the walk. `ReferenceStore`, the groups and the Python modules.

## Not modelled, and the plan

Proofs to come, in order: the counts and watches of `ReferenceStore`, and that it implements
`GroupStore` as `MonotonicStore` does; the balance of `PythonReleases`. None of these modules declares a RECURSIVE operator. Modules that would be next:
`SnapshotClockLinks`, the pointer surgery of the clock's lists refining its sequences; the set
algebra and merged walks of `shared.hpp` as functions checked against a reference definition;
`partitioned_store` over engines without a clock.

The vector is a single-threaded array with thorough unit tests and no protocol between
calls. The stores use it and the trees through what they implement, a sequence and a
map, which is how the models of the stores have them. Of the trees the samples, the
moves and `swap`, and the STL adapters of their iterators are left out.

Left out for good: type-level dispatch and the standard-library adapters, which keep no
state; allocation policy and the layout of nodes; argument conversion and dispatch in
the Python layer; sampling; capacity reservation; the build and the tests.
