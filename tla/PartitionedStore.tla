-------------------------- MODULE PartitionedStore --------------------------
(***************************************************************************)
(* partitioned_store (partitioned_store.hpp) over snapshot stores sharing  *)
(* one clock: keys hashed to independently locked partitions, transactions *)
(* spanning them, and the direct writes and whole-store walks beside them. *)
(*                                                                         *)
(* A thread runs one call at a time and owns one transaction_t.  What it   *)
(* does under one lock is one step; acquiring a lock, drawing a stamp and  *)
(* landing it are steps of their own, so calls interleave as they may in   *)
(* the code.  Giving back several locks is one step, since nothing is      *)
(* done between the releases.                                              *)
(*                                                                         *)
(* Inside a partition a version is a stamp and whether an element is there *)
(* under it, as SnapshotStore has it once committed; what is staged is     *)
(* invisible and is the set of parts it was staged in.  The watermark and  *)
(* the low-water mark are the functions SnapshotClockProofs shows the      *)
(* clock computes.  A transaction that committed is reset before it writes *)
(* again (SnapshotStore shows what happens when it is not).                *)
(***************************************************************************)
EXTENDS Naturals, FiniteSets, FiniteSetsExt, Sequences

CONSTANTS
    Threads,
    Nobody,
    PartitionCount, \* partitions_k
    KeyCount,       \* keys are 1..KeyCount in the order of the comparator
    Isolation,      \* "snapshot", "serializable" or "strict"
    Calls,          \* the calls threads make in a behaviour
    DropsStaged,    \* callers drop a transaction while it is staged
    MaxStamp        \* bound: stamps drawn in a behaviour

ASSUME PartitionedAssumption ==
    /\ PartitionCount \in Nat \ {0} /\ KeyCount \in Nat /\ MaxStamp \in Nat
    /\ Isolation \in {"snapshot", "serializable", "strict"}
    /\ DropsStaged \in BOOLEAN
    /\ Nobody \notin Threads

Partitions == 1..PartitionCount
Keys == 1..KeyCount

\* bucket_: the hasher's remainder.
Bucket(k) == 1 + ((k - 1) % PartitionCount)
KeysOf(p) == {k \in Keys : Bucket(k) = p}
Partial(S) == UNION {[ks -> S] : ks \in SUBSET Keys}

\* inner_records_reads_k and awaits_publication_k.
RecordsReads == Isolation # "snapshot"
AwaitsPublication == Isolation = "strict"

SharedWalks == {"walk", "scan"}
DirectWrites == {"upsert", "insert", "update", "erase"}
WholeWrites == {"erase_range", "pop_smallest"}
Draws(kind) ==
    IF kind = "erase_range" THEN PartitionCount
    ELSE IF kind \in DirectWrites \cup {"commit", "pop_smallest"} THEN 1 ELSE 0

VARIABLES
    versions,   \* of every key, the committed versions held
    drawn,      \* the newest stamp drawn
    writing,    \* stamps drawn and not landed
    open,       \* the census: the snapshot of every lease held
    holder,     \* who holds a partition exclusively
    sharers,    \* who holds it shared across steps
    uncounted,  \* partitions written since a cursor last read their count
    pc, op, key, todo, stamp,  \* where a thread is, in which call, with what left
    \* Members of transaction_t.
    snapshot, touched, staging, unsettled,
    changed,    \* the keys it wrote, and whether an element is there
    reads,      \* the keys it watched or read
    stagedIn,   \* parts where it has staged versions
    \* What callers were told, which no guard reads.
    log,        \* what each stamp wrote, on what it rests
    own,        \* the last stamp the transaction committed
    returned    \* stamps whose call returned

dataVars == <<versions, drawn, writing, log>>
lockVars == <<holder, sharers, uncounted>>
callVars == <<pc, op, key, todo, stamp>>
workVars == <<changed, reads, stagedIn, staging>>
placeVars == <<snapshot, unsettled, own>>
vars == <<dataVars, open, lockVars, callVars, workVars, placeVars, touched, returned>>

----------------------------------------------------------------------------
(* The clock, as snapshot_clock_t is proved to compute it.                 *)

Watermark == IF writing = {} THEN drawn ELSE Min(writing) - 1
LowWaterMark == IF DOMAIN open = {} THEN Watermark ELSE Min({open[t] : t \in DOMAIN open})

Leased(t) == [u \in DOMAIN open \cup {t} |-> IF u = t THEN Watermark ELSE open[u]]
Retired(t) == [u \in DOMAIN open \ {t} |-> open[u]]

(* Versions.                                                               *)

Newest(vs) == {v \in vs : \A w \in vs : w.stamp <= v.stamp}

VisibleAt(vs, at) == Newest({v \in vs : v.stamp <= at})

\* The stamp of the element a key reads as, 0 for none.
ReadAt(vs, at) ==
    IF \E v \in VisibleAt(vs, at) : v.here THEN (CHOOSE v \in VisibleAt(vs, at) : TRUE).stamp ELSE 0

ChangedSince(k, at) == \E v \in versions[k] : v.stamp > at

Pruned(vs, mark) ==
    {v \in vs : v.stamp > mark \/ (v \in VisibleAt(vs, mark) /\ v.here)}

PruneKeys(ks) == [k \in Keys |-> IF k \in ks THEN Pruned(versions[k], LowWaterMark) ELSE versions[k]]

\* What a stamp makes of the versions it writes.
Written(vs, group, s) ==
    [k \in Keys |-> IF k \in DOMAIN group THEN vs[k] \cup {[stamp |-> s, here |-> group[k]]} ELSE vs[k]]

\* A stamp's entry in the history: its writes, the reads it rests on, the snapshot
\* it rests on them at, and the first stamp of the same call.
Entry(group, watched, since, first) ==
    [writes |-> group, reads |-> watched, since |-> since, first |-> first]

----------------------------------------------------------------------------
(* Locks.                                                                  *)

Free(p) == holder[p] = Nobody /\ sharers[p] = {}
Held(t) == {p \in Partitions : holder[p] = t}

\* Blocking, in ascending order: a thread waits for the least partition it wants.
Wanted(t) == Min(todo[t])

Release(t) ==
    /\ holder' = [p \in Partitions |-> IF holder[p] = t THEN Nobody ELSE holder[p]]
    /\ sharers' = [p \in Partitions |-> sharers[p] \ {t}]

\* note_written_ of the partitions a lock for writing gives back.
Note(ps) == uncounted' = uncounted \cup ps

Returns(t) ==
    /\ pc' = [pc EXCEPT ![t] = "idle"] /\ op' = [op EXCEPT ![t] = "none"]
    /\ key' = [key EXCEPT ![t] = 0] /\ stamp' = [stamp EXCEPT ![t] = 0]
    /\ todo' = [todo EXCEPT ![t] = {}]

Become(t, phase, left) ==
    /\ pc' = [pc EXCEPT ![t] = phase] /\ todo' = [todo EXCEPT ![t] = left]
    /\ UNCHANGED <<op, key, stamp>>

\* On to the parts left, or back to the caller.
MoveOn(t, phase, left) == IF left = {} THEN Returns(t) ELSE Become(t, phase, left)

\* A call taking the locks of ps, all of them before it goes on.
Lock(t, kind, k, ps) ==
    /\ pc' = [pc EXCEPT ![t] = "locking"] /\ op' = [op EXCEPT ![t] = kind]
    /\ key' = [key EXCEPT ![t] = k] /\ todo' = [todo EXCEPT ![t] = ps]
    /\ UNCHANGED stamp

\* Bound: a call begins only where the stamps left pay for it and the calls under way.
Owed == LET calling == {u \in Threads : pc[u] \in {"locking", "erasing"}}
        IN  FoldSet(LAMBDA u, sum : sum + Draws(op[u]), 0, calling)

Calling(t, kind) ==
    /\ pc[t] = "idle" /\ kind \in Calls
    /\ Draws(kind) = 0 \/ drawn + Owed + Draws(kind) <= MaxStamp

\* A step of a walk taking one partition at a time, under its lock.
Visiting(t, phase) == pc[t] = phase /\ Free(Wanted(t))

Visited(t) ==
    /\ MoveOn(t, pc[t], todo[t] \ {Wanted(t)})
    /\ Note({Wanted(t)})
    /\ UNCHANGED <<holder, sharers>>

IsOpen(t) == t \in DOMAIN open
\* Every call of a transaction settles its snapshot before it does anything.
Settled(t) == IsOpen(t) /\ unsettled[t] = 0

----------------------------------------------------------------------------

Init ==
    /\ versions = [k \in Keys |-> {}]
    /\ drawn = 0 /\ writing = {} /\ log = <<>> /\ open = [t \in {} |-> 0]
    /\ holder = [p \in Partitions |-> Nobody] /\ sharers = [p \in Partitions |-> {}]
    /\ uncounted = Partitions
    /\ pc = [t \in Threads |-> "idle"] /\ op = [t \in Threads |-> "none"]
    /\ key = [t \in Threads |-> 0] /\ todo = [t \in Threads |-> {}]
    /\ stamp = [t \in Threads |-> 0]
    /\ snapshot = [t \in Threads |-> 0] /\ touched = [t \in Threads |-> {}]
    /\ staging = [t \in Threads |-> FALSE] /\ unsettled = [t \in Threads |-> 0]
    /\ changed = [t \in Threads |-> <<>>] /\ reads = [t \in Threads |-> {}]
    /\ stagedIn = [t \in Threads |-> {}]
    /\ own = [t \in Threads |-> 0] /\ returned = {}

(* Transactions.                                                           *)

\* transaction(): one snapshot for every part, then each part under its lock.
Open(t) ==
    /\ Calling(t, "transaction") /\ ~IsOpen(t)
    /\ open' = Leased(t)
    /\ snapshot' = [snapshot EXCEPT ![t] = Watermark]
    /\ MoveOn(t, "opening", Partitions)
    /\ UNCHANGED <<dataVars, lockVars, workVars, unsettled, own, touched, returned>>

OpenPart(t) ==
    /\ Visiting(t, "opening") /\ Visited(t)
    /\ UNCHANGED <<dataVars, open, workVars, placeVars, touched, returned>>

\* The snapshot moved without waiting for the transaction's own commit.
MutantMayMove(t) == TRUE
MayMove(t) == unsettled[t] <= Watermark

\* settle_snapshot_: at the head of every call, once its own commit is whole.
Settle(t) ==
    /\ pc[t] = "idle" /\ IsOpen(t) /\ unsettled[t] # 0
    /\ MayMove(t)
    /\ open' = Leased(t)
    /\ snapshot' = [snapshot EXCEPT ![t] = Watermark]
    /\ unsettled' = [unsettled EXCEPT ![t] = 0]
    /\ UNCHANGED <<dataVars, lockVars, callVars, workVars, own, touched, returned>>

\* watch, and the finds of the validating levels: filed in the part that owns the
\* key and the part marked.  Only watch refuses once staged.
Read(t, k) ==
    /\ Calling(t, "find") /\ Settled(t)
    /\ RecordsReads \/ ~staging[t]
    /\ holder[Bucket(k)] = Nobody
    /\ reads' = [reads EXCEPT ![t] = @ \cup {k}]
    /\ touched' = [touched EXCEPT ![t] = @ \cup {Bucket(k)}]
    /\ UNCHANGED <<dataVars, open, lockVars, callVars, changed, stagedIn, staging, placeVars, returned>>

\* changed_identifiers_ and changes_ of the parts, after another write.
WrittenOver(group, ks, here) == [k \in DOMAIN group \cup ks |-> IF k \in ks THEN here ELSE group[k]]

Writing(t, kind) == Calling(t, kind) /\ Settled(t) /\ ~staging[t] /\ own[t] = 0

\* upsert, pending in the part: neither the store nor a lock is touched.
Write(t, k) ==
    /\ Writing(t, "write")
    /\ changed' = [changed EXCEPT ![t] = WrittenOver(@, {k}, TRUE)]
    /\ touched' = [touched EXCEPT ![t] = @ \cup {Bucket(k)}]
    /\ UNCHANGED <<dataVars, open, lockVars, callVars, reads, stagedIn, staging, placeVars, returned>>

\* What the transaction reads a key as: its own write, or its snapshot.
Sees(t, k) == IF k \in DOMAIN changed[t] THEN changed[t][k] ELSE ReadAt(versions[k], snapshot[t]) # 0

\* insert, update and erase look first, under the partition's lock, and the validating
\* levels file the look.
WriteChecked(t, k, kind) ==
    /\ Writing(t, kind) /\ holder[Bucket(k)] = Nobody
    /\ changed' = IF Sees(t, k) = (kind # "add")
                  THEN [changed EXCEPT ![t] = WrittenOver(@, {k}, kind # "unwrite")] ELSE changed
    /\ touched' = [touched EXCEPT ![t] = @ \cup {Bucket(k)}]
    /\ reads' = IF RecordsReads THEN [reads EXCEPT ![t] = @ \cup {k}] ELSE reads
    /\ UNCHANGED <<dataVars, open, lockVars, callVars, stagedIn, staging, placeVars, returned>>

\* mark_every_part_.
Marked(t) == Partitions

\* A bound, an ordinal or a range of the merged order: every partition held shared,
\* each filing its share, and every one marked.
Scan(t) ==
    /\ Calling(t, "scan") /\ Settled(t)
    /\ Lock(t, "scan", 0, Partitions)
    /\ touched' = IF RecordsReads THEN [touched EXCEPT ![t] = Marked(t)] ELSE touched
    /\ UNCHANGED <<dataVars, open, lockVars, workVars, placeVars, returned>>

\* erase_range, erase_from, erase_up_to and clear: each partition in turn, marked as it
\* is reached, stages a tombstone for what the transaction reads there.
UnwriteAll(t) ==
    /\ Writing(t, "unwrite_all")
    /\ MoveOn(t, "unwriting", Partitions)
    /\ UNCHANGED <<dataVars, open, lockVars, workVars, placeVars, touched, returned>>

UnwritePart(t) ==
    LET p == Wanted(t)
        doomed == {k \in KeysOf(p) : Sees(t, k)} IN
    /\ Visiting(t, "unwriting") /\ Visited(t)
    /\ changed' = [changed EXCEPT ![t] = WrittenOver(@, doomed, FALSE)]
    /\ touched' = [touched EXCEPT ![t] = @ \cup {p}]
    /\ reads' = IF RecordsReads THEN [reads EXCEPT ![t] = @ \cup KeysOf(p)] ELSE reads
    /\ UNCHANGED <<dataVars, open, stagedIn, staging, placeVars, returned>>

\* validate_accesses_ of one part, which early-outs when nothing was drawn since.
Conflicts(t, p) ==
    /\ drawn # snapshot[t]
    /\ \E k \in KeysOf(p) \cap (DOMAIN changed[t] \cup reads[t]) : ChangedSince(k, snapshot[t])

Stage(t) ==
    /\ Calling(t, "stage") /\ Settled(t)
    /\ MoveOn(t, "staging", touched[t])
    /\ staging' = [staging EXCEPT ![t] = @ \/ touched[t] = {}]
    /\ UNCHANGED <<dataVars, open, lockVars, changed, reads, stagedIn, placeVars, touched, returned>>

\* The parts this call has staged: those below the one it stands at.
StagedSoFar(t) == {p \in stagedIn[t] : p \in touched[t] /\ p < Wanted(t)}

\* The refusal returned without undoing what already landed.
MutantUndo(t) == {}

Undo(t) == StagedSoFar(t)

\* stage of one part: it refuses a conflict and a part already staged.
StagePart(t) ==
    LET p == Wanted(t) IN
    /\ Visiting(t, "staging")
    /\ IF Conflicts(t, p) \/ p \in stagedIn[t]
       THEN /\ MoveOn(t, "undoing", Undo(t))
            /\ UNCHANGED <<stagedIn, staging>>
       ELSE /\ stagedIn' = [stagedIn EXCEPT ![t] = @ \cup {p}]
            /\ MoveOn(t, "staging", todo[t] \ {p})
            /\ staging' = [staging EXCEPT ![t] = @ \/ todo[t] = {p}]
    /\ Note({p})
    /\ UNCHANGED <<dataVars, open, holder, sharers, changed, reads, placeVars, touched, returned>>

UndoPart(t) ==
    /\ Visiting(t, "undoing") /\ Visited(t)
    /\ stagedIn' = [stagedIn EXCEPT ![t] = @ \ {Wanted(t)}]
    /\ UNCHANGED <<dataVars, open, changed, reads, staging, placeVars, touched, returned>>

Rollback(t) ==
    /\ Calling(t, "rollback") /\ Settled(t)
    /\ MoveOn(t, "rolling", touched[t])
    /\ staging' = [staging EXCEPT ![t] = @ /\ touched[t] # {}]
    /\ UNCHANGED <<dataVars, open, lockVars, changed, reads, stagedIn, placeVars, touched, returned>>

\* A part that staged nothing refuses, every other is still attempted, and the
\* transaction stays staged when any refused (kept in op, the phase naming the call).
RollbackPart(t) ==
    LET p == Wanted(t)
        refused == op[t] = "refused" \/ p \notin stagedIn[t] IN
    /\ Visiting(t, "rolling")
    /\ IF todo[t] = {p} THEN Returns(t)
       ELSE /\ todo' = [todo EXCEPT ![t] = @ \ {p}]
            /\ op' = [op EXCEPT ![t] = IF refused THEN "refused" ELSE "none"]
            /\ UNCHANGED <<pc, key, stamp>>
    /\ stagedIn' = [stagedIn EXCEPT ![t] = @ \ {p}]
    /\ staging' = [staging EXCEPT ![t] = @ /\ (todo[t] = {p} => refused)]
    /\ Note({p})
    /\ UNCHANGED <<dataVars, open, holder, sharers, changed, reads, placeVars, touched, returned>>

Reset(t) ==
    /\ Calling(t, "reset") /\ Settled(t)
    /\ open' = Leased(t)
    /\ snapshot' = [snapshot EXCEPT ![t] = Watermark]
    /\ own' = [own EXCEPT ![t] = 0]
    /\ staging' = [staging EXCEPT ![t] = FALSE]
    /\ touched' = [touched EXCEPT ![t] = {}]
    /\ MoveOn(t, "resetting", Partitions)
    /\ UNCHANGED <<dataVars, lockVars, changed, reads, stagedIn, unsettled, returned>>

ResetPart(t) ==
    LET p == Wanted(t) IN
    /\ Visiting(t, "resetting") /\ Visited(t)
    /\ stagedIn' = [stagedIn EXCEPT ![t] = @ \ {p}]
    /\ reads' = [reads EXCEPT ![t] = @ \ KeysOf(p)]
    /\ changed' = [changed EXCEPT ![t] = [k \in DOMAIN @ \ KeysOf(p) |-> @[k]]]
    /\ UNCHANGED <<dataVars, open, staging, placeVars, touched, returned>>

\* The destructor: the lease goes first, then each part takes its staged versions
\* out of its store, holding no lock of the partitioned store.
Drop(t) ==
    /\ Calling(t, "drop") /\ IsOpen(t)
    /\ stagedIn[t] # {} => DropsStaged
    /\ open' = Retired(t)
    /\ MoveOn(t, "dropping", stagedIn[t])
    /\ staging' = [staging EXCEPT ![t] = FALSE]
    /\ touched' = [touched EXCEPT ![t] = {}]
    /\ reads' = [reads EXCEPT ![t] = {}] /\ changed' = [changed EXCEPT ![t] = <<>>]
    /\ snapshot' = [snapshot EXCEPT ![t] = 0] /\ unsettled' = [unsettled EXCEPT ![t] = 0]
    /\ own' = [own EXCEPT ![t] = 0]
    /\ UNCHANGED <<dataVars, lockVars, stagedIn, returned>>

\* The part it is inside of is the greatest left: members go in reverse order.
DropPart(t) ==
    /\ pc[t] = "dropping"
    /\ stagedIn' = [stagedIn EXCEPT ![t] = @ \ {Max(todo[t])}]
    /\ MoveOn(t, "dropping", todo[t] \ {Max(todo[t])})
    /\ UNCHANGED <<dataVars, open, lockVars, changed, reads, staging, placeVars, touched, returned>>

(* Holding several partitions.                                             *)

\* The order of acquisition left to chance.
MutantNext(t, p) == p \in todo[t]

\* every_part_lock and touched_parts_lock_t take the marked partitions ascending.
TakesNext(t, p) == p = Wanted(t)

Acquire(t) ==
    /\ pc[t] = "locking" /\ todo[t] # {}
    /\ \E p \in Partitions :
        /\ TakesNext(t, p)
        /\ IF op[t] \in SharedWalks
           THEN /\ holder[p] = Nobody
                /\ sharers' = [sharers EXCEPT ![p] = @ \cup {t}]
                /\ UNCHANGED holder
           ELSE /\ Free(p)
                /\ holder' = [holder EXCEPT ![p] = t]
                /\ UNCHANGED sharers
        /\ todo' = [todo EXCEPT ![t] = @ \ {p}]
    /\ UNCHANGED <<dataVars, open, uncounted, pc, op, key, stamp, workVars, placeVars, touched, returned>>

HoldsAll(t, kind) == pc[t] = "locking" /\ todo[t] = {} /\ op[t] = kind

\* A refusal gives every lock back and writes nothing.
Refuse(t) ==
    /\ Release(t) /\ Note(Held(t)) /\ Returns(t)
    /\ UNCHANGED <<dataVars, open, workVars, placeVars, touched, returned>>

\* begin_commit: the stamp is drawn before anything carrying it is written.
Draw(t, entry) ==
    /\ pc' = [pc EXCEPT ![t] = "landing"]
    /\ drawn' = drawn + 1
    /\ writing' = writing \cup {drawn'}
    /\ log' = Append(log, entry)
    /\ stamp' = [stamp EXCEPT ![t] = drawn']

Commit(t) ==
    /\ Calling(t, "commit") /\ Settled(t)
    /\ Lock(t, "commit", 0, touched[t])
    /\ UNCHANGED <<dataVars, open, lockVars, workVars, placeVars, touched, returned>>

\* What was validated when staging not asked again.
MutantPermitted(t) == touched[t] \subseteq stagedIn[t]

\* validate_for_commit of every reached part, all of them held.
Permitted(t) == \A p \in touched[t] : p \in stagedIn[t] /\ ~Conflicts(t, p)

CommitRefused(t) == HoldsAll(t, "commit") /\ ~Permitted(t) /\ Refuse(t)

\* A read outlives a commit, which forgets only the parts it marked: who goes on
\* reading after one rests on what it reads in the parts reached again.
RestsOn(t) == IF own[t] = 0 THEN reads[t] ELSE {k \in reads[t] : Bucket(k) \in touched[t]}

CommitDraws(t) ==
    /\ HoldsAll(t, "commit") /\ Permitted(t)
    /\ Draw(t, Entry(changed[t], RestsOn(t), snapshot[t], drawn + 1))
    /\ UNCHANGED <<versions, open, lockVars, op, key, todo, workVars, placeVars, touched, returned>>

\* publish_under of every part, end_commit, and the locks given back.
CommitLands(t) ==
    /\ pc[t] = "landing" /\ op[t] = "commit"
    /\ versions' = Written(versions, changed[t], stamp[t])
    /\ writing' = writing \ {stamp[t]}
    /\ stagedIn' = [stagedIn EXCEPT ![t] = {}]
    /\ Release(t) /\ Note(Held(t))
    /\ Become(t, "landed", {})
    /\ UNCHANGED <<drawn, log, open, changed, reads, staging, placeVars, touched, returned>>

Awaited(s) == AwaitsPublication => s <= Watermark

\* await_published at the strict level, then the lease moved: where the parts read
\* moves at the next call, in Settle.
CommitMovesLease(t) ==
    /\ pc[t] = "landed" /\ Awaited(stamp[t])
    /\ open' = Leased(t)
    /\ unsettled' = [unsettled EXCEPT ![t] = stamp[t]]
    /\ own' = [own EXCEPT ![t] = stamp[t]]
    /\ MoveOn(t, "pruning", touched[t])
    /\ returned' = IF touched[t] = {} THEN returned \cup {stamp[t]} ELSE returned
    /\ staging' = [staging EXCEPT ![t] = @ /\ touched[t] # {}]
    /\ UNCHANGED <<dataVars, lockVars, changed, reads, stagedIn, snapshot, touched>>

CommitPrunes(t) ==
    LET p == Wanted(t)
        last == todo[t] = {p} IN
    /\ Visiting(t, "pruning") /\ Visited(t)
    /\ versions' = PruneKeys(KeysOf(p) \cap DOMAIN changed[t])
    /\ changed' = [changed EXCEPT ![t] = [k \in DOMAIN @ \ KeysOf(p) |-> @[k]]]
    /\ touched' = [touched EXCEPT ![t] = IF last THEN {} ELSE @]
    /\ staging' = [staging EXCEPT ![t] = @ /\ ~last]
    /\ returned' = IF last THEN returned \cup {stamp[t]} ELSE returned
    /\ UNCHANGED <<drawn, writing, log, open, reads, stagedIn, placeVars>>

(* Direct writes: one key, one partition, one lock.                        *)

Direct(t, kind, k) ==
    /\ Calling(t, kind) /\ kind \in DirectWrites
    /\ Lock(t, kind, k, {Bucket(k)})
    /\ UNCHANGED <<dataVars, open, lockVars, workVars, placeVars, touched, returned>>

\* What the store shows now: the newest published stamp.
Present(k) == ReadAt(versions[k], Watermark) # 0

Admitted(kind, k) ==
    CASE kind = "insert" -> ~Present(k)
      [] kind \in {"update", "erase"} -> Present(k)
      [] OTHER -> TRUE

DirectRefused(t) ==
    /\ \E kind \in DirectWrites : HoldsAll(t, kind)
    /\ ~Admitted(op[t], key[t])
    /\ Refuse(t)

\* The one key a direct call writes.
DirectGroup(t) == [k \in {key[t]} |-> op[t] # "erase"]

DirectDraws(t) ==
    /\ \E kind \in DirectWrites : HoldsAll(t, kind)
    /\ Admitted(op[t], key[t])
    /\ Draw(t, Entry(DirectGroup(t), {}, drawn, drawn + 1))
    /\ UNCHANGED <<versions, open, lockVars, op, key, todo, workVars, placeVars, touched, returned>>

DirectLands(t) ==
    /\ pc[t] = "landing" /\ op[t] \in DirectWrites
    /\ versions' = Written(versions, log[stamp[t]].writes, stamp[t])
    /\ writing' = writing \ {stamp[t]}
    /\ Become(t, "finishing", {})
    /\ UNCHANGED <<drawn, log, open, lockVars, workVars, placeVars, touched, returned>>

\* stamp_as_one_commit_ waits inside the part.
PublishedFor(s) == AwaitsPublication => s <= Watermark

\* await_published and prune_each_, both under the partition's lock.
DirectFinishes(t) ==
    /\ pc[t] = "finishing" /\ PublishedFor(stamp[t])
    /\ versions' = PruneKeys({key[t]})
    /\ Release(t) /\ Note(Held(t))
    /\ Returns(t)
    /\ returned' = returned \cup {stamp[t]}
    /\ UNCHANGED <<drawn, writing, log, open, workVars, placeVars, touched>>

(* Calls holding every partition.                                          *)

Whole(t, kind) ==
    /\ Calling(t, kind) /\ kind \in WholeWrites \cup {"walk"}
    /\ Lock(t, kind, 0, Partitions)
    /\ UNCHANGED <<dataVars, open, lockVars, workVars, placeVars, touched, returned>>

\* A bound, a range or an ordinal of the merged order: nothing is written, and what a
\* transaction read there is filed.
WalkEnds(t) ==
    /\ \E kind \in SharedWalks : HoldsAll(t, kind)
    /\ Release(t) /\ Returns(t)
    /\ reads' = IF op[t] = "scan" /\ RecordsReads THEN [reads EXCEPT ![t] = Keys] ELSE reads
    /\ UNCHANGED <<dataVars, open, uncounted, changed, stagedIn, staging, placeVars, touched, returned>>

Shown(p) == {k \in KeysOf(p) : Present(k)}
AllErased(ks) == [k \in ks |-> FALSE]

\* One partition's erasure, a commit of its own: no other stamp is in flight, since
\* every commit holds its partitions until it has landed.
EraseTogether(t, ks, first) ==
    /\ drawn' = drawn + 1
    /\ log' = Append(log, Entry(AllErased(ks), {}, drawn, first))
    /\ versions' = [k \in Keys |->
                       IF k \in ks THEN Pruned(versions[k] \cup {[stamp |-> drawn', here |-> FALSE]}, LowWaterMark)
                                   ELSE versions[k]]
    /\ UNCHANGED writing

\* erase_range: the partitions one after another, all held, attempting every one.
EraseBegins(t) ==
    /\ HoldsAll(t, "erase_range")
    /\ Become(t, "erasing", Partitions)
    /\ UNCHANGED <<dataVars, open, lockVars, workVars, placeVars, touched, returned>>

ErasePart(t) ==
    LET p == Wanted(t) IN
    /\ pc[t] = "erasing" /\ todo[t] # {}
    /\ IF Shown(p) = {}
       THEN UNCHANGED <<dataVars, stamp>>
       ELSE /\ EraseTogether(t, Shown(p), IF stamp[t] = 0 THEN drawn + 1 ELSE stamp[t])
            /\ stamp' = [stamp EXCEPT ![t] = IF @ = 0 THEN drawn' ELSE @]
    /\ todo' = [todo EXCEPT ![t] = @ \ {p}]
    /\ UNCHANGED <<open, lockVars, pc, op, key, workVars, placeVars, touched, returned>>

\* for_all counts every partition once it has given them all back.
EraseEnds(t) ==
    /\ pc[t] = "erasing" /\ todo[t] = {}
    /\ Release(t) /\ Note(Partitions) /\ Returns(t)
    /\ UNCHANGED <<dataVars, open, workVars, placeVars, touched, returned>>

\* pop_smallest: the least key of the merged order, and no partition counted.
PopSmallest(t) ==
    LET shown == UNION {Shown(p) : p \in Partitions} IN
    /\ HoldsAll(t, "pop_smallest")
    /\ IF shown = {} THEN UNCHANGED dataVars ELSE EraseTogether(t, {Min(shown)}, drawn + 1)
    /\ Release(t) /\ Returns(t)
    /\ UNCHANGED <<open, uncounted, workVars, placeVars, touched, returned>>

(* Calls taking one partition at a time.                                   *)

Sweep(t, kind) ==
    /\ Calling(t, kind) /\ kind \in {"vacuum", "clear"}
    /\ MoveOn(t, kind, Partitions)
    /\ UNCHANGED <<dataVars, open, lockVars, workVars, placeVars, touched, returned>>

VacuumPart(t) ==
    /\ Visiting(t, "vacuum") /\ Visited(t)
    /\ versions' = PruneKeys(KeysOf(Wanted(t)))
    /\ UNCHANGED <<drawn, writing, log, open, workVars, placeVars, touched, returned>>

\* A reader opened midway overlooked.
MutantHasReaders == FALSE
HasReaders == DOMAIN open # {}

\* clear of one part: refused while any snapshot is open, which ends the walk.
ClearPart(t) ==
    LET p == Wanted(t) IN
    /\ Visiting(t, "clear")
    /\ MoveOn(t, "clear", IF HasReaders THEN {} ELSE todo[t] \ {p})
    /\ versions' = [k \in Keys |-> IF ~HasReaders /\ Bucket(k) = p THEN {} ELSE versions[k]]
    /\ Note({p})
    /\ UNCHANGED <<drawn, writing, log, open, holder, sharers, workVars, placeVars, touched, returned>>

Transacts(t) ==
    \/ Open(t) \/ OpenPart(t) \/ Settle(t) \/ Stage(t) \/ StagePart(t) \/ UndoPart(t)
    \/ Rollback(t) \/ RollbackPart(t) \/ Reset(t) \/ ResetPart(t) \/ Drop(t) \/ DropPart(t)
    \/ Commit(t) \/ CommitRefused(t) \/ CommitDraws(t) \/ CommitLands(t)
    \/ CommitMovesLease(t) \/ CommitPrunes(t)
    \/ Scan(t) \/ UnwriteAll(t) \/ UnwritePart(t)
    \/ \E k \in Keys :
          \/ Read(t, k) \/ Write(t, k)
          \/ \E kind \in {"add", "revise", "unwrite"} : WriteChecked(t, k, kind)

WritesDirectly(t) ==
    \/ \E k \in Keys, kind \in DirectWrites : Direct(t, kind, k)
    \/ DirectRefused(t) \/ DirectDraws(t) \/ DirectLands(t) \/ DirectFinishes(t)

WalksAll(t) ==
    \/ \E kind \in WholeWrites \cup {"walk"} : Whole(t, kind)
    \/ WalkEnds(t) \/ EraseBegins(t) \/ ErasePart(t) \/ EraseEnds(t) \/ PopSmallest(t)
    \/ \E kind \in {"vacuum", "clear"} : Sweep(t, kind)
    \/ VacuumPart(t) \/ ClearPart(t)

Next == \E t \in Threads : Acquire(t) \/ Transacts(t) \/ WritesDirectly(t) \/ WalksAll(t)

Spec == Init /\ [][Next]_vars

\* A thread that needs no lock runs on: what it drew it lands, and waits no longer
\* than its publication.  Nothing is promised to who waits for a lock: the default
\* mutex lets a writer overtake a writer.
Landing(t) == CommitLands(t) \/ CommitMovesLease(t) \/ DirectLands(t) \/ DirectFinishes(t)

FairSpec == Spec /\ \A t \in Threads : WF_vars(Landing(t))

----------------------------------------------------------------------------

Phases == {"idle", "opening", "staging", "undoing", "rolling", "resetting", "dropping", "unwriting", "locking",
           "landing", "landed", "pruning", "finishing", "erasing", "vacuum", "clear"}

TypeOK ==
    /\ \A k \in Keys : \A v \in versions[k] : v.stamp \in 1..drawn /\ v.here \in BOOLEAN
    /\ drawn \in 0..MaxStamp /\ writing \subseteq 1..drawn /\ Len(log) = drawn
    /\ DOMAIN open \subseteq Threads /\ \A t \in DOMAIN open : open[t] \in 0..drawn
    /\ holder \in [Partitions -> Threads \cup {Nobody}] /\ sharers \in [Partitions -> SUBSET Threads]
    /\ uncounted \subseteq Partitions
    /\ pc \in [Threads -> Phases] /\ key \in [Threads -> Keys \cup {0}]
    /\ \A t \in Threads : todo[t] \subseteq Partitions /\ stamp[t] \in 0..drawn
    /\ snapshot \in [Threads -> 0..drawn] /\ unsettled \in [Threads -> 0..drawn]
    /\ touched \in [Threads -> SUBSET Partitions] /\ stagedIn \in [Threads -> SUBSET Partitions]
    /\ staging \in [Threads -> BOOLEAN]
    /\ changed \in [Threads -> Partial(BOOLEAN)] /\ reads \in [Threads -> SUBSET Keys]
    /\ own \in [Threads -> 0..drawn] /\ returned \subseteq 1..drawn

\* What the commits up to a stamp made of a key: the element's stamp, or 0.
Committed(k, at) ==
    LET wrote == {s \in 1..at : k \in DOMAIN log[s].writes}
    IN  IF wrote # {} /\ log[Max(wrote)].writes[k] THEN Max(wrote) ELSE 0

\* A settled transaction reads, in every partition, exactly the commits its snapshot
\* names: none in part, none missing because an older one was still landing, none
\* pruned by a commit that had already given up its own claim.
SnapshotWhole ==
    \A t \in Threads : Settled(t) =>
        \A k \in Keys : ReadAt(versions[k], snapshot[t]) = Committed(k, snapshot[t])

ReadsRepeat ==
    \A t \in Threads :
        Settled(t) /\ Settled(t)' /\ snapshot'[t] = snapshot[t] /\ pc'[t] # "opening"
        => \A k \in Keys : ReadAt(versions[k], snapshot[t])' = ReadAt(versions[k], snapshot[t])

\* What a transaction reads never changes under it, though other threads overwrite, vacuum and clear one
\* partition after another (vacuum, clear, low_water_mark).
ReadsStand == [][ReadsRepeat]_vars

\* First committer wins across partitions: no commit over several of them lands over a
\* write, or at the validating levels over a read, a bound or a missing key, that an
\* earlier stamp above its snapshot changed (validate_for_commit,
\* commit_under_one_stamp_, mark_every_part_).
FirstCommitterWins ==
    \A s \in 1..drawn : \A earlier \in (log[s].since + 1)..(s - 1) :
        DOMAIN log[earlier].writes \cap (DOMAIN log[s].writes \cup log[s].reads) = {}

\* A transaction that committed reads its own commit at its next call.
OwnCommitRead == \A t \in Threads : Settled(t) => own[t] <= snapshot[t]

\* Strict: who arrives after a write returned is given a snapshot naming it.
ReturnedIsVisible == \A s \in returned : s <= Watermark

\* Between calls a transaction is staged in every part it reached, or in none: no
\* partial stage, and no commit meeting a part that was never staged.
StagedWhole ==
    \A t \in Threads : pc[t] = "idle" => stagedIn[t] = IF staging[t] THEN touched[t] ELSE {}

WalksParts == {"opening", "staging", "undoing", "rolling", "resetting", "unwriting", "pruning", "vacuum", "clear",
               "locking"}

WaitsFor(t, u) ==
    \/ /\ pc[t] \in WalksParts /\ todo[t] # {}
       /\ \/ holder[Wanted(t)] = u
          \/ u \in sharers[Wanted(t)] /\ ~(pc[t] = "locking" /\ op[t] \in SharedWalks)
    \/ /\ pc[t] \in {"landed", "finishing"} /\ ~PublishedFor(stamp[t])
       /\ pc[u] = "landing" /\ stamp[u] < stamp[t]

\* However locks and publications are waited for, some thread of every group can go on.
NobodyWaitsInACircle ==
    \A circle \in (SUBSET Threads) \ {{}} : \E t \in circle : \A u \in circle : ~WaitsFor(t, u)

=============================================================================
