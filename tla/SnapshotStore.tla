--------------------------- MODULE SnapshotStore ---------------------------
(***************************************************************************)
(* snapshot_store (snapshot_store.hpp): a transactional store answering    *)
(* every read of a transaction at one snapshot, over a core holding one    *)
(* entry per (key, generation) pair.                                       *)
(*                                                                         *)
(* The store is not thread-safe by itself, so every public call is one     *)
(* action, and any number of transactions and publications stand open      *)
(* between calls.  Its clock is at rest between calls: every stamp drawn   *)
(* has landed, and the low-water mark is the oldest open snapshot or the   *)
(* watermark, which is what SnapshotClockProofs proves of snapshot_clock_t.*)
(*                                                                         *)
(* A core is taken for what it does, a map from pairs to versions whose    *)
(* upsert overwrites.  A payload is a value, Absent for a tombstone, or    *)
(* Unset, the key-only element of a placeholder no payload was moved onto. *)
(***************************************************************************)
EXTENDS Naturals, FiniteSets, FiniteSetsExt

CONSTANTS
    KeyCount,       \* keys are 1..KeyCount, in the order of the core
    Transactions,   \* transaction_t frames
    Publications,   \* publication_t frames
    Values, Absent, Unset,
    Isolation,      \* "snapshot" or "serializable"; strict refuses the same
    MaxStamp,       \* bound: commits drawn in a behaviour
    MaxGeneration,  \* bound: generations carried at once
    MaxReads,       \* bound: answers a transaction collects before it commits
    ReusesCommitted,   \* callers write again with a transaction that committed
    RollbackFails,     \* an allocation inside rollback may fail
    ClearsPublications \* callers clear the store over an unpublished publication

ASSUME StoreAssumption ==
    /\ KeyCount \in Nat /\ MaxStamp \in Nat /\ MaxGeneration \in Nat /\ MaxReads \in Nat
    /\ Isolation \in {"snapshot", "serializable"}
    /\ Absent \notin Values /\ Unset \notin Values /\ Absent # Unset
    /\ {ReusesCommitted, RollbackFails, ClearsPublications} \subseteq BOOLEAN

Keys == 1..KeyCount
Intervals == {lower..upper : lower, upper \in Keys}
Generations == 1..MaxGeneration
Payloads == Values \cup {Absent, Unset}
Partial(S) == UNION {[ks -> S] : ks \in SUBSET Keys}

\* commit_stamp_t::uncommitted_k and latest_snapshot_k: the greatest number,
\* so that one comparison settles visibility, and the one just below it.
Uncommitted == MaxStamp + 1
LatestSnapshot == MaxStamp

VARIABLES
    entries,         \* entries_
    publishedStamp,  \* the watermark of the clock
    liveCount,       \* live_count_
    open,            \* transactions holding their lease
    snapshot, generation, staging, changes, changed,  \* members of transaction_t
    reads, windows,  \* accesses_: keys read, and keys inside a window read
    readSet,         \* read_set_
    filed, filedAs,  \* staged_identifiers_ and generation_ of publication_t
    \* What callers were told, which no guard reads.
    latest,          \* the committed state: payload and date of every key
    view,            \* the committed state each transaction opened on
    answers          \* what a transaction was answered since it opened

storeVars == <<entries, publishedStamp, liveCount, latest>>
accessVars == <<reads, windows, readSet, answers>>
writeVars == <<generation, staging, changes, changed>>
leaseVars == <<open, snapshot, view>>
publicationVars == <<filed, filedAs>>
vars == <<storeVars, accessVars, writeVars, leaseVars, publicationVars>>

Validates == Isolation = "serializable"

----------------------------------------------------------------------------
(* Versions.                                                               *)

VisibleAt(stamp, at) == stamp <= at

VersionsOf(e, k) == {d \in DOMAIN e : d[1] = k}

\* visible_version_: of what the snapshot sees, the greatest stamp; one or none.
VisibleVersion(e, k, at) ==
    LET seen == {d \in VersionsOf(e, k) : VisibleAt(e[d].committed, at)}
    IN  {d \in seen : \A other \in seen : e[other].committed <= e[d].committed}

\* readable_version_: a tombstone is not an element.
ReadableVersion(e, k, at) == {d \in VisibleVersion(e, k, at) : e[d].payload # Absent}

ReadAt(e, at) ==
    [k \in Keys |-> IF ReadableVersion(e, k, at) = {} THEN Absent
                    ELSE (CHOOSE p \in {e[d].payload : d \in ReadableVersion(e, k, at)} : TRUE)]

(* Operators named Mutant... are plausible slips of the definition that      *)
(* follows; the runs show which property each of them breaks.              *)

\* Only an element counts as a change, so a deletion conflicts with nothing.
MutantChangedSince(e, k, at) ==
    \E d \in ReadableVersion(e, k, LatestSnapshot) : ~VisibleAt(e[d].committed, at)

ChangedSince(e, k, at) ==
    \E d \in VersionsOf(e, k) : /\ e[d].committed # Uncommitted
                                /\ ~VisibleAt(e[d].committed, at)

\* upsert of entries_ for a group written under one generation.
Filed(e, group, g) ==
    LET new == {<<k, g>> : k \in DOMAIN group}
    IN  [d \in DOMAIN e \cup new |->
            IF d \in new THEN [committed |-> Uncommitted, payload |-> group[d[1]], survivor |-> FALSE]
                         ELSE e[d]]

\* Nothing dropped.
MutantDropped(e, ks, g) == e

\* drop_version_ of every listed key: only the writer names its generation.
Dropped(e, ks, g) == [d \in DOMAIN e \ (ks \X {g}) |-> e[d]]

\* stamp_under_: the versions named, the stamp written onto them in place.
Stamped(e, ks, g, stamp) ==
    [d \in DOMAIN e |-> IF d \in ks \X {g} THEN [e[d] EXCEPT !.committed = stamp] ELSE e[d]]

Readable(e) == {k \in Keys : ReadableVersion(e, k, LatestSnapshot) # {}}

\* The new version tagged, the one it supersedes left tagged.
MutantPublished(e, ks, g, stamp) ==
    LET stamped == Stamped(e, ks, g, stamp)
    IN  [d \in DOMAIN e |->
            [stamped[d] EXCEPT !.survivor =
                @ \/ (d[1] \in ks /\ d \in ReadableVersion(stamped, d[1], LatestSnapshot))]]

\* publish_version_ and mark_liveness_, key by key: the tag moves from what the
\* key read before to what it reads now.
Published(e, ks, g, stamp) ==
    LET stamped == Stamped(e, ks, g, stamp)
    IN  [d \in DOMAIN e |->
            [stamped[d] EXCEPT !.survivor =
                IF <<d[1], g>> \notin DOMAIN e \/ d[1] \notin ks THEN @
                ELSE (d \in ReadableVersion(stamped, d[1], LatestSnapshot))
                     \/ (@ /\ d \notin ReadableVersion(e, d[1], LatestSnapshot))]]

\* A tombstone the mark reads is kept.
MutantUnreachable(e, d, mark) ==
    VisibleAt(e[d].committed, mark) /\ d \notin VisibleVersion(e, d[1], mark)

\* Whatever the mark sees goes, its own answer included.
MutantUnreachableSwept(e, d, mark) == VisibleAt(e[d].committed, mark)

\* unreachable_: masked by the version the mark reads, or a tombstone itself.
Unreachable(e, d, mark) ==
    /\ VisibleAt(e[d].committed, mark)
    /\ d \notin VisibleVersion(e, d[1], mark) \/ e[d].payload = Absent

\* prune_each_ and vacuum_runs_ over the keys named.
Pruned(e, ks, mark) ==
    [d \in {x \in DOMAIN e : x[1] \in ks => ~Unreachable(e, x, mark)} |-> e[d]]

\* The watermark, whoever reads.
MutantLowWaterMark(readers, snap, published) == published

\* low_water_mark of the clock at rest.
LowWaterMark(readers, snap, published) ==
    IF readers = {} THEN published ELSE Min({snap[t] : t \in readers})

\* next_generation counts up for ever; what matters is that nobody carries the number.
Carried ==
    {d[2] : d \in DOMAIN entries} \cup {generation[t] : t \in open}
        \cup {filedAs[p] : p \in {q \in Publications : filed[q] # {}}}
FreshGeneration == CHOOSE g \in Generations \ Carried : \A h \in Generations \ Carried : g <= h

\* The keys among ks whose version under g really stands in e.
Standing(e, ks, g) == {k \in ks : <<k, g>> \in DOMAIN e}

StateAfter(e, ks, g, stamp) ==
    [k \in Keys |-> IF k \in Standing(e, ks, g) THEN [payload |-> e[<<k, g>>].payload, since |-> stamp]
                                                ELSE latest[k]]

----------------------------------------------------------------------------
(* Reads.                                                                  *)

Overlay(state, own) == [k \in Keys |-> IF k \in DOMAIN own THEN own[k] ELSE state[k]]

\* What find answers a transaction: its own pending writes, else its snapshot.
Reads(t) == Overlay(ReadAt(entries, snapshot[t]), changes[t])

Payload(state) == [k \in Keys |-> state[k].payload]

PresentIn(v) == {k \in Keys : v[k] # Absent}
Before(landed) == {k \in Keys : \A f \in landed : k < f}
First(ks) == {k \in ks : \A other \in ks : k <= other}

Queries ==
    [op : {"find", "lower_bound", "upper_bound", "rank"}, key : Keys]
        \cup [op : {"range"}, keys : Intervals]
        \cup [op : {"select"}, ordinal : 0..KeyCount - 1]
        \cup [op : {"smallest", "for_each"}]

\* The key a bounded or ordinal read lands on, if any.
Landed(q, v) ==
    CASE q.op = "lower_bound" -> First({k \in PresentIn(v) : k >= q.key})
      [] q.op = "upper_bound" -> First({k \in PresentIn(v) : k > q.key})
      [] q.op = "smallest" -> First(PresentIn(v))
      [] q.op = "select" ->
            {k \in PresentIn(v) : Cardinality(PresentIn(v) \cap 1..k - 1) = q.ordinal}

Answer(q, v) ==
    CASE q.op = "find" -> v[q.key]
      [] q.op = "rank" -> IF v[q.key] = Absent THEN Absent
                          ELSE Cardinality(PresentIn(v) \cap 1..q.key - 1)
      [] q.op = "range" -> [k \in q.keys |-> v[k]]
      [] q.op = "for_each" -> v
      [] OTHER -> {<<k, v[k]>> : k \in Landed(q, v)}

\* What the read writes down: keys, windows, or that it names no key at all.
Footprint(keysRead, window, whole) == [reads |-> keysRead, windows |-> window, whole |-> whole]

\* The gaps a read walked over are not written down.
MutantRecorded(q, v) ==
    CASE q.op \in {"find", "rank"} -> Footprint({q.key}, {}, FALSE)
      [] q.op = "range" -> Footprint(PresentIn(v) \cap q.keys, {}, FALSE)
      [] q.op = "for_each" -> Footprint({}, {}, TRUE)
      [] OTHER -> Footprint(Landed(q, v), {}, Landed(q, v) = {})

Recorded(q, v) ==
    CASE q.op = "find" -> Footprint({q.key}, {}, FALSE)
      [] q.op = "rank" -> Footprint({q.key}, IF v[q.key] = Absent THEN {} ELSE 1..q.key - 1, FALSE)
      [] q.op = "range" -> Footprint({}, q.keys, FALSE)
      [] q.op = "for_each" -> Footprint({}, {}, TRUE)
      [] q.op \in {"lower_bound", "upper_bound"} ->
            Footprint(Landed(q, v), {k \in Before(Landed(q, v)) : k >= q.key}, FALSE)
      [] OTHER ->
            IF Landed(q, v) = {} THEN Footprint({}, {}, TRUE)
            ELSE Footprint(Landed(q, v), Before(Landed(q, v)), FALSE)

\* record_read_, record_window_read_ and record_whole_keyspace_read_: nothing
\* below serializable_k; a read that cannot be written down latches the set.
Record(t, footprint) ==
    IF ~Validates THEN UNCHANGED <<reads, windows, readSet>>
    ELSE \/ /\ reads' = [reads EXCEPT ![t] = @ \cup footprint.reads]
            /\ windows' = [windows EXCEPT ![t] = @ \cup footprint.windows]
            /\ readSet' = [readSet EXCEPT ![t] = IF footprint.whole THEN "covers_everything" ELSE @]
         \/ /\ ~footprint.whole
            /\ readSet' = [readSet EXCEPT ![t] = "unrecorded"]
            /\ UNCHANGED <<reads, windows>>

\* The answer handed to the caller, which a failed record does not take back.
Answered(t, q) ==
    IF ~Validates THEN UNCHANGED answers
    ELSE /\ Cardinality(answers[t]) < MaxReads
         /\ answers' = [answers EXCEPT ![t] =
                @ \cup {[query |-> q, own |-> changes[t], answer |-> Answer(q, Reads(t))]}]

----------------------------------------------------------------------------

Nothing == [k \in Keys |-> [payload |-> Absent, since |-> 0]]

Init ==
    /\ entries = <<>> /\ publishedStamp = 0 /\ liveCount = 0 /\ open = {}
    /\ snapshot = [t \in Transactions |-> 0] /\ generation = [t \in Transactions |-> 0]
    /\ staging = [t \in Transactions |-> "pending"]
    /\ changes = [t \in Transactions |-> <<>>] /\ changed = [t \in Transactions |-> {}]
    /\ reads = [t \in Transactions |-> {}] /\ windows = [t \in Transactions |-> {}]
    /\ readSet = [t \in Transactions |-> "names_every_key"]
    /\ filed = [p \in Publications |-> {}] /\ filedAs = [p \in Publications |-> 0]
    /\ latest = Nothing /\ view = [t \in Transactions |-> Nothing]
    /\ answers = [t \in Transactions |-> {}]

\* The pending payloads survive the list of their keys.
MutantBlank(t) ==
    /\ staging' = [staging EXCEPT ![t] = "pending"]
    /\ UNCHANGED changes /\ changed' = [changed EXCEPT ![t] = {}]
    /\ reads' = [reads EXCEPT ![t] = {}] /\ windows' = [windows EXCEPT ![t] = {}]
    /\ readSet' = [readSet EXCEPT ![t] = "names_every_key"]
    /\ answers' = [answers EXCEPT ![t] = {}]

\* Nothing read, nothing written.
Blank(t) ==
    /\ staging' = [staging EXCEPT ![t] = "pending"]
    /\ changes' = [changes EXCEPT ![t] = <<>>] /\ changed' = [changed EXCEPT ![t] = {}]
    /\ reads' = [reads EXCEPT ![t] = {}] /\ windows' = [windows EXCEPT ![t] = {}]
    /\ readSet' = [readSet EXCEPT ![t] = "names_every_key"]
    /\ answers' = [answers EXCEPT ![t] = {}]

\* take_snapshot by the lease of t, on the committed state as it will stand.
TakeSnapshot(t) ==
    /\ open' = open \cup {t}
    /\ snapshot' = [snapshot EXCEPT ![t] = publishedStamp']
    /\ view' = [view EXCEPT ![t] = latest']

\* unstage_, where anything of t is staged.
Unstaged(t) ==
    IF staging[t] = "staged" THEN Dropped(entries, changed[t], generation[t]) ELSE entries

\* transaction(): a generation and a snapshot.
Open(t) ==
    /\ t \notin open
    /\ Carried # Generations
    /\ generation' = [generation EXCEPT ![t] = FreshGeneration]
    /\ UNCHANGED <<storeVars, accessVars, staging, changes, changed, publicationVars>>
    /\ TakeSnapshot(t)

\* Any read; a staged transaction still answers.
Read(t, q) ==
    /\ t \in open
    /\ Record(t, Recorded(q, Reads(t))) /\ Answered(t, q)
    /\ UNCHANGED <<storeVars, writeVars, leaseVars, publicationVars>>

\* watch: the read recorded at every level, dated by what the snapshot resolves.
Watch(t, k) ==
    /\ t \in open
    /\ Cardinality(answers[t]) < MaxReads
    /\ \/ reads' = [reads EXCEPT ![t] = @ \cup {k}] /\ UNCHANGED readSet
       \/ readSet' = [readSet EXCEPT ![t] = "unrecorded"] /\ UNCHANGED reads
    /\ answers' = [answers EXCEPT ![t] =
            @ \cup {[query |-> [op |-> "watch", key |-> k], own |-> <<>>, answer |-> view[t][k].since]}]
    /\ UNCHANGED <<storeVars, windows, writeVars, leaseVars, publicationVars>>

\* A generation is redrawn by rollback and reset and never by commit, so a
\* committed transaction keeps the one its committed versions carry.
Spent(t) == staging[t] = "pending" /\ \E d \in DOMAIN entries : d[2] = generation[t]

Single(k, payload) == [j \in {k} |-> payload]

\* A pending payload written again is overwritten.
WrittenOver(group, pending) ==
    [k \in DOMAIN group \cup DOMAIN pending |-> IF k \in DOMAIN group THEN group[k] ELSE pending[k]]

\* stage_ of a group: refused once staged; each key listed as changed.
StageChanges(t, group) ==
    /\ t \in open /\ staging[t] = "pending"
    /\ ReusesCommitted \/ ~Spent(t)
    /\ changes' = [changes EXCEPT ![t] = WrittenOver(group, @)]
    /\ changed' = [changed EXCEPT ![t] = @ \cup DOMAIN group]
    /\ UNCHANGED <<storeVars, generation, staging, leaseVars, publicationVars>>

Upsert(t, k, v) == StageChanges(t, Single(k, v)) /\ UNCHANGED accessVars

\* insert, insert_if_missing, update and erase look first, and a look that
\* fails or finds otherwise leaves only the read, which is an action Read.
Probed(t, k, payload) ==
    /\ StageChanges(t, Single(k, payload))
    /\ Record(t, Footprint({k}, {}, FALSE)) /\ readSet' = readSet
    /\ Answered(t, [op |-> "find", key |-> k])

Insert(t, k, v) == t \in open /\ Reads(t)[k] = Absent /\ Probed(t, k, v)
Update(t, k, v) == t \in open /\ Reads(t)[k] # Absent /\ Probed(t, k, v)
Erase(t, k) == t \in open /\ Reads(t)[k] # Absent /\ Probed(t, k, Absent)

\* erase_range, erase_from, erase_up_to and clear: the window walked first, then
\* a tombstone per member, each looked up on its own.
EraseWalked(t, q) ==
    /\ t \in open
    /\ LET members == PresentIn(Reads(t)) \cap (IF q.op = "range" THEN q.keys ELSE Keys)
           walked == Recorded(q, Reads(t))
       IN  /\ StageChanges(t, [k \in members |-> Absent])
           /\ Record(t, [walked EXCEPT !.reads = members])
           /\ Answered(t, q)

\* update_range: the window walked first, then the revised copies written.
UpdateWalked(t, q, v) ==
    /\ t \in open
    /\ StageChanges(t, [k \in PresentIn(Reads(t)) \cap q.keys |-> v])
    /\ Record(t, Recorded(q, Reads(t)))
    /\ Answered(t, q)

\* What was written is not asked about, only what was read.
MutantValidated(t) ==
    \/ publishedStamp = snapshot[t]
    \/ /\ readSet[t] = "names_every_key"
       /\ \A k \in reads[t] \cup windows[t] : ~ChangedSince(entries, k, snapshot[t])

\* validate_accesses_: nothing drawn since the snapshot, or every key written
\* or read untouched since.
Validated(t) ==
    \/ publishedStamp = snapshot[t]
    \/ /\ readSet[t] = "names_every_key"
       /\ \A k \in changed[t] \cup reads[t] \cup windows[t] : ~ChangedSince(entries, k, snapshot[t])

\* The pass that moves the payloads forgotten.
MutantStagedPayloads(t) == [k \in changed[t] |-> Unset]

\* What stage files: a placeholder per changed key, a payload moved onto it
\* where one is pending.
StagedPayloads(t) ==
    [k \in changed[t] |-> IF k \in DOMAIN changes[t] THEN changes[t][k] ELSE Unset]

Stage(t) ==
    /\ t \in open /\ staging[t] = "pending" /\ Validated(t)
    /\ entries' = Filed(entries, StagedPayloads(t), generation[t])
    /\ changes' = [changes EXCEPT ![t] = <<>>]
    /\ staging' = [staging EXCEPT ![t] = "staged"]
    /\ UNCHANGED <<publishedStamp, liveCount, latest, accessVars, generation, changed, leaseVars, publicationVars>>

\* The placeholder pass runs out of memory after the keys in reserved.
StageFails(t, reserved) ==
    /\ t \in open /\ staging[t] = "pending" /\ Validated(t)
    /\ reserved \subseteq changed[t] /\ reserved # changed[t]
    /\ entries' = Dropped(entries, reserved, generation[t])
    /\ UNCHANGED <<publishedStamp, liveCount, latest, accessVars, writeVars, leaseVars, publicationVars>>

\* Stamps ks under g, then prunes what the mark, as it stands by then, lets go.
PublishAndPrune(e, ks, g) ==
    /\ publishedStamp < MaxStamp
    /\ publishedStamp' = publishedStamp + 1
    /\ LET published == Published(e, ks, g, publishedStamp')
       IN  /\ liveCount' = (liveCount + Cardinality(Readable(published))) - Cardinality(Readable(e))
           /\ entries' = Pruned(published, ks, LowWaterMark(open', snapshot', publishedStamp'))
    /\ latest' = StateAfter(e, ks, g, publishedStamp')

\* commit: asked again, published, and only then moved to the new snapshot.
\* The reads stay recorded.
Commit(t) ==
    /\ t \in open /\ staging[t] = "staged" /\ Validated(t)
    /\ publishedStamp' = publishedStamp + 1
    /\ latest' = StateAfter(entries, changed[t], generation[t], publishedStamp')
    /\ TakeSnapshot(t)
    /\ PublishAndPrune(entries, changed[t], generation[t])
    /\ staging' = [staging EXCEPT ![t] = "pending"]
    /\ changed' = [changed EXCEPT ![t] = {}]
    /\ answers' = [answers EXCEPT ![t] = {}]
    /\ UNCHANGED <<generation, changes, reads, windows, readSet, publicationVars>>

\* rollback: every staged version back aside, under a new generation; a key
\* whose payload could not be filed aside stays listed as changed.
Rollback(t, lost) ==
    /\ t \in open /\ staging[t] = "staged"
    /\ Carried # Generations
    /\ LET recovered == Standing(entries, changed[t], generation[t])
       IN  /\ lost \subseteq recovered
           /\ RollbackFails \/ lost = {}
           /\ changes' = [changes EXCEPT ![t] =
                    [k \in recovered \ lost |-> entries[<<k, generation[t]>>].payload]]
    /\ entries' = Dropped(entries, changed[t], generation[t])
    /\ staging' = [staging EXCEPT ![t] = "pending"]
    /\ generation' = [generation EXCEPT ![t] = FreshGeneration]
    /\ UNCHANGED <<publishedStamp, liveCount, latest, accessVars, changed, leaseVars, publicationVars>>

Reset(t) ==
    /\ t \in open
    /\ Carried # Generations
    /\ entries' = Unstaged(t)
    /\ Blank(t)
    /\ generation' = [generation EXCEPT ![t] = FreshGeneration]
    /\ UNCHANGED <<publishedStamp, liveCount, latest, publicationVars>>
    /\ TakeSnapshot(t)

\* The destructor, and a target's share of a move assignment.
Close(t) ==
    /\ t \in open
    /\ entries' = Unstaged(t)
    /\ Blank(t)
    /\ open' = open \ {t}
    /\ generation' = [generation EXCEPT ![t] = 0]
    /\ snapshot' = [snapshot EXCEPT ![t] = 0]
    /\ view' = [view EXCEPT ![t] = Nothing]
    /\ UNCHANGED <<publishedStamp, liveCount, latest, publicationVars>>

----------------------------------------------------------------------------
(* The store's own writes, each under a generation of its own.             *)

PublishGroup(group) ==
    /\ Carried # Generations
    /\ UNCHANGED <<accessVars, writeVars, leaseVars, publicationVars>>
    /\ PublishAndPrune(Filed(entries, group, FreshGeneration), DOMAIN group, FreshGeneration)

\* What a direct call reads: the newest published commit.
Current == ReadAt(entries, publishedStamp)

StoreUpsert(k, v) == PublishGroup(Single(k, v))
StoreInsert(k, v) == Current[k] = Absent /\ PublishGroup(Single(k, v))
StoreUpdate(k, v) == Current[k] # Absent /\ PublishGroup(Single(k, v))
StoreErase(k) == Current[k] # Absent /\ PublishGroup(Single(k, Absent))

\* commit_each_: the bulk writes, through a transaction that lives for the call.
CommitEach(group) == PublishGroup(group)

\* tombstone_walked_ and update_range: the window walked, one stamp for all of it.
TombstoneWalked(ks) ==
    LET members == PresentIn(Current) \cap ks
    IN  members # {} /\ PublishGroup([k \in members |-> Absent])

StoreUpdateRange(ks, v) ==
    LET members == PresentIn(Current) \cap ks
    IN  members # {} /\ PublishGroup([k \in members |-> v])

PopSmallest == \E k \in First(PresentIn(Current)) : StoreErase(k)

\* publication_t: filed invisibly one by one, stamped together.
File(p, k, payload) ==
    /\ filed[p] # {} \/ Carried # Generations
    /\ LET g == IF filed[p] = {} THEN FreshGeneration ELSE filedAs[p]
       IN  /\ entries' = Filed(entries, Single(k, payload), g)
           /\ filedAs' = [filedAs EXCEPT ![p] = g]
    /\ filed' = [filed EXCEPT ![p] = @ \cup {k}]
    /\ UNCHANGED <<publishedStamp, liveCount, latest, accessVars, writeVars, leaseVars>>

Publish(p) ==
    /\ filed[p] # {}
    /\ UNCHANGED <<accessVars, writeVars, leaseVars>>
    /\ PublishAndPrune(entries, filed[p], filedAs[p])
    /\ filed' = [filed EXCEPT ![p] = {}] /\ filedAs' = [filedAs EXCEPT ![p] = 0]

Withdraw(p) ==
    /\ filed[p] # {}
    /\ entries' = Dropped(entries, filed[p], filedAs[p])
    /\ filed' = [filed EXCEPT ![p] = {}] /\ filedAs' = [filedAs EXCEPT ![p] = 0]
    /\ UNCHANGED <<publishedStamp, liveCount, latest, accessVars, writeVars, leaseVars>>

Vacuum(ks) ==
    /\ entries' = Pruned(entries, ks, LowWaterMark(open, snapshot, publishedStamp))
    /\ UNCHANGED <<publishedStamp, liveCount, latest, accessVars, writeVars, leaseVars, publicationVars>>

\* clear: refused while any transaction holds a snapshot; the stamps run on.
Clear ==
    /\ open = {}
    /\ ClearsPublications \/ \A p \in Publications : filed[p] = {}
    /\ entries' = <<>> /\ liveCount' = 0 /\ latest' = Nothing
    /\ UNCHANGED <<publishedStamp, accessVars, writeVars, leaseVars, publicationVars>>

TransactionCall(t) ==
    \/ Open(t) \/ Stage(t) \/ Commit(t) \/ Reset(t) \/ Close(t)
    \/ \E q \in Queries : Read(t, q)
    \/ \E k \in Keys : Watch(t, k) \/ Erase(t, k)
    \/ \E k \in Keys, v \in Values : Upsert(t, k, v) \/ Insert(t, k, v) \/ Update(t, k, v)
    \/ \E ks \in SUBSET Keys : StageFails(t, ks) \/ Rollback(t, ks)
    \/ \E ks \in Intervals : EraseWalked(t, [op |-> "range", keys |-> ks])
    \/ EraseWalked(t, [op |-> "for_each"])
    \/ \E ks \in Intervals, v \in Values : UpdateWalked(t, [op |-> "range", keys |-> ks], v)

StoreCall ==
    \/ \E k \in Keys : StoreErase(k)
    \/ \E k \in Keys, v \in Values : StoreUpsert(k, v) \/ StoreInsert(k, v) \/ StoreUpdate(k, v)
    \/ \E group \in Partial(Values) : CommitEach(group)
    \/ \E ks \in Intervals : TombstoneWalked(ks) \/ Vacuum(ks)
    \/ \E ks \in Intervals, v \in Values : StoreUpdateRange(ks, v)
    \/ PopSmallest \/ Clear

PublicationCall(p) ==
    \/ Publish(p) \/ Withdraw(p)
    \/ \E k \in Keys, payload \in Values \cup {Absent} : File(p, k, payload)

Next ==
    \/ \E t \in Transactions : TransactionCall(t)
    \/ \E p \in Publications : PublicationCall(p)
    \/ StoreCall

Spec == Init /\ [][Next]_vars

----------------------------------------------------------------------------

Versions == [committed : 1..Uncommitted, payload : Payloads, survivor : BOOLEAN]
State == [Keys -> [payload : Payloads, since : 0..MaxStamp]]

TypeOK ==
    /\ DOMAIN entries \subseteq Keys \X Generations
    /\ \A d \in DOMAIN entries : entries[d] \in Versions
    /\ publishedStamp \in 0..MaxStamp /\ liveCount \in Nat /\ open \subseteq Transactions
    /\ snapshot \in [Transactions -> 0..MaxStamp]
    /\ generation \in [Transactions -> 0..MaxGeneration]
    /\ staging \in [Transactions -> {"pending", "staged"}]
    /\ \A t \in Transactions : /\ DOMAIN changes[t] \subseteq changed[t]
                               /\ \A k \in DOMAIN changes[t] : changes[t][k] \in Payloads
    /\ changed \in [Transactions -> SUBSET Keys]
    /\ reads \in [Transactions -> SUBSET Keys] /\ windows \in [Transactions -> SUBSET Keys]
    /\ readSet \in [Transactions -> {"names_every_key", "covers_everything", "unrecorded"}]
    /\ filed \in [Publications -> SUBSET Keys] /\ filedAs \in [Publications -> 0..MaxGeneration]
    /\ latest \in State /\ view \in [Transactions -> State]

\* Every snapshot somebody holds, and the newest commit, read in full: whatever
\* committed, was pruned, vacuumed or abandoned since, the versions still answer
\* what the keyspace held when the snapshot was drawn.
SnapshotsHold ==
    /\ ReadAt(entries, publishedStamp) = Payload(latest)
    /\ \A t \in open : ReadAt(entries, snapshot[t]) = Payload(view[t])

\* "Pruning cannot hide a conflict": a key committed after a snapshot that is
\* still held always carries a version that says so, and no other key does.
ConflictsShow ==
    \A t \in open, k \in Keys :
        ChangedSince(entries, k, snapshot[t]) <=> latest[k].since > snapshot[t]

\* What stamp_under_ asserts, and its converse: a version is uncommitted exactly
\* while the transaction or the publication that staged it can still stamp it,
\* so nothing staged goes missing and nothing abandoned stays behind.
StagedStands ==
    {d \in DOMAIN entries : entries[d].committed = Uncommitted}
        = (UNION {changed[t] \X {generation[t]} : t \in {u \in open : staging[u] = "staged"}})
            \cup (UNION {filed[p] \X {filedAs[p]} : p \in Publications})

\* size, and the counts select and rank descend on, agree with what is readable.
CountsExact ==
    /\ liveCount = Cardinality(Readable(entries))
    /\ {d \in DOMAIN entries : entries[d].survivor}
           = UNION {ReadableVersion(entries, k, LatestSnapshot) : k \in Keys}

\* No reader, of any snapshot, meets a placeholder for a payload nobody wrote.
NothingUnwritten ==
    \A d \in DOMAIN entries : entries[d].payload = Unset => entries[d].committed = Uncommitted

\* A commit leaves no history behind that no open snapshot names: of every key
\* it wrote, at most one version is at or below the mark, and it is an element.
PrunesToTheMark ==
    [][\A k \in Keys : publishedStamp' > publishedStamp /\ latest'[k].since = publishedStamp' =>
        LET mark == LowWaterMark(open', snapshot', publishedStamp')
            below == {d \in VersionsOf(entries', k) : VisibleAt(entries'[d].committed, mark)}
        IN  Cardinality(below) <= 1 /\ \A d \in below : entries'[d].payload # Absent]_vars

Commits(t) ==
    staging[t] = "staged" /\ staging'[t] = "pending" /\ publishedStamp' > publishedStamp

Holds(a, state) ==
    IF a.query.op = "watch" THEN state[a.query.key].since = a.answer
    ELSE Answer(a.query, Overlay(Payload(state), a.own)) = a.answer

\* Whatever a serializable transaction was answered, staged or not, recorded or
\* not, is what the state it commits on top of would answer: the committed
\* history is the serial one.  At snapshot_k the same holds of every watch.
AnswersStand ==
    [][\A t \in open : Commits(t) => \A a \in answers[t] : Holds(a, latest)]_vars

\* The store carries out snapshot isolation, first committer first.
PendingOf(t) ==
    IF staging[t] = "pending" THEN changes[t]
    ELSE [k \in Standing(entries, changed[t], generation[t]) |-> entries[<<k, generation[t]>>].payload]

Abstract == INSTANCE SnapshotIsolation WITH
    commits <- publishedStamp,
    snapshot <- [t \in open |-> snapshot[t]],
    view <- [t \in open |-> view[t]],
    pending <- [t \in open |-> PendingOf(t)]

ImplementsSnapshotIsolation == Abstract!Spec

=============================================================================
