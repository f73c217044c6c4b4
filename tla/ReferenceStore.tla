--------------------------- MODULE ReferenceStore ---------------------------
(***************************************************************************)
(* reference_store, the engine over a std::set of (key, generation), and   *)
(* its transactions. A commit unmasks what staging merged into the set and *)
(* erases the version it supersedes; moving nodes between sets allocates   *)
(* nothing, so staging and rolling back cannot run out of memory.          *)
(*                                                                         *)
(* As in MonotonicStore, a new generation is one nothing remembers. It is  *)
(* the largest drawn so far, so it sorts behind every version of its key.  *)
(***************************************************************************)
EXTENDS Integers, Sequences, FiniteSets, SequencesExt

CONSTANTS
    KeyCount,       \* keys are 1 .. KeyCount, in the comparator's order
    Transactions,
    Absent,         \* the payload of a tombstone, and of a key that is not there
    Direct,         \* what a write outside any transaction leaves
    MaxWatches,     \* how many watches one transaction takes
    MaxListed,      \* how many writes one transaction makes
    Reuses,         \* a committed transaction writes again without a reset
    RepeatsInBatch  \* a batch names a key twice

ReferenceAssumption ==
    /\ KeyCount \in Nat \ {0} /\ MaxWatches \in Nat /\ MaxListed \in Nat
    /\ Reuses \in BOOLEAN /\ RepeatsInBatch \in BOOLEAN
    /\ Absent # Direct /\ {Absent, Direct} \cap Transactions = {}

Keys == 1 .. KeyCount
Bounds == 1 .. KeyCount + 1
Payloads == Transactions \cup {Direct}

VARIABLES
    entries,        \* the versions of every key, told apart by their generation
    visibleCount,
    deletedCount,
    txns            \* the open transactions

vars == <<entries, visibleCount, deletedCount, txns>>

Open == DOMAIN txns

Entry(gen, payload, visible) == [gen |-> gen, payload |-> payload, visible |-> visible]

Remembered ==
    (UNION {{v.gen : v \in entries[k]} : k \in Keys})
        \cup {txns[t].generation : t \in Open}
        \cup (UNION {{w.gen : w \in txns[t].watches} : t \in Open})

NextGeneration == CHOOSE g \in 1 .. Cardinality(Remembered) + 1 : g \notin Remembered

----------------------------------------------------------------------------
(* What the set answers. *)

Visible(k) == {v \in entries[k] : v.visible}
Present(k) == {v \in Visible(k) : v.payload # Absent}
Contents(k) == IF Present(k) = {} THEN Absent ELSE (CHOOSE v \in Present(k) : TRUE).payload

Least(ks) == IF ks = {} THEN 0 ELSE CHOOSE k \in ks : \A l \in ks : k <= l

StoreLowerBound(k) == Least({l \in Keys : l >= k /\ Present(l) # {}})
StoreUpperBound(k) == Least({l \in Keys : l > k /\ Present(l) # {}})
StoreRange(lower, upper) ==
    SelectSeq([k \in Keys |-> k], LAMBDA k : k >= lower /\ k < upper /\ Present(k) # {})
StoreForEach == SelectSeq([k \in Keys |-> k], LAMBDA k : Present(k) # {})
StoreSelect(ordinal) == IF ordinal < Len(StoreForEach) THEN StoreForEach[ordinal + 1] ELSE 0
StoreRank(k) == Len(StoreRange(1, k))

\* The committed version a watch is dated by; there is one at most.
Shape(k) ==
    IF Visible(k) = {} THEN [gen |-> 0, here |-> FALSE]
    ELSE LET v == CHOOSE v \in Visible(k) : TRUE IN [gen |-> v.gen, here |-> v.payload # Absent]

Drifted(w) ==
    /\ [gen |-> w.gen, here |-> w.here] # Shape(w.key)
    /\ w.here \/ Shape(w.key) # [gen |-> 0, here |-> FALSE]

WatchesHold(t) == \A w \in txns[t].watches : ~Drifted(w)

\* History only: the watched keys of ks were published over.
Disturb(f, ks) ==
    [t \in DOMAIN f |->
        [f[t] EXCEPT !.watches = {[w EXCEPT !.moved = w.moved \/ w.key \in ks] : w \in f[t].watches}]]

\* The counters once the visible versions `gone` gave way to `come`.
Tombstones(pairs) == {p \in pairs : p[2].payload = Absent}
VisibleOf(ks) == UNION {{<<k, v>> : v \in Visible(k)} : k \in ks}
Counted(gone, come) ==
    /\ visibleCount' = visibleCount + Cardinality(come) - Cardinality(gone)
    /\ deletedCount' = deletedCount + Cardinality(Tombstones(come)) - Cardinality(Tombstones(gone))

----------------------------------------------------------------------------
(* A transaction's reads: its change set over what the store shows. *)

Changes(t) == {k \in Keys : txns[t].changes[k] # {}}
Change(t, k) == (CHOOSE v \in txns[t].changes[k] : TRUE).payload
Sees(t, k) == IF k \in Changes(t) THEN Change(t, k) ELSE Contents(k)

PresentChanges(t, from) == {k \in Changes(t) : k >= from /\ Change(t, k) # Absent}

\* merge_first_: the first present change not below `from`, against the store's
\* first at or after `probe`, asked again behind each key erased here. With no
\* change left of its own the store's key is reported as it is.
MergeFirst(t, from, probe) ==
    LET internal == Least(PresentChanges(t, from))
        external[p \in 1 .. KeyCount + 2] ==
            LET found == IF p > KeyCount THEN 0 ELSE StoreLowerBound(p)
            IN  IF found = 0 THEN internal
                ELSE IF internal = 0 THEN found
                ELSE IF internal <= found THEN internal
                ELSE IF found \in Changes(t) THEN external[found + 1]
                ELSE found
    IN  external[probe]

LowerBound(t, k) == MergeFirst(t, k, k)
UpperBound(t, k) == MergeFirst(t, k + 1, k + 1)

\* A walk of the store's side that shows what changed here a second time.
MutantRangeOf(t, lower, upper) ==
    SelectSeq([k \in Keys |-> k],
              LAMBDA k : k \in Changes(t) /\ k >= lower /\ k < upper /\ Change(t, k) # Absent)
        \o StoreRange(lower, upper)

\* range and for_each: what changed here first, then the rest of the store.
RangeOf(t, lower, upper) ==
    SelectSeq([k \in Keys |-> k],
              LAMBDA k : k \in Changes(t) /\ k >= lower /\ k < upper /\ Change(t, k) # Absent)
        \o SelectSeq(StoreRange(lower, upper), LAMBDA k : k \notin Changes(t))
ForEach(t) == RangeOf(t, 1, KeyCount + 1)

\* for_each_ordered_: both sides in step, a key of both answered from the changes.
Ordered(t) ==
    LET both[s \in Bounds, c \in Bounds] ==
          IF s > KeyCount /\ c > KeyCount THEN <<>>
          ELSE IF c > KeyCount \/ (s <= KeyCount /\ s < c)
               THEN (IF s \in Changes(t) /\ Change(t, s) # Absent THEN <<s>> ELSE <<>>) \o both[s + 1, c]
               ELSE (IF Present(c) # {} /\ c \notin Changes(t) THEN <<c>> ELSE <<>>) \o both[s, c + 1]
    IN  both[1, 1]

Select(t, ordinal) == IF ordinal < Len(Ordered(t)) THEN Ordered(t)[ordinal + 1] ELSE 0
RankFound(t, k) == k \in ToSet(Ordered(t))
Rank(t, k) == Len(SelectSeq(Ordered(t), LAMBDA l : l < k))

----------------------------------------------------------------------------

NoChanges == [k \in Keys |-> {}]

Init ==
    /\ entries = NoChanges
    /\ visibleCount = 0 /\ deletedCount = 0
    /\ txns = <<>>

Opened(g) ==
    [generation |-> g, staged |-> FALSE, changes |-> NoChanges, listed |-> <<>>,
     watches |-> {}, committed |-> FALSE]

Begin(t) ==
    /\ t \notin Open
    /\ txns' = [u \in Open \cup {t} |-> IF u = t THEN Opened(NextGeneration) ELSE txns[u]]
    /\ UNCHANGED <<entries, visibleCount, deletedCount>>

Own(t, k) == {v \in entries[k] : v.gen = txns[t].generation}

\* unstage_: whatever carries this generation under a listed key leaves the set.
Unstaged(t) == [k \in Keys |-> IF k \in ToSet(txns[t].listed) THEN entries[k] \ Own(t, k) ELSE entries[k]]

Drop(t) ==
    /\ entries' = IF txns[t].staged THEN Unstaged(t) ELSE entries
    /\ txns' = [u \in Open \ {t} |-> txns[u]]
    /\ UNCHANGED <<visibleCount, deletedCount>>

Reset(t) ==
    /\ entries' = IF txns[t].staged THEN Unstaged(t) ELSE entries
    /\ txns' = [txns EXCEPT ![t] = Opened(NextGeneration)]
    /\ UNCHANGED <<visibleCount, deletedCount>>

MayWrite(t) == ~txns[t].staged /\ (Reuses \/ ~txns[t].committed)

\* stage_, for the keys of a sequence: a key changed already is revised in
\* place; every call lists its key, repeated or not.
Staged(t, ks, payload) ==
    /\ MayWrite(t)
    /\ Len(txns[t].listed) + Len(ks) <= MaxListed
    /\ txns' = [txns EXCEPT
         ![t].changes = [k \in Keys |->
             IF k \notin ToSet(ks) THEN @[k]
             ELSE IF @[k] = {} THEN {Entry(txns[t].generation, payload, FALSE)}
             ELSE {[v EXCEPT !.payload = payload] : v \in @[k]}],
         ![t].listed = @ \o ks]
    /\ UNCHANGED <<entries, visibleCount, deletedCount>>

\* upsert; insert and insert_if_missing of a key it does not see, update of one it does.
Put(t, k) == Staged(t, <<k>>, t)
EraseKey(t, k) == Sees(t, k) # Absent /\ Staged(t, <<k>>, Absent)

\* erase_range, erase_from, erase_up_to, clear: collected first, erased after.
EraseAccepted(t, lower, upper) ==
    LET doomed == SelectSeq(ForEach(t), LAMBDA k : k >= lower /\ k < upper)
    IN  doomed # <<>> /\ Staged(t, doomed, Absent)

ReviseRange(t, lower, upper) ==
    RangeOf(t, lower, upper) # <<>> /\ Staged(t, RangeOf(t, lower, upper), t)

Watch(t, k) ==
    /\ Cardinality(txns[t].watches) < MaxWatches
    /\ txns' = [txns EXCEPT ![t].watches =
                  @ \cup {[key |-> k, gen |-> Shape(k).gen, here |-> Shape(k).here, moved |-> FALSE]}]
    /\ UNCHANGED <<entries, visibleCount, deletedCount>>

----------------------------------------------------------------------------
(* The protocol. *)

\* std::set::merge leaves behind a node whose key and generation are there already.
Stage(t) ==
    LET Stays(k) == Own(t, k) # {} /\ \E v \in txns[t].changes[k] : v.gen = txns[t].generation
    IN  /\ ~txns[t].staged
        /\ WatchesHold(t)
        /\ entries' = [k \in Keys |-> IF Stays(k) THEN entries[k] ELSE entries[k] \cup txns[t].changes[k]]
        /\ txns' = [txns EXCEPT ![t].staged = TRUE,
                                ![t].changes = [k \in Keys |-> IF Stays(k) THEN @[k] ELSE {}]]
        /\ UNCHANGED <<visibleCount, deletedCount>>

\* A rollback that forgets to stamp what it recovers with the new generation.
MutantRollback(t) ==
    LET resumed == NextGeneration
    IN  /\ txns[t].staged
        /\ entries' = Unstaged(t)
        /\ txns' = [txns EXCEPT
             ![t].staged = FALSE,
             ![t].changes = [k \in Keys |-> @[k] \cup (IF k \in ToSet(txns[t].listed) THEN Own(t, k) ELSE {})],
             ![t].generation = resumed]
        /\ UNCHANGED <<visibleCount, deletedCount>>

Rollback(t) ==
    LET resumed == NextGeneration
    IN  /\ txns[t].staged
        /\ entries' = Unstaged(t)
        /\ txns' = [txns EXCEPT
             ![t].staged = FALSE,
             ![t].changes = [k \in Keys |->
                 @[k] \cup (IF k \in ToSet(txns[t].listed) THEN {[v EXCEPT !.gen = resumed] : v \in Own(t, k)}
                                                           ELSE {})],
             ![t].generation = resumed]
        /\ UNCHANGED <<visibleCount, deletedCount>>

\* unmask_and_compact_: the other published version goes, the own one shows.
Unmasked(t, k) ==
    {[v EXCEPT !.visible = TRUE] : v \in Own(t, k)}
        \cup {v \in entries[k] : ~v.visible /\ v.gen # txns[t].generation}

Publish(t) ==
    LET ks == ToSet(txns[t].listed)
        gone == {p \in VisibleOf(ks) : p[2].gen # txns[t].generation}
        come == UNION {{<<k, v>> : v \in {w \in Own(t, k) : ~w.visible}} : k \in ks}
    IN  /\ txns[t].staged
        /\ WatchesHold(t)
        /\ entries' = [k \in Keys |-> IF k \in ks THEN Unmasked(t, k) ELSE entries[k]]
        /\ Counted(gone, come)
        /\ txns' = Disturb([txns EXCEPT ![t].staged = FALSE, ![t].listed = <<>>,
                                        ![t].committed = TRUE], ks)

----------------------------------------------------------------------------
(* Writes outside any transaction. *)

\* publish_alone_: the new version in, and the one it sorts behind out.
PublishAlone(k) ==
    /\ entries' = [entries EXCEPT ![k] = (@ \ Visible(k)) \cup {Entry(NextGeneration, Direct, TRUE)}]
    /\ Counted(VisibleOf({k}), {<<k, Entry(NextGeneration, Direct, TRUE)>>})
    /\ txns' = Disturb(txns, {k})

\* insert_or_assign of a batch; `repeated` of its elements name a key again.
\* A batch that refuses nothing of insert_if_missing and update ends the same.
PublishBatch(ks, repeated) ==
    /\ repeated > 0 => RepeatsInBatch
    /\ entries' = [k \in Keys |->
         IF k \in ks THEN (entries[k] \ Visible(k)) \cup {Entry(NextGeneration, Direct, TRUE)} ELSE entries[k]]
    /\ visibleCount' = visibleCount + Cardinality(ks) + repeated - Cardinality(VisibleOf(ks))
    /\ deletedCount' = deletedCount - Cardinality(Tombstones(VisibleOf(ks)))
    /\ txns' = Disturb(txns, ks)

\* The visible versions of ks go, present or tombstones.
EraseVisible(ks) ==
    /\ entries' = [k \in Keys |-> IF k \in ks THEN entries[k] \ Visible(k) ELSE entries[k]]
    /\ Counted(VisibleOf(ks), {})
    /\ txns' = Disturb(txns, {k \in ks : Present(k) # {}})

\* Of a key that is absent, erase still takes the tombstone away.
Erase(k) == Visible(k) # {} /\ EraseVisible({k})
EraseRange(lower, upper) == EraseVisible({k \in Keys : k >= lower /\ k < upper})

UpdateRange(lower, upper) ==
    LET ks == {k \in Keys : k >= lower /\ k < upper /\ Present(k) # {}}
    IN  /\ ks # {}
        /\ entries' = [k \in Keys |->
             IF k \in ks THEN (entries[k] \ Visible(k)) \cup {Entry(NextGeneration, Direct, TRUE)} ELSE entries[k]]
        /\ txns' = Disturb(txns, ks)
        /\ UNCHANGED <<visibleCount, deletedCount>>

Vacuum(lower, upper) ==
    LET ks == {k \in Keys : k >= lower /\ k < upper /\ Visible(k) # {} /\ Present(k) = {}}
    IN  ks # {} /\ EraseVisible(ks)

\* Refused while anything is staged.
Clear ==
    /\ \A k \in Keys : entries[k] = Visible(k)
    /\ entries' = NoChanges
    /\ visibleCount' = 0 /\ deletedCount' = 0
    /\ txns' = Disturb(txns, {k \in Keys : Present(k) # {}})

----------------------------------------------------------------------------

Next ==
    \/ \E t \in Transactions : Begin(t)
    \/ \E t \in Open :
         \/ Drop(t) \/ Stage(t) \/ Reset(t) \/ Publish(t) \/ Rollback(t)
         \/ \E k \in Keys : Put(t, k) \/ EraseKey(t, k) \/ Watch(t, k)
         \/ \E lower, upper \in Bounds :
              lower < upper /\ (EraseAccepted(t, lower, upper) \/ ReviseRange(t, lower, upper))
    \/ \E k \in Keys : PublishAlone(k) \/ Erase(k)
    \/ \E ks \in SUBSET Keys, repeated \in 0 .. 1 : ks # {} /\ PublishBatch(ks, repeated)
    \/ \E lower, upper \in Bounds :
         lower < upper /\ (EraseRange(lower, upper) \/ UpdateRange(lower, upper) \/ Vacuum(lower, upper))
    \/ Clear

Spec == Init /\ [][Next]_vars

----------------------------------------------------------------------------
(* Properties. *)

Entries == [gen : Nat \ {0}, payload : Payloads \cup {Absent}, visible : BOOLEAN]

(* Types of the state; a key has one visible version at most, a generation names *)
(* one version of it, and a change carries its transaction's generation (the     *)
(* assertion of stage_).                                                       *)
ReferenceTypeOK ==
    /\ \A k \in Keys : /\ entries[k] \subseteq Entries
                       /\ Cardinality(Visible(k)) <= 1
                       /\ \A v, w \in entries[k] : v.gen = w.gen => v = w
    /\ visibleCount \in Nat /\ deletedCount \in 0 .. visibleCount
    /\ \A t \in Open : \A k \in Keys :
         /\ txns[t].changes[k] \subseteq Entries
         /\ \A v \in txns[t].changes[k] : ~v.visible /\ v.gen = txns[t].generation

(* size() is visible_count_ less visible_deleted_count_: both count what the set *)
(* really holds, whichever path published, superseded or reclaimed it.          *)
CountsExact ==
    /\ visibleCount = Cardinality(VisibleOf(Keys))
    /\ deletedCount = Cardinality(Tombstones(VisibleOf(Keys)))

(* publish_under's assertion, that no staged version vanished: what is staged is *)
(* exactly what staged transactions listed.                                    *)
StagedExactly ==
    UNION {{<<k, v.gen>> : v \in entries[k] \ Visible(k)} : k \in Keys}
    = UNION {{<<k, txns[t].generation>> : k \in ToSet(txns[t].listed)} :
                t \in {u \in Open : txns[u].staged}}

(* A watch drifts exactly when its key was published over, an absence that       *)
(* closed over again excepted.                                                 *)
DriftIsMove ==
    \A t \in Open : \A w \in txns[t].watches :
        /\ w.moved /\ (w.here \/ Contents(w.key) # Absent) => Drifted(w)
        /\ Drifted(w) => w.moved

(* The walks, select and rank of a transaction show the keys its find sees, each *)
(* once; select and rank in order; so do the bounds, as long as a change of its  *)
(* own lies ahead. The store's own agree with each other.                       *)
WalksAgree ==
    /\ \A t \in Open :
        LET seen == {k \in Keys : Sees(t, k) # Absent}
        IN  /\ \A lower, upper \in Bounds :
                 LET window == {k \in seen : k >= lower /\ k < upper}
                 IN  /\ ToSet(RangeOf(t, lower, upper)) = window
                     /\ Len(RangeOf(t, lower, upper)) = Cardinality(window)
            /\ Ordered(t) = SetToSortSeq(seen, <)
            /\ \A k \in Keys : /\ RankFound(t, k) <=> k \in seen
                               /\ k \in seen => Select(t, Rank(t, k)) = k
            /\ \A k \in Keys :
                 /\ PresentChanges(t, k) # {} => LowerBound(t, k) = Least({l \in seen : l >= k})
                 /\ PresentChanges(t, k + 1) # {} => UpperBound(t, k) = Least({l \in seen : l > k})
    /\ visibleCount - deletedCount = Len(StoreForEach)
    /\ \A k \in Keys : Present(k) # {} => StoreSelect(StoreRank(k)) = k
    /\ \A k \in Keys : StoreUpperBound(k) # 0 =>
          StoreRank(StoreUpperBound(k)) = StoreRank(k) + (IF StoreLowerBound(k) = k THEN 1 ELSE 0)

(* What a transaction would publish now, which staging moves into the set. *)
PendingOf(t) ==
    IF txns[t].staged
    THEN [k \in {l \in ToSet(txns[t].listed) : Own(t, l) # {}} |-> (CHOOSE v \in Own(t, k) : TRUE).payload]
    ELSE [k \in Changes(t) |-> Change(t, k)]

ContentsNow == [k \in Keys |-> Contents(k)]
PendingNow == [t \in Open |-> PendingOf(t)]

Group == INSTANCE GroupStore WITH contents <- ContentsNow, pending <- PendingNow

(* As of MonotonicStore, call by call: commits whole and at once, direct writes   *)
(* of the keys they name, and no change of the contents or of anything pending    *)
(* by staging, rolling back, watching or reclaiming.                             *)
CallsOfTransaction(t) ==
    /\ Drop(t) => Group!End(t)
    /\ Reset(t) => Group!Reset(t)
    /\ Publish(t) => Group!Commit(t)
    /\ Stage(t) \/ Rollback(t) => UNCHANGED Group!vars
    /\ \A k \in Keys : /\ Watch(t, k) => UNCHANGED Group!vars
                       /\ Put(t, k) => Group!Write(t, {k}, t)
                       /\ EraseKey(t, k) => Group!Write(t, {k}, Absent)
    /\ \A lower, upper \in Bounds : lower < upper =>
         LET seen == {k \in Keys : k >= lower /\ k < upper /\ Sees(t, k) # Absent}
         IN  /\ EraseAccepted(t, lower, upper) => Group!Write(t, seen, Absent)
             /\ ReviseRange(t, lower, upper) => Group!Write(t, seen, t)

CallsOutside ==
    /\ \A k \in Keys : /\ PublishAlone(k) => Group!WriteDirectly({k}, Direct)
                       /\ Erase(k) => Group!WriteDirectly({k}, Absent)
    /\ \A ks \in SUBSET Keys, repeated \in 0 .. 1 :
         PublishBatch(ks, repeated) => Group!WriteDirectly(ks, Direct)
    /\ \A lower, upper \in Bounds : lower < upper =>
         LET window == {k \in Keys : k >= lower /\ k < upper}
         IN  /\ EraseRange(lower, upper) => Group!WriteDirectly(window, Absent)
             /\ UpdateRange(lower, upper) =>
                  Group!WriteDirectly({k \in window : Contents(k) # Absent}, Direct)
             /\ Vacuum(lower, upper) => UNCHANGED Group!vars
    /\ Clear => Group!WriteDirectly(Keys, Absent)

CallsRefine ==
    /\ \A t \in Transactions : Begin(t) => Group!Begin(t)
    /\ \A t \in Open : CallsOfTransaction(t)
    /\ CallsOutside

=============================================================================
