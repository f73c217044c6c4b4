--------------------------- MODULE MonotonicStore ---------------------------
(***************************************************************************)
(* monotonic_store and its transactions. The store has no lock of its own: *)
(* every call is one step. An index entry is a key with a chain of         *)
(* versions, at most one of them visible and the rest staged by open       *)
(* transactions, each under its transaction's generation. A commit unmasks *)
(* what staging filed; a watch remembers the generation of the version it  *)
(* saw and is asked again at stage and at commit.                          *)
(*                                                                         *)
(* Generations are only ever compared for equality, so the running counter *)
(* is abstracted to "one that nothing remembers" (FreshGeneration).        *)
(***************************************************************************)
EXTENDS Integers, Sequences, FiniteSets, SequencesExt

CONSTANTS
    KeyCount,       \* keys are 1 .. KeyCount, in the comparator's order
    Transactions,
    Absent,         \* the payload of a tombstone, and of a key that is not there
    KeyOnly,        \* the payload of a reserved slot: a key and a default value
    Direct,         \* what a write outside any transaction leaves
    MaxWatches,     \* how many watches one transaction takes
    Reuses,         \* a committed transaction writes again without a reset
    RollbackFails   \* a rollback may run out of memory taking writes back

ASSUME MonotonicAssumption ==
    /\ KeyCount \in Nat \ {0} /\ MaxWatches \in Nat
    /\ Reuses \in BOOLEAN /\ RollbackFails \in BOOLEAN
    /\ Absent # KeyOnly /\ {Absent, KeyOnly, Direct} \cap Transactions = {}
    /\ Direct \notin {Absent, KeyOnly}

Keys == 1 .. KeyCount
Bounds == 1 .. KeyCount + 1
Payloads == Transactions \cup {Direct, KeyOnly}

VARIABLES
    chains,         \* the versions of every key; no versions, no entry
    visibleCount,
    deletedCount,
    txns            \* the open transactions

vars == <<chains, visibleCount, deletedCount, txns>>

Open == DOMAIN txns
Pending(t) == ~txns[t].staged

Visible(gen, payload) == [gen |-> gen, payload |-> payload, visible |-> TRUE]
Staged(gen, payload) == [gen |-> gen, payload |-> payload, visible |-> FALSE]

\* The generation counter, to the eyes of those who compare what it gave them.
Remembered ==
    (UNION {{v.gen : v \in chains[k]} : k \in Keys})
        \cup {txns[t].generation : t \in Open}
        \cup (UNION {{w.gen : w \in txns[t].watches} : t \in Open})

FreshGeneration == CHOOSE g \in 1 .. Cardinality(Remembered) + 1 : g \notin Remembered

----------------------------------------------------------------------------
(* What a chain answers. *)

VisibleIn(chain) == {v \in chain : v.visible}
Readable(k) == {v \in VisibleIn(chains[k]) : v.payload # Absent}
Contents(k) == IF Readable(k) = {} THEN Absent ELSE (CHOOSE v \in Readable(k) : TRUE).payload

Without(chain, g) == {v \in chain : v.gen # g}

IsReclaimable(chain) == \E v \in chain : chain = {v} /\ v.visible /\ v.payload = Absent

\* The published version of every key of ks, as pairs a count can be taken of.
VisibleOf(ks) == {p \in ks \X (UNION {chains[k] : k \in ks}) : p[2] \in VisibleIn(chains[p[1]])}
Tombstones(pairs) == {p \in pairs : p[2].payload = Absent}

\* The counters after `gone` left and `come` arrived.
Counted(gone, come) ==
    /\ visibleCount' = visibleCount + Cardinality(come) - Cardinality(gone)
    /\ deletedCount' = deletedCount + Cardinality(Tombstones(come)) - Cardinality(Tombstones(gone))

----------------------------------------------------------------------------
(* Watches. *)

Missing == [gen |-> 0, here |-> FALSE]

ShapeOf(k) ==
    IF VisibleIn(chains[k]) = {} THEN Missing
    ELSE LET v == CHOOSE v \in VisibleIn(chains[k]) : TRUE
         IN  [gen |-> v.gen, here |-> v.payload # Absent]

Drifted(w) ==
    /\ [gen |-> w.gen, here |-> w.here] # ShapeOf(w.key)
    /\ w.here \/ ShapeOf(w.key) # Missing

\* A commit over the watches that were valid at staging.
MutantWatchesHold(t) == txns[t].staged \/ \A w \in txns[t].watches : ~Drifted(w)

WatchesHold(t) == \A w \in txns[t].watches : ~Drifted(w)

\* History only: the watched keys of ks were published over.
Disturbed(u, ks) ==
    [u EXCEPT !.watches = {[w EXCEPT !.moved = w.moved \/ w.key \in ks] : w \in u.watches}]

Disturb(f, ks) == [t \in DOMAIN f |-> Disturbed(f[t], ks)]

----------------------------------------------------------------------------
(* A transaction's reads: its own pending writes over the readable versions. *)

Stages(t, k) == k \in DOMAIN txns[t].changes

\* find
Sees(t, k) == IF Stages(t, k) THEN txns[t].changes[k] ELSE Contents(k)

Least(ks) == IF ks = {} THEN 0 ELSE CHOOSE k \in ks : \A l \in ks : k <= l

\* The two sides a walk merges: the next key each has to show in [from, upper).
NextStaged(t, from, upper) ==
    Least({k \in DOMAIN txns[t].changes : k >= from /\ k < upper /\ txns[t].changes[k] # Absent})

NextCommitted(t, from, upper) ==
    Least({k \in Keys : k >= from /\ k < upper /\ ~Stages(t, k) /\ Readable(k) # {}})

\* The smaller of two candidates, 0 standing for none.
MergeFirst(s, c) == IF s = 0 \/ (c # 0 /\ c < s) THEN c ELSE s

LowerBound(t, from) ==
    MergeFirst(NextStaged(t, from, KeyCount + 1), NextCommitted(t, from, KeyCount + 1))

Smallest(t) == LowerBound(t, 1)
UpperBound(t, k) == LowerBound(t, k + 1)

\* walk_from_: two cursors, each moved past a key only when its side gave it.
WalkFrom(t, lower, upper) ==
    LET walk[at \in Bounds \X Bounds] ==
          LET staged == NextStaged(t, at[1], upper)
              committed == NextCommitted(t, at[2], upper)
          IN  IF staged = 0 /\ committed = 0 THEN <<>>
              ELSE IF staged = 0 \/ (committed # 0 /\ committed < staged)
                   THEN <<committed>> \o walk[<<at[1], committed + 1>>]
                   ELSE <<staged>> \o walk[<<staged + 1, at[2]>>]
    IN  walk[<<lower, lower>>]

RangeFrom(t, lower) == WalkFrom(t, lower, KeyCount + 1)
RangeUpTo(t, upper) == IF Smallest(t) = 0 THEN <<>> ELSE WalkFrom(t, Smallest(t), upper)

\* In no order: what is pending, then what the store has under other keys.
ForEach(t) ==
    SetToSeq({k \in DOMAIN txns[t].changes : txns[t].changes[k] # Absent})
        \o SetToSeq({k \in Keys : ~Stages(t, k) /\ Readable(k) # {}})

\* select and rank walk both sides whole, a committed key of a tie first.
InOrder(t) ==
    LET both[k \in Bounds] ==
          IF k > KeyCount THEN <<>>
          ELSE (IF Readable(k) # {} /\ ~Stages(t, k) THEN <<k>> ELSE <<>>)
               \o (IF Stages(t, k) /\ txns[t].changes[k] # Absent THEN <<k>> ELSE <<>>)
               \o both[k + 1]
    IN  both[1]

Select(t, ordinal) == IF ordinal < Len(InOrder(t)) THEN InOrder(t)[ordinal + 1] ELSE 0

\* A rank is reported for a key pending here as present, or in the store.
RankFound(t, k) == (Stages(t, k) /\ txns[t].changes[k] # Absent) \/ Contents(k) # Absent
Rank(t, k) == Len(SelectSeq(InOrder(t), LAMBDA l : l < k))

\* The store's own reads, which pass over the keys nobody published.
StoreLowerBound(k) == Least({l \in Keys : l >= k /\ Readable(l) # {}})
StoreUpperBound(k) == StoreLowerBound(k + 1)
StoreRange(lower, upper) == SelectSeq([k \in Keys |-> k], LAMBDA k : k >= lower /\ k < upper /\ Readable(k) # {})
StoreForEach == StoreRange(1, KeyCount + 1)
StoreSelect(ordinal) == IF ordinal < Len(StoreForEach) THEN StoreForEach[ordinal + 1] ELSE 0
StoreRank(k) == Len(SelectSeq(StoreForEach, LAMBDA l : l < k))
Size == visibleCount - deletedCount

----------------------------------------------------------------------------

Init ==
    /\ chains = [k \in Keys |-> {}]
    /\ visibleCount = 0 /\ deletedCount = 0
    /\ txns = <<>>

Opened(g) ==
    [generation |-> g, staged |-> FALSE, changes |-> <<>>, listed |-> {},
     watches |-> {}, committed |-> FALSE]

Begin(t) ==
    /\ t \notin Open
    /\ txns' = [u \in Open \cup {t} |-> IF u = t THEN Opened(FreshGeneration) ELSE txns[u]]
    /\ UNCHANGED <<chains, visibleCount, deletedCount>>

\* chain_discard_ of the transaction's version under some keys it listed.
Unstaged(t, ks) ==
    [k \in Keys |-> IF k \in ks THEN Without(chains[k], txns[t].generation) ELSE chains[k]]

Drop(t) ==
    /\ chains' = IF txns[t].staged THEN Unstaged(t, txns[t].listed) ELSE chains
    /\ txns' = [u \in Open \ {t} |-> txns[u]]
    /\ UNCHANGED <<visibleCount, deletedCount>>

\* Pending writes of `payload` to some keys; those that were not pending are listed.
AlsoWrites(u, ks, payload) ==
    [u EXCEPT !.changes = [k \in DOMAIN u.changes \cup ks |-> IF k \in ks THEN payload ELSE u.changes[k]],
              !.listed = u.listed \cup (ks \ DOMAIN u.changes)]

MayWrite(t) == Pending(t) /\ (Reuses \/ ~txns[t].committed)

\* upsert; insert and insert_if_missing of a key it does not see, update of one it does.
Put(t, k) ==
    /\ MayWrite(t)
    /\ txns' = [txns EXCEPT ![t] = AlsoWrites(@, {k}, t)]
    /\ UNCHANGED <<chains, visibleCount, deletedCount>>

EraseKey(t, k) ==
    /\ MayWrite(t)
    /\ Sees(t, k) # Absent
    /\ txns' = [txns EXCEPT ![t] = AlsoWrites(@, {k}, Absent)]
    /\ UNCHANGED <<chains, visibleCount, deletedCount>>

\* erase_range, erase_from, erase_up_to and clear: the walk is collected whole,
\* and what it collected is erased key by key.
EraseWalked(t, lower, upper) ==
    /\ MayWrite(t)
    /\ WalkFrom(t, lower, upper) # <<>>
    /\ txns' = [txns EXCEPT ![t] = AlsoWrites(@, ToSet(WalkFrom(t, lower, upper)), Absent)]
    /\ UNCHANGED <<chains, visibleCount, deletedCount>>

\* update_range: every member of the window collected, then staged back revised.
ReviseWalked(t, lower, upper) ==
    /\ MayWrite(t)
    /\ WalkFrom(t, lower, upper) # <<>>
    /\ txns' = [txns EXCEPT ![t] = AlsoWrites(@, ToSet(WalkFrom(t, lower, upper)), t)]
    /\ UNCHANGED <<chains, visibleCount, deletedCount>>

Watch(t, k) ==
    /\ Cardinality(txns[t].watches) < MaxWatches
    /\ txns' = [txns EXCEPT ![t].watches =
                  @ \cup {[key |-> k, gen |-> ShapeOf(k).gen, here |-> ShapeOf(k).here, moved |-> FALSE]}]
    /\ UNCHANGED <<chains, visibleCount, deletedCount>>

----------------------------------------------------------------------------
(* Staging. *)

\* The slot reserved for a key that has no entry, then the pending version over
\* whatever carries the generation already.
Reserved(t, k) == IF chains[k] = {} THEN {Staged(txns[t].generation, KeyOnly)} ELSE chains[k]

\* Staging that forgets to put the pending version over the reserved slot.
MutantAttached(t, k) ==
    IF Stages(t, k) /\ chains[k] # {}
    THEN Reserved(t, k) \cup {Staged(txns[t].generation, txns[t].changes[k])}
    ELSE Reserved(t, k)

Attached(t, k) ==
    IF Stages(t, k)
    THEN Without(Reserved(t, k), txns[t].generation)
           \cup {Staged(txns[t].generation, txns[t].changes[k])}
    ELSE Reserved(t, k)

Stage(t) ==
    /\ Pending(t)
    /\ WatchesHold(t)
    /\ chains' = [k \in Keys |-> IF k \in txns[t].listed THEN Attached(t, k) ELSE chains[k]]
    /\ txns' = [txns EXCEPT ![t] = [@ EXCEPT !.staged = TRUE, !.changes = <<>>]]
    /\ UNCHANGED <<visibleCount, deletedCount>>

\* Out of memory behind some reservations: what was reserved is taken back.
StageFails(t, reserved) ==
    /\ Pending(t)
    /\ WatchesHold(t)
    /\ chains' = Unstaged(t, reserved)
    /\ UNCHANGED <<visibleCount, deletedCount, txns>>

Reset(t) ==
    /\ chains' = IF txns[t].staged THEN Unstaged(t, txns[t].listed) ELSE chains
    /\ txns' = [txns EXCEPT ![t] = Opened(FreshGeneration)]
    /\ UNCHANGED <<visibleCount, deletedCount>>

\* The payload staged for a listed key, which reads it out of the store.
StagedVersions(t, k) == {v \in chains[k] : v.gen = txns[t].generation}

\* `lost` are the recovered versions the change set had no memory to take.
Rollback(t, lost) ==
    /\ txns[t].staged
    /\ lost # {} => RollbackFails
    /\ chains' = Unstaged(t, txns[t].listed)
    /\ LET found == {k \in txns[t].listed \ lost : StagedVersions(t, k) # {}}
       IN  txns' = [txns EXCEPT ![t] =
             [@ EXCEPT !.staged = FALSE,
                       !.changes = [k \in found |-> (CHOOSE v \in StagedVersions(t, k) : TRUE).payload],
                       !.generation = FreshGeneration]]
    /\ UNCHANGED <<visibleCount, deletedCount>>

\* unmask_and_compact_: every other visible version gives way, then the staged
\* one becomes visible, if it is there.
Displaced(t, k) == {v \in VisibleIn(chains[k]) : v.gen # txns[t].generation}
Unmasked(t, k) ==
    {IF v.gen = txns[t].generation THEN Visible(v.gen, v.payload) ELSE v : v \in chains[k] \ Displaced(t, k)}

Publish(t) ==
    /\ txns[t].staged
    /\ WatchesHold(t)
    /\ LET ks == txns[t].listed
           gone == {p \in VisibleOf(ks) : p[2] \in Displaced(t, p[1])}
           come == {p \in ks \X (UNION {chains[k] : k \in ks}) :
                      p[2] \in StagedVersions(t, p[1]) /\ ~p[2].visible}
       IN  /\ chains' = [k \in Keys |-> IF k \in ks THEN Unmasked(t, k) ELSE chains[k]]
           /\ Counted(gone, come)
           /\ txns' = Disturb([txns EXCEPT ![t] = [@ EXCEPT !.staged = FALSE, !.listed = {},
                                                            !.committed = TRUE]], ks)

----------------------------------------------------------------------------
(* Writes outside any transaction. *)

\* publish_directly_: over the published slot, or beside the staged ones.
PublishedDirectly(k) == (chains[k] \ VisibleIn(chains[k])) \cup {Visible(FreshGeneration, Direct)}

\* upsert; insert and insert_if_missing where the key is absent, update where not.
Upsert(k) ==
    /\ chains' = [chains EXCEPT ![k] = PublishedDirectly(k)]
    /\ Counted(VisibleOf({k}), {<<k, Visible(FreshGeneration, Direct)>>})
    /\ txns' = Disturb(txns, {k})

\* commit_each_: a transaction opened, staged and committed inside one call.
UpsertMany(ks) ==
    /\ chains' = [k \in Keys |-> IF k \in ks THEN PublishedDirectly(k) ELSE chains[k]]
    /\ Counted(VisibleOf(ks), {<<k, Visible(FreshGeneration, Direct)>> : k \in ks})
    /\ txns' = Disturb(txns, ks)

\* retire_visible_: the published version goes, the staged ones stay.
Retire(ks) ==
    /\ chains' = [k \in Keys |-> IF k \in ks THEN chains[k] \ VisibleIn(chains[k]) ELSE chains[k]]
    /\ Counted(VisibleOf(ks), {})
    /\ txns' = Disturb(txns, {k \in ks : Readable(k) # {}})

\* erase, and pop_smallest of the smallest readable key.
Erase(k) == Readable(k) # {} /\ Retire({k})

\* erase_range, erase_from, erase_up_to
EraseRange(lower, upper) == Retire({k \in Keys : k >= lower /\ k < upper})

\* Revised in place, and every one under the same new generation.
UpdateRange(lower, upper) ==
    LET ks == {k \in Keys : k >= lower /\ k < upper /\ Readable(k) # {}}
    IN  /\ ks # {}
        /\ chains' = [k \in Keys |-> IF k \in ks THEN PublishedDirectly(k) ELSE chains[k]]
        /\ txns' = Disturb(txns, ks)
        /\ UNCHANGED <<visibleCount, deletedCount>>

Vacuum(lower, upper) ==
    LET ks == {k \in Keys : k >= lower /\ k < upper /\ IsReclaimable(chains[k])}
    IN  /\ ks # {}
        /\ chains' = [k \in Keys |-> IF k \in ks THEN {} ELSE chains[k]]
        /\ Counted(VisibleOf(ks), {})
        /\ UNCHANGED txns

\* Refused while anything is staged.
Clear ==
    /\ \A k \in Keys : chains[k] = VisibleIn(chains[k])
    /\ chains' = [k \in Keys |-> {}]
    /\ visibleCount' = 0 /\ deletedCount' = 0
    /\ txns' = Disturb(txns, {k \in Keys : Readable(k) # {}})

----------------------------------------------------------------------------

Next ==
    \/ \E t \in Transactions : Begin(t)
    \/ \E t \in Open :
         \/ Drop(t) \/ Stage(t) \/ Reset(t) \/ Publish(t)
         \/ \E k \in Keys : Put(t, k) \/ EraseKey(t, k) \/ Watch(t, k)
         \/ \E lower, upper \in Bounds :
                lower < upper /\ (EraseWalked(t, lower, upper) \/ ReviseWalked(t, lower, upper))
         \/ \E reserved \in SUBSET txns[t].listed : StageFails(t, reserved)
         \/ \E lost \in SUBSET txns[t].listed : Rollback(t, lost)
    \/ \E k \in Keys : Upsert(k) \/ Erase(k)
    \/ \E ks \in SUBSET Keys : Cardinality(ks) > 1 /\ UpsertMany(ks)
    \/ \E lower, upper \in Bounds :
         lower < upper /\ (EraseRange(lower, upper) \/ UpdateRange(lower, upper) \/ Vacuum(lower, upper))
    \/ Clear

Spec == Init /\ [][Next]_vars

----------------------------------------------------------------------------
(* Properties. *)

Versions == [gen : Nat \ {0}, payload : Payloads \cup {Absent}, visible : BOOLEAN]

(* Types of the store's and the transactions' state; a key has one published   *)
(* version at most, and a generation names one version of it.                  *)
MonotonicTypeOK ==
    /\ \A k \in Keys : /\ chains[k] \subseteq Versions
                       /\ Cardinality(VisibleIn(chains[k])) <= 1
                       /\ \A v, w \in chains[k] : v.gen = w.gen => v = w
    /\ visibleCount \in Nat /\ deletedCount \in 0 .. visibleCount
    /\ Open \subseteq Transactions
    /\ \A t \in Open :
         /\ txns[t].generation \in Nat \ {0}
         /\ txns[t].listed \subseteq Keys
         /\ DOMAIN txns[t].changes \subseteq txns[t].listed
         /\ txns[t].staged => txns[t].changes = <<>>

(* size() is computed from two running counts (visible_count_ less the         *)
(* tombstones), kept up to date by every path that publishes, retires or        *)
(* reclaims: they count what the index really holds.                           *)
CountsExact ==
    /\ visibleCount = Cardinality(VisibleOf(Keys))
    /\ deletedCount = Cardinality(Tombstones(VisibleOf(Keys)))

(* The comment of publish_under: a staged version is still where staging put    *)
(* it whatever ran since, which is why publishing cannot fail; and nothing      *)
(* staged outlives the transaction that staged it.                             *)
StagedExactly ==
    UNION {{<<k, v.gen>> : v \in chains[k] \ VisibleIn(chains[k])} : k \in Keys}
    = UNION {{<<k, txns[t].generation>> : k \in txns[t].listed} :
                t \in {u \in Open : txns[u].staged}}

(* A watch drifts exactly when its key was published over since: whoever        *)
(* published, direct or committed, and whatever was staged, rolled back or      *)
(* reclaimed in between. An absence that closed over again is not seen, which   *)
(* is what missing_watch's warning grants.                                     *)
DriftIsMove ==
    \A t \in Open : \A w \in txns[t].watches :
        /\ w.moved /\ (w.here \/ Contents(w.key) # Absent) => Drifted(w)
        /\ Drifted(w) => w.moved

(* A transaction that commits has read nothing that was published over: what it *)
(* watched as present is the version it saw, through any staging, rolling back   *)
(* and staging again (validate_for_commit's doc, "the lost update the watch was  *)
(* taken to prevent").                                                         *)
Commits(t) ==
    /\ txns[t].staged /\ t \in DOMAIN txns' /\ ~txns'[t].staged
    /\ txns'[t].generation = txns[t].generation

WatchedStand ==
    \A t \in Open : Commits(t) =>
        \A w \in txns[t].watches : w.moved => ~w.here /\ Contents(w.key) = Absent

(* What a reader finds in the store was written by somebody: no reader is       *)
(* handed the key-only slot that staging reserves.                             *)
NothingUnwritten == \A k \in Keys : Contents(k) # KeyOnly

(* The merged walks, bounds and select of a transaction (range, range_up_to,     *)
(* lower_bound, upper_bound, smallest, select) show the keys its find sees, each *)
(* once and in order, and rank takes back what select gave; the store's size,   *)
(* select and rank are of one walk.                                             *)
WalksAgree ==
    /\ \A t \in Open :
        LET seen == {k \in Keys : Sees(t, k) # Absent}
            InWindow(lower, upper) == SetToSortSeq({k \in seen : k >= lower /\ k < upper}, <)
        IN  /\ \A lower, upper \in Bounds : WalkFrom(t, lower, upper) = InWindow(lower, upper)
            /\ \A b \in Bounds : /\ RangeFrom(t, b) = InWindow(b, KeyCount + 1)
                                 /\ RangeUpTo(t, b) = InWindow(1, b)
                                 /\ LowerBound(t, b) = Least({k \in seen : k >= b})
                                 /\ UpperBound(t, b) = Least({k \in seen : k > b})
            /\ ToSet(ForEach(t)) = seen /\ Len(ForEach(t)) = Cardinality(seen)
            /\ \A i \in 0 .. KeyCount :
                 Select(t, i) = IF i < Cardinality(seen) THEN InWindow(1, KeyCount + 1)[i + 1] ELSE 0
            /\ \A k \in seen : RankFound(t, k) /\ Select(t, Rank(t, k)) = k
    /\ Size = Len(StoreForEach)
    /\ \A k \in Keys : Readable(k) # {} => StoreSelect(StoreRank(k)) = k
    /\ \A k \in Keys : StoreUpperBound(k) # 0 =>
          StoreRank(StoreUpperBound(k)) = StoreRank(k) + (IF StoreLowerBound(k) = k THEN 1 ELSE 0)

(* What a transaction would publish now, which staging leaves in the store's chains. *)
PendingOf(t) ==
    IF txns[t].staged
    THEN [k \in txns[t].listed |-> (CHOOSE v \in StagedVersions(t, k) : TRUE).payload]
    ELSE txns[t].changes

ContentsNow == [k \in Keys |-> Contents(k)]
PendingNow == [t \in Open |-> PendingOf(t)]

Group == INSTANCE GroupStore WITH contents <- ContentsNow, pending <- PendingNow

(* Call by call, what becomes of the contents and of what is pending. A commit  *)
(* lays all of its transaction's writes over the contents at once and nothing   *)
(* else; a direct write changes the keys it names; staging, failing to stage,    *)
(* rolling back, watching and reclaiming change neither the contents nor what    *)
(* anybody would publish; dropping and resetting forget the one transaction's.  *)
CallsOfTransaction(t) ==
    /\ Drop(t) => Group!End(t)
    /\ Reset(t) => Group!Reset(t)
    /\ Publish(t) => Group!Commit(t)
    /\ Stage(t) => UNCHANGED Group!vars
    /\ \A some \in SUBSET txns[t].listed : StageFails(t, some) \/ Rollback(t, some) => UNCHANGED Group!vars
    /\ \A k \in Keys : /\ Watch(t, k) => UNCHANGED Group!vars
                       /\ Put(t, k) => Group!Write(t, {k}, t)
                       /\ EraseKey(t, k) => Group!Write(t, {k}, Absent)
    /\ \A lower, upper \in Bounds : lower < upper =>
         LET seen == {k \in Keys : k >= lower /\ k < upper /\ Sees(t, k) # Absent}
         IN  /\ EraseWalked(t, lower, upper) => Group!Write(t, seen, Absent)
             /\ ReviseWalked(t, lower, upper) => Group!Write(t, seen, t)

CallsOutside ==
    /\ \A k \in Keys : /\ Upsert(k) => Group!WriteDirectly({k}, Direct)
                       /\ Erase(k) => Group!WriteDirectly({k}, Absent)
    /\ \A ks \in SUBSET Keys : UpsertMany(ks) => Group!WriteDirectly(ks, Direct)
    /\ \A lower, upper \in Bounds : lower < upper =>
         LET window == {k \in Keys : k >= lower /\ k < upper}
         IN  /\ EraseRange(lower, upper) => Group!WriteDirectly(window, Absent)
             /\ UpdateRange(lower, upper) =>
                  Group!WriteDirectly({k \in window : Contents(k) # Absent}, Direct)
             /\ Vacuum(lower, upper) => UNCHANGED Group!vars
    /\ Clear => Group!WriteDirectly(Keys, Absent)

CallsRefine ==
    /\ \A t \in Transactions : Begin(t) => Group!Begin(t)
    /\ \A t \in Open : CallsOfTransaction(t)
    /\ CallsOutside

=============================================================================
