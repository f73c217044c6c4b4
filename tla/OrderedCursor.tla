--------------------------- MODULE OrderedCursor ---------------------------
(***************************************************************************)
(* ordered_cursor_t (partitioned_store.hpp): a walk of the merged order of *)
(* every partition, holding no lock between its steps, composed with the   *)
(* threads of PartitionedStore writing beside it.                          *)
(*                                                                         *)
(* The cursor keeps one key per partition, the front, and the write count  *)
(* that partition had when the front was read.  A count is compared for    *)
(* equality only, so it is modelled by the partitions that moved theirs    *)
(* since the cursor last loaded it, uncounted of PartitionedStore.         *)
(* Loading a count, taking the partition and handing a key over are steps. *)
(***************************************************************************)
EXTENDS PartitionedStore

CONSTANT Bounds    \* where walks start and stop: pairs <<from, bound>>

VARIABLES
    phase,     \* where the cursor stands
    loaded,    \* the partition whose count is loaded and whose front is not, or 0
    fronts,    \* fronts_ and states_: 0 for an exhausted partition
    left,      \* partitions of the refresh under way
    position,  \* position_: every key at or below it is behind the walk
    bound,     \* bound_
    \* What the walk was told and what was there, which no guard reads.
    walked,    \* keys handed over
    kept       \* keys there since the walk began

cursorVars == <<phase, loaded, fronts, left, position, bound, walked, kept>>
storeVars == <<dataVars, open, holder, sharers, callVars, workVars, placeVars, touched, returned>>

CursorInit ==
    /\ Init
    /\ phase = "none" /\ loaded = 0 /\ left = {} /\ position = 0 /\ bound = 0
    /\ fronts = [p \in Partitions |-> 0]
    /\ walked = {} /\ kept = {}

FirstOf(ks) == IF ks = {} THEN 0 ELSE Min(ks)

\* upper_bound of one partition at the newest published stamp.
NextShown(p, k) == FirstOf({j \in Shown(p) : j > k})

\* A key erased since it was cached answered by a miss.
MutantLanded(p, k) == FirstOf({j \in Shown(p) : j = k})

\* lower_bound, inclusive: a key erased since is answered by its successor.
Landed(p, k) == FirstOf({j \in Shown(p) : j >= k})

WithinWalk == {k \in Keys : k > position /\ k < bound}

\* The constructors seed every front at the given bound, under the counts they load.
OpenCursor ==
    /\ phase = "none"
    /\ \E b \in Bounds : position' = b[1] - 1 /\ bound' = b[2]
    /\ phase' = "seeding" /\ left' = Partitions /\ uncounted' = Partitions
    /\ kept' = {k \in WithinWalk' : Present(k)}
    /\ UNCHANGED <<storeVars, loaded, fronts, walked>>

\* refresh_stale_fronts_: the count is loaded first, then the front read under the
\* partition's lock; an unmoved count keeps the front.
CheckCount ==
    /\ phase \in {"seeding", "refreshing"} /\ loaded = 0 /\ left # {}
    /\ LET p == Min(left) IN
        IF p \in uncounted
        THEN uncounted' = uncounted \ {p} /\ loaded' = p /\ UNCHANGED left
        ELSE left' = left \ {p} /\ UNCHANGED <<loaded, uncounted>>
    /\ UNCHANGED <<storeVars, phase, fronts, position, bound, walked, kept>>

\* seed_one_front_.
SeedFront ==
    /\ loaded # 0 /\ holder[loaded] = Nobody
    /\ fronts' = [fronts EXCEPT ![loaded] = NextShown(loaded, position)]
    /\ left' = left \ {loaded} /\ loaded' = 0
    /\ UNCHANGED <<storeVars, phase, uncounted, position, bound, walked, kept>>

SeedsEnd ==
    /\ phase = "seeding" /\ left = {} /\ phase' = "standing"
    /\ UNCHANGED <<storeVars, uncounted, loaded, fronts, left, position, bound, walked, kept>>

Contributing == {p \in Partitions : fronts[p] # 0}

\* smallest_front_.
Smallest == CHOOSE p \in Contributing : \A q \in Contributing : fronts[p] <= fronts[q]

\* The fronts are fresh: the walk is over, or the least front is the one to hand over.
ChooseSmallest ==
    /\ phase = "refreshing" /\ left = {}
    /\ phase' = IF Contributing = {} \/ fronts[Smallest] >= bound THEN "ended" ELSE "handing"
    /\ UNCHANGED <<storeVars, uncounted, loaded, fronts, left, position, bound, walked, kept>>

\* The body of next under one partition: the key handed over and the front behind it
\* refilled, or the front raised and the choice made again.
HandOver ==
    LET p == Smallest
        found == Landed(p, fronts[p]) IN
    /\ phase = "handing" /\ holder[p] = Nobody
    /\ uncounted' = uncounted \ {p}
    /\ IF found = fronts[p]
       THEN /\ position' = found /\ walked' = walked \cup {found}
            /\ fronts' = [fronts EXCEPT ![p] = NextShown(p, found)]
            /\ phase' = "standing" /\ UNCHANGED left
       ELSE /\ fronts' = [fronts EXCEPT ![p] = found]
            /\ phase' = "refreshing" /\ left' = Partitions
            /\ UNCHANGED <<position, walked>>
    /\ UNCHANGED <<storeVars, loaded, bound, kept>>

\* next: called again between any two steps of the threads, past the end included.
NextKey ==
    /\ phase \in {"standing", "ended"}
    /\ phase' = "refreshing" /\ left' = Partitions
    /\ UNCHANGED <<storeVars, uncounted, loaded, fronts, position, bound, walked, kept>>

CursorStep ==
    OpenCursor \/ CheckCount \/ SeedFront \/ SeedsEnd \/ ChooseSmallest \/ HandOver \/ NextKey

\* A step of the store's threads; the walk's history is kept beside it.
StoreStep ==
    /\ Next
    /\ kept' = {k \in kept : Present(k)'}
    /\ UNCHANGED <<phase, loaded, fronts, left, position, bound, walked>>

CursorNext == CursorStep \/ StoreStep

CursorSpec == CursorInit /\ [][CursorNext]_<<vars, cursorVars>>

CursorTypeOK ==
    /\ phase \in {"none", "seeding", "refreshing", "handing", "standing", "ended"}
    /\ fronts \in [Partitions -> Keys \cup {0}] /\ left \subseteq Partitions
    /\ loaded \in left \cup {0}
    /\ position \in Keys \cup {0} /\ bound \in 0..(KeyCount + 1)
    /\ walked \cup kept \subseteq Keys

\* No key is handed over twice, and the order is ascending, whatever is written.
Ascends ==
    phase = "handing" /\ phase' = "standing" => position < position' /\ \A j \in walked : j < position'

\* Every key present for the whole walk, within its bounds, is handed over.
KeptAreWalked == phase = "ended" => kept \subseteq walked

=============================================================================
