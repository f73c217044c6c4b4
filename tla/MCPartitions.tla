---------------------------- MODULE MCPartitions ----------------------------
(***************************************************************************)
(* PartitionedStore and OrderedCursor for TLC.  A behaviour is one of nine *)
(* instances, chosen at its start, each with the calls that make one thing *)
(* go wrong: what they share is the store, what differs is who calls what. *)
(* The instance this module extends is "serial".                           *)
(***************************************************************************)
EXTENDS PartitionedStore, TLC

CONSTANTS a, b, c, Unused

VARIABLES
    instance,
    phase, loaded, fronts, left, position, bound, walked, kept   \* OrderedCursor

cursorVars == <<phase, loaded, fronts, left, position, bound, walked, kept>>
allVars == <<instance, vars, cursorVars>>

MCTwo == {a, b}
MCSerial == {"transaction", "write", "find", "stage", "commit"}
Symmetry == Permutations({a, b})

\* A transaction's reads and commits, undone in every way it can be.
Undone == INSTANCE PartitionedStore WITH
    Isolation <- "snapshot", Calls <- {"transaction", "write", "stage", "commit", "rollback", "reset"}

\* Reads of the merged order, checked writes and erasures, at a validating level.
Windows == INSTANCE PartitionedStore WITH
    Isolation <- "serializable", Calls <- {"transaction", "scan", "add", "unwrite_all", "stage", "commit"}

\* One transaction using everything, and dropped while it is staged.
Alone == INSTANCE PartitionedStore WITH
    Threads <- {a}, Isolation <- "snapshot", DropsStaged <- TRUE, MaxStamp <- 3,
    Calls <- {"transaction", "write", "unwrite", "add", "revise", "unwrite_all", "stage", "commit", "rollback",
              "reset", "drop", "erase_range"}

\* Readers beside what reclaims versions.
Swept == INSTANCE PartitionedStore WITH
    Isolation <- "snapshot", MaxStamp <- 3, Calls <- {"transaction", "upsert", "erase", "drop", "vacuum", "clear"}

\* Three threads taking one partition, or all of them, for writing or shared.
Held3 == INSTANCE PartitionedStore WITH
    Threads <- {a, b, c}, Isolation <- "snapshot", MaxStamp <- 4,
    Calls <- {"upsert", "update", "erase_range", "pop_smallest", "walk", "vacuum"}

\* Commits and direct writes that wait for their publication, the latter under a lock.
Strict == INSTANCE PartitionedStore WITH
    Isolation <- "strict", Calls <- {"transaction", "write", "stage", "commit", "upsert", "insert"}

\* A cursor over three keys beside direct writes, and beside what erases several keys.
Walked == INSTANCE OrderedCursor WITH
    KeyCount <- 3, Isolation <- "snapshot", MaxStamp <- 3, Calls <- {"upsert", "erase"},
    Bounds <- {<<1, 4>>}
Erased == INSTANCE OrderedCursor WITH
    KeyCount <- 3, Isolation <- "snapshot", MaxStamp <- 3, Calls <- {"upsert", "erase_range", "pop_smallest"},
    Bounds <- {<<1, 4>>, <<2, 3>>}

NoCursor ==
    /\ phase = Unused /\ loaded = Unused /\ fronts = Unused /\ left = Unused /\ position = Unused
    /\ bound = Unused /\ walked = Unused /\ kept = Unused

MCInit ==
    \/ instance = "serial" /\ Init /\ NoCursor
    \/ instance = "undone" /\ Undone!Init /\ NoCursor
    \/ instance = "windows" /\ Windows!Init /\ NoCursor
    \/ instance = "alone" /\ Alone!Init /\ NoCursor
    \/ instance = "swept" /\ Swept!Init /\ NoCursor
    \/ instance = "held" /\ Held3!Init /\ NoCursor
    \/ instance = "strict" /\ Strict!Init /\ NoCursor
    \/ instance = "walked" /\ Walked!CursorInit
    \/ instance = "erased" /\ Erased!CursorInit

Runs(name, A) == instance = name /\ A /\ UNCHANGED <<instance, cursorVars>>

\* What is asked of these instances is asked of the history alone, which no step
\* changes once every stamp is drawn.
UntilAllDrawn(N) == IF drawn < MaxStamp THEN N ELSE UNCHANGED vars

MCNext ==
    \/ Runs("serial", UntilAllDrawn(Next)) \/ Runs("undone", Undone!Next)
    \/ Runs("windows", UntilAllDrawn(Windows!Next))
    \/ Runs("alone", Alone!Next) \/ Runs("swept", Swept!Next) \/ Runs("held", Held3!Next)
    \/ Runs("strict", Strict!Next)
    \/ instance = "walked" /\ Walked!CursorNext /\ UNCHANGED instance
    \/ instance = "erased" /\ Erased!CursorNext /\ UNCHANGED instance

MCSpec == MCInit /\ [][MCNext]_allVars

----------------------------------------------------------------------------

\* A settled transaction reads exactly the commits its snapshot names, its own last one among them, in every
\* partition, whatever it undid before; at the strict level whoever arrives after a write returned is given
\* a snapshot naming it (transaction, settle_snapshot_, commit, await_published).
SnapshotsAreWhole ==
    /\ instance = "undone" => Undone!TypeOK /\ Undone!SnapshotWhole /\ Undone!OwnCommitRead
    /\ instance = "alone" => Alone!TypeOK /\ Alone!SnapshotWhole
    /\ instance = "strict" => Strict!ReturnedIsVisible

\* stage lands in every reached part or in none, and rollback, reset and the destructor take all of it back.
StagesAreWhole ==
    /\ instance = "undone" => Undone!StagedWhole
    /\ instance = "alone" => Alone!StagedWhole

\* No threads wait for each other in a ring, for partitions or for publications (every_part_lock,
\* touched_parts_lock_t, await_published under a partition's lock).
NoRingOfWaits ==
    /\ instance = "held" => Held3!NobodyWaitsInACircle
    /\ instance = "strict" => Strict!NobodyWaitsInACircle

\* A cursor hands over, ascending and once each, every key that was there for the whole walk (ordered_cursor_t).
WalksMissNothing ==
    [][ /\ instance = "walked" => Walked!CursorTypeOK' /\ Walked!Ascends /\ Walked!KeptAreWalked'
        /\ instance = "erased" => Erased!Ascends /\ Erased!KeptAreWalked' ]_allVars
=============================================================================
