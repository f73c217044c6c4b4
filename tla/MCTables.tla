------------------------------ MODULE MCTables ------------------------------
(***************************************************************************)
(* The containers for TLC. A behaviour is one of five instances, chosen at *)
(* its start: threads probing an atomic_hash_table, which this module      *)
(* extends, one thread taking a basic_hash_table through its life, or a    *)
(* search tree given one call after another.                               *)
(***************************************************************************)
EXTENDS AtomicHashTable, TLC

CONSTANTS a, b, Elsewhere

VARIABLES
    instance,
    table, pinned, answer, contents, room,  \* HashTable
    tree                                    \* AvlTree, WeightBalancedTree

tableVars == <<table, pinned, answer, contents, room>>
allVars == <<instance, vars, tableVars, tree>>

\* The first two keys collide, the third starts at the last slot and wraps.
MCHash == <<1, 1, 3>>
Symmetry == Permutations({a, b})

\* Churn at the edges of the load, resizing included; the first two keys collide in
\* the last slot of four and wrap.
Grows == INSTANCE HashTable WITH
    KeyCount <- 4, Hash <- <<3, 7, 0, 5>>, BucketCapacity <- 4, Values <- {1, 2}, HasValues <- TRUE,
    SizeBits <- 6, OffsetSpan <- 64, MaxSlots <- 8, Requests <- {1, 4}, CopiesFit <- TRUE,
    Calls <- {"emplace", "upsert", "erase", "reserve", "reserve_more", "shrink_to_fit", "clear", "copy"}

\* A set moved to other sizes, copied, and handed to a pinned table and back.
Moves == INSTANCE HashTable WITH
    KeyCount <- 3, Hash <- <<3, 7, 0>>, BucketCapacity <- 4, Values <- {1}, HasValues <- FALSE,
    SizeBits <- 6, OffsetSpan <- 64, MaxSlots <- 8, Requests <- {1, 8}, CopiesFit <- TRUE,
    Calls <- {"emplace", "erase", "force_resize", "rehash", "adopt", "clear", "copy_sized"}

\* Trees of every shape calls lead to; only the smaller ones meet ranges and other trees.
Avl == INSTANCE AvlTree WITH
    Null <- Elsewhere, Capacity <- 9, Meets <- 4, MaxGiven <- 2, DswThreshold <- 1, ErasesIf <- FALSE
Weight == INSTANCE WeightBalancedTree WITH
    Null <- Elsewhere, Capacity <- 8, Meets <- 3, MaxGiven <- 2

ASSUME Grows!TableAssumption /\ Moves!TableAssumption
ASSUME Avl!AvlAssumption /\ Weight!WeightAssumption

NoAtomic ==
    /\ header = Elsewhere /\ stored = Elsewhere /\ populated_count = Elsewhere /\ deleted_count = Elsewhere
    /\ call = Elsewhere /\ left = Elsewhere
NoTable ==
    table = Elsewhere /\ pinned = Elsewhere /\ answer = Elsewhere /\ contents = Elsewhere /\ room = Elsewhere
NoTree == tree = Elsewhere

MCInit ==
    \/ instance = "atomic" /\ Init /\ NoTable /\ NoTree
    \/ instance = "grows" /\ Grows!Init /\ NoAtomic /\ NoTree
    \/ instance = "moves" /\ Moves!Init /\ NoAtomic /\ NoTree
    \/ instance = "avl" /\ Avl!Init /\ NoAtomic /\ NoTable
    \/ instance = "weight" /\ Weight!Init /\ NoAtomic /\ NoTable

\* Every thread has made its calls.
Made ==
    /\ instance = "atomic" /\ \A t \in Threads : call[t].step = "idle" /\ left[t] = 0
    /\ UNCHANGED allVars

MCNext ==
    \/ instance = "atomic" /\ Next /\ UNCHANGED <<instance, tableVars, tree>>
    \/ Made
    \/ instance = "grows" /\ Grows!Next /\ UNCHANGED <<instance, vars, tree>>
    \/ instance = "moves" /\ Moves!Next /\ UNCHANGED <<instance, vars, tree>>
    \/ instance = "avl" /\ Avl!Next /\ UNCHANGED <<instance, vars, tableVars>>
    \/ instance = "weight" /\ Weight!Next /\ UNCHANGED <<instance, vars, tableVars>>

MCSpec == MCInit /\ [][MCNext]_allVars

----------------------------------------------------------------------------

\* A search finds what is there. Of the pinned table: a slot has one holder, a key has one slot, no probe stops
\* short of its key, and an answer "missing" was right when it was decided, however calls interleave. Of the
\* growing one: what the calls made of a key, through overwriting, tombstones, moving, copying and the pinned
\* life, refused allocations included. Of a tree: lookups, bounds and walks answer what the set of keys does,
\* and a call leaves the entries it should, of a range into an AVL tree all or none, of shapes that meet and
\* allocations that stop anywhere.
KeysAreFound ==
    /\ instance = "atomic" => AtomicTypeOK /\ HeldAlone /\ OneSlotPerKey /\ ProbesArrive /\ MissMeansAbsent
    /\ instance = "grows" => Grows!HashTypeOK /\ Grows!ProbesFindContents
    /\ instance = "moves" => Moves!HashTypeOK /\ Moves!ProbesFindContents
    /\ instance = "avl" => Avl!AvlLookupsAgree /\ Avl!AvlCallsKeepEntries
    /\ instance = "weight" => Weight!WeightLookupsAgree /\ Weight!WeightCallsKeepEntries

\* The counters are those of what is stored, which every decision to grow, to refuse or to rotate goes by: the
\* pinned table is exhausted only when it is full; the growing one stays below its load, keeps the room it
\* reserved, and never refuses to overwrite what it has; heights, sizes and counts of subtrees are exact and
\* every tree is balanced, whatever was inserted, joined, split or shed.
CountsDecideRight ==
    /\ instance = "atomic" => CountsSettle /\ ExhaustedMeansFull
    /\ instance = "grows" =>
         /\ Grows!CountsMatch /\ Grows!ReservationKept /\ Grows!LoadStaysBelow
         /\ Grows!OverwriteNeverRefused /\ Grows!ReserveFits
    /\ instance = "moves" => Moves!CountsMatch
    /\ instance = "avl" => Avl!AvlBooksExact /\ Avl!AvlBalanced
    /\ instance = "weight" => Weight!BooksOf(tree)
=============================================================================
