----------------------------- MODULE MCWrappers -----------------------------
(***************************************************************************)
(* What is wrapped round stores, for TLC: the lock, the group, the Python  *)
(* transaction and the Python ledger of releases. A behaviour is one of    *)
(* nine instances, chosen at its start; a name that two components share   *)
(* is one variable. The instance this module extends is "writes".          *)
(***************************************************************************)
EXTENDS PythonReleases, TLC

CONSTANTS t1, t2, t3, a, b, Idling, Unused

VARIABLES
    instance,
    held, call, seen, contents, tx, walk, inTurn,               \* LockedStore
    parts, staging, published, outcome, torn,                   \* TransactionGroup, and call
    splits, state, lifetime, exits, discarded, last             \* PythonTransaction, parts and torn

lockedOnly == <<held, seen, contents, tx, walk, inTurn>>
groupOnly == <<staging, published, outcome>>
pythonOnly == <<splits, state, lifetime, exits, discarded, last>>
allVars == <<instance, vars, lockedOnly, groupOnly, pythonOnly, call, parts, torn>>

Symmetry == Permutations({t1, t2, t3}) \cup Permutations({a, b})

\* A cursor that keeps a copy of each value it hands to a comparison.
Walking == INSTANCE PythonReleases WITH
    Objects <- {a}, KeyCount <- 2, Calls <- {"walk", "upsert", "find"}, FinalizerCalls <- {"size"}, MaxRecorded <- 1

\* Read, modify and write by transactions and by the store's own calls.
Gap == INSTANCE LockedStore WITH
    NoCall <- Idling, Threads <- {t1, t2, t3}, KeyCount <- 1, Wrap <- 2, DropsStaged <- FALSE,
    Ops <- {"transaction", "watch", "own upsert", "stage", "rollback", "reset", "commit", "upsert",
            "update_range"}

\* What Gap leaves out: reads, strict writes, windows, popping.
Rest == INSTANCE LockedStore WITH
    NoCall <- Idling, Threads <- {t1, t2}, KeyCount <- 1, Wrap <- 2, DropsStaged <- FALSE,
    Ops <- {"transaction", "own find", "own range", "own insert", "own erase", "own update_range",
            "own erase_range", "stage", "commit", "find", "range", "insert", "erase", "erase_range",
            "pop_smallest", "vacuum"}

\* Walks beside the store's own writes.
Cursors == INSTANCE LockedStore WITH
    NoCall <- Idling, Threads <- {t1, t2}, KeyCount <- 3, Wrap <- 1, DropsStaged <- FALSE,
    Ops <- {"cursor next", "upsert", "erase", "pop_smallest", "erase_range"}

\* Two groups over the same stores, named in opposite orders.
Asks == INSTANCE TransactionGroup WITH
    Groups <- {t1, t2}, StoreCount <- 2, Arguments <- (t1 :> <<1, 2>>) @@ (t2 :> <<2, 1>>),
    Splits <- TRUE, CanRefuse <- FALSE, Keeps <- FALSE

\* A group that cannot ask first, beside one over a single store.
Turns == INSTANCE TransactionGroup WITH
    Groups <- {t1, t2}, StoreCount <- 2, Arguments <- (t1 :> <<2, 1>>) @@ (t2 :> <<2>>),
    Splits <- FALSE, CanRefuse <- FALSE, Keeps <- FALSE

\* Three stores that run out of memory.
Fails == INSTANCE TransactionGroup WITH
    Groups <- {t1}, StoreCount <- 3, Arguments <- t1 :> <<3, 1, 2>>,
    Splits <- TRUE, CanRefuse <- TRUE, Keeps <- FALSE

\* Two threads sharing a transaction and its with block.
Blocks == INSTANCE PythonTransaction WITH Threads <- {t1, t2}, PartCount <- 3

ASSUME Gap!LockedAssumption /\ Rest!LockedAssumption /\ Cursors!LockedAssumption
ASSUME Asks!GroupAssumption /\ Turns!GroupAssumption /\ Fails!GroupAssumption
ASSUME Blocks!PythonAssumption

----------------------------------------------------------------------------

NoReleases ==
    /\ slots = Unused /\ staged = Unused /\ refs = Unused /\ calls = Unused /\ recorded = Unused
    /\ stack = Unused
NoLocked ==
    /\ held = Unused /\ seen = Unused /\ contents = Unused /\ tx = Unused /\ walk = Unused
    /\ inTurn = Unused
NoGroup == staging = Unused /\ published = Unused /\ outcome = Unused
NoPython ==
    /\ splits = Unused /\ state = Unused /\ lifetime = Unused /\ exits = Unused
    /\ discarded = Unused /\ last = Unused
NoCallYet == call = Unused
NoParts == parts = Unused /\ torn = Unused

InReleases == NoLocked /\ NoGroup /\ NoPython /\ NoCallYet /\ NoParts
InLocked == NoReleases /\ NoGroup /\ NoPython /\ NoParts
InGroup == NoReleases /\ NoLocked /\ NoPython

MCInit ==
    \/ instance = "writes" /\ Init /\ InReleases
    \/ instance = "walking" /\ Walking!Init /\ InReleases
    \/ instance = "gap" /\ Gap!Init /\ InLocked
    \/ instance = "rest" /\ Rest!Init /\ InLocked
    \/ instance = "cursors" /\ Cursors!Init /\ InLocked
    \/ instance = "asks" /\ Asks!Init /\ InGroup
    \/ instance = "turns" /\ Turns!Init /\ InGroup
    \/ instance = "fails" /\ Fails!Init /\ InGroup
    \/ instance = "blocks" /\ Blocks!Init /\ NoReleases /\ NoLocked /\ NoGroup /\ NoCallYet

ReleasesStep(name, A) ==
    instance = name /\ A /\ UNCHANGED <<instance, lockedOnly, groupOnly, pythonOnly, call, parts, torn>>
LockedStep(name, A) == instance = name /\ A /\ UNCHANGED <<instance, vars, groupOnly, pythonOnly, parts, torn>>
GroupStep(name, A) == instance = name /\ A /\ UNCHANGED <<instance, vars, lockedOnly, pythonOnly>>

\* A finished transaction stops.
Over ==
    /\ instance = "blocks" /\ \A t \in {t1, t2} : exits[t] \in Blocks!Over
    /\ UNCHANGED allVars

MCNext ==
    \/ ReleasesStep("writes", Next) \/ ReleasesStep("walking", Walking!Next)
    \/ LockedStep("gap", Gap!Next) \/ LockedStep("rest", Rest!Next) \/ LockedStep("cursors", Cursors!Next)
    \/ GroupStep("asks", Asks!Next) \/ GroupStep("turns", Turns!Next) \/ GroupStep("fails", Fails!Next)
    \/ instance = "blocks" /\ Blocks!Next /\ UNCHANGED <<instance, vars, lockedOnly, groupOnly, call>>
    \/ Over

MCSpec == MCInit /\ [][MCNext]_allVars

----------------------------------------------------------------------------

\* Calls made at once through a locked_store leave what the same calls leave one after another, a transaction
\* staged before and committed after other calls included; what a call found under the mutex stands until it
\* gives the mutex back; and a cursor, which holds none between its steps, misses no key that stayed.
CallsTakeTurns ==
    /\ instance = "gap" => Gap!TakesTurns /\ Gap!FoundStands
    /\ instance = "rest" => Rest!LockedTypeOK /\ Rest!TakesTurns /\ Rest!ChangesAlone
    /\ instance = "cursors" => Cursors!TakesTurns /\ Cursors!WalkMissesNone

\* A transaction over several stores ends in all of them or in none: asked first, a refusal published nothing
\* and a success everything; unable to ask, its answer tells whether anything was published; it never claims to
\* be staged where a store is not, and loses no pending write to a refused stage. From Python, whatever the
\* threads sharing it race to do, a with block that returned has left nothing behind, and one that failed has
\* discarded every write for good (transaction_group, Transaction_exit).
GroupsEndWhole ==
    [][ /\ instance = "asks" => Asks!GroupTypeOK' /\ Asks!StagedAsOne' /\ Asks!CommitWhole' /\ Asks!WritesSurvive
        /\ instance = "turns" => Turns!StagedAsOne' /\ Turns!RefusalShows /\ Turns!NothingClobbered
        /\ instance = "fails" => Fails!PartialStageUnseen' /\ Fails!CommitWhole'
        /\ instance = "blocks" =>
             /\ Blocks!PythonTypeOK' /\ Blocks!StateTells'
             /\ Blocks!ExitLeavesNothing' /\ Blocks!DiscardedForGood' ]_allVars

\* However calls, drains, finalizers and comparisons interleave, an object's count is the number of places that
\* refer to it; a finalizer runs without the store's lock, and blocks on nothing its own thread holds
\* (releases_t, drain_).
ReleasesBalance ==
    /\ instance = "writes" => TypeOK /\ ReferencesBalance /\ FinalizersRunFree /\ NobodyBlocksItself
    /\ instance = "walking" => Walking!ReferencesBalance

=============================================================================
