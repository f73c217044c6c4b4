--------------------------- MODULE MCCallsReturn ---------------------------
(***************************************************************************)
(* What waits, spins, drains or parks, side by side: a behaviour is one of *)
(* four instances, chosen at its start, and the variables of the others    *)
(* stay Elsewhere. A name that two components share is one variable.          *)
(***************************************************************************)
EXTENDS Naturals, FiniteSets

CONSTANTS t1, t2, t3, None, Elsewhere

VARIABLES
    instance,
    \* SnapshotClock and PartitionedStore.
    pc, stamp, snapshot,
    commits, publishedStamp, lowWaterMark, inFlight, census, seen, heldMark,
    versions, drawn, writing, open, holder, sharers, uncounted, op, key, todo, touched, staging, unsettled,
    changed, reads, stagedIn, log, own, returned,
    \* AtomicHashTable.
    header, stored, populated_count, deleted_count, call, left,
    \* PythonReleases.
    slots, staged, refs, calls, recorded, stack

clockOnly == <<commits, publishedStamp, lowWaterMark, inFlight, census, seen, heldMark>>
strictOnly == <<versions, drawn, writing, open, holder, sharers, uncounted, op, key, todo, touched, staging,
                unsettled, changed, reads, stagedIn, log, own, returned>>
tableOnly == <<header, stored, populated_count, deleted_count, call, left>>
releasesOnly == <<slots, staged, refs, calls, recorded, stack>>
vars == <<instance, pc, stamp, snapshot, clockOnly, strictOnly, tableOnly, releasesOnly>>

\* Three committing threads that wait for their publication.
Clock == INSTANCE SnapshotClock WITH Committers <- {t1, t2, t3}, Leases <- {}, Pruners <- {}, MaxStamp <- 4

\* Commits and direct writes that wait for their publication, the latter under a lock.
Strict == INSTANCE PartitionedStore WITH
    Threads <- {t1, t2}, Nobody <- None, PartitionCount <- 2, KeyCount <- 2, Isolation <- "strict",
    Calls <- {"transaction", "write", "stage", "commit", "upsert"}, DropsStaged <- FALSE, MaxStamp <- 2

\* Two threads probing three slots from different places.
Table == INSTANCE AtomicHashTable WITH
    Threads <- {t1, t2}, KeyCount <- 2, Hash <- <<1, 2>>, SlotsCount <- 3, CountSpan <- 4, Calls <- 1

\* A thread that drains what the other keeps recording.
Releases == INSTANCE PythonReleases WITH
    Threads <- {t1, t2}, Objects <- {1, 2}, KeyCount <- 1, Calls <- {"upsert", "commit", "stage"},
    FinalizerCalls <- {"size"}, MaxDepth <- 2, MaxRecorded <- 2

NoClock ==
    /\ commits = Elsewhere /\ publishedStamp = Elsewhere /\ lowWaterMark = Elsewhere /\ inFlight = Elsewhere
    /\ census = Elsewhere /\ seen = Elsewhere /\ heldMark = Elsewhere
NoStrict ==
    /\ versions = Elsewhere /\ drawn = Elsewhere /\ writing = Elsewhere /\ open = Elsewhere /\ holder = Elsewhere
    /\ sharers = Elsewhere /\ uncounted = Elsewhere /\ op = Elsewhere /\ key = Elsewhere /\ todo = Elsewhere
    /\ touched = Elsewhere /\ staging = Elsewhere /\ unsettled = Elsewhere /\ changed = Elsewhere /\ reads = Elsewhere
    /\ stagedIn = Elsewhere /\ log = Elsewhere /\ own = Elsewhere /\ returned = Elsewhere
NoTable ==
    /\ header = Elsewhere /\ stored = Elsewhere /\ populated_count = Elsewhere /\ deleted_count = Elsewhere
    /\ call = Elsewhere /\ left = Elsewhere
NoReleases ==
    /\ slots = Elsewhere /\ staged = Elsewhere /\ refs = Elsewhere /\ calls = Elsewhere /\ recorded = Elsewhere
    /\ stack = Elsewhere
NoStamps == stamp = Elsewhere /\ snapshot = Elsewhere

Init ==
    \/ instance = "clock" /\ Clock!Init /\ NoStrict /\ NoTable /\ NoReleases
    \/ instance = "strict" /\ Strict!Init /\ NoClock /\ NoTable /\ NoReleases
    \/ instance = "table" /\ Table!Init /\ pc = Elsewhere /\ NoStamps /\ NoClock /\ NoStrict /\ NoReleases
    \/ instance = "releases" /\ Releases!Init /\ pc = Elsewhere /\ NoStamps /\ NoClock /\ NoStrict /\ NoTable

InClock(A) ==
    instance = "clock" /\ A /\ UNCHANGED <<instance, strictOnly, tableOnly, releasesOnly>>
InStrict(A) ==
    instance = "strict" /\ A /\ UNCHANGED <<instance, clockOnly, tableOnly, releasesOnly>>
InTable(A) ==
    instance = "table" /\ A
    /\ UNCHANGED <<instance, pc, stamp, snapshot, clockOnly, strictOnly, releasesOnly>>
InReleases(A) ==
    instance = "releases" /\ A
    /\ UNCHANGED <<instance, pc, stamp, snapshot, clockOnly, strictOnly, tableOnly>>

Next ==
    InClock(Clock!Next) \/ InStrict(Strict!Next) \/ InTable(Table!Next)
        \/ InReleases(Releases!Next)

\* The fairness each component states.
Fairness ==
    /\ \A t \in {t1, t2, t3} :
        /\ WF_vars(InClock(Clock!EndCommit(t))) /\ WF_vars(InClock(Clock!Poll(t))) /\ WF_vars(InClock(Clock!Park(t)))
    /\ \A t \in {t1, t2} :
        /\ WF_vars(InStrict(Strict!Landing(t))) /\ WF_vars(InTable(Table!Step(t)))
        /\ WF_vars(InReleases(Releases!Step(t)))

Spec == Init /\ [][Next]_vars /\ Fairness

----------------------------------------------------------------------------

\* Every await_published comes back to its caller: a frame that saw an old watermark and parked is woken by
\* whichever end_commit passes its stamp, and a direct write that waits under its partition's lock keeps no
\* older commit from landing (snapshot_clock_t, commit_under_one_stamp_).
PublicationsReachEveryone ==
    /\ \A t \in {t1, t2, t3} : instance = "clock" /\ pc[t] = "awaiting" ~> instance = "clock" /\ pc[t] = "idle"
    /\ \A t \in {t1, t2} :
        instance = "strict" /\ pc[t] = "landing"
            ~> instance = "strict" /\ pc[t] \notin {"landing", "landed", "finishing"}

\* Threads that probe the slots of a table from different places never wait for each other in a ring. A drain
\* of a Python container's ledger takes one batch, "what guarantees progress" (drain_'s comment): it ends although
\* the other thread keeps recording, and nothing holds it up but a finalizer of its own that is never let to the
\* store's lock.
ProbesAndDrainsEnd ==
    \A t \in {t1, t2} :
        /\ instance = "table" /\ call[t].step # "idle" ~> instance = "table" /\ call[t].step = "idle"
        /\ (instance = "releases" /\ Releases!Draining(t))
             ~> \/ instance = "releases" /\ ~Releases!Draining(t)
                \/ [](instance = "releases" /\ Releases!At(t, "lock"))
=============================================================================
