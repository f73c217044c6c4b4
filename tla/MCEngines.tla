----------------------------- MODULE MCEngines -----------------------------
(***************************************************************************)
(* MonotonicStore and ReferenceStore for TLC, and the GroupStore both      *)
(* implement. A behaviour is one of six instances, chosen at its start:    *)
(* for either engine two transactions writing two keys beside direct       *)
(* writes, two of them watching one key twice, and one walking three keys. *)
(* The instance this module extends is the monotonic engine's pairs.       *)
(***************************************************************************)
EXTENDS MonotonicStore, TLC

CONSTANTS t1, t2, Unused

VARIABLES
    instance,
    entries     \* ReferenceStore

allVars == <<instance, vars, entries>>

MCPair == {t1, t2}
Symmetry == Permutations(MCPair)

MonoWatches == INSTANCE MonotonicStore WITH KeyCount <- 1, MaxWatches <- 2
MonoWalks == INSTANCE MonotonicStore WITH KeyCount <- 3, Transactions <- {t1}

RefPairs == INSTANCE ReferenceStore WITH MaxListed <- 2, RepeatsInBatch <- FALSE
RefWatches == INSTANCE ReferenceStore WITH KeyCount <- 1, MaxWatches <- 2, MaxListed <- 2, RepeatsInBatch <- FALSE
RefWalks == INSTANCE ReferenceStore WITH
    KeyCount <- 3, Transactions <- {t1}, MaxListed <- 3, RepeatsInBatch <- FALSE

ASSUME RefPairs!ReferenceAssumption

MCInit ==
    \/ instance = "mono pairs" /\ Init /\ entries = Unused
    \/ instance = "mono watches" /\ MonoWatches!Init /\ entries = Unused
    \/ instance = "mono walks" /\ MonoWalks!Init /\ entries = Unused
    \/ instance = "ref pairs" /\ RefPairs!Init /\ chains = Unused
    \/ instance = "ref watches" /\ RefWatches!Init /\ chains = Unused
    \/ instance = "ref walks" /\ RefWalks!Init /\ chains = Unused

InMono(name, A) == instance = name /\ A /\ UNCHANGED <<instance, entries>>
InRef(name, A) == instance = name /\ A /\ UNCHANGED <<instance, chains>>

MCNext ==
    \/ InMono("mono pairs", Next)
    \/ InMono("mono watches", MonoWatches!Next)
    \/ InMono("mono walks", MonoWalks!Next)
    \/ InRef("ref pairs", RefPairs!Next)
    \/ InRef("ref watches", RefWatches!Next)
    \/ InRef("ref walks", RefWalks!Next)

MCSpec == MCInit /\ [][MCNext]_allVars

\* A generation is compared for equality and for nothing else: what tells states
\* apart is which transaction has it, and whether a watch still finds it.
CarriersOf(g) == {t \in Open : txns[t].generation = g}
Told(vs) == {<<CarriersOf(v.gen), v.payload, v.visible>> : v \in vs}
ToldOf(f) == [k \in DOMAIN f |-> Told(f[k])]
HasDrifted(w) == IF instance = "mono watches" THEN Drifted(w)
                 ELSE instance = "ref watches" /\ RefWatches!Drifted(w)

EnginesView ==
    <<instance, IF chains = Unused THEN ToldOf(entries) ELSE ToldOf(chains), visibleCount, deletedCount,
      [t \in Open |->
         <<txns[t].staged, txns[t].listed, txns[t].committed,
           IF chains = Unused THEN ToldOf(txns[t].changes) ELSE txns[t].changes,
           {<<w.key, w.here, w.moved, HasDrifted(w), CarriersOf(w.gen)>> : w \in txns[t].watches}>>]>>

----------------------------------------------------------------------------

\* size() is computed from two running counts kept by every path that publishes, retires or reclaims: they count
\* what the index holds. What is staged is exactly what staged transactions listed, so publishing cannot fail,
\* and no reader is handed the slot staging reserves.
CountsAndStagesExact ==
    /\ instance = "mono pairs" => MonotonicTypeOK /\ CountsExact /\ StagedExactly /\ NothingUnwritten
    /\ instance = "ref pairs" => RefPairs!ReferenceTypeOK /\ RefPairs!CountsExact /\ RefPairs!StagedExactly

\* A watch drifts exactly when its key was published over, and a commit rests on no watch that was, through any
\* staging, rolling back and staging again (validate_for_commit, "the lost update the watch was taken to prevent").
WatchesTell ==
    [][ /\ instance = "mono watches" => MonoWatches!DriftIsMove' /\ MonoWatches!WatchedStand
        /\ instance = "ref watches" => RefWatches!DriftIsMove' ]_allVars

\* Every walk, bound and ordinal of a transaction shows the keys its find sees, each once; the store's own agree.
WalksAgreeWithFinds ==
    /\ instance = "mono walks" => MonoWalks!WalksAgree
    /\ instance = "ref walks" => RefWalks!WalksAgree

\* Call by call (CallsRefine of either engine), GroupStore and nothing else: staging, rolling back, resetting, dropping
\* and reclaiming leave the contents alone, staging and rolling back leave what is pending whole, a commit lays all the
\* transaction wrote over the contents in one step, and a direct write touches the keys it names.
ImplementGroupStore ==
    /\ instance = "mono pairs" => Group!Init
    /\ instance = "ref pairs" => RefPairs!Group!Init
    /\ [][ /\ instance = "mono pairs" => CallsRefine
           /\ instance = "ref pairs" => RefPairs!CallsRefine ]_allVars

=============================================================================
