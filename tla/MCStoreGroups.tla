--------------------------- MODULE MCStoreGroups ---------------------------
(***************************************************************************)
(* SnapshotStore for TLC over groups of two keys, at the snapshot level: a *)
(* behaviour is one of two instances, two transactions beside the bulk     *)
(* calls, or one transaction whose staging and rollback run out of memory  *)
(* at any key.  What a read leaves behind at this level is nothing, so the *)
(* steps taken are those that change the store.                            *)
(***************************************************************************)
EXTENDS MCSnapshotStore

VARIABLE exhausted

Exhausted == INSTANCE SnapshotStore WITH
    Transactions <- MCOne, RollbackFails <- TRUE

MCInit == exhausted \in BOOLEAN /\ IF exhausted THEN Exhausted!Init ELSE Init

MCNext ==
    \/ exhausted /\ Exhausted!Next /\ vars' # vars /\ UNCHANGED exhausted
    \/ ~exhausted /\ Next /\ vars' # vars /\ UNCHANGED exhausted

MCSpec == MCInit /\ [][MCNext]_<<vars, exhausted>>

GroupsView == <<exhausted, MCView>>

----------------------------------------------------------------------------

\* Running out of memory at any key, in stage or in rollback, leaves the store itself consistent: no version
\* stays staged that nobody will stamp, no count drifts, and every snapshot still answers what it did (stage,
\* unwind_, rollback).
ExhaustionStrandsNothing ==
    exhausted => Exhausted!StagedStands /\ Exhausted!CountsExact /\ Exhausted!SnapshotsHold

\* No reader ever meets a placeholder of the staging pass, unless a rollback lost the payload for want of memory
\* (which is the run store_retried).
GroupsAreWritten == ~exhausted => NothingUnwritten

\* Every group appears whole and first committers win: the store carries out snapshot isolation.
GroupsAreIsolated ==
    /\ ~exhausted => Abstract!Init
    /\ [][~exhausted => Abstract!Next \/ UNCHANGED Abstract!vars]_vars

=============================================================================
