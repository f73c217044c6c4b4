--------------------------- MODULE SnapshotClock ---------------------------
(***************************************************************************)
(* snapshot_clock_t (snapshot_store.hpp): the stamps and the reader census *)
(* that one store, or every partition of a shard set, draws snapshots and  *)
(* commit stamps from.                                                     *)
(*                                                                         *)
(* Every section under mutex_ is one action.  What the clock reads without *)
(* the lock is a step of its own: await_published loads, parks and is      *)
(* woken in separate steps, and a pruner keeps the low-water mark it       *)
(* loaded for as long as it likes before using it.                         *)
(*                                                                         *)
(* The two intrusive lists are sequences ordered as they are linked: a     *)
(* node joins at the newest end, leaves from anywhere, and the head stands *)
(* for the minimum.  That the head really is the minimum is not assumed:   *)
(* it is what SnapshotClockProofs proves.                                  *)
(***************************************************************************)
EXTENDS Naturals, Sequences, SequencesExt

CONSTANTS
    Committers,  \* frames owning a commit_in_flight_t node, one thread each
    Leases,      \* snapshot_lease_t objects
    Pruners,     \* threads that loaded low_water_mark() and still hold it
    MaxStamp     \* bound: commits drawn in a behaviour

ASSUME MaxStampAssumption == MaxStamp \in Nat

VARIABLES
    commits,         \* commits_: the newest stamp drawn
    publishedStamp,  \* published_stamp_: the watermark
    lowWaterMark,    \* low_water_mark_: what reclamation prunes to
    inFlight,        \* oldest_in_flight_ .. newest_in_flight_
    stamp,           \* commit_in_flight_t::stamp_
    census,          \* oldest_lease_ .. newest_lease_
    snapshot,        \* snapshot_lease_t::snapshot_
    pc,              \* where each committing frame stands
    seen,            \* the local of await_published
    heldMark         \* a mark loaded without the lock

awaitVars == <<pc, seen>>
commitVars == <<commits, publishedStamp, inFlight, stamp>>
censusVars == <<census, snapshot>>
vars == <<commitVars, censusVars, awaitVars, lowWaterMark, heldMark>>

Phases == {"idle", "writing", "awaiting", "parking", "parked"}

----------------------------------------------------------------------------
(* Mutants of the helpers below, used by the runs to show that the         *)
(* properties can fail.                                                    *)

\* The minimum taken from the newest end.
NewestSnapshot(list, snap, fallback) ==
    IF list = <<>> THEN fallback ELSE snap[list[Len(list)]]

\* One below the oldest reader, as the watermark is one below the oldest commit.
MarkBelowReaders(list, snap, fallback) ==
    IF list = <<>> THEN fallback ELSE snap[list[1]] - 1

\* The watermark moved to the stamp that just landed.
PublishedAtNewest(flight, stamps, drawn) == drawn

\* The notify_all of end_commit forgotten.
NobodyWoken(phases) == phases

----------------------------------------------------------------------------
(* The intrusive lists.                                                    *)

Listed(list, node) == \E i \in DOMAIN list : list[i] = node

Place(list, node) == CHOOSE i \in DOMAIN list : list[i] = node

\* unlink_: the neighbours of the node are joined to each other.
Unlink(list, node) == RemoveAt(list, Place(list, node))

\* relink_lease_: the replacement takes the place of the held one.
Relink(list, held, replacement) == [list EXCEPT ![Place(list, held)] = replacement]

\* republish_mark_: the census head, or the watermark when nobody reads.
RepublishedMark(list, snap, published) ==
    IF list = <<>> THEN published ELSE snap[Head(list)]

\* end_commit: one below the oldest commit in flight, or all that was drawn.
Whole(flight, stamps, drawn) ==
    IF flight = <<>> THEN drawn ELSE stamps[Head(flight)] - 1

\* atomic_notify_all(published_stamp_) wakes every parked frame.
Woken(phases) ==
    [c \in DOMAIN phases |-> IF phases[c] = "parked" THEN "awaiting" ELSE phases[c]]

----------------------------------------------------------------------------

Init ==
    /\ commits = 0 /\ publishedStamp = 0 /\ lowWaterMark = 0
    /\ inFlight = <<>> /\ census = <<>>
    /\ stamp = [c \in Committers |-> 0]
    /\ snapshot = [l \in Leases |-> 0]
    /\ pc = [c \in Committers |-> "idle"]
    /\ seen = [c \in Committers |-> 0]
    /\ heldMark = [p \in Pruners |-> 0]

\* take_snapshot: the lease gives back what it held and reads at the watermark.
TakeSnapshot(l) ==
    /\ snapshot' = [snapshot EXCEPT ![l] = publishedStamp]
    /\ census' = Append(IF Listed(census, l) THEN Unlink(census, l) ELSE census, l)
    /\ lowWaterMark' = RepublishedMark(census', snapshot', publishedStamp)
    /\ UNCHANGED <<commitVars, awaitVars, heldMark>>

\* snapshot_lease_t::retire, which is idempotent: only a held lease does anything.
Retire(l) ==
    /\ Listed(census, l)
    /\ census' = Unlink(census, l)
    /\ lowWaterMark' = RepublishedMark(census', snapshot, publishedStamp)
    /\ UNCHANGED <<commitVars, awaitVars, snapshot, heldMark>>

\* adopt_ of a move: the target, which holds nothing (a move assignment has
\* retired it in a locked section of its own), is spliced into l's place.
\* The mark is not republished: the census still answers the same.
MoveLease(l, target) ==
    /\ Listed(census, l) /\ ~Listed(census, target)
    /\ snapshot' = [snapshot EXCEPT ![target] = snapshot[l]]
    /\ census' = Relink(census, l, target)
    /\ UNCHANGED <<commitVars, awaitVars, lowWaterMark, heldMark>>

\* begin_commit: the stamp is drawn before any version carrying it is written.
BeginCommit(c) ==
    /\ pc[c] = "idle"
    /\ commits < MaxStamp
    /\ commits' = commits + 1
    /\ stamp' = [stamp EXCEPT ![c] = commits']
    /\ inFlight' = Append(inFlight, c)
    /\ pc' = [pc EXCEPT ![c] = "writing"]
    /\ UNCHANGED <<publishedStamp, lowWaterMark, censusVars, seen, heldMark>>

\* end_commit: every version is written, so the watermark moves as far as it may.
EndCommit(c) ==
    /\ pc[c] = "writing"
    /\ inFlight' = Unlink(inFlight, c)
    /\ publishedStamp' = Whole(inFlight', stamp, commits)
    /\ lowWaterMark' = RepublishedMark(census, snapshot, publishedStamp')
    /\ pc' = Woken([pc EXCEPT ![c] = "idle"])
    /\ UNCHANGED <<commits, stamp, censusVars, seen, heldMark>>

\* await_published(stamp): entered by the committer of the stamp, at once or
\* any time after (a transaction settles its snapshot at its next call).
Await(c) ==
    /\ pc[c] = "idle" /\ stamp[c] > 0
    /\ pc' = [pc EXCEPT ![c] = "awaiting"]
    /\ UNCHANGED <<commitVars, censusVars, lowWaterMark, seen, heldMark>>

\* The load that ends the loop or decides to wait.
Poll(c) ==
    /\ pc[c] = "awaiting"
    /\ seen' = [seen EXCEPT ![c] = publishedStamp]
    /\ pc' = [pc EXCEPT ![c] = IF publishedStamp < stamp[c] THEN "parking" ELSE "idle"]
    /\ UNCHANGED <<commitVars, censusVars, lowWaterMark, heldMark>>

\* atomic_wait(published_stamp_, seen): sleeps only if the value is still the one seen.
Park(c) ==
    /\ pc[c] = "parking"
    /\ pc' = [pc EXCEPT ![c] = IF publishedStamp = seen[c] THEN "parked" ELSE "awaiting"]
    /\ UNCHANGED <<commitVars, censusVars, lowWaterMark, seen, heldMark>>

\* low_water_mark, read without the lock and used later.
LoadMark(p) ==
    /\ heldMark' = [heldMark EXCEPT ![p] = lowWaterMark]
    /\ UNCHANGED <<commitVars, censusVars, awaitVars, lowWaterMark>>

Next ==
    \/ \E l \in Leases : TakeSnapshot(l) \/ Retire(l)
    \/ \E l, target \in Leases : MoveLease(l, target)
    \/ \E c \in Committers : BeginCommit(c) \/ EndCommit(c) \/ Await(c) \/ Poll(c) \/ Park(c)
    \/ \E p \in Pruners : LoadMark(p)

Spec == Init /\ [][Next]_vars

\* A committing frame runs on: what it drew it lands, and the waiting loop is
\* scheduled.  A parked frame is not, until a notify makes it runnable.
Fairness ==
    \A c \in Committers : WF_vars(EndCommit(c)) /\ WF_vars(Poll(c)) /\ WF_vars(Park(c))

FairSpec == Spec /\ Fairness

----------------------------------------------------------------------------

Held == {l \in Leases : Listed(census, l)}
Landing == {c \in Committers : pc[c] = "writing"}

TypeOK ==
    /\ commits \in Nat /\ publishedStamp \in Nat /\ lowWaterMark \in Nat
    /\ inFlight \in Seq(Committers) /\ census \in Seq(Leases)
    /\ stamp \in [Committers -> Nat] /\ snapshot \in [Leases -> Nat]
    /\ pc \in [Committers -> Phases]
    /\ seen \in [Committers -> Nat] /\ heldMark \in [Pruners -> Nat]

\* A snapshot never names a commit that is still writing itself out, and a
\* commit that finished early appears together with the ones it overtook:
\* the watermark is below every landing stamp, and stops only at one.
WatermarkIsWhole ==
    /\ publishedStamp <= commits
    /\ \A c \in Landing : publishedStamp < stamp[c]
    /\ publishedStamp < commits => \E c \in Landing : stamp[c] = publishedStamp + 1

\* The mark is the oldest open snapshot, or the watermark when nobody reads:
\* never above a reader, and never held back by one that left.
MarkIsExact ==
    /\ lowWaterMark <= publishedStamp
    /\ \A l \in Held : lowWaterMark <= snapshot[l]
    /\ IF Held = {} THEN lowWaterMark = publishedStamp
                    ELSE \E l \in Held : snapshot[l] = lowWaterMark

\* A mark loaded without the lock stays safe to prune to however long it is
\* held: no reader, whether it was open then or arrived since, sits below it.
StaleMarkIsSafe ==
    \A p \in Pruners : /\ heldMark[p] <= lowWaterMark
                       /\ \A l \in Held : heldMark[p] <= snapshot[l]

\* Neither the watermark nor the mark ever falls.
NeverFalls ==
    [][/\ publishedStamp <= publishedStamp'
       /\ lowWaterMark <= lowWaterMark']_<<publishedStamp, lowWaterMark>>

\* The inductive invariant: both lists are ordered oldest first and hold what
\* they should, so their heads answer for the minima.
InFlightOrdered ==
    /\ \A i, j \in DOMAIN inFlight : i < j => stamp[inFlight[i]] < stamp[inFlight[j]]
    /\ \A c \in Committers : Listed(inFlight, c) <=> pc[c] = "writing"
    /\ \A i \in DOMAIN inFlight : stamp[inFlight[i]] \in 1..commits
    /\ publishedStamp = Whole(inFlight, stamp, commits)

CensusOrdered ==
    /\ \A i, j \in DOMAIN census : i < j => census[i] # census[j]
    /\ \A i, j \in DOMAIN census : i < j => snapshot[census[i]] <= snapshot[census[j]]
    /\ \A i \in DOMAIN census : snapshot[census[i]] <= publishedStamp
    /\ lowWaterMark = RepublishedMark(census, snapshot, publishedStamp)

MarksBehind == \A p \in Pruners : heldMark[p] <= lowWaterMark

IInv == TypeOK /\ InFlightOrdered /\ CensusOrdered /\ MarksBehind

\* The lists carry out what the clock promises: every step above is a step of
\* AbstractClock, in which the watermark and the mark are minima of sets.
Abstract == INSTANCE AbstractClock WITH
    drawn <- commits, published <- publishedStamp, mark <- lowWaterMark,
    writing <- {stamp[c] : c \in Landing},
    open <- [l \in Held |-> snapshot[l]]

ImplementsAbstractClock == Abstract!Spec

=============================================================================
