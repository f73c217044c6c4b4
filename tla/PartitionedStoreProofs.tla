----------------------- MODULE PartitionedStoreProofs -----------------------
(***************************************************************************)
(* Theorems of PartitionedStore and of OrderedCursor, for every number of  *)
(* threads, partitions, keys and stamps, and every isolation level.        *)
(***************************************************************************)
EXTENDS OrderedCursor, FiniteSetTheorems, WellFoundedInduction, TLAPS

----------------------------------------------------------------------------
(* Least members, the watermark and the low-water mark.                    *)

\* A set of naturals that is not empty has a least member, which Min names.
LEMMA LeastNatural ==
    ASSUME NEW S \in SUBSET Nat, S # {}
    PROVE  Min(S) \in S /\ \A x \in S : Min(S) <= x
<1> DEFINE Down == {0..x : x \in S}
<1>1. Down \subseteq FiniteSubsetsOf(Nat) /\ Down # {}
  <2>1. ASSUME NEW x \in S PROVE IsFiniteSet(0..x) /\ 0..x \subseteq Nat
    BY FS_Interval
  <2>2. QED
    BY <2>1 DEF FiniteSubsetsOf
<1>2. PICK d \in Down : \A c \in Down : <<c, d>> \notin StrictSubsetOrdering(Nat)
  BY <1>1, FS_StrictSubsetOrderingWellFounded, WFMin, Zenon
<1>3. PICK x \in S : d = 0..x
  OBVIOUS
<1>4. ASSUME NEW y \in S PROVE x <= y
  <2>1. SUFFICES ASSUME y < x PROVE FALSE
    OBVIOUS
  <2>2. 0..y \subseteq 0..x /\ x \in 0..x /\ x \notin 0..y /\ 0..x \subseteq Nat /\ 0..y \subseteq Nat
    BY <2>1
  <2>3. <<0..y, 0..x>> \in StrictSubsetOrdering(Nat)
    BY <2>2 DEF StrictSubsetOrdering
  <2>4. QED
    BY <1>2, <1>3, <2>3
<1>5. \E z \in S : \A y \in S : z =< y
  BY <1>4
<1>6. QED
  BY <1>5, Zenon DEF Min

\* A set of naturals below a bound has a greatest member, which Max names.
LEMMA GreatestNatural ==
    ASSUME NEW n \in Nat, NEW S \in SUBSET (0..n), S # {}
    PROVE  Max(S) \in S /\ \A x \in S : x <= Max(S)
<1> DEFINE Rest == {n - x : x \in S}
<1>1. Rest \in SUBSET Nat /\ Rest # {}
  <2>1. ASSUME NEW x \in S PROVE n - x \in Nat
    <3>1. x \in 0..n
      OBVIOUS
    <3>2. QED
      BY <3>1
  <2>2. QED
    BY <2>1
<1>2. Min(Rest) \in Rest /\ \A y \in Rest : Min(Rest) <= y
  BY <1>1, LeastNatural
<1>3. PICK m \in S : Min(Rest) = n - m
  BY <1>2
<1>4. ASSUME NEW x \in S PROVE m >= x
  <2>1. n - m <= n - x
    BY <1>2, <1>3
  <2>2. m \in 0..n /\ x \in 0..n
    OBVIOUS
  <2>3. QED
    BY <2>1, <2>2
<1>5. \E z \in S : \A y \in S : z >= y
  BY <1>4
<1>6. Max(S) \in S /\ \A y \in S : Max(S) >= y
  BY <1>5, Zenon DEF Max
<1>7. QED
  BY <1>6

\* Watermark and LowWaterMark as functions of what they read.
MarkOf(w, d) == IF w = {} THEN d ELSE Min(w) - 1
LowOf(o, mark) == IF DOMAIN o = {} THEN mark ELSE Min({o[t] : t \in DOMAIN o})

\* The watermark is below every stamp in flight and stops only below one.
LEMMA MarkFacts ==
    ASSUME NEW d \in Nat, NEW w \in SUBSET (1..d)
    PROVE  /\ MarkOf(w, d) \in 0..d
           /\ \A s \in w : MarkOf(w, d) < s
           /\ \A n \in Nat : n <= d /\ (\A s \in w : n < s) => n <= MarkOf(w, d)
<1>1. CASE w = {}
  BY <1>1 DEF MarkOf
<1>2. CASE w # {}
  <2>1. Min(w) \in w /\ \A s \in w : Min(w) <= s
    BY <1>2, LeastNatural
  <2>2. Min(w) \in 1..d /\ MarkOf(w, d) = Min(w) - 1
    BY <1>2, <2>1 DEF MarkOf
  <2>3. ASSUME NEW s \in w PROVE Min(w) - 1 < s
    BY <2>1, <2>2
  <2>4. ASSUME NEW n \in Nat, \A s \in w : n < s PROVE n <= Min(w) - 1
    <3>1. n < Min(w)
      BY <2>1, <2>4
    <3>2. QED
      BY <3>1, <2>2
  <2>5. Min(w) - 1 \in 0..d
    BY <2>2
  <2>6. QED
    BY <2>2, <2>3, <2>4, <2>5
<1>3. QED
  BY <1>1, <1>2

\* The low-water mark is at or below every lease, and at the watermark without one.
LEMMA LowFacts ==
    ASSUME NEW mark \in Nat, NEW o, \A t \in DOMAIN o : o[t] \in Nat /\ o[t] <= mark
    PROVE  /\ LowOf(o, mark) \in 0..mark
           /\ \A t \in DOMAIN o : LowOf(o, mark) <= o[t]
           /\ \A n \in Nat : n <= mark /\ (\A t \in DOMAIN o : n <= o[t]) => n <= LowOf(o, mark)
<1>1. CASE DOMAIN o = {}
  BY <1>1 DEF LowOf
<1>2. CASE DOMAIN o # {}
  <2> DEFINE S == {o[t] : t \in DOMAIN o}
  <2>1. S \in SUBSET Nat /\ S # {}
    BY <1>2
  <2>2. Min(S) \in S /\ \A x \in S : Min(S) <= x
    BY <2>1, LeastNatural
  <2>3. LowOf(o, mark) = Min(S)
    BY <1>2 DEF LowOf
  <2>4. PICK u \in DOMAIN o : Min(S) = o[u]
    BY <2>2
  <2>5. \A t \in DOMAIN o : o[u] <= o[t]
    BY <2>2, <2>4
  <2>6. QED
    BY <2>3, <2>4, <2>5
<1>3. QED
  BY <1>1, <1>2

\* The marks as functions of the stamps in flight and the leases held.
LEMMA MarksAre ==
    /\ Watermark = MarkOf(writing, drawn) /\ Watermark' = MarkOf(writing', drawn')
    /\ LowWaterMark = LowOf(open, Watermark) /\ LowWaterMark' = LowOf(open', Watermark')
BY DEF Watermark, LowWaterMark, MarkOf, LowOf

----------------------------------------------------------------------------
(* Types.                                                                  *)

Kinds == SharedWalks \cup DirectWrites \cup WholeWrites \cup {"none", "commit", "refused"}
Entries == [writes : Partial(BOOLEAN), reads : SUBSET Keys, since : Nat, first : Nat]

ClockTyped ==
    /\ drawn \in Nat /\ writing \in SUBSET (1..drawn)
    /\ log \in Seq(Entries) /\ Len(log) = drawn

\* A lease names a stamp that was published when it was taken.
LeasesTyped ==
    /\ DOMAIN open \subseteq Threads /\ open = [t \in DOMAIN open |-> open[t]]
    /\ \A t \in DOMAIN open : open[t] \in Nat /\ open[t] <= Watermark

LocksTyped ==
    /\ holder \in [Partitions -> Threads \cup {Nobody}] /\ sharers \in [Partitions -> SUBSET Threads]

\* The phases that visit one partition after another, and have one left.
Visits == {"opening", "staging", "undoing", "rolling", "resetting", "dropping", "unwriting", "pruning", "vacuum",
           "clear"}

CallsTyped ==
    /\ pc \in [Threads -> Phases] /\ op \in [Threads -> Kinds] /\ key \in [Threads -> Keys \cup {0}]
    /\ todo \in [Threads -> SUBSET Partitions] /\ stamp \in [Threads -> Nat]
    /\ \A t \in Threads : pc[t] \in Visits => todo[t] # {}

WorkTyped ==
    /\ changed \in [Threads -> Partial(BOOLEAN)] /\ reads \in [Threads -> SUBSET Keys]
    /\ stagedIn \in [Threads -> SUBSET Partitions] /\ staging \in [Threads -> BOOLEAN]
    /\ touched \in [Threads -> SUBSET Partitions]

PlacesTyped ==
    /\ snapshot \in [Threads -> Nat] /\ unsettled \in [Threads -> Nat] /\ own \in [Threads -> Nat]

Typed == ClockTyped /\ LeasesTyped /\ LocksTyped /\ CallsTyped /\ WorkTyped /\ PlacesTyped

OwnStep(t) == Acquire(t) \/ Transacts(t) \/ WritesDirectly(t) \/ WalksAll(t)

----------------------------------------------------------------------------
(* A step of one thread leaves the calls and transactions of the others.   *)

SameCall(t) ==
    pc'[t] = pc[t] /\ op'[t] = op[t] /\ key'[t] = key[t] /\ todo'[t] = todo[t] /\ stamp'[t] = stamp[t]
SameWork(t) ==
    /\ changed'[t] = changed[t] /\ reads'[t] = reads[t] /\ stagedIn'[t] = stagedIn[t] /\ staging'[t] = staging[t]
    /\ touched'[t] = touched[t]
SamePlace(t) ==
    /\ snapshot'[t] = snapshot[t] /\ unsettled'[t] = unsettled[t] /\ own'[t] = own[t]
    /\ t \in DOMAIN open' <=> t \in DOMAIN open
    /\ t \in DOMAIN open => open'[t] = open[t]
SameLocks(t) ==
    \A p \in Partitions : (holder'[p] = t <=> holder[p] = t) /\ (t \in sharers'[p] <=> t \in sharers[p])
Same(t) == SameCall(t) /\ SameWork(t) /\ SamePlace(t) /\ SameLocks(t)

\* Giving locks back leaves the others' locks alone.
LEMMA ReleaseKeeps ==
    ASSUME Typed, NEW u \in Threads, NEW t \in Threads, t # u, Release(u) \/ UNCHANGED <<holder, sharers>>
    PROVE  SameLocks(t)
BY PartitionedAssumption DEF Typed, LocksTyped, Release, SameLocks

\* A step of one thread leaves the call, the transaction and the locks of the others
\* alone.
LEMMA OthersWait ==
    ASSUME Typed, NEW u \in Threads, NEW t \in Threads, t # u, OwnStep(u)
    PROVE  Same(t)
<1> USE DEF Typed, CallsTyped, WorkTyped, PlacesTyped
<1>1. CASE Acquire(u)
  <2>1. SameCall(t)
    BY <1>1 DEF SameCall, Acquire,
        Refuse, Visited, Release, MoveOn, Become, Returns, Lock, Draw, callVars
  <2>2. SameWork(t)
    BY <1>1 DEF SameWork, Acquire,
        Refuse, workVars
  <2>3. SamePlace(t)
    BY <1>1 DEF SamePlace, Acquire,
        Refuse, Leased, Retired, LeasesTyped, placeVars
  <2>4. SameLocks(t)
    BY <1>1, PartitionedAssumption DEF SameLocks, Acquire,
        Refuse, Visited, Release, Free, LocksTyped, lockVars
  <2>5. QED
    BY <2>1, <2>2, <2>3, <2>4 DEF Same
<1>2. CASE Transacts(u)
  <2>1. CASE \/ Open(u) \/ OpenPart(u) \/ Settle(u) \/ Stage(u)
            \/ StagePart(u) \/ UndoPart(u) \/ Rollback(u) \/ RollbackPart(u)
    <3>1. SameCall(t)
      BY <2>1 DEF SameCall, Open, OpenPart, Settle, Stage, StagePart, UndoPart, Rollback, RollbackPart,
         Refuse, Visited, Release, MoveOn, Become, Returns, Lock, Draw, callVars
    <3>2. SameWork(t)
      BY <2>1 DEF SameWork, Open, OpenPart, Settle, Stage, StagePart, UndoPart, Rollback, RollbackPart,
         Refuse, workVars
    <3>3. SamePlace(t)
      BY <2>1 DEF SamePlace, Open, OpenPart, Settle, Stage, StagePart, UndoPart, Rollback,
         RollbackPart, Refuse, Leased, Retired, LeasesTyped, placeVars
    <3>4. Release(u) \/ UNCHANGED <<holder, sharers>>
      BY <2>1 DEF Open, OpenPart, Settle, Stage, StagePart, UndoPart, Rollback, RollbackPart, Refuse,
         Visited, lockVars
    <3>5. QED
      BY <3>1, <3>2, <3>3, <3>4, ReleaseKeeps DEF Same
  <2>2. CASE \/ Reset(u) \/ ResetPart(u) \/ Drop(u) \/ DropPart(u)
            \/ Commit(u) \/ CommitRefused(u) \/ CommitDraws(u) \/ CommitLands(u)
    <3>1. SameCall(t)
      BY <2>2 DEF SameCall, Reset, ResetPart, Drop, DropPart, Commit, CommitRefused, CommitDraws,
         CommitLands, Refuse, Visited, Release, MoveOn, Become, Returns, Lock, Draw, callVars
    <3>2. SameWork(t)
      BY <2>2 DEF SameWork, Reset, ResetPart, Drop, DropPart, Commit, CommitRefused, CommitDraws,
         CommitLands, Refuse, workVars
    <3>3. SamePlace(t)
      BY <2>2 DEF SamePlace, Reset, ResetPart, Drop, DropPart, Commit, CommitRefused, CommitDraws,
         CommitLands, Refuse, Leased, Retired, LeasesTyped, placeVars
    <3>4. Release(u) \/ UNCHANGED <<holder, sharers>>
      BY <2>2 DEF Reset, ResetPart, Drop, DropPart, Commit, CommitRefused, CommitDraws, CommitLands,
         Refuse, Visited, lockVars
    <3>5. QED
      BY <3>1, <3>2, <3>3, <3>4, ReleaseKeeps DEF Same
  <2>3. CASE CommitMovesLease(u) \/ CommitPrunes(u) \/ Scan(u) \/ UnwriteAll(u) \/ UnwritePart(u)
    <3>1. SameCall(t)
      <4>1. CASE CommitMovesLease(u) \/ CommitPrunes(u)
        BY <4>1 DEF SameCall, CommitMovesLease, CommitPrunes, Visited, Release, MoveOn, Become, Returns, callVars
      <4>2. CASE Scan(u) \/ UnwriteAll(u)
        BY <4>2 DEF SameCall, Scan, UnwriteAll, Lock, Draw, MoveOn, Become, Returns, callVars
      <4>3. CASE UnwritePart(u)
        BY <4>3 DEF SameCall, UnwritePart, Visited, Release, MoveOn, Become, Returns, callVars
      <4>4. QED
        BY <2>3, <4>1, <4>2, <4>3
    <3>2. SameWork(t)
      BY <2>3 DEF SameWork, CommitMovesLease, CommitPrunes, Scan, UnwriteAll, UnwritePart, Refuse, workVars
    <3>3. SamePlace(t)
      BY <2>3 DEF SamePlace, CommitMovesLease, CommitPrunes, Scan, UnwriteAll, UnwritePart,
         Refuse, Leased, Retired, LeasesTyped, placeVars
    <3>4. Release(u) \/ UNCHANGED <<holder, sharers>>
      BY <2>3 DEF CommitMovesLease, CommitPrunes, Scan, UnwriteAll, UnwritePart, Refuse, Visited, lockVars
    <3>5. QED
      BY <3>1, <3>2, <3>3, <3>4, ReleaseKeeps DEF Same
  <2>4. ASSUME NEW k \in Keys, Read(u, k) \/ Write(u, k)
        PROVE  Same(t)
    <3>1. SameCall(t)
      BY <2>4 DEF SameCall, Read, Write, callVars
    <3>2. SameWork(t)
      BY <2>4 DEF SameWork, Read, Write, workVars
    <3>3. SamePlace(t)
      BY <2>4 DEF SamePlace, Read, Write, LeasesTyped, placeVars
    <3>4. Release(u) \/ UNCHANGED <<holder, sharers>>
      BY <2>4 DEF Read, Write, lockVars
    <3>5. QED
      BY <3>1, <3>2, <3>3, <3>4, ReleaseKeeps DEF Same
  <2>5. ASSUME NEW k \in Keys, NEW kind \in {"add", "revise", "unwrite"}, WriteChecked(u, k, kind)
        PROVE  Same(t)
    <3>1. SameCall(t)
      BY <2>5 DEF SameCall, WriteChecked, Refuse, callVars
    <3>2. SameWork(t)
      BY <2>5 DEF SameWork, WriteChecked, Refuse, workVars
    <3>3. SamePlace(t)
      BY <2>5 DEF SamePlace, WriteChecked, Refuse, LeasesTyped, placeVars
    <3>4. Release(u) \/ UNCHANGED <<holder, sharers>>
      BY <2>5 DEF WriteChecked, Refuse, lockVars
    <3>5. QED
      BY <3>1, <3>2, <3>3, <3>4, ReleaseKeeps DEF Same
  <2>6. QED
    BY <1>2, <2>1, <2>2, <2>3, <2>4, <2>5 DEF Transacts
<1>3. CASE WritesDirectly(u)
  <2>1. SameCall(t)
    BY <1>3 DEF SameCall, WritesDirectly, Direct, DirectRefused, DirectDraws, DirectLands, DirectFinishes,
        Refuse, Visited, Release, MoveOn, Become, Returns, Lock, Draw, callVars
  <2>2. SameWork(t)
    BY <1>3 DEF SameWork, WritesDirectly, Direct, DirectRefused, DirectDraws, DirectLands, DirectFinishes,
        Refuse, workVars
  <2>3. SamePlace(t)
    BY <1>3 DEF SamePlace, WritesDirectly, Direct, DirectRefused, DirectDraws, DirectLands, DirectFinishes,
        Refuse, Leased, Retired, LeasesTyped, placeVars
  <2>4. Release(u) \/ UNCHANGED <<holder, sharers>>
    BY <1>3 DEF WritesDirectly, Direct, DirectRefused, DirectDraws, DirectLands, DirectFinishes,
        Refuse, Visited, lockVars
  <2>5. QED
    BY <2>1, <2>2, <2>3, <2>4, ReleaseKeeps DEF Same
<1>4. CASE WalksAll(u)
  <2>1. SameCall(t)
    BY <1>4 DEF SameCall, WalksAll, Whole, WalkEnds, EraseBegins, ErasePart, EraseEnds, PopSmallest, Sweep,
       VacuumPart, ClearPart,
        Refuse, Visited, Release, MoveOn, Become, Returns, Lock, Draw, callVars
  <2>2. SameWork(t)
    BY <1>4 DEF SameWork, WalksAll, Whole, WalkEnds, EraseBegins, ErasePart, EraseEnds, PopSmallest, Sweep,
       VacuumPart, ClearPart,
        Refuse, workVars
  <2>3. SamePlace(t)
    BY <1>4 DEF SamePlace, WalksAll, Whole, WalkEnds, EraseBegins, ErasePart, EraseEnds, PopSmallest,
       Sweep, VacuumPart, ClearPart,
        Refuse, Leased, Retired, LeasesTyped, placeVars
  <2>4. Release(u) \/ UNCHANGED <<holder, sharers>>
    BY <1>4 DEF WalksAll, Whole, WalkEnds, EraseBegins, ErasePart, EraseEnds, PopSmallest, Sweep,
       VacuumPart, ClearPart,
        Refuse, Visited, lockVars
  <2>5. QED
    BY <2>1, <2>2, <2>3, <2>4, ReleaseKeeps DEF Same
<1>5. QED
  BY <1>1, <1>2, <1>3, <1>4 DEF OwnStep

----------------------------------------------------------------------------
(* Groups of writes.                                                       *)

\* What makes a partial function over the keys.
LEMMA PartialIs ==
    ASSUME NEW f, DOMAIN f \subseteq Keys, f = [k \in DOMAIN f |-> f[k]], \A k \in DOMAIN f : f[k] \in BOOLEAN
    PROVE  f \in Partial(BOOLEAN)
<1>1. f \in [DOMAIN f -> BOOLEAN]
  OBVIOUS
<1>2. QED
  BY <1>1 DEF Partial

\* What a partial function over the keys has.
LEMMA PartialHas ==
    ASSUME NEW f \in Partial(BOOLEAN)
    PROVE  DOMAIN f \subseteq Keys /\ f = [k \in DOMAIN f |-> f[k]] /\ \A k \in DOMAIN f : f[k] \in BOOLEAN
<1>1. PICK ks \in SUBSET Keys : f \in [ks -> BOOLEAN]
  BY DEF Partial
<1>2. QED
  BY <1>1

\* The groups the calls make of one another stay groups of writes.
LEMMA GroupsTyped ==
    ASSUME NEW f \in Partial(BOOLEAN), NEW ks \in SUBSET Keys, NEW here \in BOOLEAN
    PROVE  /\ WrittenOver(f, ks, here) \in Partial(BOOLEAN)
           /\ [k \in (DOMAIN f) \ ks |-> f[k]] \in Partial(BOOLEAN)
           /\ [k \in ks |-> here] \in Partial(BOOLEAN)
<1>1. DOMAIN f \subseteq Keys /\ \A k \in DOMAIN f : f[k] \in BOOLEAN
  BY PartialHas
<1>2. WrittenOver(f, ks, here) \in Partial(BOOLEAN)
  <2> DEFINE g == WrittenOver(f, ks, here)
  <2>1. DOMAIN g = DOMAIN f \cup ks /\ g = [k \in DOMAIN g |-> g[k]] /\ \A k \in DOMAIN g : g[k] \in BOOLEAN
    BY <1>1 DEF WrittenOver
  <2> HIDE DEF g
  <2>2. g \in Partial(BOOLEAN)
    BY <1>1, <2>1, PartialIs
  <2>3. QED
    BY <2>2 DEF g
<1>3. [k \in (DOMAIN f) \ ks |-> f[k]] \in Partial(BOOLEAN)
  <2> DEFINE g == [k \in (DOMAIN f) \ ks |-> f[k]]
  <2>1. DOMAIN g = (DOMAIN f) \ ks /\ g = [k \in DOMAIN g |-> g[k]] /\ \A k \in DOMAIN g : g[k] \in BOOLEAN
    BY <1>1
  <2> HIDE DEF g
  <2>2. g \in Partial(BOOLEAN)
    BY <1>1, <2>1, PartialIs
  <2>3. QED
    BY <2>2 DEF g
<1>4. [k \in ks |-> here] \in Partial(BOOLEAN)
  BY DEF Partial
<1>5. QED
  BY <1>2, <1>3, <1>4

\* The empty group is a group.
LEMMA NothingTyped == <<>> \in Partial(BOOLEAN)
<1>1. <<>> = [k \in {} |-> TRUE] /\ [k \in {} |-> TRUE] \in [{} -> BOOLEAN]
  OBVIOUS
<1>2. QED
  BY <1>1 DEF Partial

----------------------------------------------------------------------------
(* A step keeps the types.                                                 *)

\* Every key has a partition.
LEMMA BucketIs == \A k \in Keys : Bucket(k) \in Partitions
BY PartitionedAssumption DEF Bucket, Partitions, Keys

\* Returning to the caller keeps the types of the calls.
LEMMA ReturnsTyped ==
    ASSUME CallsTyped, NEW u \in Threads, Returns(u)
    PROVE  CallsTyped'
BY DEF CallsTyped, Returns, Phases, Kinds, Visits

\* Entering a phase keeps the types of the calls.
LEMMA BecomesTyped ==
    ASSUME CallsTyped, NEW u \in Threads, NEW onto \in Phases, NEW rest \in SUBSET Partitions,
           Become(u, onto, rest), rest # {} \/ onto \notin Visits
    PROVE  CallsTyped'
BY DEF CallsTyped, Become

\* Going on or returning keeps the types of the calls.
LEMMA MovesTyped ==
    ASSUME CallsTyped, NEW u \in Threads, NEW onto \in Phases, NEW rest \in SUBSET Partitions,
           MoveOn(u, onto, rest)
    PROVE  CallsTyped'
BY ReturnsTyped, BecomesTyped DEF MoveOn

\* Beginning to lock keeps the types of the calls.
LEMMA LockTyped ==
    ASSUME CallsTyped, NEW u \in Threads, NEW kind \in Kinds, NEW k \in Keys \cup {0},
           NEW ps \in SUBSET Partitions, Lock(u, kind, k, ps)
    PROVE  CallsTyped'
BY DEF CallsTyped, Lock, Phases, Visits

\* Leaving one partition of a walk keeps the types of the calls.
LEMMA VisitedTyped ==
    ASSUME CallsTyped, NEW u \in Threads, Visited(u)
    PROVE  CallsTyped'
<1>1. pc[u] \in Phases /\ todo[u] \ {Wanted(u)} \in SUBSET Partitions
  BY DEF CallsTyped
<1>2. QED
  BY <1>1, MovesTyped DEF Visited

\* Drawing a stamp keeps the types of the calls.
LEMMA DrawTyped ==
    ASSUME CallsTyped, ClockTyped, NEW u \in Threads, NEW entry, Draw(u, entry), UNCHANGED <<op, key, todo>>
    PROVE  CallsTyped'
BY DEF CallsTyped, ClockTyped, Draw, Phases, Visits

\* Every step keeps the types of the calls.
LEMMA CallsStayTyped ==
    ASSUME Typed, NEW u \in Threads, OwnStep(u)
    PROVE  CallsTyped'
<1>0. CallsTyped /\ ClockTyped /\ WorkTyped
  BY DEF Typed
<1> USE <1>0
<1>1. CASE Acquire(u)
  BY <1>1 DEF Acquire, CallsTyped, Visits
<1>2. CASE Transacts(u)
  <2>1. CASE Open(u)
    BY <2>1, MovesTyped DEF Open, Phases
  <2>2. CASE OpenPart(u)
    BY <2>2, VisitedTyped DEF OpenPart
  <2>3. CASE Settle(u)
    BY <2>3 DEF Settle, CallsTyped, callVars
  <2>4. CASE Stage(u)
    BY <2>4, MovesTyped DEF Stage, Phases, WorkTyped
  <2>5. CASE StagePart(u)
    BY <2>5, MovesTyped DEF StagePart, Phases, WorkTyped, CallsTyped, Undo, StagedSoFar
  <2>6. CASE UndoPart(u)
    BY <2>6, VisitedTyped DEF UndoPart
  <2>7. CASE Rollback(u)
    BY <2>7, MovesTyped DEF Rollback, Phases, WorkTyped
  <2>8. CASE RollbackPart(u)
    <3>1. CASE Returns(u)
      BY <3>1, ReturnsTyped
    <3>2. CASE todo[u] # {Wanted(u)}
      <4>1. /\ UNCHANGED <<pc, key, stamp>> /\ todo' = [todo EXCEPT ![u] = @ \ {Wanted(u)}]
            /\ op' = [op EXCEPT ![u] = "refused"] \/ op' = [op EXCEPT ![u] = "none"]
        BY <2>8, <3>2 DEF RollbackPart
      <4>2. todo' \in [Threads -> SUBSET Partitions] /\ op' \in [Threads -> Kinds]
        BY <4>1 DEF CallsTyped, Kinds
      <4>3. pc[u] \in Visits
        BY <2>8 DEF RollbackPart, Visiting, Visits
      <4>4. todo[u] # {} /\ todo[u] \ {Wanted(u)} # {}
        BY <3>2, <4>3 DEF CallsTyped
      <4>5. \A t \in Threads : pc'[t] \in Visits => todo'[t] # {}
        BY <4>1, <4>4 DEF CallsTyped
      <4>6. QED
        BY <4>1, <4>2, <4>5 DEF CallsTyped
    <3>3. QED
      BY <2>8, <3>1, <3>2 DEF RollbackPart
  <2>9. CASE Reset(u)
    BY <2>9, MovesTyped DEF Reset, Phases
  <2>10. CASE ResetPart(u)
    BY <2>10, VisitedTyped DEF ResetPart
  <2>11. CASE Drop(u)
    BY <2>11, MovesTyped DEF Drop, Phases, WorkTyped
  <2>12. CASE DropPart(u)
    BY <2>12, MovesTyped DEF DropPart, Phases, CallsTyped
  <2>13. CASE Commit(u)
    BY <2>13, LockTyped DEF Commit, WorkTyped, Kinds
  <2>14. CASE CommitRefused(u)
    BY <2>14, ReturnsTyped DEF CommitRefused, Refuse
  <2>15. CASE CommitDraws(u)
    BY <2>15, DrawTyped DEF CommitDraws
  <2>16. CASE CommitLands(u)
    BY <2>16, BecomesTyped DEF CommitLands, Phases, Visits
  <2>17. CASE CommitMovesLease(u)
    BY <2>17, MovesTyped DEF CommitMovesLease, Phases, WorkTyped
  <2>18. CASE CommitPrunes(u)
    BY <2>18, VisitedTyped DEF CommitPrunes
  <2>19. CASE Scan(u)
    BY <2>19, LockTyped DEF Scan, Kinds, SharedWalks
  <2>20. CASE UnwriteAll(u)
    BY <2>20, MovesTyped DEF UnwriteAll, Phases
  <2>21. CASE UnwritePart(u)
    BY <2>21, VisitedTyped DEF UnwritePart
  <2>22. CASE \E k \in Keys : Read(u, k)
    BY <2>22 DEF Read, CallsTyped, callVars
  <2>23. CASE \E k \in Keys : Write(u, k)
    BY <2>23 DEF Write, CallsTyped, callVars
  <2>24. CASE \E k \in Keys, kind \in {"add", "revise", "unwrite"} : WriteChecked(u, k, kind)
    BY <2>24 DEF WriteChecked, CallsTyped, callVars
  <2>25. QED
    BY <1>2, <2>1, <2>2, <2>3, <2>4, <2>5, <2>6, <2>7, <2>8, <2>9, <2>10, <2>11, <2>12, <2>13, <2>14, <2>15,
        <2>16, <2>17, <2>18, <2>19, <2>20, <2>21, <2>22, <2>23, <2>24 DEF Transacts
<1>3. CASE WritesDirectly(u)
  <2>1. CASE \E k \in Keys, kind \in DirectWrites : Direct(u, kind, k)
    BY <2>1, LockTyped, BucketIs DEF Direct, Kinds
  <2>2. CASE DirectRefused(u)
    BY <2>2, ReturnsTyped DEF DirectRefused, Refuse
  <2>3. CASE DirectDraws(u)
    BY <2>3, DrawTyped DEF DirectDraws
  <2>4. CASE DirectLands(u)
    BY <2>4, BecomesTyped DEF DirectLands, Phases, Visits
  <2>5. CASE DirectFinishes(u)
    BY <2>5, ReturnsTyped DEF DirectFinishes, Refuse
  <2>6. QED
    BY <1>3, <2>1, <2>2, <2>3, <2>4, <2>5 DEF WritesDirectly
<1>4. CASE WalksAll(u)
  <2>1. CASE \E kind \in WholeWrites \cup {"walk"} : Whole(u, kind)
    BY <2>1, LockTyped DEF Whole, Kinds, SharedWalks
  <2>2. CASE WalkEnds(u)
    BY <2>2, ReturnsTyped DEF WalkEnds, Refuse
  <2>3. CASE EraseBegins(u)
    BY <2>3, BecomesTyped DEF EraseBegins, Phases, Visits
  <2>4. CASE ErasePart(u)
    <3>1. UNCHANGED <<pc, op, key>> /\ todo' = [todo EXCEPT ![u] = @ \ {Wanted(u)}]
      BY <2>4 DEF ErasePart
    <3>2. stamp' = stamp \/ stamp' = [stamp EXCEPT ![u] = IF @ = 0 THEN drawn + 1 ELSE @]
      BY <2>4 DEF ErasePart, EraseTogether
    <3>3. stamp' \in [Threads -> Nat]
      BY <3>2 DEF CallsTyped, ClockTyped
    <3>4. QED
      BY <2>4, <3>1, <3>3 DEF CallsTyped, Visits, ErasePart
  <2>5. CASE EraseEnds(u)
    BY <2>5, ReturnsTyped DEF EraseEnds, Refuse
  <2>6. CASE PopSmallest(u)
    BY <2>6, ReturnsTyped DEF PopSmallest, Refuse
  <2>7. CASE \E kind \in {"vacuum", "clear"} : Sweep(u, kind)
    BY <2>7, MovesTyped DEF Sweep, Phases
  <2>8. CASE VacuumPart(u)
    BY <2>8, VisitedTyped DEF VacuumPart
  <2>9. CASE ClearPart(u)
    BY <2>9, MovesTyped DEF ClearPart, Phases, CallsTyped
  <2>10. QED
    BY <1>4, <2>1, <2>2, <2>3, <2>4, <2>5, <2>6, <2>7, <2>8, <2>9 DEF WalksAll
<1>5. QED
  BY <1>1, <1>2, <1>3, <1>4 DEF OwnStep

\* Every step keeps the types of the locks.
LEMMA LocksStayTyped ==
    ASSUME Typed, NEW u \in Threads, OwnStep(u)
    PROVE  LocksTyped'
<1>0. LocksTyped
  BY DEF Typed
<1> USE <1>0
<1>1. CASE Acquire(u)
  BY <1>1 DEF Acquire, LocksTyped
<1>2. CASE Transacts(u)
  <2>1. Release(u) \/ UNCHANGED <<holder, sharers>>
    BY <1>2 DEF Transacts, Open, OpenPart, Settle, Stage, StagePart, UndoPart, Rollback, RollbackPart, Reset,
        ResetPart, Drop, DropPart, Commit, CommitRefused, CommitDraws, CommitLands, CommitMovesLease,
        CommitPrunes, Scan, UnwriteAll, UnwritePart, Read, Write, WriteChecked, Refuse, Visited, lockVars
  <2>2. QED
    BY <2>1 DEF Release, LocksTyped
<1>3. CASE WritesDirectly(u)
  <2>1. Release(u) \/ UNCHANGED <<holder, sharers>>
    BY <1>3 DEF WritesDirectly, Direct, DirectRefused, DirectDraws, DirectLands, DirectFinishes, Refuse,
        Visited, lockVars
  <2>2. QED
    BY <2>1 DEF Release, LocksTyped
<1>4. CASE WalksAll(u)
  <2>1. Release(u) \/ UNCHANGED <<holder, sharers>>
    BY <1>4 DEF WalksAll, Whole, WalkEnds, EraseBegins, ErasePart, EraseEnds, PopSmallest, Sweep, VacuumPart,
        ClearPart, Refuse, Visited, lockVars
  <2>2. QED
    BY <2>1 DEF Release, LocksTyped
<1>5. QED
  BY <1>1, <1>2, <1>3, <1>4 DEF OwnStep

\* A thread visits the least partition left to it.
LEMMA VisitsWanted ==
    ASSUME CallsTyped, NEW u \in Threads, todo[u] # {}
    PROVE  Wanted(u) \in todo[u] /\ Wanted(u) \in Partitions /\ \A p \in todo[u] : Wanted(u) <= p
<1>1. todo[u] \in SUBSET Partitions /\ Partitions \subseteq Nat
  BY PartitionedAssumption DEF CallsTyped, Partitions
<1>2. QED
  BY <1>1, LeastNatural DEF Wanted

\* A walk stands at a partition it has yet to visit.
LEMMA VisitingHas ==
    ASSUME CallsTyped, NEW u \in Threads, NEW onto \in Visits, Visiting(u, onto)
    PROVE  todo[u] # {} /\ Wanted(u) \in todo[u] /\ Wanted(u) \in Partitions
BY VisitsWanted DEF Visiting, CallsTyped

\* Every step keeps the types of what transactions did.
LEMMA WorkStaysTyped ==
    ASSUME Typed, NEW u \in Threads, OwnStep(u)
    PROVE  WorkTyped'
<1>0. WorkTyped /\ CallsTyped
  BY DEF Typed
<1> USE <1>0
<1>1. CASE Acquire(u)
  BY <1>1 DEF Acquire, workVars, WorkTyped
<1>2. CASE Transacts(u)
  <2>1. CASE Open(u)
    BY <2>1 DEF Open, workVars, WorkTyped
  <2>2. CASE OpenPart(u)
    BY <2>2 DEF OpenPart, workVars, WorkTyped
  <2>3. CASE Settle(u)
    BY <2>3 DEF Settle, workVars, WorkTyped
  <2>4. CASE Stage(u)
    BY <2>4 DEF Stage, workVars, WorkTyped
  <2>5. CASE StagePart(u)
    <3>1. Wanted(u) \in Partitions
      BY <2>5, VisitingHas DEF StagePart, Visits
    <3>2. /\ stagedIn' = stagedIn \/ stagedIn' = [stagedIn EXCEPT ![u] = @ \cup {Wanted(u)}]
          /\ staging' = staging \/ staging' = [staging EXCEPT ![u] = @ \/ todo[u] = {Wanted(u)}]
          /\ UNCHANGED <<changed, reads, touched>>
      BY <2>5 DEF StagePart
    <3>3. stagedIn' \in [Threads -> SUBSET Partitions]
      BY <3>1, <3>2 DEF WorkTyped
    <3>4. staging' \in [Threads -> BOOLEAN]
      BY <3>2 DEF WorkTyped
    <3>5. QED
      BY <3>2, <3>3, <3>4 DEF WorkTyped
  <2>6. CASE UndoPart(u)
    BY <2>6 DEF UndoPart, workVars, WorkTyped
  <2>7. CASE Rollback(u)
    BY <2>7 DEF Rollback, workVars, WorkTyped
  <2>8. CASE RollbackPart(u)
    BY <2>8 DEF RollbackPart, workVars, WorkTyped
  <2>9. CASE Reset(u)
    BY <2>9 DEF Reset, workVars, WorkTyped
  <2>10. CASE ResetPart(u)
    <3>1. Wanted(u) \in Partitions
      BY <2>10, VisitingHas DEF ResetPart, Visits
    <3>2. KeysOf(Wanted(u)) \in SUBSET Keys
      BY DEF KeysOf
    <3>3. [k \in DOMAIN changed[u] \ KeysOf(Wanted(u)) |-> changed[u][k]] \in Partial(BOOLEAN)
      BY <3>2, GroupsTyped DEF WorkTyped
    <3>4. QED
      BY <2>10, <3>1, <3>3 DEF ResetPart, WorkTyped
  <2>11. CASE Drop(u)
    BY <2>11, NothingTyped DEF Drop, WorkTyped
  <2>12. CASE DropPart(u)
    BY <2>12 DEF DropPart, workVars, WorkTyped
  <2>13. CASE Commit(u)
    BY <2>13 DEF Commit, workVars, WorkTyped
  <2>14. CASE CommitRefused(u)
    BY <2>14 DEF CommitRefused, Refuse, workVars, WorkTyped
  <2>15. CASE CommitDraws(u)
    BY <2>15 DEF CommitDraws, workVars, WorkTyped
  <2>16. CASE CommitLands(u)
    BY <2>16 DEF CommitLands, workVars, WorkTyped
  <2>17. CASE CommitMovesLease(u)
    BY <2>17 DEF CommitMovesLease, workVars, WorkTyped
  <2>18. CASE CommitPrunes(u)
    <3>1. Wanted(u) \in Partitions
      BY <2>18, VisitingHas DEF CommitPrunes, Visits
    <3>2. KeysOf(Wanted(u)) \in SUBSET Keys
      BY DEF KeysOf
    <3>3. [k \in DOMAIN changed[u] \ KeysOf(Wanted(u)) |-> changed[u][k]] \in Partial(BOOLEAN)
      BY <3>2, GroupsTyped DEF WorkTyped
    <3>4. QED
      BY <2>18, <3>1, <3>3 DEF CommitPrunes, WorkTyped
  <2>19. CASE Scan(u)
    BY <2>19 DEF Scan, workVars, WorkTyped, Marked
  <2>20. CASE UnwriteAll(u)
    BY <2>20 DEF UnwriteAll, workVars, WorkTyped
  <2>21. CASE UnwritePart(u)
    <3>1. Wanted(u) \in Partitions
      BY <2>21, VisitingHas DEF UnwritePart, Visits
    <3>2. {k \in KeysOf(Wanted(u)) : Sees(u, k)} \in SUBSET Keys /\ KeysOf(Wanted(u)) \in SUBSET Keys
      BY DEF KeysOf
    <3>3. WrittenOver(changed[u], {k \in KeysOf(Wanted(u)) : Sees(u, k)}, FALSE) \in Partial(BOOLEAN)
      BY <3>2, GroupsTyped DEF WorkTyped
    <3>4. QED
      BY <2>21, <3>1, <3>2, <3>3 DEF UnwritePart, WorkTyped
  <2>22. CASE \E k \in Keys : Read(u, k)
    BY <2>22, BucketIs DEF Read, WorkTyped, workVars
  <2>23. CASE \E k \in Keys : Write(u, k)
    <3>1. PICK k \in Keys : Write(u, k)
      BY <2>23
    <3>2. WrittenOver(changed[u], {k}, TRUE) \in Partial(BOOLEAN)
      BY GroupsTyped DEF WorkTyped
    <3>3. QED
      BY <3>1, <3>2, BucketIs DEF Write, WorkTyped
  <2>24. CASE \E k \in Keys, kind \in {"add", "revise", "unwrite"} : WriteChecked(u, k, kind)
    <3>1. PICK k \in Keys, kind \in {"add", "revise", "unwrite"} : WriteChecked(u, k, kind)
      BY <2>24
    <3>2. WrittenOver(changed[u], {k}, kind # "unwrite") \in Partial(BOOLEAN)
      BY GroupsTyped DEF WorkTyped
    <3>3. changed' \in [Threads -> Partial(BOOLEAN)]
      BY <3>1, <3>2 DEF WriteChecked, WorkTyped
    <3>4. reads' \in [Threads -> SUBSET Keys]
      BY <3>1 DEF WriteChecked, WorkTyped
    <3>5. touched' \in [Threads -> SUBSET Partitions]
      BY <3>1, BucketIs DEF WriteChecked, WorkTyped
    <3>6. QED
      BY <3>1, <3>3, <3>4, <3>5 DEF WriteChecked, WorkTyped
  <2>25. QED
    BY <1>2, <2>1, <2>2, <2>3, <2>4, <2>5, <2>6, <2>7, <2>8, <2>9, <2>10, <2>11, <2>12, <2>13, <2>14, <2>15,
        <2>16, <2>17, <2>18, <2>19, <2>20, <2>21, <2>22, <2>23, <2>24 DEF Transacts
<1>3. CASE WritesDirectly(u)
  <2>1. CASE \E k \in Keys, kind \in DirectWrites : Direct(u, kind, k)
    BY <2>1 DEF Direct, workVars, WorkTyped
  <2>2. CASE DirectRefused(u)
    BY <2>2 DEF DirectRefused, Refuse, workVars, WorkTyped
  <2>3. CASE DirectDraws(u)
    BY <2>3 DEF DirectDraws, workVars, WorkTyped
  <2>4. CASE DirectLands(u)
    BY <2>4 DEF DirectLands, workVars, WorkTyped
  <2>5. CASE DirectFinishes(u)
    BY <2>5 DEF DirectFinishes, workVars, WorkTyped
  <2>6. QED
    BY <1>3, <2>1, <2>2, <2>3, <2>4, <2>5 DEF WritesDirectly
<1>4. CASE WalksAll(u)
  <2>1. CASE \E kind \in WholeWrites \cup {"walk"} : Whole(u, kind)
    BY <2>1 DEF Whole, workVars, WorkTyped
  <2>2. CASE WalkEnds(u)
    BY <2>2 DEF WalkEnds, workVars, WorkTyped
  <2>3. CASE EraseBegins(u)
    BY <2>3 DEF EraseBegins, workVars, WorkTyped
  <2>4. CASE ErasePart(u)
    BY <2>4 DEF ErasePart, workVars, WorkTyped
  <2>5. CASE EraseEnds(u)
    BY <2>5 DEF EraseEnds, workVars, WorkTyped
  <2>6. CASE PopSmallest(u)
    BY <2>6 DEF PopSmallest, workVars, WorkTyped
  <2>7. CASE \E kind \in {"vacuum", "clear"} : Sweep(u, kind)
    BY <2>7 DEF Sweep, workVars, WorkTyped
  <2>8. CASE VacuumPart(u)
    BY <2>8 DEF VacuumPart, workVars, WorkTyped
  <2>9. CASE ClearPart(u)
    BY <2>9 DEF ClearPart, workVars, WorkTyped
  <2>10. QED
    BY <1>4, <2>1, <2>2, <2>3, <2>4, <2>5, <2>6, <2>7, <2>8, <2>9 DEF WalksAll
<1>5. QED
  BY <1>1, <1>2, <1>3, <1>4 DEF OwnStep

\* Every step keeps the types of where transactions stand.
LEMMA PlacesStayTyped ==
    ASSUME Typed, NEW u \in Threads, OwnStep(u)
    PROVE  PlacesTyped'
<1>0. PlacesTyped /\ CallsTyped /\ Watermark \in Nat
  BY MarksAre, MarkFacts DEF Typed, ClockTyped
<1> USE <1>0
<1>1. CASE Acquire(u)
  BY <1>1 DEF Acquire, placeVars, PlacesTyped
<1>2. CASE Transacts(u)
  <2>1. CASE Open(u)
    BY <2>1 DEF Open, placeVars, PlacesTyped
  <2>2. CASE OpenPart(u)
    BY <2>2 DEF OpenPart, placeVars, PlacesTyped
  <2>3. CASE Settle(u)
    BY <2>3 DEF Settle, placeVars, PlacesTyped
  <2>4. CASE Stage(u)
    BY <2>4 DEF Stage, placeVars, PlacesTyped
  <2>5. CASE StagePart(u)
    BY <2>5 DEF StagePart, placeVars, PlacesTyped
  <2>6. CASE UndoPart(u)
    BY <2>6 DEF UndoPart, placeVars, PlacesTyped
  <2>7. CASE Rollback(u)
    BY <2>7 DEF Rollback, placeVars, PlacesTyped
  <2>8. CASE RollbackPart(u)
    BY <2>8 DEF RollbackPart, placeVars, PlacesTyped
  <2>9. CASE Reset(u)
    BY <2>9 DEF Reset, placeVars, PlacesTyped
  <2>10. CASE ResetPart(u)
    BY <2>10 DEF ResetPart, placeVars, PlacesTyped
  <2>11. CASE Drop(u)
    BY <2>11 DEF Drop, placeVars, PlacesTyped
  <2>12. CASE DropPart(u)
    BY <2>12 DEF DropPart, placeVars, PlacesTyped
  <2>13. CASE Commit(u)
    BY <2>13 DEF Commit, placeVars, PlacesTyped
  <2>14. CASE CommitRefused(u)
    BY <2>14 DEF CommitRefused, Refuse, placeVars, PlacesTyped
  <2>15. CASE CommitDraws(u)
    BY <2>15 DEF CommitDraws, placeVars, PlacesTyped
  <2>16. CASE CommitLands(u)
    BY <2>16 DEF CommitLands, placeVars, PlacesTyped
  <2>17. CASE CommitMovesLease(u)
    BY <2>17 DEF CommitMovesLease, CallsTyped, PlacesTyped
  <2>18. CASE CommitPrunes(u)
    BY <2>18 DEF CommitPrunes, placeVars, PlacesTyped
  <2>19. CASE Scan(u)
    BY <2>19 DEF Scan, placeVars, PlacesTyped
  <2>20. CASE UnwriteAll(u)
    BY <2>20 DEF UnwriteAll, placeVars, PlacesTyped
  <2>21. CASE UnwritePart(u)
    BY <2>21 DEF UnwritePart, placeVars, PlacesTyped
  <2>22. CASE \E k \in Keys : Read(u, k)
    BY <2>22 DEF Read, placeVars, PlacesTyped
  <2>23. CASE \E k \in Keys : Write(u, k)
    BY <2>23 DEF Write, placeVars, PlacesTyped
  <2>24. CASE \E k \in Keys, kind \in {"add", "revise", "unwrite"} : WriteChecked(u, k, kind)
    BY <2>24 DEF WriteChecked, placeVars, PlacesTyped
  <2>25. QED
    BY <1>2, <2>1, <2>2, <2>3, <2>4, <2>5, <2>6, <2>7, <2>8, <2>9, <2>10, <2>11, <2>12, <2>13, <2>14, <2>15,
        <2>16, <2>17, <2>18, <2>19, <2>20, <2>21, <2>22, <2>23, <2>24 DEF Transacts
<1>3. CASE WritesDirectly(u)
  <2>1. CASE \E k \in Keys, kind \in DirectWrites : Direct(u, kind, k)
    BY <2>1 DEF Direct, placeVars, PlacesTyped
  <2>2. CASE DirectRefused(u)
    BY <2>2 DEF DirectRefused, Refuse, placeVars, PlacesTyped
  <2>3. CASE DirectDraws(u)
    BY <2>3 DEF DirectDraws, placeVars, PlacesTyped
  <2>4. CASE DirectLands(u)
    BY <2>4 DEF DirectLands, placeVars, PlacesTyped
  <2>5. CASE DirectFinishes(u)
    BY <2>5 DEF DirectFinishes, placeVars, PlacesTyped
  <2>6. QED
    BY <1>3, <2>1, <2>2, <2>3, <2>4, <2>5 DEF WritesDirectly
<1>4. CASE WalksAll(u)
  <2>1. CASE \E kind \in WholeWrites \cup {"walk"} : Whole(u, kind)
    BY <2>1 DEF Whole, placeVars, PlacesTyped
  <2>2. CASE WalkEnds(u)
    BY <2>2 DEF WalkEnds, placeVars, PlacesTyped
  <2>3. CASE EraseBegins(u)
    BY <2>3 DEF EraseBegins, placeVars, PlacesTyped
  <2>4. CASE ErasePart(u)
    BY <2>4 DEF ErasePart, placeVars, PlacesTyped
  <2>5. CASE EraseEnds(u)
    BY <2>5 DEF EraseEnds, placeVars, PlacesTyped
  <2>6. CASE PopSmallest(u)
    BY <2>6 DEF PopSmallest, placeVars, PlacesTyped
  <2>7. CASE \E kind \in {"vacuum", "clear"} : Sweep(u, kind)
    BY <2>7 DEF Sweep, placeVars, PlacesTyped
  <2>8. CASE VacuumPart(u)
    BY <2>8 DEF VacuumPart, placeVars, PlacesTyped
  <2>9. CASE ClearPart(u)
    BY <2>9 DEF ClearPart, placeVars, PlacesTyped
  <2>10. QED
    BY <1>4, <2>1, <2>2, <2>3, <2>4, <2>5, <2>6, <2>7, <2>8, <2>9 DEF WalksAll
<1>5. QED
  BY <1>1, <1>2, <1>3, <1>4 DEF OwnStep

----------------------------------------------------------------------------
(* What a thread holds and has left, in each phase of a call.              *)

\* A thread holds partitions only in the calls that take several before they go
\* on, and what it holds there comes before what it still wants.
LockBooks(t) ==
    /\ pc[t] \notin {"locking", "landing", "finishing", "erasing"} =>
          \A p \in Partitions : holder[p] # t /\ t \notin sharers[p]
    /\ pc[t] = "locking" =>
          \A p \in Partitions : holder[p] = t \/ t \in sharers[p] => \A q \in todo[t] : p < q

\* Who is inside of a call that writes holds what it writes, or wants it still.
CallBooks(t) ==
    /\ pc[t] = "locking" => op[t] \in {"commit"} \cup SharedWalks \cup DirectWrites \cup WholeWrites
    /\ pc[t] \in {"locking", "landing"} /\ op[t] = "commit" => \A p \in touched[t] : p \in todo[t] \/ holder[p] = t
    /\ pc[t] \in {"locking", "landing"} /\ op[t] \in DirectWrites =>
          key[t] \in Keys /\ (Bucket(key[t]) \in todo[t] \/ holder[Bucket(key[t])] = t)
    /\ pc[t] = "locking" /\ op[t] \in WholeWrites => \A p \in Partitions : p \in todo[t] \/ holder[p] = t
    /\ pc[t] = "erasing" => \A p \in Partitions : holder[p] = t
    /\ pc[t] = "locking" /\ op[t] = "commit" => t \in DOMAIN open /\ unsettled[t] = 0
    /\ pc[t] = "finishing" => key[t] \in Keys
    /\ pc[t] = "clear" => "clear" \in Calls

\* A stamp in flight is one thread's, which says in the log what it will write.
LandBooks(t) ==
    /\ pc[t] = "landing" =>
          /\ todo[t] = {} /\ op[t] \in {"commit"} \cup DirectWrites /\ stamp[t] \in writing
          /\ log[stamp[t]].writes = IF op[t] = "commit" THEN changed[t] ELSE DirectGroup(t)
    /\ pc[t] \in {"landed", "finishing"} => stamp[t] \in 1..drawn

InFlight ==
    /\ \A s \in writing : \E t \in Threads : pc[t] = "landing" /\ stamp[t] = s
    /\ \A t, u \in Threads : pc[t] = "landing" /\ pc[u] = "landing" /\ stamp[t] = stamp[u] => t = u

----------------------------------------------------------------------------
(* The six ways a step changes the store and its clock.                    *)

Ashore(u) == pc[u] # "landing" /\ pc'[u] # "landing"

Rests(u) == Ashore(u) /\ UNCHANGED dataVars /\ (open' = open \/ open' = Leased(u) \/ open' = Retired(u))
Starts(u) ==
    /\ pc[u] = "locking"
    /\ \E entry \in Entries : Draw(u, entry)
    /\ UNCHANGED <<versions, open>>
Lands(u) ==
    /\ pc[u] = "landing" /\ pc'[u] # "landing"
    /\ versions' = Written(versions, log[stamp[u]].writes, stamp[u])
    /\ writing' = writing \ {stamp[u]}
    /\ UNCHANGED <<drawn, log, open>>
Prunes(u) ==
    /\ Ashore(u)
    /\ \E ks \in SUBSET Keys : versions' = PruneKeys(ks)
    /\ UNCHANGED <<drawn, writing, log, open>>
Erases(u) ==
    /\ Ashore(u)
    /\ \E ks \in SUBSET Keys, first \in Nat : EraseTogether(u, ks, first)
    /\ \A p \in Partitions : holder[p] = u
    /\ UNCHANGED open
Clears(u) ==
    /\ Ashore(u) /\ "clear" \in Calls /\ DOMAIN open = {}
    /\ \E p \in Partitions : versions' = [k \in Keys |-> IF Bucket(k) = p THEN {} ELSE versions[k]]
    /\ UNCHANGED <<drawn, writing, log, open>>

\* Going on enters the phase or returns.
LEMMA MovedTo ==
    ASSUME CallsTyped, NEW u \in Threads, NEW onto, NEW rest, MoveOn(u, onto, rest)
    PROVE  pc'[u] \in {"idle", onto}
BY DEF CallsTyped, MoveOn, Returns, Become

\* Leaving a partition stays in the phase or returns.
LEMMA VisitedTo ==
    ASSUME CallsTyped, NEW u \in Threads, Visited(u)
    PROVE  pc'[u] \in {"idle", pc[u]}
BY MovedTo DEF Visited

\* What a commit logs is an entry.
LEMMA EntryTyped ==
    ASSUME NEW group \in Partial(BOOLEAN), NEW watched \in SUBSET Keys, NEW since \in Nat, NEW first \in Nat
    PROVE  Entry(group, watched, since, first) \in Entries
BY DEF Entry, Entries

\* What a direct call writes is a group.
LEMMA DirectGroupTyped ==
    ASSUME NEW u, key[u] \in Keys
    PROVE  DirectGroup(u) \in Partial(BOOLEAN)
<1> DEFINE g == DirectGroup(u)
<1>1. DOMAIN g = {key[u]} /\ g = [j \in DOMAIN g |-> g[j]] /\ \A j \in DOMAIN g : g[j] \in BOOLEAN
  BY DEF DirectGroup
<1>2. DOMAIN g \subseteq Keys
  BY <1>1
<1> HIDE DEF g
<1>3. g \in Partial(BOOLEAN)
  BY <1>1, <1>2, PartialIs
<1>4. QED
  BY <1>3 DEF g

\* Every step does one of six things to the versions and the clock.
LEMMA Moves ==
    ASSUME Typed, NEW u \in Threads, OwnStep(u), CallBooks(u), LandBooks(u)
    PROVE  Rests(u) \/ Starts(u) \/ Lands(u) \/ Prunes(u) \/ Erases(u) \/ Clears(u)
<1>0. CallsTyped /\ WorkTyped /\ PlacesTyped /\ ClockTyped
  BY DEF Typed
<1> USE <1>0
<1>1. CASE Acquire(u)
  BY <1>1 DEF Acquire, Rests, Ashore
<1>2. CASE Transacts(u)
  <2>1. CASE Open(u)
    BY <2>1, MovedTo DEF Open, Rests, Ashore, Calling
  <2>2. CASE OpenPart(u)
    BY <2>2, VisitedTo DEF OpenPart, Rests, Ashore, Visiting
  <2>3. CASE Settle(u)
    BY <2>3 DEF Settle, Rests, Ashore, callVars, CallsTyped, Calling
  <2>4. CASE Stage(u)
    BY <2>4, MovedTo DEF Stage, Rests, Ashore, Calling
  <2>5. CASE StagePart(u)
    BY <2>5, MovedTo DEF StagePart, Rests, Ashore, Visiting
  <2>6. CASE UndoPart(u)
    BY <2>6, VisitedTo DEF UndoPart, Rests, Ashore, Visiting
  <2>7. CASE Rollback(u)
    BY <2>7, MovedTo DEF Rollback, Rests, Ashore, Calling
  <2>8. CASE RollbackPart(u)
    BY <2>8 DEF RollbackPart, Rests, Ashore, Visiting, Returns, CallsTyped
  <2>9. CASE Reset(u)
    BY <2>9, MovedTo DEF Reset, Rests, Ashore, Calling
  <2>10. CASE ResetPart(u)
    BY <2>10, VisitedTo DEF ResetPart, Rests, Ashore, Visiting
  <2>11. CASE Drop(u)
    BY <2>11, MovedTo DEF Drop, Rests, Ashore, Calling
  <2>12. CASE DropPart(u)
    BY <2>12, MovedTo DEF DropPart, Rests, Ashore
  <2>13. CASE Commit(u)
    BY <2>13 DEF Commit, Rests, Ashore, Lock, Calling, CallsTyped
  <2>14. CASE CommitRefused(u)
    BY <2>14 DEF CommitRefused, Rests, Ashore, Refuse, Returns, HoldsAll, CallsTyped
  <2>15. CASE CommitDraws(u)
    <3>1. Entry(changed[u], RestsOn(u), snapshot[u], drawn + 1) \in Entries
      BY EntryTyped DEF WorkTyped, PlacesTyped, ClockTyped, RestsOn
    <3>2. QED
      BY <2>15, <3>1 DEF CommitDraws, HoldsAll, Starts
  <2>16. CASE CommitLands(u)
    BY <2>16 DEF CommitLands, Become, CallsTyped, Lands, LandBooks
  <2>17. CASE CommitMovesLease(u)
    BY <2>17, MovedTo DEF CommitMovesLease, Rests, Ashore
  <2>18. CASE CommitPrunes(u)
    <3>1. pc[u] # "landing" /\ pc'[u] # "landing"
      BY <2>18, VisitedTo DEF CommitPrunes, Visiting
    <3>2. KeysOf(Wanted(u)) \cap DOMAIN changed[u] \in SUBSET Keys
      BY DEF KeysOf
    <3>3. versions' = PruneKeys(KeysOf(Wanted(u)) \cap DOMAIN changed[u]) /\ UNCHANGED <<drawn, writing, log, open>>
      BY <2>18 DEF CommitPrunes
    <3>4. QED
      BY <3>1, <3>2, <3>3 DEF Prunes, Ashore
  <2>19. CASE Scan(u)
    BY <2>19 DEF Scan, Rests, Ashore, Lock, Calling, CallsTyped
  <2>20. CASE UnwriteAll(u)
    BY <2>20, MovedTo DEF UnwriteAll, Rests, Ashore, Calling, Writing
  <2>21. CASE UnwritePart(u)
    BY <2>21, VisitedTo DEF UnwritePart, Rests, Ashore, Visiting
  <2>22. CASE \E k \in Keys : Read(u, k)
    BY <2>22 DEF Read, Rests, Ashore, callVars, CallsTyped, Calling
  <2>23. CASE \E k \in Keys : Write(u, k)
    BY <2>23 DEF Write, Rests, Ashore, callVars, CallsTyped, Calling, Writing
  <2>24. CASE \E k \in Keys, kind \in {"add", "revise", "unwrite"} : WriteChecked(u, k, kind)
    BY <2>24 DEF WriteChecked, Rests, Ashore, callVars, CallsTyped, Calling, Writing
  <2>25. QED
    BY <1>2, <2>1, <2>2, <2>3, <2>4, <2>5, <2>6, <2>7, <2>8, <2>9, <2>10, <2>11, <2>12, <2>13, <2>14, <2>15,
        <2>16, <2>17, <2>18, <2>19, <2>20, <2>21, <2>22, <2>23, <2>24 DEF Transacts
<1>3. CASE WritesDirectly(u)
  <2>1. CASE \E k \in Keys, kind \in DirectWrites : Direct(u, kind, k)
    BY <2>1 DEF Direct, Rests, Ashore, Lock, Calling, CallsTyped
  <2>2. CASE DirectRefused(u)
    BY <2>2 DEF DirectRefused, Rests, Ashore, Refuse, Returns, HoldsAll, CallsTyped
  <2>3. CASE DirectDraws(u)
    <3>1. pc[u] = "locking" /\ op[u] \in DirectWrites
      BY <2>3 DEF DirectDraws, HoldsAll
    <3>2. key[u] \in Keys
      BY <3>1 DEF CallBooks
    <3>3. DirectGroup(u) \in Partial(BOOLEAN)
      BY <3>2, DirectGroupTyped
    <3>4. Entry(DirectGroup(u), {}, drawn, drawn + 1) \in Entries
      BY <3>3, EntryTyped DEF ClockTyped
    <3>5. QED
      BY <2>3, <3>1, <3>4 DEF DirectDraws, Starts
  <2>4. CASE DirectLands(u)
    BY <2>4 DEF DirectLands, Become, CallsTyped, Lands
  <2>5. CASE DirectFinishes(u)
    <3>1. pc[u] # "landing" /\ pc'[u] # "landing"
      BY <2>5 DEF DirectFinishes, Returns, CallsTyped
    <3>2. {key[u]} \in SUBSET Keys
      BY <2>5 DEF DirectFinishes, CallBooks
    <3>3. QED
      BY <2>5, <3>1, <3>2 DEF DirectFinishes, Prunes, Ashore
  <2>6. QED
    BY <1>3, <2>1, <2>2, <2>3, <2>4, <2>5 DEF WritesDirectly
<1>4. CASE WalksAll(u)
  <2>1. CASE \E kind \in WholeWrites \cup {"walk"} : Whole(u, kind)
    BY <2>1 DEF Whole, Rests, Ashore, Lock, Calling, CallsTyped
  <2>2. CASE WalkEnds(u)
    BY <2>2 DEF WalkEnds, Rests, Ashore, Refuse, Returns, HoldsAll, CallsTyped
  <2>3. CASE EraseBegins(u)
    BY <2>3 DEF EraseBegins, Rests, Ashore, Become, HoldsAll, CallsTyped
  <2>4. CASE ErasePart(u)
    <3>1. pc[u] # "landing" /\ pc'[u] # "landing" /\ open' = open /\ \A p \in Partitions : holder[p] = u
      BY <2>4 DEF ErasePart, CallBooks
    <3>2. CASE Shown(Wanted(u)) = {}
      BY <2>4, <3>1, <3>2 DEF ErasePart, Rests, Ashore
    <3>3. CASE Shown(Wanted(u)) # {}
      <4>1. Shown(Wanted(u)) \in SUBSET Keys
        BY DEF Shown, KeysOf
      <4>2. (IF stamp[u] = 0 THEN drawn + 1 ELSE stamp[u]) \in Nat
        BY DEF CallsTyped, ClockTyped
      <4>3. EraseTogether(u, Shown(Wanted(u)), IF stamp[u] = 0 THEN drawn + 1 ELSE stamp[u])
        BY <2>4, <3>3 DEF ErasePart
      <4>4. QED
        BY <3>1, <4>1, <4>2, <4>3 DEF Erases, Ashore
    <3>4. QED
      BY <3>2, <3>3
  <2>5. CASE EraseEnds(u)
    BY <2>5 DEF EraseEnds, Rests, Ashore, Refuse, Returns, HoldsAll, CallsTyped
  <2>6. CASE PopSmallest(u)
    <3> DEFINE shown == UNION {Shown(p) : p \in Partitions}
    <3>1. pc[u] # "landing" /\ pc'[u] # "landing" /\ open' = open
      BY <2>6 DEF PopSmallest, HoldsAll, Returns, CallsTyped
    <3>2. \A p \in Partitions : holder[p] = u
      BY <2>6 DEF PopSmallest, HoldsAll, CallBooks, WholeWrites
    <3>3. CASE shown = {}
      BY <2>6, <3>1, <3>3 DEF PopSmallest, Rests, Ashore
    <3>4. CASE shown # {}
      <4>1. shown \in SUBSET Keys /\ Keys \subseteq Nat
        BY DEF Shown, KeysOf, Keys
      <4>2. {Min(shown)} \in SUBSET Keys
        BY <3>4, <4>1, LeastNatural
      <4>3. EraseTogether(u, {Min(shown)}, drawn + 1) /\ drawn + 1 \in Nat
        BY <2>6, <3>4 DEF PopSmallest, ClockTyped
      <4>4. QED
        BY <3>1, <3>2, <4>2, <4>3 DEF Erases, Ashore
    <3>5. QED
      BY <3>3, <3>4
  <2>7. CASE \E kind \in {"vacuum", "clear"} : Sweep(u, kind)
    BY <2>7, MovedTo DEF Sweep, Rests, Ashore, Calling
  <2>8. CASE VacuumPart(u)
    <3>1. pc[u] # "landing" /\ pc'[u] # "landing"
      BY <2>8, VisitedTo DEF VacuumPart, Visiting
    <3>2. KeysOf(Wanted(u)) \in SUBSET Keys
      BY DEF KeysOf
    <3>3. QED
      BY <2>8, <3>1, <3>2 DEF VacuumPart, Prunes, Ashore
  <2>9. CASE ClearPart(u)
    <3>1. pc[u] = "clear" /\ pc'[u] # "landing" /\ "clear" \in Calls
      BY <2>9, MovedTo DEF ClearPart, Visiting, CallBooks
    <3>2. Wanted(u) \in Partitions
      BY <2>9, VisitingHas DEF ClearPart, Visits
    <3>3. UNCHANGED <<drawn, writing, log, open>>
      BY <2>9 DEF ClearPart
    <3>4. CASE HasReaders
      <4>1. versions' = PruneKeys({})
        BY <2>9, <3>4 DEF ClearPart, PruneKeys
      <4>2. QED
        BY <3>1, <3>3, <4>1 DEF Prunes, Ashore
    <3>5. CASE ~HasReaders
      <4>1. versions' = [k \in Keys |-> IF Bucket(k) = Wanted(u) THEN {} ELSE versions[k]]
        BY <2>9, <3>5 DEF ClearPart
      <4>2. QED
        BY <3>1, <3>2, <3>3, <3>5, <4>1 DEF Clears, Ashore, HasReaders
    <3>6. QED
      BY <3>4, <3>5
  <2>10. QED
    BY <1>4, <2>1, <2>2, <2>3, <2>4, <2>5, <2>6, <2>7, <2>8, <2>9 DEF WalksAll
<1>5. QED
  BY <1>1, <1>2, <1>3, <1>4 DEF OwnStep

----------------------------------------------------------------------------
(* The clock under those steps: both marks only rise.                      *)

Step(u) == Rests(u) \/ Starts(u) \/ Lands(u) \/ Prunes(u) \/ Erases(u) \/ Clears(u)

\* The watermark rises where only stamps above the newest one are drawn.
LEMMA MarkRises ==
    ASSUME NEW d \in Nat, NEW w \in SUBSET (1..d), NEW e \in Nat, NEW v \in SUBSET (1..e),
           d <= e, \A s \in v : s \in w \/ s > d
    PROVE  MarkOf(w, d) <= MarkOf(v, e)
<1>1. MarkOf(w, d) \in 0..d /\ \A s \in w : MarkOf(w, d) < s
  BY MarkFacts
<1>2. ASSUME NEW s \in v PROVE MarkOf(w, d) < s
  <2>1. CASE s \in w
    BY <1>1, <2>1
  <2>2. CASE s > d
    BY <1>1, <2>2
  <2>3. QED
    BY <2>1, <2>2
<1>3. MarkOf(w, d) \in Nat /\ MarkOf(w, d) <= e
  BY <1>1
<1>4. QED
  BY <1>2, <1>3, MarkFacts

\* The low-water mark rises where leases are only taken at the watermark.
LEMMA LowRises ==
    ASSUME NEW m \in Nat, NEW o, \A t \in DOMAIN o : o[t] \in Nat /\ o[t] <= m,
           NEW n \in Nat, NEW r, \A t \in DOMAIN r : r[t] \in Nat /\ r[t] <= n,
           m <= n, \A t \in DOMAIN r : (t \in DOMAIN o /\ r[t] = o[t]) \/ r[t] >= m
    PROVE  LowOf(o, m) <= LowOf(r, n)
<1>1. LowOf(o, m) \in 0..m /\ \A t \in DOMAIN o : LowOf(o, m) <= o[t]
  BY LowFacts
<1>2. ASSUME NEW t \in DOMAIN r PROVE LowOf(o, m) <= r[t]
  <2>1. CASE t \in DOMAIN o /\ r[t] = o[t]
    BY <1>1, <2>1
  <2>2. CASE r[t] >= m
    BY <1>1, <2>2
  <2>3. QED
    BY <2>1, <2>2
<1>3. LowOf(o, m) \in Nat /\ LowOf(o, m) <= n
  BY <1>1
<1>4. QED
  BY <1>2, <1>3, LowFacts

\* What an erasure writes is a group.
LEMMA AllErasedTyped ==
    ASSUME NEW ks \in SUBSET Keys
    PROVE  AllErased(ks) \in Partial(BOOLEAN) /\ DOMAIN AllErased(ks) = ks
<1>1. DOMAIN AllErased(ks) = ks /\ \A k \in ks : AllErased(ks)[k] = FALSE
  BY DEF AllErased
<1>2. AllErased(ks) = [k \in DOMAIN AllErased(ks) |-> AllErased(ks)[k]]
  BY DEF AllErased
<1>3. QED
  BY <1>1, <1>2, PartialIs

\* Stamps are drawn and logged one at a time; what is logged stays.
LEMMA ClockStep ==
    ASSUME Typed, NEW u \in Threads, LandBooks(u), Step(u)
    PROVE  /\ ClockTyped' /\ drawn <= drawn'
           /\ \A s \in writing' : s \in writing \/ s > drawn
           /\ \A e \in 1..drawn : log'[e] = log[e]
<1>0. ClockTyped /\ CallsTyped
  BY DEF Typed
<1>1. CASE UNCHANGED <<drawn, writing, log>>
  BY <1>0, <1>1 DEF ClockTyped
<1>2. CASE Starts(u)
  <2>1. PICK entry \in Entries : Draw(u, entry)
    BY <1>2 DEF Starts
  <2>2. drawn' = drawn + 1 /\ writing' = writing \cup {drawn + 1} /\ log' = Append(log, entry)
    BY <2>1 DEF Draw
  <2>3. QED
    BY <1>0, <2>1, <2>2 DEF ClockTyped
<1>3. CASE Lands(u)
  <2>1. drawn' = drawn /\ log' = log /\ writing' \subseteq writing
    BY <1>3 DEF Lands
  <2>2. QED
    BY <1>0, <2>1 DEF ClockTyped
<1>4. CASE Erases(u)
  <2>1. PICK ks \in SUBSET Keys, first \in Nat : EraseTogether(u, ks, first)
    BY <1>4 DEF Erases
  <2>2. AllErased(ks) \in Partial(BOOLEAN)
    BY AllErasedTyped
  <2>3. Entry(AllErased(ks), {}, drawn, first) \in Entries
    BY <1>0, <2>2, EntryTyped DEF ClockTyped
  <2>4. /\ drawn' = drawn + 1 /\ writing' = writing
        /\ log' = Append(log, Entry(AllErased(ks), {}, drawn, first))
    BY <2>1 DEF EraseTogether
  <2>5. QED
    BY <1>0, <2>3, <2>4 DEF ClockTyped
<1>5. QED
  BY <1>1, <1>2, <1>3, <1>4 DEF Step, Rests, Prunes, Clears, dataVars

\* No step lowers the watermark or the low-water mark.
LEMMA MarksRise ==
    ASSUME Typed, NEW u \in Threads, LandBooks(u), Step(u)
    PROVE  /\ LeasesTyped'
           /\ Watermark \in Nat /\ Watermark' \in Nat /\ Watermark <= Watermark'
           /\ LowWaterMark \in Nat /\ LowWaterMark' \in Nat /\ LowWaterMark <= LowWaterMark'
           /\ LowWaterMark <= Watermark /\ LowWaterMark' <= Watermark'
<1>1. ClockTyped /\ LeasesTyped /\ ClockTyped'
  BY ClockStep DEF Typed
<1>2. Watermark \in Nat /\ Watermark' \in Nat
  BY <1>1, MarksAre, MarkFacts DEF ClockTyped
<1>3. Watermark <= Watermark'
  <2>1. /\ drawn \in Nat /\ writing \in SUBSET (1..drawn) /\ drawn' \in Nat /\ writing' \in SUBSET (1..drawn')
        /\ drawn <= drawn' /\ \A s \in writing' : s \in writing \/ s > drawn
    BY <1>1, ClockStep DEF ClockTyped
  <2>2. QED
    BY <2>1, MarkRises, MarksAre
<1>4. /\ DOMAIN open' \subseteq Threads /\ open' = [t \in DOMAIN open' |-> open'[t]]
      /\ \A t \in DOMAIN open' : (t \in DOMAIN open /\ open'[t] = open[t]) \/ open'[t] = Watermark
  BY <1>1 DEF Step, Rests, Starts, Lands, Prunes, Erases, Clears, Leased, Retired, LeasesTyped
<1>5. \A t \in DOMAIN open' : open'[t] \in Nat /\ open'[t] <= Watermark /\ open'[t] <= Watermark'
  BY <1>1, <1>2, <1>3, <1>4 DEF LeasesTyped
<1>6. LeasesTyped'
  BY <1>4, <1>5 DEF LeasesTyped
<1>7. \A t \in DOMAIN open : open[t] \in Nat /\ open[t] <= Watermark
  BY <1>1 DEF LeasesTyped
<1>8. LowOf(open, Watermark) \in 0..Watermark /\ LowOf(open', Watermark') \in 0..Watermark'
  BY <1>2, <1>5, <1>7, LowFacts
<1>9. \A t \in DOMAIN open' : (t \in DOMAIN open /\ open'[t] = open[t]) \/ open'[t] >= Watermark
  BY <1>2, <1>4
<1>10. LowOf(open, Watermark) <= LowOf(open', Watermark')
  BY <1>2, <1>3, <1>5, <1>7, <1>9, LowRises
<1>11. QED
  BY <1>2, <1>3, <1>6, <1>8, <1>10, MarksAre

\* Every type is kept.
LEMMA StaysTyped ==
    ASSUME Typed, NEW u \in Threads, OwnStep(u), CallBooks(u), LandBooks(u)
    PROVE  Typed' /\ Step(u)
<1>1. Step(u)
  BY Moves DEF Step
<1>2. ClockTyped' /\ LeasesTyped'
  BY <1>1, ClockStep, MarksRise
<1>3. QED
  BY <1>1, <1>2, CallsStayTyped, LocksStayTyped, WorkStaysTyped, PlacesStayTyped DEF Typed

----------------------------------------------------------------------------
(* A step keeps the books of the thread that takes it.                     *)

HoldsNothing(u) == \A p \in Partitions : holder[p] # u /\ u \notin sharers[p]

\* Who gives its locks back holds none.
LEMMA ReleaseFrees ==
    ASSUME Typed, NEW u \in Threads, Release(u)
    PROVE  HoldsNothing(u)'
BY PartitionedAssumption DEF Typed, LocksTyped, Release, HoldsNothing

\* A thread's own step keeps its account of the locks it holds.
LEMMA LockBooksKept ==
    ASSUME Typed, NEW u \in Threads, OwnStep(u), LockBooks(u)
    PROVE  LockBooks(u)'
<1>0. CallsTyped /\ LocksTyped
  BY DEF Typed
<1>a. HoldsNothing(u)' => LockBooks(u)'
  BY DEF HoldsNothing, LockBooks
<1>b. UNCHANGED <<holder, sharers>> /\ pc[u] \notin {"locking", "landing", "finishing", "erasing"} => LockBooks(u)'
  BY <1>a DEF HoldsNothing, LockBooks
<1>c. Release(u) => LockBooks(u)'
  BY <1>a, ReleaseFrees
<1>d. todo'[u] \subseteq todo[u] /\ UNCHANGED <<holder, sharers>> /\ pc[u] \in {"locking", "landing", "erasing"}
         /\ pc'[u] \in {"locking", "landing", "finishing", "erasing"} /\ (pc'[u] = "locking" => pc[u] = "locking")
      => LockBooks(u)'
  BY DEF LockBooks
<1> USE <1>0
<1>1. CASE Acquire(u)
  <2>1. pc[u] = "locking" /\ todo[u] # {} /\ UNCHANGED pc
    BY <1>1 DEF Acquire
  <2>2. PICK p \in Partitions :
            /\ p = Wanted(u) /\ todo' = [todo EXCEPT ![u] = @ \ {p}]
            /\ \/ sharers' = [sharers EXCEPT ![p] = @ \cup {u}] /\ UNCHANGED holder
               \/ holder' = [holder EXCEPT ![p] = u] /\ UNCHANGED sharers
    BY <1>1 DEF Acquire, TakesNext
  <2>3. todo'[u] = todo[u] \ {p} /\ todo[u] \subseteq Nat /\ p \in Nat /\ \A q \in todo[u] : p <= q
    BY <2>1, <2>2, VisitsWanted, PartitionedAssumption DEF CallsTyped, Partitions
  <2>4. ASSUME NEW held \in Partitions, holder'[held] = u \/ u \in sharers'[held], NEW q \in todo'[u]
        PROVE  held < q
    <3>1. CASE held = p
      BY <2>3, <3>1
    <3>2. CASE held # p
      <4>1. holder[held] = u \/ u \in sharers[held]
        BY <2>2, <2>4, <3>2 DEF LocksTyped
      <4>2. QED
        BY <2>1, <2>3, <4>1 DEF LockBooks
    <3>3. QED
      BY <3>1, <3>2
  <2>5. QED
    BY <2>1, <2>4 DEF LockBooks
<1>2. CASE Transacts(u)
  <2>1. CASE Open(u)
    BY <2>1, <1>b DEF Open, Calling, lockVars
  <2>2. CASE OpenPart(u)
    BY <2>2, <1>b DEF OpenPart, Visiting, Visited
  <2>3. CASE Settle(u)
    BY <2>3, <1>b DEF Settle, Calling, lockVars
  <2>4. CASE Stage(u)
    BY <2>4, <1>b DEF Stage, Calling, lockVars
  <2>5. CASE StagePart(u)
    BY <2>5, <1>b DEF StagePart, Visiting, Visited
  <2>6. CASE UndoPart(u)
    BY <2>6, <1>b DEF UndoPart, Visiting, Visited
  <2>7. CASE Rollback(u)
    BY <2>7, <1>b DEF Rollback, Calling, lockVars
  <2>8. CASE RollbackPart(u)
    BY <2>8, <1>b DEF RollbackPart, Visiting, Visited
  <2>9. CASE Reset(u)
    BY <2>9, <1>b DEF Reset, Calling, lockVars
  <2>10. CASE ResetPart(u)
    BY <2>10, <1>b DEF ResetPart, Visiting, Visited
  <2>11. CASE Drop(u)
    BY <2>11, <1>b DEF Drop, Calling, lockVars
  <2>12. CASE DropPart(u)
    BY <2>12, <1>b DEF DropPart, Calling, lockVars
  <2>13. CASE Commit(u)
    BY <2>13, <1>b DEF Commit, Calling, lockVars
  <2>14. CASE CommitRefused(u)
    BY <2>14, <1>c DEF CommitRefused, Refuse
  <2>15. CASE CommitDraws(u)
    BY <2>15, <1>d DEF CommitDraws, HoldsAll, Draw, lockVars, CallsTyped
  <2>16. CASE CommitLands(u)
    BY <2>16, <1>c DEF CommitLands
  <2>17. CASE CommitMovesLease(u)
    BY <2>17, <1>b DEF CommitMovesLease, Calling, lockVars
  <2>18. CASE CommitPrunes(u)
    BY <2>18, <1>b DEF CommitPrunes, Visiting, Visited
  <2>19. CASE Scan(u)
    BY <2>19, <1>b DEF Scan, Calling, lockVars
  <2>20. CASE UnwriteAll(u)
    BY <2>20, <1>b DEF UnwriteAll, Calling, lockVars, Writing
  <2>21. CASE UnwritePart(u)
    BY <2>21, <1>b DEF UnwritePart, Visiting, Visited
  <2>22. CASE \E k \in Keys : Read(u, k)
    BY <2>22, <1>b DEF Read, Calling, lockVars
  <2>23. CASE \E k \in Keys : Write(u, k)
    BY <2>23, <1>b DEF Write, Calling, lockVars, Writing
  <2>24. CASE \E k \in Keys, kind \in {"add", "revise", "unwrite"} : WriteChecked(u, k, kind)
    BY <2>24, <1>b DEF WriteChecked, Calling, lockVars, Writing
  <2>25. QED
    BY <1>2, <2>1, <2>2, <2>3, <2>4, <2>5, <2>6, <2>7, <2>8, <2>9, <2>10, <2>11, <2>12, <2>13, <2>14, <2>15,
        <2>16, <2>17, <2>18, <2>19, <2>20, <2>21, <2>22, <2>23, <2>24 DEF Transacts
<1>3. CASE WritesDirectly(u)
  <2>1. CASE \E k \in Keys, kind \in DirectWrites : Direct(u, kind, k)
    BY <2>1, <1>b DEF Direct, Calling, lockVars
  <2>2. CASE DirectRefused(u)
    BY <2>2, <1>c DEF DirectRefused, Refuse
  <2>3. CASE DirectDraws(u)
    BY <2>3, <1>d DEF DirectDraws, HoldsAll, Draw, lockVars, CallsTyped
  <2>4. CASE DirectLands(u)
    BY <2>4, <1>d DEF DirectLands, Become, lockVars, CallsTyped
  <2>5. CASE DirectFinishes(u)
    BY <2>5, <1>c DEF DirectFinishes
  <2>6. QED
    BY <1>3, <2>1, <2>2, <2>3, <2>4, <2>5 DEF WritesDirectly
<1>4. CASE WalksAll(u)
  <2>1. CASE \E kind \in WholeWrites \cup {"walk"} : Whole(u, kind)
    BY <2>1, <1>b DEF Whole, Calling, lockVars
  <2>2. CASE WalkEnds(u)
    BY <2>2, <1>c DEF WalkEnds
  <2>3. CASE EraseBegins(u)
    <3>1. pc'[u] = "erasing" /\ UNCHANGED <<holder, sharers>>
      BY <2>3 DEF EraseBegins, Become, CallsTyped, lockVars
    <3>2. QED
      BY <3>1 DEF LockBooks
  <2>4. CASE ErasePart(u)
    BY <2>4, <1>d DEF ErasePart, lockVars, CallsTyped
  <2>5. CASE EraseEnds(u)
    BY <2>5, <1>c DEF EraseEnds
  <2>6. CASE PopSmallest(u)
    BY <2>6, <1>c DEF PopSmallest
  <2>7. CASE \E kind \in {"vacuum", "clear"} : Sweep(u, kind)
    BY <2>7, <1>b DEF Sweep, Calling, lockVars
  <2>8. CASE VacuumPart(u)
    BY <2>8, <1>b DEF VacuumPart, Visiting, Visited
  <2>9. CASE ClearPart(u)
    BY <2>9, <1>b DEF ClearPart, Visiting, Visited
  <2>10. QED
    BY <1>4, <2>1, <2>2, <2>3, <2>4, <2>5, <2>6, <2>7, <2>8, <2>9 DEF WalksAll
<1>5. QED
  BY <1>1, <1>2, <1>3, <1>4 DEF OwnStep

\* What returning leaves of a call.
LEMMA ReturnedTo ==
    ASSUME CallsTyped, NEW u \in Threads, Returns(u)
    PROVE  pc'[u] = "idle" /\ op'[u] = "none" /\ key'[u] = 0 /\ stamp'[u] = 0 /\ todo'[u] = {}
<1>1. pc'[u] = "idle"
  BY DEF CallsTyped, Returns
<1>2. op'[u] = "none"
  BY DEF CallsTyped, Returns
<1>3. key'[u] = 0
  BY DEF CallsTyped, Returns
<1>4. stamp'[u] = 0
  BY DEF CallsTyped, Returns
<1>5. todo'[u] = {}
  BY DEF CallsTyped, Returns
<1>6. QED
  BY <1>1, <1>2, <1>3, <1>4, <1>5

\* A thread's own step keeps the account of its call and of the stamp it has in flight.
LEMMA CallBooksKept ==
    ASSUME Typed, NEW u \in Threads, OwnStep(u), CallBooks(u), LandBooks(u)
    PROVE  CallBooks(u)' /\ LandBooks(u)'
<1>0. CallsTyped /\ ClockTyped /\ WorkTyped
  BY DEF Typed
<1>a. pc'[u] \notin {"locking", "landing", "landed", "erasing", "finishing", "clear"} => CallBooks(u)' /\ LandBooks(u)'
  BY DEF CallBooks, LandBooks
<1>p. PlacesTyped
  BY DEF Typed
<1>b. pc'[u] \notin {"landing", "landed", "finishing"} => LandBooks(u)'
  BY DEF LandBooks
<1> USE <1>0
<1>1. CASE Acquire(u)
  <2>1. pc[u] = "locking" /\ UNCHANGED <<pc, op, key, touched, open, unsettled>>
    BY <1>1 DEF Acquire, placeVars
  <2>2. PICK p \in Partitions :
            /\ p = Wanted(u) /\ todo' = [todo EXCEPT ![u] = @ \ {p}]
            /\ op[u] \in SharedWalks \/ holder' = [holder EXCEPT ![p] = u]
            /\ holder' = holder \/ holder' = [holder EXCEPT ![p] = u]
    BY <1>1 DEF Acquire, TakesNext
  <2>a. todo'[u] = todo[u] \ {p}
    BY <2>2 DEF CallsTyped
  <2>3. \A q \in Partitions : (holder[q] = u => holder'[q] = u)
    BY <2>2 DEF Typed, LocksTyped
  <2>4. ASSUME NEW q \in Partitions, op[u] \notin SharedWalks, q \in todo[u]
        PROVE  q \in todo'[u] \/ holder'[q] = u
    <3>1. CASE q = p
      BY <2>2, <2>4, <3>1 DEF Typed, LocksTyped
    <3>2. CASE q # p
      BY <2>4, <3>2, <2>a
    <3>3. QED
      BY <3>1, <3>2
  <2>5. CallBooks(u)'
    <3>1. op[u] = "commit" => \A q \in touched[u] : q \in todo'[u] \/ holder'[q] = u
      BY <2>1, <2>3, <2>4 DEF CallBooks, WorkTyped, SharedWalks
    <3>2. op[u] \in DirectWrites =>
              key[u] \in Keys /\ (Bucket(key[u]) \in todo'[u] \/ holder'[Bucket(key[u])] = u)
      BY <2>1, <2>3, <2>4, BucketIs DEF CallBooks, SharedWalks, DirectWrites
    <3>3. op[u] \in WholeWrites => \A q \in Partitions : q \in todo'[u] \/ holder'[q] = u
      BY <2>1, <2>3, <2>4 DEF CallBooks, SharedWalks, WholeWrites
    <3>4. op[u] \in {"commit"} \cup SharedWalks \cup DirectWrites \cup WholeWrites
      BY <2>1 DEF CallBooks
    <3>5. op[u] = "commit" => u \in DOMAIN open /\ unsettled[u] = 0
      BY <2>1 DEF CallBooks
    <3>6. QED
      BY <2>1, <3>1, <3>2, <3>3, <3>4, <3>5 DEF CallBooks
  <2>6. QED
    BY <2>1, <2>5, <1>b
<1>2. CASE Transacts(u)
  <2>1. CASE Open(u)
    BY <2>1, <1>a, MovedTo DEF Open, Calling
  <2>2. CASE OpenPart(u)
    BY <2>2, <1>a, VisitedTo DEF OpenPart, Visiting
  <2>3. CASE Settle(u)
    BY <2>3, <1>a DEF Settle, callVars, CallsTyped, Calling, Writing
  <2>4. CASE Stage(u)
    BY <2>4, <1>a, MovedTo DEF Stage, Calling
  <2>5. CASE StagePart(u)
    BY <2>5, <1>a, MovedTo DEF StagePart, Visiting
  <2>6. CASE UndoPart(u)
    BY <2>6, <1>a, VisitedTo DEF UndoPart, Visiting
  <2>7. CASE Rollback(u)
    BY <2>7, <1>a, MovedTo DEF Rollback, Calling
  <2>8. CASE RollbackPart(u)
    <3>1. pc'[u] \in {"idle", "rolling"}
      <4>1. CASE Returns(u)
        BY <4>1, ReturnedTo
      <4>2. CASE pc' = pc
        BY <2>8, <4>2 DEF RollbackPart, Visiting
      <4>3. QED
        BY <2>8, <4>1, <4>2 DEF RollbackPart
    <3>2. QED
      BY <3>1, <1>a
  <2>9. CASE Reset(u)
    BY <2>9, <1>a, MovedTo DEF Reset, Calling
  <2>10. CASE ResetPart(u)
    BY <2>10, <1>a, VisitedTo DEF ResetPart, Visiting
  <2>11. CASE Drop(u)
    BY <2>11, <1>a, MovedTo DEF Drop, Calling
  <2>12. CASE DropPart(u)
    BY <2>12, <1>a, MovedTo DEF DropPart
  <2>13. CASE Commit(u)
    <3>1. pc'[u] = "locking" /\ op'[u] = "commit" /\ todo'[u] = touched[u] /\ touched' = touched
      BY <2>13 DEF Commit, Lock, CallsTyped
    <3>2. u \in DOMAIN open' /\ unsettled'[u] = 0
      BY <2>13 DEF Commit, Settled, IsOpen, placeVars
    <3>3. CallBooks(u)'
      BY <3>1, <3>2 DEF CallBooks, DirectWrites, WholeWrites, SharedWalks
    <3>4. QED
      BY <3>1, <3>3, <1>b
  <2>14. CASE CommitRefused(u)
    BY <2>14, <1>a, ReturnedTo DEF CommitRefused, Refuse
  <2>15. CASE CommitDraws(u)
    <3>1. pc[u] = "locking" /\ todo[u] = {} /\ op[u] = "commit" /\ UNCHANGED <<op, key, todo, holder, touched, changed>>
      BY <2>15 DEF CommitDraws, HoldsAll, lockVars, workVars
    <3>2. pc'[u] = "landing" /\ stamp'[u] = drawn + 1 /\ drawn + 1 \in writing' /\ drawn' = drawn + 1
      BY <2>15 DEF CommitDraws, Draw, CallsTyped
    <3>3. PICK entry \in Entries : log' = Append(log, entry) /\ entry.writes = changed[u]
      <4>1. log' = Append(log, Entry(changed[u], RestsOn(u), snapshot[u], drawn + 1))
        BY <2>15 DEF CommitDraws, Draw
      <4>a. changed[u] \in Partial(BOOLEAN) /\ RestsOn(u) \in SUBSET Keys /\ snapshot[u] \in Nat /\ drawn + 1 \in Nat
        BY <1>p DEF RestsOn, PlacesTyped, WorkTyped, ClockTyped
      <4>2. Entry(changed[u], RestsOn(u), snapshot[u], drawn + 1) \in Entries
        BY <4>a, EntryTyped
      <4>3. (Entry(changed[u], RestsOn(u), snapshot[u], drawn + 1)).writes = changed[u]
        BY DEF Entry
      <4>4. QED
        BY <4>1, <4>2, <4>3
    <3>4. log'[drawn + 1].writes = changed[u]
      BY <3>3 DEF ClockTyped
    <3>5. CallBooks(u)'
      BY <3>1, <3>2 DEF CallBooks, DirectWrites, WholeWrites, SharedWalks
    <3>6. LandBooks(u)'
      BY <3>1, <3>2, <3>4 DEF LandBooks, DirectWrites, DirectGroup
    <3>7. QED
      BY <3>5, <3>6
  <2>16. CASE CommitLands(u)
    <3>1. pc'[u] = "landed" /\ stamp' = stamp /\ drawn' = drawn /\ pc[u] = "landing"
      BY <2>16 DEF CommitLands, Become, CallsTyped
    <3>2. stamp[u] \in 1..drawn
      BY <3>1 DEF LandBooks, ClockTyped
    <3>3. QED
      BY <3>1, <3>2 DEF CallBooks, LandBooks
  <2>17. CASE CommitMovesLease(u)
    BY <2>17, <1>a, MovedTo DEF CommitMovesLease
  <2>18. CASE CommitPrunes(u)
    BY <2>18, <1>a, VisitedTo DEF CommitPrunes, Visiting
  <2>19. CASE Scan(u)
    <3>1. pc'[u] = "locking"
      BY <2>19 DEF Scan, Lock, CallsTyped
    <3>2. CallBooks(u)'
      BY <2>19, <3>1 DEF Scan, Lock, CallsTyped, CallBooks, SharedWalks, DirectWrites, WholeWrites
    <3>3. QED
      BY <3>1, <3>2, <1>b
  <2>20. CASE UnwriteAll(u)
    BY <2>20, <1>a, MovedTo DEF UnwriteAll, Calling
  <2>21. CASE UnwritePart(u)
    BY <2>21, <1>a, VisitedTo DEF UnwritePart, Visiting
  <2>22. CASE \E k \in Keys : Read(u, k)
    BY <2>22, <1>a DEF Read, callVars, CallsTyped, Calling, Writing
  <2>23. CASE \E k \in Keys : Write(u, k)
    BY <2>23, <1>a DEF Write, callVars, CallsTyped, Calling, Writing
  <2>24. CASE \E k \in Keys, kind \in {"add", "revise", "unwrite"} : WriteChecked(u, k, kind)
    BY <2>24, <1>a DEF WriteChecked, callVars, CallsTyped, Calling, Writing
  <2>25. QED
    BY <1>2, <2>1, <2>2, <2>3, <2>4, <2>5, <2>6, <2>7, <2>8, <2>9, <2>10, <2>11, <2>12, <2>13, <2>14, <2>15,
        <2>16, <2>17, <2>18, <2>19, <2>20, <2>21, <2>22, <2>23, <2>24 DEF Transacts
<1>3. CASE WritesDirectly(u)
  <2>1. CASE \E k \in Keys, kind \in DirectWrites : Direct(u, kind, k)
    <3>1. pc'[u] = "locking"
      BY <2>1 DEF Direct, Lock, CallsTyped
    <3>2. CallBooks(u)'
      BY <2>1, <3>1 DEF Direct, Lock, CallsTyped, CallBooks, SharedWalks, DirectWrites, WholeWrites
    <3>3. QED
      BY <3>1, <3>2, <1>b
  <2>2. CASE DirectRefused(u)
    BY <2>2, <1>a, ReturnedTo DEF DirectRefused, Refuse
  <2>3. CASE DirectDraws(u)
    <3>1. pc[u] = "locking" /\ todo[u] = {} /\ op[u] \in DirectWrites /\ UNCHANGED <<op, key, todo, holder, touched, changed>>
      BY <2>3 DEF DirectDraws, HoldsAll, lockVars, workVars
    <3>2. pc'[u] = "landing" /\ stamp'[u] = drawn + 1 /\ drawn + 1 \in writing' /\ drawn' = drawn + 1
      BY <2>3 DEF DirectDraws, Draw, CallsTyped
    <3>3. PICK entry \in Entries : log' = Append(log, entry) /\ entry.writes = DirectGroup(u)
      <4>1. log' = Append(log, Entry(DirectGroup(u), {}, drawn, drawn + 1))
        BY <2>3 DEF DirectDraws, Draw
      <4>a. DirectGroup(u) \in Partial(BOOLEAN) /\ {} \in SUBSET Keys /\ drawn \in Nat /\ drawn + 1 \in Nat
        BY <3>1, DirectGroupTyped DEF CallBooks, ClockTyped
      <4>2. Entry(DirectGroup(u), {}, drawn, drawn + 1) \in Entries
        BY <4>a, EntryTyped
      <4>3. (Entry(DirectGroup(u), {}, drawn, drawn + 1)).writes = DirectGroup(u)
        BY DEF Entry
      <4>4. QED
        BY <4>1, <4>2, <4>3
    <3>4. log'[drawn + 1].writes = DirectGroup(u)
      BY <3>3 DEF ClockTyped
    <3>5. CallBooks(u)'
      BY <3>1, <3>2 DEF CallBooks, DirectWrites, WholeWrites, SharedWalks
    <3>6. LandBooks(u)'
      BY <3>1, <3>2, <3>4 DEF LandBooks, DirectWrites, DirectGroup
    <3>7. QED
      BY <3>5, <3>6
  <2>4. CASE DirectLands(u)
    <3>1. /\ pc'[u] = "finishing" /\ stamp' = stamp /\ drawn' = drawn /\ key' = key
          /\ pc[u] = "landing" /\ op[u] \in DirectWrites
      BY <2>4 DEF DirectLands, Become, CallsTyped
    <3>2. stamp[u] \in 1..drawn /\ key[u] \in Keys
      BY <3>1 DEF LandBooks, CallBooks, ClockTyped
    <3>3. QED
      BY <3>1, <3>2 DEF CallBooks, LandBooks
  <2>5. CASE DirectFinishes(u)
    BY <2>5, <1>a, ReturnedTo DEF DirectFinishes, Refuse
  <2>6. QED
    BY <1>3, <2>1, <2>2, <2>3, <2>4, <2>5 DEF WritesDirectly
<1>4. CASE WalksAll(u)
  <2>1. CASE \E kind \in WholeWrites \cup {"walk"} : Whole(u, kind)
    <3>1. pc'[u] = "locking"
      BY <2>1 DEF Whole, Lock, CallsTyped
    <3>2. CallBooks(u)'
      BY <2>1, <3>1 DEF Whole, Lock, CallsTyped, CallBooks, SharedWalks, DirectWrites, WholeWrites
    <3>3. QED
      BY <3>1, <3>2, <1>b
  <2>2. CASE WalkEnds(u)
    BY <2>2, <1>a, ReturnedTo DEF WalkEnds, Refuse
  <2>3. CASE EraseBegins(u)
    <3>1. pc'[u] = "erasing" /\ \A p \in Partitions : holder'[p] = u
      BY <2>3 DEF EraseBegins, Become, HoldsAll, lockVars, CallsTyped, CallBooks, WholeWrites
    <3>2. QED
      BY <3>1 DEF CallBooks, LandBooks
  <2>4. CASE ErasePart(u)
    <3>1. pc'[u] = "erasing" /\ \A p \in Partitions : holder'[p] = u
      BY <2>4 DEF ErasePart, lockVars, CallBooks
    <3>2. QED
      BY <3>1 DEF CallBooks, LandBooks
  <2>5. CASE EraseEnds(u)
    BY <2>5, <1>a, ReturnedTo DEF EraseEnds, Refuse
  <2>6. CASE PopSmallest(u)
    BY <2>6, <1>a, ReturnedTo DEF PopSmallest, Refuse
  <2>7. CASE \E kind \in {"vacuum", "clear"} : Sweep(u, kind)
    <3>1. pc'[u] \in {"idle", "vacuum"} \/ (pc'[u] = "clear" /\ "clear" \in Calls)
      BY <2>7, MovedTo DEF Sweep, Calling
    <3>2. QED
      BY <3>1 DEF CallBooks, LandBooks
  <2>8. CASE VacuumPart(u)
    BY <2>8, <1>a, VisitedTo DEF VacuumPart, Visiting
  <2>9. CASE ClearPart(u)
    <3>1. pc'[u] \in {"idle", "clear"} /\ "clear" \in Calls
      BY <2>9, MovedTo DEF ClearPart, Visiting, CallBooks
    <3>2. QED
      BY <3>1 DEF CallBooks, LandBooks
  <2>10. QED
    BY <1>4, <2>1, <2>2, <2>3, <2>4, <2>5, <2>6, <2>7, <2>8, <2>9 DEF WalksAll
<1>5. QED
  BY <1>1, <1>2, <1>3, <1>4 DEF OwnStep

\* A stamp in flight stays in flight until its own thread lands it.
LEMMA WritingKept ==
    ASSUME Typed, NEW u \in Threads, LandBooks(u), Step(u), NEW s \in writing, pc[u] # "landing" \/ stamp[u] # s
    PROVE  s \in writing'
BY DEF Step, Rests, Starts, Lands, Prunes, Erases, Clears, EraseTogether, Draw, dataVars, Ashore

\* A thread's step keeps the accounts of the others.
LEMMA OthersBooksKept ==
    ASSUME Typed, NEW u \in Threads, NEW t \in Threads, t # u, OwnStep(u), Step(u), LandBooks(u), InFlight,
           LockBooks(t), CallBooks(t), LandBooks(t)
    PROVE  LockBooks(t)' /\ CallBooks(t)' /\ LandBooks(t)'
<1>1. SameCall(t) /\ SameWork(t) /\ SamePlace(t) /\ SameLocks(t)
  BY OthersWait DEF Same
<1>2. LockBooks(t)'
  BY <1>1 DEF LockBooks, SameCall, SameLocks
<1>3. CallBooks(t)'
  <2>1. touched[t] \subseteq Partitions /\ key[t] \in Keys \cup {0}
    BY DEF Typed, WorkTyped, CallsTyped
  <2>2. key[t] \in Keys => Bucket(key[t]) \in Partitions
    BY BucketIs
  <2>3. Bucket(key'[t]) = Bucket(key[t])
    BY <1>1 DEF SameCall
  <2>4. \A p \in Partitions : holder'[p] = t <=> holder[p] = t
    BY <1>1 DEF SameLocks
  <2>5. /\ pc'[t] = pc[t] /\ op'[t] = op[t] /\ key'[t] = key[t] /\ todo'[t] = todo[t] /\ touched'[t] = touched[t]
        /\ (t \in DOMAIN open' <=> t \in DOMAIN open) /\ unsettled'[t] = unsettled[t]
    BY <1>1 DEF SameCall, SameWork, SamePlace
  <2>6. QED
    BY <2>1, <2>2, <2>3, <2>4, <2>5 DEF CallBooks
<1>4. LandBooks(t)'
  <2>1. drawn <= drawn' /\ (\A e \in 1..drawn : log'[e] = log[e]) /\ drawn \in Nat /\ drawn' \in Nat
        /\ writing \subseteq 1..drawn
    BY ClockStep DEF Typed, ClockTyped
  <2>2. /\ pc'[t] = pc[t] /\ op'[t] = op[t] /\ key'[t] = key[t] /\ todo'[t] = todo[t] /\ stamp'[t] = stamp[t]
        /\ changed'[t] = changed[t] /\ DirectGroup(t)' = DirectGroup(t)
    BY <1>1 DEF SameCall, SameWork, DirectGroup
  <2>3. CASE pc[t] = "landing"
    <3>1. stamp[t] \in writing /\ (pc[u] # "landing" \/ stamp[u] # stamp[t])
      BY <2>3 DEF LandBooks, InFlight
    <3>2. stamp[t] \in writing' /\ log'[stamp[t]] = log[stamp[t]]
      BY <2>1, <3>1, WritingKept
    <3>3. QED
      BY <2>2, <2>3, <3>2 DEF LandBooks
  <2>4. CASE pc[t] # "landing"
    BY <2>1, <2>2, <2>4 DEF LandBooks
  <2>5. QED
    BY <2>3, <2>4
<1>5. QED
  BY <1>2, <1>3, <1>4

\* Every step keeps it that one thread has each stamp in flight.
LEMMA InFlightKept ==
    ASSUME Typed, NEW u \in Threads, OwnStep(u), Step(u), InFlight, \A t \in Threads : LandBooks(t)
    PROVE  InFlight'
<1>1. \A t \in Threads : t # u => pc'[t] = pc[t] /\ stamp'[t] = stamp[t]
  BY OthersWait DEF Same, SameCall
<1>2. \A t \in Threads : pc[t] = "landing" => stamp[t] \in 1..drawn
  BY DEF LandBooks, Typed, ClockTyped
<1>3. CASE Ashore(u) /\ writing' = writing
  BY <1>1, <1>3 DEF Ashore, InFlight
<1>4. CASE Starts(u)
  <2>1. /\ pc[u] # "landing" /\ pc'[u] = "landing" /\ stamp'[u] = drawn + 1 /\ writing' = writing \cup {drawn + 1}
        /\ drawn \in Nat
    BY <1>4 DEF Starts, Draw, Typed, CallsTyped, ClockTyped
  <2>2. \A t \in Threads : pc[t] = "landing" => stamp[t] # drawn + 1
    BY <1>2, <2>1
  <2>3. QED
    BY <1>1, <2>1, <2>2 DEF InFlight
<1>5. CASE Lands(u)
  BY <1>1, <1>5 DEF Lands, InFlight
<1>6. QED
  BY <1>3, <1>4, <1>5 DEF Step, Rests, Prunes, Erases, Clears, EraseTogether, dataVars

----------------------------------------------------------------------------
(* The calls of every thread, in every state.                              *)

Books == \A t \in Threads : LockBooks(t) /\ CallBooks(t) /\ LandBooks(t)

Base == Typed /\ Books /\ InFlight

\* The first state satisfies the base invariant.
LEMMA InitBase == Init => Base
<1> SUFFICES ASSUME Init PROVE Base
  OBVIOUS
<1>1. ClockTyped
  BY DEF Init, ClockTyped
<1>2. LeasesTyped
  BY DEF Init, LeasesTyped
<1>3. LocksTyped
  BY DEF Init, LocksTyped
<1>4. CallsTyped
  BY DEF Init, CallsTyped, Phases, Kinds, Visits
<1>5. WorkTyped
  BY NothingTyped DEF Init, WorkTyped
<1>6. PlacesTyped
  BY DEF Init, PlacesTyped
<1>7. Books
  BY PartitionedAssumption DEF Init, Books, LockBooks, CallBooks, LandBooks
<1>8. InFlight
  BY DEF Init, InFlight
<1>9. QED
  BY <1>1, <1>2, <1>3, <1>4, <1>5, <1>6, <1>7, <1>8 DEF Base, Typed

\* Every step keeps the base invariant, and is one of the six kinds.
LEMMA StepBase ==
    ASSUME Base, NEW u \in Threads, OwnStep(u)
    PROVE  Base' /\ Step(u)
<1>1. Typed' /\ Step(u)
  BY StaysTyped DEF Base, Books
<1>2. LockBooks(u)' /\ CallBooks(u)' /\ LandBooks(u)'
  BY LockBooksKept, CallBooksKept DEF Base, Books
<1>3. ASSUME NEW t \in Threads, t # u PROVE LockBooks(t)' /\ CallBooks(t)' /\ LandBooks(t)'
  BY <1>1, <1>3, OthersBooksKept DEF Base, Books
<1>4. InFlight'
  BY <1>1, InFlightKept DEF Base, Books
<1>5. QED
  BY <1>1, <1>2, <1>3, <1>4 DEF Base, Books

\* Stuttering keeps the base invariant.
LEMMA IdleBase ==
    ASSUME Base, UNCHANGED vars
    PROVE  Base'
<1>1. /\ versions' = versions /\ drawn' = drawn /\ writing' = writing /\ log' = log /\ open' = open
      /\ holder' = holder /\ sharers' = sharers
      /\ pc' = pc /\ op' = op /\ key' = key /\ todo' = todo /\ stamp' = stamp
      /\ changed' = changed /\ reads' = reads /\ stagedIn' = stagedIn /\ staging' = staging
      /\ snapshot' = snapshot /\ unsettled' = unsettled /\ own' = own /\ touched' = touched
  BY DEF vars, dataVars, lockVars, callVars, workVars, placeVars
<1>2. Typed'
  BY <1>1 DEF Base, Typed, ClockTyped, LeasesTyped, LocksTyped, CallsTyped, WorkTyped, PlacesTyped, Watermark
<1>3. Books'
  BY <1>1 DEF Base, Books, LockBooks, CallBooks, LandBooks, DirectGroup
<1>4. InFlight'
  BY <1>1 DEF Base, InFlight
<1>5. QED
  BY <1>2, <1>3, <1>4 DEF Base

\* Every reachable state has well-formed parts, and every thread's place in its call
\* accounts for the partitions it holds, the ones it wants and the stamp it has in
\* flight (every_part_lock, touched_parts_lock_t, commit_under_one_stamp_).
THEOREM PartitionsTyped == Spec => []Base
<1>1. Base /\ [Next]_vars => Base'
  BY StepBase, IdleBase DEF Next, OwnStep
<1>2. QED
  BY <1>1, InitBase, PTL DEF Spec

----------------------------------------------------------------------------
(* No circle of waiting threads.                                           *)

\* Of the threads that want a partition, the one standing at the greatest waits for
\* none of them; of those that wait for publications, the one with the least stamp.
LEMMA NoCircle == Base => NobodyWaitsInACircle
<1> SUFFICES ASSUME Base, NEW circle \in SUBSET Threads, circle # {}
             PROVE  \E t \in circle : \A u \in circle : ~WaitsFor(t, u)
  BY DEF NobodyWaitsInACircle
<1>1. CASE \E t \in circle : pc[t] \notin WalksParts \cup {"landed", "finishing"} \/ (pc[t] \in WalksParts /\ todo[t] = {})
  BY <1>1 DEF WaitsFor, WalksParts
<1>2. CASE /\ \A t \in circle : pc[t] # "landing"
           /\ \E t \in circle : pc[t] \in {"landed", "finishing"}
  BY <1>2 DEF WaitsFor, WalksParts
<1>3. CASE \A t \in circle : pc[t] \in WalksParts /\ todo[t] # {}
  <2> DEFINE Fronts == {Wanted(t) : t \in circle}
  <2>1. \A t \in circle : Wanted(t) \in todo[t] /\ Wanted(t) \in Partitions
    BY <1>3, VisitsWanted DEF Base, Typed
  <2>2. PartitionCount \in Nat /\ Fronts \in SUBSET (0..PartitionCount) /\ Fronts # {}
    BY <2>1, PartitionedAssumption DEF Partitions
  <2>3. PICK t \in circle : \A u \in circle : Wanted(u) <= Wanted(t)
    BY <2>2, GreatestNatural
  <2>4. ASSUME NEW u \in circle, WaitsFor(t, u) PROVE FALSE
    <3>1. holder[Wanted(t)] = u \/ u \in sharers[Wanted(t)]
      BY <1>3, <2>4 DEF WaitsFor, WalksParts
    <3>2. LockBooks(u) /\ pc[u] \in WalksParts
      BY <1>3 DEF Base, Books
    <3>3. pc[u] = "locking"
      BY <2>1, <3>1, <3>2 DEF LockBooks, WalksParts
    <3>4. Wanted(t) < Wanted(u)
      BY <2>1, <3>1, <3>2, <3>3 DEF LockBooks
    <3>5. Wanted(t) \in Nat /\ Wanted(u) \in Nat
      BY <2>1, PartitionedAssumption DEF Partitions
    <3>6. QED
      BY <2>3, <3>4, <3>5
  <2>5. QED
    BY <2>4
<1>4. QED
  BY <1>1, <1>2, <1>3 DEF WalksParts

\* However many threads call, and whichever calls they make, they never wait for each
\* other in a circle: whoever holds partitions and wants more wants a greater one, and
\* whoever waits for a publication waits for a thread that waits for nobody
\* (every_part_lock, touched_parts_lock_t, await_published under a partition's lock).
THEOREM WaitsEnd == Spec => []NobodyWaitsInACircle
BY PartitionsTyped, NoCircle, PTL

----------------------------------------------------------------------------
(* Parts marked, and where a transaction stands.                           *)

\* Where the keys a transaction wrote or read are: in parts it marked, or in parts
\* the call forgetting them has yet to visit.
WroteIn(t) == IF pc[t] \in {"resetting", "pruning"} THEN todo[t] ELSE touched[t]
ReadIn(t) == IF pc[t] = "resetting" THEN todo[t] ELSE touched[t]

MarkBooks(t) ==
    /\ \A k \in DOMAIN changed[t] : Bucket(k) \in WroteIn(t)
    /\ own[t] = 0 => \A k \in reads[t] : Bucket(k) \in ReadIn(t)
    /\ pc[t] = "pruning" => own[t] # 0
    /\ pc[t] = "locking" /\ op[t] = "scan" /\ RecordsReads => touched[t] = Partitions

\* A lease stands at the snapshot read at, once the transaction's own commit is behind
\* it; and at the strict level a call outlives its commit's publication.
PlaceBooks(t) ==
    /\ snapshot[t] <= Watermark
    /\ t \notin DOMAIN open => own[t] = 0 /\ unsettled[t] = 0
    /\ t \in DOMAIN open /\ unsettled[t] = 0 => open[t] = snapshot[t]
    /\ own[t] <= snapshot[t] \/ own[t] = unsettled[t]
    /\ AwaitsPublication /\ pc[t] = "pruning" => stamp[t] <= Watermark

\* Where a call goes on to, and with what left.
LEMMA Moved ==
    ASSUME CallsTyped, NEW u \in Threads, NEW onto, NEW rest, MoveOn(u, onto, rest)
    PROVE  todo'[u] = rest /\ pc'[u] = (IF rest = {} THEN "idle" ELSE onto)
<1>1. CASE rest = {}
  BY <1>1, ReturnedTo DEF MoveOn
<1>2. CASE rest # {}
  BY <1>2 DEF MoveOn, Become, CallsTyped
<1>3. QED
  BY <1>1, <1>2

\* Where a walk goes on to, and with what left.
LEMMA VisitMoved ==
    ASSUME CallsTyped, NEW u \in Threads, Visited(u)
    PROVE  todo'[u] = todo[u] \ {Wanted(u)} /\ pc'[u] = (IF todo'[u] = {} THEN "idle" ELSE pc[u])
BY Moved DEF Visited

\* A call that begins to lock knows its kind.
LEMMA LockedTo ==
    ASSUME CallsTyped, NEW u \in Threads, NEW kind, NEW k, NEW ps, Lock(u, kind, k, ps)
    PROVE  pc'[u] = "locking" /\ op'[u] = kind
BY DEF CallsTyped, Lock

\* A partition has the keys hashed to it.
LEMMA KeysIn ==
    ASSUME NEW p, NEW k \in Keys
    PROVE  k \in KeysOf(p) <=> Bucket(k) = p
BY DEF KeysOf

\* A thread's own step keeps every key it wrote or read in a part it marked.
LEMMA MarkBooksKept ==
    ASSUME Typed, NEW u \in Threads, OwnStep(u), CallBooks(u), LandBooks(u), MarkBooks(u)
    PROVE  MarkBooks(u)'
<1>0. CallsTyped /\ WorkTyped /\ PlacesTyped /\ ClockTyped
  BY DEF Typed
<1>k. DOMAIN changed[u] \subseteq Keys /\ reads[u] \subseteq Keys
  BY <1>0, PartialHas DEF WorkTyped
<1>b. \A k \in Keys : Bucket(k) \in Partitions
  BY BucketIs
<1>m. changed'[u] = changed[u] /\ reads'[u] = reads[u] /\ touched'[u] = touched[u] /\ own'[u] = own[u]
      /\ pc[u] \notin {"resetting", "pruning"} /\ pc'[u] \notin {"resetting", "pruning"}
      /\ (pc'[u] = "locking" => op'[u] # "scan" \/ (pc[u] = "locking" /\ op'[u] = op[u]))
      => MarkBooks(u)'
  BY DEF MarkBooks, WroteIn, ReadIn
<1>s. UNCHANGED workVars /\ UNCHANGED placeVars /\ UNCHANGED touched
      => changed'[u] = changed[u] /\ reads'[u] = reads[u] /\ touched'[u] = touched[u] /\ own'[u] = own[u]
  BY DEF workVars, placeVars
<1>f. pc[u] \notin {"resetting", "pruning"} =>
         /\ \A k \in DOMAIN changed[u] : Bucket(k) \in touched[u]
         /\ own[u] = 0 => \A k \in reads[u] : Bucket(k) \in touched[u]
  BY DEF MarkBooks, WroteIn, ReadIn
<1> USE <1>0
<1>1. CASE Acquire(u)
  <2>1. pc[u] = "locking" /\ pc'[u] = "locking" /\ op'[u] = op[u]
    BY <1>1 DEF Acquire
  <2>2. changed'[u] = changed[u] /\ reads'[u] = reads[u] /\ touched'[u] = touched[u] /\ own'[u] = own[u]
    BY <1>1 DEF Acquire, workVars, placeVars
  <2>3. QED
    BY <2>1, <2>2, <1>m
<1>2. CASE Transacts(u)
  <2>1. CASE Open(u)
    <3>1. changed'[u] = changed[u] /\ reads'[u] = reads[u] /\ touched'[u] = touched[u] /\ own'[u] = own[u]
      BY <2>1 DEF Open, workVars
    <3>2. pc[u] = "idle" /\ pc'[u] \in {"idle", "opening"}
      BY <2>1, Moved DEF Open, Calling
    <3>3. QED
      BY <3>1, <3>2, <1>m
  <2>2. CASE OpenPart(u)
    <3>1. changed'[u] = changed[u] /\ reads'[u] = reads[u] /\ touched'[u] = touched[u] /\ own'[u] = own[u]
      BY <2>2 DEF OpenPart, workVars, placeVars
    <3>2. pc[u] = "opening" /\ pc'[u] \in {"idle", "opening"}
      BY <2>2, VisitMoved DEF OpenPart, Visiting
    <3>3. QED
      BY <3>1, <3>2, <1>m
  <2>3. CASE Settle(u)
    <3>1. changed'[u] = changed[u] /\ reads'[u] = reads[u] /\ touched'[u] = touched[u] /\ own'[u] = own[u]
      BY <2>3 DEF Settle, workVars, placeVars
    <3>2. pc[u] = "idle" /\ pc'[u] = "idle"
      BY <2>3 DEF Settle, callVars
    <3>3. QED
      BY <3>1, <3>2, <1>m
  <2>4. CASE Stage(u)
    <3>1. changed'[u] = changed[u] /\ reads'[u] = reads[u] /\ touched'[u] = touched[u] /\ own'[u] = own[u]
      BY <2>4 DEF Stage, workVars, placeVars
    <3>2. pc[u] = "idle" /\ pc'[u] \in {"idle", "staging"}
      BY <2>4, Moved DEF Stage, Calling
    <3>3. QED
      BY <3>1, <3>2, <1>m
  <2>5. CASE StagePart(u)
    <3>1. changed'[u] = changed[u] /\ reads'[u] = reads[u] /\ touched'[u] = touched[u] /\ own'[u] = own[u]
      BY <2>5 DEF StagePart, workVars, placeVars
    <3>2. pc[u] = "staging" /\ pc'[u] \in {"idle", "staging", "undoing"}
      BY <2>5, Moved DEF StagePart, Visiting
    <3>3. QED
      BY <3>1, <3>2, <1>m
  <2>6. CASE UndoPart(u)
    <3>1. changed'[u] = changed[u] /\ reads'[u] = reads[u] /\ touched'[u] = touched[u] /\ own'[u] = own[u]
      BY <2>6 DEF UndoPart, workVars, placeVars
    <3>2. pc[u] = "undoing" /\ pc'[u] \in {"idle", "undoing"}
      BY <2>6, VisitMoved DEF UndoPart, Visiting
    <3>3. QED
      BY <3>1, <3>2, <1>m
  <2>7. CASE Rollback(u)
    <3>1. changed'[u] = changed[u] /\ reads'[u] = reads[u] /\ touched'[u] = touched[u] /\ own'[u] = own[u]
      BY <2>7 DEF Rollback, workVars, placeVars
    <3>2. pc[u] = "idle" /\ pc'[u] \in {"idle", "rolling"}
      BY <2>7, Moved DEF Rollback, Calling
    <3>3. QED
      BY <3>1, <3>2, <1>m
  <2>8. CASE RollbackPart(u)
    <3>1. changed'[u] = changed[u] /\ reads'[u] = reads[u] /\ touched'[u] = touched[u] /\ own'[u] = own[u]
      BY <2>8 DEF RollbackPart, placeVars
    <3>2. pc[u] = "rolling" /\ (Returns(u) \/ pc' = pc)
      BY <2>8 DEF RollbackPart, Visiting
    <3>3. pc'[u] \in {"idle", "rolling"}
      BY <3>2, ReturnedTo
    <3>4. QED
      BY <3>1, <3>2, <3>3, <1>m
  <2>9. CASE Reset(u)
    <3>1. changed'[u] = changed[u] /\ reads'[u] = reads[u]
      BY <2>9 DEF Reset
    <3>2. todo'[u] = Partitions /\ pc'[u] = "resetting"
      <4>1. Partitions # {}
        BY PartitionedAssumption DEF Partitions
      <4>2. QED
        BY <2>9, <4>1, Moved DEF Reset
    <3>3. QED
      BY <3>1, <3>2, <1>k, <1>b DEF MarkBooks, WroteIn, ReadIn
  <2>10. CASE ResetPart(u)
    <3> DEFINE p == Wanted(u)
    <3>1. pc[u] = "resetting" /\ todo'[u] = todo[u] \ {p} /\ pc'[u] = (IF todo'[u] = {} THEN "idle" ELSE "resetting")
      BY <2>10, VisitMoved DEF ResetPart, Visiting
    <3>2. /\ reads'[u] = reads[u] \ KeysOf(p) /\ DOMAIN changed'[u] = (DOMAIN changed[u]) \ KeysOf(p)
          /\ own'[u] = own[u]
      BY <2>10 DEF ResetPart, WorkTyped, placeVars
    <3>3. /\ \A k \in DOMAIN changed[u] : Bucket(k) \in todo[u]
          /\ own[u] = 0 => \A k \in reads[u] : Bucket(k) \in todo[u]
      BY <3>1 DEF MarkBooks, WroteIn, ReadIn
    <3>4. /\ \A k \in DOMAIN changed'[u] : Bucket(k) \in todo'[u]
          /\ own'[u] = 0 => \A k \in reads'[u] : Bucket(k) \in todo'[u]
      BY <3>1, <3>2, <3>3, <1>k, KeysIn
    <3> HIDE DEF p
    <3>5. QED
      BY <3>1, <3>4 DEF MarkBooks, WroteIn, ReadIn
  <2>11. CASE Drop(u)
    <3>1. changed'[u] = <<>> /\ reads'[u] = {}
      BY <2>11 DEF Drop, WorkTyped
    <3>2. pc'[u] \in {"idle", "dropping"}
      BY <2>11, Moved DEF Drop
    <3>3. DOMAIN changed'[u] = {}
      BY <3>1
    <3>4. QED
      BY <3>1, <3>2, <3>3 DEF MarkBooks
  <2>12. CASE DropPart(u)
    <3>1. changed'[u] = changed[u] /\ reads'[u] = reads[u] /\ touched'[u] = touched[u] /\ own'[u] = own[u]
      BY <2>12 DEF DropPart, workVars, placeVars
    <3>2. pc[u] = "dropping" /\ pc'[u] \in {"idle", "dropping"}
      BY <2>12, Moved DEF DropPart
    <3>3. QED
      BY <3>1, <3>2, <1>m
  <2>13. CASE Commit(u)
    <3>1. changed'[u] = changed[u] /\ reads'[u] = reads[u] /\ touched'[u] = touched[u] /\ own'[u] = own[u]
      BY <2>13 DEF Commit, workVars, placeVars
    <3>2. pc[u] = "idle" /\ pc'[u] = "locking" /\ op'[u] # "scan"
      BY <2>13, LockedTo DEF Commit, Calling, DirectWrites, WholeWrites
    <3>3. QED
      BY <3>1, <3>2, <1>m
  <2>14. CASE CommitRefused(u)
    <3>1. changed'[u] = changed[u] /\ reads'[u] = reads[u] /\ touched'[u] = touched[u] /\ own'[u] = own[u]
      BY <2>14 DEF CommitRefused, Refuse, workVars, placeVars
    <3>2. pc[u] \notin {"resetting", "pruning"} /\ pc'[u] = "idle"
      BY <2>14, ReturnedTo DEF CommitRefused, Refuse, HoldsAll
    <3>3. QED
      BY <3>1, <3>2, <1>m
  <2>15. CASE CommitDraws(u)
    <3>1. changed'[u] = changed[u] /\ reads'[u] = reads[u] /\ touched'[u] = touched[u] /\ own'[u] = own[u]
      BY <2>15 DEF CommitDraws, workVars, placeVars
    <3>2. pc[u] = "locking" /\ pc'[u] = "landing"
      BY <2>15 DEF CommitDraws, Become, Draw, HoldsAll, CallsTyped
    <3>3. QED
      BY <3>1, <3>2, <1>m
  <2>16. CASE CommitLands(u)
    <3>1. changed'[u] = changed[u] /\ reads'[u] = reads[u] /\ touched'[u] = touched[u] /\ own'[u] = own[u]
      BY <2>16 DEF CommitLands, workVars, placeVars
    <3>2. pc[u] = "landing" /\ pc'[u] = "landed"
      BY <2>16 DEF CommitLands, Become, Draw, HoldsAll, CallsTyped
    <3>3. QED
      BY <3>1, <3>2, <1>m
  <2>17. CASE CommitMovesLease(u)
    <3>1. changed'[u] = changed[u] /\ reads'[u] = reads[u] /\ touched'[u] = touched[u] /\ own'[u] = stamp[u]
      BY <2>17 DEF CommitMovesLease, PlacesTyped
    <3>2. pc[u] = "landed" /\ todo'[u] = touched[u] /\ pc'[u] = (IF touched[u] = {} THEN "idle" ELSE "pruning")
      BY <2>17, Moved DEF CommitMovesLease
    <3>3. stamp[u] \in 1..drawn /\ drawn \in Nat
      BY <3>2 DEF LandBooks, ClockTyped
    <3>4. own'[u] # 0
      BY <3>1, <3>3
    <3>5. QED
      BY <3>1, <3>2, <3>4, <1>f DEF MarkBooks, WroteIn, ReadIn
  <2>18. CASE CommitPrunes(u)
    <3> DEFINE p == Wanted(u)
    <3>1. pc[u] = "pruning" /\ todo'[u] = todo[u] \ {p} /\ pc'[u] = (IF todo'[u] = {} THEN "idle" ELSE "pruning")
      BY <2>18, VisitMoved DEF CommitPrunes, Visiting
    <3>2. DOMAIN changed'[u] = (DOMAIN changed[u]) \ KeysOf(p) /\ own'[u] = own[u] /\ reads'[u] = reads[u]
      BY <2>18 DEF CommitPrunes, WorkTyped, placeVars
    <3>3. (\A k \in DOMAIN changed[u] : Bucket(k) \in todo[u]) /\ own[u] # 0
      BY <3>1 DEF MarkBooks, WroteIn
    <3>4. \A k \in DOMAIN changed'[u] : Bucket(k) \in todo'[u]
      BY <3>1, <3>2, <3>3, <1>k, KeysIn
    <3> HIDE DEF p
    <3>5. QED
      BY <3>1, <3>2, <3>3, <3>4 DEF MarkBooks, WroteIn
  <2>19. CASE Scan(u)
    <3>1. changed'[u] = changed[u] /\ reads'[u] = reads[u] /\ own'[u] = own[u] /\ pc[u] = "idle"
      BY <2>19 DEF Scan, workVars, placeVars, Calling
    <3>2. touched'[u] = (IF RecordsReads THEN Partitions ELSE touched[u])
      BY <2>19 DEF Scan, Marked, WorkTyped
    <3>3. pc'[u] = "locking"
      BY <2>19, LockedTo DEF Scan
    <3>4. QED
      BY <3>1, <3>2, <3>3, <1>f, <1>k, <1>b DEF MarkBooks, WroteIn, ReadIn
  <2>20. CASE UnwriteAll(u)
    <3>1. changed'[u] = changed[u] /\ reads'[u] = reads[u] /\ touched'[u] = touched[u] /\ own'[u] = own[u]
      BY <2>20 DEF UnwriteAll, workVars, placeVars
    <3>2. pc[u] = "idle" /\ pc'[u] \in {"idle", "unwriting"}
      BY <2>20, Moved DEF UnwriteAll, Writing, Calling
    <3>3. QED
      BY <3>1, <3>2, <1>m
  <2>21. CASE UnwritePart(u)
    <3> DEFINE p == Wanted(u)
               ks == {k \in KeysOf(Wanted(u)) : Sees(u, k)}
    <3>1. /\ touched'[u] = touched[u] \cup {p} /\ own'[u] = own[u]
          /\ changed'[u] = WrittenOver(changed[u], ks, FALSE)
          /\ reads'[u] = reads[u] \/ reads'[u] = reads[u] \cup KeysOf(p)
      BY <2>21 DEF UnwritePart, WorkTyped, placeVars
    <3>2. pc[u] = "unwriting" /\ pc'[u] \in {"idle", "unwriting"}
      BY <2>21, VisitMoved DEF UnwritePart, Visiting
    <3>3. DOMAIN changed'[u] = DOMAIN changed[u] \cup ks
      BY <3>1 DEF WrittenOver
    <3>4. ks \subseteq KeysOf(p) /\ \A k \in KeysOf(p) : Bucket(k) = p
      BY DEF KeysOf
    <3> HIDE DEF p, ks
    <3>5. QED
      BY <3>1, <3>2, <3>3, <3>4, <1>f DEF MarkBooks, WroteIn, ReadIn
  <2>22. CASE \E k \in Keys : Read(u, k)
    <3>1. PICK k \in Keys : Read(u, k)
      BY <2>22
    <3>2. /\ reads'[u] = reads[u] \cup {k} /\ touched'[u] = touched[u] \cup {Bucket(k)}
          /\ changed'[u] = changed[u] /\ own'[u] = own[u] /\ pc[u] = "idle" /\ pc'[u] = "idle"
      BY <3>1 DEF Read, WorkTyped, placeVars, callVars, Calling
    <3>3. QED
      BY <3>2, <1>f DEF MarkBooks, WroteIn, ReadIn
  <2>23. CASE \E k \in Keys : Write(u, k)
    <3>1. PICK k \in Keys : Write(u, k)
      BY <2>23
    <3>2. /\ changed'[u] = WrittenOver(changed[u], {k}, TRUE) /\ touched'[u] = touched[u] \cup {Bucket(k)}
          /\ reads'[u] = reads[u] /\ own'[u] = own[u] /\ pc[u] = "idle" /\ pc'[u] = "idle"
      BY <3>1 DEF Write, Writing, WorkTyped, placeVars, callVars, Calling
    <3>3. DOMAIN changed'[u] = DOMAIN changed[u] \cup {k}
      BY <3>2 DEF WrittenOver
    <3>4. QED
      BY <3>2, <3>3, <1>f DEF MarkBooks, WroteIn, ReadIn
  <2>24. CASE \E k \in Keys, kind \in {"add", "revise", "unwrite"} : WriteChecked(u, k, kind)
    <3>1. PICK k \in Keys, kind \in {"add", "revise", "unwrite"} : WriteChecked(u, k, kind)
      BY <2>24
    <3>2. /\ changed'[u] = changed[u] \/ changed'[u] = WrittenOver(changed[u], {k}, kind # "unwrite")
          /\ touched'[u] = touched[u] \cup {Bucket(k)}
          /\ reads'[u] = reads[u] \/ reads'[u] = reads[u] \cup {k}
          /\ own'[u] = own[u] /\ pc[u] = "idle" /\ pc'[u] = "idle"
      BY <3>1 DEF WriteChecked, Writing, WorkTyped, placeVars, callVars, Calling
    <3>3. DOMAIN changed'[u] = DOMAIN changed[u] \/ DOMAIN changed'[u] = DOMAIN changed[u] \cup {k}
      BY <3>2 DEF WrittenOver
    <3>4. QED
      BY <3>2, <3>3, <1>f DEF MarkBooks, WroteIn, ReadIn
  <2>25. QED
    BY <1>2, <2>1, <2>2, <2>3, <2>4, <2>5, <2>6, <2>7, <2>8, <2>9, <2>10, <2>11, <2>12, <2>13, <2>14, <2>15,
        <2>16, <2>17, <2>18, <2>19, <2>20, <2>21, <2>22, <2>23, <2>24 DEF Transacts
<1>3. CASE WritesDirectly(u)
  <2>1. CASE \E k \in Keys, kind \in DirectWrites : Direct(u, kind, k)
    <3>1. changed'[u] = changed[u] /\ reads'[u] = reads[u] /\ touched'[u] = touched[u] /\ own'[u] = own[u]
      BY <2>1 DEF Direct, workVars, placeVars
    <3>2. pc[u] = "idle" /\ pc'[u] = "locking" /\ op'[u] # "scan"
      BY <2>1, LockedTo DEF Direct, Calling, DirectWrites, WholeWrites
    <3>3. QED
      BY <3>1, <3>2, <1>m
  <2>2. CASE DirectRefused(u)
    <3>1. changed'[u] = changed[u] /\ reads'[u] = reads[u] /\ touched'[u] = touched[u] /\ own'[u] = own[u]
      BY <2>2 DEF DirectRefused, Refuse, workVars, placeVars
    <3>2. pc[u] \notin {"resetting", "pruning"} /\ pc'[u] = "idle"
      BY <2>2, ReturnedTo DEF DirectRefused, Refuse, HoldsAll
    <3>3. QED
      BY <3>1, <3>2, <1>m
  <2>3. CASE DirectDraws(u)
    <3>1. changed'[u] = changed[u] /\ reads'[u] = reads[u] /\ touched'[u] = touched[u] /\ own'[u] = own[u]
      BY <2>3 DEF DirectDraws, workVars, placeVars
    <3>2. pc[u] = "locking" /\ pc'[u] = "landing"
      BY <2>3 DEF DirectDraws, Become, Draw, HoldsAll, CallsTyped
    <3>3. QED
      BY <3>1, <3>2, <1>m
  <2>4. CASE DirectLands(u)
    <3>1. changed'[u] = changed[u] /\ reads'[u] = reads[u] /\ touched'[u] = touched[u] /\ own'[u] = own[u]
      BY <2>4 DEF DirectLands, workVars, placeVars
    <3>2. pc[u] = "landing" /\ pc'[u] = "finishing"
      BY <2>4 DEF DirectLands, Become, Draw, HoldsAll, CallsTyped
    <3>3. QED
      BY <3>1, <3>2, <1>m
  <2>5. CASE DirectFinishes(u)
    <3>1. changed'[u] = changed[u] /\ reads'[u] = reads[u] /\ touched'[u] = touched[u] /\ own'[u] = own[u]
      BY <2>5 DEF DirectFinishes, Refuse, workVars, placeVars
    <3>2. pc[u] \notin {"resetting", "pruning"} /\ pc'[u] = "idle"
      BY <2>5, ReturnedTo DEF DirectFinishes, Refuse, HoldsAll
    <3>3. QED
      BY <3>1, <3>2, <1>m
  <2>6. QED
    BY <1>3, <2>1, <2>2, <2>3, <2>4, <2>5 DEF WritesDirectly
<1>4. CASE WalksAll(u)
  <2>1. CASE \E kind \in WholeWrites \cup {"walk"} : Whole(u, kind)
    <3>1. changed'[u] = changed[u] /\ reads'[u] = reads[u] /\ touched'[u] = touched[u] /\ own'[u] = own[u]
      BY <2>1 DEF Whole, workVars, placeVars
    <3>2. pc[u] = "idle" /\ pc'[u] = "locking" /\ op'[u] # "scan"
      BY <2>1, LockedTo DEF Whole, Calling, DirectWrites, WholeWrites
    <3>3. QED
      BY <3>1, <3>2, <1>m
  <2>2. CASE WalkEnds(u)
    <3>1. /\ pc[u] = "locking" /\ op[u] \in SharedWalks /\ changed'[u] = changed[u] /\ touched'[u] = touched[u]
          /\ own'[u] = own[u] /\ reads'[u] = (IF op[u] = "scan" /\ RecordsReads THEN Keys ELSE reads[u])
      BY <2>2 DEF WalkEnds, HoldsAll, WorkTyped, placeVars
    <3>2. pc'[u] = "idle"
      BY <2>2, ReturnedTo DEF WalkEnds
    <3>3. op[u] = "scan" /\ RecordsReads => touched[u] = Partitions
      BY <3>1 DEF MarkBooks
    <3>4. QED
      BY <3>1, <3>2, <3>3, <1>f, <1>b DEF MarkBooks, WroteIn, ReadIn
  <2>3. CASE EraseBegins(u)
    <3>1. changed'[u] = changed[u] /\ reads'[u] = reads[u] /\ touched'[u] = touched[u] /\ own'[u] = own[u]
      BY <2>3 DEF EraseBegins, workVars, placeVars
    <3>2. pc[u] = "locking" /\ pc'[u] = "erasing"
      BY <2>3 DEF EraseBegins, Become, Draw, HoldsAll, CallsTyped
    <3>3. QED
      BY <3>1, <3>2, <1>m
  <2>4. CASE ErasePart(u)
    <3>1. changed'[u] = changed[u] /\ reads'[u] = reads[u] /\ touched'[u] = touched[u] /\ own'[u] = own[u]
      BY <2>4 DEF ErasePart, workVars, placeVars
    <3>2. pc' = pc /\ pc[u] = "erasing" /\ pc'[u] = "erasing"
      BY <2>4 DEF ErasePart
    <3>3. QED
      BY <3>1, <3>2, <1>m
  <2>5. CASE EraseEnds(u)
    <3>1. changed'[u] = changed[u] /\ reads'[u] = reads[u] /\ touched'[u] = touched[u] /\ own'[u] = own[u]
      BY <2>5 DEF EraseEnds, Refuse, workVars, placeVars
    <3>2. pc[u] \notin {"resetting", "pruning"} /\ pc'[u] = "idle"
      BY <2>5, ReturnedTo DEF EraseEnds, Refuse, HoldsAll
    <3>3. QED
      BY <3>1, <3>2, <1>m
  <2>6. CASE PopSmallest(u)
    <3>1. changed'[u] = changed[u] /\ reads'[u] = reads[u] /\ touched'[u] = touched[u] /\ own'[u] = own[u]
      BY <2>6 DEF PopSmallest, Refuse, workVars, placeVars
    <3>2. pc[u] \notin {"resetting", "pruning"} /\ pc'[u] = "idle"
      BY <2>6, ReturnedTo DEF PopSmallest, Refuse, HoldsAll
    <3>3. QED
      BY <3>1, <3>2, <1>m
  <2>7. CASE \E kind \in {"vacuum", "clear"} : Sweep(u, kind)
    <3>1. changed'[u] = changed[u] /\ reads'[u] = reads[u] /\ touched'[u] = touched[u] /\ own'[u] = own[u]
      BY <2>7 DEF Sweep, workVars, placeVars
    <3>2. pc[u] = "idle" /\ pc'[u] \in {"idle", "vacuum", "clear"}
      BY <2>7, Moved DEF Sweep, Calling
    <3>3. QED
      BY <3>1, <3>2, <1>m
  <2>8. CASE VacuumPart(u)
    <3>1. changed'[u] = changed[u] /\ reads'[u] = reads[u] /\ touched'[u] = touched[u] /\ own'[u] = own[u]
      BY <2>8 DEF VacuumPart, workVars, placeVars
    <3>2. pc[u] = "vacuum" /\ pc'[u] \in {"idle", "vacuum"}
      BY <2>8, VisitMoved DEF VacuumPart, Visiting
    <3>3. QED
      BY <3>1, <3>2, <1>m
  <2>9. CASE ClearPart(u)
    <3>1. changed'[u] = changed[u] /\ reads'[u] = reads[u] /\ touched'[u] = touched[u] /\ own'[u] = own[u]
      BY <2>9 DEF ClearPart, workVars, placeVars
    <3>2. pc[u] = "clear" /\ pc'[u] \in {"idle", "clear"}
      BY <2>9, Moved DEF ClearPart, Visiting
    <3>3. QED
      BY <3>1, <3>2, <1>m
  <2>10. QED
    BY <1>4, <2>1, <2>2, <2>3, <2>4, <2>5, <2>6, <2>7, <2>8, <2>9 DEF WalksAll
<1>5. QED
  BY <1>1, <1>2, <1>3, <1>4 DEF OwnStep

\* Going on keeps the stamp.
LEMMA KeptStamp ==
    ASSUME CallsTyped, NEW u \in Threads, NEW onto, NEW rest, MoveOn(u, onto, rest), pc'[u] # "idle"
    PROVE  stamp'[u] = stamp[u]
BY ReturnedTo DEF MoveOn, Become

\* A lease taken stands at the watermark; one retired is gone.
LEMMA LeasedIs ==
    ASSUME NEW u
    PROVE  u \in DOMAIN Leased(u) /\ Leased(u)[u] = Watermark /\ u \notin DOMAIN Retired(u)
BY DEF Leased, Retired

\* A thread's own step keeps the account of where its transaction reads.
LEMMA PlaceBooksKept ==
    ASSUME Typed, NEW u \in Threads, OwnStep(u), Step(u), CallBooks(u), LandBooks(u), PlaceBooks(u)
    PROVE  PlaceBooks(u)'
<1>0. CallsTyped /\ WorkTyped /\ PlacesTyped /\ ClockTyped
  BY DEF Typed
<1>w. Watermark \in Nat /\ Watermark' \in Nat /\ Watermark <= Watermark'
  BY MarksRise
<1>n. snapshot[u] \in Nat /\ own[u] \in Nat /\ unsettled[u] \in Nat /\ stamp[u] \in Nat
  BY <1>0 DEF PlacesTyped, CallsTyped
<1>m. UNCHANGED placeVars /\ UNCHANGED open /\ (pc'[u] = "pruning" => pc[u] = "pruning" /\ stamp'[u] = stamp[u])
      => PlaceBooks(u)'
  BY <1>w, <1>n DEF PlaceBooks, placeVars
<1> USE <1>0
<1>1. CASE Acquire(u)
  <2>1. UNCHANGED placeVars /\ UNCHANGED open /\ pc'[u] = "locking"
    BY <1>1 DEF Acquire, placeVars
  <2>2. QED
    BY <2>1, <1>m
<1>2. CASE Transacts(u)
  <2>1. CASE Open(u)
    <3>1. /\ snapshot'[u] = Watermark /\ unsettled'[u] = unsettled[u] /\ own'[u] = own[u] /\ open' = Leased(u)
          /\ u \notin DOMAIN open
      BY <2>1 DEF Open, PlacesTyped, IsOpen
    <3>2. pc'[u] \in {"idle", "opening"}
      BY <2>1, Moved DEF Open
    <3>3. u \in DOMAIN open' /\ open'[u] = Watermark
      BY <3>1, LeasedIs
    <3>4. own[u] = 0
      BY <3>1 DEF PlaceBooks
    <3>5. QED
      BY <3>1, <3>2, <3>3, <3>4, <1>w DEF PlaceBooks
  <2>2. CASE OpenPart(u)
    <3>1. UNCHANGED placeVars /\ UNCHANGED open
      BY <2>2 DEF OpenPart, placeVars, Refuse
    <3>2. pc'[u] \in {"idle", "opening"}
      BY <2>2, VisitMoved DEF OpenPart, Visiting
    <3>3. QED
      BY <3>1, <3>2, <1>m
  <2>3. CASE Settle(u)
    <3>1. /\ snapshot'[u] = Watermark /\ unsettled'[u] = 0 /\ own'[u] = own[u] /\ open' = Leased(u)
          /\ unsettled[u] <= Watermark /\ pc[u] = "idle"
      BY <2>3 DEF Settle, PlacesTyped, MayMove
    <3>2. pc'[u] = "idle"
      BY <2>3 DEF Settle, callVars
    <3>3. u \in DOMAIN open' /\ open'[u] = Watermark
      BY <3>1, LeasedIs
    <3>4. own[u] <= Watermark
      BY <3>1, <1>n, <1>w DEF PlaceBooks
    <3>5. QED
      BY <3>1, <3>2, <3>3, <3>4, <1>w DEF PlaceBooks
  <2>4. CASE Stage(u)
    <3>1. UNCHANGED placeVars /\ UNCHANGED open
      BY <2>4 DEF Stage, placeVars, Refuse
    <3>2. pc'[u] \in {"idle", "staging"}
      BY <2>4, Moved DEF Stage
    <3>3. QED
      BY <3>1, <3>2, <1>m
  <2>5. CASE StagePart(u)
    <3>1. UNCHANGED placeVars /\ UNCHANGED open
      BY <2>5 DEF StagePart, placeVars, Refuse
    <3>2. pc'[u] \in {"idle", "staging", "undoing"}
      BY <2>5, Moved DEF StagePart
    <3>3. QED
      BY <3>1, <3>2, <1>m
  <2>6. CASE UndoPart(u)
    <3>1. UNCHANGED placeVars /\ UNCHANGED open
      BY <2>6 DEF UndoPart, placeVars, Refuse
    <3>2. pc'[u] \in {"idle", "undoing"}
      BY <2>6, VisitMoved DEF UndoPart, Visiting
    <3>3. QED
      BY <3>1, <3>2, <1>m
  <2>7. CASE Rollback(u)
    <3>1. UNCHANGED placeVars /\ UNCHANGED open
      BY <2>7 DEF Rollback, placeVars, Refuse
    <3>2. pc'[u] \in {"idle", "rolling"}
      BY <2>7, Moved DEF Rollback
    <3>3. QED
      BY <3>1, <3>2, <1>m
  <2>8. CASE RollbackPart(u)
    <3>1. UNCHANGED placeVars /\ UNCHANGED open
      BY <2>8 DEF RollbackPart, placeVars
    <3>2. pc[u] = "rolling" /\ (Returns(u) \/ pc' = pc)
      BY <2>8 DEF RollbackPart, Visiting
    <3>3. pc'[u] \in {"idle", "rolling"}
      BY <3>2, ReturnedTo
    <3>4. QED
      BY <3>1, <3>3, <1>m
  <2>9. CASE Reset(u)
    <3>1. /\ snapshot'[u] = Watermark /\ unsettled'[u] = unsettled[u] /\ own'[u] = 0 /\ open' = Leased(u)
      BY <2>9 DEF Reset, PlacesTyped
    <3>2. pc'[u] \in {"idle", "resetting"}
      BY <2>9, Moved DEF Reset
    <3>3. u \in DOMAIN open' /\ open'[u] = Watermark
      BY <3>1, LeasedIs
    <3>4. QED
      BY <3>1, <3>2, <3>3, <1>w DEF PlaceBooks
  <2>10. CASE ResetPart(u)
    <3>1. UNCHANGED placeVars /\ UNCHANGED open
      BY <2>10 DEF ResetPart, placeVars, Refuse
    <3>2. pc'[u] \in {"idle", "resetting"}
      BY <2>10, VisitMoved DEF ResetPart, Visiting
    <3>3. QED
      BY <3>1, <3>2, <1>m
  <2>11. CASE Drop(u)
    <3>1. snapshot'[u] = 0 /\ unsettled'[u] = 0 /\ own'[u] = 0 /\ open' = Retired(u)
      BY <2>11 DEF Drop, PlacesTyped
    <3>2. pc'[u] \in {"idle", "dropping"}
      BY <2>11, Moved DEF Drop
    <3>3. u \notin DOMAIN open'
      BY <3>1, LeasedIs
    <3>4. QED
      BY <3>1, <3>2, <3>3, <1>w DEF PlaceBooks
  <2>12. CASE DropPart(u)
    <3>1. UNCHANGED placeVars /\ UNCHANGED open
      BY <2>12 DEF DropPart, placeVars, Refuse
    <3>2. pc'[u] \in {"idle", "dropping"}
      BY <2>12, Moved DEF DropPart
    <3>3. QED
      BY <3>1, <3>2, <1>m
  <2>13. CASE Commit(u)
    <3>1. UNCHANGED placeVars /\ UNCHANGED open
      BY <2>13 DEF Commit, placeVars, Refuse
    <3>2. pc'[u] = "locking"
      BY <2>13, LockedTo DEF Commit
    <3>3. QED
      BY <3>1, <3>2, <1>m
  <2>14. CASE CommitRefused(u)
    <3>1. UNCHANGED placeVars /\ UNCHANGED open
      BY <2>14 DEF CommitRefused, placeVars, Refuse
    <3>2. pc'[u] = "idle"
      BY <2>14, ReturnedTo DEF CommitRefused, Refuse
    <3>3. QED
      BY <3>1, <3>2, <1>m
  <2>15. CASE CommitDraws(u)
    <3>1. UNCHANGED placeVars /\ UNCHANGED open
      BY <2>15 DEF CommitDraws, placeVars, Refuse
    <3>2. pc'[u] = "landing"
      BY <2>15 DEF CommitDraws, Become, Draw, CallsTyped
    <3>3. QED
      BY <3>1, <3>2, <1>m
  <2>16. CASE CommitLands(u)
    <3>1. UNCHANGED placeVars /\ UNCHANGED open
      BY <2>16 DEF CommitLands, placeVars, Refuse
    <3>2. pc'[u] = "landed"
      BY <2>16 DEF CommitLands, Become, Draw, CallsTyped
    <3>3. QED
      BY <3>1, <3>2, <1>m
  <2>17. CASE CommitMovesLease(u)
    <3>1. /\ snapshot'[u] = snapshot[u] /\ unsettled'[u] = stamp[u] /\ own'[u] = stamp[u] /\ open' = Leased(u)
          /\ pc[u] = "landed" /\ Awaited(stamp[u])
      BY <2>17 DEF CommitMovesLease, PlacesTyped
    <3>2. pc'[u] \in {"idle", "pruning"} /\ (pc'[u] = "pruning" => stamp'[u] = stamp[u])
      BY <2>17, Moved, KeptStamp DEF CommitMovesLease
    <3>3. u \in DOMAIN open' /\ stamp[u] # 0
      BY <3>1, LeasedIs DEF LandBooks, ClockTyped
    <3>4. QED
      BY <3>1, <3>2, <3>3, <1>n, <1>w DEF PlaceBooks, Awaited
  <2>18. CASE CommitPrunes(u)
    <3>1. UNCHANGED placeVars /\ UNCHANGED open
      BY <2>18 DEF CommitPrunes, placeVars
    <3>2. pc[u] = "pruning" /\ pc'[u] \in {"idle", "pruning"} /\ (pc'[u] = "pruning" => stamp'[u] = stamp[u])
      BY <2>18, VisitMoved, KeptStamp DEF CommitPrunes, Visiting, Visited
    <3>3. QED
      BY <3>1, <3>2, <1>m
  <2>19. CASE Scan(u)
    <3>1. UNCHANGED placeVars /\ UNCHANGED open
      BY <2>19 DEF Scan, placeVars, Refuse
    <3>2. pc'[u] = "locking"
      BY <2>19, LockedTo DEF Scan
    <3>3. QED
      BY <3>1, <3>2, <1>m
  <2>20. CASE UnwriteAll(u)
    <3>1. UNCHANGED placeVars /\ UNCHANGED open
      BY <2>20 DEF UnwriteAll, placeVars, Refuse
    <3>2. pc'[u] \in {"idle", "unwriting"}
      BY <2>20, Moved DEF UnwriteAll
    <3>3. QED
      BY <3>1, <3>2, <1>m
  <2>21. CASE UnwritePart(u)
    <3>1. UNCHANGED placeVars /\ UNCHANGED open
      BY <2>21 DEF UnwritePart, placeVars, Refuse
    <3>2. pc'[u] \in {"idle", "unwriting"}
      BY <2>21, VisitMoved DEF UnwritePart, Visiting
    <3>3. QED
      BY <3>1, <3>2, <1>m
  <2>22. CASE \E k \in Keys : Read(u, k)
    <3>1. UNCHANGED placeVars /\ UNCHANGED open
      BY <2>22 DEF Read, placeVars, Refuse
    <3>2. pc'[u] = "idle"
      BY <2>22 DEF Read, Writing, Calling, callVars
    <3>3. QED
      BY <3>1, <3>2, <1>m
  <2>23. CASE \E k \in Keys : Write(u, k)
    <3>1. UNCHANGED placeVars /\ UNCHANGED open
      BY <2>23 DEF Write, placeVars, Refuse
    <3>2. pc'[u] = "idle"
      BY <2>23 DEF Write, Writing, Calling, callVars
    <3>3. QED
      BY <3>1, <3>2, <1>m
  <2>24. CASE \E k \in Keys, kind \in {"add", "revise", "unwrite"} : WriteChecked(u, k, kind)
    <3>1. UNCHANGED placeVars /\ UNCHANGED open
      BY <2>24 DEF WriteChecked, placeVars, Refuse
    <3>2. pc'[u] = "idle"
      BY <2>24 DEF WriteChecked, Writing, Calling, callVars
    <3>3. QED
      BY <3>1, <3>2, <1>m
  <2>25. QED
    BY <1>2, <2>1, <2>2, <2>3, <2>4, <2>5, <2>6, <2>7, <2>8, <2>9, <2>10, <2>11, <2>12, <2>13, <2>14, <2>15,
        <2>16, <2>17, <2>18, <2>19, <2>20, <2>21, <2>22, <2>23, <2>24 DEF Transacts
<1>3. CASE WritesDirectly(u)
  <2>1. CASE \E k \in Keys, kind \in DirectWrites : Direct(u, kind, k)
    <3>1. UNCHANGED placeVars /\ UNCHANGED open
      BY <2>1 DEF Direct, placeVars, Refuse
    <3>2. pc'[u] = "locking"
      BY <2>1, LockedTo DEF Direct
    <3>3. QED
      BY <3>1, <3>2, <1>m
  <2>2. CASE DirectRefused(u)
    <3>1. UNCHANGED placeVars /\ UNCHANGED open
      BY <2>2 DEF DirectRefused, placeVars, Refuse
    <3>2. pc'[u] = "idle"
      BY <2>2, ReturnedTo DEF DirectRefused, Refuse
    <3>3. QED
      BY <3>1, <3>2, <1>m
  <2>3. CASE DirectDraws(u)
    <3>1. UNCHANGED placeVars /\ UNCHANGED open
      BY <2>3 DEF DirectDraws, placeVars, Refuse
    <3>2. pc'[u] = "landing"
      BY <2>3 DEF DirectDraws, Become, Draw, CallsTyped
    <3>3. QED
      BY <3>1, <3>2, <1>m
  <2>4. CASE DirectLands(u)
    <3>1. UNCHANGED placeVars /\ UNCHANGED open
      BY <2>4 DEF DirectLands, placeVars, Refuse
    <3>2. pc'[u] = "finishing"
      BY <2>4 DEF DirectLands, Become, Draw, CallsTyped
    <3>3. QED
      BY <3>1, <3>2, <1>m
  <2>5. CASE DirectFinishes(u)
    <3>1. UNCHANGED placeVars /\ UNCHANGED open
      BY <2>5 DEF DirectFinishes, placeVars, Refuse
    <3>2. pc'[u] = "idle"
      BY <2>5, ReturnedTo DEF DirectFinishes, Refuse
    <3>3. QED
      BY <3>1, <3>2, <1>m
  <2>6. QED
    BY <1>3, <2>1, <2>2, <2>3, <2>4, <2>5 DEF WritesDirectly
<1>4. CASE WalksAll(u)
  <2>1. CASE \E kind \in WholeWrites \cup {"walk"} : Whole(u, kind)
    <3>1. UNCHANGED placeVars /\ UNCHANGED open
      BY <2>1 DEF Whole, placeVars, Refuse
    <3>2. pc'[u] = "locking"
      BY <2>1, LockedTo DEF Whole
    <3>3. QED
      BY <3>1, <3>2, <1>m
  <2>2. CASE WalkEnds(u)
    <3>1. UNCHANGED placeVars /\ UNCHANGED open
      BY <2>2 DEF WalkEnds, placeVars, Refuse
    <3>2. pc'[u] = "idle"
      BY <2>2, ReturnedTo DEF WalkEnds, Refuse
    <3>3. QED
      BY <3>1, <3>2, <1>m
  <2>3. CASE EraseBegins(u)
    <3>1. UNCHANGED placeVars /\ UNCHANGED open
      BY <2>3 DEF EraseBegins, placeVars, Refuse
    <3>2. pc'[u] = "erasing"
      BY <2>3 DEF EraseBegins, Become, Draw, CallsTyped
    <3>3. QED
      BY <3>1, <3>2, <1>m
  <2>4. CASE ErasePart(u)
    <3>1. UNCHANGED placeVars /\ UNCHANGED open
      BY <2>4 DEF ErasePart, placeVars, Refuse
    <3>2. pc' = pc /\ pc[u] = "erasing"
      BY <2>4 DEF ErasePart
    <3>3. QED
      BY <3>1, <3>2, <1>m
  <2>5. CASE EraseEnds(u)
    <3>1. UNCHANGED placeVars /\ UNCHANGED open
      BY <2>5 DEF EraseEnds, placeVars, Refuse
    <3>2. pc'[u] = "idle"
      BY <2>5, ReturnedTo DEF EraseEnds, Refuse
    <3>3. QED
      BY <3>1, <3>2, <1>m
  <2>6. CASE PopSmallest(u)
    <3>1. UNCHANGED placeVars /\ UNCHANGED open
      BY <2>6 DEF PopSmallest, placeVars, Refuse
    <3>2. pc'[u] = "idle"
      BY <2>6, ReturnedTo DEF PopSmallest, Refuse
    <3>3. QED
      BY <3>1, <3>2, <1>m
  <2>7. CASE \E kind \in {"vacuum", "clear"} : Sweep(u, kind)
    <3>1. UNCHANGED placeVars /\ UNCHANGED open
      BY <2>7 DEF Sweep, placeVars, Refuse
    <3>2. pc'[u] \in {"idle", "vacuum", "clear"}
      BY <2>7, Moved DEF Sweep
    <3>3. QED
      BY <3>1, <3>2, <1>m
  <2>8. CASE VacuumPart(u)
    <3>1. UNCHANGED placeVars /\ UNCHANGED open
      BY <2>8 DEF VacuumPart, placeVars, Refuse
    <3>2. pc'[u] \in {"idle", "vacuum"}
      BY <2>8, VisitMoved DEF VacuumPart, Visiting
    <3>3. QED
      BY <3>1, <3>2, <1>m
  <2>9. CASE ClearPart(u)
    <3>1. UNCHANGED placeVars /\ UNCHANGED open
      BY <2>9 DEF ClearPart, placeVars, Refuse
    <3>2. pc'[u] \in {"idle", "clear"}
      BY <2>9, Moved DEF ClearPart
    <3>3. QED
      BY <3>1, <3>2, <1>m
  <2>10. QED
    BY <1>4, <2>1, <2>2, <2>3, <2>4, <2>5, <2>6, <2>7, <2>8, <2>9 DEF WalksAll
<1>5. QED
  BY <1>1, <1>2, <1>3, <1>4 DEF OwnStep

\* A thread's step keeps the accounts of the other transactions.
LEMMA OthersStandStill ==
    ASSUME Typed, NEW u \in Threads, NEW t \in Threads, t # u, OwnStep(u), Step(u), LandBooks(u),
           MarkBooks(t), PlaceBooks(t)
    PROVE  MarkBooks(t)' /\ PlaceBooks(t)'
<1>1. SameCall(t) /\ SameWork(t) /\ SamePlace(t)
  BY OthersWait DEF Same
<1>2. Watermark \in Nat /\ Watermark' \in Nat /\ Watermark <= Watermark'
  BY MarksRise
<1>3. snapshot[t] \in Nat /\ stamp[t] \in Nat
  BY DEF Typed, PlacesTyped, CallsTyped
<1>4. MarkBooks(t)'
  BY <1>1 DEF MarkBooks, WroteIn, ReadIn, SameCall, SameWork, SamePlace
<1>5. PlaceBooks(t)'
  BY <1>1, <1>2, <1>3 DEF PlaceBooks, SameCall, SamePlace
<1>6. QED
  BY <1>4, <1>5


----------------------------------------------------------------------------
(* Where every transaction stands, in every state.                         *)

Stands == \A t \in Threads : MarkBooks(t) /\ PlaceBooks(t)

\* At the strict level what was returned is published.
Published == AwaitsPublication => \A s \in returned : s \in Nat /\ s <= Watermark

\* At first no transaction stands anywhere and nothing was returned.
LEMMA InitStands == Init => Stands /\ Published
BY PartitionedAssumption DEF Init, Stands, MarkBooks, PlaceBooks, Published, Watermark

\* Every step keeps the accounts of all transactions.
LEMMA StepStands ==
    ASSUME Base, Stands, NEW u \in Threads, OwnStep(u)
    PROVE  Stands'
<1>1. Step(u)
  BY StepBase
<1>2. MarkBooks(u)' /\ PlaceBooks(u)'
  BY <1>1, MarkBooksKept, PlaceBooksKept DEF Base, Books, Stands
<1>3. ASSUME NEW t \in Threads, t # u PROVE MarkBooks(t)' /\ PlaceBooks(t)'
  BY <1>1, <1>3, OthersStandStill DEF Base, Books, Stands
<1>4. QED
  BY <1>2, <1>3 DEF Stands

\* At the strict level a call returns a stamp only once it is published.
LEMMA ReturnedGrows ==
    ASSUME Base, Stands, NEW u \in Threads, OwnStep(u), AwaitsPublication
    PROVE  returned' = returned \/ (returned' = returned \cup {stamp[u]} /\ stamp[u] <= Watermark)
<1>0. PlaceBooks(u)
  BY DEF Stands
<1>1. CASE Acquire(u)
  BY <1>1 DEF Acquire, Refuse
<1>2. CASE Transacts(u)
  <2>1. CASE CommitMovesLease(u)
    BY <2>1 DEF CommitMovesLease, Awaited
  <2>2. CASE CommitPrunes(u)
    BY <1>0, <2>2 DEF CommitPrunes, Visiting, PlaceBooks
  <2>3. CASE returned' = returned
    BY <2>3
  <2>4. QED
    BY <1>2, <2>1, <2>2, <2>3 DEF Transacts, Open, OpenPart, Settle, Stage, StagePart, UndoPart, Rollback,
        RollbackPart, Reset, ResetPart, Drop, DropPart, Commit, CommitRefused, CommitDraws, CommitLands, Scan,
        UnwriteAll, UnwritePart, Read, Write, WriteChecked, Refuse
<1>3. CASE WritesDirectly(u)
  BY <1>3 DEF WritesDirectly, Direct, DirectRefused, DirectDraws, DirectLands, DirectFinishes, Refuse,
      PublishedFor
<1>4. CASE WalksAll(u)
  BY <1>4 DEF WalksAll, Whole, WalkEnds, EraseBegins, ErasePart, EraseEnds, PopSmallest, Sweep, VacuumPart,
      ClearPart, Refuse
<1>5. QED
  BY <1>1, <1>2, <1>3, <1>4 DEF OwnStep

\* Stuttering keeps the accounts.
LEMMA IdleStands ==
    ASSUME UNCHANGED vars
    PROVE  (Stands => Stands') /\ (Published => Published')
<1>1. /\ drawn' = drawn /\ writing' = writing /\ open' = open
      /\ pc' = pc /\ op' = op /\ todo' = todo /\ stamp' = stamp
      /\ changed' = changed /\ reads' = reads /\ snapshot' = snapshot /\ unsettled' = unsettled /\ own' = own
      /\ touched' = touched /\ returned' = returned
  BY DEF vars, dataVars, lockVars, callVars, workVars, placeVars
<1>2. Watermark' = Watermark
  BY <1>1 DEF Watermark
<1>3. QED
  BY <1>1, <1>2 DEF Stands, Published, MarkBooks, PlaceBooks, WroteIn, ReadIn

\* The accounts of transactions are inductive over the base invariant.
LEMMA NextStands == Base /\ Stands /\ [Next]_vars => Stands'
BY StepStands, IdleStands DEF Next, OwnStep

\* So is that whatever was returned is published.
LEMMA NextPublished == Base /\ Stands /\ Published /\ [Next]_vars => Published'
<1> SUFFICES ASSUME Base, Stands, Published, [Next]_vars, AwaitsPublication
             PROVE  \A s \in returned' : s \in Nat /\ s <= Watermark'
  BY DEF Published, AwaitsPublication
<1>1. CASE UNCHANGED vars
  BY <1>1, IdleStands DEF Published
<1>2. ASSUME NEW u \in Threads, OwnStep(u) PROVE \A s \in returned' : s \in Nat /\ s <= Watermark'
  <2>1. Watermark \in Nat /\ Watermark' \in Nat /\ Watermark <= Watermark'
    BY <1>2, StepBase, MarksRise DEF Base, Books
  <2>2. returned' = returned \/ (returned' = returned \cup {stamp[u]} /\ stamp[u] <= Watermark)
    BY <1>2, ReturnedGrows
  <2>3. stamp[u] \in Nat
    BY DEF Base, Typed, CallsTyped
  <2>4. QED
    BY <2>1, <2>2, <2>3 DEF Published
<1>3. QED
  BY <1>1, <1>2 DEF Next, OwnStep

\* Both hold in every reachable state.
LEMMA AlwaysStands == Spec => [](Base /\ Stands)
<1>1. Init => Base /\ Stands
  BY InitBase, InitStands
<1>2. Base /\ Stands /\ [Next]_vars => (Base /\ Stands)'
  BY StepBase, IdleBase, NextStands DEF Next, OwnStep
<1>3. QED
  BY <1>1, <1>2, PTL DEF Spec

\* A transaction that committed is not given a snapshot before its own commit is
\* published, so what it reads next contains what it wrote (settle_snapshot_).
THEOREM OwnCommitIsRead == Spec => []OwnCommitRead
<1>1. Base /\ Stands => OwnCommitRead
  <2> SUFFICES ASSUME Base, Stands, NEW t \in Threads, Settled(t) PROVE own[t] <= snapshot[t]
    BY DEF OwnCommitRead
  <2>1. snapshot[t] \in Nat /\ unsettled[t] = 0 /\ (own[t] <= snapshot[t] \/ own[t] = unsettled[t])
    BY DEF Base, Typed, PlacesTyped, Settled, Stands, PlaceBooks
  <2>2. QED
    BY <2>1
<1>2. QED
  BY <1>1, AlwaysStands, PTL

\* At the strict level, whoever takes a snapshot after a write returned is given one
\* that names it (await_published).
THEOREM StrictWritesAreVisible == AwaitsPublication => (Spec => []ReturnedIsVisible)
<1> SUFFICES ASSUME AwaitsPublication PROVE Spec => []ReturnedIsVisible
  OBVIOUS
<1>1. Published => ReturnedIsVisible
  BY DEF Published, ReturnedIsVisible
<1>2. Init => Published
  BY InitStands
<1>3. QED
  BY <1>1, <1>2, NextPublished, AlwaysStands, PTL DEF Spec

----------------------------------------------------------------------------
(* What a set of versions reads as.                                        *)

Versions == [stamp : Nat, here : BOOLEAN]

\* Of the versions at or below a stamp there is a newest.
LEMMA SomeVisible ==
    ASSUME NEW vs \in SUBSET Versions, NEW at \in Nat, NEW v \in vs, v.stamp <= at
    PROVE  \E w \in VisibleAt(vs, at) : v.stamp <= w.stamp
<1> DEFINE below == {x \in vs : x.stamp <= at}
           stamps == {x.stamp : x \in below}
<1>1. stamps \in SUBSET (0..at) /\ v.stamp \in stamps
  BY DEF Versions
<1>2. Max(stamps) \in stamps /\ \A n \in stamps : n <= Max(stamps)
  BY <1>1, GreatestNatural
<1>3. PICK w \in below : w.stamp = Max(stamps)
  BY <1>2
<1>4. \A x \in below : x.stamp <= w.stamp
  BY <1>2, <1>3
<1>5. QED
  BY <1>1, <1>2, <1>3, <1>4 DEF VisibleAt, Newest

\* What is visible of a key is its newest version at or below the stamp.
LEMMA VisibleIs ==
    ASSUME NEW vs, NEW at, NEW v
    PROVE  v \in VisibleAt(vs, at) <=> /\ v \in vs /\ v.stamp <= at
                                       /\ \A w \in vs : w.stamp <= at => w.stamp <= v.stamp
BY DEF VisibleAt, Newest

\* A key reads as the one visible version, if an element is there.
LEMMA ReadIs ==
    ASSUME NEW vs \in SUBSET Versions, NEW at \in Nat, NEW v \in VisibleAt(vs, at)
    PROVE  /\ (\E w \in VisibleAt(vs, at) : w.here) => ReadAt(vs, at) = v.stamp
           /\ \A w \in VisibleAt(vs, at) : w.stamp = v.stamp
<1>1. \A w \in VisibleAt(vs, at) : w.stamp = v.stamp
  BY VisibleIs DEF Versions
<1>2. (CHOOSE w \in VisibleAt(vs, at) : TRUE) \in VisibleAt(vs, at)
  OBVIOUS
<1>3. QED
  BY <1>1, <1>2 DEF ReadAt

\* A newer version changes nothing at a stamp below it.
LEMMA ReadBelow ==
    ASSUME NEW vs, NEW at, NEW x, ~(x.stamp <= at)
    PROVE  ReadAt(vs \cup {x}, at) = ReadAt(vs, at)
<1>1. {w \in vs \cup {x} : w.stamp <= at} = {w \in vs : w.stamp <= at}
  OBVIOUS
<1>2. VisibleAt(vs \cup {x}, at) = VisibleAt(vs, at)
  BY <1>1, Zenon DEF VisibleAt
<1> DEFINE ws == vs \cup {x}
<1>3. VisibleAt(ws, at) = VisibleAt(vs, at)
  BY <1>2
<1> HIDE DEF ws
<1>4. ReadAt(ws, at) = ReadAt(vs, at)
  BY <1>3 DEF ReadAt
<1>5. QED
  BY <1>4 DEF ws

\* Pruning leaves some of the versions.
LEMMA PrunedTyped ==
    ASSUME NEW vs \in SUBSET Versions, NEW mark
    PROVE  Pruned(vs, mark) \in SUBSET Versions /\ Pruned(vs, mark) \subseteq vs
BY DEF Pruned

\* Pruning at a mark changes nothing at the mark or above it.
LEMMA ReadPruned ==
    ASSUME NEW vs \in SUBSET Versions, NEW mark \in Nat, NEW at \in Nat, mark <= at
    PROVE  ReadAt(Pruned(vs, mark), at) = ReadAt(vs, at)
<1> DEFINE ps == Pruned(vs, mark)
<1>0. ps \in SUBSET Versions /\ ps \subseteq vs
  BY PrunedTyped
<1>t. \A x \in vs : x.stamp \in Nat
  BY DEF Versions
<1>p. \A x : x \in ps <=> x \in vs /\ (x.stamp > mark \/ (x \in VisibleAt(vs, mark) /\ x.here))
  BY DEF Pruned
<1> HIDE DEF ps
<1>1. CASE VisibleAt(vs, at) = {}
  <2>1. \A v \in vs : ~(v.stamp <= at)
    BY <1>1, SomeVisible
  <2>2. VisibleAt(ps, at) = {}
    BY <2>1, <1>0, VisibleIs
  <2>3. ReadAt(vs, at) = 0 /\ ReadAt(ps, at) = 0
    BY <1>1, <2>2 DEF ReadAt
  <2>4. QED
    BY <2>3 DEF ps
<1>2. ASSUME NEW x \in VisibleAt(vs, at) PROVE ReadAt(ps, at) = ReadAt(vs, at)
  <2>0. x \in vs /\ x.stamp <= at /\ \A w \in vs : w.stamp <= at => w.stamp <= x.stamp
    BY VisibleIs
  <2>1. CASE x.stamp > mark
    <3>1. x \in ps
      BY <2>0, <2>1, <1>p
    <3>2. ASSUME NEW y PROVE y \in VisibleAt(ps, at) <=> y \in VisibleAt(vs, at)
      <4>1. y \in VisibleAt(ps, at) <=> /\ y \in ps /\ y.stamp <= at
                                        /\ \A w \in ps : w.stamp <= at => w.stamp <= y.stamp
        BY VisibleIs
      <4>2. y \in VisibleAt(vs, at) <=> /\ y \in vs /\ y.stamp <= at
                                        /\ \A w \in vs : w.stamp <= at => w.stamp <= y.stamp
        BY VisibleIs
      <4>3. ASSUME y \in VisibleAt(ps, at) PROVE y \in VisibleAt(vs, at)
        <5>1. x.stamp <= y.stamp /\ y \in vs /\ y.stamp <= at
          BY <4>1, <4>3, <3>1, <2>0, <1>0
        <5>2. \A w \in vs : w.stamp <= at => w.stamp <= y.stamp
          BY <5>1, <2>0, <1>t
        <5>3. QED
          BY <5>1, <5>2, <4>2
      <4>4. ASSUME y \in VisibleAt(vs, at) PROVE y \in VisibleAt(ps, at)
        <5>1. y \in vs /\ y.stamp <= at /\ x.stamp <= y.stamp
          BY <4>2, <4>4, <2>0
        <5>2. y.stamp > mark
          BY <5>1, <2>0, <2>1, <1>t
        <5>3. y \in ps
          BY <5>1, <5>2, <1>p
        <5>4. QED
          BY <4>1, <4>2, <4>4, <5>1, <5>3, <1>0
      <4>5. QED
        BY <4>3, <4>4
    <3>3. VisibleAt(ps, at) = VisibleAt(vs, at)
      BY <3>2
    <3>4. QED
      BY <3>3 DEF ReadAt
  <2>2. CASE ~(x.stamp > mark)
    <3>1. x.stamp <= mark
      BY <2>0, <2>2, <1>t
    <3>2. ASSUME NEW y \in vs, y.stamp <= at PROVE y.stamp <= mark
      BY <2>0, <3>1, <3>2, <1>t
    <3>3. ASSUME NEW y \in vs, y.stamp <= mark PROVE y.stamp <= at
      BY <3>3, <1>t
    <3>4. VisibleAt(vs, mark) = VisibleAt(vs, at)
      <4>1. {y \in vs : y.stamp <= mark} = {y \in vs : y.stamp <= at}
        BY <3>2, <3>3
      <4>2. QED
        BY <4>1, Zenon DEF VisibleAt
    <3>5. ASSUME NEW y \in ps, y.stamp <= at PROVE y \in VisibleAt(vs, at) /\ y.here
      BY <3>2, <3>4, <3>5, <1>p, <1>t
    <3>6. ASSUME NEW y \in VisibleAt(vs, at), y.here PROVE y \in VisibleAt(ps, at)
      <4>1. y \in vs /\ y.stamp <= at /\ \A w \in vs : w.stamp <= at => w.stamp <= y.stamp
        BY VisibleIs
      <4>2. y \in ps
        BY <3>4, <3>6, <4>1, <1>p
      <4>3. QED
        BY <4>1, <4>2, <1>0, VisibleIs
    <3>7. ASSUME NEW y \in VisibleAt(ps, at) PROVE y \in VisibleAt(vs, at) /\ y.here
      BY <3>5, VisibleIs
    <3>8. CASE \E y \in VisibleAt(vs, at) : y.here
      <4>1. PICK y \in VisibleAt(vs, at) : y.here
        BY <3>8
      <4>2. y \in VisibleAt(ps, at)
        BY <3>6, <4>1
      <4>3. ReadAt(vs, at) = y.stamp
        BY <4>1, ReadIs
      <4>4. ReadAt(ps, at) = y.stamp
        BY <4>1, <4>2, <1>0, ReadIs
      <4>5. QED
        BY <4>3, <4>4
    <3>9. CASE \A y \in VisibleAt(vs, at) : ~y.here
      BY <3>7, <3>9 DEF ReadAt
    <3>10. QED
      BY <3>8, <3>9
  <2>3. QED
    BY <2>1, <2>2
<1>3. QED
  BY <1>1, <1>2 DEF ps

----------------------------------------------------------------------------
(* The versions held are the ones the history names.                       *)

\* The stamps that landed on a key, and the version each made.
Wrote(k) == {e \in 1..drawn : e \notin writing /\ k \in DOMAIN log[e].writes}
VersionOf(k, e) == [stamp |-> e, here |-> log[e].writes[k]]

Faithful ==
    /\ versions \in [Keys -> SUBSET Versions]
    /\ \A k \in Keys : \A v \in versions[k] : \E e \in Wrote(k) : v = VersionOf(k, e)

\* What a stamp wrote it goes on having written.
LEMMA WroteStays ==
    ASSUME Typed, NEW u \in Threads, LandBooks(u), Step(u), NEW k \in Keys, NEW e \in Wrote(k)
    PROVE  e \in Wrote(k)' /\ VersionOf(k, e)' = VersionOf(k, e)
<1>1. /\ drawn <= drawn' /\ drawn \in Nat /\ drawn' \in Nat
      /\ \A s \in writing' : s \in writing \/ s > drawn
      /\ \A s \in 1..drawn : log'[s] = log[s]
  BY ClockStep DEF Typed, ClockTyped
<1>2. e \in 1..drawn /\ e \notin writing /\ k \in DOMAIN log[e].writes
  BY DEF Wrote
<1>3. log'[e] = log[e]
  BY <1>1, <1>2
<1>4. e \in 1..drawn' /\ e \notin writing'
  BY <1>1, <1>2
<1>5. QED
  BY <1>2, <1>3, <1>4 DEF Wrote, VersionOf

\* What a stamp made of a key is a version.
LEMMA VersionTyped ==
    ASSUME Typed, NEW k \in Keys, NEW e \in 1..drawn, k \in DOMAIN log[e].writes
    PROVE  VersionOf(k, e) \in Versions
<1>1. log[e] \in Entries
  BY DEF Typed, ClockTyped
<1>2. log[e].writes \in Partial(BOOLEAN)
  BY <1>1 DEF Entries
<1>3. log[e].writes[k] \in BOOLEAN
  BY <1>2, PartialHas
<1>4. e \in Nat
  BY DEF Typed, ClockTyped
<1>5. QED
  BY <1>3, <1>4 DEF VersionOf, Versions

\* What a landing and an erasure write.
LEMMA LandedIs ==
    ASSUME Typed, Faithful, NEW u \in Threads, LandBooks(u), Lands(u), NEW k \in Keys
    PROVE  /\ stamp[u] \in writing /\ stamp[u] \in 1..drawn
           /\ k \notin DOMAIN log[stamp[u]].writes => versions'[k] = versions[k]
           /\ k \in DOMAIN log[stamp[u]].writes => versions'[k] = versions[k] \cup {VersionOf(k, stamp[u])}
BY DEF Lands, LandBooks, Typed, ClockTyped, Written, VersionOf

\* What an erasure leaves of a key.
LEMMA ErasedIs ==
    ASSUME Typed, Faithful, NEW u, NEW ks \in SUBSET Keys, NEW first \in Nat, EraseTogether(u, ks, first),
           NEW k \in Keys
    PROVE  /\ drawn' = drawn + 1 /\ log'[drawn + 1].writes = AllErased(ks)
           /\ k \notin ks => versions'[k] = versions[k]
           /\ k \in ks => versions'[k] = Pruned(versions[k] \cup {[stamp |-> drawn + 1, here |-> FALSE]}, LowWaterMark)
<1>1. drawn' = drawn + 1 /\ log' = Append(log, Entry(AllErased(ks), {}, drawn, first))
  BY DEF EraseTogether
<1>2. Entry(AllErased(ks), {}, drawn, first) \in Entries
  <2>1. AllErased(ks) \in Partial(BOOLEAN) /\ drawn \in Nat /\ {} \in SUBSET Keys
    BY AllErasedTyped DEF Typed, ClockTyped
  <2>2. QED
    BY <2>1, EntryTyped
<1>3. log'[drawn + 1] = Entry(AllErased(ks), {}, drawn, first)
  BY <1>1, <1>2 DEF Typed, ClockTyped
<1>4. log'[drawn + 1].writes = AllErased(ks)
  BY <1>3 DEF Entry
<1>5. QED
  BY <1>1, <1>4 DEF EraseTogether

\* Pruning some keys prunes or leaves each.
LEMMA PrunedKeys ==
    ASSUME NEW ks, versions' = PruneKeys(ks), NEW k \in Keys
    PROVE  versions'[k] = versions[k] \/ versions'[k] = Pruned(versions[k], LowWaterMark)
BY DEF PruneKeys

\* What a step adds to a key is the version of one stamp above the watermark.
LEMMA NewVersions ==
    ASSUME Typed, Faithful, NEW u \in Threads, LandBooks(u), Step(u), NEW k \in Keys, NEW v \in versions'[k],
           v \notin versions[k]
    PROVE  \E e \in Wrote(k)' : v = VersionOf(k, e)' /\ v \in Versions
<1>0. /\ drawn <= drawn' /\ drawn \in Nat /\ drawn' \in Nat /\ writing \subseteq 1..drawn
      /\ \A s \in 1..drawn : log'[s] = log[s]
  BY ClockStep DEF Typed, ClockTyped
<1>f. versions \in [Keys -> SUBSET Versions]
  BY DEF Faithful
<1>1. CASE versions' = versions
  BY <1>1
<1>2. CASE Lands(u)
  <2>1. PICK e \in 1..drawn : e = stamp[u] /\ k \in DOMAIN log[e].writes /\ v = VersionOf(k, e)
    BY <1>2, LandedIs
  <2>2. e \notin writing' /\ drawn' = drawn /\ log' = log
    BY <1>2, <2>1 DEF Lands
  <2>3. e \in Wrote(k)' /\ VersionOf(k, e)' = VersionOf(k, e)
    BY <2>1, <2>2 DEF Wrote, VersionOf
  <2>4. v \in Versions
    BY <2>1, VersionTyped
  <2>5. QED
    BY <2>1, <2>3, <2>4
<1>3. CASE Prunes(u)
  <2>1. versions'[k] \subseteq versions[k]
    BY <1>3, <1>f, PrunedKeys, PrunedTyped DEF Prunes
  <2>2. QED
    BY <2>1
<1>4. CASE Erases(u)
  <2>1. PICK ks \in SUBSET Keys, first \in Nat : EraseTogether(u, ks, first)
    BY <1>4 DEF Erases
  <2>2. drawn' = drawn + 1 /\ log'[drawn + 1].writes = AllErased(ks)
    BY <2>1, ErasedIs
  <2>3. k \in ks /\ v \in Pruned(versions[k] \cup {[stamp |-> drawn + 1, here |-> FALSE]}, LowWaterMark)
    BY <2>1, ErasedIs
  <2>4. v = [stamp |-> drawn + 1, here |-> FALSE]
    BY <2>3 DEF Pruned
  <2>5. k \in DOMAIN log'[drawn + 1].writes /\ log'[drawn + 1].writes[k] = FALSE
    BY <2>2, <2>3, AllErasedTyped DEF AllErased
  <2>6. drawn + 1 \in 1..drawn' /\ drawn + 1 \notin writing'
    BY <1>0, <2>1, <2>2 DEF EraseTogether
  <2>7. drawn + 1 \in Wrote(k)' /\ v = [stamp |-> drawn + 1, here |-> log'[drawn + 1].writes[k]]
    BY <2>4, <2>5, <2>6 DEF Wrote
  <2>8. v \in Versions
    BY <1>0, <2>4 DEF Versions
  <2>9. QED
    BY <2>7, <2>8 DEF VersionOf
<1>5. CASE Clears(u)
  <2>1. versions'[k] \subseteq versions[k]
    BY <1>5 DEF Clears
  <2>2. QED
    BY <2>1
<1>6. QED
  BY <1>1, <1>2, <1>3, <1>4, <1>5 DEF Step, Rests, Starts, dataVars

\* Every step leaves versions for every key.
LEMMA VersionsDomain ==
    ASSUME Faithful, NEW u \in Threads, Step(u)
    PROVE  versions' = [k \in Keys |-> versions'[k]]
BY DEF Faithful, Step, Rests, Starts, Lands, Prunes, Erases, Clears, EraseTogether, Written, PruneKeys, dataVars

\* Every step keeps the versions held among those the history names.
LEMMA FaithfulKept ==
    ASSUME Typed, Faithful, NEW u \in Threads, LandBooks(u), Step(u)
    PROVE  Faithful'
<1>1. ASSUME NEW k \in Keys, NEW v \in versions'[k]
      PROVE  v \in Versions /\ \E e \in Wrote(k)' : v = VersionOf(k, e)'
  <2>1. CASE v \in versions[k]
    <3>1. PICK e \in Wrote(k) : v = VersionOf(k, e)
      BY <2>1 DEF Faithful
    <3>2. e \in Wrote(k)' /\ VersionOf(k, e)' = VersionOf(k, e)
      BY WroteStays
    <3>3. v \in Versions
      BY <2>1 DEF Faithful
    <3>4. QED
      BY <3>1, <3>2, <3>3 DEF VersionOf
  <2>2. CASE v \notin versions[k]
    BY <2>2, NewVersions
  <2>3. QED
    BY <2>1, <2>2
<1>2. versions' = [k \in Keys |-> versions'[k]]
  BY VersionsDomain
<1>3. versions' \in [Keys -> SUBSET Versions]
  BY <1>1, <1>2
<1>4. QED
  BY <1>1, <1>3 DEF Faithful

\* From the low-water mark up to the watermark, no step changes what a key reads as,
\* but a clear, which no open snapshot allows.
LEMMA ReadsStay ==
    ASSUME Typed, Faithful, NEW u \in Threads, LandBooks(u), Step(u), ~Clears(u), NEW k \in Keys,
           NEW at \in Nat, LowWaterMark <= at, at <= Watermark
    PROVE  ReadAt(versions'[k], at) = ReadAt(versions[k], at)
<1>0. versions[k] \in SUBSET Versions /\ LowWaterMark \in Nat /\ Watermark \in Nat /\ drawn \in Nat
  BY MarksRise DEF Faithful, Typed, ClockTyped
<1>w. Watermark <= drawn /\ \A s \in writing : Watermark < s
  BY MarksAre, MarkFacts DEF Typed, ClockTyped
<1>1. CASE versions' = versions
  BY <1>1
<1>2. CASE Lands(u)
  <2>1. stamp[u] \in writing /\ stamp[u] \in Nat /\ (versions'[k] = versions[k] \/
            versions'[k] = versions[k] \cup {VersionOf(k, stamp[u])})
    BY <1>0, <1>2, LandedIs
  <2>2. VersionOf(k, stamp[u]).stamp = stamp[u]
    BY DEF VersionOf
  <2>3. ~(VersionOf(k, stamp[u]).stamp <= at)
    BY <1>0, <1>w, <2>1, <2>2
  <2>4. QED
    BY <2>1, <2>3, ReadBelow
<1>3. CASE Prunes(u)
  <2>1. versions'[k] = versions[k] \/ versions'[k] = Pruned(versions[k], LowWaterMark)
    BY <1>3, PrunedKeys DEF Prunes
  <2>2. QED
    BY <1>0, <2>1, ReadPruned
<1>4. CASE Erases(u)
  <2> DEFINE x == [stamp |-> drawn + 1, here |-> FALSE]
  <2>1. PICK ks \in SUBSET Keys, first \in Nat : EraseTogether(u, ks, first)
    BY <1>4 DEF Erases
  <2>2. versions'[k] = versions[k] \/ versions'[k] = Pruned(versions[k] \cup {x}, LowWaterMark)
    BY <2>1, ErasedIs
  <2>3. x \in Versions /\ ~(x.stamp <= at)
    BY <1>0, <1>w DEF Versions
  <2> HIDE DEF x
  <2>4. versions[k] \cup {x} \in SUBSET Versions
    BY <1>0, <2>3
  <2>5. ReadAt(Pruned(versions[k] \cup {x}, LowWaterMark), at) = ReadAt(versions[k] \cup {x}, at)
    BY <1>0, <2>4, ReadPruned
  <2>6. QED
    BY <2>2, <2>3, <2>5, ReadBelow
<1>5. QED
  BY <1>1, <1>2, <1>3, <1>4 DEF Step, Rests, Starts, dataVars

\* At first no version is held.
LEMMA InitFaithful == Init => Faithful
BY DEF Init, Faithful

\* That versions are those of the history is inductive over the base invariant.
LEMMA NextFaithful == Base /\ Faithful /\ [Next]_vars => Faithful'
<1> SUFFICES ASSUME Base, Faithful, [Next]_vars PROVE Faithful'
  OBVIOUS
<1>1. CASE UNCHANGED vars
  BY <1>1 DEF vars, dataVars, Faithful, Wrote, VersionOf
<1>2. ASSUME NEW u \in Threads, OwnStep(u) PROVE Faithful'
  BY <1>2, StepBase, FaithfulKept DEF Base, Books
<1>3. QED
  BY <1>1, <1>2 DEF Next, OwnStep

\* It holds in every reachable state.
LEMMA AlwaysFaithful == Spec => [](Base /\ Stands /\ Faithful)
<1>1. QED
  BY InitFaithful, NextFaithful, AlwaysStands, PTL DEF Spec

\* A settled transaction's lease keeps the low-water mark at or below what it reads at.
LEMMA SettledAt ==
    ASSUME Base, Stands, NEW t \in Threads, t \in DOMAIN open, unsettled[t] = 0
    PROVE  /\ snapshot[t] \in Nat /\ LowWaterMark <= snapshot[t] /\ snapshot[t] <= Watermark
           /\ LowWaterMark \in Nat /\ Watermark \in Nat
<1>1. Watermark \in Nat
  BY MarksAre, MarkFacts DEF Base, Typed, ClockTyped
<1>2. open[t] = snapshot[t] /\ \A u \in DOMAIN open : open[u] \in Nat /\ open[u] <= Watermark
  BY DEF Base, Typed, LeasesTyped, Stands, PlaceBooks
<1>3. LowWaterMark \in 0..Watermark /\ \A u \in DOMAIN open : LowWaterMark <= open[u]
  BY <1>1, <1>2, MarksAre, LowFacts
<1>4. QED
  BY <1>1, <1>2, <1>3

\* What a transaction reads stays what it is while its snapshot stands, whatever the
\* other threads commit, overwrite, vacuum or clear meanwhile (find, low_water_mark,
\* vacuum, clear).
THEOREM SnapshotsRepeat == Spec => ReadsStand
<1>1. Base /\ Stands /\ Faithful /\ [Next]_vars => [ReadsRepeat]_vars
  <2> SUFFICES ASSUME Base, Stands, Faithful, Next, NEW t \in Threads, Settled(t), Settled(t)',
                      snapshot'[t] = snapshot[t], NEW k \in Keys
               PROVE  ReadAt(versions[k], snapshot[t])' = ReadAt(versions[k], snapshot[t])
    BY DEF ReadsRepeat
  <2>1. PICK u \in Threads : OwnStep(u)
    BY DEF Next, OwnStep
  <2>2. Step(u) /\ LandBooks(u) /\ Typed
    BY <2>1, StepBase DEF Base, Books
  <2>3. t \in DOMAIN open /\ unsettled[t] = 0
    BY DEF Settled, IsOpen
  <2>4. ~Clears(u)
    BY <2>3 DEF Clears
  <2>5. ReadAt(versions'[k], snapshot[t]) = ReadAt(versions[k], snapshot[t])
    BY <2>2, <2>3, <2>4, SettledAt, ReadsStay
  <2>6. QED
    BY <2>5
<1>2. QED
  BY <1>1, AlwaysFaithful, PTL DEF Spec, ReadsStand

----------------------------------------------------------------------------
(* Above the low-water mark no version is missing, and no commit overlooks *)
(* one.                                                                    *)

KeptSince(mark) == \A k \in Keys : \A e \in Wrote(k) : e > mark => VersionOf(k, e) \in versions[k]
Kept == KeptSince(LowWaterMark)

\* A step forgets nothing above the low-water mark it starts from.
LEMMA KeptStep ==
    ASSUME Typed, Faithful, Kept, NEW u \in Threads, LandBooks(u), Step(u), ~Clears(u),
           NEW mark \in Nat, mark = LowWaterMark
    PROVE  KeptSince(mark)' /\ Kept'
<1>0. /\ LowWaterMark \in Nat /\ LowWaterMark' \in Nat /\ LowWaterMark <= LowWaterMark'
      /\ LowWaterMark <= drawn /\ drawn \in Nat
  <2>1. Watermark <= drawn /\ drawn \in Nat
    BY MarksAre, MarkFacts DEF Typed, ClockTyped
  <2>2. QED
    BY <2>1, MarksRise
<1>f. versions \in [Keys -> SUBSET Versions]
  BY DEF Faithful
<1>m. KeptSince(mark)' => Kept'
  <2>1. \A k \in Keys : \A e \in Wrote(k)' : e \in Nat
    BY ClockStep DEF ClockTyped, Wrote
  <2>2. QED
    BY <1>0, <2>1 DEF Kept, KeptSince
<1> SUFFICES ASSUME NEW k \in Keys, NEW e \in Wrote(k)', e > mark
             PROVE  VersionOf(k, e)' \in versions'[k]
  BY <1>m DEF KeptSince
<1>e. e \in Nat /\ e > LowWaterMark
  <2>1. drawn' \in Nat /\ e \in 1..drawn'
    BY ClockStep DEF ClockTyped, Wrote
  <2>2. QED
    BY <1>0, <2>1
<1>1. CASE e \in Wrote(k)
  <2>1. VersionOf(k, e)' = VersionOf(k, e) /\ VersionOf(k, e) \in versions[k] /\ VersionOf(k, e).stamp > LowWaterMark
    BY <1>1, <1>e, WroteStays DEF Kept, KeptSince, VersionOf
  <2> DEFINE v == VersionOf(k, e)
  <2>2. v \in versions[k] /\ v.stamp > LowWaterMark
    BY <2>1
  <2> HIDE DEF v
  <2>3. v \in versions'[k]
    <3>1. CASE versions' = versions
      BY <2>2, <3>1
    <3>2. CASE Lands(u)
      BY <2>2, <3>2, LandedIs
    <3>3. CASE Prunes(u)
      <4>1. versions'[k] = versions[k] \/ versions'[k] = Pruned(versions[k], LowWaterMark)
        BY <3>3, PrunedKeys DEF Prunes
      <4>2. QED
        BY <2>2, <4>1 DEF Pruned
    <3>4. CASE Erases(u)
      <4>1. PICK ks \in SUBSET Keys, first \in Nat : EraseTogether(u, ks, first)
        BY <3>4 DEF Erases
      <4>2. \/ versions'[k] = versions[k]
            \/ versions'[k] = Pruned(versions[k] \cup {[stamp |-> drawn + 1, here |-> FALSE]}, LowWaterMark)
        BY <4>1, ErasedIs
      <4>3. QED
        BY <2>2, <4>2 DEF Pruned
    <3>5. QED
      BY <3>1, <3>2, <3>3, <3>4 DEF Step, Rests, Starts, dataVars
  <2>4. QED
    BY <2>1, <2>3 DEF v
<1>2. CASE e \notin Wrote(k)
  <2>1. CASE UNCHANGED <<drawn, writing, log>>
    BY <1>2, <2>1 DEF Wrote
  <2>2. CASE Starts(u)
    <3>1. drawn' = drawn + 1 /\ writing' = writing \cup {drawn + 1}
      BY <2>2 DEF Starts, Draw
    <3>2. e \in 1..drawn /\ e \notin writing /\ k \in DOMAIN log'[e].writes
      BY <1>0, <3>1 DEF Wrote
    <3>3. log'[e] = log[e]
      BY <3>2, ClockStep
    <3>4. QED
      BY <1>2, <3>2, <3>3 DEF Wrote
  <2>3. CASE Lands(u)
    <3>1. drawn' = drawn /\ log' = log /\ writing' = writing \ {stamp[u]}
      BY <2>3 DEF Lands
    <3>2. e = stamp[u] /\ k \in DOMAIN log[stamp[u]].writes
      BY <1>2, <3>1 DEF Wrote
    <3>3. versions'[k] = versions[k] \cup {VersionOf(k, e)}
      BY <2>3, <3>2, LandedIs
    <3>4. VersionOf(k, e)' = VersionOf(k, e)
      BY <3>1 DEF VersionOf
    <3>5. QED
      BY <3>3, <3>4
  <2>4. CASE Erases(u)
    <3>1. PICK ks \in SUBSET Keys, first \in Nat : EraseTogether(u, ks, first)
      BY <2>4 DEF Erases
    <3>2. drawn' = drawn + 1 /\ log'[drawn + 1].writes = AllErased(ks) /\ writing' = writing
      BY <3>1, ErasedIs DEF EraseTogether
    <3>3. e = drawn + 1
      <4>1. ASSUME e \in 1..drawn PROVE FALSE
        <5>1. log'[e] = log[e]
          BY <4>1, ClockStep
        <5>2. QED
          BY <1>2, <3>2, <4>1, <5>1 DEF Wrote
      <4>2. e \in 1..drawn'
        BY DEF Wrote
      <4>3. QED
        BY <1>0, <3>2, <4>1, <4>2
    <3>4. k \in DOMAIN AllErased(ks)
      BY <3>2, <3>3 DEF Wrote
    <3>5. k \in ks /\ AllErased(ks)[k] = FALSE
      BY <3>4, AllErasedTyped DEF AllErased
    <3>6. versions'[k] = Pruned(versions[k] \cup {[stamp |-> drawn + 1, here |-> FALSE]}, LowWaterMark)
      BY <3>1, <3>5, ErasedIs
    <3>7. [stamp |-> drawn + 1, here |-> FALSE] \in versions'[k]
      BY <1>e, <3>3, <3>6 DEF Pruned
    <3>8. VersionOf(k, e)' = [stamp |-> drawn + 1, here |-> FALSE]
      BY <3>2, <3>3, <3>5 DEF VersionOf
    <3>9. QED
      BY <3>7, <3>8
  <2>5. QED
    BY <2>1, <2>2, <2>3, <2>4 DEF Step, Rests, Prunes, dataVars
<1>3. QED
  BY <1>1, <1>2

\* Who holds a partition to commit there meets no stamp in flight on its keys.
LEMMA NoneInFlight ==
    ASSUME Base, Stands, NEW u \in Threads, pc[u] = "locking", NEW k \in Keys, holder[Bucket(k)] = u,
           NEW e \in writing
    PROVE  k \notin DOMAIN log[e].writes
<1>1. PICK w \in Threads : pc[w] = "landing" /\ stamp[w] = e
  BY DEF Base, InFlight
<1>2. /\ todo[w] = {} /\ op[w] \in {"commit"} \cup DirectWrites
      /\ log[e].writes = (IF op[w] = "commit" THEN changed[w] ELSE DirectGroup(w))
  BY <1>1 DEF Base, Books, LandBooks
<1>3. SUFFICES ASSUME k \in DOMAIN log[e].writes PROVE FALSE
  OBVIOUS
<1>4. holder[Bucket(k)] = w
  <2>1. CASE op[w] = "commit"
    <3>1. Bucket(k) \in touched[w]
      BY <1>1, <1>2, <1>3, <2>1 DEF Stands, MarkBooks, WroteIn
    <3>2. QED
      BY <1>1, <1>2, <2>1, <3>1 DEF Base, Books, CallBooks
  <2>2. CASE op[w] \in DirectWrites
    <3>1. k = key[w]
      BY <1>2, <1>3, <2>2 DEF DirectGroup, DirectWrites
    <3>2. QED
      BY <1>1, <1>2, <2>2, <3>1 DEF Base, Books, CallBooks
  <2>3. QED
    BY <1>2, <2>1, <2>2
<1>5. QED
  BY <1>1, <1>4

\* A commit that validated has no key in common with a stamp above its snapshot.
LEMMA CommitsApart ==
    ASSUME Base, Stands, Faithful, Kept, NEW u \in Threads, CommitDraws(u),
           NEW e \in (snapshot[u] + 1)..drawn, NEW k \in DOMAIN log[e].writes
    PROVE  k \notin DOMAIN changed[u] \cup RestsOn(u)
<1>0. pc[u] = "locking" /\ op[u] = "commit" /\ todo[u] = {} /\ Permitted(u)
  BY DEF CommitDraws, HoldsAll
<1>1. u \in DOMAIN open /\ unsettled[u] = 0
  BY <1>0 DEF Base, Books, CallBooks
<1>2. snapshot[u] \in Nat /\ LowWaterMark \in Nat /\ LowWaterMark <= snapshot[u] /\ drawn \in Nat
  BY <1>1, SettledAt DEF Base, Typed, ClockTyped
<1>3. e \in 1..drawn /\ e > snapshot[u] /\ drawn # snapshot[u]
  BY <1>2
<1>4. SUFFICES ASSUME k \in DOMAIN changed[u] \cup RestsOn(u) PROVE FALSE
  OBVIOUS
<1>5. k \in Keys /\ k \in DOMAIN changed[u] \cup reads[u] /\ Bucket(k) \in touched[u]
  <2>1. DOMAIN changed[u] \subseteq Keys /\ reads[u] \subseteq Keys
    BY PartialHas DEF Base, Typed, WorkTyped
  <2>2. \A j \in DOMAIN changed[u] : Bucket(j) \in touched[u]
    BY <1>0 DEF Stands, MarkBooks, WroteIn
  <2>3. \A j \in RestsOn(u) : j \in reads[u] /\ Bucket(j) \in touched[u]
    BY <1>0 DEF Stands, MarkBooks, ReadIn, RestsOn
  <2>4. QED
    BY <1>4, <2>1, <2>2, <2>3
<1>6. holder[Bucket(k)] = u
  BY <1>0, <1>5 DEF Base, Books, CallBooks
<1>7. e \in Wrote(k)
  BY <1>0, <1>3, <1>5, <1>6, NoneInFlight DEF Wrote
<1>8. VersionOf(k, e) \in versions[k] /\ VersionOf(k, e).stamp = e
  BY <1>2, <1>3, <1>5, <1>7 DEF Kept, KeptSince, VersionOf
<1>9. ChangedSince(k, snapshot[u])
  BY <1>3, <1>8 DEF ChangedSince
<1>10. QED
  BY <1>0, <1>3, <1>5, <1>9, KeysIn DEF Permitted, Conflicts

\* What a step appends to the history.
LEMMA Logged ==
    ASSUME NEW u \in Threads, OwnStep(u)
    PROVE  \/ log' = log /\ drawn' = drawn
           \/ CommitDraws(u)
           \/ /\ drawn' = drawn + 1
              /\ \E group, first : log' = Append(log, Entry(group, {}, drawn, first))
<1>1. CASE Acquire(u)
  BY <1>1 DEF Acquire, Refuse, dataVars, Draw, EraseTogether
<1>2. CASE Transacts(u)
  BY <1>2 DEF Transacts, Open, OpenPart, Settle, Stage, StagePart, UndoPart, Rollback, RollbackPart, Reset,
      ResetPart, Drop, DropPart, Commit, CommitRefused, CommitLands, CommitMovesLease, CommitPrunes, Scan,
      UnwriteAll, UnwritePart, Read, Write, WriteChecked, Refuse, dataVars, Draw, EraseTogether
<1>3. CASE WritesDirectly(u)
  BY <1>3 DEF WritesDirectly, Direct, DirectRefused, DirectDraws, DirectLands, DirectFinishes, Refuse, dataVars,
      Draw, EraseTogether
<1>4. CASE WalksAll(u)
  BY <1>4 DEF WalksAll, Whole, WalkEnds, EraseBegins, ErasePart, EraseEnds, PopSmallest, Sweep, VacuumPart,
      ClearPart, Refuse, dataVars, Draw, EraseTogether
<1>5. QED
  BY <1>1, <1>2, <1>3, <1>4 DEF OwnStep

\* Every step keeps first committer wins.
LEMMA WinsKept ==
    ASSUME Base, Stands, Faithful, Kept, FirstCommitterWins, NEW u \in Threads, OwnStep(u)
    PROVE  FirstCommitterWins'
<1>0. drawn \in Nat /\ log \in Seq(Entries) /\ Len(log) = drawn
  BY DEF Base, Typed, ClockTyped
<1>e. \A e \in 1..drawn : log[e].since \in Nat
  <2>1. \A e \in 1..drawn : log[e] \in Entries
    BY <1>0
  <2>2. QED
    BY <2>1 DEF Entries
<1>1. CASE log' = log /\ drawn' = drawn
  BY <1>1 DEF FirstCommitterWins
<1>2. ASSUME NEW entry \in Entries, drawn' = drawn + 1, log' = Append(log, entry),
             \A e \in (entry.since + 1)..drawn : (DOMAIN log[e].writes) \cap ((DOMAIN entry.writes) \cup entry.reads) = {}
      PROVE  FirstCommitterWins'
  <2>1. log'[drawn + 1] = entry /\ \A e \in 1..drawn : log'[e] = log[e]
    BY <1>0, <1>2
  <2>2. entry.since \in Nat /\ \A e \in 1..drawn : log[e].since \in Nat
    BY <1>e DEF Entries
  <2>3. SUFFICES ASSUME NEW s \in 1..(drawn + 1), NEW earlier \in (log'[s].since + 1)..(s - 1)
                 PROVE  (DOMAIN log'[earlier].writes) \cap ((DOMAIN log'[s].writes) \cup log'[s].reads) = {}
    BY <1>2 DEF FirstCommitterWins
  <2>4. CASE s = drawn + 1
    <3>1. earlier \in (entry.since + 1)..drawn /\ earlier \in 1..drawn
      BY <1>0, <2>1, <2>2, <2>4
    <3>2. QED
      BY <1>2, <2>1, <2>4, <3>1
  <2>5. CASE s \in 1..drawn
    <3>1. earlier \in 1..drawn /\ earlier \in (log[s].since + 1)..(s - 1)
      BY <1>0, <2>1, <2>2, <2>5
    <3>2. QED
      BY <2>1, <2>5, <3>1 DEF FirstCommitterWins
  <2>6. QED
    BY <1>0, <2>4, <2>5
<1>3. CASE CommitDraws(u)
  <2> DEFINE entry == Entry(changed[u], RestsOn(u), snapshot[u], drawn + 1)
  <2>1. changed[u] \in Partial(BOOLEAN) /\ RestsOn(u) \in SUBSET Keys /\ snapshot[u] \in Nat /\ drawn + 1 \in Nat
    BY <1>0 DEF Base, Typed, RestsOn, PlacesTyped, WorkTyped
  <2>2. entry \in Entries
    BY <2>1, EntryTyped
  <2>3. drawn' = drawn + 1 /\ log' = Append(log, entry)
    BY <1>3 DEF CommitDraws, Draw
  <2>4. entry.since = snapshot[u] /\ entry.writes = changed[u] /\ entry.reads = RestsOn(u)
    BY DEF Entry
  <2>5. \A e \in (snapshot[u] + 1)..drawn : (DOMAIN log[e].writes) \cap ((DOMAIN changed[u]) \cup RestsOn(u)) = {}
    BY <1>3, CommitsApart
  <2> HIDE DEF entry
  <2>6. QED
    BY <1>2, <2>2, <2>3, <2>4, <2>5
<1>4. ASSUME NEW group, NEW first, drawn' = drawn + 1, log' = Append(log, Entry(group, {}, drawn, first))
      PROVE  FirstCommitterWins'
  <2> DEFINE entry == Entry(group, {}, drawn, first)
  <2>1. log' = Append(log, entry) /\ entry.since = drawn
    BY <1>4 DEF Entry
  <2> HIDE DEF entry
  <2>2. log'[drawn + 1] = entry /\ \A e \in 1..drawn : log'[e] = log[e]
    BY <1>0, <2>1
  <2>3. \A e \in 1..drawn : log[e].since \in Nat
    BY <1>e
  <2>4. SUFFICES ASSUME NEW s \in 1..(drawn + 1), NEW earlier \in (log'[s].since + 1)..(s - 1)
                 PROVE  (DOMAIN log'[earlier].writes) \cap ((DOMAIN log'[s].writes) \cup log'[s].reads) = {}
    BY <1>4 DEF FirstCommitterWins
  <2>5. s # drawn + 1
    BY <1>0, <2>1, <2>2
  <2>6. s \in 1..drawn /\ earlier \in 1..drawn /\ earlier \in (log[s].since + 1)..(s - 1)
    BY <1>0, <2>2, <2>3, <2>5
  <2>7. QED
    BY <2>2, <2>6 DEF FirstCommitterWins
<1>5. QED
  BY <1>1, <1>3, <1>4, Logged

\* Where nobody clears, that nothing above the low-water mark is missing is inductive.
LEMMA NextKept ==
    "clear" \notin Calls => (Base /\ Faithful /\ Kept /\ [Next]_vars => Kept')
<1> SUFFICES ASSUME "clear" \notin Calls, Base, Faithful, Kept, [Next]_vars PROVE Kept'
  OBVIOUS
<1>1. CASE UNCHANGED vars
  BY <1>1 DEF vars, dataVars, Kept, KeptSince, Wrote, VersionOf, LowWaterMark, Watermark
<1>2. ASSUME NEW u \in Threads, OwnStep(u) PROVE Kept'
  <2>1. Typed /\ LandBooks(u) /\ Step(u) /\ ~Clears(u)
    BY <1>2, StepBase DEF Base, Books, Clears
  <2>2. LowWaterMark \in Nat
    BY <2>1, MarksRise
  <2>3. QED
    BY <2>1, <2>2, KeptStep
<1>3. QED
  BY <1>1, <1>2 DEF Next, OwnStep

\* First committer wins is inductive over what is kept.
LEMMA NextWins == Base /\ Stands /\ Faithful /\ Kept /\ FirstCommitterWins /\ [Next]_vars => FirstCommitterWins'
<1> SUFFICES ASSUME Base, Stands, Faithful, Kept, FirstCommitterWins, [Next]_vars PROVE FirstCommitterWins'
  OBVIOUS
<1>1. CASE UNCHANGED vars
  BY <1>1 DEF vars, dataVars, FirstCommitterWins
<1>2. QED
  BY <1>1, WinsKept DEF Next, OwnStep

\* Where nobody clears the store, no commit over any number of partitions lands over a
\* write, or at the validating levels over a read, that a commit stamped after its
\* snapshot made (validate_for_commit, commit_under_one_stamp_).
THEOREM FirstCommitterAlwaysWins == "clear" \notin Calls => (Spec => []FirstCommitterWins)
<1> SUFFICES ASSUME "clear" \notin Calls PROVE Spec => []FirstCommitterWins
  OBVIOUS
<1>1. Init => Kept /\ FirstCommitterWins
  BY DEF Init, Kept, KeptSince, Wrote, FirstCommitterWins
<1>2. QED
  BY <1>1, NextKept, NextWins, AlwaysFaithful, PTL DEF Spec

----------------------------------------------------------------------------
(* A snapshot reads exactly the commits it names.                          *)

ReadsWhole == \A k \in Keys : \A n \in Nat : LowWaterMark <= n /\ n <= Watermark => ReadAt(versions[k], n) = Committed(k, n)

\* What the commits up to a stamp made of a key is what the last of them that wrote it
\* did.
LEMMA CommittedIs ==
    ASSUME NEW k, NEW at \in Nat
    PROVE  /\ (\A s \in 1..at : k \notin DOMAIN log[s].writes) => Committed(k, at) = 0
           /\ \A e \in 1..at : k \in DOMAIN log[e].writes /\ (\A s \in 1..at : k \in DOMAIN log[s].writes => s <= e)
                 => Committed(k, at) = IF log[e].writes[k] THEN e ELSE 0
<1> DEFINE wrote == {s \in 1..at : k \in DOMAIN log[s].writes}
<1>1. Committed(k, at) = IF wrote # {} /\ log[Max(wrote)].writes[k] THEN Max(wrote) ELSE 0
  BY DEF Committed
<1>2. (\A s \in 1..at : k \notin DOMAIN log[s].writes) => wrote = {}
  OBVIOUS
<1>3. ASSUME NEW e \in 1..at, k \in DOMAIN log[e].writes, \A s \in 1..at : k \in DOMAIN log[s].writes => s <= e
      PROVE  wrote # {} /\ Max(wrote) = e
  <2>1. wrote \in SUBSET (0..at) /\ e \in wrote /\ \A s \in wrote : s <= e
    BY <1>3
  <2>2. Max(wrote) \in wrote /\ \A s \in wrote : s <= Max(wrote)
    BY <2>1, GreatestNatural
  <2>3. e \in Nat /\ Max(wrote) \in Nat /\ e <= Max(wrote) /\ Max(wrote) <= e
    BY <2>1, <2>2
  <2> HIDE DEF wrote
  <2>4. QED
    BY <2>1, <2>3
<1> HIDE DEF wrote
<1>4. QED
  BY <1>1, <1>2, <1>3

\* What a key reads as at one stamp is what the commits made of it, if it is so at an
\* earlier one since which no version was pruned.
ReadsFollow ==
    \A k \in Keys : \A low, a, n \in Nat :
        KeptSince(low) /\ low <= a /\ a <= n /\ n <= Watermark /\ ReadAt(versions[k], a) = Committed(k, a)
        => ReadAt(versions[k], n) = Committed(k, n)

\* Reads and commits that agree at a stamp agree at every later one below the
\* watermark.
LEMMA ReadLater == Typed /\ Faithful => ReadsFollow
<1> SUFFICES ASSUME Typed, Faithful, NEW k \in Keys, NEW low \in Nat, NEW a \in Nat, NEW n \in Nat,
                    KeptSince(low), low <= a, a <= n, n <= Watermark, ReadAt(versions[k], a) = Committed(k, a)
             PROVE  ReadAt(versions[k], n) = Committed(k, n)
  BY DEF ReadsFollow
<1> DEFINE vs == versions[k]
           later == {e \in (a + 1)..n : k \in DOMAIN log[e].writes}
<1>0. vs \in SUBSET Versions /\ \A v \in vs : \E e \in Wrote(k) : v = VersionOf(k, e)
  BY DEF Faithful
<1>w. Watermark <= drawn /\ (\A s \in writing : Watermark < s) /\ drawn \in Nat /\ Watermark \in Nat
  BY MarksAre, MarkFacts DEF Typed, ClockTyped
<1>v. ASSUME NEW v \in vs
      PROVE  v.stamp \in 1..drawn /\ k \in DOMAIN log[v.stamp].writes /\ v = VersionOf(k, v.stamp)
  <2>1. PICK e \in Wrote(k) : v = VersionOf(k, e)
    BY <1>0
  <2>2. v.stamp = e
    BY <2>1 DEF VersionOf
  <2>3. QED
    BY <2>1, <2>2 DEF Wrote
<1>1. CASE later = {}
  <2>1. \A s \in 1..n : k \in DOMAIN log[s].writes => s \in 1..a
    BY <1>1
  <2>2. Committed(k, n) = Committed(k, a)
    <3>1. {s \in 1..n : k \in DOMAIN log[s].writes} = {s \in 1..a : k \in DOMAIN log[s].writes}
      BY <2>1
    <3>2. QED
      BY <3>1 DEF Committed
  <2>3. \A v \in vs : v.stamp <= n <=> v.stamp <= a
    BY <1>v, <2>1
  <2> HIDE DEF vs
  <2>4. VisibleAt(vs, n) = VisibleAt(vs, a)
    <3>1. {v \in vs : v.stamp <= n} = {v \in vs : v.stamp <= a}
      BY <2>3
    <3>2. QED
      BY <3>1, Zenon DEF VisibleAt
  <2>5. ReadAt(vs, n) = ReadAt(vs, a)
    BY <2>4 DEF ReadAt
  <2>6. QED
    BY <2>2, <2>5 DEF vs
<1>2. CASE later # {}
  <2>1. later \in SUBSET (0..n)
    OBVIOUS
  <2>2. PICK m \in later : \A e \in later : e <= m
    BY <1>2, <2>1, GreatestNatural
  <2>3. m \in 1..n /\ m > a /\ k \in DOMAIN log[m].writes /\ m \in Nat
    OBVIOUS
  <2>4. \A s \in 1..n : k \in DOMAIN log[s].writes => s <= m
    BY <2>2, <2>3
  <2>5. m \in Wrote(k) /\ m > low
    BY <1>w, <2>3 DEF Wrote
  <2> DEFINE x == VersionOf(k, m)
  <2>6. x \in vs
    BY <2>5 DEF KeptSince
  <2>7. x.stamp = m /\ x.here = log[m].writes[k]
    BY DEF VersionOf
  <2> HIDE DEF x
  <2>8. x \in VisibleAt(vs, n)
    <3>1. \A v \in vs : v.stamp <= n => v.stamp <= m
      BY <1>v, <2>4
    <3>2. QED
      BY <2>3, <2>6, <2>7, <3>1, VisibleIs
  <2>9. \A w \in VisibleAt(vs, n) : w = x
    <3>1. \A w \in VisibleAt(vs, n) : w.stamp = m /\ w \in vs
      BY <1>0, <2>7, <2>8, ReadIs, VisibleIs
    <3>2. QED
      BY <1>v, <3>1 DEF x
  <2>10. ReadAt(vs, n) = IF log[m].writes[k] THEN m ELSE 0
    <3>1. CASE log[m].writes[k]
      BY <1>0, <2>7, <2>8, <3>1, ReadIs
    <3>2. CASE ~log[m].writes[k]
      BY <2>7, <2>9, <3>2 DEF ReadAt
    <3>3. QED
      BY <3>1, <3>2
  <2>11. Committed(k, n) = IF log[m].writes[k] THEN m ELSE 0
    BY <2>3, <2>4, CommittedIs
  <2>12. QED
    BY <2>10, <2>11
<1>3. QED
  BY <1>1, <1>2

\* What commits made of a key up to a drawn stamp never changes.
LEMMA CommittedStays ==
    ASSUME Typed, NEW u \in Threads, LandBooks(u), Step(u), NEW k \in Keys, NEW n \in Nat, n <= drawn
    PROVE  Committed(k, n)' = Committed(k, n)
<1>1. \A s \in 1..n : log'[s] = log[s]
  BY ClockStep DEF Typed, ClockTyped
<1> DEFINE wrote == {s \in 1..n : k \in DOMAIN log[s].writes}
<1>2. {s \in 1..n : k \in DOMAIN log'[s].writes} = wrote
  BY <1>1
<1>3. Committed(k, n)' = IF wrote # {} /\ log'[Max(wrote)].writes[k] THEN Max(wrote) ELSE 0
  BY <1>2 DEF Committed
<1>4. Committed(k, n) = IF wrote # {} /\ log[Max(wrote)].writes[k] THEN Max(wrote) ELSE 0
  BY DEF Committed
<1>5. wrote # {} => Max(wrote) \in 1..n
  <2>1. wrote \in SUBSET (0..n) /\ wrote \subseteq 1..n
    OBVIOUS
  <2>2. QED
    BY <2>1, GreatestNatural
<1> HIDE DEF wrote
<1>6. QED
  BY <1>1, <1>3, <1>4, <1>5

\* Every step keeps reads whole, at the stamps it publishes as at the old ones.
LEMMA WholeStep ==
    ASSUME Typed, Faithful, Kept, ReadsWhole, Typed', Faithful', NEW u \in Threads, LandBooks(u), Step(u), ~Clears(u)
    PROVE  ReadsWhole'
<1>0. /\ LowWaterMark \in Nat /\ LowWaterMark' \in Nat /\ LowWaterMark <= LowWaterMark'
      /\ Watermark \in Nat /\ Watermark' \in Nat /\ Watermark <= Watermark' /\ LowWaterMark <= Watermark
      /\ Watermark <= drawn /\ drawn \in Nat
  <2>1. Watermark <= drawn /\ drawn \in Nat
    BY MarksAre, MarkFacts DEF Typed, ClockTyped
  <2>2. QED
    BY <2>1, MarksRise
<1>1. ASSUME NEW k \in Keys, NEW n \in Nat, LowWaterMark <= n, n <= Watermark
      PROVE  ReadAt(versions'[k], n) = Committed(k, n)'
  <2>1. ReadAt(versions'[k], n) = ReadAt(versions[k], n)
    BY <1>1, ReadsStay
  <2>2. Committed(k, n)' = Committed(k, n)
    BY <1>0, <1>1, CommittedStays
  <2>3. QED
    BY <1>1, <2>1, <2>2 DEF ReadsWhole
<1>2. ASSUME NEW k \in Keys, NEW n \in Nat, Watermark < n, n <= Watermark'
      PROVE  ReadAt(versions'[k], n) = Committed(k, n)'
  <2>1. PICK low \in Nat : low = LowWaterMark
    BY <1>0
  <2>2. PICK a \in Nat : a = Watermark
    BY <1>0
  <2>3. KeptSince(low)'
    BY <2>1, KeptStep
  <2>4. ReadAt(versions'[k], a) = Committed(k, a)' /\ low <= a /\ a <= n
    BY <1>0, <1>1, <1>2, <2>1, <2>2
  <2>5. (Typed /\ Faithful => ReadsFollow)'
    BY ReadLater, PTL
  <2>6. ReadsFollow'
    BY <2>5
  <2>7. ReadAt(versions[k], a)' = Committed(k, a)'
    BY <2>4
  <2>8. QED
    BY <1>2, <2>3, <2>4, <2>6, <2>7 DEF ReadsFollow
<1>3. QED
  BY <1>0, <1>1, <1>2 DEF ReadsWhole

\* At first nothing is missing and every key reads as absent.
LEMMA InitWhole == Init => Kept /\ ReadsWhole
<1> SUFFICES ASSUME Init PROVE Kept /\ ReadsWhole
  OBVIOUS
<1>1. Kept
  BY DEF Init, Kept, KeptSince, Wrote
<1>2. Watermark = 0 /\ LowWaterMark = 0
  BY DEF Init, Watermark, LowWaterMark
<1>3. ASSUME NEW k \in Keys PROVE ReadAt(versions[k], 0) = Committed(k, 0)
  <2>1. versions[k] = {}
    BY DEF Init
  <2>2. ReadAt(versions[k], 0) = 0
    BY <2>1 DEF ReadAt, VisibleAt, Newest
  <2>3. 1..0 = {}
    OBVIOUS
  <2>4. Committed(k, 0) = 0
    BY <2>3, CommittedIs
  <2>5. QED
    BY <2>2, <2>4
<1>4. \A n \in Nat : LowWaterMark <= n /\ n <= Watermark => n = 0
  BY <1>2
<1>5. QED
  BY <1>1, <1>3, <1>4 DEF ReadsWhole

\* Where nobody clears, whole reads are inductive.
LEMMA NextWhole ==
    "clear" \notin Calls => (Base /\ Faithful /\ Kept /\ ReadsWhole /\ [Next]_vars => ReadsWhole')
<1> SUFFICES ASSUME "clear" \notin Calls, Base, Faithful, Kept, ReadsWhole, [Next]_vars PROVE ReadsWhole'
  OBVIOUS
<1>1. CASE UNCHANGED vars
  <2>1. Watermark' = Watermark /\ LowWaterMark' = LowWaterMark
    BY <1>1 DEF vars, dataVars, Watermark, LowWaterMark
  <2>2. versions' = versions /\ log' = log
    BY <1>1 DEF vars, dataVars
  <2>3. ASSUME NEW k, NEW n PROVE Committed(k, n)' = Committed(k, n)
    BY <2>2 DEF Committed
  <2>4. QED
    BY <2>1, <2>2, <2>3 DEF ReadsWhole
<1>2. ASSUME NEW u \in Threads, OwnStep(u) PROVE ReadsWhole'
  <2>1. Typed /\ LandBooks(u) /\ Step(u) /\ ~Clears(u)
    BY <1>2, StepBase DEF Base, Books, Clears
  <2>2. Typed' /\ Faithful'
    BY <1>2, StepBase, NextFaithful DEF Base, Next, OwnStep
  <2>3. QED
    BY <2>1, <2>2, WholeStep
<1>3. QED
  BY <1>1, <1>2 DEF Next, OwnStep

\* Where nobody clears the store, a settled transaction reads in every partition exactly
\* the commits its snapshot names: no commit in part, none missing behind an older one
\* still landing, none pruned from under it (transaction, settle_snapshot_, low_water_mark).
THEOREM SnapshotsStayWhole == "clear" \notin Calls => (Spec => []SnapshotWhole)
<1> SUFFICES ASSUME "clear" \notin Calls PROVE Spec => []SnapshotWhole
  OBVIOUS
<1>1. Base /\ Stands /\ ReadsWhole => SnapshotWhole
  <2> SUFFICES ASSUME Base, Stands, ReadsWhole, NEW t \in Threads, Settled(t), NEW k \in Keys
               PROVE  ReadAt(versions[k], snapshot[t]) = Committed(k, snapshot[t])
    BY DEF SnapshotWhole
  <2>1. t \in DOMAIN open /\ unsettled[t] = 0
    BY DEF Settled, IsOpen
  <2>2. QED
    BY <2>1, SettledAt DEF ReadsWhole
<1>2. QED
  BY <1>1, InitWhole, NextKept, NextWhole, AlwaysFaithful, PTL DEF Spec

----------------------------------------------------------------------------
(* A transaction is staged in every part it reached, or in none.           *)

\* Phases of calls that neither stage nor take anything staged back.
Quiet == {"idle", "opening", "locking", "landing", "finishing", "erasing", "vacuum", "clear"}

StageBooks(t) ==
    /\ pc[t] \in Quiet => stagedIn[t] = IF staging[t] THEN touched[t] ELSE {}
    /\ pc[t] = "staging" =>
          /\ staging[t] => todo[t] = touched[t] /\ stagedIn[t] = touched[t]
          /\ ~staging[t] => /\ todo[t] \subseteq touched[t] /\ stagedIn[t] = touched[t] \ todo[t]
                            /\ \A p \in stagedIn[t] : \A q \in todo[t] : p < q
    /\ pc[t] = "undoing" => ~staging[t] /\ stagedIn[t] = todo[t]
    /\ pc[t] = "rolling" => stagedIn[t] = (IF staging[t] THEN todo[t] ELSE {}) /\ (staging[t] => op[t] # "refused")
    /\ pc[t] \in {"resetting", "dropping"} => ~staging[t] /\ stagedIn[t] \subseteq todo[t]
    /\ pc[t] = "unwriting" => ~staging[t] /\ stagedIn[t] = {}
    /\ pc[t] \in {"landed", "pruning"} => stagedIn[t] = {}
    /\ op[t] = "refused" => pc[t] = "rolling"

\* A call that goes on, or returns, keeps its kind or forgets it.
LEMMA MovedKind ==
    ASSUME CallsTyped, NEW u \in Threads, NEW onto, NEW rest, MoveOn(u, onto, rest)
    PROVE  op'[u] \in {op[u], "none"}
BY ReturnedTo DEF MoveOn, Become

\* A thread's own step keeps the account of where it is staged.
LEMMA StageBooksKept ==
    ASSUME Typed, ~RecordsReads, NEW u \in Threads, OwnStep(u), StageBooks(u)
    PROVE  StageBooks(u)'
<1>0. CallsTyped /\ WorkTyped
  BY DEF Typed
<1> USE <1>0
<1>p. pc[u] \in Phases
  BY DEF CallsTyped
<1>w. staging[u] \in BOOLEAN
  BY DEF WorkTyped
<1>q. stagedIn'[u] = stagedIn[u] /\ staging'[u] = staging[u] /\ touched'[u] = touched[u]
      /\ pc[u] \in Quiet /\ pc'[u] \in Quiet /\ op'[u] # "refused"
      => StageBooks(u)'
  BY DEF StageBooks, Quiet
<1>r. pc[u] \in Quiet => op[u] # "refused"
  BY DEF StageBooks, Quiet
<1>1. CASE Acquire(u)
  <2>1. stagedIn'[u] = stagedIn[u] /\ staging'[u] = staging[u] /\ touched'[u] = touched[u]
    BY <1>1 DEF Acquire, workVars
  <2>2. pc[u] \in Quiet /\ pc'[u] \in Quiet /\ op'[u] # "refused"
    BY <1>1, <1>r DEF Acquire, Quiet
  <2>3. QED
    BY <2>1, <2>2, <1>q
<1>2. CASE Transacts(u)
  <2>1. CASE Open(u)
    <3>1. stagedIn'[u] = stagedIn[u] /\ staging'[u] = staging[u] /\ touched'[u] = touched[u]
      BY <2>1 DEF Open, workVars
    <3>2. pc[u] \in Quiet /\ pc'[u] \in Quiet /\ op'[u] # "refused"
      BY <2>1, <1>r, Moved, MovedKind DEF Open, Quiet, Calling
    <3>3. QED
      BY <3>1, <3>2, <1>q
  <2>2. CASE OpenPart(u)
    <3>1. stagedIn'[u] = stagedIn[u] /\ staging'[u] = staging[u] /\ touched'[u] = touched[u]
      BY <2>2 DEF OpenPart, workVars
    <3>2. pc[u] \in Quiet /\ pc'[u] \in Quiet /\ op'[u] # "refused"
      BY <2>2, <1>r, VisitMoved, Moved, MovedKind DEF OpenPart, Visiting, Visited, Quiet
    <3>3. QED
      BY <3>1, <3>2, <1>q
  <2>3. CASE Settle(u)
    <3>1. stagedIn'[u] = stagedIn[u] /\ staging'[u] = staging[u] /\ touched'[u] = touched[u]
      BY <2>3 DEF Settle, workVars
    <3>2. pc[u] \in Quiet /\ pc'[u] \in Quiet /\ op'[u] # "refused"
      BY <2>3, <1>r DEF Settle, callVars, Quiet
    <3>3. QED
      BY <3>1, <3>2, <1>q
  <2>4. CASE Stage(u)
    <3>1. pc[u] = "idle" /\ todo'[u] = touched[u] /\ pc'[u] = (IF touched[u] = {} THEN "idle" ELSE "staging")
      BY <2>4, Moved DEF Stage, Calling
    <3>2. /\ stagedIn'[u] = stagedIn[u] /\ touched'[u] = touched[u]
          /\ staging'[u] = (staging[u] \/ touched[u] = {})
      BY <2>4 DEF Stage, WorkTyped
    <3>3. op'[u] # "refused" /\ stagedIn[u] = IF staging[u] THEN touched[u] ELSE {}
      BY <2>4, <3>1, <1>r, MovedKind DEF Stage, StageBooks, Quiet
    <3>4. CASE touched[u] = {}
      BY <3>1, <3>2, <3>3, <3>4 DEF StageBooks, Quiet
    <3>5. CASE touched[u] # {}
      BY <3>1, <3>2, <3>3, <3>5, <1>w DEF StageBooks, Quiet
    <3>6. QED
      BY <3>4, <3>5
  <2>5. CASE StagePart(u)
    <3> DEFINE p == Wanted(u)
    <3>1. pc[u] = "staging" /\ touched'[u] = touched[u] /\ p \in todo[u] /\ op[u] # "refused"
      BY <2>5, VisitingHas DEF StagePart, Visiting, StageBooks, Visits
    <3>2. todo[u] \subseteq Partitions /\ \A q \in todo[u] : p <= q
      BY <3>1, VisitsWanted DEF CallsTyped
    <3>3. CASE Conflicts(u, p) \/ p \in stagedIn[u]
      <4>1. MoveOn(u, "undoing", Undo(u)) /\ stagedIn'[u] = stagedIn[u] /\ staging'[u] = staging[u]
        BY <2>5, <3>3 DEF StagePart
      <4>2. /\ todo'[u] = Undo(u) /\ pc'[u] = (IF Undo(u) = {} THEN "idle" ELSE "undoing") /\ op'[u] # "refused"
        BY <3>1, <4>1, Moved, MovedKind
      <4>3. CASE staging[u]
        <5>1. stagedIn[u] = touched[u] /\ stagedIn[u] = todo[u]
          BY <3>1, <4>3 DEF StageBooks
        <5>2. Undo(u) = {}
          <6>1. p \in Nat /\ \A q \in todo[u] : q \in Nat /\ p <= q
            BY <3>1, <3>2 DEF Partitions
          <6>2. QED
            BY <5>1, <6>1 DEF Undo, StagedSoFar
        <5>3. QED
          BY <3>1, <4>1, <4>2, <4>3, <5>1, <5>2 DEF StageBooks, Quiet
      <4>4. CASE ~staging[u]
        <5>1. stagedIn[u] = touched[u] \ todo[u] /\ \A r \in stagedIn[u] : r < p
          BY <3>1, <4>4 DEF StageBooks
        <5>2. Undo(u) = stagedIn[u]
          BY <5>1 DEF Undo, StagedSoFar
        <5>3. QED
          BY <3>1, <4>1, <4>2, <4>4, <5>2, <1>w DEF StageBooks, Quiet
      <4>5. QED
        BY <4>3, <4>4
    <3>4. CASE ~(Conflicts(u, p) \/ p \in stagedIn[u])
      <4>1. /\ MoveOn(u, "staging", todo[u] \ {p}) /\ stagedIn'[u] = stagedIn[u] \cup {p}
            /\ staging'[u] = (staging[u] \/ todo[u] = {p})
        BY <2>5, <3>4 DEF StagePart, WorkTyped
      <4>2. /\ todo'[u] = todo[u] \ {p} /\ pc'[u] = (IF todo[u] \ {p} = {} THEN "idle" ELSE "staging")
            /\ op'[u] # "refused"
        BY <3>1, <4>1, Moved, MovedKind
      <4>3. /\ ~staging[u] /\ todo[u] \subseteq touched[u] /\ stagedIn[u] = touched[u] \ todo[u]
            /\ \A r \in stagedIn[u] : \A q \in todo[u] : r < q
        BY <3>1, <3>4 DEF StageBooks
      <4>4. \A r \in stagedIn'[u] : \A q \in todo'[u] : r < q
        <5>1. \A q \in todo[u] \ {p} : p < q
          BY <3>1, <3>2 DEF Partitions
        <5>2. QED
          BY <4>1, <4>2, <4>3, <5>1
      <4>5. CASE todo[u] = {p}
        BY <3>1, <4>1, <4>2, <4>3, <4>5 DEF StageBooks, Quiet
      <4>6. CASE todo[u] # {p}
        <5>1. pc'[u] = "staging" /\ staging'[u] = FALSE
          BY <3>1, <4>1, <4>2, <4>3, <4>6, <1>w
        <5>2. todo'[u] \subseteq touched'[u] /\ stagedIn'[u] = touched'[u] \ todo'[u]
          BY <3>1, <4>1, <4>2, <4>3
        <5>3. QED
          BY <4>2, <4>4, <5>1, <5>2 DEF StageBooks, Quiet
      <4>7. QED
        BY <4>5, <4>6
    <3>5. QED
      BY <3>3, <3>4
  <2>6. CASE UndoPart(u)
    <3>1. /\ pc[u] = "undoing" /\ todo'[u] = todo[u] \ {Wanted(u)} /\ pc'[u] = (IF todo'[u] = {} THEN "idle" ELSE "undoing")
          /\ op'[u] \in {op[u], "none"}
      BY <2>6, VisitMoved, MovedKind DEF UndoPart, Visiting, Visited
    <3>2. stagedIn'[u] = stagedIn[u] \ {Wanted(u)} /\ staging'[u] = staging[u]
      BY <2>6 DEF UndoPart, WorkTyped
    <3>3. QED
      BY <3>1, <3>2 DEF StageBooks, Quiet
  <2>7. CASE Rollback(u)
    <3>1. /\ pc[u] = "idle" /\ todo'[u] = touched[u] /\ pc'[u] = (IF touched[u] = {} THEN "idle" ELSE "rolling")
          /\ op'[u] \in {op[u], "none"}
      BY <2>7, Moved, MovedKind DEF Rollback, Calling
    <3>2. /\ stagedIn'[u] = stagedIn[u] /\ touched'[u] = touched[u]
          /\ staging'[u] = (staging[u] /\ touched[u] # {})
      BY <2>7 DEF Rollback, WorkTyped
    <3>3. stagedIn[u] = IF staging[u] THEN touched[u] ELSE {}
      BY <3>1 DEF StageBooks, Quiet
    <3>4. QED
      BY <3>1, <3>2, <3>3, <1>r, <1>w DEF StageBooks, Quiet
  <2>8. CASE RollbackPart(u)
    <3> DEFINE p == Wanted(u)
    <3>1. pc[u] = "rolling" /\ p \in todo[u] /\ op[u] \in Kinds
      BY <2>8, VisitingHas DEF RollbackPart, Visiting, CallsTyped, Visits
    <3>2. /\ stagedIn[u] = (IF staging[u] THEN todo[u] ELSE {}) /\ (staging[u] => op[u] # "refused")
      BY <3>1 DEF StageBooks
    <3>3. /\ stagedIn'[u] = stagedIn[u] \ {p} /\ touched'[u] = touched[u]
          /\ staging'[u] = (staging[u] /\ (todo[u] = {p} => op[u] = "refused" \/ p \notin stagedIn[u]))
      BY <2>8 DEF RollbackPart, WorkTyped
    <3>4. CASE todo[u] = {p}
      <4>1. pc'[u] = "idle" /\ op'[u] = "none"
        BY <2>8, <3>4, ReturnedTo DEF RollbackPart
      <4>2. stagedIn'[u] = {} /\ staging'[u] = FALSE
        BY <3>1, <3>2, <3>3, <3>4, <1>w
      <4>3. QED
        BY <4>1, <4>2 DEF StageBooks, Quiet
    <3>5. CASE todo[u] # {p}
      <4>1. /\ pc'[u] = "rolling" /\ todo'[u] = todo[u] \ {p}
            /\ op'[u] = IF op[u] = "refused" \/ p \notin stagedIn[u] THEN "refused" ELSE "none"
        BY <2>8, <3>1, <3>5 DEF RollbackPart, CallsTyped
      <4>2. staging'[u] = staging[u]
        BY <3>3, <3>5, <1>w
      <4>3. QED
        BY <3>1, <3>2, <3>3, <4>1, <4>2, <1>w DEF StageBooks, Quiet
    <3>6. QED
      BY <3>4, <3>5
  <2>9. CASE Reset(u)
    <3>1. Partitions # {}
      BY PartitionedAssumption DEF Partitions
    <3>2. todo'[u] = Partitions /\ pc'[u] = "resetting" /\ op'[u] # "refused" /\ pc[u] = "idle"
      BY <2>9, <3>1, <1>r, Moved, MovedKind DEF Reset, Calling, Quiet
    <3>3. stagedIn'[u] = stagedIn[u] /\ staging'[u] = FALSE /\ stagedIn[u] \subseteq Partitions
      BY <2>9 DEF Reset, WorkTyped
    <3>4. QED
      BY <3>2, <3>3 DEF StageBooks, Quiet
  <2>10. CASE ResetPart(u)
    <3>1. /\ pc[u] = "resetting" /\ todo'[u] = todo[u] \ {Wanted(u)}
          /\ pc'[u] = (IF todo'[u] = {} THEN "idle" ELSE "resetting") /\ op'[u] \in {op[u], "none"}
      BY <2>10, VisitMoved, MovedKind DEF ResetPart, Visiting, Visited
    <3>2. stagedIn'[u] = stagedIn[u] \ {Wanted(u)} /\ staging'[u] = staging[u]
      BY <2>10 DEF ResetPart, WorkTyped
    <3>3. QED
      BY <3>1, <3>2 DEF StageBooks, Quiet
  <2>11. CASE Drop(u)
    <3>1. /\ pc[u] = "idle" /\ todo'[u] = stagedIn[u] /\ pc'[u] = (IF stagedIn[u] = {} THEN "idle" ELSE "dropping")
          /\ op'[u] \in {op[u], "none"}
      BY <2>11, Moved, MovedKind DEF Drop, Calling
    <3>2. stagedIn'[u] = stagedIn[u] /\ staging'[u] = FALSE
      BY <2>11 DEF Drop, WorkTyped
    <3>3. QED
      BY <3>1, <3>2, <1>r DEF StageBooks, Quiet
  <2>12. CASE DropPart(u)
    <3> DEFINE p == Max(todo[u])
    <3>1. MoveOn(u, "dropping", todo[u] \ {p}) /\ pc[u] = "dropping"
      BY <2>12 DEF DropPart
    <3>2. stagedIn'[u] = stagedIn[u] \ {p} /\ staging'[u] = staging[u]
      BY <2>12 DEF DropPart, WorkTyped
    <3> HIDE DEF p
    <3>3. /\ todo'[u] = todo[u] \ {p} /\ pc'[u] = (IF todo[u] \ {p} = {} THEN "idle" ELSE "dropping")
          /\ op'[u] \in {op[u], "none"}
      BY <3>1, Moved, MovedKind
    <3>4. QED
      BY <3>1, <3>2, <3>3 DEF StageBooks, Quiet
  <2>13. CASE Commit(u)
    <3>1. stagedIn'[u] = stagedIn[u] /\ staging'[u] = staging[u] /\ touched'[u] = touched[u]
      BY <2>13 DEF Commit, workVars
    <3>2. pc[u] \in Quiet /\ pc'[u] \in Quiet /\ op'[u] # "refused"
      BY <2>13, LockedTo DEF Commit, Calling, DirectWrites, WholeWrites, Quiet
    <3>3. QED
      BY <3>1, <3>2, <1>q
  <2>14. CASE CommitRefused(u)
    <3>1. stagedIn'[u] = stagedIn[u] /\ staging'[u] = staging[u] /\ touched'[u] = touched[u]
      BY <2>14 DEF CommitRefused, Refuse, workVars
    <3>2. pc[u] \in Quiet /\ pc'[u] \in Quiet /\ op'[u] # "refused"
      BY <2>14, ReturnedTo DEF CommitRefused, Refuse, HoldsAll, Quiet
    <3>3. QED
      BY <3>1, <3>2, <1>q
  <2>15. CASE CommitDraws(u)
    <3>1. stagedIn'[u] = stagedIn[u] /\ staging'[u] = staging[u] /\ touched'[u] = touched[u]
      BY <2>15 DEF CommitDraws, workVars
    <3>2. pc[u] \in Quiet /\ pc'[u] \in Quiet /\ op'[u] # "refused"
      BY <2>15, <1>r DEF CommitDraws, Become, Draw, HoldsAll, CallsTyped, Quiet
    <3>3. QED
      BY <3>1, <3>2, <1>q
  <2>16. CASE CommitLands(u)
    <3>1. stagedIn'[u] = {} /\ pc'[u] = "landed" /\ op'[u] = op[u] /\ op[u] = "commit"
      BY <2>16 DEF CommitLands, Become, CallsTyped, WorkTyped
    <3>2. QED
      BY <3>1 DEF StageBooks, Quiet
  <2>17. CASE CommitMovesLease(u)
    <3>1. /\ pc[u] = "landed" /\ pc'[u] = (IF touched[u] = {} THEN "idle" ELSE "pruning")
          /\ op'[u] \in {op[u], "none"}
      BY <2>17, Moved, MovedKind DEF CommitMovesLease
    <3>2. stagedIn'[u] = stagedIn[u] /\ touched'[u] = touched[u]
      BY <2>17 DEF CommitMovesLease
    <3>3. QED
      BY <3>1, <3>2 DEF StageBooks, Quiet
  <2>18. CASE CommitPrunes(u)
    <3> DEFINE p == Wanted(u)
    <3>1. /\ pc[u] = "pruning" /\ todo'[u] = todo[u] \ {p} /\ pc'[u] = (IF todo'[u] = {} THEN "idle" ELSE "pruning")
          /\ op'[u] \in {op[u], "none"} /\ p \in todo[u]
      BY <2>18, VisitMoved, MovedKind, VisitingHas DEF CommitPrunes, Visiting, Visited, Visits
    <3>2. /\ stagedIn'[u] = stagedIn[u] /\ touched'[u] = (IF todo[u] = {p} THEN {} ELSE touched[u])
      BY <2>18 DEF CommitPrunes, WorkTyped
    <3>3. QED
      BY <3>1, <3>2 DEF StageBooks, Quiet
  <2>19. CASE Scan(u)
    <3>1. stagedIn'[u] = stagedIn[u] /\ staging'[u] = staging[u] /\ touched'[u] = touched[u]
      BY <2>19 DEF Scan, workVars
    <3>2. pc[u] \in Quiet /\ pc'[u] \in Quiet /\ op'[u] # "refused"
      BY <2>19, LockedTo DEF Scan, Calling, Quiet
    <3>3. QED
      BY <3>1, <3>2, <1>q
  <2>20. CASE UnwriteAll(u)
    <3>1. /\ pc[u] = "idle" /\ pc'[u] \in {"idle", "unwriting"} /\ op'[u] \in {op[u], "none"}
      BY <2>20, Moved, MovedKind DEF UnwriteAll, Writing, Calling
    <3>2. stagedIn'[u] = stagedIn[u] /\ staging'[u] = staging[u] /\ ~staging[u]
      BY <2>20 DEF UnwriteAll, Writing, workVars
    <3>3. QED
      BY <3>1, <3>2, <1>r, <1>w DEF StageBooks, Quiet
  <2>21. CASE UnwritePart(u)
    <3>1. /\ pc[u] = "unwriting" /\ pc'[u] \in {"idle", "unwriting"} /\ op'[u] \in {op[u], "none"}
      BY <2>21, VisitMoved, MovedKind DEF UnwritePart, Visiting, Visited
    <3>2. stagedIn'[u] = stagedIn[u] /\ staging'[u] = staging[u]
      BY <2>21 DEF UnwritePart
    <3>3. QED
      BY <3>1, <3>2, <1>w DEF StageBooks, Quiet
  <2>22. CASE \E k \in Keys : Read(u, k)
    <3>1. PICK k \in Keys : Read(u, k)
      BY <2>22
    <3>2. /\ pc[u] = "idle" /\ pc'[u] = "idle" /\ op'[u] = op[u] /\ stagedIn'[u] = stagedIn[u]
          /\ staging[u] = FALSE /\ staging'[u] = FALSE
      BY <3>1, <1>w DEF Read, Writing, callVars, Calling
    <3>3. QED
      BY <3>2, <1>r DEF StageBooks, Quiet
  <2>23. CASE \E k \in Keys : Write(u, k)
    <3>1. PICK k \in Keys : Write(u, k)
      BY <2>23
    <3>2. /\ pc[u] = "idle" /\ pc'[u] = "idle" /\ op'[u] = op[u] /\ stagedIn'[u] = stagedIn[u]
          /\ staging[u] = FALSE /\ staging'[u] = FALSE
      BY <3>1, <1>w DEF Write, Writing, callVars, Calling
    <3>3. QED
      BY <3>2, <1>r DEF StageBooks, Quiet
  <2>24. CASE \E k \in Keys, kind \in {"add", "revise", "unwrite"} : WriteChecked(u, k, kind)
    <3>1. PICK k \in Keys, kind \in {"add", "revise", "unwrite"} : WriteChecked(u, k, kind)
      BY <2>24
    <3>2. /\ pc[u] = "idle" /\ pc'[u] = "idle" /\ op'[u] = op[u] /\ stagedIn'[u] = stagedIn[u]
          /\ staging[u] = FALSE /\ staging'[u] = FALSE
      BY <3>1, <1>w DEF WriteChecked, Writing, callVars, Calling
    <3>3. QED
      BY <3>2, <1>r DEF StageBooks, Quiet
  <2>25. QED
    BY <1>2, <2>1, <2>2, <2>3, <2>4, <2>5, <2>6, <2>7, <2>8, <2>9, <2>10, <2>11, <2>12, <2>13, <2>14, <2>15,
        <2>16, <2>17, <2>18, <2>19, <2>20, <2>21, <2>22, <2>23, <2>24 DEF Transacts
<1>3. CASE WritesDirectly(u)
  <2>1. CASE \E k \in Keys, kind \in DirectWrites : Direct(u, kind, k)
    <3>1. stagedIn'[u] = stagedIn[u] /\ staging'[u] = staging[u] /\ touched'[u] = touched[u]
      BY <2>1 DEF Direct, workVars
    <3>2. pc[u] \in Quiet /\ pc'[u] \in Quiet /\ op'[u] # "refused"
      BY <2>1, LockedTo DEF Direct, Calling, DirectWrites, WholeWrites, Quiet
    <3>3. QED
      BY <3>1, <3>2, <1>q
  <2>2. CASE DirectRefused(u)
    <3>1. stagedIn'[u] = stagedIn[u] /\ staging'[u] = staging[u] /\ touched'[u] = touched[u]
      BY <2>2 DEF DirectRefused, Refuse, workVars
    <3>2. pc[u] \in Quiet /\ pc'[u] \in Quiet /\ op'[u] # "refused"
      BY <2>2, ReturnedTo DEF DirectRefused, Refuse, HoldsAll, Quiet
    <3>3. QED
      BY <3>1, <3>2, <1>q
  <2>3. CASE DirectDraws(u)
    <3>1. stagedIn'[u] = stagedIn[u] /\ staging'[u] = staging[u] /\ touched'[u] = touched[u]
      BY <2>3 DEF DirectDraws, workVars
    <3>2. pc[u] \in Quiet /\ pc'[u] \in Quiet /\ op'[u] # "refused"
      BY <2>3, <1>r DEF DirectDraws, Become, Draw, HoldsAll, CallsTyped, Quiet
    <3>3. QED
      BY <3>1, <3>2, <1>q
  <2>4. CASE DirectLands(u)
    <3>1. stagedIn'[u] = stagedIn[u] /\ staging'[u] = staging[u] /\ touched'[u] = touched[u]
      BY <2>4 DEF DirectLands, workVars
    <3>2. pc[u] \in Quiet /\ pc'[u] \in Quiet /\ op'[u] # "refused"
      BY <2>4, <1>r DEF DirectLands, Become, Draw, HoldsAll, CallsTyped, Quiet
    <3>3. QED
      BY <3>1, <3>2, <1>q
  <2>5. CASE DirectFinishes(u)
    <3>1. stagedIn'[u] = stagedIn[u] /\ staging'[u] = staging[u] /\ touched'[u] = touched[u]
      BY <2>5 DEF DirectFinishes, Refuse, workVars
    <3>2. pc[u] \in Quiet /\ pc'[u] \in Quiet /\ op'[u] # "refused"
      BY <2>5, ReturnedTo DEF DirectFinishes, Refuse, HoldsAll, Quiet
    <3>3. QED
      BY <3>1, <3>2, <1>q
  <2>6. QED
    BY <1>3, <2>1, <2>2, <2>3, <2>4, <2>5 DEF WritesDirectly
<1>4. CASE WalksAll(u)
  <2>1. CASE \E kind \in WholeWrites \cup {"walk"} : Whole(u, kind)
    <3>1. stagedIn'[u] = stagedIn[u] /\ staging'[u] = staging[u] /\ touched'[u] = touched[u]
      BY <2>1 DEF Whole, workVars
    <3>2. pc[u] \in Quiet /\ pc'[u] \in Quiet /\ op'[u] # "refused"
      BY <2>1, LockedTo DEF Whole, Calling, DirectWrites, WholeWrites, Quiet
    <3>3. QED
      BY <3>1, <3>2, <1>q
  <2>2. CASE WalkEnds(u)
    <3>1. stagedIn'[u] = stagedIn[u] /\ staging'[u] = staging[u] /\ touched'[u] = touched[u]
      BY <2>2 DEF WalkEnds, Refuse, workVars
    <3>2. pc[u] \in Quiet /\ pc'[u] \in Quiet /\ op'[u] # "refused"
      BY <2>2, ReturnedTo DEF WalkEnds, Refuse, HoldsAll, Quiet
    <3>3. QED
      BY <3>1, <3>2, <1>q
  <2>3. CASE EraseBegins(u)
    <3>1. stagedIn'[u] = stagedIn[u] /\ staging'[u] = staging[u] /\ touched'[u] = touched[u]
      BY <2>3 DEF EraseBegins, workVars
    <3>2. pc[u] \in Quiet /\ pc'[u] \in Quiet /\ op'[u] # "refused"
      BY <2>3, <1>r DEF EraseBegins, Become, Draw, HoldsAll, CallsTyped, Quiet
    <3>3. QED
      BY <3>1, <3>2, <1>q
  <2>4. CASE ErasePart(u)
    <3>1. stagedIn'[u] = stagedIn[u] /\ staging'[u] = staging[u] /\ touched'[u] = touched[u]
      BY <2>4 DEF ErasePart, workVars
    <3>2. pc[u] \in Quiet /\ pc'[u] \in Quiet /\ op'[u] # "refused"
      BY <2>4, <1>r DEF ErasePart, Quiet
    <3>3. QED
      BY <3>1, <3>2, <1>q
  <2>5. CASE EraseEnds(u)
    <3>1. stagedIn'[u] = stagedIn[u] /\ staging'[u] = staging[u] /\ touched'[u] = touched[u]
      BY <2>5 DEF EraseEnds, Refuse, workVars
    <3>2. pc[u] \in Quiet /\ pc'[u] \in Quiet /\ op'[u] # "refused"
      BY <2>5, ReturnedTo DEF EraseEnds, Refuse, HoldsAll, Quiet
    <3>3. QED
      BY <3>1, <3>2, <1>q
  <2>6. CASE PopSmallest(u)
    <3>1. stagedIn'[u] = stagedIn[u] /\ staging'[u] = staging[u] /\ touched'[u] = touched[u]
      BY <2>6 DEF PopSmallest, Refuse, workVars
    <3>2. pc[u] \in Quiet /\ pc'[u] \in Quiet /\ op'[u] # "refused"
      BY <2>6, ReturnedTo DEF PopSmallest, Refuse, HoldsAll, Quiet
    <3>3. QED
      BY <3>1, <3>2, <1>q
  <2>7. CASE \E kind \in {"vacuum", "clear"} : Sweep(u, kind)
    <3>1. stagedIn'[u] = stagedIn[u] /\ staging'[u] = staging[u] /\ touched'[u] = touched[u]
      BY <2>7 DEF Sweep, workVars
    <3>2. pc[u] \in Quiet /\ pc'[u] \in Quiet /\ op'[u] # "refused"
      BY <2>7, <1>r, Moved, MovedKind DEF Sweep, Quiet, Calling
    <3>3. QED
      BY <3>1, <3>2, <1>q
  <2>8. CASE VacuumPart(u)
    <3>1. stagedIn'[u] = stagedIn[u] /\ staging'[u] = staging[u] /\ touched'[u] = touched[u]
      BY <2>8 DEF VacuumPart, workVars
    <3>2. pc[u] \in Quiet /\ pc'[u] \in Quiet /\ op'[u] # "refused"
      BY <2>8, <1>r, VisitMoved, Moved, MovedKind DEF VacuumPart, Visiting, Visited, Quiet
    <3>3. QED
      BY <3>1, <3>2, <1>q
  <2>9. CASE ClearPart(u)
    <3>1. stagedIn'[u] = stagedIn[u] /\ staging'[u] = staging[u] /\ touched'[u] = touched[u]
      BY <2>9 DEF ClearPart, workVars
    <3>2. pc[u] \in Quiet /\ pc'[u] \in Quiet /\ op'[u] # "refused"
      BY <2>9, <1>r, Moved, MovedKind DEF ClearPart, Visiting, Quiet
    <3>3. QED
      BY <3>1, <3>2, <1>q
  <2>10. QED
    BY <1>4, <2>1, <2>2, <2>3, <2>4, <2>5, <2>6, <2>7, <2>8, <2>9 DEF WalksAll
<1>5. QED
  BY <1>1, <1>2, <1>3, <1>4 DEF OwnStep

Staged == \A t \in Threads : StageBooks(t)

\* At first nothing is staged.
LEMMA InitStaged == Init => Staged
BY DEF Init, Staged, StageBooks, Quiet

\* At the snapshot level the account of what is staged is inductive.
LEMMA NextStaged == ~RecordsReads => (Base /\ Staged /\ [Next]_vars => Staged')
<1> SUFFICES ASSUME ~RecordsReads, Base, Staged, [Next]_vars PROVE Staged'
  OBVIOUS
<1>1. CASE UNCHANGED vars
  <2>1. pc' = pc /\ op' = op /\ todo' = todo /\ stagedIn' = stagedIn /\ staging' = staging /\ touched' = touched
    BY <1>1 DEF vars, callVars, workVars
  <2>2. QED
    BY <2>1 DEF Staged, StageBooks
<1>2. ASSUME NEW u \in Threads, OwnStep(u) PROVE Staged'
  <2>1. Typed /\ Step(u)
    BY <1>2, StepBase DEF Base
  <2>2. StageBooks(u)'
    BY <1>2, <2>1, StageBooksKept DEF Staged
  <2>3. ASSUME NEW t \in Threads, t # u PROVE StageBooks(t)'
    <3>1. SameCall(t) /\ SameWork(t)
      BY <1>2, <2>1, <2>3, OthersWait DEF Same
    <3>2. QED
      BY <3>1 DEF Staged, StageBooks, SameCall, SameWork
  <2>4. QED
    BY <2>2, <2>3 DEF Staged
<1>3. QED
  BY <1>1, <1>2 DEF Next, OwnStep

\* At the snapshot level a transaction is staged between calls in every part it reached,
\* or in none, whichever of stage, rollback, reset, commit and the destructor came last.
\* (The finds of the other levels mark a part after it was staged.)
THEOREM StagesStayWhole == Isolation = "snapshot" => (Spec => []StagedWhole)
<1> SUFFICES ASSUME Isolation = "snapshot" PROVE Spec => []StagedWhole
  OBVIOUS
<1>1. ~RecordsReads
  BY DEF RecordsReads
<1>2. Staged => StagedWhole
  BY DEF Staged, StageBooks, StagedWhole, Quiet
<1>3. QED
  BY <1>1, <1>2, InitStaged, NextStaged, PartitionsTyped, PTL DEF Spec


----------------------------------------------------------------------------
(* The cursor, whatever the threads do beside it.                          *)

\* A walk starts at a key or past the last one, and stops anywhere.
BoundsGiven == Bounds \subseteq (1..(KeyCount + 1)) \X (0..(KeyCount + 1))

\* The front of a partition has been read since the walk began.
Seeded(p) == phase \notin {"none", "seeding"} \/ (phase = "seeding" /\ p \notin left)

\* The fronts are keys of their partitions the walk has not come to.
FrontsAhead == \A p \in Partitions : fronts[p] # 0 => fronts[p] \in KeysOf(p) /\ position < fronts[p]

\* A key that was there all the while was handed over, or its partition's front is no farther.
KeptIsDue ==
    \A k \in kept :
        /\ k < bound /\ Present(k)
        /\ k <= position => k \in walked
        /\ k > position /\ Seeded(Bucket(k)) => fronts[Bucket(k)] # 0 /\ fronts[Bucket(k)] <= k

CursorBooks ==
    /\ CursorTypeOK /\ FrontsAhead /\ KeptIsDue
    /\ \A j \in walked : j <= position
    /\ phase = "none" => kept = {} /\ walked = {} /\ \A p \in Partitions : fronts[p] = 0
    /\ phase \notin {"seeding", "refreshing"} => loaded = 0
    /\ phase = "seeding" => left \ {loaded} \subseteq uncounted
    /\ phase = "handing" => Contributing # {}
    /\ phase = "ended" => kept \subseteq walked

\* The first of some keys, 0 for none.
LEMMA FirstOfIs ==
    ASSUME NEW ks \in SUBSET Keys
    PROVE  /\ FirstOf(ks) \in Keys \cup {0} /\ (FirstOf(ks) # 0 => FirstOf(ks) \in ks)
           /\ \A k \in ks : FirstOf(ks) # 0 /\ FirstOf(ks) <= k
<1>1. ks \in SUBSET Nat /\ 0 \notin ks
  BY DEF Keys
<1>2. CASE ks = {}
  BY <1>2 DEF FirstOf
<1>3. CASE ks # {}
  <2>1. FirstOf(ks) \in ks /\ \A k \in ks : FirstOf(ks) <= k
    BY <1>1, <1>3, LeastNatural DEF FirstOf
  <2>2. QED
    BY <1>1, <2>1
<1>4. QED
  BY <1>2, <1>3

\* The smallest front, when there is one.
LEMMA SmallestIs ==
    ASSUME fronts \in [Partitions -> Keys \cup {0}], Contributing # {}
    PROVE  /\ Smallest \in Contributing
           /\ \A q \in Contributing : fronts[Smallest] <= fronts[q]
<1> DEFINE F == {fronts[p] : p \in Contributing}
<1>1. F \in SUBSET Nat /\ F # {}
  BY DEF Contributing, Keys
<1>2. Min(F) \in F /\ \A x \in F : Min(F) <= x
  BY <1>1, LeastNatural
<1>3. \E p \in Contributing : \A q \in Contributing : fronts[p] <= fronts[q]
  BY <1>2
<1>4. QED
  BY <1>3, Zenon DEF Smallest

\* Steps of the store's threads count partitions and forget no count.
LEMMA CountsOnlyGrow == ASSUME Next PROVE uncounted \subseteq uncounted'
<1>1. PICK u \in Threads : Acquire(u) \/ Transacts(u) \/ WritesDirectly(u) \/ WalksAll(u)
  BY DEF Next
<1>2. CASE Acquire(u)
  BY <1>2 DEF Acquire
<1>3. CASE WritesDirectly(u)
  BY <1>3 DEF WritesDirectly, Direct, DirectRefused, Refuse, DirectDraws, DirectLands, DirectFinishes, Note, lockVars
<1>4. CASE WalksAll(u)
  BY <1>4 DEF WalksAll, Whole, WalkEnds, EraseBegins, ErasePart, EraseEnds, PopSmallest, Sweep, VacuumPart, ClearPart,
              Visited, Note, lockVars
<1>5. CASE Transacts(u)
  <2>1. CASE \/ Open(u) \/ OpenPart(u) \/ Settle(u) \/ Stage(u) \/ StagePart(u) \/ UndoPart(u)
             \/ Rollback(u) \/ RollbackPart(u)
    BY <2>1 DEF Open, OpenPart, Settle, Stage, StagePart, UndoPart, Rollback, RollbackPart, Visited, Note, lockVars
  <2>2. CASE Reset(u) \/ ResetPart(u) \/ Drop(u) \/ DropPart(u)
    BY <2>2 DEF Reset, ResetPart, Drop, DropPart, Visited, Note, lockVars
  <2>3. CASE \/ Commit(u) \/ CommitRefused(u) \/ CommitDraws(u) \/ CommitLands(u)
             \/ CommitMovesLease(u) \/ CommitPrunes(u)
    BY <2>3 DEF Commit, CommitRefused, Refuse, CommitDraws, CommitLands, CommitMovesLease, CommitPrunes, Visited, Note,
                lockVars
  <2>4. CASE Scan(u) \/ UnwriteAll(u) \/ UnwritePart(u)
    BY <2>4 DEF Scan, UnwriteAll, UnwritePart, Visited, Note, lockVars
  <2>5. CASE \E k \in Keys :
                \/ Read(u, k) \/ Write(u, k) \/ \E kind \in {"add", "revise", "unwrite"} : WriteChecked(u, k, kind)
    BY <2>5 DEF Read, Write, WriteChecked, lockVars
  <2>6. QED
    BY <1>5, <2>1, <2>2, <2>3, <2>4, <2>5 DEF Transacts
<1>6. QED
  BY <1>1, <1>2, <1>3, <1>4, <1>5

\* What a partition shows are its keys that are there.
LEMMA ShownIs ==
    ASSUME NEW p
    PROVE  /\ Shown(p) = {k \in Keys : Bucket(k) = p /\ Present(k)}
           /\ KeysOf(p) = {k \in Keys : Bucket(k) = p}
BY DEF Shown, KeysOf

\* A key is there or not by the versions and the watermark alone.
LEMMA PresentStays == ASSUME UNCHANGED storeVars PROVE \A k \in Keys : Present(k)' <=> Present(k)
<1>1. versions' = versions /\ drawn' = drawn /\ writing' = writing
  BY DEF storeVars, dataVars
<1>2. Watermark' = Watermark
  BY <1>1 DEF Watermark
<1>3. QED
  BY <1>1, <1>2 DEF Present

\* The cursor before its walk.
LEMMA InitCursor == CursorInit => CursorBooks
<1>1. ASSUME CursorInit PROVE CursorBooks
  <2>1. /\ phase = "none" /\ loaded = 0 /\ left = {} /\ position = 0 /\ bound = 0
        /\ fronts = [p \in Partitions |-> 0] /\ walked = {} /\ kept = {}
    BY <1>1 DEF CursorInit
  <2>2. KeyCount \in Nat
    BY PartitionedAssumption
  <2>3. CursorTypeOK
    BY <2>1, <2>2 DEF CursorTypeOK
  <2>4. FrontsAhead /\ KeptIsDue
    BY <2>1 DEF FrontsAhead, KeptIsDue
  <2>5. QED
    BY <2>1, <2>3, <2>4 DEF CursorBooks
<1>2. QED
  BY <1>1

\* Opening: every front is still to be read, and every count to be loaded.
LEMMA OpenCursorKeeps == ASSUME CursorBooks, BoundsGiven, OpenCursor PROVE CursorBooks'
<1>1. /\ phase = "none" /\ kept = {} /\ walked = {} /\ loaded = 0 /\ \A p \in Partitions : fronts[p] = 0
      /\ fronts \in [Partitions -> Keys \cup {0}]
  BY DEF CursorBooks, CursorTypeOK, OpenCursor
<1>2. PICK b \in Bounds : position' = b[1] - 1 /\ bound' = b[2]
  BY DEF OpenCursor
<1>3. /\ phase' = "seeding" /\ left' = Partitions /\ uncounted' = Partitions
      /\ kept' = {k \in WithinWalk' : Present(k)}
      /\ loaded' = loaded /\ fronts' = fronts /\ walked' = walked /\ UNCHANGED storeVars
  BY DEF OpenCursor
<1>4. KeyCount \in Nat /\ b[1] \in 1..(KeyCount + 1) /\ b[2] \in 0..(KeyCount + 1)
  BY <1>2, PartitionedAssumption DEF BoundsGiven
<1>5. position' \in Keys \cup {0} /\ bound' \in 0..(KeyCount + 1)
  BY <1>2, <1>4 DEF Keys
<1>6. kept' = {k \in Keys : k > position' /\ k < bound' /\ Present(k)}
  BY <1>3 DEF WithinWalk
<1>7. CursorTypeOK'
  BY <1>1, <1>3, <1>5, <1>6 DEF CursorTypeOK
<1>8. FrontsAhead'
  BY <1>1, <1>3 DEF FrontsAhead
<1>9. KeptIsDue'
  <2>1. ASSUME NEW k \in kept'
        PROVE  k < bound' /\ Present(k)' /\ ~(k <= position') /\ ~Seeded(Bucket(k))'
    <3>1. k \in Keys /\ k > position' /\ k < bound' /\ Present(k)
      BY <1>6, <2>1
    <3>2. Present(k)'
      BY <1>3, <3>1, PresentStays
    <3>3. Bucket(k) \in Partitions
      BY <3>1, BucketIs
    <3>4. ~Seeded(Bucket(k))'
      BY <1>3, <3>3 DEF Seeded
    <3>5. ~(k <= position')
      BY <1>5, <3>1 DEF Keys
    <3>6. QED
      BY <3>1, <3>2, <3>4, <3>5
  <2>2. QED
    BY <2>1 DEF KeptIsDue
<1>10. QED
  BY <1>1, <1>3, <1>7, <1>8, <1>9 DEF CursorBooks

\* Loading a count, or keeping the front of a partition whose count is unmoved.
LEMMA CheckCountKeeps == ASSUME CursorBooks, CheckCount PROVE CursorBooks'
<1> DEFINE p == Min(left)
<1>1. /\ phase \in {"seeding", "refreshing"} /\ loaded = 0 /\ left # {} /\ left \subseteq Partitions
      /\ phase' = phase /\ fronts' = fronts /\ position' = position /\ bound' = bound
      /\ walked' = walked /\ kept' = kept /\ UNCHANGED storeVars
      /\ IF p \in uncounted THEN uncounted' = uncounted \ {p} /\ loaded' = p /\ left' = left
                            ELSE left' = left \ {p} /\ loaded' = loaded /\ uncounted' = uncounted
  BY DEF CheckCount, CursorBooks, CursorTypeOK
<1>2. p \in left /\ p \in Partitions /\ p # 0
  <2>1. left \in SUBSET Nat /\ 0 \notin left
    BY <1>1 DEF Partitions
  <2>2. QED
    BY <1>1, <2>1, LeastNatural
<1> HIDE DEF p
<1>3. CursorTypeOK'
  <2>1. loaded' \in left' \cup {0} /\ left' \subseteq Partitions
    BY <1>1, <1>2
  <2>2. QED
    BY <1>1, <2>1 DEF CursorBooks, CursorTypeOK
<1>4. FrontsAhead'
  BY <1>1 DEF CursorBooks, FrontsAhead
<1>5. phase = "seeding" => left' = left
  <2>1. phase = "seeding" => p \in uncounted
    BY <1>1, <1>2 DEF CursorBooks
  <2>2. QED
    BY <1>1, <2>1
<1>6. KeptIsDue'
  <2>1. ASSUME NEW k \in kept
        PROVE  k \in Keys /\ (Present(k)' <=> Present(k)) /\ (Seeded(Bucket(k))' <=> Seeded(Bucket(k)))
    <3>1. k \in Keys
      BY DEF CursorBooks, CursorTypeOK
    <3>2. QED
      BY <1>1, <1>5, <3>1, PresentStays DEF Seeded
  <2>2. QED
    BY <1>1, <2>1 DEF CursorBooks, KeptIsDue
<1>7. phase' = "seeding" => left' \ {loaded'} \subseteq uncounted'
  <2>1. ASSUME phase = "seeding" PROVE left' \ {loaded'} \subseteq uncounted'
    <3>1. left \ {loaded} \subseteq uncounted /\ 0 \notin left
      BY <1>1, <2>1 DEF CursorBooks, Partitions
    <3>2. p \in uncounted
      BY <1>1, <1>2, <3>1
    <3>3. uncounted' = uncounted \ {p} /\ loaded' = p /\ left' = left /\ left \subseteq uncounted
      BY <1>1, <3>1, <3>2
    <3>4. QED
      BY <3>3
  <2>2. QED
    BY <1>1, <2>1
<1>8. QED
  BY <1>1, <1>3, <1>4, <1>6, <1>7 DEF CursorBooks

\* Reading a front: no key that was there all the while lies between the walk and it.
LEMMA SeedFrontKeeps == ASSUME CursorBooks, SeedFront PROVE CursorBooks'
<1>1. /\ loaded # 0 /\ fronts' = [fronts EXCEPT ![loaded] = NextShown(loaded, position)]
      /\ left' = left \ {loaded} /\ loaded' = 0 /\ uncounted' = uncounted
      /\ phase' = phase /\ position' = position /\ bound' = bound
      /\ walked' = walked /\ kept' = kept /\ UNCHANGED storeVars
  BY DEF SeedFront
<1>2. /\ loaded \in Partitions /\ left \subseteq Partitions /\ fronts \in [Partitions -> Keys \cup {0}]
      /\ position \in Nat
  BY <1>1 DEF CursorBooks, CursorTypeOK, Keys
<1> DEFINE f == NextShown(loaded, position)
<1>3. /\ f \in Keys \cup {0} /\ (f # 0 => f \in KeysOf(loaded) /\ position < f)
      /\ \A k \in Keys : Bucket(k) = loaded /\ Present(k) /\ k > position => f # 0 /\ f <= k
  <2> DEFINE ks == {j \in Shown(loaded) : j > position}
  <2>1. ks = {k \in Keys : Bucket(k) = loaded /\ Present(k) /\ k > position}
    BY ShownIs
  <2>2. f = FirstOf(ks)
    BY DEF NextShown
  <2>3. ks \in SUBSET Keys
    BY <2>1
  <2> HIDE DEF ks, f
  <2>4. f \in Keys \cup {0} /\ (f # 0 => f \in ks) /\ \A k \in ks : f # 0 /\ f <= k
    BY <2>2, <2>3, FirstOfIs
  <2>5. \A k \in ks : k \in KeysOf(loaded) /\ position < k
    BY <1>2, <2>1, ShownIs DEF Keys
  <2>6. QED
    BY <2>1, <2>4, <2>5
<1> HIDE DEF f
<1>4. /\ fronts' \in [Partitions -> Keys \cup {0}]
      /\ \A q \in Partitions : fronts'[q] = IF q = loaded THEN f ELSE fronts[q]
  BY <1>1, <1>2, <1>3 DEF f
<1>5. CursorTypeOK'
  BY <1>1, <1>4 DEF CursorBooks, CursorTypeOK
<1>6. FrontsAhead'
  BY <1>1, <1>3, <1>4 DEF CursorBooks, FrontsAhead
<1>7. KeptIsDue'
  <2>1. ASSUME NEW k \in kept
        PROVE  /\ k < bound /\ Present(k)' /\ (k <= position => k \in walked)
               /\ k > position /\ Seeded(Bucket(k))' => fronts'[Bucket(k)] # 0 /\ fronts'[Bucket(k)] <= k
    <3>1. /\ k \in Keys /\ Bucket(k) \in Partitions /\ k < bound /\ Present(k)
          /\ k <= position => k \in walked
          /\ k > position /\ Seeded(Bucket(k)) => fronts[Bucket(k)] # 0 /\ fronts[Bucket(k)] <= k
      BY BucketIs DEF CursorBooks, CursorTypeOK, KeptIsDue
    <3>2. Present(k)'
      BY <1>1, <3>1, PresentStays
    <3>3. CASE Bucket(k) = loaded
      BY <1>3, <1>4, <3>1, <3>2, <3>3
    <3>4. CASE Bucket(k) # loaded
      <4>1. Seeded(Bucket(k))' <=> Seeded(Bucket(k))
        BY <1>1, <3>4 DEF Seeded
      <4>2. QED
        BY <1>4, <3>1, <3>2, <3>4, <4>1
    <3>5. QED
      BY <3>3, <3>4
  <2>2. QED
    BY <1>1, <2>1 DEF KeptIsDue
<1>8. phase \in {"seeding", "refreshing"}
  BY <1>1 DEF CursorBooks
<1>9. QED
  BY <1>1, <1>5, <1>6, <1>7, <1>8 DEF CursorBooks

\* The last front read: every one counts from here on.
LEMMA SeedsEndKeeps == ASSUME CursorBooks, SeedsEnd PROVE CursorBooks'
<1>1. /\ phase = "seeding" /\ left = {} /\ phase' = "standing" /\ uncounted' = uncounted /\ loaded' = loaded
      /\ left' = left /\ fronts' = fronts /\ position' = position /\ bound' = bound
      /\ walked' = walked /\ kept' = kept /\ UNCHANGED storeVars
  BY DEF SeedsEnd
<1>2. CursorTypeOK' /\ FrontsAhead' /\ loaded' = 0
  BY <1>1 DEF CursorBooks, CursorTypeOK, FrontsAhead
<1>3. KeptIsDue'
  <2>1. ASSUME NEW k \in kept PROVE Seeded(Bucket(k)) /\ (Present(k)' <=> Present(k))
    <3>1. k \in Keys
      BY DEF CursorBooks, CursorTypeOK
    <3>2. QED
      BY <1>1, <3>1, PresentStays DEF Seeded
  <2>2. QED
    BY <1>1, <2>1 DEF CursorBooks, KeptIsDue
<1>4. QED
  BY <1>1, <1>2, <1>3 DEF CursorBooks

\* The choice: when the least front is none, or past the bound, no kept key is ahead.
LEMMA ChooseSmallestKeeps == ASSUME CursorBooks, ChooseSmallest PROVE CursorBooks'
<1>1. /\ phase = "refreshing" /\ left = {} /\ uncounted' = uncounted /\ loaded' = loaded
      /\ left' = left /\ fronts' = fronts /\ position' = position /\ bound' = bound
      /\ walked' = walked /\ kept' = kept /\ UNCHANGED storeVars
      /\ phase' = IF Contributing = {} \/ fronts[Smallest] >= bound THEN "ended" ELSE "handing"
  BY DEF ChooseSmallest
<1>2. CursorTypeOK' /\ FrontsAhead' /\ loaded' = 0 /\ phase' \in {"ended", "handing"}
  BY <1>1 DEF CursorBooks, CursorTypeOK, FrontsAhead
<1>3. fronts \in [Partitions -> Keys \cup {0}] /\ position \in Nat /\ bound \in Nat
  BY PartitionedAssumption DEF CursorBooks, CursorTypeOK, Keys
<1>4. \A k \in kept : Seeded(Bucket(k)) /\ k \in Keys /\ Bucket(k) \in Partitions /\ (Present(k)' <=> Present(k))
  <2>1. ASSUME NEW k \in kept PROVE k \in Keys
    BY DEF CursorBooks, CursorTypeOK
  <2>2. QED
    BY <1>1, <2>1, BucketIs, PresentStays DEF Seeded
<1>5. KeptIsDue'
  <2>1. \A q \in Partitions : Seeded(q)'
    BY <1>2 DEF Seeded
  <2>2. QED
    BY <1>1, <1>4 DEF CursorBooks, KeptIsDue
<1>6. phase' = "handing" => Contributing' # {}
  BY <1>1 DEF Contributing
<1>7. phase' = "ended" => kept' \subseteq walked'
  <2>1. ASSUME phase' = "ended", NEW k \in kept PROVE k \in walked
    <3>1. k < bound /\ (k <= position => k \in walked) /\ k \in Nat
      BY <1>4 DEF CursorBooks, KeptIsDue, Keys
    <3>2. CASE k > position
      <4>1. fronts[Bucket(k)] # 0 /\ fronts[Bucket(k)] <= k
        BY <1>4, <3>2 DEF CursorBooks, KeptIsDue
      <4>2. Bucket(k) \in Contributing
        BY <1>4, <4>1 DEF Contributing
      <4>3. Smallest \in Contributing /\ fronts[Smallest] <= fronts[Bucket(k)]
        BY <1>3, <4>2, SmallestIs
      <4>4. fronts[Smallest] >= bound
        BY <1>1, <2>1, <4>2
      <4>5. Smallest \in Partitions
        BY <4>3 DEF Contributing
      <4>6. fronts[Smallest] \in Nat /\ fronts[Bucket(k)] \in Nat
        BY <1>3, <1>4, <4>5 DEF Keys
      <4>7. QED
        BY <1>3, <3>1, <4>1, <4>3, <4>4, <4>6
    <3>3. QED
      BY <1>3, <3>1, <3>2
  <2>2. QED
    BY <1>1, <2>1
<1>8. QED
  BY <1>1, <1>2, <1>5, <1>6, <1>7 DEF CursorBooks

\* The next call: the counts are looked at again, and the fronts as they stand still count.
LEMMA NextKeyKeeps == ASSUME CursorBooks, NextKey PROVE CursorBooks'
<1>1. /\ phase \in {"standing", "ended"} /\ phase' = "refreshing" /\ left' = Partitions
      /\ uncounted' = uncounted /\ loaded' = loaded
      /\ fronts' = fronts /\ position' = position /\ bound' = bound
      /\ walked' = walked /\ kept' = kept /\ UNCHANGED storeVars
  BY DEF NextKey
<1>2. CursorTypeOK' /\ FrontsAhead'
  BY <1>1 DEF CursorBooks, CursorTypeOK, FrontsAhead
<1>3. KeptIsDue'
  <2>1. ASSUME NEW k \in kept PROVE Seeded(Bucket(k)) /\ (Present(k)' <=> Present(k))
    <3>1. k \in Keys
      BY DEF CursorBooks, CursorTypeOK
    <3>2. QED
      BY <1>1, <3>1, PresentStays DEF Seeded
  <2>2. QED
    BY <1>1, <2>1 DEF CursorBooks, KeptIsDue
<1>4. QED
  BY <1>1, <1>2, <1>3 DEF CursorBooks

\* Steps of the threads: the kept keys only grow fewer, and those left are there.
LEMMA StoreStepKeeps == ASSUME CursorBooks, StoreStep PROVE CursorBooks'
<1>1. /\ kept' = {k \in kept : Present(k)'} /\ phase' = phase /\ loaded' = loaded /\ left' = left
      /\ fronts' = fronts /\ position' = position /\ bound' = bound /\ walked' = walked
      /\ uncounted \subseteq uncounted'
  BY CountsOnlyGrow DEF StoreStep
<1>2. CursorTypeOK' /\ FrontsAhead'
  BY <1>1 DEF CursorBooks, CursorTypeOK, FrontsAhead
<1>3. KeptIsDue'
  <2>1. ASSUME NEW k \in kept' PROVE k \in kept /\ Present(k)' /\ (Seeded(Bucket(k))' <=> Seeded(Bucket(k)))
    BY <1>1 DEF Seeded
  <2>2. QED
    BY <1>1, <2>1 DEF CursorBooks, KeptIsDue
<1>4. phase' = "none" => kept' = {} /\ walked' = {} /\ \A p \in Partitions : fronts'[p] = 0
  BY <1>1 DEF CursorBooks
<1>5. /\ phase' = "seeding" => left' \ {loaded'} \subseteq uncounted'
      /\ phase' = "handing" => Contributing' # {}
      /\ phase' = "ended" => kept' \subseteq walked'
      /\ phase' \notin {"seeding", "refreshing"} => loaded' = 0
      /\ \A j \in walked' : j <= position'
  BY <1>1 DEF CursorBooks, Contributing
<1>6. QED
  BY <1>2, <1>3, <1>4, <1>5 DEF CursorBooks

\* No step of either.
LEMMA CursorStutters == ASSUME CursorBooks, UNCHANGED <<vars, cursorVars>> PROVE CursorBooks'
<1>1. /\ kept' = kept /\ phase' = phase /\ loaded' = loaded /\ left' = left
      /\ fronts' = fronts /\ position' = position /\ bound' = bound /\ walked' = walked
      /\ uncounted' = uncounted /\ versions' = versions /\ drawn' = drawn /\ writing' = writing
  BY DEF vars, cursorVars, dataVars, lockVars
<1>2. CursorTypeOK' /\ FrontsAhead'
  BY <1>1 DEF CursorBooks, CursorTypeOK, FrontsAhead
<1>3. KeptIsDue'
  BY <1>1 DEF CursorBooks, KeptIsDue, Seeded, Present, Watermark
<1>4. QED
  BY <1>1, <1>2, <1>3 DEF CursorBooks, Contributing

\* What the hand-over finds at the front of the nearest partition.
LEMMA FrontFound ==
    ASSUME NEW p, NEW f \in Keys
    PROVE  /\ Landed(p, f) \in Keys \cup {0}
           /\ Landed(p, f) # 0 => Landed(p, f) \in KeysOf(p) /\ f <= Landed(p, f)
           /\ \A k \in Keys : Bucket(k) = p /\ Present(k) /\ f <= k => Landed(p, f) # 0 /\ Landed(p, f) <= k
<1> DEFINE ks == {j \in Shown(p) : j >= f}
           l == Landed(p, f)
<1>1. l = FirstOf(ks)
  BY DEF Landed
<1>2. ks = {k \in Keys : Bucket(k) = p /\ Present(k) /\ k >= f}
  BY ShownIs
<1>3. ks \in SUBSET Keys /\ \A k \in ks : k \in KeysOf(p) /\ f <= k
  BY <1>2, ShownIs DEF Keys
<1>4. \A k \in Keys : f <= k => k >= f
  BY DEF Keys
<1> HIDE DEF ks, l
<1>5. l \in Keys \cup {0} /\ (l # 0 => l \in ks) /\ \A k \in ks : l # 0 /\ l <= k
  BY <1>1, <1>3, FirstOfIs
<1>6. /\ l \in Keys \cup {0} /\ (l # 0 => l \in KeysOf(p) /\ f <= l)
      /\ \A k \in Keys : Bucket(k) = p /\ Present(k) /\ f <= k => l # 0 /\ l <= k
  BY <1>2, <1>3, <1>4, <1>5
<1>7. QED
  BY <1>6 DEF l

\* What refills a front.
LEMMA NextShownIs ==
    ASSUME NEW p, NEW at \in Keys \cup {0}
    PROVE  /\ NextShown(p, at) \in Keys \cup {0}
           /\ NextShown(p, at) # 0 => NextShown(p, at) \in KeysOf(p) /\ at < NextShown(p, at)
           /\ \A k \in Keys : Bucket(k) = p /\ Present(k) /\ k > at =>
                                  NextShown(p, at) # 0 /\ NextShown(p, at) <= k
<1> DEFINE ks == {j \in Shown(p) : j > at}
           f == NextShown(p, at)
<1>1. ks = {k \in Keys : Bucket(k) = p /\ Present(k) /\ k > at}
  BY ShownIs
<1>2. f = FirstOf(ks)
  BY DEF NextShown
<1>3. ks \in SUBSET Keys /\ \A k \in ks : k \in KeysOf(p) /\ at < k
  BY <1>1, ShownIs DEF Keys
<1> HIDE DEF ks, f
<1>4. f \in Keys \cup {0} /\ (f # 0 => f \in ks) /\ \A k \in ks : f # 0 /\ f <= k
  BY <1>2, <1>3, FirstOfIs
<1>5. /\ f \in Keys \cup {0} /\ (f # 0 => f \in KeysOf(p) /\ at < f)
      /\ \A k \in Keys : Bucket(k) = p /\ Present(k) /\ k > at => f # 0 /\ f <= k
  BY <1>1, <1>3, <1>4
<1>6. QED
  BY <1>5 DEF f

\* Handing over: the nearest front is no farther than any kept key, so the key handed over
\* is the next of them or comes before all of them; a front raised instead stays at or before them.
LEMMA HandOverKeeps ==
    ASSUME CursorBooks, HandOver
    PROVE  CursorBooks' /\ (phase' = "standing" => position < position' /\ \A j \in walked : j < position')
<1> DEFINE p == Smallest
           found == Landed(p, fronts[p])
           next == NextShown(p, found)
<1>1. /\ phase = "handing" /\ uncounted' = uncounted \ {p} /\ loaded' = loaded /\ bound' = bound /\ kept' = kept
      /\ UNCHANGED storeVars
      /\ IF found = fronts[p]
         THEN /\ position' = found /\ walked' = walked \cup {found}
              /\ fronts' = [fronts EXCEPT ![p] = next]
              /\ phase' = "standing" /\ left' = left
         ELSE /\ fronts' = [fronts EXCEPT ![p] = found]
              /\ phase' = "refreshing" /\ left' = Partitions
              /\ position' = position /\ walked' = walked
  BY DEF HandOver
<1>2. /\ fronts \in [Partitions -> Keys \cup {0}] /\ left \subseteq Partitions /\ loaded = 0
      /\ position \in Keys \cup {0} /\ bound \in 0..(KeyCount + 1) /\ walked \subseteq Keys /\ kept \subseteq Keys
      /\ \A j \in walked : j <= position
  BY <1>1 DEF CursorBooks, CursorTypeOK
<1>3. /\ p \in Partitions /\ fronts[p] \in Keys /\ fronts[p] \in KeysOf(p) /\ position < fronts[p]
      /\ \A q \in Partitions : fronts[q] # 0 => fronts[p] <= fronts[q]
  <2>1. p \in Contributing /\ \A q \in Contributing : fronts[p] <= fronts[q]
    BY <1>1, <1>2, SmallestIs DEF CursorBooks
  <2>2. p \in Partitions /\ fronts[p] # 0 /\ \A q \in Partitions : fronts[q] # 0 => fronts[p] <= fronts[q]
    BY <2>1 DEF Contributing
  <2>3. fronts[p] \in KeysOf(p) /\ position < fronts[p]
    BY <2>2 DEF CursorBooks, FrontsAhead
  <2>4. QED
    BY <1>2, <2>2, <2>3
<1> HIDE DEF p
<1>4. /\ found \in Keys \cup {0} /\ (found # 0 => found \in KeysOf(p) /\ fronts[p] <= found)
      /\ \A k \in Keys : Bucket(k) = p /\ Present(k) /\ fronts[p] <= k => found # 0 /\ found <= k
  BY <1>3, FrontFound
<1> HIDE DEF found
<1>5. /\ next \in Keys \cup {0} /\ (next # 0 => next \in KeysOf(p) /\ found < next)
      /\ \A k \in Keys : Bucket(k) = p /\ Present(k) /\ k > found => next # 0 /\ next <= k
  BY <1>4, NextShownIs
<1> HIDE DEF next
<1>6. \A k \in kept :
         /\ k \in Keys /\ k \in Nat /\ Bucket(k) \in Partitions /\ k < bound /\ Present(k) /\ Present(k)'
         /\ k <= position => k \in walked
         /\ k > position => fronts[Bucket(k)] # 0 /\ fronts[Bucket(k)] <= k /\ fronts[p] <= k
  <2>1. ASSUME NEW k \in kept
        PROVE  /\ k \in Keys /\ k \in Nat /\ Bucket(k) \in Partitions /\ k < bound /\ Present(k) /\ Present(k)'
               /\ k <= position => k \in walked
               /\ k > position => fronts[Bucket(k)] # 0 /\ fronts[Bucket(k)] <= k /\ fronts[p] <= k
    <3>1. k \in Keys /\ k \in Nat /\ Bucket(k) \in Partitions
      BY <1>2, BucketIs DEF Keys
    <3>2. Seeded(Bucket(k))
      BY <1>1 DEF Seeded
    <3>3. /\ k < bound /\ Present(k) /\ (k <= position => k \in walked)
          /\ k > position => fronts[Bucket(k)] # 0 /\ fronts[Bucket(k)] <= k
      BY <3>2 DEF CursorBooks, KeptIsDue
    <3>4. Present(k)'
      BY <1>1, <3>1, <3>3, PresentStays
    <3>5. ASSUME k > position PROVE fronts[p] <= k
      <4>1. fronts[Bucket(k)] # 0 /\ fronts[Bucket(k)] <= k /\ fronts[p] <= fronts[Bucket(k)]
        BY <1>3, <3>1, <3>3, <3>5
      <4>2. fronts[p] \in Nat /\ fronts[Bucket(k)] \in Nat
        BY <1>2, <1>3, <3>1 DEF Keys
      <4>3. QED
        BY <3>1, <4>1, <4>2
    <3>6. QED
      BY <3>1, <3>3, <3>4, <3>5
  <2>2. QED
    BY <2>1
<1>7. \A q \in Partitions : (fronts[q] # 0 => fronts[q] \in KeysOf(q)) /\ fronts[q] \in Nat
  BY <1>2 DEF CursorBooks, FrontsAhead, Keys
<1>8. \A k \in Nat, q \in Partitions : k \in KeysOf(q) <=> k \in Keys /\ Bucket(k) = q
  BY ShownIs
<1>9. CASE found = fronts[p]
  <2>1. /\ position' = found /\ walked' = walked \cup {found} /\ phase' = "standing" /\ left' = left
        /\ fronts' = [fronts EXCEPT ![p] = next]
    BY <1>1, <1>9
  <2>2. /\ found \in Keys /\ position < found /\ found \in Nat /\ position \in Nat
        /\ \A q \in Partitions : fronts'[q] = IF q = p THEN next ELSE fronts[q]
        /\ fronts' \in [Partitions -> Keys \cup {0}]
    BY <1>2, <1>3, <1>5, <1>9, <2>1 DEF Keys
  <2>3. CursorTypeOK'
    BY <1>1, <1>2, <2>1, <2>2 DEF CursorTypeOK
  <2>4. \A q \in Partitions : q # p /\ fronts[q] # 0 => found < fronts[q]
    <3>1. ASSUME NEW q \in Partitions, q # p, fronts[q] # 0 PROVE found < fronts[q]
      <4>1. found <= fronts[q] /\ fronts[q] \in Nat
        BY <1>3, <1>7, <1>9, <3>1
      <4>2. found # fronts[q]
        BY <1>3, <1>7, <1>8, <1>9, <2>2, <3>1
      <4>3. QED
        BY <2>2, <4>1, <4>2
    <3>2. QED
      BY <3>1
  <2>5. FrontsAhead'
    BY <1>5, <1>7, <2>1, <2>2, <2>4 DEF FrontsAhead, KeysOf
  <2>6. KeptIsDue'
    <3>1. ASSUME NEW k \in kept
          PROVE  /\ k < bound /\ Present(k)' /\ (k <= found => k \in walked')
                 /\ k > found => fronts'[Bucket(k)] # 0 /\ fronts'[Bucket(k)] <= k
      <4>1. /\ k \in Keys /\ k \in Nat /\ Bucket(k) \in Partitions /\ k < bound /\ Present(k) /\ Present(k)'
            /\ k <= position => k \in walked
            /\ k > position => fronts[Bucket(k)] # 0 /\ fronts[Bucket(k)] <= k /\ found <= k
        BY <1>6, <1>9
      <4>2. k <= found => k \in walked'
        BY <2>1, <2>2, <4>1
      <4>3. k > found => k > position
        BY <2>2, <4>1
      <4>4. CASE Bucket(k) = p
        BY <1>5, <2>2, <4>1, <4>2, <4>4
      <4>5. CASE Bucket(k) # p
        BY <2>2, <4>1, <4>2, <4>3, <4>5
      <4>6. QED
        BY <4>4, <4>5
    <3>2. QED
      BY <1>1, <2>1, <3>1 DEF KeptIsDue
  <2>7. \A j \in walked : j < found
    <3>1. \A j \in walked : j \in Nat /\ j <= position
      BY <1>2 DEF Keys
    <3>2. QED
      BY <2>2, <3>1
  <2>8. \A j \in walked' : j <= position'
    BY <2>1, <2>2, <2>7, <1>2 DEF Keys
  <2>9. QED
    BY <1>1, <1>2, <2>1, <2>2, <2>3, <2>5, <2>6, <2>7, <2>8 DEF CursorBooks
<1>10. CASE found # fronts[p]
  <2>1. /\ position' = position /\ walked' = walked /\ phase' = "refreshing" /\ left' = Partitions
        /\ fronts' = [fronts EXCEPT ![p] = found]
    BY <1>1, <1>10
  <2>2. /\ \A q \in Partitions : fronts'[q] = IF q = p THEN found ELSE fronts[q]
        /\ fronts' \in [Partitions -> Keys \cup {0}]
    BY <1>2, <1>3, <1>4, <2>1
  <2>3. CursorTypeOK'
    BY <1>1, <1>2, <2>1, <2>2 DEF CursorTypeOK
  <2>4. found # 0 => found \in KeysOf(p) /\ position < found
    BY <1>2, <1>3, <1>4 DEF Keys
  <2>5. FrontsAhead'
    BY <2>1, <2>2, <2>4 DEF CursorBooks, FrontsAhead, KeysOf
  <2>6. KeptIsDue'
    <3>1. ASSUME NEW k \in kept
          PROVE  /\ k < bound /\ Present(k)' /\ (k <= position => k \in walked)
                 /\ k > position => fronts'[Bucket(k)] # 0 /\ fronts'[Bucket(k)] <= k
      <4>1. /\ k \in Keys /\ k \in Nat /\ Bucket(k) \in Partitions /\ k < bound /\ Present(k) /\ Present(k)'
            /\ k <= position => k \in walked
            /\ k > position => fronts[Bucket(k)] # 0 /\ fronts[Bucket(k)] <= k /\ fronts[p] <= k
        BY <1>6
      <4>2. CASE Bucket(k) = p
        BY <1>4, <2>2, <4>1, <4>2
      <4>3. CASE Bucket(k) # p
        BY <2>2, <4>1, <4>3
      <4>4. QED
        BY <4>2, <4>3
    <3>2. QED
      BY <1>1, <2>1, <3>1 DEF KeptIsDue
  <2>7. QED
    BY <1>1, <1>2, <2>1, <2>3, <2>5, <2>6 DEF CursorBooks
<1>11. QED
  BY <1>9, <1>10

\* Every step of the cursor and of the threads keeps the books.
LEMMA CursorKeeps == BoundsGiven => (CursorBooks /\ [CursorNext]_<<vars, cursorVars>> => CursorBooks')
<1>1. ASSUME BoundsGiven, CursorBooks, CursorNext PROVE CursorBooks'
  <2>1. CASE StoreStep
    BY <1>1, <2>1, StoreStepKeeps
  <2>2. CASE OpenCursor \/ CheckCount \/ SeedFront \/ SeedsEnd
    BY <1>1, <2>2, OpenCursorKeeps, CheckCountKeeps, SeedFrontKeeps, SeedsEndKeeps
  <2>3. CASE ChooseSmallest \/ HandOver \/ NextKey
    BY <1>1, <2>3, ChooseSmallestKeeps, HandOverKeeps, NextKeyKeeps
  <2>4. QED
    BY <1>1, <2>1, <2>2, <2>3 DEF CursorNext, CursorStep
<1>2. QED
  BY <1>1, CursorStutters

\* Only a hand-over leaves the walk standing after a choice.
LEMMA StepAscends == CursorBooks /\ [CursorNext]_<<vars, cursorVars>> => Ascends
<1>1. ASSUME CursorBooks, CursorNext, phase = "handing", phase' = "standing"
      PROVE  position < position' /\ \A j \in walked : j < position'
  <2>1. HandOver
    BY <1>1 DEF CursorNext, CursorStep, StoreStep, OpenCursor, CheckCount, SeedFront, SeedsEnd, ChooseSmallest, NextKey
  <2>2. QED
    BY <1>1, <2>1, HandOverKeeps
<1>2. ASSUME CursorBooks, UNCHANGED <<vars, cursorVars>> PROVE Ascends
  BY <1>2 DEF Ascends, cursorVars
<1>3. QED
  BY <1>1, <1>2 DEF Ascends

\* The books of a walk hold with any threads writing beside it: each front is a key of its
\* partition the walk has not passed, and a key that was there all the while has been handed
\* over or lies no nearer than its partition's front (ordered_cursor_t).
THEOREM CursorInvariance == BoundsGiven => (CursorSpec => []CursorBooks)
<1>1. ASSUME BoundsGiven PROVE CursorSpec => []CursorBooks
  <2>1. CursorBooks /\ [CursorNext]_<<vars, cursorVars>> => CursorBooks'
    BY <1>1, CursorKeeps
  <2>2. QED
    BY <2>1, InitCursor, PTL DEF CursorSpec
<1>2. QED
  BY <1>1

\* A walk that ended handed over every key within its bounds that was there from its first
\* step to its last, however the threads wrote, erased and swept the partitions between its
\* steps (ordered_cursor_t::next).
THEOREM WalksMissNoKey == BoundsGiven => (CursorSpec => []KeptAreWalked)
<1>1. CursorBooks => KeptAreWalked
  BY DEF CursorBooks, KeptAreWalked
<1>2. QED
  BY <1>1, CursorInvariance, PTL

\* Every key handed over is past every one before it, so none is handed over twice
\* (ordered_cursor_t::next).
THEOREM WalksAscend == BoundsGiven => (CursorSpec => [][Ascends]_<<vars, cursorVars>>)
<1>1. ASSUME BoundsGiven PROVE CursorSpec => [][Ascends]_<<vars, cursorVars>>
  <2>1. CursorSpec => []CursorBooks
    BY <1>1, CursorInvariance
  <2>2. QED
    BY <2>1, StepAscends, PTL DEF CursorSpec
<1>2. QED
  BY <1>1
=============================================================================
