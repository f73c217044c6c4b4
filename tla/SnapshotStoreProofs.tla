------------------------ MODULE SnapshotStoreProofs ------------------------
(***************************************************************************)
(* The invariants of SnapshotStore, for every number of keys, transactions,*)
(* publications, values, stamps and generations: first what the operators  *)
(* it is built from do to the versions of a store, for any store whatever; *)
(* then the inductive invariant; then the answers of a serializable        *)
(* transaction, which what it writes down of its reads determines, so that *)
(* a commit that finds none of it changed would be answered the same; last *)
(* the steps of SnapshotIsolation its calls are.                           *)
(***************************************************************************)
EXTENDS SnapshotStore, FiniteSetTheorems, WellFoundedInduction, TLAPS

----------------------------------------------------------------------------
(* What the operators do: filing, dropping, stamping, pruning, reading.      *)

\* A set of naturals that is not empty has a least member, which Min names.
LEMMA MinOfNaturals ==
    ASSUME NEW S \in SUBSET Nat, S # {}
    PROVE  Min(S) \in S /\ \A x \in S : Min(S) <= x
<1> DEFINE Below == {0..x : x \in S}
<1>1. Below \subseteq FiniteSubsetsOf(Nat) /\ Below # {}
  <2>1. ASSUME NEW x \in S PROVE 0..x \in FiniteSubsetsOf(Nat)
    <3>1. IsFiniteSet(0..x)
      BY FS_Interval
    <3>2. 0..x \subseteq Nat
      OBVIOUS
    <3>3. QED
      BY <3>1, <3>2 DEF FiniteSubsetsOf
  <2>2. QED
    BY <2>1
<1>2. PICK i \in Below : \A j \in Below : ~ (<<j, i>> \in StrictSubsetOrdering(Nat))
  BY <1>1, FS_StrictSubsetOrderingWellFounded, WFMin, Zenon
<1>3. PICK x \in S : i = 0..x
  OBVIOUS
<1>4. ASSUME NEW y \in S, y < x PROVE FALSE
  <2>1. /\ 0..y \subseteq 0..x /\ 0..y # 0..x
        /\ 0..y \subseteq Nat /\ 0..x \subseteq Nat
    <3>1. x \in 0..x /\ x \notin 0..y
      BY <1>4
    <3>2. QED
      BY <1>4, <3>1
  <2>2. <<0..y, 0..x>> \in StrictSubsetOrdering(Nat)
    BY <2>1 DEF StrictSubsetOrdering
  <2>3. QED
    BY <2>2, <1>2, <1>3
<1>5. \A y \in S : x <= y
  BY <1>4
<1>6. \E z \in S : \A y \in S : z =< y
  BY <1>5
<1>7. QED
  BY <1>6, Zenon DEF Min

----------------------------------------------------------------------------
(* What the operators on entries make of them.                             *)

IsCore(e) == DOMAIN e \subseteq Keys \X Generations /\ \A d \in DOMAIN e : e[d] \in Versions

\* What a version is made of.
LEMMA VersionFields ==
    ASSUME NEW v \in Versions
    PROVE  /\ v.committed \in Nat /\ v.committed >= 1 /\ v.committed <= MaxStamp + 1
           /\ v.payload \in Payloads
           /\ v.survivor \in BOOLEAN
           /\ v = [committed |-> v.committed, payload |-> v.payload, survivor |-> v.survivor]
BY StoreAssumption DEF Versions, Uncommitted

\* A stamp, a payload and a tag make a version.
LEMMA VersionOfFields ==
    ASSUME NEW c \in 1..Uncommitted, NEW p \in Payloads, NEW s \in BOOLEAN
    PROVE  [committed |-> c, payload |-> p, survivor |-> s] \in Versions
BY DEF Versions

IsGroup(group) ==
    DOMAIN group \subseteq Keys /\ \A k \in DOMAIN group : group[k] \in Payloads

Carries(e, f, group, g) ==
    /\ DOMAIN f = DOMAIN e \cup ((DOMAIN group) \X {g})
    /\ \A d \in DOMAIN e \ ((DOMAIN group) \X {g}) : f[d] = e[d]
    /\ \A k \in DOMAIN group : /\ f[<<k, g>>].committed = Uncommitted
                             /\ f[<<k, g>>].payload = group[k]
                             /\ f[<<k, g>>].survivor = FALSE

\* Filing a group adds or overwrites its keys under one generation, and nothing else.
LEMMA FiledFacts ==
    ASSUME NEW e, IsCore(e), NEW group, IsGroup(group), NEW g \in Generations
    PROVE  IsCore(Filed(e, group, g)) /\ Carries(e, Filed(e, group, g), group, g)
<1> DEFINE new == {<<k, g>> : k \in DOMAIN group}
<1>1. new = (DOMAIN group) \X {g}
  OBVIOUS
<1>2. DOMAIN Filed(e, group, g) = DOMAIN e \cup new
  BY DEF Filed
<1>3. \A d \in DOMAIN e \ new : Filed(e, group, g)[d] = e[d]
  BY DEF Filed
<1>4. ASSUME NEW k \in DOMAIN group
      PROVE  Filed(e, group, g)[<<k, g>>] =
                [committed |-> Uncommitted, payload |-> group[k], survivor |-> FALSE]
  <2>1. <<k, g>> \in new /\ <<k, g>>[1] = k
    OBVIOUS
  <2>2. QED
    BY <2>1 DEF Filed
<1>5. Uncommitted \in 1..Uncommitted
  BY StoreAssumption DEF Uncommitted
<1>6. ASSUME NEW k \in DOMAIN group PROVE Filed(e, group, g)[<<k, g>>] \in Versions
  <2>1. group[k] \in Payloads
    BY DEF IsGroup
  <2>2. QED
    BY <2>1, <1>4, <1>5, VersionOfFields
<1>7. (DOMAIN group) \X {g} \subseteq Keys \X Generations
  BY DEF IsGroup
<1>8. IsCore(Filed(e, group, g))
  <2>1. ASSUME NEW d \in DOMAIN Filed(e, group, g) PROVE Filed(e, group, g)[d] \in Versions
    <3>1. CASE d \in new
      <4>1. PICK k \in DOMAIN group : d = <<k, g>>
        BY <3>1
      <4>2. QED
        BY <4>1, <1>6
    <3>2. CASE d \notin new
      BY <3>2, <1>2, <1>3 DEF IsCore
    <3>3. QED
      BY <3>1, <3>2
  <2>2. QED
    BY <2>1, <1>1, <1>2, <1>7 DEF IsCore
<1>9. \A k \in DOMAIN group :
        /\ Filed(e, group, g)[<<k, g>>].committed = Uncommitted
        /\ Filed(e, group, g)[<<k, g>>].payload = group[k]
        /\ Filed(e, group, g)[<<k, g>>].survivor = FALSE
  <2> TAKE k \in DOMAIN group
  <2> DEFINE version == [committed |-> Uncommitted, payload |-> group[k], survivor |-> FALSE]
  <2>1. Filed(e, group, g)[<<k, g>>] = version
    BY <1>4
  <2>2. version.committed = Uncommitted /\ version.payload = group[k] /\ version.survivor = FALSE
    OBVIOUS
  <2> HIDE DEF version
  <2>3. QED
    BY <2>1, <2>2
<1>10. QED
  BY <1>1, <1>2, <1>3, <1>8, <1>9, Zenon DEF Carries

\* Dropping takes the named keys of one generation out, and nothing else.
LEMMA DroppedFacts ==
    ASSUME NEW e, IsCore(e), NEW ks, NEW g
    PROVE  /\ IsCore(Dropped(e, ks, g))
           /\ DOMAIN Dropped(e, ks, g) = DOMAIN e \ (ks \X {g})
           /\ \A d \in DOMAIN e \ (ks \X {g}) : Dropped(e, ks, g)[d] = e[d]
BY DEF Dropped, IsCore

\* Pruning takes out exactly the unreachable versions of the keys it is given.
LEMMA PrunedFacts ==
    ASSUME NEW e, IsCore(e), NEW ks, NEW mark
    PROVE  /\ IsCore(Pruned(e, ks, mark))
           /\ DOMAIN Pruned(e, ks, mark) = {d \in DOMAIN e : d[1] \in ks => ~Unreachable(e, d, mark)}
           /\ \A d \in DOMAIN Pruned(e, ks, mark) : Pruned(e, ks, mark)[d] = e[d]
BY DEF Pruned, IsCore

\* Stamping changes the stamp of one generation's versions of the keys, and nothing
\* else.
LEMMA StampedFacts ==
    ASSUME NEW e, IsCore(e), NEW ks, NEW g, NEW stamp \in 1..MaxStamp
    PROVE  /\ IsCore(Stamped(e, ks, g, stamp))
           /\ DOMAIN Stamped(e, ks, g, stamp) = DOMAIN e
           /\ \A d \in DOMAIN e :
                /\ Stamped(e, ks, g, stamp)[d].committed = IF d \in ks \X {g} THEN stamp ELSE e[d].committed
                /\ Stamped(e, ks, g, stamp)[d].payload = e[d].payload
                /\ Stamped(e, ks, g, stamp)[d].survivor = e[d].survivor
<1> DEFINE s == Stamped(e, ks, g, stamp)
<1>1. DOMAIN s = DOMAIN e
  BY DEF Stamped
<1>2. stamp \in 1..Uncommitted
  BY StoreAssumption DEF Uncommitted
<1>3. ASSUME NEW d \in DOMAIN e
      PROVE  /\ s[d] \in Versions
             /\ s[d].committed = IF d \in ks \X {g} THEN stamp ELSE e[d].committed
             /\ s[d].payload = e[d].payload
             /\ s[d].survivor = e[d].survivor
  <2>1. e[d] \in Versions
    BY DEF IsCore
  <2>2. e[d] = [committed |-> e[d].committed, payload |-> e[d].payload, survivor |-> e[d].survivor]
        /\ e[d].payload \in Payloads /\ e[d].survivor \in BOOLEAN
    BY <2>1, VersionFields
  <2>3. CASE d \in ks \X {g}
    <3>1. s[d] = [e[d] EXCEPT !.committed = stamp]
      BY <2>3 DEF Stamped
    <3>2. s[d] = [committed |-> stamp, payload |-> e[d].payload, survivor |-> e[d].survivor]
      BY <3>1, <2>2
    <3>3. QED
      BY <2>3, <3>2, <2>2, <1>2, VersionOfFields
  <2>4. CASE d \notin ks \X {g}
    <3>1. s[d] = e[d]
      BY <2>4 DEF Stamped
    <3>2. QED
      BY <2>4, <3>1, <2>1
  <2>5. QED
    BY <2>3, <2>4
<1>4. QED
  BY <1>1, <1>3 DEF IsCore

\* Whether a version is the tagged one once the group carries the stamp.
TagAfter(e, ks, g, stamp, d) ==
    IF <<d[1], g>> \notin DOMAIN e \/ d[1] \notin ks THEN e[d].survivor
    ELSE \/ d \in ReadableVersion(Stamped(e, ks, g, stamp), d[1], LatestSnapshot)
         \/ e[d].survivor /\ d \notin ReadableVersion(e, d[1], LatestSnapshot)

\* Publishing stamps as above and sets the tags anew.
LEMMA PublishedFacts ==
    ASSUME NEW e, IsCore(e), NEW ks, NEW g, NEW stamp \in 1..MaxStamp
    PROVE  /\ IsCore(Published(e, ks, g, stamp))
           /\ DOMAIN Published(e, ks, g, stamp) = DOMAIN e
           /\ \A d \in DOMAIN e :
                /\ Published(e, ks, g, stamp)[d].committed = IF d \in ks \X {g} THEN stamp ELSE e[d].committed
                /\ Published(e, ks, g, stamp)[d].payload = e[d].payload
                /\ Published(e, ks, g, stamp)[d].survivor = TagAfter(e, ks, g, stamp, d)
<1> DEFINE p == Published(e, ks, g, stamp)
           s == Stamped(e, ks, g, stamp)
           tag(d) == TagAfter(e, ks, g, stamp, d)
<1>1. /\ IsCore(s) /\ DOMAIN s = DOMAIN e
      /\ \A d \in DOMAIN e :
           /\ s[d].committed = IF d \in ks \X {g} THEN stamp ELSE e[d].committed
           /\ s[d].payload = e[d].payload
           /\ s[d].survivor = e[d].survivor
  BY StampedFacts
<1>2. DOMAIN p = DOMAIN e
  BY DEF Published
<1>3. ASSUME NEW d \in DOMAIN e
      PROVE  /\ p[d] \in Versions
             /\ p[d].committed = s[d].committed
             /\ p[d].payload = s[d].payload
             /\ p[d].survivor = tag(d)
  <2>1. s[d] \in Versions
    BY <1>1 DEF IsCore
  <2>2. /\ s[d] = [committed |-> s[d].committed, payload |-> s[d].payload, survivor |-> s[d].survivor]
        /\ s[d].committed \in 1..Uncommitted /\ s[d].payload \in Payloads /\ s[d].survivor \in BOOLEAN
    BY <2>1, VersionFields DEF Versions
  <2>3. p[d] = [s[d] EXCEPT !.survivor = tag(d)]
    BY <1>1 DEF Published, TagAfter
  <2>4. tag(d) \in BOOLEAN
    BY <1>1, <2>2, Zenon DEF TagAfter
  <2> HIDE DEF tag
  <2>5. p[d] = [committed |-> s[d].committed, payload |-> s[d].payload, survivor |-> tag(d)]
    BY <2>2, <2>3
  <2>6. QED
    BY <2>2, <2>4, <2>5, VersionOfFields
<1> HIDE DEF p, s, tag
<1>4. IsCore(p)
  BY <1>1, <1>2, <1>3 DEF IsCore
<1>5. \A d \in DOMAIN e :
        /\ p[d].committed = IF d \in ks \X {g} THEN stamp ELSE e[d].committed
        /\ p[d].payload = e[d].payload
        /\ p[d].survivor = tag(d)
  BY <1>1, <1>3
<1>6. QED
  BY <1>2, <1>4, <1>5 DEF p, tag

----------------------------------------------------------------------------
(* What the operators on entries make of a read.                           *)

\* Two cores that show a snapshot the same versions of a key are read alike.
ShownAlike(e, f, k, at) ==
    /\ \A d : d \in VersionsOf(e, k) /\ e[d].committed <= at
                <=> d \in VersionsOf(f, k) /\ f[d].committed <= at
    /\ \A d \in VersionsOf(e, k) : e[d].committed <= at =>
          f[d].committed = e[d].committed /\ f[d].payload = e[d].payload

\* Two cores showing a key alike at a stamp are read alike.
LEMMA SameReads ==
    ASSUME NEW e, NEW f, NEW k, NEW at, ShownAlike(e, f, k, at)
    PROVE  /\ VisibleVersion(f, k, at) = VisibleVersion(e, k, at)
           /\ ReadableVersion(f, k, at) = ReadableVersion(e, k, at)
           /\ \A d \in ReadableVersion(e, k, at) : f[d].payload = e[d].payload
<1>1. VisibleVersion(f, k, at) = VisibleVersion(e, k, at)
  BY Zenon DEF VisibleVersion, VisibleAt, ShownAlike
<1>2. \A d \in VisibleVersion(e, k, at) : f[d].payload = e[d].payload
  BY DEF VisibleVersion, VisibleAt, ShownAlike
<1>3. QED
  BY <1>1, <1>2 DEF ReadableVersion

\* A key whose readable version is the same in both reads as the same value.
LEMMA ReadAtFollows ==
    ASSUME NEW e, NEW f, NEW at, NEW to, NEW k \in Keys,
           ReadableVersion(f, k, to) = ReadableVersion(e, k, at),
           \A d \in ReadableVersion(e, k, at) : f[d].payload = e[d].payload
    PROVE  ReadAt(f, to)[k] = ReadAt(e, at)[k]
<1>1. {f[d].payload : d \in ReadableVersion(f, k, to)} = {e[d].payload : d \in ReadableVersion(e, k, at)}
  OBVIOUS
<1>2. QED
  BY <1>1, Zenon DEF ReadAt

\* What the mark lets go, no snapshot at or above the mark read.
LEMMA PrunedReads ==
    ASSUME NEW e, IsCore(e), NEW ks, NEW mark \in Nat, NEW at \in Nat, mark <= at, NEW k
    PROVE  /\ ReadableVersion(Pruned(e, ks, mark), k, at) = ReadableVersion(e, k, at)
           /\ \A d \in ReadableVersion(e, k, at) : Pruned(e, ks, mark)[d].payload = e[d].payload
<1> DEFINE f == Pruned(e, ks, mark)
<1>1. /\ IsCore(f)
      /\ DOMAIN f = {d \in DOMAIN e : d[1] \in ks => ~Unreachable(e, d, mark)}
      /\ \A d \in DOMAIN f : f[d] = e[d]
  BY PrunedFacts, ZenonT(40)
<1>2. \A d \in DOMAIN e : e[d].committed \in Nat
  BY VersionFields DEF IsCore
<1> HIDE DEF f
<1>3. ASSUME NEW d \in ReadableVersion(e, k, at)
      PROVE  d \in ReadableVersion(f, k, at) /\ f[d].payload = e[d].payload
  <2>1. /\ d \in DOMAIN e /\ d[1] = k /\ e[d].committed <= at /\ e[d].payload # Absent
        /\ \A o \in VersionsOf(e, k) : e[o].committed <= at => e[o].committed <= e[d].committed
    BY <1>3 DEF ReadableVersion, VisibleVersion, VersionsOf, VisibleAt
  <2>2. ASSUME e[d].committed <= mark PROVE d \in VisibleVersion(e, k, mark)
    <3>1. \A o \in VersionsOf(e, k) : e[o].committed <= mark => e[o].committed <= at
      BY <1>2 DEF VersionsOf
    <3>2. QED
      BY <2>1, <2>2, <3>1 DEF VisibleVersion, VersionsOf, VisibleAt
  <2>3. ~Unreachable(e, d, mark)
    BY <2>1, <2>2 DEF Unreachable, VisibleAt
  <2>4. d \in DOMAIN f /\ f[d] = e[d]
    BY <2>1, <2>3, <1>1
  <2>5. \A o \in VersionsOf(f, k) : o \in VersionsOf(e, k) /\ f[o] = e[o]
    BY <1>1 DEF VersionsOf
  <2>6. QED
    BY <2>1, <2>4, <2>5 DEF ReadableVersion, VisibleVersion, VersionsOf, VisibleAt
<1>4. ASSUME NEW d \in ReadableVersion(f, k, at)
      PROVE  d \in ReadableVersion(e, k, at)
  <2>1. /\ d \in DOMAIN e /\ d \in DOMAIN f /\ f[d] = e[d] /\ d[1] = k
        /\ e[d].committed <= at /\ e[d].payload # Absent
        /\ \A o \in VersionsOf(f, k) : f[o].committed <= at => f[o].committed <= e[d].committed
    BY <1>4, <1>1 DEF ReadableVersion, VisibleVersion, VersionsOf, VisibleAt
  <2>2. ASSUME NEW o \in VersionsOf(e, k), e[o].committed <= at, ~(e[o].committed <= e[d].committed)
        PROVE  FALSE
    <3>1. o \in DOMAIN e /\ o[1] = k
      BY DEF VersionsOf
    <3>2. o \notin DOMAIN f
      BY <2>1, <2>2, <3>1, <1>1 DEF VersionsOf
    <3>3. k \in ks /\ e[o].committed <= mark
      BY <3>1, <3>2, <1>1 DEF Unreachable, VisibleAt
    <3>4. e[d].committed < e[o].committed /\ e[d].committed <= mark
      BY <2>1, <2>2, <3>1, <3>3, <1>2
    <3>5. d \notin VisibleVersion(e, k, mark)
      BY <3>1, <3>3, <3>4, <2>2 DEF VisibleVersion, VersionsOf, VisibleAt
    <3>6. Unreachable(e, d, mark)
      BY <2>1, <3>4, <3>5 DEF Unreachable, VisibleAt
    <3>7. QED
      BY <3>3, <3>6, <2>1, <1>1
  <2>3. QED
    BY <2>1, <2>2 DEF ReadableVersion, VisibleVersion, VersionsOf, VisibleAt
<1>5. QED
  BY <1>3, <1>4 DEF f

\* The mark is at or below every snapshot, and at the watermark when there is none.
LEMMA MarkFacts ==
    ASSUME NEW readers, NEW snap, NEW published \in Nat,
           \A t \in readers : snap[t] \in Nat /\ snap[t] <= published
    PROVE  /\ LowWaterMark(readers, snap, published) \in Nat
           /\ LowWaterMark(readers, snap, published) <= published
           /\ \A t \in readers : LowWaterMark(readers, snap, published) <= snap[t]
<1>1. CASE readers = {}
  BY <1>1 DEF LowWaterMark
<1>2. CASE readers # {}
  <2> DEFINE S == {snap[t] : t \in readers}
  <2>1. S \in SUBSET Nat /\ S # {}
    BY <1>2
  <2>2. Min(S) \in S /\ \A x \in S : Min(S) <= x
    BY <2>1, MinOfNaturals
  <2>3. LowWaterMark(readers, snap, published) = Min(S)
    BY <1>2 DEF LowWaterMark
  <2> HIDE DEF S
  <2>4. PICK t \in readers : Min(S) = snap[t]
    BY <2>2 DEF S
  <2>5. \A u \in readers : Min(S) <= snap[u]
    BY <2>2 DEF S
  <2>6. QED
    BY <2>3, <2>4, <2>5
<1>3. QED
  BY <1>1, <1>2

----------------------------------------------------------------------------
(* The books: what entries, the watermark, the count and the committed     *)
(* state have to do with one another, and with a snapshot somebody holds.  *)

CommittedIn(e, d) == e[d].committed # Uncommitted

Counted(e, live) ==
    /\ live = Cardinality(Readable(e))
    /\ \A d \in DOMAIN e : e[d].survivor <=> d \in ReadableVersion(e, d[1], LatestSnapshot)

Settled(e, l) ==
    /\ \A d \in DOMAIN e : CommittedIn(e, d) => e[d].committed <= l[d[1]].since
    /\ \A d, o \in DOMAIN e :
         CommittedIn(e, d) /\ d[1] = o[1] /\ e[d].committed = e[o].committed => d = o

Books(e, published, live, l) ==
    /\ IsCore(e) /\ published \in 0..MaxStamp
    /\ l \in State /\ \A k \in Keys : l[k].since <= published
    /\ Settled(e, l) /\ Counted(e, live)
    /\ ReadAt(e, published) = Payload(l)

ReaderHolds(e, l, at, seen) ==
    /\ ReadAt(e, at) = Payload(seen)
    /\ \A k \in Keys : ChangedSince(e, k, at) <=> l[k].since > at
    /\ \A k \in Keys : l[k].since <= at => seen[k] = l[k]

\* A step among the versions nobody sees yet.
Hidden(e, f) ==
    /\ \A d \in DOMAIN e : CommittedIn(e, d) => d \in DOMAIN f /\ f[d] = e[d]
    /\ \A d \in DOMAIN f : CommittedIn(f, d) => d \in DOMAIN e /\ f[d] = e[d]
    /\ \A d \in DOMAIN f : ~CommittedIn(f, d) => ~f[d].survivor

\* Two reads of the whole keyspace are equal where they agree on every key.
LEMMA ReadAtEqual ==
    ASSUME NEW e, NEW f, NEW at, NEW to,
           \A k \in Keys : ReadAt(f, to)[k] = ReadAt(e, at)[k]
    PROVE  ReadAt(f, to) = ReadAt(e, at)
<1>1. /\ ReadAt(f, to) = [k \in Keys |-> ReadAt(f, to)[k]]
      /\ ReadAt(e, at) = [k \in Keys |-> ReadAt(e, at)[k]]
  BY Zenon DEF ReadAt
<1>2. [k \in Keys |-> ReadAt(f, to)[k]] = [k \in Keys |-> ReadAt(e, at)[k]]
  BY Zenon
<1>3. QED
  BY <1>1, <1>2, Zenon

\* The largest stamp a version may carry, and the one that marks it uncommitted.
LEMMA StampBounds == MaxStamp \in Nat /\ Uncommitted = MaxStamp + 1 /\ LatestSnapshot = MaxStamp
BY StoreAssumption DEF Uncommitted, LatestSnapshot

\* Stamps are numbers, and an uncommitted one is above every snapshot.
LEMMA StampTypes ==
    ASSUME NEW e, IsCore(e), NEW d \in DOMAIN e
    PROVE  /\ e[d].committed \in Nat
           /\ d[1] \in Keys
           /\ e[d].committed <= MaxStamp + 1
           /\ CommittedIn(e, d) <=> e[d].committed <= MaxStamp
<1>1. e[d].committed \in Nat /\ d[1] \in Keys /\ e[d].committed <= MaxStamp + 1
  BY VersionFields DEF IsCore
<1>2. QED
  BY <1>1, StampBounds DEF CommittedIn

\* What differs in uncommitted versions alone is read alike, and shows the same
\* changes.
LEMMA HiddenReads ==
    ASSUME NEW e, NEW f, IsCore(e), IsCore(f), Hidden(e, f), NEW at \in 0..MaxStamp, NEW k
    PROVE  /\ ReadableVersion(f, k, at) = ReadableVersion(e, k, at)
           /\ \A d \in ReadableVersion(e, k, at) : f[d].payload = e[d].payload
           /\ ChangedSince(f, k, at) <=> ChangedSince(e, k, at)
<1>1. /\ \A d \in DOMAIN e : e[d].committed <= at => CommittedIn(e, d)
      /\ \A d \in DOMAIN f : f[d].committed <= at => CommittedIn(f, d)
  <2>1. at \in Nat /\ at <= MaxStamp /\ MaxStamp \in Nat
    BY StoreAssumption
  <2>2. \A d \in DOMAIN e : e[d].committed \in Nat /\ (CommittedIn(e, d) <=> e[d].committed <= MaxStamp)
    BY StampTypes
  <2>3. \A d \in DOMAIN f : f[d].committed \in Nat /\ (CommittedIn(f, d) <=> f[d].committed <= MaxStamp)
    BY StampTypes
  <2>4. QED
    BY <2>1, <2>2, <2>3
<1>2. ShownAlike(e, f, k, at)
  BY <1>1 DEF Hidden, VersionsOf, ShownAlike
<1>3. ChangedSince(f, k, at) <=> ChangedSince(e, k, at)
  BY DEF ChangedSince, Hidden, CommittedIn, VersionsOf
<1>4. QED
  BY <1>2, <1>3, SameReads

\* A change of uncommitted versions keeps the books and everything readers are owed.
LEMMA HiddenStep ==
    ASSUME NEW e, NEW f, NEW published, NEW live, NEW l,
           Books(e, published, live, l), IsCore(f), Hidden(e, f)
    PROVE  /\ Books(f, published, live, l)
           /\ \A at \in 0..MaxStamp : \A seen :
                ReaderHolds(e, l, at, seen) => ReaderHolds(f, l, at, seen)
<1>1. IsCore(e) /\ published \in 0..MaxStamp /\ Settled(e, l) /\ Counted(e, live)
  BY DEF Books
<1>2. ASSUME NEW at \in 0..MaxStamp PROVE ReadAt(f, at) = ReadAt(e, at)
  <2>1. \A k \in Keys : ReadAt(f, at)[k] = ReadAt(e, at)[k]
    BY <1>1, HiddenReads, ReadAtFollows
  <2>2. QED
    BY <2>1, ReadAtEqual
<1>3. LatestSnapshot \in 0..MaxStamp
  BY StoreAssumption DEF LatestSnapshot
<1>4. Readable(f) = Readable(e)
  BY <1>1, <1>3, HiddenReads DEF Readable
<1>5. ASSUME NEW d \in DOMAIN f
      PROVE  f[d].survivor <=> d \in ReadableVersion(f, d[1], LatestSnapshot)
  <2>1. ReadableVersion(f, d[1], LatestSnapshot) = ReadableVersion(e, d[1], LatestSnapshot)
    BY <1>1, <1>3, HiddenReads
  <2>2. CASE CommittedIn(f, d)
    BY <2>1, <2>2, <1>1 DEF Hidden, Counted
  <2>3. CASE ~CommittedIn(f, d)
    <3>1. ~f[d].survivor
      BY <2>3 DEF Hidden
    <3>2. d \notin ReadableVersion(f, d[1], LatestSnapshot)
      <4>1. ~(f[d].committed <= LatestSnapshot)
        BY <2>3, StampTypes, StampBounds
      <4>2. QED
        BY <4>1 DEF ReadableVersion, VisibleVersion, VisibleAt
    <3>3. QED
      BY <3>1, <3>2
  <2>4. QED
    BY <2>2, <2>3
<1>6. Settled(f, l)
  BY <1>1 DEF Settled, Hidden, CommittedIn
<1>7. Books(f, published, live, l)
  BY <1>1, <1>2, <1>4, <1>5, <1>6 DEF Books, Counted
<1>8. ASSUME NEW at \in 0..MaxStamp, NEW seen, ReaderHolds(e, l, at, seen)
      PROVE  ReaderHolds(f, l, at, seen)
  BY <1>1, <1>2, <1>8, HiddenReads DEF ReaderHolds
<1>9. QED
  BY <1>7, <1>8

\* Pruning keeps the books and what readers at or above its mark are owed.
LEMMA PruneStep ==
    ASSUME NEW e, NEW published, NEW live, NEW l, Books(e, published, live, l),
           NEW ks, NEW mark \in Nat, mark <= published
    PROVE  /\ Books(Pruned(e, ks, mark), published, live, l)
           /\ \A at \in 0..MaxStamp : \A seen :
                mark <= at /\ ReaderHolds(e, l, at, seen) => ReaderHolds(Pruned(e, ks, mark), l, at, seen)
<1> DEFINE f == Pruned(e, ks, mark)
<1>1. IsCore(e) /\ published \in 0..MaxStamp /\ Settled(e, l) /\ Counted(e, live)
  BY DEF Books
<1>2. /\ IsCore(f)
      /\ DOMAIN f = {d \in DOMAIN e : d[1] \in ks => ~Unreachable(e, d, mark)}
      /\ \A d \in DOMAIN f : f[d] = e[d]
  BY <1>1, PrunedFacts, ZenonT(40)
<1>3. ASSUME NEW at \in Nat, mark <= at, NEW k
      PROVE  /\ ReadableVersion(f, k, at) = ReadableVersion(e, k, at)
             /\ \A d \in ReadableVersion(e, k, at) : f[d].payload = e[d].payload
  BY <1>1, <1>3, PrunedReads
<1> HIDE DEF f
<1>4. ASSUME NEW at \in Nat, mark <= at PROVE ReadAt(f, at) = ReadAt(e, at)
  <2>1. \A k \in Keys : ReadAt(f, at)[k] = ReadAt(e, at)[k]
    BY <1>3, <1>4, ReadAtFollows
  <2>2. QED
    BY <2>1, ReadAtEqual
<1>5. LatestSnapshot \in Nat /\ mark <= LatestSnapshot
  BY <1>1, StoreAssumption DEF LatestSnapshot
<1>6. Counted(f, live)
  <2>1. Readable(f) = Readable(e)
    BY <1>3, <1>5 DEF Readable
  <2>2. \A d \in DOMAIN f : f[d].survivor <=> d \in ReadableVersion(f, d[1], LatestSnapshot)
    BY <1>1, <1>2, <1>3, <1>5 DEF Counted
  <2>3. QED
    BY <1>1, <2>1, <2>2 DEF Counted
<1>7. Settled(f, l)
  BY <1>1, <1>2 DEF Settled, CommittedIn
<1>8. Books(f, published, live, l)
  <2>1. published \in Nat
    BY <1>1
  <2>2. QED
    BY <1>2, <1>4, <1>6, <1>7, <2>1 DEF Books
<1>9. ASSUME NEW at \in 0..MaxStamp, NEW seen, mark <= at, ReaderHolds(e, l, at, seen)
      PROVE  ReaderHolds(f, l, at, seen)
  <2>1. ASSUME NEW k PROVE ChangedSince(f, k, at) <=> ChangedSince(e, k, at)
    <3>1. ASSUME NEW d \in DOMAIN e, ~(e[d].committed <= at) PROVE d \in DOMAIN f
      <4>1. e[d].committed \in Nat
        BY <1>1, StampTypes
      <4>2. ~(e[d].committed <= mark)
        BY <4>1, <3>1, <1>9
      <4>3. QED
        BY <4>2, <1>2 DEF Unreachable, VisibleAt
    <3>2. QED
      BY <3>1, <1>2 DEF ChangedSince, VersionsOf, VisibleAt
  <2>2. ReadAt(f, at) = ReadAt(e, at)
    BY <1>4, <1>9
  <2>3. QED
    BY <2>1, <2>2, <1>9 DEF ReaderHolds
<1>10. QED
  BY <1>8, <1>9 DEF f

\* A snapshot taken of the newest commit.
LEMMA FreshReader ==
    ASSUME NEW e, NEW published, NEW live, NEW l, Books(e, published, live, l)
    PROVE  ReaderHolds(e, l, published, l)
<1>1. \A k \in Keys : l[k].since \in Nat /\ l[k].since <= published
  BY DEF Books, State
<1>2. published \in Nat
  BY DEF Books
<1>3. ASSUME NEW k \in Keys PROVE ~ChangedSince(e, k, published)
  <2>1. ASSUME NEW d \in DOMAIN e, CommittedIn(e, d) PROVE e[d].committed <= published
    <3>1. IsCore(e) /\ e[d].committed <= l[d[1]].since
      BY <2>1 DEF Books, Settled
    <3>2. e[d].committed \in Nat /\ d[1] \in Keys
      BY <3>1, StampTypes
    <3>3. QED
      BY <3>1, <3>2, <1>1, <1>2
  <2>2. QED
    BY <2>1 DEF ChangedSince, VersionsOf, CommittedIn, VisibleAt
<1>4. QED
  BY <1>1, <1>2, <1>3 DEF ReaderHolds, Books

\* The committed state once the versions of ks under g carry the stamp.
StateOf(l, e, ks, g, stamp) ==
    [k \in Keys |-> IF k \in Standing(e, ks, g) THEN [payload |-> e[<<k, g>>].payload, since |-> stamp]
                                                ELSE l[k]]

\* A group nobody saw yet, stamped one above the watermark.
Ready(e, published, ks, g) ==
    /\ published < MaxStamp /\ ks \subseteq Keys
    /\ \A d \in DOMAIN e : d \in ks \X {g} => ~CommittedIn(e, d)

\* A committed state overlaid with a group is a committed state.
LEMMA StateOfFacts ==
    ASSUME NEW l \in State, NEW e, IsCore(e), NEW ks, NEW g, NEW stamp \in 0..MaxStamp
    PROVE  StateOf(l, e, ks, g, stamp) \in State
<1>1. ASSUME NEW k \in Standing(e, ks, g) PROVE e[<<k, g>>].payload \in Payloads
  BY VersionFields DEF Standing, IsCore
<1>2. QED
  BY <1>1 DEF StateOf, State

\* The versions stamped, and the others.
LEMMA PublishedVersions ==
    ASSUME NEW e, NEW published \in 0..MaxStamp, IsCore(e), NEW ks, NEW g, Ready(e, published, ks, g)
    PROVE  LET p == Published(e, ks, g, published + 1)
           IN  /\ IsCore(p) /\ DOMAIN p = DOMAIN e
               /\ \A d \in DOMAIN e : p[d].payload = e[d].payload
               /\ \A k \in Standing(e, ks, g) :
                     <<k, g>> \in VersionsOf(p, k) /\ p[<<k, g>>].committed = published + 1
               /\ \A d \in DOMAIN e :
                     \/ /\ d[1] \in Standing(e, ks, g) /\ d = <<d[1], g>>
                        /\ ~CommittedIn(e, d) /\ p[d].committed = published + 1
                     \/ /\ ~(d[1] \in Standing(e, ks, g) /\ d = <<d[1], g>>)
                        /\ p[d].committed = e[d].committed
<1> DEFINE p == Published(e, ks, g, published + 1)
<1> DEFINE stamp == published + 1
<1>1. stamp \in 1..MaxStamp
  BY StampBounds DEF Ready
<1> HIDE DEF stamp
<1>2. /\ IsCore(p) /\ DOMAIN p = DOMAIN e
      /\ \A d \in DOMAIN e :
           /\ p[d].committed = IF d \in ks \X {g} THEN stamp ELSE e[d].committed
           /\ p[d].payload = e[d].payload
  <2>1. p = Published(e, ks, g, stamp)
    BY DEF stamp
  <2> HIDE DEF p
  <2>2. /\ IsCore(Published(e, ks, g, stamp))
        /\ DOMAIN Published(e, ks, g, stamp) = DOMAIN e
        /\ \A d \in DOMAIN e :
             /\ Published(e, ks, g, stamp)[d].committed = IF d \in ks \X {g} THEN stamp ELSE e[d].committed
             /\ Published(e, ks, g, stamp)[d].payload = e[d].payload
    BY <1>1, PublishedFacts
  <2>3. QED
    BY <2>1, <2>2, Zenon
<1> HIDE DEF p
<1> USE DEF stamp
<1>3. ASSUME NEW k \in Standing(e, ks, g)
      PROVE  <<k, g>> \in VersionsOf(p, k) /\ p[<<k, g>>].committed = published + 1
  <2>1. <<k, g>> \in DOMAIN e /\ <<k, g>> \in ks \X {g} /\ <<k, g>>[1] = k
    BY DEF Standing
  <2>2. QED
    BY <2>1, <1>2 DEF VersionsOf
<1>4. ASSUME NEW d \in DOMAIN e
      PROVE  \/ /\ d[1] \in Standing(e, ks, g) /\ d = <<d[1], g>>
                /\ ~CommittedIn(e, d) /\ p[d].committed = published + 1
             \/ /\ ~(d[1] \in Standing(e, ks, g) /\ d = <<d[1], g>>)
                /\ p[d].committed = e[d].committed
  <2>1. CASE d \in ks \X {g}
    <3>1. d[1] \in ks /\ d = <<d[1], g>>
      BY <2>1
    <3>2. d[1] \in Standing(e, ks, g)
      BY <3>1 DEF Standing
    <3>3. QED
      BY <2>1, <3>1, <3>2, <1>2 DEF Ready
  <2>2. CASE d \notin ks \X {g}
    <3>1. ~(d[1] \in Standing(e, ks, g) /\ d = <<d[1], g>>)
      <4>1. SUFFICES ASSUME d[1] \in ks, d = <<d[1], g>> PROVE FALSE
        BY DEF Standing
      <4>2. <<d[1], g>> \in ks \X {g}
        BY <4>1
      <4>3. QED
        BY <4>1, <4>2, <2>2
    <3>2. QED
      BY <2>2, <3>1, <1>2
  <2>3. QED
    BY <2>1, <2>2
<1>5. QED
  BY <1>2, <1>3, <1>4 DEF p

\* At any moment after the stamp, a key of the group reads what was filed, and another what it read.
LEMMA PublishedReads ==
    ASSUME NEW e, NEW published \in 0..MaxStamp, NEW l, IsCore(e), Settled(e, l),
           \A k \in Keys : l[k].since \in Nat /\ l[k].since <= published,
           NEW ks, NEW g, Ready(e, published, ks, g),
           NEW at \in (published + 1)..MaxStamp
    PROVE  LET p == Published(e, ks, g, published + 1)
           IN  /\ \A k \in Standing(e, ks, g) : VisibleVersion(p, k, at) = {<<k, g>>}
               /\ \A k \in Keys \ Standing(e, ks, g) :
                    /\ ReadableVersion(p, k, at) = ReadableVersion(e, k, published)
                    /\ \A d \in ReadableVersion(e, k, published) : p[d].payload = e[d].payload
<1> DEFINE p == Published(e, ks, g, published + 1)
<1>1. /\ IsCore(p) /\ DOMAIN p = DOMAIN e
      /\ \A d \in DOMAIN e : p[d].payload = e[d].payload
      /\ \A k \in Standing(e, ks, g) :
            <<k, g>> \in VersionsOf(p, k) /\ p[<<k, g>>].committed = published + 1
      /\ \A d \in DOMAIN e :
            \/ /\ d[1] \in Standing(e, ks, g) /\ d = <<d[1], g>>
               /\ ~CommittedIn(e, d) /\ p[d].committed = published + 1
            \/ /\ ~(d[1] \in Standing(e, ks, g) /\ d = <<d[1], g>>)
               /\ p[d].committed = e[d].committed
  BY PublishedVersions
<1> HIDE DEF p
<1>2. at \in Nat /\ published \in Nat /\ published < at /\ at <= MaxStamp /\ published < MaxStamp
  BY StampBounds DEF Ready
<1>3. ASSUME NEW d \in DOMAIN e
      PROVE  /\ e[d].committed \in Nat
             /\ e[d].committed <= at <=> e[d].committed <= published
  <2>1. e[d].committed \in Nat /\ d[1] \in Keys /\ (CommittedIn(e, d) <=> e[d].committed <= MaxStamp)
    BY StampTypes
  <2>2. CommittedIn(e, d) => e[d].committed <= l[d[1]].since
    BY DEF Settled
  <2>3. l[d[1]].since \in Nat /\ l[d[1]].since <= published
    BY <2>1
  <2>4. QED
    BY <2>1, <2>2, <2>3, <1>2, StampBounds
<1>4. ASSUME NEW k \in Standing(e, ks, g) PROVE VisibleVersion(p, k, at) = {<<k, g>>}
  <2>1. <<k, g>> \in VersionsOf(p, k) /\ p[<<k, g>>].committed = published + 1
    BY <1>1
  <2>2. ASSUME NEW d \in VersionsOf(p, k), d # <<k, g>>, p[d].committed <= at
        PROVE  p[d].committed < published + 1
    <3>1. d \in DOMAIN e /\ d[1] = k
      BY <1>1 DEF VersionsOf
    <3>2. p[d].committed = e[d].committed
      BY <3>1, <2>2, <1>1
    <3>3. QED
      BY <3>1, <3>2, <2>2, <1>2, <1>3
  <2>3. published + 1 <= at /\ published + 1 \in Nat
    BY <1>2
  <2>4. <<k, g>> \in VisibleVersion(p, k, at)
    <3>1. ASSUME NEW d \in VersionsOf(p, k), p[d].committed <= at
          PROVE  p[d].committed <= p[<<k, g>>].committed
      <4>1. CASE d = <<k, g>>
        BY <4>1, <2>1, <2>3
      <4>2. CASE d # <<k, g>>
        <5>1. d \in DOMAIN e /\ d[1] = k
          BY <1>1 DEF VersionsOf
        <5>2. p[d].committed \in Nat
          BY <5>1, <1>1, StampTypes
        <5>3. p[d].committed < published + 1
          BY <4>2, <3>1, <2>2
        <5>4. QED
          BY <5>2, <5>3, <2>1, <2>3
      <4>3. QED
        BY <4>1, <4>2
    <3>2. QED
      BY <2>1, <2>3, <3>1 DEF VisibleVersion, VisibleAt
  <2>5. ASSUME NEW d \in VisibleVersion(p, k, at) PROVE d = <<k, g>>
    <3>1. /\ d \in VersionsOf(p, k) /\ p[d].committed <= at
          /\ p[<<k, g>>].committed <= p[d].committed
      BY <2>1, <2>3 DEF VisibleVersion, VisibleAt
    <3>2. d \in DOMAIN p /\ p[d].committed \in Nat
      BY <3>1, <1>1, StampTypes DEF VersionsOf
    <3>3. QED
      BY <3>1, <3>2, <2>1, <2>2, <2>3
  <2>6. QED
    BY <2>4, <2>5
<1>5. ASSUME NEW k \in Keys \ Standing(e, ks, g)
      PROVE  /\ ReadableVersion(p, k, at) = ReadableVersion(e, k, published)
             /\ \A d \in ReadableVersion(e, k, published) : p[d].payload = e[d].payload
  <2>1. \A d \in DOMAIN e : d[1] = k => p[d].committed = e[d].committed
    BY <1>1
  <2>2. VersionsOf(p, k) = VersionsOf(e, k)
    BY <1>1 DEF VersionsOf
  <2>3. \A d \in VersionsOf(e, k) : /\ p[d].committed = e[d].committed /\ p[d].payload = e[d].payload
                                    /\ e[d].committed <= at <=> e[d].committed <= published
    BY <1>1, <1>3, <2>1 DEF VersionsOf
  <2>4. VisibleVersion(p, k, at) = VisibleVersion(e, k, published)
    BY <2>2, <2>3, Zenon DEF VisibleVersion, VisibleAt
  <2>5. VisibleVersion(e, k, published) \subseteq VersionsOf(e, k)
    BY DEF VisibleVersion
  <2>6. QED
    BY <2>3, <2>4, <2>5 DEF ReadableVersion
<1>6. QED
  BY <1>4, <1>5 DEF p

\* Between the watermark and the greatest stamp there is nothing to see.
LEMMA NewestReads ==
    ASSUME NEW e, NEW published \in 0..MaxStamp, NEW l, IsCore(e), Settled(e, l),
           \A k \in Keys : l[k].since \in Nat /\ l[k].since <= published,
           NEW k \in Keys
    PROVE  ReadableVersion(e, k, LatestSnapshot) = ReadableVersion(e, k, published)
<1>1. ASSUME NEW d \in VersionsOf(e, k)
      PROVE  VisibleAt(e[d].committed, LatestSnapshot) <=> VisibleAt(e[d].committed, published)
  <2>1. d \in DOMAIN e /\ d[1] = k
    BY DEF VersionsOf
  <2>2. e[d].committed \in Nat /\ (CommittedIn(e, d) <=> e[d].committed <= MaxStamp)
    BY <2>1, StampTypes
  <2>3. CommittedIn(e, d) => e[d].committed <= l[k].since
    BY <2>1 DEF Settled
  <2>4. QED
    BY <2>2, <2>3, StampBounds DEF VisibleAt
<1>2. VisibleVersion(e, k, LatestSnapshot) = VisibleVersion(e, k, published)
  BY <1>1, Zenon DEF VisibleVersion
<1>3. QED
  BY <1>2, Zenon DEF ReadableVersion

\* Finitely many keys are readable.
LEMMA ReadableFinite ==
    ASSUME NEW e
    PROVE  Cardinality(Readable(e)) \in Nat
<1>1. IsFiniteSet(Keys)
  BY FS_Interval, StoreAssumption DEF Keys
<1>2. Readable(e) \subseteq Keys
  BY DEF Readable
<1>3. QED
  BY <1>1, <1>2, FS_Subset, FS_CardinalityType

\* One commit: its group reads as the newest, and no earlier moment reads anything of it.
LEMMA PublishStep ==
    ASSUME NEW e, NEW published, NEW live, NEW l, Books(e, published, live, l),
           NEW ks, NEW g, Ready(e, published, ks, g)
    PROVE  /\ Books(Published(e, ks, g, published + 1), published + 1,
                    (live + Cardinality(Readable(Published(e, ks, g, published + 1))))
                        - Cardinality(Readable(e)),
                    StateOf(l, e, ks, g, published + 1))
           /\ \A at \in 0..published : \A seen : ReaderHolds(e, l, at, seen) =>
                ReaderHolds(Published(e, ks, g, published + 1), StateOf(l, e, ks, g, published + 1), at, seen)
<1> DEFINE p == Published(e, ks, g, published + 1)
           after == StateOf(l, e, ks, g, published + 1)
           group == Standing(e, ks, g)
<1>1. /\ IsCore(e) /\ published \in 0..MaxStamp /\ l \in State /\ Settled(e, l) /\ Counted(e, live)
      /\ ReadAt(e, published) = Payload(l)
      /\ \A k \in Keys : l[k].since \in Nat /\ l[k].since <= published
  BY DEF Books, State
<1>2. /\ IsCore(p) /\ DOMAIN p = DOMAIN e
      /\ \A d \in DOMAIN e : p[d].payload = e[d].payload
      /\ \A k \in group : <<k, g>> \in VersionsOf(p, k) /\ p[<<k, g>>].committed = published + 1
      /\ \A d \in DOMAIN e :
            \/ /\ d[1] \in group /\ d = <<d[1], g>>
               /\ ~CommittedIn(e, d) /\ p[d].committed = published + 1
            \/ /\ ~(d[1] \in group /\ d = <<d[1], g>>)
               /\ p[d].committed = e[d].committed
  BY <1>1, PublishedVersions
<1>3. published \in Nat /\ published + 1 \in 1..MaxStamp /\ ks \subseteq Keys
  BY <1>1, StampBounds DEF Ready
<1>4. /\ after \in State
      /\ \A k \in group : /\ k \in Keys /\ after[k].payload = e[<<k, g>>].payload
                           /\ after[k].since = published + 1
      /\ \A k \in Keys \ group : after[k] = l[k]
  <2>1. IsCore(e) /\ l \in State /\ ks \subseteq Keys /\ published + 1 \in 0..MaxStamp
    BY <1>1, <1>3
  <2>2. after \in State
    BY <2>1, StateOfFacts
  <2>3. group \subseteq Keys
    BY <2>1 DEF Standing
  <2>4. ASSUME NEW k \in Keys
        PROVE  /\ k \in group => /\ after[k].payload = e[<<k, g>>].payload
                                 /\ after[k].since = published + 1
               /\ k \notin group => after[k] = l[k]
    BY DEF StateOf
  <2> HIDE DEF after, group
  <2>5. QED
    BY <2>2, <2>3, <2>4
<1>5. ASSUME NEW at \in (published + 1)..MaxStamp
      PROVE  /\ \A k \in group : VisibleVersion(p, k, at) = {<<k, g>>}
             /\ \A k \in Keys \ group :
                  /\ ReadableVersion(p, k, at) = ReadableVersion(e, k, published)
                  /\ \A d \in ReadableVersion(e, k, published) : p[d].payload = e[d].payload
  BY <1>1, PublishedReads
<1>6. ReadAt(p, published + 1) = Payload(after)
  <2>1. published + 1 \in (published + 1)..MaxStamp
    BY <1>3
  <2> HIDE DEF p, after, group
  <2>2. ASSUME NEW k \in group PROVE ReadAt(p, published + 1)[k] = after[k].payload
    <3>1. k \in Keys /\ after[k].payload = e[<<k, g>>].payload /\ <<k, g>> \in DOMAIN e
      BY <1>2, <1>4 DEF VersionsOf
    <3>2. VisibleVersion(p, k, published + 1) = {<<k, g>>} /\ p[<<k, g>>].payload = e[<<k, g>>].payload
      BY <1>2, <1>5, <2>1, <3>1
    <3>3. CASE e[<<k, g>>].payload = Absent
      <4>1. ReadableVersion(p, k, published + 1) = {}
        BY <3>2, <3>3 DEF ReadableVersion
      <4>2. QED
        BY <3>1, <3>3, <4>1 DEF ReadAt
    <3>4. CASE e[<<k, g>>].payload # Absent
      <4>1. ReadableVersion(p, k, published + 1) = {<<k, g>>}
        BY <3>2, <3>4 DEF ReadableVersion
      <4>2. {p[d].payload : d \in ReadableVersion(p, k, published + 1)} = {e[<<k, g>>].payload}
        BY <3>2, <4>1
      <4>3. ReadableVersion(p, k, published + 1) # {}
        BY <4>1
      <4>4. QED
        BY <3>1, <4>2, <4>3 DEF ReadAt
    <3>5. QED
      BY <3>3, <3>4
  <2>3. ASSUME NEW k \in Keys \ group PROVE ReadAt(p, published + 1)[k] = after[k].payload
    <3>1. ReadAt(p, published + 1)[k] = ReadAt(e, published)[k]
      BY <1>5, <2>1, ReadAtFollows
    <3>2. QED
      BY <1>1, <1>4, <3>1 DEF Payload
  <2>4. ReadAt(p, published + 1) = [k \in Keys |-> ReadAt(p, published + 1)[k]]
    BY Zenon DEF ReadAt
  <2>5. \A k \in Keys : ReadAt(p, published + 1)[k] = after[k].payload
    BY <2>2, <2>3
  <2>6. QED
    BY <2>4, <2>5 DEF Payload
<1>7. Settled(p, after)
  <2> HIDE DEF p, after, group
  <2>1. ASSUME NEW d \in DOMAIN p
        PROVE  /\ d \in DOMAIN e /\ d[1] \in Keys
               /\ p[d].committed \in Nat /\ e[d].committed \in Nat
               /\ CommittedIn(p, d) => p[d].committed <= after[d[1]].since
    <3>1. d \in DOMAIN e /\ d[1] \in Keys /\ p[d].committed \in Nat /\ e[d].committed \in Nat
      BY <1>1, <1>2, StampTypes
    <3>2. CommittedIn(e, d) => e[d].committed <= l[d[1]].since
      BY <1>1, <3>1 DEF Settled
    <3>3. CASE p[d].committed = published + 1 /\ d[1] \in group
      <4>1. after[d[1]].since = published + 1
        BY <1>4, <3>3
      <4>2. QED
        BY <4>1, <3>1, <3>3, <1>3
    <3>4. CASE p[d].committed = e[d].committed /\ CommittedIn(e, d)
      <4>1. after[d[1]].since = published + 1 \/ after[d[1]].since = l[d[1]].since
        BY <1>4, <3>1
      <4>2. QED
        BY <4>1, <3>1, <3>2, <3>4, <1>1, <1>3
    <3>5. QED
      BY <3>1, <3>3, <3>4, <1>2 DEF CommittedIn
  <2>2. ASSUME NEW d \in DOMAIN p, NEW o \in DOMAIN p,
               CommittedIn(p, d), d[1] = o[1], p[d].committed = p[o].committed
        PROVE  d = o
    <3>1. \A x \in DOMAIN e : CommittedIn(e, x) => e[x].committed < published + 1
      <4>1. ASSUME NEW x \in DOMAIN e, CommittedIn(e, x) PROVE e[x].committed < published + 1
        <5>1. e[x].committed \in Nat /\ x[1] \in Keys
          BY <1>1, StampTypes
        <5>2. e[x].committed <= l[x[1]].since
          BY <1>1, <4>1 DEF Settled
        <5>3. QED
          BY <5>1, <5>2, <1>1, <1>3
      <4>2. QED
        BY <4>1
    <3>2. d \in DOMAIN e /\ o \in DOMAIN e
      BY <1>2
    <3>3. CASE p[d].committed = published + 1
      <4>1. ~(p[d].committed = e[d].committed /\ CommittedIn(e, d))
        BY <3>1, <3>2, <3>3, <1>3, <2>1
      <4>2. ~(p[o].committed = e[o].committed /\ CommittedIn(e, o))
        BY <3>1, <3>2, <3>3, <1>3, <2>1, <2>2
      <4>3. d = <<d[1], g>> /\ o = <<o[1], g>>
        BY <4>1, <4>2, <3>2, <1>2, <2>2 DEF CommittedIn
      <4>4. QED
        BY <4>3, <2>2
    <3>4. CASE p[d].committed # published + 1
      <4>1. p[d].committed = e[d].committed /\ p[o].committed = e[o].committed
        BY <3>2, <3>4, <1>2, <2>2
      <4>2. QED
        BY <4>1, <3>2, <2>2, <1>1 DEF Settled, CommittedIn
    <3>5. QED
      BY <3>3, <3>4
  <2>3. QED
    BY <2>1, <2>2 DEF Settled
<1>8. ASSUME NEW d \in DOMAIN p
      PROVE  p[d].survivor <=> d \in ReadableVersion(p, d[1], LatestSnapshot)
  <2> DEFINE s == Stamped(e, ks, g, published + 1)
  <2>1. d \in DOMAIN e /\ d[1] \in Keys
    BY <1>1, <1>2, StampTypes
  <2>2. p[d].survivor = TagAfter(e, ks, g, published + 1, d)
    <3>1. PICK stamp \in 1..MaxStamp : stamp = published + 1
      BY <1>3
    <3>2. \A x \in DOMAIN e :
            Published(e, ks, g, stamp)[x].survivor = TagAfter(e, ks, g, stamp, x)
      BY <1>1, PublishedFacts
    <3>3. QED
      BY <2>1, <3>1, <3>2, Zenon
  <2>3. e[d].survivor <=> d \in ReadableVersion(e, d[1], LatestSnapshot)
    BY <1>1, <2>1 DEF Counted
  <2>4. LatestSnapshot \in (published + 1)..MaxStamp
    BY <1>3, StampBounds
  <2>5. CASE d[1] \notin group
    <3>1. ReadableVersion(p, d[1], LatestSnapshot) = ReadableVersion(e, d[1], published)
      BY <2>1, <2>4, <2>5, <1>5
    <3>2. ReadableVersion(e, d[1], LatestSnapshot) = ReadableVersion(e, d[1], published)
      BY <1>1, <2>1, NewestReads
    <3>3. p[d].survivor = e[d].survivor
      BY <2>2, <2>5 DEF TagAfter, Standing
    <3>4. QED
      BY <2>3, <3>1, <3>2, <3>3
  <2>6. CASE d[1] \in group
    <3>1. /\ DOMAIN s = DOMAIN e
          /\ \A x \in DOMAIN e : s[x].committed = p[x].committed /\ s[x].payload = p[x].payload
      <4>1. /\ DOMAIN s = DOMAIN e
            /\ \A x \in DOMAIN e :
                 /\ s[x].committed = IF x \in ks \X {g} THEN published + 1 ELSE e[x].committed
                 /\ s[x].payload = e[x].payload
        BY <1>1, <1>3, StampedFacts
      <4>2. \A x \in DOMAIN e :
              /\ p[x].committed = IF x \in ks \X {g} THEN published + 1 ELSE e[x].committed
              /\ p[x].payload = e[x].payload
        BY <1>1, <1>3, PublishedFacts
      <4> HIDE DEF p, s
      <4>3. QED
        BY <4>1, <4>2
    <3> HIDE DEF p, s
    <3>2. VersionsOf(s, d[1]) = VersionsOf(p, d[1])
      BY <3>1, <1>2 DEF VersionsOf
    <3>3. ShownAlike(p, s, d[1], LatestSnapshot)
      BY <3>1, <3>2, <1>2 DEF ShownAlike, VersionsOf
    <3>4. ReadableVersion(s, d[1], LatestSnapshot) = ReadableVersion(p, d[1], LatestSnapshot)
      BY <3>3, SameReads
    <3>5. d[1] \in ks /\ <<d[1], g>> \in DOMAIN e
      BY <2>6 DEF Standing
    <3>6. QED
      BY <2>2, <2>3, <3>4, <3>5 DEF TagAfter, s
  <2>7. QED
    BY <2>5, <2>6
<1>9. Books(p, published + 1, (live + Cardinality(Readable(p))) - Cardinality(Readable(e)), after)
  <2> HIDE DEF p, after, group
  <2>1. ASSUME NEW k \in Keys PROVE after[k].since <= published + 1
    <3>1. after[k].since = published + 1 \/ after[k].since = l[k].since
      BY <1>4
    <3>2. QED
      BY <3>1, <1>1, <1>3
  <2>2. (live + Cardinality(Readable(p))) - Cardinality(Readable(e)) = Cardinality(Readable(p))
    BY <1>1, ReadableFinite DEF Counted
  <2>3. Counted(p, (live + Cardinality(Readable(p))) - Cardinality(Readable(e)))
    BY <2>2, <1>8 DEF Counted
  <2>4. published + 1 \in 0..MaxStamp
    BY <1>3
  <2>5. QED
    BY <1>2, <1>4, <1>6, <1>7, <2>1, <2>3, <2>4 DEF Books
<1>10. ASSUME NEW at \in 0..published, NEW seen, ReaderHolds(e, l, at, seen)
       PROVE  ReaderHolds(p, after, at, seen)
  <2> HIDE DEF p, after, group
  <2>1. at \in Nat /\ at < published + 1 /\ at <= MaxStamp
    BY <1>3, StampBounds
  <2>2. ASSUME NEW d \in DOMAIN e
        PROVE  \/ p[d].committed = e[d].committed
               \/ ~(p[d].committed <= at) /\ ~(e[d].committed <= at)
    <3>1. e[d].committed \in Nat /\ (CommittedIn(e, d) <=> e[d].committed <= MaxStamp)
      BY <1>1, StampTypes
    <3>2. QED
      BY <3>1, <2>1, <1>2, <1>3, StampBounds
  <2>3. ASSUME NEW k PROVE ShownAlike(e, p, k, at)
    BY <2>2, <1>2 DEF ShownAlike, VersionsOf
  <2>4. ReadAt(p, at) = ReadAt(e, at)
    <3>1. ASSUME NEW k \in Keys PROVE ReadAt(p, at)[k] = ReadAt(e, at)[k]
      <4>1. /\ ReadableVersion(p, k, at) = ReadableVersion(e, k, at)
            /\ \A d \in ReadableVersion(e, k, at) : p[d].payload = e[d].payload
        BY <2>3, SameReads
      <4>2. QED
        BY <4>1, ReadAtFollows
    <3>2. QED
      BY <3>1, ReadAtEqual
  <2>5. ASSUME NEW k \in group PROVE ChangedSince(p, k, at) /\ after[k].since > at
    <3>1. <<k, g>> \in VersionsOf(p, k) /\ p[<<k, g>>].committed = published + 1
      BY <1>2
    <3>2. published + 1 # Uncommitted /\ ~(published + 1 <= at)
      BY <1>3, <2>1, StampBounds
    <3>3. after[k].since = published + 1 /\ published + 1 > at
      BY <1>4, <2>1, <1>3
    <3>4. QED
      BY <3>1, <3>2, <3>3 DEF ChangedSince, VisibleAt
  <2>6. ASSUME NEW k \in Keys \ group
        PROVE  (ChangedSince(p, k, at) <=> ChangedSince(e, k, at)) /\ after[k] = l[k]
    <3>1. \A d \in DOMAIN e : d[1] = k => p[d].committed = e[d].committed
      BY <1>2
    <3>2. QED
      BY <3>1, <1>2, <1>4 DEF ChangedSince, VersionsOf
  <2>7. \A k \in Keys : ChangedSince(p, k, at) <=> after[k].since > at
    BY <2>5, <2>6, <1>10 DEF ReaderHolds
  <2>8. \A k \in Keys : after[k].since <= at => seen[k] = after[k]
    <3>1. ASSUME NEW k \in group PROVE ~(after[k].since <= at)
      <4>1. after[k].since = published + 1
        BY <1>4
      <4>2. QED
        BY <4>1, <1>3, <2>1
    <3>2. QED
      BY <3>1, <2>6, <1>10 DEF ReaderHolds
  <2>9. QED
    BY <2>4, <2>7, <2>8, <1>10 DEF ReaderHolds
<1>11. QED
  BY <1>9, <1>10

----------------------------------------------------------------------------
(* What a commit's pruning leaves, and who the unstamped versions are.     *)

Unstamped(e) == {d \in DOMAIN e : ~CommittedIn(e, d)}

\* What pruning to a mark lets go is committed, and what it leaves at or below the mark is an answer.
LEMMA PrunedVersions ==
    ASSUME NEW e, IsCore(e), NEW ks, NEW mark \in 0..MaxStamp
    PROVE  /\ Unstamped(Pruned(e, ks, mark)) = Unstamped(e)
           /\ \A k \in ks : \A d \in VersionsOf(Pruned(e, ks, mark), k) :
                e[d].committed <= mark => d \in VisibleVersion(e, k, mark) /\ e[d].payload # Absent
<1> DEFINE f == Pruned(e, ks, mark)
<1>1. /\ IsCore(f)
      /\ DOMAIN f = {d \in DOMAIN e : d[1] \in ks => ~Unreachable(e, d, mark)}
      /\ \A d \in DOMAIN f : f[d] = e[d]
  BY PrunedFacts, ZenonT(40)
<1> HIDE DEF f
<1>2. ASSUME NEW d \in DOMAIN e, ~CommittedIn(e, d) PROVE d \in DOMAIN f
  <2>1. ~(e[d].committed <= mark)
    BY <1>2, StampTypes, StampBounds
  <2>2. QED
    BY <2>1, <1>1 DEF Unreachable, VisibleAt
<1>3. Unstamped(f) = Unstamped(e)
  BY <1>1, <1>2 DEF Unstamped, CommittedIn
<1>4. ASSUME NEW k \in ks, NEW d \in VersionsOf(f, k), e[d].committed <= mark
      PROVE  d \in VisibleVersion(e, k, mark) /\ e[d].payload # Absent
  BY <1>1, <1>4 DEF VersionsOf, Unreachable, VisibleAt
<1>5. QED
  BY <1>3, <1>4 DEF f

\* The one version of a key the mark leaves below it.
LEMMA OneVisible ==
    ASSUME NEW e, IsCore(e), NEW l, Settled(e, l), NEW k, NEW mark \in 0..MaxStamp,
           NEW S, S \subseteq VisibleVersion(e, k, mark)
    PROVE  Cardinality(S) <= 1
<1>1. ASSUME NEW d \in S, NEW o \in S PROVE d = o
  <2>1. /\ d \in DOMAIN e /\ o \in DOMAIN e /\ d[1] = k /\ o[1] = k
        /\ e[d].committed <= mark
        /\ e[d].committed <= e[o].committed /\ e[o].committed <= e[d].committed
    BY DEF VisibleVersion, VersionsOf, VisibleAt
  <2>2. e[d].committed \in Nat /\ e[o].committed \in Nat /\ CommittedIn(e, d)
    BY <2>1, StampTypes, StampBounds
  <2>3. e[d].committed = e[o].committed
    BY <2>1, <2>2
  <2>4. QED
    BY <2>1, <2>2, <2>3 DEF Settled
<1>2. CASE S = {}
  BY <1>2, FS_EmptySet
<1>3. CASE S # {}
  <2>1. PICK d : S = {d}
    BY <1>1, <1>3
  <2>2. Cardinality({d}) = 1
    BY FS_Singleton
  <2>3. QED
    BY <2>1, <2>2
<1>4. QED
  BY <1>2, <1>3

\* A version nobody sees yet is not the tagged one.
LEMMA UnstampedUntagged ==
    ASSUME NEW e, NEW published, NEW live, NEW l, Books(e, published, live, l),
           NEW d \in DOMAIN e, ~CommittedIn(e, d)
    PROVE  ~e[d].survivor
<1>1. IsCore(e) /\ Counted(e, live)
  BY DEF Books
<1>2. ~(e[d].committed <= LatestSnapshot)
  BY <1>1, StampTypes, StampBounds
<1>3. d \notin ReadableVersion(e, d[1], LatestSnapshot)
  BY <1>2 DEF ReadableVersion, VisibleVersion, VisibleAt
<1>4. QED
  BY <1>1, <1>3 DEF Counted

\* Versions filed, and versions taken back: what e holds, and what of it is unstamped.
Grows(e, f, ks, g) ==
    /\ DOMAIN f = DOMAIN e \cup (ks \X {g})
    /\ Unstamped(f) = Unstamped(e) \cup (ks \X {g})

Shrinks(e, f, ks, g) ==
    /\ DOMAIN f \subseteq DOMAIN e
    /\ Unstamped(f) = Unstamped(e) \ (ks \X {g})

\* Filing where nothing committed stands is a hidden change.
LEMMA FiledHidden ==
    ASSUME NEW e, NEW published, NEW live, NEW l, Books(e, published, live, l),
           NEW group, IsGroup(group), NEW g \in Generations,
           \A d \in DOMAIN e : d \in (DOMAIN group) \X {g} => ~CommittedIn(e, d)
    PROVE  /\ IsCore(Filed(e, group, g)) /\ Hidden(e, Filed(e, group, g))
           /\ Grows(e, Filed(e, group, g), DOMAIN group, g)
<1> DEFINE f == Filed(e, group, g)
           new == (DOMAIN group) \X {g}
<1>1. IsCore(e) /\ \A d \in DOMAIN e : ~CommittedIn(e, d) => ~e[d].survivor
  BY UnstampedUntagged DEF Books
<1>2. /\ IsCore(f) /\ DOMAIN f = DOMAIN e \cup new
      /\ \A d \in DOMAIN e \ new : f[d] = e[d]
      /\ \A k \in DOMAIN group : /\ f[<<k, g>>].committed = Uncommitted
                               /\ f[<<k, g>>].payload = group[k]
                               /\ f[<<k, g>>].survivor = FALSE
  <2>1. IsCore(e)
    BY DEF Books
  <2>2. IsCore(Filed(e, group, g)) /\ Carries(e, Filed(e, group, g), group, g)
    BY <2>1, FiledFacts
  <2> HIDE DEF f
  <2>3. IsCore(f) /\ Carries(e, f, group, g)
    BY <2>2 DEF f
  <2>4. QED
    BY <2>3, Zenon DEF Carries
<1> HIDE DEF f
<1>3. \A d \in new : ~CommittedIn(f, d) /\ ~f[d].survivor
  BY <1>2 DEF CommittedIn
<1> HIDE DEF new
<1>4. \A d \in DOMAIN e : d \in new => ~CommittedIn(e, d)
  BY DEF new
<1>5. Hidden(e, f)
  BY <1>1, <1>2, <1>3, <1>4 DEF Hidden, CommittedIn
<1>6. Unstamped(f) = Unstamped(e) \cup new
  BY <1>2, <1>3, <1>4 DEF Unstamped, CommittedIn
<1>7. QED
  BY <1>2, <1>5, <1>6 DEF Grows, f, new

\* Dropping what was never committed is a hidden change.
LEMMA DroppedHidden ==
    ASSUME NEW e, NEW published, NEW live, NEW l, Books(e, published, live, l),
           NEW ks, NEW g, \A d \in DOMAIN e : d \in ks \X {g} => ~CommittedIn(e, d)
    PROVE  /\ IsCore(Dropped(e, ks, g)) /\ Hidden(e, Dropped(e, ks, g))
           /\ Shrinks(e, Dropped(e, ks, g), ks, g)
<1> DEFINE f == Dropped(e, ks, g)
           old == ks \X {g}
<1>1. IsCore(e) /\ \A d \in DOMAIN e : ~CommittedIn(e, d) => ~e[d].survivor
  BY UnstampedUntagged DEF Books
<1>2. /\ IsCore(f) /\ DOMAIN f = DOMAIN e \ old
      /\ \A d \in DOMAIN e \ old : f[d] = e[d]
  <2>1. IsCore(e)
    BY DEF Books
  <2>2. QED
    BY <2>1 DEF Dropped, IsCore
<1> HIDE DEF f, old
<1>3. \A d \in DOMAIN e : d \in old => ~CommittedIn(e, d)
  BY DEF old
<1>4. Hidden(e, f)
  BY <1>1, <1>2, <1>3 DEF Hidden, CommittedIn
<1>5. DOMAIN f \subseteq DOMAIN e /\ Unstamped(f) = Unstamped(e) \ old
  BY <1>2 DEF Unstamped, CommittedIn
<1>6. QED
  BY <1>2, <1>4, <1>5 DEF Shrinks, f, old

\* The store nobody has written.
LEMMA EmptyBooks ==
    ASSUME NEW published \in 0..MaxStamp
    PROVE  Books(<<>>, published, 0, Nothing) /\ Unstamped(<<>>) = {}
<1>1. DOMAIN <<>> = {}
  OBVIOUS
<1>2. IsCore(<<>>) /\ Settled(<<>>, Nothing) /\ Unstamped(<<>>) = {}
  BY <1>1 DEF IsCore, Settled, Unstamped
<1>3. ASSUME NEW k, NEW at PROVE ReadableVersion(<<>>, k, at) = {}
  BY <1>1 DEF ReadableVersion, VisibleVersion, VersionsOf
<1>4. Counted(<<>>, 0)
  <2>1. Readable(<<>>) = {}
    BY <1>3 DEF Readable
  <2>2. Cardinality({}) = 0
    BY FS_EmptySet
  <2>3. QED
    BY <1>1, <2>1, <2>2 DEF Counted
<1>5. Nothing \in State /\ \A k \in Keys : Nothing[k].since <= published
  BY StoreAssumption DEF Nothing, State, Payloads
<1>6. ReadAt(<<>>, published) = Payload(Nothing)
  <2>1. ReadAt(<<>>, published) = [k \in Keys |-> Absent]
    BY <1>3 DEF ReadAt
  <2>2. Payload(Nothing) = [k \in Keys |-> Absent]
    BY DEF Payload, Nothing
  <2>3. QED
    BY <2>1, <2>2
<1>7. QED
  BY <1>2, <1>4, <1>5, <1>6 DEF Books

----------------------------------------------------------------------------
(* The inductive invariant.                                                *)

StoreBooks == Books(entries, publishedStamp, liveCount, latest)

ReadersServed ==
    \A t \in open : snapshot[t] \in 0..publishedStamp
                     /\ ReaderHolds(entries, latest, snapshot[t], view[t])

\* Whoever holds a snapshot after a call held it before, or took it of the newest commit.
ReadersMove ==
    \A t \in open' : \/ t \in open /\ snapshot'[t] = snapshot[t] /\ view'[t] = view[t]
                     \/ snapshot'[t] = publishedStamp' /\ view'[t] = latest'

\* A call that files, drops or sets aside what nobody sees.
LEMMA HiddenCall ==
    ASSUME StoreBooks, ReadersServed, ReadersMove,
           IsCore(entries'), Hidden(entries, entries'), UNCHANGED <<publishedStamp, liveCount, latest>>
    PROVE  StoreBooks' /\ ReadersServed'
<1>1. /\ Books(entries', publishedStamp, liveCount, latest)
      /\ \A at \in 0..MaxStamp : \A seen :
            ReaderHolds(entries, latest, at, seen) => ReaderHolds(entries', latest, at, seen)
  BY HiddenStep, Zenon DEF StoreBooks
<1>2. StoreBooks'
  BY <1>1 DEF StoreBooks
<1>3. publishedStamp \in 0..MaxStamp /\ publishedStamp' = publishedStamp /\ latest' = latest
  BY DEF StoreBooks, Books
<1>4. ReaderHolds(entries', latest', publishedStamp', latest')
  BY <1>2, FreshReader, Zenon DEF StoreBooks
<1>5. ASSUME NEW t \in open'
      PROVE  snapshot'[t] \in 0..publishedStamp' /\ ReaderHolds(entries', latest', snapshot'[t], view'[t])
  <2>1. CASE t \in open /\ snapshot'[t] = snapshot[t] /\ view'[t] = view[t]
    <3>1. snapshot[t] \in 0..publishedStamp /\ ReaderHolds(entries, latest, snapshot[t], view[t])
      BY <2>1 DEF ReadersServed
    <3>2. snapshot[t] \in 0..MaxStamp
      BY <1>3, <3>1, StampBounds
    <3>3. QED
      BY <2>1, <3>1, <3>2, <1>1, <1>3
  <2>2. CASE snapshot'[t] = publishedStamp' /\ view'[t] = latest'
    BY <2>2, <1>3, <1>4
  <2>3. QED
    BY <2>1, <2>2 DEF ReadersMove
<1>6. QED
  BY <1>2, <1>5 DEF ReadersServed

\* What a commit leaves of the keys it wrote.
PrunedToTheMark ==
    \A k \in Keys : latest'[k].since = publishedStamp' =>
        LET mark == LowWaterMark(open', snapshot', publishedStamp')
            below == {d \in VersionsOf(entries', k) : VisibleAt(entries'[d].committed, mark)}
        IN  Cardinality(below) <= 1 /\ \A d \in below : entries'[d].payload # Absent

\* A call that commits a group of versions nobody sees yet.
LEMMA PublishCall ==
    ASSUME StoreBooks, ReadersServed, ReadersMove,
           NEW e, IsCore(e), Hidden(entries, e), NEW ks, ks \subseteq Keys, NEW g,
           \A d \in DOMAIN e : d \in ks \X {g} => ~CommittedIn(e, d),
           PublishAndPrune(e, ks, g)
    PROVE  /\ StoreBooks' /\ ReadersServed'
           /\ DOMAIN entries' \subseteq DOMAIN e
           /\ Unstamped(entries') = Unstamped(e) \ (ks \X {g})
           /\ PrunedToTheMark
<1> DEFINE p == Published(e, ks, g, publishedStamp + 1)
           after == StateOf(latest, e, ks, g, publishedStamp + 1)
           mark == LowWaterMark(open', snapshot', publishedStamp')
<1>1. /\ Books(e, publishedStamp, liveCount, latest)
      /\ \A at \in 0..MaxStamp : \A seen :
            ReaderHolds(entries, latest, at, seen) => ReaderHolds(e, latest, at, seen)
  BY HiddenStep, Zenon DEF StoreBooks
<1>2. /\ publishedStamp < MaxStamp /\ publishedStamp' = publishedStamp + 1
      /\ liveCount' = (liveCount + Cardinality(Readable(p))) - Cardinality(Readable(e))
      /\ entries' = Pruned(p, ks, mark)
      /\ latest' = after
  BY DEF PublishAndPrune, StateAfter, StateOf
<1>3. Ready(e, publishedStamp, ks, g)
  BY <1>2 DEF Ready
<1>4. publishedStamp \in 0..MaxStamp /\ IsCore(e) /\ Settled(e, latest)
      /\ \A k \in Keys : latest[k].since \in Nat /\ latest[k].since <= publishedStamp
  BY <1>1 DEF Books, State
<1>5. /\ Books(p, publishedStamp + 1,
               (liveCount + Cardinality(Readable(p))) - Cardinality(Readable(e)), after)
      /\ \A at \in 0..publishedStamp : \A seen :
            ReaderHolds(e, latest, at, seen) => ReaderHolds(p, after, at, seen)
  BY <1>1, <1>3, PublishStep
<1>6. Books(p, publishedStamp', liveCount', latest')
  BY <1>2, <1>5, Zenon
<1>7. ASSUME NEW t \in open'
      PROVE  /\ snapshot'[t] \in Nat /\ snapshot'[t] <= publishedStamp'
             /\ ReaderHolds(p, latest', snapshot'[t], view'[t])
  <2>1. CASE t \in open /\ snapshot'[t] = snapshot[t] /\ view'[t] = view[t]
    <3>1. snapshot[t] \in 0..publishedStamp /\ ReaderHolds(entries, latest, snapshot[t], view[t])
      BY <2>1 DEF ReadersServed
    <3>2. snapshot[t] \in 0..MaxStamp /\ snapshot[t] \in Nat /\ snapshot[t] <= publishedStamp + 1
      BY <1>4, <3>1, StampBounds
    <3>3. ReaderHolds(e, latest, snapshot[t], view[t])
      BY <3>1, <3>2, <1>1
    <3>4. ReaderHolds(p, after, snapshot[t], view[t])
      BY <3>1, <3>3, <1>5
    <3> HIDE DEF p, after
    <3>5. QED
      BY <2>1, <3>2, <3>4, <1>2
  <2>2. CASE snapshot'[t] = publishedStamp' /\ view'[t] = latest'
    <3>1. ReaderHolds(p, latest', publishedStamp', latest')
      BY <1>6, FreshReader, Zenon
    <3>2. publishedStamp' \in Nat
      BY <1>2, <1>4
    <3> HIDE DEF p
    <3>3. QED
      BY <2>2, <3>1, <3>2
  <2>3. QED
    BY <2>1, <2>2 DEF ReadersMove
<1>8. publishedStamp' \in Nat /\ publishedStamp' <= MaxStamp /\ publishedStamp' \in 0..MaxStamp
  BY <1>2, <1>4, StampBounds
<1>9. mark \in Nat /\ mark <= publishedStamp' /\ \A t \in open' : mark <= snapshot'[t]
  BY <1>7, <1>8, MarkFacts
<1> HIDE DEF p, after, mark
<1>10. /\ Books(Pruned(p, ks, mark), publishedStamp', liveCount', latest')
       /\ \A at \in 0..MaxStamp : \A seen :
             mark <= at /\ ReaderHolds(p, latest', at, seen) => ReaderHolds(Pruned(p, ks, mark), latest', at, seen)
  BY <1>6, <1>9, PruneStep
<1>11. StoreBooks'
  BY <1>2, <1>10, Zenon DEF StoreBooks
<1>12. ReadersServed'
  <2>1. ASSUME NEW t \in open'
        PROVE  snapshot'[t] \in 0..publishedStamp' /\ ReaderHolds(entries', latest', snapshot'[t], view'[t])
    <3>1. snapshot'[t] \in 0..publishedStamp' /\ snapshot'[t] \in 0..MaxStamp
      BY <1>7, <1>8, StampBounds
    <3>2. QED
      BY <3>1, <1>2, <1>7, <1>9, <1>10
  <2>2. QED
    BY <2>1 DEF ReadersServed
<1>13. /\ IsCore(p) /\ DOMAIN p = DOMAIN e
       /\ \A d \in DOMAIN e :
             \/ /\ d[1] \in Standing(e, ks, g) /\ d = <<d[1], g>>
                /\ ~CommittedIn(e, d) /\ p[d].committed = publishedStamp + 1
             \/ /\ ~(d[1] \in Standing(e, ks, g) /\ d = <<d[1], g>>)
                /\ p[d].committed = e[d].committed
  BY <1>3, <1>4, PublishedVersions DEF p
<1>14. mark \in 0..MaxStamp
  BY <1>8, <1>9, StampBounds
<1>15. DOMAIN entries' \subseteq DOMAIN e /\ \A d \in DOMAIN entries' : entries'[d] = p[d]
  <2>1. IsCore(p)
    BY <1>13
  <2>2. /\ IsCore(Pruned(p, ks, mark))
        /\ DOMAIN Pruned(p, ks, mark) = {d \in DOMAIN p : d[1] \in ks => ~Unreachable(p, d, mark)}
        /\ \A d \in DOMAIN Pruned(p, ks, mark) : Pruned(p, ks, mark)[d] = p[d]
    BY <2>1, PrunedFacts, ZenonT(40)
  <2>3. QED
    BY <2>2, <1>2, <1>13
<1>16. Unstamped(entries') = Unstamped(e) \ (ks \X {g})
  <2>1. Unstamped(entries') = Unstamped(p)
    BY <1>2, <1>13, <1>14, PrunedVersions
  <2>2. publishedStamp + 1 # Uncommitted
    BY <1>2, <1>8, StampBounds
  <2>3. ASSUME NEW d \in DOMAIN e
        PROVE  d \in ks \X {g} <=> d[1] \in Standing(e, ks, g) /\ d = <<d[1], g>>
    BY DEF Standing
  <2>4. QED
    BY <2>1, <2>2, <2>3, <1>13 DEF Unstamped, CommittedIn
<1>17. PrunedToTheMark
  <2> SUFFICES ASSUME NEW k \in Keys, latest'[k].since = publishedStamp',
                      NEW below, below = {d \in VersionsOf(entries', k) : VisibleAt(entries'[d].committed, mark)}
               PROVE  Cardinality(below) <= 1 /\ \A d \in below : entries'[d].payload # Absent
    BY DEF PrunedToTheMark, mark
  <2>1. k \in ks
    <3>1. ASSUME k \notin ks PROVE FALSE
      <4>1. latest'[k] = latest[k]
        BY <3>1, <1>2 DEF after, StateOf, Standing
      <4>2. QED
        BY <4>1, <1>2, <1>4
    <3>2. QED
      BY <3>1
  <2>2. ASSUME NEW d \in below
        PROVE  d \in VisibleVersion(p, k, mark) /\ entries'[d].payload # Absent
    <3>1. d \in VersionsOf(Pruned(p, ks, mark), k) /\ d \in DOMAIN entries' /\ entries'[d].committed <= mark
      BY <1>2 DEF VersionsOf, VisibleAt
    <3>2. QED
      BY <3>1, <2>1, <1>13, <1>14, <1>15, PrunedVersions
  <2>3. Settled(p, latest')
    BY <1>6 DEF Books
  <2>4. Cardinality(below) <= 1
    BY <2>2, <2>3, <1>13, <1>14, OneVisible
  <2>5. QED
    BY <2>2, <2>4
<1>18. QED
  BY <1>11, <1>12, <1>15, <1>16, <1>17

----------------------------------------------------------------------------
(* Who bears a version nobody sees yet.                                    *)

Filing == {p \in Publications : filed[p] # {}}

\* The frame that can still stamp the version of k under h.
Bears(k, h) ==
    \/ \E t \in open : staging[t] = "staged" /\ k \in changed[t] /\ generation[t] = h
    \/ \E p \in Filing : k \in filed[p] /\ filedAs[p] = h

GenerationsApart ==
    /\ \A t \in open : generation[t] \in Generations
    /\ \A p \in Filing : filedAs[p] \in Generations
    /\ \A t, u \in open : generation[t] = generation[u] => t = u
    /\ \A p, q \in Filing : filedAs[p] = filedAs[q] => p = q
    /\ \A t \in open, p \in Filing : generation[t] # filedAs[p]

ClosedBlank ==
    \A t \in Transactions \ open : staging[t] = "pending" /\ changed[t] = {}

StagedBorne ==
    \A k \in Keys, h \in Generations : <<k, h>> \in Unstamped(entries) <=> Bears(k, h)

\* What a pending transaction has written, nobody filed under its generation yet.
Unspent ==
    \A t \in open : staging[t] = "pending" /\ changed[t] # {} =>
        \A d \in DOMAIN entries : d[2] # generation[t]

FiledAlone ==
    \A p \in Filing : \A d \in DOMAIN entries : d[2] = filedAs[p] => d[1] \in filed[p]

FramesApart == GenerationsApart /\ ClosedBlank /\ StagedBorne /\ Unspent /\ FiledAlone

FramesTyped ==
    /\ open \subseteq Transactions
    /\ staging \in [Transactions -> {"pending", "staged"}]
    /\ changed \in [Transactions -> SUBSET Keys]
    /\ generation \in [Transactions -> 0..MaxGeneration]
    /\ filed \in [Publications -> SUBSET Keys]
    /\ filedAs \in [Publications -> 0..MaxGeneration]

Free(g) ==
    /\ g \in Generations
    /\ \A d \in DOMAIN entries : d[2] # g
    /\ \A t \in open : generation[t] # g
    /\ \A p \in Filing : filedAs[p] # g

\* The generation a call draws is one that nobody carries.
LEMMA FreshIsFree ==
    ASSUME IsCore(entries), GenerationsApart, Carried # Generations
    PROVE  Free(FreshGeneration)
<1> DEFINE S == Generations \ Carried
<1>1. Carried \subseteq Generations
  BY DEF Carried, IsCore, GenerationsApart, Filing
<1>2. S # {} /\ S \in SUBSET Nat
  <2>1. Generations \subseteq Nat
    BY StoreAssumption DEF Generations
  <2>2. QED
    BY <1>1, <2>1
<1>3. \E g \in S : \A h \in S : g <= h
  BY <1>2, MinOfNaturals
<1>4. FreshGeneration \in S
  BY <1>3, Zenon DEF FreshGeneration
<1>5. QED
  BY <1>4 DEF Free, Carried, Filing

\* The versions a staged transaction can stamp, and those a publication can.
LEMMA OwnUnstamped ==
    ASSUME IsCore(entries), FramesTyped, FramesApart
    PROVE  /\ \A t \in open : staging[t] = "staged" =>
                changed[t] \X {generation[t]} \subseteq Unstamped(entries)
           /\ \A p \in Filing : filed[p] \X {filedAs[p]} \subseteq Unstamped(entries)
<1>1. ASSUME NEW t \in open, staging[t] = "staged", NEW k \in changed[t]
      PROVE  <<k, generation[t]>> \in Unstamped(entries)
  BY <1>1 DEF FramesTyped, FramesApart, GenerationsApart, StagedBorne, Bears
<1>2. ASSUME NEW p \in Filing, NEW k \in filed[p]
      PROVE  <<k, filedAs[p]>> \in Unstamped(entries)
  BY DEF FramesTyped, FramesApart, GenerationsApart, StagedBorne, Bears, Filing
<1>3. QED
  BY <1>1, <1>2

\* A call that changes nobody's writes, and files under no generation in use.
LEMMA OthersCall ==
    ASSUME FramesApart, UNCHANGED <<open, generation, staging, changed, filed, filedAs>>,
           NEW g, \A d \in DOMAIN entries' : d \in DOMAIN entries \/ (d[2] = g /\ Free(g)),
           Unstamped(entries') = Unstamped(entries)
    PROVE  FramesApart'
<1>1. Filing' = Filing
  BY DEF Filing
<1>2. GenerationsApart' /\ ClosedBlank'
  BY <1>1 DEF FramesApart, GenerationsApart, ClosedBlank
<1>3. StagedBorne'
  <2>1. \A k, h : Bears(k, h)' <=> Bears(k, h)
    BY <1>1 DEF Bears
  <2>2. QED
    BY <2>1 DEF FramesApart, StagedBorne
<1>4. Unspent' /\ FiledAlone'
  BY <1>1 DEF FramesApart, Unspent, FiledAlone, Free
<1>5. QED
  BY <1>2, <1>3, <1>4 DEF FramesApart

\* More written by a transaction that is not staged.
LEMMA WritesCall ==
    ASSUME FramesTyped, FramesApart, UNCHANGED <<entries, open, generation, staging, filed, filedAs>>,
           NEW t \in open, staging[t] = "pending", ~Spent(t),
           NEW ks, changed' = [changed EXCEPT ![t] = @ \cup ks]
    PROVE  FramesApart'
<1>1. Filing' = Filing /\ \A u \in open \ {t} : changed'[u] = changed[u]
  BY DEF Filing, FramesTyped
<1>2. GenerationsApart' /\ ClosedBlank'
  BY <1>1 DEF FramesApart, GenerationsApart, ClosedBlank, FramesTyped
<1>3. StagedBorne'
  <2>1. \A k, h : Bears(k, h)' <=> Bears(k, h)
    BY <1>1 DEF Bears
  <2>2. QED
    BY <2>1 DEF FramesApart, StagedBorne
<1>4. Unspent' /\ FiledAlone'
  BY <1>1 DEF FramesApart, Unspent, FiledAlone, Spent
<1>5. QED
  BY <1>2, <1>3, <1>4 DEF FramesApart

\* stage: what was written is filed, and nothing was filed under that generation before.
LEMMA StagesCall ==
    ASSUME FramesTyped, FramesApart, UNCHANGED <<open, generation, changed, filed, filedAs>>,
           NEW t \in open, staging[t] = "pending",
           staging' = [staging EXCEPT ![t] = "staged"],
           Grows(entries, entries', changed[t], generation[t])
    PROVE  FramesApart'
<1>1. /\ Filing' = Filing /\ t \in Transactions /\ staging'[t] = "staged"
      /\ \A u \in Transactions \ {t} : staging'[u] = staging[u]
  BY DEF Filing, FramesTyped
<1>2. GenerationsApart' /\ ClosedBlank'
  BY <1>1 DEF FramesApart, GenerationsApart, ClosedBlank, FramesTyped
<1>3. StagedBorne'
  <2>1. ASSUME NEW k, NEW h
        PROVE  Bears(k, h)' <=> Bears(k, h) \/ (k \in changed[t] /\ h = generation[t])
    BY <1>1 DEF Bears, FramesTyped
  <2>2. ASSUME NEW k, NEW h
        PROVE  <<k, h>> \in Unstamped(entries') <=>
                  <<k, h>> \in Unstamped(entries) \/ (k \in changed[t] /\ h = generation[t])
    BY DEF Grows
  <2>3. ASSUME NEW k \in Keys, NEW h \in Generations
        PROVE  <<k, h>> \in Unstamped(entries') <=> Bears(k, h)'
    <3>1. <<k, h>> \in Unstamped(entries) <=> Bears(k, h)
      BY DEF FramesApart, StagedBorne
    <3>2. QED
      BY <2>1, <2>2, <3>1
  <2>4. QED
    BY <2>3 DEF StagedBorne
<1>4. Unspent'
  <2>1. ASSUME NEW u \in open, staging'[u] = "pending", changed[u] # {}, NEW d \in DOMAIN entries'
        PROVE  d[2] # generation[u]
    <3>1. u # t /\ staging[u] = "pending"
      BY <1>1, <2>1 DEF FramesTyped
    <3>2. generation[u] # generation[t]
      BY <3>1 DEF FramesApart, GenerationsApart
    <3>3. d \in DOMAIN entries \/ d[2] = generation[t]
      BY DEF Grows
    <3>4. QED
      BY <2>1, <3>1, <3>2, <3>3 DEF FramesApart, Unspent
  <2>2. QED
    BY <2>1 DEF Unspent
<1>5. FiledAlone'
  <2>1. ASSUME NEW p \in Filing, NEW d \in DOMAIN entries', d[2] = filedAs[p]
        PROVE  d[1] \in filed[p]
    <3>1. d \in DOMAIN entries \/ d[2] = generation[t]
      BY DEF Grows
    <3>2. QED
      BY <2>1, <3>1 DEF FramesApart, FiledAlone, GenerationsApart
  <2>2. QED
    BY <1>1, <2>1 DEF FiledAlone
<1>6. QED
  BY <1>2, <1>3, <1>4, <1>5 DEF FramesApart

\* The keys of t a version is filed for.
Own(t) == IF staging[t] = "staged" THEN changed[t] ELSE {}

\* A transaction that is staged no longer: committed, rolled back, begun anew, closed, or just opened.
LEMMA ReleasesCall ==
    ASSUME FramesTyped, FramesApart, UNCHANGED <<filed, filedAs>>,
           NEW t \in Transactions, open' \cup {t} = open \cup {t},
           \A u \in Transactions \ {t} : /\ generation'[u] = generation[u]
                                        /\ staging'[u] = staging[u]
                                        /\ changed'[u] = changed[u],
           staging'[t] = "pending",
           \/ t \in open /\ generation'[t] = generation[t] /\ changed'[t] = {}
           \/ t \in open' /\ Free(generation'[t])
           \/ t \notin open' /\ changed'[t] = {},
           Shrinks(entries, entries', Own(t), generation[t])
    PROVE  FramesApart'
<1>1. Filing' = Filing /\ \A u \in Transactions \ {t} : u \in open' <=> u \in open
  BY DEF Filing
<1>2. open \subseteq Transactions /\ open' \subseteq Transactions
  BY DEF FramesTyped
<1>3. GenerationsApart'
  <2>1. ASSUME t \in open'
        PROVE  /\ generation'[t] \in Generations
               /\ \A u \in open \ {t} : generation[u] # generation'[t]
               /\ \A p \in Filing : generation'[t] # filedAs[p]
    BY <2>1 DEF FramesApart, GenerationsApart, Free
  <2>2. QED
    BY <1>1, <1>2, <2>1 DEF FramesApart, GenerationsApart
<1>4. ClosedBlank'
  BY <1>1 DEF FramesApart, ClosedBlank
<1>5. StagedBorne'
  <2>1. ASSUME NEW k \in Keys, NEW h \in Generations
        PROVE  Bears(k, h)' <=> Bears(k, h) /\ ~(k \in Own(t) /\ h = generation[t])
    <3>1. CASE k \in Own(t) /\ h = generation[t]
      <4>1. staging[t] = "staged" /\ t \in open
        BY <3>1 DEF Own, FramesApart, ClosedBlank
      <4>2. ~Bears(k, h)'
        BY <1>1, <1>2, <3>1, <4>1 DEF Bears, FramesApart, GenerationsApart
      <4>3. QED
        BY <3>1, <4>2
    <3>2. CASE ~(k \in Own(t) /\ h = generation[t])
      <4>1. ~(t \in open /\ staging[t] = "staged" /\ k \in changed[t] /\ generation[t] = h)
        BY <3>2 DEF Own
      <4>2. Bears(k, h)' <=> Bears(k, h)
        BY <1>1, <1>2, <4>1 DEF Bears
      <4>3. QED
        BY <3>2, <4>2
    <3>3. QED
      BY <3>1, <3>2
  <2>2. ASSUME NEW k, NEW h
        PROVE  <<k, h>> \in Unstamped(entries') <=>
                  <<k, h>> \in Unstamped(entries) /\ ~(k \in Own(t) /\ h = generation[t])
    BY DEF Shrinks
  <2>3. QED
    BY <2>1, <2>2 DEF FramesApart, StagedBorne
<1>6. Unspent'
  <2>1. ASSUME NEW u \in open', staging'[u] = "pending", changed'[u] # {}, NEW d \in DOMAIN entries'
        PROVE  d[2] # generation'[u]
    <3>1. d \in DOMAIN entries
      BY DEF Shrinks
    <3>2. CASE u = t
      BY <2>1, <3>1, <3>2 DEF Free
    <3>3. CASE u # t
      BY <1>1, <1>2, <2>1, <3>1, <3>3 DEF FramesApart, Unspent
    <3>4. QED
      BY <3>2, <3>3
  <2>2. QED
    BY <2>1 DEF Unspent
<1>7. FiledAlone'
  BY <1>1 DEF FramesApart, FiledAlone, Shrinks
<1>8. QED
  BY <1>3, <1>4, <1>5, <1>6, <1>7 DEF FramesApart

\* One more key filed by a publication, its first under a generation of its own.
LEMMA FilesCall ==
    ASSUME FramesTyped, FramesApart, UNCHANGED <<open, generation, staging, changed>>,
           NEW p \in Publications, NEW k \in Keys, NEW g,
           IF filed[p] = {} THEN Free(g) ELSE g = filedAs[p],
           filed' = [filed EXCEPT ![p] = @ \cup {k}],
           filedAs' = [filedAs EXCEPT ![p] = g],
           Grows(entries, entries', {k}, g)
    PROVE  FramesApart'
<1>1. /\ filed'[p] = filed[p] \cup {k} /\ filedAs'[p] = g
      /\ \A q \in Publications \ {p} : filed'[q] = filed[q] /\ filedAs'[q] = filedAs[q]
  BY DEF FramesTyped
<1>2. p \in Filing' /\ \A q : q \in Filing' <=> q \in Filing \/ q = p
  BY <1>1 DEF Filing
<1>3. p \in Filing => g = filedAs[p]
  BY DEF Filing
<1>4. p \notin Filing => Free(g)
  BY DEF Filing
<1>5. Filing \subseteq Publications
  BY DEF Filing
<1>6. GenerationsApart'
  <2>1. /\ g \in Generations /\ \A t \in open : generation[t] # g
        /\ \A q \in Filing \ {p} : filedAs[q] # g
    BY <1>3, <1>4 DEF FramesApart, GenerationsApart, Free
  <2>2. QED
    BY <1>1, <1>2, <1>5, <2>1 DEF FramesApart, GenerationsApart
<1>7. ClosedBlank'
  BY DEF FramesApart, ClosedBlank
<1>8. StagedBorne'
  <2>1. ASSUME NEW j, NEW h
        PROVE  Bears(j, h)' <=> Bears(j, h) \/ (j = k /\ h = g)
    BY <1>1, <1>2, <1>3, <1>5 DEF Bears, Filing
  <2>2. ASSUME NEW j, NEW h
        PROVE  <<j, h>> \in Unstamped(entries') <=>
                  <<j, h>> \in Unstamped(entries) \/ (j = k /\ h = g)
    BY DEF Grows
  <2>3. QED
    BY <2>1, <2>2 DEF FramesApart, StagedBorne
<1>9. ASSUME NEW d \in DOMAIN entries' PROVE d \in DOMAIN entries \/ (d[1] = k /\ d[2] = g)
  BY DEF Grows
<1>10. Unspent'
  <2>1. \A t \in open : generation[t] # g
    BY <1>3, <1>4 DEF FramesApart, GenerationsApart, Free
  <2>2. QED
    BY <1>9, <2>1 DEF FramesApart, Unspent
<1>11. FiledAlone'
  <2>1. ASSUME NEW q \in Filing', NEW d \in DOMAIN entries', d[2] = filedAs'[q]
        PROVE  d[1] \in filed'[q]
    <3>1. CASE q = p
      <4>1. CASE p \in Filing
        BY <1>1, <1>3, <1>9, <2>1, <3>1, <4>1 DEF FramesApart, FiledAlone
      <4>2. CASE p \notin Filing
        BY <1>1, <1>4, <1>9, <2>1, <3>1, <4>2 DEF Free
      <4>3. QED
        BY <4>1, <4>2
    <3>2. CASE q # p
      <4>1. q \in Filing /\ filedAs'[q] = filedAs[q] /\ filed'[q] = filed[q]
        BY <1>1, <1>2, <1>5, <3>2
      <4>2. filedAs[q] # g
        BY <1>3, <1>4, <3>2, <4>1 DEF FramesApart, GenerationsApart, Free
      <4>3. QED
        BY <1>9, <2>1, <4>1, <4>2 DEF FramesApart, FiledAlone
    <3>3. QED
      BY <3>1, <3>2
  <2>2. QED
    BY <2>1 DEF FiledAlone
<1>12. QED
  BY <1>6, <1>7, <1>8, <1>10, <1>11 DEF FramesApart

\* A publication that is done, published or withdrawn.
LEMMA EndsCall ==
    ASSUME FramesTyped, FramesApart, UNCHANGED <<open, generation, staging, changed>>,
           NEW p \in Filing,
           filed' = [filed EXCEPT ![p] = {}], filedAs' = [filedAs EXCEPT ![p] = 0],
           Shrinks(entries, entries', filed[p], filedAs[p])
    PROVE  FramesApart'
<1>1. /\ p \in Publications /\ filed'[p] = {}
      /\ \A q \in Publications \ {p} : filed'[q] = filed[q] /\ filedAs'[q] = filedAs[q]
  BY DEF FramesTyped, Filing
<1>2. Filing \subseteq Publications /\ \A q : q \in Filing' <=> q \in Filing /\ q # p
  BY <1>1 DEF Filing
<1>3. GenerationsApart' /\ ClosedBlank'
  BY <1>1, <1>2 DEF FramesApart, GenerationsApart, ClosedBlank
<1>4. StagedBorne'
  <2>1. ASSUME NEW k, NEW h
        PROVE  Bears(k, h)' <=> Bears(k, h) /\ ~(k \in filed[p] /\ h = filedAs[p])
    BY <1>1, <1>2 DEF Bears, FramesApart, GenerationsApart
  <2>2. ASSUME NEW k, NEW h
        PROVE  <<k, h>> \in Unstamped(entries') <=>
                  <<k, h>> \in Unstamped(entries) /\ ~(k \in filed[p] /\ h = filedAs[p])
    BY DEF Shrinks
  <2>3. QED
    BY <2>1, <2>2 DEF FramesApart, StagedBorne
<1>5. Unspent' /\ FiledAlone'
  BY <1>1, <1>2 DEF FramesApart, Unspent, FiledAlone, Shrinks
<1>6. QED
  BY <1>3, <1>4, <1>5 DEF FramesApart

----------------------------------------------------------------------------
(* Every call keeps the invariant.                                         *)

LeasesTyped == snapshot \in [Transactions -> 0..MaxStamp] /\ view \in [Transactions -> State]

ChangesTyped ==
    /\ DOMAIN changes = Transactions
    /\ \A t \in Transactions : /\ DOMAIN changes[t] \subseteq changed[t]
                               /\ \A k \in DOMAIN changes[t] : changes[t][k] \in Payloads
                               /\ staging[t] = "staged" => DOMAIN changes[t] = {}

AccessesTyped ==
    /\ reads \in [Transactions -> SUBSET Keys] /\ windows \in [Transactions -> SUBSET Keys]
    /\ readSet \in [Transactions -> {"names_every_key", "covers_everything", "unrecorded"}]

Typed == FramesTyped /\ LeasesTyped /\ ChangesTyped /\ AccessesTyped

Inv == StoreBooks /\ ReadersServed /\ FramesApart /\ Typed

\* The calls the theorems are about: nobody writes on with a transaction that
\* committed, nobody clears the store over a staged publication.
CallsInOrder == ~ReusesCommitted /\ ~ClearsPublications

\* The invariant gives every variable its type.
LEMMA InvTypes ==
    ASSUME Inv
    PROVE  TypeOK
<1>1. IsCore(entries) /\ publishedStamp \in 0..MaxStamp /\ latest \in State /\ Counted(entries, liveCount)
  BY DEF Inv, StoreBooks, Books
<1>2. liveCount \in Nat
  BY <1>1, ReadableFinite DEF Counted
<1>3. QED
  BY <1>1, <1>2 DEF Inv, Typed, FramesTyped, LeasesTyped, ChangesTyped, AccessesTyped, TypeOK, IsCore

\* An empty store satisfies the invariant.
LEMMA InitInv ==
    ASSUME Init
    PROVE  Inv
<1>1. StoreBooks /\ Unstamped(entries) = {}
  BY EmptyBooks, StoreAssumption DEF Init, StoreBooks
<1>2. ReadersServed
  BY DEF Init, ReadersServed
<1>3. Filing = {} /\ open = {}
  BY DEF Init, Filing
<1>4. FramesApart
  BY <1>1, <1>3 DEF Init, FramesApart, GenerationsApart, ClosedBlank, StagedBorne, Bears, Unspent, FiledAlone
<1>5. Nothing \in State
  BY StoreAssumption DEF Nothing, State, Payloads
<1>6. Typed
  BY <1>5, StoreAssumption DEF Init, Typed, FramesTyped, LeasesTyped, ChangesTyped, AccessesTyped
<1>7. QED
  BY <1>1, <1>2, <1>4, <1>6 DEF Inv

\* A call that moves no lease leaves every reader where it stands.
LEMMA SteadyReaders ==
    ASSUME UNCHANGED leaseVars
    PROVE  ReadersMove
BY DEF leaseVars, ReadersMove

\* A transaction taking a snapshot joins the readers at the watermark.
LEMMA LeaseTaken ==
    ASSUME Inv, NEW t \in Transactions, TakeSnapshot(t), StoreBooks'
    PROVE  ReadersMove /\ LeasesTyped' /\ open' = open \cup {t} /\ open' \subseteq Transactions
<1>1. publishedStamp' \in 0..MaxStamp /\ latest' \in State
  BY DEF StoreBooks, Books
<1>2. snapshot \in [Transactions -> 0..MaxStamp] /\ view \in [Transactions -> State] /\ open \subseteq Transactions
  BY DEF Inv, Typed, LeasesTyped, FramesTyped
<1>3. QED
  BY <1>1, <1>2 DEF TakeSnapshot, ReadersMove, LeasesTyped

\* A call that leaves the core alone changes nothing hidden either.
LEMMA SameHidden ==
    ASSUME StoreBooks, UNCHANGED <<entries, publishedStamp, liveCount, latest>>
    PROVE  /\ IsCore(entries') /\ Hidden(entries, entries')
           /\ \A g : Shrinks(entries, entries', {}, g)
<1>1. IsCore(entries) /\ entries' = entries
  BY DEF StoreBooks, Books
<1>2. \A d \in DOMAIN entries : ~CommittedIn(entries, d) => ~entries[d].survivor
  BY UnstampedUntagged DEF StoreBooks
<1>3. QED
  BY <1>1, <1>2 DEF Hidden, Shrinks

\* Reads and watches leave only what was read behind.
LEMMA QuietCall ==
    ASSUME Inv, UNCHANGED <<storeVars, writeVars, leaseVars, publicationVars>>, AccessesTyped'
    PROVE  Inv'
<1>1. StoreBooks' /\ ReadersServed'
  BY DEF Inv, StoreBooks, ReadersServed, storeVars, leaseVars
<1>2. FramesApart'
  <2>1. Filing' = Filing
    BY DEF Filing, publicationVars
  <2>2. \A k, h : Bears(k, h)' <=> Bears(k, h)
    BY <2>1 DEF Bears, leaseVars, writeVars, publicationVars
  <2>3. QED
    BY <2>1, <2>2 DEF Inv, FramesApart, GenerationsApart, ClosedBlank, StagedBorne, Unspent, FiledAlone,
                      storeVars, leaseVars, writeVars, publicationVars
<1>3. Typed'
  BY DEF Inv, Typed, FramesTyped, LeasesTyped, ChangesTyped, leaseVars, writeVars, publicationVars
<1>4. QED
  BY <1>1, <1>2, <1>3 DEF Inv

\* A write pending in its transaction keeps the invariant.
LEMMA StageChangesCall ==
    ASSUME Inv, CallsInOrder, NEW t, NEW group, IsGroup(group), StageChanges(t, group), AccessesTyped'
    PROVE  Inv'
<1>1. /\ t \in open /\ t \in Transactions /\ staging[t] = "pending" /\ ~Spent(t)
      /\ changes' = [changes EXCEPT ![t] = WrittenOver(group, @)]
      /\ changed' = [changed EXCEPT ![t] = @ \cup DOMAIN group]
  BY DEF Inv, Typed, FramesTyped, StageChanges, CallsInOrder
<1>2. /\ UNCHANGED <<entries, publishedStamp, liveCount, latest>>
      /\ UNCHANGED <<open, generation, staging, filed, filedAs>> /\ UNCHANGED <<snapshot, view>>
  BY DEF StageChanges, storeVars, leaseVars, publicationVars
<1>3. StoreBooks' /\ ReadersServed'
  BY <1>2 DEF Inv, StoreBooks, ReadersServed
<1>4. FramesApart'
  BY <1>1, <1>2, WritesCall DEF Inv, Typed
<1>5. FramesTyped' /\ LeasesTyped'
  BY <1>1, <1>2 DEF Inv, Typed, FramesTyped, LeasesTyped, IsGroup
<1>6. ChangesTyped'
  <2>1. /\ DOMAIN WrittenOver(group, changes[t]) = DOMAIN group \cup DOMAIN changes[t]
        /\ \A k \in DOMAIN WrittenOver(group, changes[t]) :
             WrittenOver(group, changes[t])[k] = IF k \in DOMAIN group THEN group[k] ELSE changes[t][k]
    BY DEF WrittenOver
  <2>2. changes'[t] = WrittenOver(group, changes[t]) /\ changed'[t] = changed[t] \cup DOMAIN group
    BY <1>1 DEF Inv, Typed, FramesTyped, ChangesTyped
  <2>3. /\ DOMAIN changes'[t] \subseteq changed'[t]
        /\ \A k \in DOMAIN changes'[t] : changes'[t][k] \in Payloads
    BY <1>1, <2>1, <2>2 DEF Inv, Typed, ChangesTyped, IsGroup
  <2>4. /\ DOMAIN changes' = Transactions
        /\ \A u \in Transactions \ {t} : changes'[u] = changes[u] /\ changed'[u] = changed[u]
    BY <1>1 DEF Inv, Typed, FramesTyped, ChangesTyped
  <2>5. QED
    BY <1>1, <1>2, <2>3, <2>4 DEF Inv, Typed, ChangesTyped
<1>7. QED
  BY <1>3, <1>4, <1>5, <1>6 DEF Inv, Typed

\* A call that leaves the accesses as they were, or forgets those of t.
LEMMA BlankTyped ==
    ASSUME Inv, NEW t \in Transactions, Blank(t)
    PROVE  /\ AccessesTyped'
           /\ staging' = [staging EXCEPT ![t] = "pending"] /\ changed' = [changed EXCEPT ![t] = {}]
           /\ staging'[t] = "pending" /\ changed'[t] = {}
           /\ \A u \in Transactions \ {t} : staging'[u] = staging[u] /\ changed'[u] = changed[u]
           /\ ChangesTyped'
<1>1. /\ staging \in [Transactions -> {"pending", "staged"}] /\ changed \in [Transactions -> SUBSET Keys]
      /\ ChangesTyped /\ AccessesTyped
  BY DEF Inv, Typed, FramesTyped
<1>2. AccessesTyped'
  BY <1>1 DEF AccessesTyped, Blank
<1>3. ChangesTyped'
  <2>1. DOMAIN <<>> = {}
    OBVIOUS
  <2>2. QED
    BY <1>1, <2>1 DEF ChangesTyped, Blank
<1>4. QED
  BY <1>1, <1>2, <1>3 DEF Blank

\* Generations are numbers, zero among them.
LEMMA GenerationTyped == Generations \subseteq 0..MaxGeneration /\ 0 \in 0..MaxGeneration
BY StoreAssumption DEF Generations

\* Opening a transaction keeps the invariant.
LEMMA OpenCall ==
    ASSUME Inv, NEW t \in Transactions, Open(t)
    PROVE  Inv'
<1>1. /\ t \notin open /\ Carried # Generations
      /\ generation' = [generation EXCEPT ![t] = FreshGeneration]
      /\ UNCHANGED <<entries, publishedStamp, liveCount, latest>>
      /\ UNCHANGED <<reads, windows, readSet>> /\ UNCHANGED <<staging, changes, changed>>
      /\ UNCHANGED <<filed, filedAs>> /\ TakeSnapshot(t)
  BY DEF Open, storeVars, accessVars, publicationVars
<1>2. IsCore(entries') /\ Hidden(entries, entries') /\ Shrinks(entries, entries', {}, generation[t])
  BY <1>1, SameHidden DEF Inv
<1>3. StoreBooks'
  BY <1>1 DEF Inv, StoreBooks
<1>4. ReadersMove /\ LeasesTyped' /\ open' = open \cup {t} /\ open' \subseteq Transactions
  BY <1>1, <1>3, LeaseTaken
<1>5. ReadersServed'
  BY <1>1, <1>2, <1>4, HiddenCall DEF Inv
<1>6. Free(FreshGeneration)
  BY <1>1, FreshIsFree DEF Inv, StoreBooks, Books, FramesApart
<1>7. /\ generation'[t] = FreshGeneration /\ staging[t] = "pending" /\ changed[t] = {} /\ Own(t) = {}
      /\ \A u \in Transactions \ {t} : generation'[u] = generation[u]
  BY <1>1 DEF Inv, Typed, FramesTyped, FramesApart, ClosedBlank, Own
<1>8. FramesApart'
  BY <1>1, <1>2, <1>4, <1>6, <1>7, ReleasesCall DEF Inv, Typed
<1>9. FramesTyped' /\ ChangesTyped' /\ AccessesTyped'
  BY <1>1, <1>4, <1>6, GenerationTyped DEF Inv, Typed, FramesTyped, ChangesTyped, AccessesTyped, Free
<1>10. QED
  BY <1>3, <1>4, <1>5, <1>8, <1>9 DEF Inv, Typed

\* stage keeps the invariant: it files under its own generation, where nothing
\* committed stands.
LEMMA StageCall ==
    ASSUME Inv, NEW t \in Transactions, Stage(t)
    PROVE  Inv'
<1> DEFINE group == StagedPayloads(t)
<1>1. /\ t \in open /\ staging[t] = "pending"
      /\ entries' = Filed(entries, group, generation[t])
      /\ changes' = [changes EXCEPT ![t] = <<>>]
      /\ staging' = [staging EXCEPT ![t] = "staged"]
      /\ UNCHANGED <<publishedStamp, liveCount, latest>> /\ UNCHANGED <<reads, windows, readSet>>
      /\ UNCHANGED <<generation, changed>> /\ UNCHANGED <<open, snapshot, view>> /\ UNCHANGED <<filed, filedAs>>
  BY DEF Stage, accessVars, leaseVars, publicationVars
<1>2. DOMAIN group = changed[t] /\ IsGroup(group)
  <2>1. DOMAIN group = changed[t]
    BY DEF StagedPayloads
  <2>2. changed[t] \subseteq Keys
    BY DEF Inv, Typed, FramesTyped
  <2>3. ASSUME NEW k \in changed[t] PROVE group[k] \in Payloads
    <3>1. \A j \in DOMAIN changes[t] : changes[t][j] \in Payloads
      BY DEF Inv, Typed, ChangesTyped
    <3>2. QED
      BY <3>1 DEF StagedPayloads, Payloads
  <2>4. QED
    BY <2>1, <2>2, <2>3 DEF IsGroup
<1> HIDE DEF group
<1>3. generation[t] \in Generations
  BY <1>1 DEF Inv, FramesApart, GenerationsApart
<1>4. \A d \in DOMAIN entries : d \in (DOMAIN group) \X {generation[t]} => ~CommittedIn(entries, d)
  BY <1>1, <1>2 DEF Inv, FramesApart, Unspent
<1>5. /\ IsCore(entries') /\ Hidden(entries, entries')
      /\ Grows(entries, entries', changed[t], generation[t])
  BY <1>1, <1>2, <1>3, <1>4, FiledHidden DEF Inv, StoreBooks
<1>6. ReadersMove
  BY <1>1 DEF ReadersMove
<1>7. StoreBooks' /\ ReadersServed'
  BY <1>1, <1>5, <1>6, HiddenCall DEF Inv
<1>8. FramesApart'
  BY <1>1, <1>5, StagesCall DEF Inv, Typed
<1>9. FramesTyped' /\ LeasesTyped' /\ AccessesTyped'
  BY <1>1 DEF Inv, Typed, FramesTyped, LeasesTyped, AccessesTyped
<1>10. ChangesTyped'
  <2>1. DOMAIN <<>> = {}
    OBVIOUS
  <2>2. QED
    BY <1>1, <2>1 DEF Inv, Typed, ChangesTyped
<1>11. QED
  BY <1>7, <1>8, <1>9, <1>10 DEF Inv, Typed

\* stage running out of memory keeps the invariant.
LEMMA StageFailsCall ==
    ASSUME Inv, NEW t \in Transactions, NEW reserved, StageFails(t, reserved)
    PROVE  Inv'
<1>1. /\ t \in open /\ staging[t] = "pending" /\ reserved \subseteq changed[t]
      /\ entries' = Dropped(entries, reserved, generation[t])
      /\ UNCHANGED <<publishedStamp, liveCount, latest>> /\ UNCHANGED <<reads, windows, readSet>>
      /\ UNCHANGED <<generation, staging, changes, changed>>
      /\ UNCHANGED <<open, snapshot, view>> /\ UNCHANGED <<filed, filedAs>>
  BY DEF StageFails, accessVars, writeVars, leaseVars, publicationVars
<1>2. \A d \in DOMAIN entries : d \notin reserved \X {generation[t]}
  BY <1>1 DEF Inv, FramesApart, Unspent
<1>3. /\ IsCore(entries') /\ Hidden(entries, entries')
      /\ Shrinks(entries, entries', reserved, generation[t])
  BY <1>1, <1>2, DroppedHidden DEF Inv, StoreBooks
<1>4. DOMAIN entries' \subseteq DOMAIN entries /\ Unstamped(entries') = Unstamped(entries)
  BY <1>2, <1>3 DEF Shrinks, Unstamped
<1>5. ReadersMove
  BY <1>1 DEF ReadersMove
<1>6. StoreBooks' /\ ReadersServed'
  BY <1>1, <1>3, <1>5, HiddenCall DEF Inv
<1>7. FramesApart'
  <2>1. \A d \in DOMAIN entries' : d \in DOMAIN entries \/ (d[2] = 0 /\ Free(0))
    BY <1>4
  <2>2. QED
    BY <1>1, <1>4, <2>1, OthersCall DEF Inv
<1>8. Typed'
  BY <1>1 DEF Inv, Typed, FramesTyped, LeasesTyped, AccessesTyped, ChangesTyped
<1>9. QED
  BY <1>6, <1>7, <1>8 DEF Inv

\* What a transaction gives up of the versions it staged.
LEMMA UnstagedHidden ==
    ASSUME Inv, NEW t \in open, staging[t] = "staged",
           entries' = Dropped(entries, changed[t], generation[t])
    PROVE  IsCore(entries') /\ Hidden(entries, entries') /\ Shrinks(entries, entries', Own(t), generation[t])
<1>1. \A d \in DOMAIN entries : d \in changed[t] \X {generation[t]} => ~CommittedIn(entries, d)
  BY OwnUnstamped DEF Inv, Typed, StoreBooks, Books, Unstamped
<1>2. /\ IsCore(entries') /\ Hidden(entries, entries')
      /\ Shrinks(entries, entries', changed[t], generation[t])
  BY <1>1, DroppedHidden DEF Inv, StoreBooks
<1>3. QED
  BY <1>2 DEF Own

\* rollback keeps the invariant, running out of memory or not.
LEMMA RollbackCall ==
    ASSUME Inv, NEW t \in Transactions, NEW lost, Rollback(t, lost)
    PROVE  Inv'
<1>1. /\ t \in open /\ staging[t] = "staged" /\ Carried # Generations
      /\ entries' = Dropped(entries, changed[t], generation[t])
      /\ staging' = [staging EXCEPT ![t] = "pending"]
      /\ generation' = [generation EXCEPT ![t] = FreshGeneration]
      /\ UNCHANGED <<publishedStamp, liveCount, latest>> /\ UNCHANGED <<reads, windows, readSet>>
      /\ UNCHANGED changed /\ UNCHANGED <<open, snapshot, view>> /\ UNCHANGED <<filed, filedAs>>
  BY DEF Rollback, accessVars, leaseVars, publicationVars
<1>2. IsCore(entries') /\ Hidden(entries, entries') /\ Shrinks(entries, entries', Own(t), generation[t])
  BY <1>1, UnstagedHidden
<1>3. ReadersMove
  BY <1>1 DEF ReadersMove
<1>4. StoreBooks' /\ ReadersServed'
  BY <1>1, <1>2, <1>3, HiddenCall DEF Inv
<1>5. Free(FreshGeneration)
  BY <1>1, FreshIsFree DEF Inv, StoreBooks, Books, FramesApart
<1>6. /\ generation'[t] = FreshGeneration /\ staging'[t] = "pending"
      /\ \A u \in Transactions \ {t} : generation'[u] = generation[u] /\ staging'[u] = staging[u]
  BY <1>1 DEF Inv, Typed, FramesTyped
<1>7. FramesApart'
  BY <1>1, <1>2, <1>5, <1>6, ReleasesCall DEF Inv, Typed
<1>8. FramesTyped' /\ LeasesTyped' /\ AccessesTyped'
  BY <1>1, <1>5, GenerationTyped DEF Inv, Typed, FramesTyped, LeasesTyped, AccessesTyped, Free
<1>9. ChangesTyped'
  <2> DEFINE group == [k \in Standing(entries, changed[t], generation[t]) \ lost |->
                            entries[<<k, generation[t]>>].payload]
  <2>1. changes' = [changes EXCEPT ![t] = group]
    BY DEF Rollback
  <2>2. DOMAIN group \subseteq changed[t]
    BY DEF Standing
  <2>3. ASSUME NEW k \in DOMAIN group PROVE group[k] \in Payloads
    <3>1. <<k, generation[t]>> \in DOMAIN entries
      BY DEF Standing
    <3>2. entries[<<k, generation[t]>>] \in Versions
      BY <3>1 DEF Inv, StoreBooks, Books, IsCore
    <3>3. QED
      BY <3>2, VersionFields
  <2> HIDE DEF group
  <2>4. QED
    BY <1>1, <1>6, <2>1, <2>2, <2>3 DEF Inv, Typed, ChangesTyped
<1>10. QED
  BY <1>4, <1>7, <1>8, <1>9 DEF Inv, Typed

\* What Reset and Close do to the versions of t, staged or not.
LEMMA UnstagesHidden ==
    ASSUME Inv, NEW t \in open, entries' = Unstaged(t), UNCHANGED <<publishedStamp, liveCount, latest>>
    PROVE  IsCore(entries') /\ Hidden(entries, entries') /\ Shrinks(entries, entries', Own(t), generation[t])
<1>1. CASE staging[t] = "staged"
  BY <1>1, UnstagedHidden DEF Unstaged
<1>2. CASE staging[t] # "staged"
  BY <1>2, SameHidden DEF Inv, Unstaged, Own
<1>3. QED
  BY <1>1, <1>2

\* reset keeps the invariant.
LEMMA ResetCall ==
    ASSUME Inv, NEW t \in Transactions, Reset(t)
    PROVE  Inv'
<1>1. /\ t \in open /\ Carried # Generations /\ entries' = Unstaged(t) /\ Blank(t)
      /\ generation' = [generation EXCEPT ![t] = FreshGeneration]
      /\ UNCHANGED <<publishedStamp, liveCount, latest>> /\ UNCHANGED <<filed, filedAs>> /\ TakeSnapshot(t)
  BY DEF Reset, publicationVars
<1>2. IsCore(entries') /\ Hidden(entries, entries') /\ Shrinks(entries, entries', Own(t), generation[t])
  BY <1>1, UnstagesHidden
<1>3. Books(entries', publishedStamp, liveCount, latest)
  BY <1>2, HiddenStep DEF Inv, StoreBooks
<1>4. StoreBooks'
  BY <1>1, <1>3 DEF StoreBooks
<1>5. ReadersMove /\ LeasesTyped' /\ open' = open \cup {t} /\ open' \subseteq Transactions
  BY <1>1, <1>4, LeaseTaken
<1>6. ReadersServed'
  BY <1>1, <1>2, <1>5, HiddenCall DEF Inv
<1>7. Free(FreshGeneration)
  BY <1>1, FreshIsFree DEF Inv, StoreBooks, Books, FramesApart
<1>8. /\ AccessesTyped' /\ ChangesTyped'
      /\ staging' = [staging EXCEPT ![t] = "pending"] /\ changed' = [changed EXCEPT ![t] = {}]
      /\ staging'[t] = "pending" /\ changed'[t] = {}
      /\ \A u \in Transactions \ {t} : staging'[u] = staging[u] /\ changed'[u] = changed[u]
  BY <1>1, BlankTyped
<1>9. generation'[t] = FreshGeneration /\ \A u \in Transactions \ {t} : generation'[u] = generation[u]
  BY <1>1 DEF Inv, Typed, FramesTyped
<1>10. FramesApart'
  BY <1>1, <1>2, <1>5, <1>7, <1>8, <1>9, ReleasesCall DEF Inv, Typed
<1>11. FramesTyped'
  BY <1>1, <1>5, <1>7, <1>8, GenerationTyped DEF Inv, Typed, FramesTyped, Free
<1>12. QED
  BY <1>4, <1>5, <1>6, <1>8, <1>10, <1>11 DEF Inv, Typed

\* The destructor keeps the invariant.
LEMMA CloseCall ==
    ASSUME Inv, NEW t \in Transactions, Close(t)
    PROVE  Inv'
<1>1. /\ t \in open /\ entries' = Unstaged(t) /\ Blank(t) /\ open' = open \ {t}
      /\ generation' = [generation EXCEPT ![t] = 0]
      /\ snapshot' = [snapshot EXCEPT ![t] = 0] /\ view' = [view EXCEPT ![t] = Nothing]
      /\ UNCHANGED <<publishedStamp, liveCount, latest>> /\ UNCHANGED <<filed, filedAs>>
  BY DEF Close, publicationVars
<1>2. IsCore(entries') /\ Hidden(entries, entries') /\ Shrinks(entries, entries', Own(t), generation[t])
  BY <1>1, UnstagesHidden
<1>3. open \subseteq Transactions /\ LeasesTyped /\ generation \in [Transactions -> 0..MaxGeneration]
  BY DEF Inv, Typed, FramesTyped
<1>4. ReadersMove
  BY <1>1, <1>3 DEF ReadersMove, LeasesTyped
<1>5. StoreBooks' /\ ReadersServed'
  BY <1>1, <1>2, <1>4, HiddenCall DEF Inv
<1>6. LeasesTyped'
  <2>1. Nothing \in State /\ 0 \in 0..MaxStamp
    BY StoreAssumption DEF Nothing, State, Payloads
  <2>2. QED
    BY <1>1, <1>3, <2>1 DEF LeasesTyped
<1>7. /\ AccessesTyped' /\ ChangesTyped'
      /\ staging' = [staging EXCEPT ![t] = "pending"] /\ changed' = [changed EXCEPT ![t] = {}]
      /\ staging'[t] = "pending" /\ changed'[t] = {}
      /\ \A u \in Transactions \ {t} : staging'[u] = staging[u] /\ changed'[u] = changed[u]
  BY <1>1, BlankTyped
<1>8. t \notin open' /\ open' \cup {t} = open \cup {t}
      /\ \A u \in Transactions \ {t} : generation'[u] = generation[u]
  BY <1>1, <1>3
<1>9. FramesApart'
  BY <1>1, <1>2, <1>7, <1>8, ReleasesCall DEF Inv, Typed
<1>10. FramesTyped'
  BY <1>1, <1>3, <1>7, GenerationTyped DEF Inv, Typed, FramesTyped
<1>11. QED
  BY <1>5, <1>6, <1>7, <1>9, <1>10 DEF Inv, Typed

\* commit keeps the invariant and prunes the keys it wrote.
LEMMA CommitCall ==
    ASSUME Inv, NEW t \in Transactions, Commit(t)
    PROVE  Inv' /\ PrunedToTheMark
<1>1. /\ t \in open /\ staging[t] = "staged" /\ TakeSnapshot(t)
      /\ PublishAndPrune(entries, changed[t], generation[t])
      /\ staging' = [staging EXCEPT ![t] = "pending"] /\ changed' = [changed EXCEPT ![t] = {}]
      /\ UNCHANGED <<generation, changes>> /\ UNCHANGED <<reads, windows, readSet>> /\ UNCHANGED <<filed, filedAs>>
  BY DEF Commit, publicationVars
<1>2. /\ changed[t] \subseteq Keys
      /\ staging'[t] = "pending" /\ changed'[t] = {}
      /\ \A u \in Transactions \ {t} : staging'[u] = staging[u] /\ changed'[u] = changed[u]
  BY <1>1 DEF Inv, Typed, FramesTyped
<1>3. \A d \in DOMAIN entries : d \in changed[t] \X {generation[t]} => ~CommittedIn(entries, d)
  BY <1>1, OwnUnstamped DEF Inv, Typed, StoreBooks, Books, Unstamped
<1>4. IsCore(entries) /\ Hidden(entries, entries)
  <2>1. \A d \in DOMAIN entries : ~CommittedIn(entries, d) => ~entries[d].survivor
    BY UnstampedUntagged DEF Inv, StoreBooks
  <2>2. QED
    BY <2>1 DEF Hidden, Inv, StoreBooks, Books
<1>5. ReadersMove
  <2>1. snapshot \in [Transactions -> 0..MaxStamp] /\ view \in [Transactions -> State] /\ open \subseteq Transactions
    BY DEF Inv, Typed, LeasesTyped, FramesTyped
  <2>2. QED
    BY <1>1, <2>1 DEF TakeSnapshot, ReadersMove
<1>6. /\ StoreBooks' /\ ReadersServed' /\ PrunedToTheMark
      /\ DOMAIN entries' \subseteq DOMAIN entries
      /\ Unstamped(entries') = Unstamped(entries) \ (changed[t] \X {generation[t]})
  BY <1>1, <1>2, <1>3, <1>4, <1>5, PublishCall DEF Inv
<1>7. ReadersMove /\ LeasesTyped' /\ open' = open \cup {t} /\ open' \subseteq Transactions
  BY <1>1, <1>6, LeaseTaken
<1>8. Shrinks(entries, entries', Own(t), generation[t])
  BY <1>1, <1>6 DEF Shrinks, Own
<1>9. FramesApart'
  BY <1>1, <1>2, <1>7, <1>8, ReleasesCall DEF Inv, Typed
<1>10. FramesTyped' /\ AccessesTyped'
  BY <1>1, <1>7 DEF Inv, Typed, FramesTyped, AccessesTyped
<1>11. ChangesTyped'
  BY <1>1, <1>2 DEF Inv, Typed, ChangesTyped
<1>12. QED
  BY <1>6, <1>7, <1>9, <1>10, <1>11 DEF Inv, Typed

\* A direct write of a group keeps the invariant and prunes what it wrote.
LEMMA PublishGroupCall ==
    ASSUME Inv, NEW group, IsGroup(group), PublishGroup(group)
    PROVE  Inv' /\ PrunedToTheMark
<1> DEFINE g == FreshGeneration
           e == Filed(entries, group, g)
           new == (DOMAIN group) \X {g}
<1>1. /\ Carried # Generations /\ PublishAndPrune(e, DOMAIN group, g)
      /\ UNCHANGED <<reads, windows, readSet>> /\ UNCHANGED <<generation, staging, changes, changed>>
      /\ UNCHANGED <<open, snapshot, view>> /\ UNCHANGED <<filed, filedAs>>
  BY DEF PublishGroup, accessVars, writeVars, leaseVars, publicationVars
<1>2. Free(g) /\ g \in Generations
  BY <1>1, FreshIsFree DEF Inv, StoreBooks, Books, FramesApart, Free
<1> HIDE DEF g
<1>3. \A d \in DOMAIN entries : d \notin new
  BY <1>2 DEF Free
<1>4. /\ IsCore(e) /\ Hidden(entries, e) /\ Grows(entries, e, DOMAIN group, g)
  BY <1>2, <1>3, FiledHidden DEF Inv, StoreBooks
<1> HIDE DEF e
<1>5. \A d \in DOMAIN e : d \in new => ~CommittedIn(e, d)
  BY <1>4 DEF Grows, Unstamped
<1>6. ReadersMove
  BY <1>1 DEF ReadersMove
<1>7. /\ StoreBooks' /\ ReadersServed' /\ PrunedToTheMark
      /\ DOMAIN entries' \subseteq DOMAIN e
      /\ Unstamped(entries') = Unstamped(e) \ new
  <2>1. DOMAIN group \subseteq Keys
    BY DEF IsGroup
  <2>2. QED
    BY <1>1, <1>4, <1>5, <1>6, <2>1, PublishCall DEF Inv
<1>8. /\ \A d \in DOMAIN entries' : d \in DOMAIN entries \/ (d[2] = g /\ Free(g))
      /\ Unstamped(entries') = Unstamped(entries)
  BY <1>2, <1>3, <1>4, <1>7 DEF Grows, Unstamped
<1>9. FramesApart'
  BY <1>1, <1>8, OthersCall DEF Inv
<1>10. Typed'
  BY <1>1 DEF Inv, Typed, FramesTyped, LeasesTyped, AccessesTyped, ChangesTyped
<1>11. QED
  BY <1>7, <1>9, <1>10 DEF Inv

\* A publication filing a version keeps the invariant.
LEMMA FileCall ==
    ASSUME Inv, NEW p \in Publications, NEW k \in Keys, NEW payload \in Payloads, File(p, k, payload)
    PROVE  Inv'
<1> DEFINE g == IF filed[p] = {} THEN FreshGeneration ELSE filedAs[p]
<1>1. /\ filed[p] # {} \/ Carried # Generations
      /\ entries' = Filed(entries, Single(k, payload), g)
      /\ filedAs' = [filedAs EXCEPT ![p] = g] /\ filed' = [filed EXCEPT ![p] = @ \cup {k}]
      /\ UNCHANGED <<publishedStamp, liveCount, latest>> /\ UNCHANGED <<reads, windows, readSet>>
      /\ UNCHANGED <<generation, staging, changes, changed>> /\ UNCHANGED <<open, snapshot, view>>
  BY DEF File, accessVars, writeVars, leaseVars
<1>2. (IF filed[p] = {} THEN Free(g) ELSE g = filedAs[p]) /\ g \in Generations
  <2>1. CASE filed[p] = {}
    BY <1>1, <2>1, FreshIsFree DEF Inv, StoreBooks, Books, FramesApart, Free
  <2>2. CASE filed[p] # {}
    BY <2>2 DEF Inv, FramesApart, GenerationsApart, Filing
  <2>3. QED
    BY <2>1, <2>2
<1> HIDE DEF g
<1>3. DOMAIN Single(k, payload) = {k} /\ IsGroup(Single(k, payload))
  BY DEF Single, IsGroup
<1>4. \A d \in DOMAIN entries : d \in {k} \X {g} => ~CommittedIn(entries, d)
  <2>1. SUFFICES ASSUME NEW d \in DOMAIN entries, d = <<k, g>> PROVE ~CommittedIn(entries, d)
    OBVIOUS
  <2>2. filed[p] # {}
    BY <1>2, <2>1 DEF Free
  <2>3. p \in Filing /\ g = filedAs[p] /\ k \in filed[p]
    BY <1>2, <2>1, <2>2 DEF Filing, Inv, FramesApart, FiledAlone
  <2>4. QED
    BY <2>1, <2>3, OwnUnstamped DEF Inv, Typed, StoreBooks, Books, Unstamped
<1>5. IsCore(entries') /\ Hidden(entries, entries') /\ Grows(entries, entries', {k}, g)
  BY <1>1, <1>2, <1>3, <1>4, FiledHidden DEF Inv, StoreBooks
<1>6. ReadersMove
  BY <1>1 DEF ReadersMove
<1>7. StoreBooks' /\ ReadersServed'
  BY <1>1, <1>5, <1>6, HiddenCall DEF Inv
<1>8. FramesApart'
  BY <1>1, <1>2, <1>5, FilesCall DEF Inv, Typed
<1>9. Typed'
  BY <1>1, <1>2, GenerationTyped DEF Inv, Typed, FramesTyped, LeasesTyped, AccessesTyped, ChangesTyped
<1>10. QED
  BY <1>7, <1>8, <1>9 DEF Inv

\* Publishing keeps the invariant and prunes what was published.
LEMMA PublishedCall ==
    ASSUME Inv, NEW p \in Publications, Publish(p)
    PROVE  Inv' /\ PrunedToTheMark
<1>1. /\ p \in Filing /\ PublishAndPrune(entries, filed[p], filedAs[p])
      /\ filed' = [filed EXCEPT ![p] = {}] /\ filedAs' = [filedAs EXCEPT ![p] = 0]
      /\ UNCHANGED <<reads, windows, readSet>> /\ UNCHANGED <<generation, staging, changes, changed>>
      /\ UNCHANGED <<open, snapshot, view>>
  BY DEF Publish, Filing, accessVars, writeVars, leaseVars
<1>2. filed[p] \subseteq Keys
  BY DEF Inv, Typed, FramesTyped
<1>3. \A d \in DOMAIN entries : d \in filed[p] \X {filedAs[p]} => ~CommittedIn(entries, d)
  BY <1>1, OwnUnstamped DEF Inv, Typed, StoreBooks, Books, Unstamped
<1>4. IsCore(entries) /\ Hidden(entries, entries)
  <2>1. \A d \in DOMAIN entries : ~CommittedIn(entries, d) => ~entries[d].survivor
    BY UnstampedUntagged DEF Inv, StoreBooks
  <2>2. QED
    BY <2>1 DEF Hidden, Inv, StoreBooks, Books
<1>5. ReadersMove
  BY <1>1 DEF ReadersMove
<1>6. /\ StoreBooks' /\ ReadersServed' /\ PrunedToTheMark
      /\ DOMAIN entries' \subseteq DOMAIN entries
      /\ Unstamped(entries') = Unstamped(entries) \ (filed[p] \X {filedAs[p]})
  BY <1>1, <1>2, <1>3, <1>4, <1>5, PublishCall DEF Inv
<1>7. Shrinks(entries, entries', filed[p], filedAs[p])
  BY <1>6 DEF Shrinks
<1>8. FramesApart'
  BY <1>1, <1>7, EndsCall DEF Inv, Typed
<1>9. Typed'
  BY <1>1, GenerationTyped DEF Inv, Typed, FramesTyped, LeasesTyped, AccessesTyped, ChangesTyped
<1>10. QED
  BY <1>6, <1>8, <1>9 DEF Inv

\* A publication withdrawn keeps the invariant.
LEMMA WithdrawCall ==
    ASSUME Inv, NEW p \in Publications, Withdraw(p)
    PROVE  Inv'
<1>1. /\ p \in Filing /\ entries' = Dropped(entries, filed[p], filedAs[p])
      /\ filed' = [filed EXCEPT ![p] = {}] /\ filedAs' = [filedAs EXCEPT ![p] = 0]
      /\ UNCHANGED <<publishedStamp, liveCount, latest>> /\ UNCHANGED <<reads, windows, readSet>>
      /\ UNCHANGED <<generation, staging, changes, changed>> /\ UNCHANGED <<open, snapshot, view>>
  BY DEF Withdraw, Filing, accessVars, writeVars, leaseVars
<1>2. \A d \in DOMAIN entries : d \in filed[p] \X {filedAs[p]} => ~CommittedIn(entries, d)
  BY <1>1, OwnUnstamped DEF Inv, Typed, StoreBooks, Books, Unstamped
<1>3. IsCore(entries') /\ Hidden(entries, entries') /\ Shrinks(entries, entries', filed[p], filedAs[p])
  BY <1>1, <1>2, DroppedHidden DEF Inv, StoreBooks
<1>4. ReadersMove
  BY <1>1 DEF ReadersMove
<1>5. StoreBooks' /\ ReadersServed'
  BY <1>1, <1>3, <1>4, HiddenCall DEF Inv
<1>6. FramesApart'
  BY <1>1, <1>3, EndsCall DEF Inv, Typed
<1>7. Typed'
  BY <1>1, GenerationTyped DEF Inv, Typed, FramesTyped, LeasesTyped, AccessesTyped, ChangesTyped
<1>8. QED
  BY <1>5, <1>6, <1>7 DEF Inv

\* vacuum keeps the invariant.
LEMMA VacuumCall ==
    ASSUME Inv, NEW ks, Vacuum(ks)
    PROVE  Inv'
<1> DEFINE mark == LowWaterMark(open, snapshot, publishedStamp)
<1>1. /\ entries' = Pruned(entries, ks, mark)
      /\ UNCHANGED <<publishedStamp, liveCount, latest>> /\ UNCHANGED <<reads, windows, readSet>>
      /\ UNCHANGED <<generation, staging, changes, changed>> /\ UNCHANGED <<open, snapshot, view>>
      /\ UNCHANGED <<filed, filedAs>>
  BY DEF Vacuum, accessVars, writeVars, leaseVars, publicationVars
<1>2. /\ publishedStamp \in Nat /\ publishedStamp \in 0..MaxStamp /\ publishedStamp <= MaxStamp /\ IsCore(entries)
      /\ \A t \in open : /\ snapshot[t] \in 0..MaxStamp /\ snapshot[t] \in Nat /\ snapshot[t] <= publishedStamp
                          /\ ReaderHolds(entries, latest, snapshot[t], view[t])
  BY StampBounds DEF Inv, StoreBooks, Books, ReadersServed
<1>3. mark \in Nat /\ mark <= publishedStamp /\ \A t \in open : mark <= snapshot[t]
  BY <1>2, MarkFacts
<1> HIDE DEF mark
<1>4. /\ Books(entries', publishedStamp, liveCount, latest)
      /\ \A at \in 0..MaxStamp : \A seen :
            mark <= at /\ ReaderHolds(entries, latest, at, seen) => ReaderHolds(entries', latest, at, seen)
  BY <1>1, <1>3, PruneStep DEF Inv, StoreBooks
<1>5. StoreBooks' /\ ReadersServed'
  BY <1>1, <1>2, <1>3, <1>4 DEF StoreBooks, ReadersServed
<1>6. mark \in 0..MaxStamp
  BY <1>2, <1>3, StampBounds
<1>7. DOMAIN entries' \subseteq DOMAIN entries /\ Unstamped(entries') = Unstamped(entries)
  <2>1. Unstamped(entries') = Unstamped(entries)
    BY <1>1, <1>2, <1>6, PrunedVersions
  <2>2. DOMAIN entries' \subseteq DOMAIN entries
    BY <1>1 DEF Pruned
  <2>3. QED
    BY <2>1, <2>2
<1>8. FramesApart'
  <2>1. \A d \in DOMAIN entries' : d \in DOMAIN entries \/ (d[2] = 0 /\ Free(0))
    BY <1>7
  <2>2. QED
    BY <1>1, <1>7, <2>1, OthersCall DEF Inv
<1>9. Typed'
  BY <1>1 DEF Inv, Typed, FramesTyped, LeasesTyped, AccessesTyped, ChangesTyped
<1>10. QED
  BY <1>5, <1>8, <1>9 DEF Inv

\* clear keeps the invariant, since nobody reads and no publication has filed anything.
LEMMA ClearCall ==
    ASSUME Inv, CallsInOrder, Clear
    PROVE  Inv'
<1>1. /\ open = {} /\ Filing = {} /\ entries' = <<>> /\ liveCount' = 0 /\ latest' = Nothing
      /\ UNCHANGED publishedStamp /\ UNCHANGED <<reads, windows, readSet>>
      /\ UNCHANGED <<generation, staging, changes, changed>> /\ UNCHANGED <<open, snapshot, view>>
      /\ UNCHANGED <<filed, filedAs>>
  BY DEF Clear, CallsInOrder, Filing, accessVars, writeVars, leaseVars, publicationVars
<1>2. publishedStamp \in 0..MaxStamp
  BY DEF Inv, StoreBooks, Books
<1>3. Books(<<>>, publishedStamp, 0, Nothing) /\ Unstamped(<<>>) = {}
  BY <1>2, EmptyBooks
<1>4. StoreBooks' /\ Unstamped(entries') = {}
  BY <1>1, <1>3 DEF StoreBooks
<1>5. Filing' = {} /\ open' = {}
  BY <1>1 DEF Filing
<1>6. FramesApart'
  BY <1>1, <1>4, <1>5 DEF Inv, FramesApart, GenerationsApart, ClosedBlank, StagedBorne, Bears, Unspent, FiledAlone
<1>7. ReadersServed' /\ Typed'
  BY <1>1 DEF Inv, ReadersServed, Typed, FramesTyped, LeasesTyped, AccessesTyped, ChangesTyped
<1>8. QED
  BY <1>4, <1>6, <1>7 DEF Inv

InKeys(footprint) == footprint.reads \subseteq Keys /\ footprint.windows \subseteq Keys

\* What a read records is keys, windows of keys, or everything.
LEMMA RecordedInKeys ==
    ASSUME NEW q \in Queries, NEW v
    PROVE  InKeys(Recorded(q, v))
<1>1. \A ks \in Intervals : ks \subseteq Keys
  BY StoreAssumption DEF Intervals, Keys
<1>2. \A k \in Keys : 1..k - 1 \subseteq Keys
  BY StoreAssumption DEF Keys
<1>3. \A landed : Before(landed) \subseteq Keys
  BY DEF Before
<1>4. CASE q \in [op : {"find", "lower_bound", "upper_bound", "rank"}, key : Keys]
  <2>1. q.key \in Keys /\ q.op \in {"find", "lower_bound", "upper_bound", "rank"}
    BY <1>4
  <2>2. q.op \in {"lower_bound", "upper_bound"} => Landed(q, v) \subseteq Keys
    BY DEF Landed, First, PresentIn
  <2>3. QED
    BY <1>2, <1>3, <2>1, <2>2 DEF Recorded, Footprint, InKeys
<1>5. CASE q \in [op : {"range"}, keys : Intervals]
  BY <1>1, <1>5 DEF Recorded, Footprint, InKeys
<1>6. CASE q \in [op : {"select"}, ordinal : 0..KeyCount - 1] \cup [op : {"smallest", "for_each"}]
  <2>1. q.op \in {"select", "smallest", "for_each"}
    BY <1>6
  <2>2. q.op \in {"select", "smallest"} => Landed(q, v) \subseteq Keys
    BY DEF Landed, First, PresentIn
  <2>3. QED
    BY <1>3, <2>1, <2>2 DEF Recorded, Footprint, InKeys
<1>7. QED
  BY <1>4, <1>5, <1>6 DEF Queries

\* Recording a footprint keeps the types of the records.
LEMMA RecordTyped ==
    ASSUME Inv, NEW t \in Transactions, NEW footprint, InKeys(footprint), Record(t, footprint)
    PROVE  AccessesTyped'
BY DEF Inv, Typed, AccessesTyped, Record, InKeys

\* A transactional read keeps the invariant.
LEMMA ReadCall ==
    ASSUME Inv, NEW t \in Transactions, NEW q \in Queries, Read(t, q)
    PROVE  Inv'
<1>1. InKeys(Recorded(q, Reads(t)))
  BY RecordedInKeys
<1>2. AccessesTyped'
  BY <1>1, RecordTyped DEF Read
<1>3. QED
  BY <1>2, QuietCall DEF Read

\* watch keeps the invariant.
LEMMA WatchCall ==
    ASSUME Inv, NEW t \in Transactions, NEW k \in Keys, Watch(t, k)
    PROVE  Inv'
<1>1. AccessesTyped'
  BY DEF Watch, Inv, Typed, AccessesTyped
<1>2. QED
  BY <1>1, QuietCall DEF Watch, storeVars, writeVars, leaseVars, publicationVars

\* One key with its payload is a group.
LEMMA SingleGroup ==
    ASSUME NEW k \in Keys, NEW payload \in Payloads
    PROVE  IsGroup(Single(k, payload))
BY DEF IsGroup, Single

\* upsert, insert and update of a transaction keep the invariant.
LEMMA WriteCall ==
    ASSUME Inv, CallsInOrder, NEW t \in Transactions, NEW k \in Keys, NEW v \in Values,
           Upsert(t, k, v) \/ Insert(t, k, v) \/ Update(t, k, v)
    PROVE  Inv' /\ publishedStamp' = publishedStamp
<1>1. v \in Payloads
  BY DEF Payloads
<1>2. CASE Upsert(t, k, v)
  <2>1. AccessesTyped'
    BY <1>2 DEF Upsert, accessVars, Inv, Typed, AccessesTyped
  <2>2. QED
    BY <1>1, <1>2, <2>1, SingleGroup, StageChangesCall DEF Upsert, StageChanges, storeVars
<1>3. CASE \E payload \in Payloads : Probed(t, k, payload)
  <2>1. PICK payload \in Payloads : Probed(t, k, payload)
    BY <1>3
  <2>2. InKeys(Footprint({k}, {}, FALSE))
    BY DEF InKeys, Footprint
  <2>3. AccessesTyped'
    BY <2>1, <2>2, RecordTyped DEF Probed
  <2>4. QED
    BY <2>1, <2>3, SingleGroup, StageChangesCall DEF Probed, StageChanges, storeVars
<1>4. QED
  BY <1>1, <1>2, <1>3 DEF Insert, Update

\* Ranged writes of a transaction keep the invariant.
LEMMA WalkCall ==
    ASSUME Inv, CallsInOrder, NEW t \in Transactions, NEW q \in Queries,
           \/ EraseWalked(t, q)
           \/ \E v \in Values : UpdateWalked(t, q, v)
    PROVE  Inv' /\ publishedStamp' = publishedStamp
<1> DEFINE walked == Recorded(q, Reads(t))
<1>1. InKeys(walked) /\ PresentIn(Reads(t)) \subseteq Keys
  BY RecordedInKeys DEF PresentIn
<1>2. CASE EraseWalked(t, q)
  <2>1. PICK members \in SUBSET Keys :
          StageChanges(t, [k \in members |-> Absent]) /\ Record(t, [walked EXCEPT !.reads = members])
    BY <1>1, <1>2 DEF EraseWalked
  <2>2. InKeys([walked EXCEPT !.reads = members])
    <3>1. \E rs, ws, whole : walked = Footprint(rs, ws, whole)
      BY Zenon DEF Recorded
    <3>2. QED
      BY <1>1, <3>1 DEF InKeys, Footprint
  <2>3. AccessesTyped'
    BY <2>1, <2>2, RecordTyped
  <2>4. IsGroup([k \in members |-> Absent])
    BY DEF IsGroup, Payloads
  <2>5. QED
    BY <2>1, <2>3, <2>4, StageChangesCall DEF StageChanges, storeVars
<1>3. CASE \E v \in Values : UpdateWalked(t, q, v)
  <2>1. PICK v \in Values : UpdateWalked(t, q, v)
    BY <1>3
  <2>2. AccessesTyped'
    BY <1>1, <2>1, RecordTyped DEF UpdateWalked
  <2>3. IsGroup([k \in PresentIn(Reads(t)) \cap q.keys |-> v])
    BY <1>1 DEF IsGroup, Payloads
  <2>4. QED
    BY <2>1, <2>2, <2>3, StageChangesCall DEF UpdateWalked, StageChanges, storeVars
<1>4. QED
  BY <1>2, <1>3

\* What callers write: a payload for every key of the group.
Given(group) == IsGroup(group) /\ \A k \in DOMAIN group : group[k] # Unset

\* One key with a payload of the caller's is such a group.
LEMMA SingleGiven ==
    ASSUME NEW k \in Keys, NEW payload \in Payloads \ {Unset}
    PROVE  Given(Single(k, payload))
BY DEF Given, IsGroup, Single

\* Every write of the store itself commits a group its caller gave it.
LEMMA DirectGroups ==
    ASSUME StoreCall
    PROVE  \/ \E group : Given(group) /\ PublishGroup(group)
           \/ \E ks : Vacuum(ks)
           \/ Clear
<1>1. Values \cup {Absent} \subseteq Payloads \ {Unset}
  BY StoreAssumption DEF Payloads
<1>2. PresentIn(Current) \subseteq Keys
  BY DEF PresentIn
<1>3. ASSUME NEW k \in Keys, StoreErase(k) PROVE \E group : Given(group) /\ PublishGroup(group)
  BY <1>1, <1>3, SingleGiven DEF StoreErase
<1>4. ASSUME NEW k \in Keys, NEW v \in Values, StoreUpsert(k, v) \/ StoreInsert(k, v) \/ StoreUpdate(k, v)
      PROVE  \E group : Given(group) /\ PublishGroup(group)
  BY <1>1, <1>4, SingleGiven DEF StoreUpsert, StoreInsert, StoreUpdate
<1>5. ASSUME NEW group \in Partial(Values), CommitEach(group)
      PROVE  \E some : Given(some) /\ PublishGroup(some)
  BY <1>1, <1>5 DEF CommitEach, Partial, Given, IsGroup
<1>6. ASSUME NEW ks, TombstoneWalked(ks) PROVE \E group : Given(group) /\ PublishGroup(group)
  BY <1>1, <1>2, <1>6 DEF TombstoneWalked, Given, IsGroup
<1>7. ASSUME NEW ks, NEW v \in Values, StoreUpdateRange(ks, v)
      PROVE  \E group : Given(group) /\ PublishGroup(group)
  BY <1>1, <1>2, <1>7 DEF StoreUpdateRange, Given, IsGroup
<1>8. ASSUME PopSmallest PROVE \E group : Given(group) /\ PublishGroup(group)
  <2>1. First(PresentIn(Current)) \subseteq Keys
    BY <1>2 DEF First
  <2>2. QED
    BY <1>3, <1>8, <2>1 DEF PopSmallest
<1>9. QED
  BY <1>3, <1>4, <1>5, <1>6, <1>7, <1>8 DEF StoreCall

\* Every call of the store itself keeps the invariant, and prunes if it commits.
LEMMA DirectCall ==
    ASSUME Inv, CallsInOrder, StoreCall
    PROVE  Inv' /\ (publishedStamp' = publishedStamp \/ PrunedToTheMark)
<1>1. ASSUME NEW group, IsGroup(group), PublishGroup(group) PROVE Inv' /\ PrunedToTheMark
  BY <1>1, PublishGroupCall
<1>2. ASSUME NEW ks, Vacuum(ks) PROVE Inv' /\ publishedStamp' = publishedStamp
  BY <1>2, VacuumCall DEF Vacuum
<1>3. ASSUME Clear PROVE Inv' /\ publishedStamp' = publishedStamp
  BY <1>3, ClearCall DEF Clear
<1>4. QED
  BY <1>1, <1>2, <1>3, DirectGroups DEF Given

\* Every call of a transaction keeps the invariant, and prunes if it commits.
LEMMA OwnCall ==
    ASSUME Inv, CallsInOrder, NEW t \in Transactions, TransactionCall(t)
    PROVE  Inv' /\ (publishedStamp' = publishedStamp \/ PrunedToTheMark)
<1>1. CASE Open(t)
  BY <1>1, OpenCall DEF Open, storeVars
<1>2. CASE Stage(t)
  BY <1>2, StageCall DEF Stage
<1>3. CASE Commit(t)
  BY <1>3, CommitCall
<1>4. CASE Reset(t)
  BY <1>4, ResetCall DEF Reset
<1>5. CASE Close(t)
  BY <1>5, CloseCall DEF Close
<1>6. ASSUME NEW q \in Queries, Read(t, q) PROVE Inv' /\ publishedStamp' = publishedStamp
  BY <1>6, ReadCall DEF Read, storeVars
<1>7. ASSUME NEW k \in Keys, Watch(t, k) PROVE Inv' /\ publishedStamp' = publishedStamp
  BY <1>7, WatchCall DEF Watch, storeVars
<1>8. ASSUME NEW k \in Keys, Erase(t, k) PROVE Inv' /\ publishedStamp' = publishedStamp
  <2>1. CASE Probed(t, k, Absent)
    <3>1. InKeys(Footprint({k}, {}, FALSE))
      BY DEF InKeys, Footprint
    <3>2. AccessesTyped'
      BY <2>1, <3>1, RecordTyped DEF Probed
    <3>3. Absent \in Payloads
      BY DEF Payloads
    <3>4. QED
      BY <2>1, <3>2, <3>3, SingleGroup, StageChangesCall DEF Probed, StageChanges, storeVars
  <2>2. QED
    BY <1>8, <2>1 DEF Erase
<1>9. ASSUME NEW k \in Keys, NEW v \in Values, Upsert(t, k, v) \/ Insert(t, k, v) \/ Update(t, k, v)
      PROVE  Inv' /\ publishedStamp' = publishedStamp
  BY <1>9, WriteCall
<1>10. ASSUME NEW ks, StageFails(t, ks) PROVE Inv' /\ publishedStamp' = publishedStamp
  BY <1>10, StageFailsCall DEF StageFails
<1>11. ASSUME NEW ks, Rollback(t, ks) PROVE Inv' /\ publishedStamp' = publishedStamp
  BY <1>11, RollbackCall DEF Rollback
<1>12. ASSUME NEW ks \in Intervals, EraseWalked(t, [op |-> "range", keys |-> ks])
       PROVE  Inv' /\ publishedStamp' = publishedStamp
  <2>1. [op |-> "range", keys |-> ks] \in Queries
    BY DEF Queries
  <2>2. QED
    BY <1>12, <2>1, WalkCall
<1>13. ASSUME EraseWalked(t, [op |-> "for_each"]) PROVE Inv' /\ publishedStamp' = publishedStamp
  <2>1. [op |-> "for_each"] \in Queries
    BY DEF Queries
  <2>2. QED
    BY <1>13, <2>1, WalkCall
<1>14. ASSUME NEW ks \in Intervals, NEW v \in Values, UpdateWalked(t, [op |-> "range", keys |-> ks], v)
       PROVE  Inv' /\ publishedStamp' = publishedStamp
  <2>1. [op |-> "range", keys |-> ks] \in Queries
    BY DEF Queries
  <2>2. QED
    BY <1>14, <2>1, WalkCall
<1>15. QED
  BY <1>1, <1>2, <1>3, <1>4, <1>5, <1>6, <1>7, <1>8, <1>9, <1>10, <1>11, <1>12, <1>13, <1>14
  DEF TransactionCall

\* Every step of the specification keeps the invariant, and commits prune to the mark.
LEMMA StepInv ==
    ASSUME Inv, CallsInOrder, [Next]_vars
    PROVE  Inv' /\ (publishedStamp' = publishedStamp \/ PrunedToTheMark)
<1>1. ASSUME NEW p \in Publications, PublicationCall(p)
      PROVE  Inv' /\ (publishedStamp' = publishedStamp \/ PrunedToTheMark)
  <2>1. CASE Publish(p)
    BY <2>1, PublishedCall
  <2>2. CASE Withdraw(p)
    BY <2>2, WithdrawCall DEF Withdraw
  <2>3. ASSUME NEW k \in Keys, NEW payload \in Values \cup {Absent}, File(p, k, payload)
        PROVE  Inv' /\ publishedStamp' = publishedStamp
    BY <2>3, FileCall DEF File, Payloads
  <2>4. QED
    BY <1>1, <2>1, <2>2, <2>3 DEF PublicationCall
<1>2. CASE UNCHANGED vars
  <2>1. AccessesTyped'
    BY <1>2 DEF vars, accessVars, Inv, Typed, AccessesTyped
  <2>2. QED
    BY <1>2, <2>1, QuietCall DEF vars, storeVars
<1>3. QED
  BY <1>1, <1>2, OwnCall, DirectCall DEF Next

----------------------------------------------------------------------------
(* What the runs check, for every instance.                                *)

\* The books, the readers, the frames and the types hold after every call.
THEOREM Invariance ==
    ASSUME CallsInOrder
    PROVE  Spec => []Inv
<1>1. Init => Inv
  BY InitInv
<1>2. Inv /\ [Next]_vars => Inv'
  BY StepInv
<1>3. QED
  BY <1>1, <1>2, PTL DEF Spec

\* Every variable of the store and of its transactions and publications keeps
\* its type.
THEOREM TypeCorrect ==
    ASSUME CallsInOrder
    PROVE  Spec => []TypeOK
<1>1. Inv => TypeOK
  BY InvTypes
<1>2. QED
  BY <1>1, Invariance, PTL

\* Whatever is committed, pruned, vacuumed, withdrawn or rolled back, every open
\* snapshot, and the newest one, still reads what it read when it was drawn.
THEOREM SnapshotsAlwaysHold ==
    ASSUME CallsInOrder
    PROVE  Spec => []SnapshotsHold
<1>1. Inv => SnapshotsHold
  BY DEF Inv, StoreBooks, Books, ReadersServed, ReaderHolds, SnapshotsHold
<1>2. QED
  BY <1>1, Invariance, PTL

\* Pruning never hides a conflict from an open transaction, nor makes one up.
THEOREM ConflictsAlwaysShow ==
    ASSUME CallsInOrder
    PROVE  Spec => []ConflictsShow
<1>1. Inv => ConflictsShow
  BY DEF Inv, ReadersServed, ReaderHolds, ConflictsShow
<1>2. QED
  BY <1>1, Invariance, PTL

\* A version is uncommitted exactly while the frame that staged it can still
\* stamp it.
THEOREM StagedAlwaysStands ==
    ASSUME CallsInOrder
    PROVE  Spec => []StagedStands
<1> DEFINE owned == UNION {changed[t] \X {generation[t]} : t \in {u \in open : staging[u] = "staged"}}
           lent == UNION {filed[p] \X {filedAs[p]} : p \in Publications}
<1>1. ASSUME Inv PROVE StagedStands
  <2>1. Unstamped(entries) \subseteq Keys \X Generations
    BY <1>1 DEF Inv, StoreBooks, Books, IsCore, Unstamped
  <2>2. owned \cup lent \subseteq Unstamped(entries)
    <3>1. /\ \A t \in open : staging[t] = "staged" =>
               changed[t] \X {generation[t]} \subseteq Unstamped(entries)
          /\ \A p \in Filing : filed[p] \X {filedAs[p]} \subseteq Unstamped(entries)
      BY <1>1, OwnUnstamped DEF Inv, Typed, StoreBooks, Books
    <3>2. QED
      BY <3>1 DEF Filing
  <2>3. ASSUME NEW d \in Unstamped(entries) PROVE d \in owned \cup lent
    <3>1. PICK k \in Keys, h \in Generations : d = <<k, h>>
      BY <2>1, <2>3
    <3>2. Bears(k, h)
      BY <1>1, <2>3, <3>1 DEF Inv, FramesApart, StagedBorne
    <3>3. CASE \E t \in open : staging[t] = "staged" /\ k \in changed[t] /\ generation[t] = h
      BY <3>1, <3>3
    <3>4. CASE \E p \in Filing : k \in filed[p] /\ filedAs[p] = h
      BY <3>1, <3>4 DEF Filing
    <3>5. QED
      BY <3>2, <3>3, <3>4 DEF Bears
  <2>4. {d \in DOMAIN entries : entries[d].committed = Uncommitted} = Unstamped(entries)
    BY DEF Unstamped, CommittedIn
  <2>5. Unstamped(entries) = owned \cup lent
    BY <2>2, <2>3
  <2>6. QED
    BY <2>4, <2>5 DEF StagedStands
<1>2. QED
  BY <1>1, Invariance, PTL

\* The size, and the tags the ordinal reads count, are those of what is readable.
THEOREM CountsAlwaysExact ==
    ASSUME CallsInOrder
    PROVE  Spec => []CountsExact
<1>1. ASSUME Inv PROVE CountsExact
  <2>1. Counted(entries, liveCount) /\ IsCore(entries)
    BY <1>1 DEF Inv, StoreBooks, Books
  <2>2. \A d \in DOMAIN entries : d[1] \in Keys
    BY <2>1 DEF IsCore
  <2>3. \A k : ReadableVersion(entries, k, LatestSnapshot) \subseteq VersionsOf(entries, k)
    BY DEF ReadableVersion, VisibleVersion
  <2>4. \A k : \A d \in VersionsOf(entries, k) : d \in DOMAIN entries /\ d[1] = k
    BY DEF VersionsOf
  <2>5. QED
    BY <2>1, <2>2, <2>3, <2>4 DEF Counted, CountsExact
<1>2. QED
  BY <1>1, Invariance, PTL

\* Of a key it wrote, a commit leaves at most one version that the mark sees,
\* and no tombstone among them.
THEOREM AlwaysPrunesToTheMark ==
    ASSUME CallsInOrder
    PROVE  Spec => PrunesToTheMark
<1> DEFINE Step ==
      \A k \in Keys : publishedStamp' > publishedStamp /\ latest'[k].since = publishedStamp' =>
        LET mark == LowWaterMark(open', snapshot', publishedStamp')
            below == {d \in VersionsOf(entries', k) : VisibleAt(entries'[d].committed, mark)}
        IN  Cardinality(below) <= 1 /\ \A d \in below : entries'[d].payload # Absent
<1>1. ASSUME Inv, [Next]_vars PROVE Step
  <2>1. publishedStamp \in Nat /\ (publishedStamp' = publishedStamp => ~(publishedStamp' > publishedStamp))
    BY <1>1, StoreAssumption DEF Inv, StoreBooks, Books
  <2>2. publishedStamp' = publishedStamp \/ PrunedToTheMark
    BY <1>1, StepInv
  <2>3. QED
    BY <2>1, <2>2 DEF PrunedToTheMark
<1>2. Inv /\ [Next]_vars => [Step]_vars
  BY <1>1
<1>3. QED
  BY <1>2, Invariance, PTL DEF Spec, PrunesToTheMark

----------------------------------------------------------------------------
(* The footprint of a read decides its answer.                             *)

\* The first of a set of keys is the least one.
LEMMA FirstIs ==
    ASSUME NEW S \in SUBSET Nat, NEW j \in S, \A k \in S : j <= k
    PROVE  First(S) = {j}
<1>1. ASSUME NEW k \in First(S) PROVE k = j
  <2>1. k \in Nat /\ j \in Nat /\ j <= k /\ k <= j
    BY <1>1 DEF First
  <2>2. QED
    BY <2>1
<1>2. QED
  BY <1>1 DEF First

\* Keys below the first one present are absent, and a change to none of them
\* nor to it leaves it the first.
LEMMA SameFirst ==
    ASSUME NEW v, NEW w, NEW ks \in SUBSET Keys,
           \A k \in First(PresentIn(v) \cap ks) : w[k] = v[k],
           \A k \in Before(First(PresentIn(v) \cap ks)) \cap ks : w[k] = v[k]
    PROVE  First(PresentIn(w) \cap ks) = First(PresentIn(v) \cap ks)
<1> DEFINE A == PresentIn(v) \cap ks
           B == PresentIn(w) \cap ks
<1>1. A \subseteq Keys /\ B \subseteq Keys /\ A \in SUBSET Nat /\ B \in SUBSET Nat
  <2>1. Keys \subseteq Nat
    BY StoreAssumption DEF Keys
  <2>2. QED
    BY <2>1
<1>2. CASE A = {}
  <2>1. First(A) = {}
    BY <1>2 DEF First
  <2>2. Before(First(A)) = Keys
    BY <2>1 DEF Before
  <2>3. B = {}
    BY <1>2, <2>2 DEF PresentIn
  <2>4. QED
    BY <1>2, <2>3
<1>3. CASE A # {}
  <2>1. PICK j \in A : \A k \in A : j <= k
    BY <1>1, <1>3, MinOfNaturals
  <2>2. First(A) = {j}
    BY <1>1, <2>1, FirstIs
  <2>3. j \in B
    BY <2>1, <2>2 DEF PresentIn
  <2>4. ASSUME NEW k \in B PROVE j <= k
    <3>1. CASE k < j
      <4>1. k \in Before(First(A)) \cap ks
        BY <1>1, <2>2, <3>1 DEF Before
      <4>2. k \in A
        BY <4>1 DEF PresentIn
      <4>3. QED
        BY <2>1, <4>2
    <3>2. j \in Nat /\ k \in Nat
      BY <1>1
    <3>3. QED
      BY <3>1, <3>2
  <2>5. First(B) = {j}
    BY <1>1, <2>3, <2>4, FirstIs
  <2>6. QED
    BY <2>2, <2>5
<1>4. QED
  BY <1>2, <1>3

\* An ordinal names one key at most.
LEMMA OneOrdinal ==
    ASSUME NEW v, NEW j \in PresentIn(v), NEW k \in PresentIn(v),
           Cardinality(PresentIn(v) \cap 1..j - 1) = Cardinality(PresentIn(v) \cap 1..k - 1)
    PROVE  j = k
<1>1. PresentIn(v) \subseteq Nat
  BY StoreAssumption DEF PresentIn, Keys
<1>2. ASSUME NEW a \in PresentIn(v), NEW b \in PresentIn(v), a < b
      PROVE  Cardinality(PresentIn(v) \cap 1..a - 1) # Cardinality(PresentIn(v) \cap 1..b - 1)
  <2> DEFINE A == PresentIn(v) \cap 1..a - 1
             B == PresentIn(v) \cap 1..b - 1
  <2>1. a \in Nat /\ b \in Nat /\ a >= 1
    BY StoreAssumption DEF PresentIn, Keys
  <2>2. A \subseteq B /\ a \in B /\ a \notin A
    BY <1>2, <2>1
  <2>3. IsFiniteSet(1..b - 1)
    BY <2>1, FS_Interval
  <2>4. IsFiniteSet(B)
    BY <2>3, FS_Subset
  <2>5. A # B
    BY <2>2
  <2> HIDE DEF A, B
  <2>6. Cardinality(A) # Cardinality(B)
    BY <2>2, <2>4, <2>5, FS_Subset
  <2>7. QED
    BY <2>6 DEF A, B
<1>3. j \in Nat /\ k \in Nat /\ (j < k \/ k < j \/ j = k)
  BY <1>1
<1>4. QED
  BY <1>2, <1>3

\* Two states alike up to a key have the same key at its ordinal.
LEMMA SameOrdinal ==
    ASSUME NEW v, NEW w, NEW n, NEW j \in PresentIn(v),
           Cardinality(PresentIn(v) \cap 1..j - 1) = n,
           \A k \in 1..j : w[k] = v[k]
    PROVE  {k \in PresentIn(w) : Cardinality(PresentIn(w) \cap 1..k - 1) = n} = {j}
<1>1. j \in Nat /\ j >= 1 /\ j \in Keys /\ 1..j \subseteq Keys
  BY StoreAssumption DEF PresentIn, Keys
<1>2. j \in PresentIn(w)
  BY <1>1 DEF PresentIn
<1>3. PresentIn(w) \cap 1..j - 1 = PresentIn(v) \cap 1..j - 1
  BY <1>1 DEF PresentIn
<1>4. QED
  BY <1>2, <1>3, OneOrdinal

\* Two states that agree on what was written down, or all of it, answer alike.
Covers(q, v, ks) ==
    /\ ~Recorded(q, v).whole
    /\ Recorded(q, v).reads \subseteq ks /\ Recorded(q, v).windows \subseteq ks

\* The keys from the bound to the answer decide lower_bound and upper_bound.
LEMMA BoundedDecides ==
    ASSUME NEW q \in [op : {"lower_bound", "upper_bound"}, key : Keys], NEW v, NEW w,
           NEW ks, Covers(q, v, ks), \A k \in ks : w[k] = v[k]
    PROVE  Answer(q, w) = Answer(q, v)
<1> DEFINE fit == {k \in Keys : IF q.op = "lower_bound" THEN k >= q.key ELSE k > q.key}
<1>1. q.op \in {"lower_bound", "upper_bound"} /\ q.key \in Nat /\ Keys \subseteq Nat
  BY StoreAssumption DEF Keys
<1>2. /\ Landed(q, v) = First(PresentIn(v) \cap fit)
      /\ Landed(q, w) = First(PresentIn(w) \cap fit)
  <2>1. CASE q.op = "lower_bound"
    <3>1. \A x : {k \in PresentIn(x) : k >= q.key} = PresentIn(x) \cap fit
      BY <2>1 DEF PresentIn
    <3>2. QED
      BY <2>1, <3>1 DEF Landed
  <2>2. CASE q.op = "upper_bound"
    <3>1. \A x : {k \in PresentIn(x) : k > q.key} = PresentIn(x) \cap fit
      BY <2>2 DEF PresentIn
    <3>2. QED
      BY <2>2, <3>1 DEF Landed
  <2>3. QED
    BY <1>1, <2>1, <2>2
<1>3. /\ Landed(q, v) \subseteq ks
      /\ {k \in Before(Landed(q, v)) : k >= q.key} \subseteq ks
  BY <1>1 DEF Covers, Recorded, Footprint
<1>4. fit \in SUBSET Keys /\ \A k \in fit : k >= q.key
  BY <1>1
<1> HIDE DEF fit
<1>5. /\ \A k \in First(PresentIn(v) \cap fit) : w[k] = v[k]
      /\ \A k \in Before(First(PresentIn(v) \cap fit)) \cap fit : w[k] = v[k]
  BY <1>2, <1>3, <1>4
<1>6. Landed(q, w) = Landed(q, v)
  BY <1>2, <1>4, <1>5, SameFirst
<1>7. {<<k, w[k]>> : k \in Landed(q, w)} = {<<k, v[k]>> : k \in Landed(q, v)}
  BY <1>3, <1>6
<1>8. QED
  BY <1>1, <1>7 DEF Answer

\* The keys up to the least one decide which it is.
LEMMA SmallestDecides ==
    ASSUME NEW q, q.op = "smallest", NEW v, NEW w,
           NEW ks, Covers(q, v, ks), \A k \in ks : w[k] = v[k]
    PROVE  Answer(q, w) = Answer(q, v)
<1>1. \A x : Landed(q, x) = First(PresentIn(x) \cap Keys)
  <2>1. \A x : PresentIn(x) \cap Keys = PresentIn(x)
    BY DEF PresentIn
  <2>2. QED
    BY <2>1 DEF Landed
<1>2. Landed(q, v) \subseteq ks /\ Before(Landed(q, v)) \subseteq ks
  BY DEF Covers, Recorded, Footprint
<1>3. /\ \A k \in First(PresentIn(v) \cap Keys) : w[k] = v[k]
      /\ \A k \in Before(First(PresentIn(v) \cap Keys)) \cap Keys : w[k] = v[k]
  BY <1>1, <1>2
<1>4. Landed(q, w) = Landed(q, v)
  <2>1. First(PresentIn(w) \cap Keys) = First(PresentIn(v) \cap Keys)
    BY <1>3, SameFirst
  <2>2. QED
    BY <1>1, <2>1
<1>5. {<<k, w[k]>> : k \in Landed(q, w)} = {<<k, v[k]>> : k \in Landed(q, v)}
  BY <1>2, <1>4
<1>6. QED
  BY <1>5 DEF Answer

\* The keys up to the selected one decide which it is.
LEMMA SelectDecides ==
    ASSUME NEW q, q.op = "select", NEW v, NEW w,
           NEW ks, Covers(q, v, ks), \A k \in ks : w[k] = v[k]
    PROVE  Answer(q, w) = Answer(q, v)
<1>1. \A x : Landed(q, x) = {k \in PresentIn(x) : Cardinality(PresentIn(x) \cap 1..k - 1) = q.ordinal}
  BY DEF Landed
<1>2. Landed(q, v) # {} /\ Landed(q, v) \subseteq ks /\ Before(Landed(q, v)) \subseteq ks
  BY DEF Covers, Recorded, Footprint
<1>3. PICK j : j \in Landed(q, v)
  BY <1>2
<1>4. j \in PresentIn(v) /\ Cardinality(PresentIn(v) \cap 1..j - 1) = q.ordinal
  BY <1>1, <1>3
<1>5. Landed(q, v) = {j}
  BY <1>1, <1>4, SameOrdinal
<1>6. \A k \in 1..j : w[k] = v[k]
  <2>1. j \in Nat /\ 1..j \subseteq Keys
    BY <1>4, StoreAssumption DEF PresentIn, Keys
  <2>2. \A k \in 1..j : k = j \/ k \in Before({j})
    BY <2>1 DEF Before
  <2>3. QED
    BY <1>2, <1>5, <2>2
<1>7. Landed(q, w) = {j}
  <2>1. {k \in PresentIn(w) : Cardinality(PresentIn(w) \cap 1..k - 1) = q.ordinal} = {j}
    BY <1>4, <1>6, SameOrdinal
  <2>2. QED
    BY <1>1, <2>1
<1>8. {<<k, w[k]>> : k \in Landed(q, w)} = {<<k, v[k]>> : k \in Landed(q, v)}
  BY <1>2, <1>5, <1>7
<1>9. QED
  BY <1>8 DEF Answer

\* What a read writes down decides its answer.
LEMMA FootprintDecides ==
    ASSUME NEW q \in Queries, NEW v, NEW w, NEW ks, Covers(q, v, ks), \A k \in ks : w[k] = v[k]
    PROVE  Answer(q, w) = Answer(q, v)
<1>1. CASE q \in [op : {"lower_bound", "upper_bound"}, key : Keys]
  BY <1>1, BoundedDecides
<1>2. CASE q.op = "find"
  BY <1>2 DEF Covers, Recorded, Footprint, Answer
<1>3. CASE q \in [op : {"rank"}, key : Keys]
  <2>1. q.op = "rank" /\ q.key \in Keys /\ 1..q.key - 1 \subseteq Keys
    BY <1>3, StoreAssumption DEF Keys
  <2>2. w[q.key] = v[q.key]
    BY <2>1 DEF Covers, Recorded, Footprint
  <2>3. CASE v[q.key] = Absent
    BY <2>1, <2>2, <2>3 DEF Answer
  <2>4. CASE v[q.key] # Absent
    <3>1. 1..q.key - 1 \subseteq ks
      BY <2>1, <2>4 DEF Covers, Recorded, Footprint
    <3>2. PresentIn(w) \cap 1..q.key - 1 = PresentIn(v) \cap 1..q.key - 1
      BY <2>1, <3>1 DEF PresentIn
    <3>3. QED
      BY <2>1, <2>2, <2>4, <3>2 DEF Answer
  <2>5. QED
    BY <2>3, <2>4
<1>4. CASE q.op = "range"
  <2>1. q.keys \subseteq ks
    BY <1>4 DEF Covers, Recorded, Footprint
  <2>2. [k \in q.keys |-> w[k]] = [k \in q.keys |-> v[k]]
    BY <2>1
  <2>3. QED
    BY <1>4, <2>2 DEF Answer
<1>5. CASE q.op = "select"
  BY <1>5, SelectDecides
<1>6. CASE q.op = "smallest"
  BY <1>6, SmallestDecides
<1>7. CASE q.op = "for_each"
  BY <1>7 DEF Covers, Recorded, Footprint
<1>8. \/ q \in [op : {"lower_bound", "upper_bound"}, key : Keys] \/ q.op = "find"
      \/ q \in [op : {"rank"}, key : Keys] \/ q.op = "range" \/ q.op = "select"
      \/ q.op = "smallest" \/ q.op = "for_each"
  BY DEF Queries
<1>9. QED
  BY <1>1, <1>2, <1>3, <1>4, <1>5, <1>6, <1>7, <1>8

----------------------------------------------------------------------------
(* What a transaction was answered, its read set accounts for.             *)

Seen(t, own) == Overlay(Payload(view[t]), own)

Remembered(t, a) ==
    \/ /\ a.query.op = "watch" /\ a.query.key \in Keys
       /\ a.answer = view[t][a.query.key].since
       /\ readSet[t] = "names_every_key" => a.query.key \in reads[t]
    \/ /\ a.query \in Queries /\ a.answer = Answer(a.query, Seen(t, a.own))
       /\ readSet[t] = "names_every_key" =>
              Covers(a.query, Seen(t, a.own), reads[t] \cup windows[t])

Explained ==
    /\ DOMAIN answers = Transactions
    /\ \A t \in Transactions \ open : answers[t] = {}
    /\ \A t \in open : \A a \in answers[t] : Remembered(t, a)

\* What validation accepts was answered as the newest state would answer it.
LEMMA ValidatedAnswers ==
    ASSUME Inv, NEW t \in open, Validated(t), NEW a, Remembered(t, a)
    PROVE  Holds(a, latest)
<1> DEFINE v == Seen(t, a.own)
           w == Overlay(Payload(latest), a.own)
           ks == reads[t] \cup windows[t]
<1>1. /\ ks \subseteq Keys /\ publishedStamp \in Nat /\ snapshot[t] \in Nat
      /\ \A k \in Keys : latest[k].since \in Nat /\ latest[k].since <= publishedStamp
      /\ ReaderHolds(entries, latest, snapshot[t], view[t])
  BY DEF Inv, StoreBooks, Books, State, ReadersServed, Typed, FramesTyped, AccessesTyped
<1>2. \A k \in Keys : latest[k].since <= snapshot[t] => view[t][k] = latest[k]
  BY <1>1 DEF ReaderHolds
<1>3. CASE publishedStamp = snapshot[t]
  <2>1. \A k \in Keys : view[t][k] = latest[k]
    BY <1>1, <1>2, <1>3
  <2>2. Payload(view[t]) = Payload(latest)
    BY <2>1 DEF Payload
  <2>3. CASE a.query.op = "watch" /\ a.query.key \in Keys /\ a.answer = view[t][a.query.key].since
    BY <2>1, <2>3 DEF Holds
  <2>4. CASE a.query \in Queries /\ a.answer = Answer(a.query, v)
    <3>1. a.query.op # "watch"
      BY <2>4 DEF Queries
    <3>2. QED
      BY <2>2, <2>4, <3>1 DEF Holds, Seen
  <2>5. QED
    BY <2>3, <2>4 DEF Remembered
<1>4. CASE readSet[t] = "names_every_key" /\ \A k \in ks : ~ChangedSince(entries, k, snapshot[t])
  <2>1. ASSUME NEW k \in ks PROVE view[t][k] = latest[k] /\ k \in Keys
    <3>1. k \in Keys /\ ~(latest[k].since > snapshot[t])
      BY <1>1, <1>4 DEF ReaderHolds
    <3>2. latest[k].since <= snapshot[t]
      BY <1>1, <3>1
    <3>3. QED
      BY <1>2, <3>1, <3>2
  <2>2. CASE a.query.op = "watch" /\ a.query.key \in reads[t] /\ a.answer = view[t][a.query.key].since
    BY <2>1, <2>2 DEF Holds
  <2>3. CASE a.query \in Queries /\ a.answer = Answer(a.query, v) /\ Covers(a.query, v, ks)
    <3>1. a.query.op # "watch"
      BY <2>3 DEF Queries
    <3>2. \A k \in ks : w[k] = v[k]
      BY <2>1 DEF Overlay, Payload, Seen
    <3> HIDE DEF v, w, ks
    <3>3. Answer(a.query, w) = Answer(a.query, v)
      BY <2>3, <3>2, FootprintDecides
    <3>4. QED
      BY <2>3, <3>1, <3>3 DEF Holds, w
  <2>4. QED
    BY <1>4, <2>2, <2>3 DEF Remembered
<1>5. QED
  BY <1>3, <1>4 DEF Validated

\* A read set that only grows, or gives up, keeps accounting for what it did.
Widens(t) ==
    /\ view'[t] = view[t]
    /\ readSet'[t] = "names_every_key" =>
          readSet[t] = "names_every_key" /\ reads[t] \subseteq reads'[t] /\ windows[t] \subseteq windows'[t]

\* Recording more never forgets what an answer rests on.
LEMMA WidensRemembers ==
    ASSUME NEW t, Widens(t), NEW a, Remembered(t, a)
    PROVE  Remembered(t, a)'
<1>1. CASE /\ a.query.op = "watch" /\ a.query.key \in Keys
           /\ a.answer = view[t][a.query.key].since
           /\ readSet[t] = "names_every_key" => a.query.key \in reads[t]
  BY <1>1 DEF Remembered, Widens
<1>2. CASE /\ a.query \in Queries /\ a.answer = Answer(a.query, Seen(t, a.own))
           /\ readSet[t] = "names_every_key" =>
                 Covers(a.query, Seen(t, a.own), reads[t] \cup windows[t])
  <2>1. Seen(t, a.own)' = Seen(t, a.own)
    BY DEF Widens, Seen, Overlay, Payload
  <2>2. readSet'[t] = "names_every_key" =>
            Covers(a.query, Seen(t, a.own), reads'[t] \cup windows'[t])
    BY <1>2 DEF Widens, Covers
  <2>3. QED
    BY <1>2, <2>1, <2>2 DEF Remembered
<1>3. QED
  BY <1>1, <1>2 DEF Remembered

\* A call of one transaction leaves the others' answers explained.
LEMMA OthersRemember ==
    ASSUME Explained, NEW t, DOMAIN answers' = Transactions,
           open' \ {t} \subseteq open, open \ {t} \subseteq open',
           \A u \in Transactions \ {t} : answers'[u] = answers[u] /\ (u \in open => Widens(u)),
           t \in open' => \A a \in answers'[t] : Remembered(t, a)',
           t \in Transactions \ open' => answers'[t] = {}, open' \subseteq Transactions
    PROVE  Explained'
<1>1. ASSUME NEW u \in open' \ {t}, NEW a \in answers'[u] PROVE Remembered(u, a)'
  <2>1. u \in open /\ Widens(u) /\ Remembered(u, a)
    BY <1>1 DEF Explained
  <2>2. QED
    BY <2>1, WidensRemembers
<1>2. \A u \in open' : \A a \in answers'[u] : Remembered(u, a)'
  BY <1>1
<1>3. \A u \in Transactions \ open' : answers'[u] = {}
  BY DEF Explained
<1>4. QED
  BY <1>2, <1>3 DEF Explained

\* Calls that answer nothing and write no read down.
LEMMA SilentExplained ==
    ASSUME Explained, UNCHANGED <<accessVars, leaseVars>>
    PROVE  Explained'
<1>1. \A t, a : Remembered(t, a)' <=> Remembered(t, a)
  BY DEF Remembered, Seen, accessVars, leaseVars
<1>2. QED
  BY <1>1 DEF Explained, accessVars, leaseVars

\* A call that answers one query and writes its footprint down, or more.
LEMMA AnsweredExplained ==
    ASSUME Inv, Explained, NEW t \in open, NEW q \in Queries, NEW footprint,
           footprint.whole = Recorded(q, Reads(t)).whole,
           footprint.windows = Recorded(q, Reads(t)).windows,
           Recorded(q, Reads(t)).reads \subseteq footprint.reads,
           Record(t, footprint), Answered(t, q), UNCHANGED leaseVars
    PROVE  Explained'
<1> DEFINE a == [query |-> q, own |-> changes[t], answer |-> Answer(q, Reads(t))]
<1>1. /\ t \in Transactions /\ DOMAIN reads = Transactions /\ DOMAIN windows = Transactions
      /\ DOMAIN readSet = Transactions /\ open' = open /\ view' = view /\ open \subseteq Transactions
      /\ DOMAIN answers = Transactions
  BY DEF Inv, Typed, FramesTyped, AccessesTyped, leaseVars, Explained
<1>2. CASE ~Validates
  BY <1>2, SilentExplained DEF Record, Answered, accessVars
<1>3. CASE Validates
  <2>1. answers' = [answers EXCEPT ![t] = @ \cup {a}]
    BY <1>3 DEF Answered
  <2>2. Reads(t) = Seen(t, changes[t])
    BY DEF Inv, ReadersServed, ReaderHolds, Reads, Seen
  <2>3. \A u \in Transactions : Widens(u)
    <3>1. CASE /\ reads' = [reads EXCEPT ![t] = @ \cup footprint.reads]
               /\ windows' = [windows EXCEPT ![t] = @ \cup footprint.windows]
               /\ readSet' = [readSet EXCEPT ![t] = IF footprint.whole THEN "covers_everything" ELSE @]
      BY <1>1, <3>1 DEF Widens
    <3>2. CASE readSet' = [readSet EXCEPT ![t] = "unrecorded"] /\ UNCHANGED <<reads, windows>>
      BY <1>1, <3>2 DEF Widens
    <3>3. QED
      BY <1>3, <3>1, <3>2 DEF Record
  <2>4. readSet'[t] = "names_every_key" => Covers(q, Reads(t), reads'[t] \cup windows'[t])
    <3>1. CASE /\ reads' = [reads EXCEPT ![t] = @ \cup footprint.reads]
               /\ windows' = [windows EXCEPT ![t] = @ \cup footprint.windows]
               /\ readSet' = [readSet EXCEPT ![t] = IF footprint.whole THEN "covers_everything" ELSE @]
      <4>1. /\ reads'[t] = reads[t] \cup footprint.reads /\ windows'[t] = windows[t] \cup footprint.windows
            /\ readSet'[t] = IF footprint.whole THEN "covers_everything" ELSE readSet[t]
        BY <1>1, <3>1
      <4>2. QED
        BY <4>1 DEF Covers
    <3>2. CASE readSet' = [readSet EXCEPT ![t] = "unrecorded"]
      BY <1>1, <3>2
    <3>3. QED
      BY <1>3, <3>1, <3>2 DEF Record
  <2>5. ASSUME NEW b, b = a PROVE Remembered(t, b)'
    <3>1. b.query = q /\ b.own = changes[t] /\ b.answer = Answer(q, Reads(t))
      BY <2>5
    <3>2. Seen(t, b.own)' = Overlay(Payload(view[t]), b.own)
      BY <1>1 DEF Seen, Overlay, Payload
    <3>3. Seen(t, b.own)' = Reads(t)
      BY <2>2, <3>1, <3>2 DEF Seen
    <3>4. QED
      BY <2>4, <3>1, <3>3 DEF Remembered
  <2>6. ASSUME NEW b \in answers'[t] PROVE Remembered(t, b)'
    <3>1. b \in answers[t] \/ b = a
      BY <1>1, <2>1, <2>6
    <3>2. b \in answers[t] => Remembered(t, b)'
      BY <1>1, <2>3, WidensRemembers DEF Explained
    <3> HIDE DEF a
    <3>3. QED
      BY <2>5, <3>1, <3>2
  <2>7. DOMAIN answers' = Transactions /\ \A u \in Transactions \ {t} : answers'[u] = answers[u]
    BY <1>1, <2>1
  <2>8. QED
    BY <1>1, <2>3, <2>6, <2>7, OthersRemember
<1>4. QED
  BY <1>2, <1>3

\* watch records the key it answered about.
LEMMA WatchExplained ==
    ASSUME Inv, Explained, NEW t \in Transactions, NEW k \in Keys, Watch(t, k)
    PROVE  Explained'
<1> DEFINE a == [query |-> [op |-> "watch", key |-> k], own |-> <<>>, answer |-> view[t][k].since]
<1>1. /\ DOMAIN reads = Transactions /\ DOMAIN readSet = Transactions /\ open \subseteq Transactions
      /\ DOMAIN answers = Transactions
  BY DEF Inv, Typed, FramesTyped, AccessesTyped, Explained
<1>2. /\ t \in open /\ windows' = windows /\ open' = open /\ view' = view
      /\ \/ reads' = [reads EXCEPT ![t] = @ \cup {k}] /\ UNCHANGED readSet
         \/ readSet' = [readSet EXCEPT ![t] = "unrecorded"] /\ UNCHANGED reads
      /\ answers' = [answers EXCEPT ![t] = @ \cup {a}]
  BY DEF Watch, leaseVars
<1>3. \A u \in Transactions : Widens(u)
  BY <1>1, <1>2 DEF Widens
<1>4. ASSUME NEW b, b = a PROVE Remembered(t, b)'
  <2>1. b.query.op = "watch" /\ b.query.key = k /\ b.answer = view'[t][k].since
    BY <1>2, <1>4
  <2>2. readSet'[t] = "names_every_key" => k \in reads'[t]
    BY <1>1, <1>2
  <2>3. QED
    BY <2>1, <2>2 DEF Remembered
<1>5. ASSUME NEW b \in answers'[t] PROVE Remembered(t, b)'
  <2>1. b \in answers[t] \/ b = a
    BY <1>1, <1>2, <1>5
  <2>2. b \in answers[t] => Remembered(t, b)'
    BY <1>2, <1>3, WidensRemembers DEF Explained
  <2> HIDE DEF a
  <2>3. QED
    BY <1>4, <2>1, <2>2
<1>6. DOMAIN answers' = Transactions /\ \A u \in Transactions \ {t} : answers'[u] = answers[u]
  BY <1>1, <1>2
<1>7. QED
  BY <1>1, <1>2, <1>3, <1>5, <1>6, OthersRemember

\* Calls after which t has been answered nothing.
LEMMA ForgetsExplained ==
    ASSUME Inv, Explained, NEW t \in Transactions, DOMAIN answers' = Transactions, answers'[t] = {},
           open' \subseteq Transactions, open' \ {t} = open \ {t},
           \A u \in Transactions \ {t} : answers'[u] = answers[u] /\ Widens(u)
    PROVE  Explained'
BY OthersRemember

\* Opening, committing, resetting and closing forget the answers with the records.
LEMMA LifeExplained ==
    ASSUME Inv, Explained, NEW t \in Transactions, Open(t) \/ Commit(t) \/ Reset(t) \/ Close(t)
    PROVE  Explained'
<1>1. /\ DOMAIN reads = Transactions /\ DOMAIN windows = Transactions /\ DOMAIN readSet = Transactions
      /\ DOMAIN view = Transactions /\ open \subseteq Transactions /\ DOMAIN answers = Transactions
  BY DEF Inv, Typed, FramesTyped, LeasesTyped, AccessesTyped, Explained
<1>2. CASE Open(t)
  <2>1. /\ t \notin open /\ UNCHANGED <<reads, windows, readSet, answers>>
        /\ open' = open \cup {t} /\ view' = [view EXCEPT ![t] = latest']
    BY <1>2 DEF Open, accessVars, TakeSnapshot
  <2>2. answers'[t] = {} /\ \A u \in Transactions \ {t} : answers'[u] = answers[u] /\ Widens(u)
    BY <1>1, <2>1 DEF Explained, Widens
  <2>3. QED
    BY <1>1, <2>1, <2>2, ForgetsExplained
<1>3. CASE Commit(t)
  <2>1. /\ UNCHANGED <<reads, windows, readSet>> /\ answers' = [answers EXCEPT ![t] = {}]
        /\ open' = open \cup {t} /\ view' = [view EXCEPT ![t] = latest']
    BY <1>3 DEF Commit, TakeSnapshot
  <2>2. answers'[t] = {} /\ \A u \in Transactions \ {t} : answers'[u] = answers[u] /\ Widens(u)
    BY <1>1, <2>1 DEF Widens
  <2>3. QED
    BY <1>1, <2>1, <2>2, ForgetsExplained
<1>4. CASE Reset(t) \/ Close(t)
  <2>1. PICK seen : /\ Blank(t) /\ view' = [view EXCEPT ![t] = seen]
                    /\ open' = open \cup {t} \/ open' = open \ {t}
    BY <1>4 DEF Reset, Close, TakeSnapshot
  <2>2. answers'[t] = {} /\ \A u \in Transactions \ {t} : answers'[u] = answers[u] /\ Widens(u)
    BY <1>1, <2>1 DEF Blank, Widens
  <2>3. DOMAIN answers' = Transactions
    BY <1>1, <2>1 DEF Blank
  <2>4. open' \subseteq Transactions /\ open' \ {t} = open \ {t}
    BY <1>1, <2>1
  <2>5. QED
    BY <2>2, <2>3, <2>4, ForgetsExplained
<1>5. QED
  BY <1>2, <1>3, <1>4

\* The calls that look before they write, and write down that they looked.
LEMMA ProbedExplained ==
    ASSUME Inv, Explained, NEW t \in Transactions, NEW k \in Keys, NEW payload, Probed(t, k, payload)
    PROVE  Explained'
<1> DEFINE q == [op |-> "find", key |-> k]
<1>1. q \in Queries /\ q.op = "find" /\ q.key = k
  BY DEF Queries
<1>2. Recorded(q, Reads(t)) = Footprint({k}, {}, FALSE)
  BY <1>1 DEF Recorded
<1>3. t \in open /\ UNCHANGED leaseVars /\ Record(t, Footprint({k}, {}, FALSE)) /\ Answered(t, q)
  BY DEF Probed, StageChanges
<1> HIDE DEF q
<1>4. QED
  BY <1>1, <1>2, <1>3, AnsweredExplained

\* A ranged write records the window it walked.
LEMMA WalkedExplained ==
    ASSUME Inv, Explained, NEW t \in Transactions, NEW q \in Queries, q.op \in {"range", "for_each"},
           EraseWalked(t, q) \/ \E v \in Values : UpdateWalked(t, q, v)
    PROVE  Explained'
<1> DEFINE walked == Recorded(q, Reads(t))
<1>1. walked.reads = {} /\ \E ws, whole : walked = Footprint({}, ws, whole)
  BY DEF Recorded, Footprint
<1>2. CASE EraseWalked(t, q)
  <2>1. PICK members : /\ t \in open /\ UNCHANGED leaseVars /\ Answered(t, q)
                       /\ Record(t, [walked EXCEPT !.reads = members])
    BY <1>2, Zenon DEF EraseWalked, StageChanges
  <2>2. /\ [walked EXCEPT !.reads = members].whole = walked.whole
        /\ [walked EXCEPT !.reads = members].windows = walked.windows
        /\ walked.reads \subseteq [walked EXCEPT !.reads = members].reads
    BY <1>1 DEF Footprint
  <2> HIDE DEF walked
  <2>3. QED
    BY <2>1, <2>2, AnsweredExplained DEF walked
<1>3. CASE \E v \in Values : UpdateWalked(t, q, v)
  <2>1. t \in open /\ UNCHANGED leaseVars /\ Record(t, walked) /\ Answered(t, q)
    BY <1>3 DEF UpdateWalked, StageChanges
  <2>2. QED
    BY <2>1, AnsweredExplained
<1>4. QED
  BY <1>2, <1>3

\* After every call of a transaction its answers rest on its records.
LEMMA OwnExplained ==
    ASSUME Inv, Explained, NEW t \in Transactions, TransactionCall(t)
    PROVE  Explained'
<1>1. CASE Open(t) \/ Commit(t) \/ Reset(t) \/ Close(t)
  BY <1>1, LifeExplained
<1>2. CASE Stage(t)
  BY <1>2, SilentExplained DEF Stage
<1>3. ASSUME NEW q \in Queries, Read(t, q) PROVE Explained'
  BY <1>3, AnsweredExplained DEF Read
<1>4. ASSUME NEW k \in Keys, Watch(t, k) PROVE Explained'
  BY <1>4, WatchExplained
<1>5. ASSUME NEW k \in Keys, Erase(t, k) PROVE Explained'
  BY <1>5, ProbedExplained DEF Erase
<1>6. ASSUME NEW k \in Keys, NEW v \in Values, Upsert(t, k, v) PROVE Explained'
  BY <1>6, SilentExplained DEF Upsert, StageChanges
<1>7. ASSUME NEW k \in Keys, NEW v \in Values, Insert(t, k, v) \/ Update(t, k, v) PROVE Explained'
  BY <1>7, ProbedExplained DEF Insert, Update
<1>8. ASSUME NEW ks, StageFails(t, ks) \/ Rollback(t, ks) PROVE Explained'
  BY <1>8, SilentExplained DEF StageFails, Rollback
<1>9. ASSUME NEW ks \in Intervals, NEW q, q = [op |-> "range", keys |-> ks],
             EraseWalked(t, q) \/ \E v \in Values : UpdateWalked(t, q, v)
      PROVE  Explained'
  <2>1. q \in Queries /\ q.op = "range"
    BY <1>9 DEF Queries
  <2>2. QED
    BY <1>9, <2>1, WalkedExplained
<1>10. ASSUME EraseWalked(t, [op |-> "for_each"]) PROVE Explained'
  <2>1. [op |-> "for_each"] \in Queries /\ [op |-> "for_each"].op = "for_each"
    BY DEF Queries
  <2>2. QED
    BY <1>10, <2>1, WalkedExplained
<1>11. QED
  BY <1>1, <1>2, <1>3, <1>4, <1>5, <1>6, <1>7, <1>8, <1>9, <1>10 DEF TransactionCall

\* Every step leaves every answer resting on what was recorded.
LEMMA ExplainedStep ==
    ASSUME Inv, Explained, [Next]_vars
    PROVE  Explained'
<1>1. ASSUME NEW p \in Publications, PublicationCall(p) PROVE Explained'
  BY <1>1, SilentExplained DEF PublicationCall, Publish, Withdraw, File
<1>2. ASSUME NEW group, PublishGroup(group) PROVE Explained'
  BY <1>2, SilentExplained DEF PublishGroup
<1>3. ASSUME StoreCall PROVE Explained'
  <2>1. ASSUME NEW ks, Vacuum(ks) PROVE Explained'
    BY <2>1, SilentExplained DEF Vacuum
  <2>2. ASSUME Clear PROVE Explained'
    BY <2>2, SilentExplained DEF Clear
  <2>3. QED
    BY <1>2, <1>3, <2>1, <2>2, DirectGroups
<1>4. CASE UNCHANGED vars
  BY <1>4, SilentExplained DEF vars
<1>5. QED
  BY <1>1, <1>3, <1>4, OwnExplained DEF Next

\* Only a commit of t ends its staging with a stamp drawn.
LEMMA CommitsCommit ==
    ASSUME Inv, [Next]_vars, NEW t \in open, Commits(t)
    PROVE  Commit(t)
<1>1. /\ staging[t] = "staged" /\ staging'[t] = "pending" /\ publishedStamp' # publishedStamp
      /\ t \in Transactions /\ DOMAIN staging = Transactions
  BY StoreAssumption DEF Commits, Inv, StoreBooks, Books, Typed, FramesTyped
<1>2. ~UNCHANGED staging
  BY <1>1
<1>3. ASSUME NEW u \in Transactions, TransactionCall(u) PROVE Commit(u)
  BY <1>1, <1>2, <1>3
  DEF TransactionCall, Open, Stage, Reset, Close, Read, Watch, Erase, Upsert, Insert, Update, Probed,
      StageChanges, StageFails, Rollback, EraseWalked, UpdateWalked, storeVars, writeVars
<1>4. ASSUME NEW u \in Transactions, Commit(u) PROVE u = t
  <2>1. staging' = [staging EXCEPT ![u] = "pending"]
    BY <1>4 DEF Commit
  <2>2. QED
    BY <1>1, <2>1
<1>5. ~\E p \in Publications : PublicationCall(p)
  BY <1>2 DEF PublicationCall, Publish, Withdraw, File, writeVars
<1>6. ~StoreCall
  <2>1. \A group : ~PublishGroup(group)
    BY <1>2 DEF PublishGroup, writeVars
  <2>2. ~Clear /\ \A ks : ~Vacuum(ks)
    BY <1>2 DEF Clear, Vacuum, writeVars
  <2>3. QED
    BY <2>1, <2>2, DirectGroups
<1>7. Next
  BY <1>2 DEF vars, writeVars
<1>8. PICK u \in Transactions : TransactionCall(u)
  BY <1>5, <1>6, <1>7 DEF Next
<1>9. QED
  BY <1>3, <1>4, <1>8

\* The committed history is the serial one: everything a serializable transaction
\* was answered before it committed, whatever the queries, windows and ordinals,
\* is what the state it commits on top of answers; so is every watch at any level.
THEOREM Serializable ==
    ASSUME CallsInOrder
    PROVE  Spec => AnswersStand
<1> DEFINE Step == \A t \in open : Commits(t) => \A a \in answers[t] : Holds(a, latest)
<1>1. Init => Explained
  BY DEF Init, Explained
<1>2. Inv /\ Explained /\ [Next]_vars => Explained'
  BY ExplainedStep
<1>3. ASSUME Inv, Explained, [Next]_vars PROVE Step
  <2>1. SUFFICES ASSUME NEW t \in open, Commits(t), NEW a \in answers[t] PROVE Holds(a, latest)
    OBVIOUS
  <2>2. Validated(t)
    BY <1>3, <2>1, CommitsCommit DEF Commit
  <2>3. Remembered(t, a)
    BY <1>3 DEF Explained
  <2>4. QED
    BY <1>3, <2>2, <2>3, ValidatedAnswers
<1>4. Inv /\ Explained /\ [Next]_vars => [Step]_vars
  BY <1>3
<1>5. QED
  BY <1>1, <1>2, <1>4, Invariance, PTL DEF Spec, AnswersStand

----------------------------------------------------------------------------
(* SnapshotStore implements SnapshotIsolation: each call on versions,      *)
(* stamps and generations is one step on the committed state and the       *)
(* copies the open transactions took of it, or none.                       *)

----------------------------------------------------------------------------
(* What a transaction has pending, and what leaves it alone.               *)

\* A frame that is closed, or has staged what it wrote, keeps no payload aside.
LeftEmpty ==
    \A t \in Transactions : t \notin open \/ staging[t] = "staged" => changes[t] = <<>>

\* The payloads of every generation but one stay as they were written.
Keeps(e, f, g) ==
    \A d \in DOMAIN e \cap DOMAIN f : d[2] # g => f[d].payload = e[d].payload

Steady(u) ==
    snapshot'[u] = snapshot[u] /\ view'[u] = view[u] /\ PendingOf(u)' = PendingOf(u)

Untouched(u) ==
    /\ u \in open' /\ snapshot'[u] = snapshot[u] /\ view'[u] = view[u]
    /\ staging'[u] = staging[u] /\ generation'[u] = generation[u]
    /\ changes'[u] = changes[u] /\ changed'[u] = changed[u]

\* All a staged transaction changed stands under its generation.
LEMMA StagedStanding ==
    ASSUME Inv, NEW t \in open, staging[t] = "staged"
    PROVE  Standing(entries, changed[t], generation[t]) = changed[t]
<1>1. changed[t] \X {generation[t]} \subseteq Unstamped(entries)
  BY OwnUnstamped DEF Inv, Typed, StoreBooks, Books
<1>2. QED
  BY <1>1 DEF Standing, Unstamped

\* After a step too, a staged transaction has a version of every key it lists.
LEMMA StagedStandingNext ==
    ASSUME Inv', NEW t \in open', staging'[t] = "staged"
    PROVE  \A k \in changed'[t] : <<k, generation'[t]>> \in DOMAIN entries'
<1>1. /\ t \in Transactions /\ changed'[t] \subseteq Keys /\ generation'[t] \in Generations
  BY DEF Inv, Typed, FramesTyped, FramesApart, GenerationsApart
<1>2. ASSUME NEW k \in changed'[t] PROVE <<k, generation'[t]>> \in Unstamped(entries')
  <2>1. Bears(k, generation[t])'
    BY <1>2 DEF Bears
  <2>2. k \in Keys
    BY <1>1, <1>2
  <2>3. StagedBorne'
    BY DEF Inv, FramesApart
  <2>4. QED
    BY <1>1, <2>1, <2>2, <2>3 DEF StagedBorne
<1>3. QED
  BY <1>2 DEF Unstamped

\* A frame no call touches keeps what it has pending, whatever happens to other generations.
LEMMA SteadyFrame ==
    ASSUME Inv, Inv', NEW u \in open, Untouched(u),
           NEW g, Keeps(entries, entries', g), generation[u] # g \/ staging[u] = "pending"
    PROVE  Steady(u)
<1>1. CASE staging[u] = "pending"
  BY <1>1 DEF Steady, Untouched, PendingOf
<1>2. CASE staging[u] = "staged"
  <2> DEFINE S == changed[u]
             h == generation[u]
  <2>1. Standing(entries, S, h) = S /\ \A k \in S : <<k, h>> \in DOMAIN entries
    BY <1>2, StagedStanding DEF Standing
  <2>2. \A k \in S : <<k, h>> \in DOMAIN entries'
    <3>1. \A k \in changed'[u] : <<k, generation'[u]>> \in DOMAIN entries'
      BY <1>2, StagedStandingNext DEF Untouched
    <3>2. QED
      BY <3>1 DEF Untouched
  <2>3. Standing(entries', S, h) = S
    BY <2>2 DEF Standing
  <2>4. \A k \in S : entries'[<<k, h>>].payload = entries[<<k, h>>].payload
    BY <1>2, <2>1, <2>2 DEF Keeps
  <2>5. PendingOf(u) = [k \in S |-> entries[<<k, h>>].payload]
    BY <1>2, <2>1 DEF PendingOf
  <2>6. PendingOf(u)' = [k \in S |-> entries'[<<k, h>>].payload]
    BY <1>2, <2>3 DEF PendingOf, Untouched
  <2>7. PendingOf(u)' = PendingOf(u)
    BY <2>4, <2>5, <2>6
  <2>8. QED
    BY <2>7 DEF Steady, Untouched
<1>3. QED
  BY <1>1, <1>2 DEF Inv, Typed, FramesTyped

\* Filing under one generation keeps the versions of the others.
LEMMA FiledKeeps ==
    ASSUME NEW e, NEW group, NEW g
    PROVE  Keeps(e, Filed(e, group, g), g)
BY DEF Keeps, Filed

\* Dropping one generation keeps the versions of the others.
LEMMA DroppedKeeps ==
    ASSUME NEW e, NEW ks, NEW g
    PROVE  Keeps(e, Dropped(e, ks, g), g)
BY DEF Keeps, Dropped

\* Pruning keeps every uncommitted version.
LEMMA PrunedKeeps ==
    ASSUME NEW e, NEW ks, NEW mark, NEW g
    PROVE  Keeps(e, Pruned(e, ks, mark), g)
BY DEF Keeps, Pruned

\* Stamping and pruning rewrite no payload.
LEMMA PublishKeeps ==
    ASSUME NEW e, IsCore(e), NEW ks, NEW g, publishedStamp \in 0..MaxStamp, PublishAndPrune(e, ks, g)
    PROVE  /\ \A d \in DOMAIN entries' : d \in DOMAIN e /\ entries'[d].payload = e[d].payload
           /\ publishedStamp' = publishedStamp + 1
           /\ latest' = StateAfter(e, ks, g, publishedStamp')
<1> DEFINE p == Published(e, ks, g, publishedStamp')
<1>1. /\ publishedStamp' = publishedStamp + 1 /\ publishedStamp' \in 1..MaxStamp
      /\ latest' = StateAfter(e, ks, g, publishedStamp')
      /\ entries' = Pruned(p, ks, LowWaterMark(open', snapshot', publishedStamp'))
  BY StampBounds DEF PublishAndPrune
<1>2. IsCore(p) /\ DOMAIN p = DOMAIN e /\ \A d \in DOMAIN e : p[d].payload = e[d].payload
  BY <1>1, PublishedFacts
<1> HIDE DEF p
<1>3. QED
  BY <1>1, <1>2 DEF Pruned

----------------------------------------------------------------------------
(* The steps of SnapshotIsolation, by what they do to the frames.          *)

\* What a call has to do to be a Begin of the abstract store.
LEMMA BeginStep ==
    ASSUME NEW t \in Transactions, open' = open \cup {t},
           UNCHANGED <<latest, publishedStamp>>,
           snapshot'[t] = publishedStamp, view'[t] = latest, PendingOf(t)' = <<>>,
           \A u \in open \ {t} : Steady(u)
    PROVE  Abstract!Begin(t)
<1>1. [u \in open |-> snapshot[u]]' = Abstract!At([u \in open |-> snapshot[u]], t, publishedStamp)
  BY DEF Abstract!At, Steady
<1>2. [u \in open |-> view[u]]' = Abstract!At([u \in open |-> view[u]], t, latest)
  BY DEF Abstract!At, Steady
<1>3. [u \in open |-> PendingOf(u)]' = Abstract!At([u \in open |-> PendingOf(u)], t, <<>>)
  <2>1. [u \in open |-> PendingOf(u)]' = [u \in open \cup {t} |-> PendingOf(u)']
    OBVIOUS
  <2>2. \A u \in open \cup {t} : PendingOf(u)' = IF u = t THEN <<>> ELSE [v \in open |-> PendingOf(v)][u]
    BY DEF Steady
  <2>3. QED
    BY <2>1, <2>2 DEF Abstract!At
<1>4. QED
  BY <1>1, <1>2, <1>3 DEF Abstract!Begin

\* What a call has to do to be a Write of the abstract store.
LEMMA WriteStep ==
    ASSUME NEW t \in open, open' = open, UNCHANGED <<latest, publishedStamp>>,
           snapshot'[t] = snapshot[t], view'[t] = view[t],
           \A u \in open \ {t} : Steady(u),
           NEW writes, writes \in Partial(Payloads), PendingOf(t)' = writes,
           DOMAIN PendingOf(t) \subseteq DOMAIN writes
    PROVE  Abstract!Write(t)
<1>1. [u \in open |-> snapshot[u]]' = [u \in open |-> snapshot[u]]
  BY DEF Steady
<1>2. [u \in open |-> view[u]]' = [u \in open |-> view[u]]
  BY DEF Steady
<1>3. [u \in open |-> PendingOf(u)]' = [[u \in open |-> PendingOf(u)] EXCEPT ![t] = writes]
  <2>1. [u \in open |-> PendingOf(u)]' = [u \in open |-> PendingOf(u)']
    OBVIOUS
  <2>2. \A u \in open : PendingOf(u)' = IF u = t THEN writes ELSE PendingOf(u)
    BY DEF Steady
  <2>3. QED
    BY <2>1, <2>2
<1>4. writes \in Abstract!Writes
  BY DEF Abstract!Writes, Partial
<1>5. QED
  BY <1>1, <1>2, <1>3, <1>4 DEF Abstract!Write

\* What a call has to do to be a Commit of the abstract store.
LEMMA CommitStep ==
    ASSUME NEW t \in open, open' = open,
           \A k \in DOMAIN PendingOf(t) : latest[k].since <= snapshot[t],
           publishedStamp' = publishedStamp + 1,
           latest' = Abstract!Committed(PendingOf(t), publishedStamp'),
           snapshot'[t] = publishedStamp', view'[t] = latest', PendingOf(t)' = <<>>,
           \A u \in open \ {t} : Steady(u)
    PROVE  Abstract!Commit(t)
<1>1. [u \in open |-> snapshot[u]]' = [[u \in open |-> snapshot[u]] EXCEPT ![t] = publishedStamp']
  BY DEF Steady
<1>2. [u \in open |-> view[u]]' = [[u \in open |-> view[u]] EXCEPT ![t] = latest']
  BY DEF Steady
<1>3. [u \in open |-> PendingOf(u)]' = [[u \in open |-> PendingOf(u)] EXCEPT ![t] = <<>>]
  <2>1. [u \in open |-> PendingOf(u)]' = [u \in open |-> PendingOf(u)']
    OBVIOUS
  <2>2. \A u \in open : PendingOf(u)' = IF u = t THEN <<>> ELSE PendingOf(u)
    BY DEF Steady
  <2>3. QED
    BY <2>1, <2>2
<1>4. QED
  BY <1>1, <1>2, <1>3 DEF Abstract!Commit

\* What a call has to do to be an End of the abstract store.
LEMMA EndStep ==
    ASSUME NEW t \in open, open' = open \ {t}, UNCHANGED <<latest, publishedStamp>>,
           \A u \in open \ {t} : Steady(u)
    PROVE  Abstract!End(t)
<1>1. Abstract!Open = open
  BY DEF Abstract!Open
<1>2. [u \in open |-> snapshot[u]]' = [u \in open \ {t} |-> [v \in open |-> snapshot[v]][u]]
  BY DEF Steady
<1>3. [u \in open |-> view[u]]' = [u \in open \ {t} |-> [v \in open |-> view[v]][u]]
  BY DEF Steady
<1>4. [u \in open |-> PendingOf(u)]' = [u \in open \ {t} |-> [v \in open |-> PendingOf(v)][u]]
  <2>1. [u \in open |-> PendingOf(u)]' = [u \in open \ {t} |-> PendingOf(u)']
    OBVIOUS
  <2>2. \A u \in open \ {t} : PendingOf(u)' = [v \in open |-> PendingOf(v)][u]
    BY DEF Steady
  <2>3. QED
    BY <2>1, <2>2
<1>5. QED
  BY <1>1, <1>2, <1>3, <1>4 DEF Abstract!End

\* Where every open transaction is left alone, the abstract state of each is unchanged.
LEMMA SteadyStep ==
    ASSUME open' = open, \A u \in open : Steady(u)
    PROVE  /\ [u \in open |-> snapshot[u]]' = [u \in open |-> snapshot[u]]
           /\ [u \in open |-> view[u]]' = [u \in open |-> view[u]]
           /\ [u \in open |-> PendingOf(u)]' = [u \in open |-> PendingOf(u)]
<1>1. [u \in open |-> PendingOf(u)]' = [u \in open |-> PendingOf(u)']
  OBVIOUS
<1>2. QED
  BY <1>1 DEF Steady

----------------------------------------------------------------------------
(* Every call is a step of SnapshotIsolation, or none.                     *)

\* What the versions of ks under g were written as.
Written(e, ks, g) == [k \in Standing(e, ks, g) |-> e[<<k, g>>].payload]

\* What versions of one generation carry, as a group of the abstract store.
LEMMA WrittenGroup ==
    ASSUME NEW e, IsCore(e), NEW ks, ks \subseteq Keys, NEW g
    PROVE  /\ Written(e, ks, g) \in Partial(Payloads)
           /\ DOMAIN Written(e, ks, g) \subseteq ks
           /\ \A stamp : StateAfter(e, ks, g, stamp) = Abstract!Committed(Written(e, ks, g), stamp)
<1>1. Standing(e, ks, g) \subseteq ks
  BY DEF Standing
<1>2. \A k \in Standing(e, ks, g) : e[<<k, g>>].payload \in Payloads
  BY VersionFields DEF Standing, IsCore
<1>3. Written(e, ks, g) \in [Standing(e, ks, g) -> Payloads]
  BY <1>2 DEF Written
<1>4. Standing(e, ks, g) \in SUBSET Keys
  BY <1>1
<1>5. Written(e, ks, g) \in Partial(Payloads)
  BY <1>3, <1>4 DEF Partial
<1>6. \A stamp : StateAfter(e, ks, g, stamp) = Abstract!Committed(Written(e, ks, g), stamp)
  BY DEF StateAfter, Abstract!Committed, Written
<1>7. QED
  BY <1>1, <1>3, <1>5, <1>6

\* The frames other than t, where the call of t works under g.
LEMMA OthersSteady ==
    ASSUME Inv, Inv', NEW t, NEW g, Keeps(entries, entries', g),
           \A u \in open \ {t} : Untouched(u) /\ generation[u] # g
    PROVE  \A u \in open \ {t} : Steady(u)
BY SteadyFrame

\* The parts of the invariant the refinement uses, in one place.
LEMMA BooksOf ==
    ASSUME Inv
    PROVE  /\ IsCore(entries) /\ publishedStamp \in 0..MaxStamp
           /\ open \subseteq Transactions /\ changed \in [Transactions -> SUBSET Keys]
           /\ \A t \in open : generation[t] \in Generations /\ generation[t] # 0
           /\ \A t, u \in open : generation[t] = generation[u] => t = u
           /\ DOMAIN snapshot = Transactions /\ DOMAIN view = Transactions
           /\ DOMAIN staging = Transactions /\ DOMAIN generation = Transactions
           /\ DOMAIN changes = Transactions /\ DOMAIN changed = Transactions
BY DEF Inv, StoreBooks, Books, Typed, FramesTyped, LeasesTyped, ChangesTyped, FramesApart,
   GenerationsApart, Generations

\* Opening a transaction is a Begin.
LEMMA OpenSteps ==
    ASSUME Inv, Inv', LeftEmpty, NEW t \in Transactions, Open(t)
    PROVE  Abstract!Begin(t)
<1>1. /\ t \notin open /\ entries' = entries /\ open' = open \cup {t}
      /\ UNCHANGED <<publishedStamp, latest, staging, changes, changed>>
      /\ generation' = [generation EXCEPT ![t] = FreshGeneration]
      /\ snapshot' = [snapshot EXCEPT ![t] = publishedStamp] /\ view' = [view EXCEPT ![t] = latest]
  BY DEF Open, storeVars, TakeSnapshot
<1>2. \A u \in open \ {t} : Untouched(u) /\ generation[u] # 0
  BY <1>1, BooksOf DEF Untouched
<1>3. Keeps(entries, entries', 0)
  BY <1>1 DEF Keeps
<1>4. \A u \in open \ {t} : Steady(u)
  BY <1>2, <1>3, OthersSteady
<1>5. staging[t] = "pending" /\ changes[t] = <<>>
  BY <1>1 DEF LeftEmpty, Inv, FramesApart, ClosedBlank
<1>6. PendingOf(t)' = <<>>
  BY <1>1, <1>5 DEF PendingOf
<1>7. snapshot'[t] = publishedStamp /\ view'[t] = latest
  BY <1>1, BooksOf
<1>8. QED
  BY <1>1, <1>4, <1>6, <1>7, BeginStep

\* Unstaging one transaction keeps the versions of the others.
LEMMA UnstagedKeeps ==
    ASSUME NEW t, entries' = Unstaged(t)
    PROVE  Keeps(entries, entries', generation[t])
BY DroppedKeeps DEF Unstaged, Keeps

\* reset is a Begin anew.
LEMMA ResetSteps ==
    ASSUME Inv, Inv', NEW t \in Transactions, Reset(t)
    PROVE  Abstract!Begin(t)
<1>1. /\ t \in open /\ entries' = Unstaged(t) /\ open' = open \cup {t}
      /\ UNCHANGED <<publishedStamp, latest>>
      /\ staging' = [staging EXCEPT ![t] = "pending"]
      /\ changes' = [changes EXCEPT ![t] = <<>>] /\ changed' = [changed EXCEPT ![t] = {}]
      /\ generation' = [generation EXCEPT ![t] = FreshGeneration]
      /\ snapshot' = [snapshot EXCEPT ![t] = publishedStamp] /\ view' = [view EXCEPT ![t] = latest]
  BY DEF Reset, Blank, TakeSnapshot
<1>2. \A u \in open \ {t} : Untouched(u) /\ generation[u] # generation[t]
  BY <1>1, BooksOf DEF Untouched
<1>3. \A u \in open \ {t} : Steady(u)
  BY <1>1, <1>2, UnstagedKeeps, OthersSteady
<1>4. staging'[t] = "pending" /\ changes'[t] = <<>> /\ snapshot'[t] = publishedStamp /\ view'[t] = latest
  BY <1>1, BooksOf
<1>5. PendingOf(t)' = <<>>
  BY <1>4 DEF PendingOf
<1>6. QED
  BY <1>1, <1>3, <1>4, <1>5, BeginStep

\* The destructor is an End.
LEMMA CloseSteps ==
    ASSUME Inv, Inv', NEW t \in Transactions, Close(t)
    PROVE  t \in open /\ Abstract!End(t)
<1>1. /\ t \in open /\ entries' = Unstaged(t) /\ open' = open \ {t}
      /\ UNCHANGED <<publishedStamp, latest>>
      /\ staging' = [staging EXCEPT ![t] = "pending"]
      /\ changes' = [changes EXCEPT ![t] = <<>>] /\ changed' = [changed EXCEPT ![t] = {}]
      /\ generation' = [generation EXCEPT ![t] = 0]
      /\ snapshot' = [snapshot EXCEPT ![t] = 0] /\ view' = [view EXCEPT ![t] = Nothing]
  BY DEF Close, Blank
<1>2. \A u \in open \ {t} : Untouched(u) /\ generation[u] # generation[t]
  BY <1>1, BooksOf DEF Untouched
<1>3. \A u \in open \ {t} : Steady(u)
  BY <1>1, <1>2, UnstagedKeeps, OthersSteady
<1>4. QED
  BY <1>1, <1>3, EndStep

\* The writes of t, whichever call they come from.
LEMMA WritesAGroup ==
    ASSUME NEW t,
           \/ \E k \in Keys : Erase(t, k)
           \/ \E k \in Keys, v \in Values : Upsert(t, k, v) \/ Insert(t, k, v) \/ Update(t, k, v)
           \/ \E q : EraseWalked(t, q) \/ \E v \in Values : UpdateWalked(t, q, v)
    PROVE  \E group : Given(group) /\ StageChanges(t, group)
<1>1. Values \cup {Absent} \subseteq Payloads \ {Unset}
  BY StoreAssumption DEF Payloads
<1>2. PresentIn(Reads(t)) \subseteq Keys
  BY DEF PresentIn
<1>3. ASSUME NEW k \in Keys, Erase(t, k) PROVE \E group : Given(group) /\ StageChanges(t, group)
  BY <1>1, <1>3, SingleGiven DEF Erase, Probed
<1>4. ASSUME NEW k \in Keys, NEW v \in Values, Upsert(t, k, v) \/ Insert(t, k, v) \/ Update(t, k, v)
      PROVE  \E group : Given(group) /\ StageChanges(t, group)
  BY <1>1, <1>4, SingleGiven DEF Upsert, Insert, Update, Probed
<1>5. ASSUME NEW q, EraseWalked(t, q) PROVE \E group : Given(group) /\ StageChanges(t, group)
  <2>1. PICK members \in SUBSET Keys : StageChanges(t, [k \in members |-> Absent])
    BY <1>2, <1>5 DEF EraseWalked
  <2>2. Given([k \in members |-> Absent])
    BY <1>1 DEF Given, IsGroup
  <2>3. QED
    BY <2>1, <2>2
<1>6. ASSUME NEW q, NEW v \in Values, UpdateWalked(t, q, v)
      PROVE  \E group : Given(group) /\ StageChanges(t, group)
  <2>1. StageChanges(t, [k \in PresentIn(Reads(t)) \cap q.keys |-> v])
    BY <1>6 DEF UpdateWalked
  <2>2. Given([k \in PresentIn(Reads(t)) \cap q.keys |-> v])
    BY <1>1, <1>2 DEF Given, IsGroup
  <2>3. QED
    BY <2>1, <2>2
<1>7. QED
  BY <1>3, <1>4, <1>5, <1>6

\* A pending write is a Write.
LEMMA WriteSteps ==
    ASSUME Inv, Inv', NEW t \in Transactions, NEW group, IsGroup(group), StageChanges(t, group)
    PROVE  t \in open /\ Abstract!Write(t)
<1> DEFINE writes == WrittenOver(group, changes[t])
<1>1. /\ t \in open /\ staging[t] = "pending" /\ entries' = entries /\ open' = open
      /\ UNCHANGED <<publishedStamp, latest, staging, generation, snapshot, view>>
      /\ changes' = [changes EXCEPT ![t] = writes]
      /\ changed' = [changed EXCEPT ![t] = @ \cup DOMAIN group]
  BY DEF StageChanges, storeVars, leaseVars
<1>2. /\ DOMAIN changes[t] \subseteq Keys /\ \A k \in DOMAIN changes[t] : changes[t][k] \in Payloads
  <2>1. DOMAIN changes[t] \subseteq changed[t] /\ \A k \in DOMAIN changes[t] : changes[t][k] \in Payloads
    BY DEF Inv, Typed, ChangesTyped
  <2>2. QED
    BY <2>1, BooksOf
<1>3. DOMAIN writes = DOMAIN group \cup DOMAIN changes[t]
  BY DEF WrittenOver
<1>4. \A k \in DOMAIN writes : writes[k] \in Payloads
  BY <1>2 DEF WrittenOver, IsGroup
<1>5. writes \in Partial(Payloads)
  <2>1. DOMAIN writes \in SUBSET Keys
    BY <1>2, <1>3 DEF IsGroup
  <2>2. writes \in [DOMAIN writes -> Payloads]
    BY <1>4 DEF WrittenOver
  <2>3. QED
    BY <2>1, <2>2 DEF Partial
<1> HIDE DEF writes
<1>6. \A u \in open \ {t} : Untouched(u) /\ generation[u] # 0
  BY <1>1, BooksOf DEF Untouched
<1>7. Keeps(entries, entries', 0)
  BY <1>1 DEF Keeps
<1>8. \A u \in open \ {t} : Steady(u)
  BY <1>6, <1>7, OthersSteady
<1>9. PendingOf(t) = changes[t] /\ PendingOf(t)' = writes
  BY <1>1, BooksOf DEF PendingOf
<1>10. DOMAIN PendingOf(t) \subseteq DOMAIN writes
  BY <1>3, <1>9
<1>11. snapshot'[t] = snapshot[t] /\ view'[t] = view[t] /\ UNCHANGED <<latest, publishedStamp>>
  BY <1>1
<1>12. Abstract!Write(t)
  BY <1>1, <1>5, <1>8, <1>9, <1>10, <1>11, WriteStep
<1>13. QED
  BY <1>1, <1>12

\* Staging files what was pending, and names a key whose payload is gone.
LEMMA StageSteps ==
    ASSUME Inv, Inv', NEW t \in Transactions, Stage(t)
    PROVE  t \in open /\ Abstract!Write(t)
<1> DEFINE group == StagedPayloads(t)
           g == generation[t]
<1>1. /\ t \in open /\ staging[t] = "pending" /\ entries' = Filed(entries, group, g) /\ open' = open
      /\ UNCHANGED <<publishedStamp, latest, changed, generation, snapshot, view>>
      /\ changes' = [changes EXCEPT ![t] = <<>>] /\ staging' = [staging EXCEPT ![t] = "staged"]
  BY DEF Stage, leaseVars
<1>2. /\ DOMAIN changes[t] \subseteq changed[t] /\ \A k \in DOMAIN changes[t] : changes[t][k] \in Payloads
      /\ changed[t] \subseteq Keys
  BY BooksOf DEF Inv, Typed, ChangesTyped
<1>3. DOMAIN group = changed[t] /\ \A k \in changed[t] : group[k] \in Payloads
  BY <1>2 DEF StagedPayloads, Payloads
<1>4. group \in Partial(Payloads) /\ IsGroup(group)
  <2>1. group \in [changed[t] -> Payloads]
    BY <1>3 DEF StagedPayloads
  <2>2. QED
    BY <1>2, <1>3, <2>1 DEF Partial, IsGroup
<1>5. \A u \in open \ {t} : Untouched(u) /\ generation[u] # g
  BY <1>1, BooksOf DEF Untouched
<1>6. Keeps(entries, entries', g)
  BY <1>1, FiledKeeps
<1>7. \A u \in open \ {t} : Steady(u)
  BY <1>5, <1>6, OthersSteady
<1>8. g \in Generations
  BY <1>1, BooksOf
<1>9. group = [k \in changed[t] |-> group[k]]
  BY DEF StagedPayloads
<1> HIDE DEF group, g
<1>10. Carries(entries, entries', group, g)
  BY <1>1, <1>4, <1>8, BooksOf, FiledFacts
<1>11. \A k \in changed[t] : <<k, g>> \in DOMAIN entries' /\ entries'[<<k, g>>].payload = group[k]
  BY <1>3, <1>10 DEF Carries
<1>12. PendingOf(t)' = group
  <2>1. staging'[t] = "staged" /\ changed'[t] = changed[t] /\ generation'[t] = g
    BY <1>1, BooksOf DEF g
  <2>2. Standing(entries', changed[t], g) = changed[t]
    BY <1>11 DEF Standing
  <2>3. PendingOf(t)' = [k \in changed[t] |-> entries'[<<k, g>>].payload]
    BY <2>1, <2>2 DEF PendingOf
  <2>4. QED
    BY <1>9, <1>11, <2>3
<1>13. DOMAIN PendingOf(t) \subseteq DOMAIN group
  BY <1>1, <1>2, <1>3 DEF PendingOf
<1>14. snapshot'[t] = snapshot[t] /\ view'[t] = view[t] /\ UNCHANGED <<latest, publishedStamp>>
  BY <1>1
<1>15. Abstract!Write(t)
  BY <1>1, <1>4, <1>7, <1>12, <1>13, <1>14, WriteStep
<1>16. QED
  BY <1>1, <1>15

\* A rollback that recovers every payload leaves pending what was pending.
LEMMA RollbackSteps ==
    ASSUME Inv, Inv', ~RollbackFails, NEW t \in Transactions, NEW lost, Rollback(t, lost)
    PROVE  t \in open /\ Abstract!Write(t)
<1> DEFINE writes == Written(entries, changed[t], generation[t])
<1>1. /\ t \in open /\ staging[t] = "staged" /\ open' = open
      /\ entries' = Dropped(entries, changed[t], generation[t])
      /\ UNCHANGED <<publishedStamp, latest, changed, snapshot, view>>
      /\ changes' = [changes EXCEPT ![t] = writes] /\ staging' = [staging EXCEPT ![t] = "pending"]
      /\ generation' = [generation EXCEPT ![t] = FreshGeneration]
  BY DEF Rollback, leaseVars, Written
<1>2. writes \in Partial(Payloads)
  BY BooksOf, WrittenGroup
<1>3. PendingOf(t) = writes
  BY <1>1 DEF PendingOf, Written
<1> HIDE DEF writes
<1>4. PendingOf(t)' = writes
  BY <1>1, BooksOf DEF PendingOf
<1>5. \A u \in open \ {t} : Untouched(u) /\ generation[u] # generation[t]
  BY <1>1, BooksOf DEF Untouched
<1>6. \A u \in open \ {t} : Steady(u)
  BY <1>1, <1>5, DroppedKeeps, OthersSteady
<1>7. snapshot'[t] = snapshot[t] /\ view'[t] = view[t] /\ UNCHANGED <<latest, publishedStamp>>
  BY <1>1
<1>8. Abstract!Write(t)
  BY <1>1, <1>2, <1>3, <1>4, <1>6, <1>7, WriteStep
<1>9. QED
  BY <1>1, <1>8

\* What validation accepts nobody committed since the snapshot of t.
LEMMA ValidatedWrites ==
    ASSUME Inv, NEW t \in open, Validated(t), NEW k \in changed[t]
    PROVE  latest[k].since <= snapshot[t]
<1>1. k \in Keys
  BY BooksOf
<1>2. /\ latest[k].since \in Nat /\ latest[k].since <= publishedStamp
      /\ snapshot[t] \in Nat /\ publishedStamp \in Nat
      /\ ReaderHolds(entries, latest, snapshot[t], view[t])
  BY <1>1 DEF Inv, StoreBooks, Books, State, ReadersServed
<1>3. CASE publishedStamp = snapshot[t]
  BY <1>2, <1>3
<1>4. CASE ~ChangedSince(entries, k, snapshot[t])
  <2>1. ~(latest[k].since > snapshot[t])
    BY <1>1, <1>2, <1>4 DEF ReaderHolds
  <2>2. QED
    BY <1>2, <2>1
<1>5. QED
  BY <1>3, <1>4 DEF Validated

\* commit is a Commit: what it validated is what the abstract store compares.
LEMMA CommitSteps ==
    ASSUME Inv, Inv', LeftEmpty, NEW t \in Transactions, Commit(t)
    PROVE  t \in open /\ Abstract!Commit(t)
<1> DEFINE writes == Written(entries, changed[t], generation[t])
<1>1. /\ t \in open /\ staging[t] = "staged" /\ Validated(t) /\ open' = open \cup {t}
      /\ PublishAndPrune(entries, changed[t], generation[t])
      /\ UNCHANGED <<generation, changes>>
      /\ changed' = [changed EXCEPT ![t] = {}] /\ staging' = [staging EXCEPT ![t] = "pending"]
      /\ snapshot' = [snapshot EXCEPT ![t] = publishedStamp'] /\ view' = [view EXCEPT ![t] = latest']
  BY DEF Commit, TakeSnapshot
<1>2. /\ \A d \in DOMAIN entries' : d \in DOMAIN entries /\ entries'[d].payload = entries[d].payload
      /\ publishedStamp' = publishedStamp + 1
      /\ latest' = StateAfter(entries, changed[t], generation[t], publishedStamp')
  BY <1>1, BooksOf, PublishKeeps
<1>3. Keeps(entries, entries', generation[t])
  BY <1>2 DEF Keeps
<1>4. \A u \in open \ {t} : Untouched(u) /\ generation[u] # generation[t]
  BY <1>1, BooksOf DEF Untouched
<1>5. \A u \in open \ {t} : Steady(u)
  BY <1>3, <1>4, OthersSteady
<1>6. PendingOf(t) = writes
  BY <1>1 DEF PendingOf, Written
<1>7. DOMAIN writes \subseteq changed[t] /\ latest' = Abstract!Committed(writes, publishedStamp')
  BY <1>2, BooksOf, WrittenGroup
<1> HIDE DEF writes
<1>8. \A k \in DOMAIN PendingOf(t) : latest[k].since <= snapshot[t]
  BY <1>1, <1>6, <1>7, ValidatedWrites
<1>9. PendingOf(t)' = <<>>
  <2>1. changes[t] = <<>> /\ changes'[t] = changes[t] /\ staging'[t] = "pending"
    BY <1>1, BooksOf DEF LeftEmpty
  <2>2. QED
    BY <2>1 DEF PendingOf
<1>10. snapshot'[t] = publishedStamp' /\ view'[t] = latest' /\ open' = open
  BY <1>1, BooksOf
<1>11. Abstract!Commit(t)
  BY <1>1, <1>2, <1>5, <1>6, <1>7, <1>8, <1>9, <1>10, CommitStep
<1>12. QED
  BY <1>1, <1>11

\* A group stamped under a generation no transaction holds is published as one.
LEMMA PublishSteps ==
    ASSUME Inv, Inv', NEW e, IsCore(e), NEW ks, ks \subseteq Keys, NEW g,
           PublishAndPrune(e, ks, g), Keeps(entries, e, g),
           DOMAIN entries \cap DOMAIN entries' \subseteq DOMAIN e,
           \A t \in open : generation[t] # g,
           UNCHANGED <<writeVars, leaseVars>>
    PROVE  \E writes \in Abstract!Writes : Abstract!Publish(writes)
<1>1. /\ \A d \in DOMAIN entries' : d \in DOMAIN e /\ entries'[d].payload = e[d].payload
      /\ publishedStamp' = publishedStamp + 1
      /\ latest' = StateAfter(e, ks, g, publishedStamp')
  BY BooksOf, PublishKeeps
<1>2. Keeps(entries, entries', g)
  BY <1>1 DEF Keeps
<1>3. \A u \in open : Untouched(u)
  BY DEF Untouched, writeVars, leaseVars
<1>4. open' = open /\ \A u \in open : Steady(u)
  BY <1>2, <1>3, SteadyFrame DEF leaseVars
<1>5. Written(e, ks, g) \in Partial(Payloads) /\ latest' = Abstract!Committed(Written(e, ks, g), publishedStamp')
  BY <1>1, WrittenGroup
<1>6. Written(e, ks, g) \in Abstract!Writes
  BY <1>5 DEF Partial, Abstract!Writes
<1>7. Abstract!Publish(Written(e, ks, g))
  BY <1>1, <1>4, <1>5, SteadyStep DEF Abstract!Publish
<1>8. QED
  BY <1>6, <1>7

\* A direct write is a Publish.
LEMMA GroupSteps ==
    ASSUME Inv, Inv', NEW group, IsGroup(group), PublishGroup(group)
    PROVE  \E writes \in Abstract!Writes : Abstract!Publish(writes)
<1> DEFINE g == FreshGeneration
           e == Filed(entries, group, g)
<1>1. Carried # Generations /\ PublishAndPrune(e, DOMAIN group, g) /\ UNCHANGED <<writeVars, leaseVars>>
  BY DEF PublishGroup
<1>2. Free(g)
  BY <1>1, FreshIsFree, BooksOf DEF Inv, FramesApart
<1> HIDE DEF g
<1>3. IsCore(e) /\ Keeps(entries, e, g)
  BY <1>2, FiledFacts, FiledKeeps, BooksOf DEF Free
<1>4. DOMAIN entries \subseteq DOMAIN e
  BY DEF Filed
<1> HIDE DEF e
<1>5. DOMAIN group \subseteq Keys /\ \A t \in open : generation[t] # g
  BY <1>2 DEF IsGroup, Free
<1>6. DOMAIN entries \cap DOMAIN entries' \subseteq DOMAIN e
  BY <1>4
<1>7. QED
  BY <1>1, <1>3, <1>5, <1>6, PublishSteps

\* Publishing a publication is a Publish of what it filed.
LEMMA PublicationSteps ==
    ASSUME Inv, Inv', NEW p \in Publications, Publish(p)
    PROVE  \E writes \in Abstract!Writes : Abstract!Publish(writes)
<1>1. p \in Filing /\ PublishAndPrune(entries, filed[p], filedAs[p]) /\ UNCHANGED <<writeVars, leaseVars>>
  BY DEF Publish, Filing
<1>2. filed[p] \subseteq Keys /\ \A t \in open : generation[t] # filedAs[p]
  BY <1>1 DEF Inv, Typed, FramesTyped, FramesApart, GenerationsApart
<1>3. IsCore(entries) /\ Keeps(entries, entries, filedAs[p])
  BY BooksOf DEF Keeps
<1>4. DOMAIN entries \cap DOMAIN entries' \subseteq DOMAIN entries
  OBVIOUS
<1>5. QED
  BY <1>1, <1>2, <1>3, <1>4, PublishSteps

\* A call that leaves every frame and the committed state alone.
LEMMA QuietSteps ==
    ASSUME Inv, Inv', UNCHANGED <<publishedStamp, latest, writeVars, leaseVars>>,
           NEW g, Keeps(entries, entries', g),
           \A u \in open : generation[u] # g \/ staging[u] = "pending"
    PROVE  UNCHANGED Abstract!vars
<1>1. \A u \in open : Untouched(u)
  BY DEF Untouched, writeVars, leaseVars
<1>2. open' = open /\ \A u \in open : Steady(u)
  BY <1>1, SteadyFrame DEF leaseVars
<1>3. QED
  BY <1>2, SteadyStep DEF Abstract!vars

\* A read is a stutter.
LEMMA ReadSteps ==
    ASSUME Inv, Inv', UNCHANGED <<storeVars, writeVars, leaseVars>>
    PROVE  UNCHANGED Abstract!vars
<1>1. Keeps(entries, entries', 0) /\ \A u \in open : generation[u] # 0
  BY BooksOf DEF storeVars, Keeps
<1>2. QED
  BY <1>1, QuietSteps DEF storeVars

\* stage running out of memory is a stutter.
LEMMA StageFailsSteps ==
    ASSUME Inv, Inv', NEW t, NEW reserved, StageFails(t, reserved)
    PROVE  UNCHANGED Abstract!vars
<1>1. /\ t \in open /\ staging[t] = "pending" /\ entries' = Dropped(entries, reserved, generation[t])
      /\ UNCHANGED <<publishedStamp, latest, writeVars, leaseVars>>
  BY DEF StageFails
<1>2. \A u \in open : generation[u] # generation[t] \/ staging[u] = "pending"
  BY <1>1, BooksOf
<1>3. Keeps(entries, entries', generation[t])
  BY <1>1, DroppedKeeps
<1>4. QED
  BY <1>1, <1>2, <1>3, QuietSteps

\* Filing in a publication is a stutter.
LEMMA FileSteps ==
    ASSUME Inv, Inv', NEW p \in Publications, NEW k, NEW payload, File(p, k, payload)
    PROVE  UNCHANGED Abstract!vars
<1> DEFINE g == IF filed[p] = {} THEN FreshGeneration ELSE filedAs[p]
<1>1. /\ filed[p] # {} \/ Carried # Generations
      /\ entries' = Filed(entries, Single(k, payload), g)
      /\ UNCHANGED <<publishedStamp, latest, writeVars, leaseVars>>
  BY DEF File
<1>2. \A u \in open : generation[u] # g
  <2>1. CASE filed[p] = {}
    <3>1. Free(FreshGeneration)
      BY <1>1, <2>1, FreshIsFree, BooksOf DEF Inv, FramesApart
    <3>2. QED
      BY <2>1, <3>1 DEF Free
  <2>2. CASE filed[p] # {}
    BY <2>2 DEF Inv, FramesApart, GenerationsApart, Filing
  <2>3. QED
    BY <2>1, <2>2
<1> HIDE DEF g
<1>3. Keeps(entries, entries', g)
  BY <1>1, FiledKeeps
<1>4. QED
  BY <1>1, <1>2, <1>3, QuietSteps

\* Withdrawing a publication is a stutter.
LEMMA WithdrawSteps ==
    ASSUME Inv, Inv', NEW p \in Publications, Withdraw(p)
    PROVE  UNCHANGED Abstract!vars
<1>1. /\ p \in Filing /\ entries' = Dropped(entries, filed[p], filedAs[p])
      /\ UNCHANGED <<publishedStamp, latest, writeVars, leaseVars>>
  BY DEF Withdraw, Filing
<1>2. \A u \in open : generation[u] # filedAs[p]
  BY <1>1 DEF Inv, FramesApart, GenerationsApart
<1>3. Keeps(entries, entries', filedAs[p])
  BY <1>1, DroppedKeeps
<1>4. QED
  BY <1>1, <1>2, <1>3, QuietSteps

\* vacuum is a stutter.
LEMMA VacuumSteps ==
    ASSUME Inv, Inv', NEW ks, Vacuum(ks)
    PROVE  UNCHANGED Abstract!vars
<1>1. Keeps(entries, entries', 0) /\ \A u \in open : generation[u] # 0
  BY PrunedKeeps, BooksOf DEF Vacuum
<1>2. QED
  BY <1>1, QuietSteps DEF Vacuum

\* clear is a Clear.
LEMMA ClearSteps ==
    ASSUME Inv, Inv', Clear
    PROVE  Abstract!Clear
<1>1. open = {} /\ open' = open /\ latest' = Nothing /\ UNCHANGED publishedStamp
  BY DEF Clear, leaseVars
<1>2. Abstract!Open = {} /\ Abstract!Nothing = Nothing
  BY <1>1 DEF Abstract!Open, Abstract!Nothing, Nothing
<1>3. QED
  BY <1>1, <1>2, SteadyStep DEF Abstract!Clear

----------------------------------------------------------------------------

\* Every call of a transaction is a step of the abstract store or a stutter.
LEMMA OwnSteps ==
    ASSUME Inv, Inv', LeftEmpty, ~RollbackFails, NEW t \in Transactions, TransactionCall(t)
    PROVE  Abstract!Next \/ UNCHANGED Abstract!vars
<1>1. Abstract!Open = open
  BY DEF Abstract!Open
<1>2. CASE Open(t) \/ Reset(t)
  BY <1>2, OpenSteps, ResetSteps DEF Abstract!Next
<1>3. CASE Stage(t) \/ Commit(t) \/ Close(t)
  BY <1>1, <1>3, StageSteps, CommitSteps, CloseSteps DEF Abstract!Next
<1>4. ASSUME NEW q, Read(t, q) PROVE UNCHANGED Abstract!vars
  BY <1>4, ReadSteps DEF Read
<1>5. ASSUME NEW k, Watch(t, k) PROVE UNCHANGED Abstract!vars
  BY <1>5, ReadSteps DEF Watch
<1>6. ASSUME NEW ks, StageFails(t, ks) PROVE UNCHANGED Abstract!vars
  BY <1>6, StageFailsSteps
<1>7. ASSUME NEW ks, Rollback(t, ks) PROVE Abstract!Next
  BY <1>1, <1>7, RollbackSteps DEF Abstract!Next
<1>8. ASSUME \/ \E k \in Keys : Erase(t, k)
             \/ \E k \in Keys, v \in Values : Upsert(t, k, v) \/ Insert(t, k, v) \/ Update(t, k, v)
             \/ \E q : EraseWalked(t, q) \/ \E v \in Values : UpdateWalked(t, q, v)
      PROVE  Abstract!Next
  <2>1. PICK group : Given(group) /\ StageChanges(t, group)
    BY <1>8, WritesAGroup, Zenon
  <2>2. QED
    BY <1>1, <2>1, WriteSteps DEF Abstract!Next, Given
<1>9. QED
  BY <1>2, <1>3, <1>4, <1>5, <1>6, <1>7, <1>8 DEF TransactionCall

\* Every call of the store itself is a step of the abstract store or a stutter.
LEMMA DirectSteps ==
    ASSUME Inv, Inv', StoreCall
    PROVE  Abstract!Next \/ UNCHANGED Abstract!vars
<1>1. ASSUME NEW group, IsGroup(group), PublishGroup(group) PROVE Abstract!Next
  BY <1>1, GroupSteps DEF Abstract!Next
<1>2. ASSUME NEW ks, Vacuum(ks) PROVE UNCHANGED Abstract!vars
  BY <1>2, VacuumSteps
<1>3. ASSUME Clear PROVE Abstract!Next
  BY <1>3, ClearSteps DEF Abstract!Next
<1>4. QED
  BY <1>1, <1>2, <1>3, DirectGroups DEF Given

\* Every call of a publication is a step of the abstract store or a stutter.
LEMMA PublicationsSteps ==
    ASSUME Inv, Inv', NEW p \in Publications, PublicationCall(p)
    PROVE  Abstract!Next \/ UNCHANGED Abstract!vars
<1>1. ASSUME Publish(p) PROVE Abstract!Next
  BY <1>1, PublicationSteps DEF Abstract!Next
<1>2. ASSUME Withdraw(p) PROVE UNCHANGED Abstract!vars
  BY <1>2, WithdrawSteps
<1>3. ASSUME NEW k, NEW payload, File(p, k, payload) PROVE UNCHANGED Abstract!vars
  BY <1>3, FileSteps
<1>4. QED
  BY <1>1, <1>2, <1>3 DEF PublicationCall

\* Only an open transaction that has not staged gathers payloads.
LEMMA LeftEmptyStep ==
    ASSUME Inv, LeftEmpty, [Next]_vars
    PROVE  LeftEmpty'
<1>1. /\ DOMAIN changes = Transactions /\ DOMAIN staging = Transactions
  BY BooksOf
<1>2. CASE UNCHANGED writeVars /\ open \subseteq open'
  BY <1>2 DEF LeftEmpty, writeVars
<1>3. ASSUME NEW t \in Transactions, TransactionCall(t) PROVE LeftEmpty'
  <2>1. CASE Open(t)
    BY <2>1 DEF Open, TakeSnapshot, LeftEmpty
  <2>2. CASE Reset(t) \/ Close(t)
    BY <1>1, <2>2 DEF Reset, Close, Blank, TakeSnapshot, LeftEmpty
  <2>3. CASE Stage(t)
    BY <1>1, <2>3 DEF Stage, leaseVars, LeftEmpty
  <2>4. CASE Commit(t)
    BY <1>1, <2>4 DEF Commit, TakeSnapshot, LeftEmpty
  <2>5. ASSUME NEW ks, Rollback(t, ks) PROVE LeftEmpty'
    BY <1>1, <2>5 DEF Rollback, leaseVars, LeftEmpty
  <2>6. ASSUME NEW q, Read(t, q) PROVE LeftEmpty'
    BY <1>2, <2>6 DEF Read, leaseVars
  <2>7. ASSUME NEW k, Watch(t, k) PROVE LeftEmpty'
    BY <1>2, <2>7 DEF Watch, leaseVars
  <2>8. ASSUME NEW ks, StageFails(t, ks) PROVE LeftEmpty'
    BY <1>2, <2>8 DEF StageFails, leaseVars
  <2>9. ASSUME NEW group, StageChanges(t, group) PROVE LeftEmpty'
    BY <1>1, <2>9 DEF StageChanges, leaseVars, LeftEmpty
  <2>10. ASSUME \/ \E k \in Keys : Erase(t, k)
                \/ \E k \in Keys, v \in Values : Upsert(t, k, v) \/ Insert(t, k, v) \/ Update(t, k, v)
                \/ \E q : EraseWalked(t, q) \/ \E v \in Values : UpdateWalked(t, q, v)
         PROVE  LeftEmpty'
    <3>1. PICK group : Given(group) /\ StageChanges(t, group)
      BY <2>10, WritesAGroup, Zenon
    <3>2. QED
      BY <2>9, <3>1
  <2>11. QED
    BY <1>3, <2>1, <2>2, <2>3, <2>4, <2>5, <2>6, <2>7, <2>8, <2>10 DEF TransactionCall
<1>4. ASSUME NEW p \in Publications, PublicationCall(p) PROVE LeftEmpty'
  BY <1>2, <1>4 DEF PublicationCall, Publish, Withdraw, File, leaseVars
<1>5. ASSUME StoreCall PROVE LeftEmpty'
  <2>1. ASSUME NEW group, PublishGroup(group) PROVE LeftEmpty'
    BY <1>2, <2>1 DEF PublishGroup, leaseVars
  <2>2. ASSUME NEW ks, Vacuum(ks) PROVE LeftEmpty'
    BY <1>2, <2>2 DEF Vacuum, leaseVars
  <2>3. ASSUME Clear PROVE LeftEmpty'
    BY <1>2, <2>3 DEF Clear, leaseVars
  <2>4. QED
    BY <1>5, <2>1, <2>2, <2>3, DirectGroups DEF Given
<1>6. CASE UNCHANGED vars
  BY <1>2, <1>6 DEF vars, leaseVars
<1>7. QED
  BY <1>3, <1>4, <1>5, <1>6 DEF Next

\* The store carries out snapshot isolation, first committer first, for any
\* number of keys, transactions and publications, where no caller writes on with
\* a committed transaction or clears over a publication, and rollback has memory.
THEOREM Refinement ==
    ASSUME CallsInOrder, ~RollbackFails
    PROVE  Spec => ImplementsSnapshotIsolation
<1>1. Init => Abstract!Init /\ LeftEmpty
  <2>1. SUFFICES ASSUME Init PROVE Abstract!Init /\ LeftEmpty
    OBVIOUS
  <2>2. open = {} /\ latest = Nothing /\ publishedStamp = 0
    BY <2>1 DEF Init
  <2>3. [t \in open |-> snapshot[t]] = <<>> /\ [t \in open |-> view[t]] = <<>> /\ [t \in open |-> PendingOf(t)] = <<>>
    BY <2>2
  <2>4. LeftEmpty
    BY <2>1 DEF Init, LeftEmpty
  <2>5. QED
    BY <2>2, <2>3, <2>4 DEF Abstract!Init, Abstract!Nothing, Nothing
<1>2. Inv /\ Inv' /\ LeftEmpty /\ [Next]_vars => [Abstract!Next]_Abstract!vars /\ LeftEmpty'
  <2>1. SUFFICES ASSUME Inv, Inv', LeftEmpty, [Next]_vars
                 PROVE  (Abstract!Next \/ UNCHANGED Abstract!vars) /\ LeftEmpty'
    OBVIOUS
  <2>2. LeftEmpty'
    BY <2>1, LeftEmptyStep
  <2>3. CASE UNCHANGED vars
    <3>1. UNCHANGED Abstract!vars
      BY <2>1, <2>3, ReadSteps DEF vars
    <3>2. QED
      BY <2>2, <3>1
  <2>4. CASE Next
    <3>1. Abstract!Next \/ UNCHANGED Abstract!vars
      BY <2>1, <2>4, OwnSteps, PublicationsSteps, DirectSteps DEF Next
    <3>2. QED
      BY <2>2, <3>1
  <2>5. QED
    BY <2>1, <2>3, <2>4
<1>3. QED
  BY <1>1, <1>2, Invariance, PTL DEF Spec, ImplementsSnapshotIsolation, Abstract!Spec

----------------------------------------------------------------------------
(* Payloads are never forgotten.                                           *)

\* A transaction that has not staged has a payload aside for every key it lists,
\* and neither what it has aside nor any version is a bare placeholder.
NothingBare ==
    /\ \A d \in DOMAIN entries : entries[d].payload # Unset
    /\ \A t \in open : staging[t] = "pending" => DOMAIN changes[t] = changed[t]
    /\ \A t \in open : \A k \in DOMAIN changes[t] : changes[t][k] # Unset

\* A call that writes no new version and moves the payloads of nobody.
LEMMA BareQuiet ==
    ASSUME NothingBare, UNCHANGED writeVars, open' = open,
           \A d \in DOMAIN entries' : d \in DOMAIN entries /\ entries'[d].payload = entries[d].payload
    PROVE  NothingBare'
BY DEF NothingBare, writeVars

\* Dropping rewrites no payload.
LEMMA DroppedPayloads ==
    ASSUME NEW e, NEW ks, NEW g
    PROVE  \A d \in DOMAIN Dropped(e, ks, g) : d \in DOMAIN e /\ Dropped(e, ks, g)[d].payload = e[d].payload
BY DEF Dropped

\* Pruning rewrites no payload.
LEMMA PrunedPayloads ==
    ASSUME NEW e, NEW ks, NEW mark
    PROVE  \A d \in DOMAIN Pruned(e, ks, mark) : d \in DOMAIN e /\ Pruned(e, ks, mark)[d].payload = e[d].payload
BY DEF Pruned

\* Filing a group that has its payloads files no placeholder.
LEMMA FiledPayloads ==
    ASSUME NothingBare, NEW group, \A k \in DOMAIN group : group[k] # Unset, NEW g
    PROVE  \A d \in DOMAIN Filed(entries, group, g) : Filed(entries, group, g)[d].payload # Unset
<1>1. ASSUME NEW d \in DOMAIN Filed(entries, group, g)
      PROVE  Filed(entries, group, g)[d].payload # Unset
  <2>1. CASE d \in {<<k, g>> : k \in DOMAIN group}
    BY <2>1 DEF Filed
  <2>2. CASE d \notin {<<k, g>> : k \in DOMAIN group}
    BY <1>1, <2>2 DEF Filed, NothingBare
  <2>3. QED
    BY <2>1, <2>2
<1>2. QED
  BY <1>1

\* The calls of a transaction that move payloads.
LEMMA OwnBare ==
    ASSUME Inv, LeftEmpty, NothingBare, ~RollbackFails, NEW t \in Transactions, TransactionCall(t)
    PROVE  NothingBare'
<1>1. /\ DOMAIN changes = Transactions /\ DOMAIN staging = Transactions /\ DOMAIN changed = Transactions
      /\ open \subseteq Transactions
  BY BooksOf
<1>2. CASE Open(t)
  <2>1. t \notin open /\ open' = open \cup {t} /\ UNCHANGED <<entries, staging, changes, changed>>
    BY <1>2 DEF Open, TakeSnapshot, storeVars
  <2>2. DOMAIN changes[t] = {} /\ changed[t] = {}
    <3>1. changes[t] = <<>> /\ changed[t] = {}
      BY <2>1 DEF LeftEmpty, Inv, FramesApart, ClosedBlank
    <3>2. QED
      BY <3>1
  <2>3. QED
    BY <2>1, <2>2 DEF NothingBare
<1>3. CASE Reset(t) \/ Close(t)
  <2>1. /\ entries' = Unstaged(t) /\ open' \subseteq open
        /\ staging' = [staging EXCEPT ![t] = "pending"]
        /\ changes' = [changes EXCEPT ![t] = <<>>] /\ changed' = [changed EXCEPT ![t] = {}]
    BY <1>3 DEF Reset, Close, Blank, TakeSnapshot
  <2>2. \A d \in DOMAIN entries' : entries'[d].payload # Unset
    BY <2>1, DroppedPayloads DEF Unstaged, NothingBare
  <2>3. QED
    BY <1>1, <2>1, <2>2 DEF NothingBare
<1>4. CASE Stage(t)
  <2>1. /\ t \in open /\ staging[t] = "pending" /\ open' = open /\ UNCHANGED changed
        /\ entries' = Filed(entries, StagedPayloads(t), generation[t])
        /\ changes' = [changes EXCEPT ![t] = <<>>] /\ staging' = [staging EXCEPT ![t] = "staged"]
    BY <1>4 DEF Stage, leaseVars
  <2>2. \A k \in DOMAIN StagedPayloads(t) : StagedPayloads(t)[k] # Unset
    BY <2>1 DEF StagedPayloads, NothingBare
  <2>3. \A d \in DOMAIN entries' : entries'[d].payload # Unset
    BY <2>1, <2>2, FiledPayloads
  <2>4. QED
    BY <1>1, <2>1, <2>3 DEF NothingBare
<1>5. CASE Commit(t)
  <2>1. /\ t \in open /\ staging[t] = "staged" /\ open' = open \cup {t} /\ UNCHANGED changes
        /\ PublishAndPrune(entries, changed[t], generation[t])
        /\ changed' = [changed EXCEPT ![t] = {}] /\ staging' = [staging EXCEPT ![t] = "pending"]
    BY <1>5 DEF Commit, TakeSnapshot
  <2>2. \A d \in DOMAIN entries' : d \in DOMAIN entries /\ entries'[d].payload = entries[d].payload
    BY <2>1, BooksOf, PublishKeeps
  <2>3. changes[t] = <<>>
    BY <2>1 DEF LeftEmpty
  <2>4. QED
    BY <1>1, <2>1, <2>2, <2>3 DEF NothingBare
<1>6. ASSUME NEW lost, Rollback(t, lost) PROVE NothingBare'
  <2> DEFINE recovered == Standing(entries, changed[t], generation[t])
             aside == [k \in recovered |-> entries[<<k, generation[t]>>].payload]
  <2>1. /\ t \in open /\ staging[t] = "staged" /\ open' = open /\ UNCHANGED changed
        /\ changes' = [changes EXCEPT ![t] = aside]
        /\ entries' = Dropped(entries, changed[t], generation[t])
        /\ staging' = [staging EXCEPT ![t] = "pending"]
    BY <1>6 DEF Rollback, leaseVars
  <2>2. recovered = changed[t]
    BY <2>1, StagedStanding
  <2>3. DOMAIN aside = changed[t] /\ \A k \in DOMAIN aside : aside[k] # Unset
    BY <2>2 DEF Standing, NothingBare
  <2>4. \A d \in DOMAIN entries' : entries'[d].payload # Unset
    BY <2>1, DroppedPayloads DEF NothingBare
  <2> HIDE DEF aside
  <2>5. QED
    BY <1>1, <2>1, <2>3, <2>4 DEF NothingBare
<1>7. ASSUME NEW group, Given(group), StageChanges(t, group) PROVE NothingBare'
  <2> DEFINE pending == WrittenOver(group, changes[t])
  <2>1. /\ t \in open /\ staging[t] = "pending" /\ entries' = entries /\ open' = open /\ UNCHANGED staging
        /\ changes' = [changes EXCEPT ![t] = pending]
        /\ changed' = [changed EXCEPT ![t] = changed[t] \cup DOMAIN group]
    BY <1>7 DEF StageChanges, storeVars, leaseVars
  <2>2. DOMAIN pending = changed[t] \cup DOMAIN group
    BY <2>1 DEF WrittenOver, NothingBare
  <2>3. \A k \in DOMAIN pending : pending[k] # Unset
    BY <1>7, <2>1 DEF WrittenOver, NothingBare, Given
  <2> HIDE DEF pending
  <2>4. QED
    BY <1>1, <2>1, <2>2, <2>3 DEF NothingBare
<1>8. ASSUME \/ \E k \in Keys : Erase(t, k)
             \/ \E k \in Keys, v \in Values : Upsert(t, k, v) \/ Insert(t, k, v) \/ Update(t, k, v)
             \/ \E q : EraseWalked(t, q) \/ \E v \in Values : UpdateWalked(t, q, v)
      PROVE  NothingBare'
  <2>1. PICK group : Given(group) /\ StageChanges(t, group)
    BY <1>8, WritesAGroup, Zenon
  <2>2. QED
    BY <1>7, <2>1
<1>9. ASSUME NEW q, Read(t, q) PROVE NothingBare'
  BY <1>9, BareQuiet DEF Read, storeVars, leaseVars
<1>10. ASSUME NEW k, Watch(t, k) PROVE NothingBare'
  BY <1>10, BareQuiet DEF Watch, storeVars, leaseVars
<1>11. ASSUME NEW ks, StageFails(t, ks) PROVE NothingBare'
  BY <1>11, BareQuiet, DroppedPayloads DEF StageFails, leaseVars
<1>12. QED
  BY <1>2, <1>3, <1>4, <1>5, <1>6, <1>8, <1>9, <1>10, <1>11 DEF TransactionCall

\* A group stamped and pruned is no placeholder if it was none when it was filed.
LEMMA PublishBare ==
    ASSUME Inv, NothingBare, NEW e, IsCore(e), NEW ks, NEW g, PublishAndPrune(e, ks, g),
           \A d \in DOMAIN e : e[d].payload # Unset, UNCHANGED writeVars, open' = open
    PROVE  NothingBare'
<1>1. \A d \in DOMAIN entries' : d \in DOMAIN e /\ entries'[d].payload = e[d].payload
  BY BooksOf, PublishKeeps
<1>2. QED
  BY <1>1 DEF NothingBare, writeVars

\* The calls of the store itself and of its publications.
LEMMA OthersBare ==
    ASSUME Inv, NothingBare, StoreCall \/ \E p \in Publications : PublicationCall(p)
    PROVE  NothingBare'
<1>1. ASSUME NEW group, Given(group), PublishGroup(group) PROVE NothingBare'
  <2> DEFINE g == FreshGeneration
             e == Filed(entries, group, g)
  <2>1. Carried # Generations /\ PublishAndPrune(e, DOMAIN group, g) /\ UNCHANGED writeVars /\ open' = open
    BY <1>1 DEF PublishGroup, leaseVars
  <2>2. Free(g)
    BY <2>1, FreshIsFree, BooksOf DEF Inv, FramesApart
  <2> HIDE DEF g
  <2>3. IsCore(e)
    BY <1>1, <2>2, FiledFacts, BooksOf DEF Free, Given
  <2>4. \A d \in DOMAIN e : e[d].payload # Unset
    BY <1>1, FiledPayloads DEF Given
  <2> HIDE DEF e
  <2>5. QED
    BY <2>1, <2>3, <2>4, PublishBare
<1>2. ASSUME NEW ks, Vacuum(ks) PROVE NothingBare'
  BY <1>2, BareQuiet, PrunedPayloads DEF Vacuum, leaseVars
<1>3. ASSUME Clear PROVE NothingBare'
  BY <1>3, BareQuiet DEF Clear, leaseVars
<1>4. ASSUME NEW p \in Publications, Publish(p) PROVE NothingBare'
  <2>1. PublishAndPrune(entries, filed[p], filedAs[p]) /\ UNCHANGED writeVars /\ open' = open
    BY <1>4 DEF Publish, leaseVars
  <2>2. IsCore(entries) /\ \A d \in DOMAIN entries : entries[d].payload # Unset
    BY BooksOf DEF NothingBare
  <2>3. QED
    BY <2>1, <2>2, PublishBare
<1>5. ASSUME NEW p \in Publications, Withdraw(p) PROVE NothingBare'
  BY <1>5, BareQuiet, DroppedPayloads DEF Withdraw, leaseVars
<1>6. ASSUME NEW p \in Publications, NEW k \in Keys, NEW payload \in Values \cup {Absent}, File(p, k, payload)
      PROVE  NothingBare'
  <2>1. PICK g : entries' = Filed(entries, Single(k, payload), g)
    BY <1>6 DEF File
  <2>2. UNCHANGED writeVars /\ open' = open
    BY <1>6 DEF File, leaseVars
  <2>3. \A j \in DOMAIN Single(k, payload) : Single(k, payload)[j] # Unset
    BY StoreAssumption DEF Single
  <2>4. \A d \in DOMAIN entries' : entries'[d].payload # Unset
    BY <2>1, <2>3, FiledPayloads
  <2>5. QED
    BY <2>2, <2>4 DEF NothingBare, writeVars
<1>7. CASE StoreCall
  BY <1>1, <1>2, <1>3, <1>7, DirectGroups
<1>8. CASE \E p \in Publications : PublicationCall(p)
  BY <1>4, <1>5, <1>6, <1>8 DEF PublicationCall
<1>9. QED
  BY <1>7, <1>8

\* No reader ever meets a placeholder for a payload nobody wrote, whatever is
\* staged, rolled back and staged again, as long as rollback has the memory to
\* put aside what it recovers. With the failure it may answer, a run finds one.
THEOREM AlwaysWritten ==
    ASSUME CallsInOrder, ~RollbackFails
    PROVE  Spec => []NothingUnwritten
<1>1. Init => NothingBare /\ LeftEmpty
  BY DEF Init, NothingBare, LeftEmpty
<1>2. Inv /\ NothingBare /\ LeftEmpty /\ [Next]_vars => NothingBare' /\ LeftEmpty'
  <2>1. SUFFICES ASSUME Inv, NothingBare, LeftEmpty, [Next]_vars PROVE NothingBare' /\ LeftEmpty'
    OBVIOUS
  <2>2. NothingBare'
    <3>1. CASE UNCHANGED vars
      BY <2>1, <3>1, BareQuiet DEF vars, storeVars, leaseVars
    <3>2. CASE Next
      BY <2>1, <3>2, OwnBare, OthersBare DEF Next
    <3>3. QED
      BY <2>1, <3>1, <3>2
  <2>3. QED
    BY <2>1, <2>2, LeftEmptyStep
<1>3. NothingBare => NothingUnwritten
  BY DEF NothingBare, NothingUnwritten
<1>4. QED
  BY <1>1, <1>2, <1>3, Invariance, PTL DEF Spec
=============================================================================
