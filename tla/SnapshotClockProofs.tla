------------------------ MODULE SnapshotClockProofs ------------------------
(***************************************************************************)
(* Proofs about SnapshotClock, for any number of committers, leases and    *)
(* pruners and any bound on the commits: the two intrusive lists stay      *)
(* ordered, so their heads are minima, so the watermark and the mark are   *)
(* what AbstractClock says they are.                                       *)
(***************************************************************************)
EXTENDS SnapshotClock, SequenceTheorems, TLAPS

\* unlink_ takes one node out of a list of distinct nodes and keeps the order
\* of the others.
LEMMA UnlinkProperties ==
    ASSUME NEW S, NEW list \in Seq(S), NEW node,
           Listed(list, node)
    PROVE  /\ Unlink(list, node) \in Seq(S)
           /\ Len(Unlink(list, node)) = Len(list) - 1
           /\ \E k \in 1..Len(list) :
                 /\ list[k] = node
                 /\ \A i \in 1..(Len(list) - 1) :
                       Unlink(list, node)[i] = IF i < k THEN list[i] ELSE list[i + 1]
<1> DEFINE k == Place(list, node)
<1>1. k \in 1..Len(list) /\ list[k] = node
  BY DEF Listed, Place
<1>2. Unlink(list, node) = SubSeq(list, 1, k - 1) \o SubSeq(list, k + 1, Len(list))
  BY DEF Unlink, RemoveAt
<1> DEFINE older == SubSeq(list, 1, k - 1)
           newer == SubSeq(list, k + 1, Len(list))
<1>3. /\ older \in Seq(S) /\ Len(older) = k - 1
      /\ \A i \in 1..(k - 1) : older[i] = list[i]
  BY <1>1
<1>4. /\ newer \in Seq(S) /\ Len(newer) = Len(list) - k
      /\ \A i \in 1..(Len(list) - k) : newer[i] = list[k + i]
  BY <1>1
<1> HIDE DEF k, older, newer
<1>5. /\ older \o newer \in Seq(S)
      /\ Len(older \o newer) = Len(older) + Len(newer)
      /\ \A i \in 1..(Len(older) + Len(newer)) :
            (older \o newer)[i] =
                IF i <= Len(older) THEN older[i] ELSE newer[i - Len(older)]
  BY <1>3, <1>4, ConcatProperties
<1>6. Len(list) \in Nat
  OBVIOUS
<1>7. Len(older \o newer) = Len(list) - 1
  BY <1>1, <1>3, <1>4, <1>5, <1>6
<1>8. ASSUME NEW i \in 1..(Len(list) - 1)
      PROVE  (older \o newer)[i] = IF i < k THEN list[i] ELSE list[i + 1]
  <2>1. CASE i < k
    BY <2>1, <1>1, <1>3, <1>4, <1>5, <1>6
  <2>2. CASE ~(i < k)
    <3>1. i - (k - 1) \in 1..(Len(list) - k)
      BY <2>2, <1>1, <1>6
    <3>2. (older \o newer)[i] = newer[i - (k - 1)]
      BY <2>2, <1>1, <1>3, <1>4, <1>5, <1>6
    <3>3. k + (i - (k - 1)) = i + 1
      BY <1>1, <1>6
    <3>4. QED
      BY <2>2, <3>1, <3>2, <3>3, <1>1, <1>4, <1>6
  <2>3. QED
    BY <2>1, <2>2
<1>9. QED
  BY <1>1, <1>2, <1>5, <1>7, <1>8 DEF older, newer

\* Of distinct nodes, exactly the one unlinked is gone.
LEMMA UnlinkedNodes ==
    ASSUME NEW S, NEW list \in Seq(S), NEW node,
           Listed(list, node),
           \A i, j \in DOMAIN list : i < j => list[i] # list[j]
    PROVE  \A x : Listed(Unlink(list, node), x) <=> Listed(list, x) /\ x # node
<1>1. PICK k \in 1..Len(list) :
          /\ list[k] = node
          /\ \A i \in 1..(Len(list) - 1) :
                Unlink(list, node)[i] = IF i < k THEN list[i] ELSE list[i + 1]
  BY UnlinkProperties
<1>2. DOMAIN Unlink(list, node) = 1..(Len(list) - 1) /\ Len(list) \in Nat
  BY UnlinkProperties
<1>3. ASSUME NEW x, Listed(Unlink(list, node), x)
      PROVE  Listed(list, x) /\ x # node
  BY <1>1, <1>2, <1>3 DEF Listed
<1>4. ASSUME NEW x, Listed(list, x), x # node
      PROVE  Listed(Unlink(list, node), x)
  <2>1. PICK j \in 1..Len(list) : list[j] = x
    BY <1>4 DEF Listed
  <2>2. CASE j < k
    <3>1. j \in 1..(Len(list) - 1)
      BY <2>2, <1>2
    <3>2. QED
      BY <2>2, <3>1, <2>1, <1>1, <1>2 DEF Listed
  <2>3. CASE k < j
    <3>1. j - 1 \in 1..(Len(list) - 1) /\ ~(j - 1 < k) /\ (j - 1) + 1 = j
      BY <2>3, <1>2
    <3>2. QED
      BY <3>1, <2>1, <1>1, <1>2 DEF Listed
  <2>4. QED
    BY <2>1, <2>2, <2>3, <1>4, <1>1, <1>2
<1>5. QED
  BY <1>3, <1>4

\* The nodes left stand in the order they stood in.
LEMMA UnlinkKeepsOrder ==
    ASSUME NEW S, NEW list \in Seq(S), NEW node, Listed(list, node)
    PROVE  \A i, j \in DOMAIN Unlink(list, node) : i < j =>
             \E m, n \in DOMAIN list :
                /\ m < n
                /\ Unlink(list, node)[i] = list[m]
                /\ Unlink(list, node)[j] = list[n]
<1>1. PICK k \in 1..Len(list) :
          \A i \in 1..(Len(list) - 1) :
             Unlink(list, node)[i] = IF i < k THEN list[i] ELSE list[i + 1]
  BY UnlinkProperties
<1>2. /\ DOMAIN Unlink(list, node) = 1..(Len(list) - 1)
      /\ DOMAIN list = 1..Len(list) /\ Len(list) \in Nat
  BY UnlinkProperties
<1> DEFINE place(i) == IF i < k THEN i ELSE i + 1
<1>3. \A i \in 1..(Len(list) - 1) :
        place(i) \in DOMAIN list /\ Unlink(list, node)[i] = list[place(i)]
  BY <1>1, <1>2
<1>4. \A i, j \in 1..(Len(list) - 1) : i < j => place(i) < place(j)
  BY <1>2
<1> HIDE DEF place
<1>5. QED
  BY <1>2, <1>3, <1>4

\* Appending a node lists it beside what was listed.
LEMMA AppendedNodes ==
    ASSUME NEW S, NEW list \in Seq(S), NEW node
    PROVE  \A x : Listed(Append(list, node), x) <=> Listed(list, x) \/ x = node
<1> DEFINE longer == Append(list, node)
<1>1. /\ DOMAIN longer = 1..(Len(list) + 1) /\ DOMAIN list = 1..Len(list)
      /\ Len(list) \in Nat
      /\ \A i \in 1..Len(list) : longer[i] = list[i]
      /\ longer[Len(list) + 1] = node
  OBVIOUS
<1> HIDE DEF longer
<1>2. \A i \in DOMAIN longer : i \in DOMAIN list \/ i = Len(list) + 1
  BY <1>1
<1>3. \A x : Listed(longer, x) <=> Listed(list, x) \/ x = node
  BY <1>1, <1>2 DEF Listed
<1>4. QED
  BY <1>3 DEF longer

----------------------------------------------------------------------------
(* The inductive invariant.                                                *)

\* The commits in flight are distinct, having been drawn at different stamps.
LEMMA InFlightDistinct ==
    ASSUME TypeOK, InFlightOrdered
    PROVE  \A i, j \in DOMAIN inFlight : i < j => inFlight[i] # inFlight[j]
<1>1. \A i \in DOMAIN inFlight : inFlight[i] \in Committers
  BY DEF TypeOK
<1>2. QED
  BY <1>1 DEF TypeOK, InFlightOrdered

\* A new clock satisfies the invariant.
LEMMA InitEstablishes == Init => IInv
  BY DEF Init, IInv, TypeOK, InFlightOrdered, CensusOrdered, MarksBehind,
         Whole, RepublishedMark, Listed, Phases


\* Republishing the mark never lowers it: the new head was on the census
\* before, or was just drawn at the watermark, or the census is empty.
LEMMA MarkRises ==
    ASSUME TypeOK, TypeOK', CensusOrdered, CensusOrdered',
           publishedStamp <= publishedStamp',
           \A l \in Held' : \/ l \in Held /\ snapshot'[l] = snapshot[l]
                            \/ snapshot'[l] = publishedStamp'
    PROVE  lowWaterMark <= lowWaterMark'
<1>1. lowWaterMark <= publishedStamp
  BY DEF CensusOrdered, RepublishedMark, TypeOK
<1>2. \A l \in Held : lowWaterMark <= snapshot[l]
  <2> SUFFICES ASSUME NEW l \in Held
               PROVE  lowWaterMark <= snapshot[l]
    OBVIOUS
  <2>1. PICK i \in DOMAIN census : census[i] = l
    BY DEF Held, Listed
  <2>2. census # <<>> /\ Head(census) = census[1] /\ 1 \in DOMAIN census
    BY DEF TypeOK
  <2>3. snapshot[census[1]] <= snapshot[census[i]]
    <3>1. i = 1 \/ 1 < i
      BY <2>1 DEF TypeOK
    <3>2. snapshot[census[i]] \in Nat
      BY <2>1 DEF TypeOK, Held
    <3>3. QED
      BY <2>2, <3>1, <3>2 DEF CensusOrdered
  <2>4. QED
    BY <2>1, <2>2, <2>3 DEF CensusOrdered, RepublishedMark
<1>3. CASE census' = <<>>
  BY <1>1, <1>3 DEF CensusOrdered, RepublishedMark, TypeOK
<1>4. CASE census' # <<>>
  <2> DEFINE head == Head(census')
  <2>1. head \in Held' /\ lowWaterMark' = snapshot'[head]
    BY <1>4 DEF CensusOrdered, RepublishedMark, TypeOK, Held, Listed
  <2> HIDE DEF head
  <2>2. CASE snapshot'[head] = publishedStamp'
    BY <2>1, <2>2, <1>1 DEF TypeOK
  <2>3. CASE head \in Held /\ snapshot'[head] = snapshot[head]
    BY <2>1, <2>3, <1>2
  <2>4. QED
    BY <2>1, <2>2, <2>3
<1>5. QED
  BY <1>3, <1>4

\* Taking a snapshot keeps the invariant and does not lower the mark.
LEMMA TakeSnapshotPreserves ==
    ASSUME IInv, NEW l \in Leases, TakeSnapshot(l)
    PROVE  IInv' /\ lowWaterMark <= lowWaterMark'
<1> USE DEF IInv
<1> DEFINE rest == IF Listed(census, l) THEN Unlink(census, l) ELSE census
<1>1. /\ rest \in Seq(Leases)
      /\ \A i \in DOMAIN rest : rest[i] # l /\ Listed(census, rest[i])
      /\ \A i, j \in DOMAIN rest : i < j =>
            rest[i] # rest[j] /\ snapshot[rest[i]] <= snapshot[rest[j]]
  <2>1. CASE Listed(census, l)
    <3>1. rest \in Seq(Leases)
      BY <2>1, UnlinkProperties DEF TypeOK
    <3>2. \A i \in DOMAIN rest : rest[i] # l /\ Listed(census, rest[i])
      <4>1. \A x : Listed(rest, x) <=> Listed(census, x) /\ x # l
        BY <2>1, UnlinkedNodes DEF CensusOrdered, TypeOK
      <4>2. \A i \in DOMAIN rest : Listed(rest, rest[i])
        BY DEF Listed
      <4>3. QED
        BY <4>1, <4>2
    <3>3. QED
      BY <2>1, <3>1, <3>2, UnlinkKeepsOrder DEF CensusOrdered, TypeOK
  <2>2. CASE ~Listed(census, l)
    BY <2>2 DEF CensusOrdered, TypeOK, Listed
  <2>3. QED
    BY <2>1, <2>2
<1>2. census' = Append(rest, l)
  BY DEF TakeSnapshot
<1> HIDE DEF rest
<1>3. /\ snapshot' = [snapshot EXCEPT ![l] = publishedStamp]
      /\ lowWaterMark' = RepublishedMark(census', snapshot', publishedStamp)
      /\ UNCHANGED <<commitVars, awaitVars, heldMark>>
  BY DEF TakeSnapshot
<1> USE DEF commitVars, awaitVars
<1>4. TypeOK'
  BY <1>1, <1>2, <1>3 DEF RepublishedMark, TypeOK
<1>5. CensusOrdered'
  <2>1. /\ DOMAIN census' = 1..(Len(rest) + 1) /\ DOMAIN rest = 1..Len(rest)
        /\ census'[Len(rest) + 1] = l /\ snapshot'[l] = publishedStamp
    BY <1>1, <1>2, <1>3 DEF TypeOK
  <2>2. \A i \in 1..Len(rest) :
          /\ census'[i] = rest[i] /\ rest[i] # l
          /\ snapshot'[rest[i]] = snapshot[rest[i]]
          /\ snapshot[rest[i]] <= publishedStamp
    BY <1>1, <1>2, <1>3 DEF TypeOK, CensusOrdered, Listed
  <2>3. ASSUME NEW i \in DOMAIN census', NEW j \in DOMAIN census', i < j
        PROVE  /\ census'[i] # census'[j]
               /\ snapshot'[census'[i]] <= snapshot'[census'[j]]
    <3>1. i \in 1..Len(rest)
      BY <2>1, <2>3, <1>1
    <3>2. j \in 1..Len(rest) \/ j = Len(rest) + 1
      BY <2>1, <1>1
    <3>3. QED
      BY <1>1, <2>1, <2>2, <2>3, <3>1, <3>2
  <2>4. \A i \in DOMAIN census' : snapshot'[census'[i]] <= publishedStamp'
    <3>1. ASSUME NEW i \in DOMAIN census'
          PROVE  i \in 1..Len(rest) \/ i = Len(rest) + 1
      BY <3>1, <2>1, <1>1
    <3>2. publishedStamp' = publishedStamp /\ publishedStamp \in Nat
      BY <1>3 DEF TypeOK
    <3>3. QED
      BY <2>1, <2>2, <3>1, <3>2
  <2>5. QED
    BY <1>3, <2>3, <2>4 DEF CensusOrdered
<1>6. InFlightOrdered'
  BY <1>3 DEF InFlightOrdered, Listed, Whole
<1>7. lowWaterMark <= lowWaterMark'
  <2>1. \A k \in Held' : \/ k \in Held /\ snapshot'[k] = snapshot[k]
                         \/ snapshot'[k] = publishedStamp'
    BY <1>1, <1>2, <1>3 DEF Held, Listed, TypeOK
  <2>2. publishedStamp <= publishedStamp'
    BY <1>3 DEF TypeOK
  <2>3. QED
    BY <1>4, <1>5, <2>1, <2>2, MarkRises
<1>8. MarksBehind'
  BY <1>3, <1>4, <1>7 DEF MarksBehind, TypeOK
<1>9. QED
  BY <1>4, <1>5, <1>6, <1>7, <1>8

\* Retiring a lease keeps the invariant and does not lower the mark.
LEMMA RetirePreserves ==
    ASSUME IInv, NEW l \in Leases, Retire(l)
    PROVE  IInv' /\ lowWaterMark <= lowWaterMark'
<1> USE DEF IInv, commitVars, awaitVars
<1>1. /\ Listed(census, l) /\ census' = Unlink(census, l)
      /\ lowWaterMark' = RepublishedMark(census', snapshot, publishedStamp)
      /\ UNCHANGED <<commitVars, awaitVars, snapshot, heldMark>>
  BY DEF Retire
<1>2. census' \in Seq(Leases)
  BY <1>1, UnlinkProperties DEF TypeOK
<1>3. \A x : Listed(census', x) <=> Listed(census, x) /\ x # l
  BY <1>1, UnlinkedNodes DEF CensusOrdered, TypeOK
<1>4. TypeOK'
  BY <1>1, <1>2 DEF TypeOK, RepublishedMark
<1>5. CensusOrdered'
  <2>1. \A i, j \in DOMAIN census' : i < j =>
           census'[i] # census'[j] /\ snapshot[census'[i]] <= snapshot[census'[j]]
    BY <1>1, UnlinkKeepsOrder DEF CensusOrdered, TypeOK
  <2>2. ASSUME NEW i \in DOMAIN census'
        PROVE  snapshot[census'[i]] <= publishedStamp
    <3>1. Listed(census, census'[i])
      BY <1>3, <2>2 DEF Listed
    <3>2. QED
      BY <3>1 DEF CensusOrdered, Listed
  <2>3. QED
    BY <1>1, <2>1, <2>2 DEF CensusOrdered
<1>6. InFlightOrdered'
  BY <1>1 DEF InFlightOrdered, Listed, Whole
<1>7. lowWaterMark <= lowWaterMark'
  <2>1. \A k \in Held' : k \in Held /\ snapshot'[k] = snapshot[k]
    BY <1>1, <1>3 DEF Held
  <2>2. QED
    BY <1>1, <1>4, <1>5, <2>1, MarkRises DEF TypeOK
<1>8. MarksBehind'
  BY <1>1, <1>4, <1>7 DEF MarksBehind, TypeOK
<1>9. QED
  BY <1>4, <1>5, <1>6, <1>7, <1>8

\* A moved lease answers from the same place at the same snapshot, which is why
\* the mark need not be republished.
LEMMA MoveLeasePreserves ==
    ASSUME IInv, NEW l \in Leases, NEW target \in Leases, MoveLease(l, target)
    PROVE  IInv' /\ lowWaterMark <= lowWaterMark'
<1> USE DEF IInv, commitVars, awaitVars
<1>1. /\ Listed(census, l) /\ ~Listed(census, target)
      /\ snapshot' = [snapshot EXCEPT ![target] = snapshot[l]]
      /\ UNCHANGED <<commitVars, awaitVars, lowWaterMark, heldMark>>
  BY DEF MoveLease
<1>2. PICK k \in DOMAIN census :
        census[k] = l /\ census' = [census EXCEPT ![k] = target]
  BY DEF MoveLease, Relink, Listed, Place
<1>3. /\ census' \in Seq(Leases) /\ DOMAIN census' = DOMAIN census
      /\ \A i \in DOMAIN census : census'[i] = IF i = k THEN target ELSE census[i]
  BY <1>2, ExceptSeq DEF TypeOK
<1>4. \A i \in DOMAIN census : snapshot'[census'[i]] = snapshot[census[i]]
  <2>1. \A i \in DOMAIN census : census[i] \in Leases /\ census[i] # target
    BY <1>1 DEF TypeOK, Listed
  <2>2. QED
    BY <1>1, <1>2, <1>3, <2>1 DEF TypeOK
<1>5. TypeOK'
  BY <1>1, <1>3 DEF TypeOK
<1>6. CensusOrdered'
  <2>1. \A i, j \in DOMAIN census : i < j => census'[i] # census'[j]
    BY <1>1, <1>2, <1>3 DEF CensusOrdered, Listed, TypeOK
  <2>2. RepublishedMark(census', snapshot', publishedStamp) =
        RepublishedMark(census, snapshot, publishedStamp)
    BY <1>3, <1>4 DEF RepublishedMark, TypeOK
  <2>3. QED
    BY <1>1, <1>3, <1>4, <2>1, <2>2 DEF CensusOrdered
<1>7. InFlightOrdered' /\ MarksBehind'
  BY <1>1 DEF InFlightOrdered, Listed, Whole, MarksBehind
<1>8. QED
  BY <1>1, <1>5, <1>6, <1>7 DEF TypeOK

\* Drawing a stamp keeps the invariant.
LEMMA BeginCommitPreserves ==
    ASSUME IInv, NEW c \in Committers, BeginCommit(c)
    PROVE  IInv'
<1> USE DEF IInv, censusVars
<1>1. /\ pc[c] = "idle" /\ commits' = commits + 1
      /\ stamp' = [stamp EXCEPT ![c] = commits + 1]
      /\ inFlight' = Append(inFlight, c)
      /\ pc' = [pc EXCEPT ![c] = "writing"]
      /\ UNCHANGED <<publishedStamp, lowWaterMark, censusVars, seen, heldMark>>
  BY DEF BeginCommit
<1>2. TypeOK'
  BY <1>1 DEF TypeOK, Phases
<1>3. /\ DOMAIN inFlight = 1..Len(inFlight) /\ DOMAIN inFlight' = 1..(Len(inFlight) + 1)
      /\ inFlight'[Len(inFlight) + 1] = c /\ stamp'[c] = commits + 1
      /\ Len(inFlight) \in Nat
  BY <1>1 DEF TypeOK
<1>4. \A i \in 1..Len(inFlight) :
        /\ inFlight'[i] = inFlight[i] /\ inFlight[i] # c
        /\ stamp'[inFlight[i]] = stamp[inFlight[i]]
        /\ stamp[inFlight[i]] \in 1..commits
  <2>1. ~Listed(inFlight, c)
    BY <1>1 DEF InFlightOrdered
  <2>2. \A i \in 1..Len(inFlight) :
          /\ inFlight'[i] = inFlight[i] /\ inFlight[i] \in Committers
          /\ inFlight[i] # c
    BY <1>1, <1>3, <2>1 DEF TypeOK, Listed
  <2>3. \A i \in 1..Len(inFlight) : stamp'[inFlight[i]] = stamp[inFlight[i]]
    BY <1>1, <2>2 DEF TypeOK
  <2>4. QED
    BY <1>3, <2>2, <2>3 DEF InFlightOrdered
<1>5. \A i \in DOMAIN inFlight' : i \in 1..Len(inFlight) \/ i = Len(inFlight) + 1
  BY <1>3
<1>6. InFlightOrdered'
  <2>1. ASSUME NEW i \in DOMAIN inFlight', NEW j \in DOMAIN inFlight', i < j
        PROVE  stamp'[inFlight'[i]] < stamp'[inFlight'[j]]
    <3>1. i \in 1..Len(inFlight)
      BY <1>3, <2>1
    <3>2. CASE j \in 1..Len(inFlight)
      BY <3>1, <3>2, <1>3, <1>4, <2>1 DEF InFlightOrdered
    <3>3. CASE j = Len(inFlight) + 1
      BY <3>1, <3>3, <1>3, <1>4 DEF TypeOK
    <3>4. QED
      BY <1>5, <3>2, <3>3
  <2>2. ASSUME NEW d \in Committers
        PROVE  Listed(inFlight', d) <=> pc'[d] = "writing"
    <3>1. Listed(inFlight', d) <=> Listed(inFlight, d) \/ d = c
      BY <1>3, <1>4, <1>5 DEF Listed
    <3>2. QED
      BY <3>1, <1>1 DEF InFlightOrdered, TypeOK
  <2>3. \A i \in DOMAIN inFlight' : stamp'[inFlight'[i]] \in 1..commits'
    BY <1>1, <1>3, <1>4, <1>5 DEF TypeOK
  <2>4. publishedStamp' = Whole(inFlight', stamp', commits')
    <3>1. CASE inFlight = <<>>
      BY <3>1, <1>1, <1>3 DEF InFlightOrdered, Whole, TypeOK
    <3>2. CASE inFlight # <<>>
      <4>1. Head(inFlight') = inFlight[1] /\ Head(inFlight) = inFlight[1] /\ 1 \in 1..Len(inFlight)
        BY <3>2, <1>1, <1>3, <1>4 DEF TypeOK
      <4>2. inFlight' # <<>>
        BY <1>3
      <4>3. Whole(inFlight', stamp', commits') = stamp'[inFlight[1]] - 1
        BY <4>1, <4>2 DEF Whole
      <4>4. Whole(inFlight, stamp, commits) = stamp[inFlight[1]] - 1
        BY <3>2, <4>1 DEF Whole
      <4>5. QED
        BY <4>1, <4>3, <4>4, <1>1, <1>4 DEF InFlightOrdered
    <3>3. QED
      BY <3>1, <3>2
  <2>5. QED
    BY <2>1, <2>2, <2>3, <2>4 DEF InFlightOrdered
<1>7. CensusOrdered' /\ MarksBehind'
  BY <1>1 DEF CensusOrdered, RepublishedMark, MarksBehind
<1>8. QED
  BY <1>2, <1>6, <1>7

\* Landing a commit moves the watermark up to the next one still in flight, or
\* to everything drawn; being ordered, the list can only answer higher.
LEMMA EndCommitPreserves ==
    ASSUME IInv, NEW c \in Committers, EndCommit(c)
    PROVE  /\ IInv'
           /\ publishedStamp <= publishedStamp'
           /\ lowWaterMark <= lowWaterMark'
<1> USE DEF IInv, censusVars
<1>1. /\ pc[c] = "writing" /\ inFlight' = Unlink(inFlight, c)
      /\ publishedStamp' = Whole(inFlight', stamp, commits)
      /\ lowWaterMark' = RepublishedMark(census, snapshot, publishedStamp')
      /\ UNCHANGED <<commits, stamp, censusVars, seen, heldMark>>
  BY DEF EndCommit
<1>2. /\ pc' \in [Committers -> Phases]
      /\ \A d \in Committers : pc'[d] = "writing" <=> pc[d] = "writing" /\ d # c
  BY DEF EndCommit, Woken, TypeOK, Phases
<1>3. Listed(inFlight, c)
  BY <1>1 DEF InFlightOrdered
<1>4. inFlight' \in Seq(Committers)
  BY <1>1, <1>3, UnlinkProperties DEF TypeOK
<1>5. \A x : Listed(inFlight', x) <=> Listed(inFlight, x) /\ x # c
  BY <1>1, <1>3, UnlinkedNodes, InFlightDistinct DEF TypeOK
<1>6. \A i \in DOMAIN inFlight' : \E m \in DOMAIN inFlight : inFlight'[i] = inFlight[m]
  <2>1. \A i \in DOMAIN inFlight' : Listed(inFlight', inFlight'[i])
    BY DEF Listed
  <2>2. QED
    BY <2>1, <1>5 DEF Listed
<1>7. /\ publishedStamp' \in Nat /\ publishedStamp <= publishedStamp'
      /\ publishedStamp' <= commits
  <2>1. 0 <= publishedStamp /\ publishedStamp <= commits
        /\ \A m \in DOMAIN inFlight : publishedStamp < stamp[inFlight[m]]
    <3>1. CASE inFlight = <<>>
      BY <3>1 DEF InFlightOrdered, Whole, TypeOK
    <3>2. CASE inFlight # <<>>
      <4>1. /\ Head(inFlight) = inFlight[1] /\ 1 \in DOMAIN inFlight
            /\ \A m \in DOMAIN inFlight : m = 1 \/ 1 < m
        BY <3>2 DEF TypeOK
      <4>2. publishedStamp = stamp[inFlight[1]] - 1
        BY <3>2, <4>1 DEF InFlightOrdered, Whole
      <4>3. \A m \in DOMAIN inFlight : stamp[inFlight[m]] \in 1..commits
        BY DEF InFlightOrdered
      <4>4. \A m \in DOMAIN inFlight : m # 1 => stamp[inFlight[1]] < stamp[inFlight[m]]
        BY <4>1 DEF InFlightOrdered
      <4>5. 0 <= publishedStamp /\ publishedStamp <= commits
        BY <4>1, <4>2, <4>3 DEF TypeOK
      <4>6. ASSUME NEW m \in DOMAIN inFlight
            PROVE  publishedStamp < stamp[inFlight[m]]
        BY <4>1, <4>2, <4>3, <4>4
      <4>7. QED
        BY <4>5, <4>6
    <3>3. QED
      BY <3>1, <3>2
  <2>2. CASE inFlight' = <<>>
    BY <2>1, <2>2, <1>1 DEF Whole, TypeOK
  <2>3. CASE inFlight' # <<>>
    <3>1. 1 \in DOMAIN inFlight' /\ Head(inFlight') = inFlight'[1]
      BY <2>3, <1>4
    <3>2. PICK m \in DOMAIN inFlight : inFlight'[1] = inFlight[m]
      BY <3>1, <1>6
    <3>3. publishedStamp' = stamp[inFlight[m]] - 1
      BY <2>3, <3>1, <3>2, <1>1 DEF Whole
    <3>4. stamp[inFlight[m]] \in 1..commits
      BY DEF InFlightOrdered
    <3>5. QED
      BY <3>3, <3>4, <2>1 DEF TypeOK
  <2>4. QED
    BY <2>2, <2>3
<1>8. TypeOK'
  BY <1>1, <1>2, <1>4, <1>7 DEF TypeOK, RepublishedMark
<1>9. InFlightOrdered'
  <2>1. \A i, j \in DOMAIN inFlight' :
           i < j => stamp[inFlight'[i]] < stamp[inFlight'[j]]
    BY <1>1, <1>3, UnlinkKeepsOrder DEF InFlightOrdered, TypeOK
  <2>2. \A d \in Committers : Listed(inFlight', d) <=> pc'[d] = "writing"
    BY <1>2, <1>5 DEF InFlightOrdered
  <2>3. \A i \in DOMAIN inFlight' : stamp[inFlight'[i]] \in 1..commits
    BY <1>6 DEF InFlightOrdered
  <2>4. QED
    BY <1>1, <2>1, <2>2, <2>3 DEF InFlightOrdered
<1>10. CensusOrdered'
  BY <1>1, <1>7, <1>8 DEF CensusOrdered, TypeOK
<1>11. lowWaterMark <= lowWaterMark'
  <2>1. \A k \in Held' : k \in Held /\ snapshot'[k] = snapshot[k]
    BY <1>1 DEF Held
  <2>2. QED
    BY <1>7, <1>8, <1>10, <2>1, MarkRises
<1>12. MarksBehind'
  BY <1>1, <1>8, <1>11 DEF MarksBehind, TypeOK
<1>13. QED
  BY <1>7, <1>8, <1>9, <1>10, <1>11, <1>12

----------------------------------------------------------------------------
(* The theorems.                                                           *)

\* No step of the specification leaves the invariant, and none lowers the
\* watermark or the mark.
LEMMA StepPreserves ==
    ASSUME IInv, [Next]_vars
    PROVE  /\ IInv'
           /\ publishedStamp <= publishedStamp'
           /\ lowWaterMark <= lowWaterMark'
<1> USE DEF commitVars, censusVars, awaitVars
<1>1. publishedStamp <= publishedStamp /\ lowWaterMark <= lowWaterMark
  BY DEF IInv, TypeOK
<1>2. ASSUME NEW l \in Leases, TakeSnapshot(l)
      PROVE  /\ IInv' /\ publishedStamp <= publishedStamp'
             /\ lowWaterMark <= lowWaterMark'
  BY <1>1, <1>2, TakeSnapshotPreserves DEF TakeSnapshot
<1>3. ASSUME NEW l \in Leases, Retire(l)
      PROVE  /\ IInv' /\ publishedStamp <= publishedStamp'
             /\ lowWaterMark <= lowWaterMark'
  BY <1>1, <1>3, RetirePreserves DEF Retire
<1>4. ASSUME NEW l \in Leases, NEW target \in Leases, MoveLease(l, target)
      PROVE  /\ IInv' /\ publishedStamp <= publishedStamp'
             /\ lowWaterMark <= lowWaterMark'
  BY <1>1, <1>4, MoveLeasePreserves DEF MoveLease
<1>5. ASSUME NEW c \in Committers, BeginCommit(c)
      PROVE  /\ IInv' /\ publishedStamp <= publishedStamp'
             /\ lowWaterMark <= lowWaterMark'
  BY <1>1, <1>5, BeginCommitPreserves DEF BeginCommit
<1>6. ASSUME NEW c \in Committers, EndCommit(c)
      PROVE  /\ IInv' /\ publishedStamp <= publishedStamp'
             /\ lowWaterMark <= lowWaterMark'
  BY <1>6, EndCommitPreserves
<1>7. ASSUME NEW c \in Committers, Await(c) \/ Poll(c) \/ Park(c)
      PROVE  /\ IInv' /\ publishedStamp <= publishedStamp'
             /\ lowWaterMark <= lowWaterMark'
  <2>1. /\ UNCHANGED <<commitVars, censusVars, lowWaterMark, heldMark>>
        /\ pc' \in [Committers -> Phases] /\ seen' \in [Committers -> Nat]
        /\ \A d \in Committers : pc'[d] = "writing" <=> pc[d] = "writing"
    BY <1>7 DEF Await, Poll, Park, IInv, TypeOK, Phases
  <2>2. QED
    BY <1>1, <2>1 DEF IInv, TypeOK, InFlightOrdered, CensusOrdered, MarksBehind
<1>8. ASSUME NEW p \in Pruners, LoadMark(p)
      PROVE  /\ IInv' /\ publishedStamp <= publishedStamp'
             /\ lowWaterMark <= lowWaterMark'
  BY <1>1, <1>8 DEF LoadMark, IInv, TypeOK, InFlightOrdered, CensusOrdered, MarksBehind
<1>9. CASE UNCHANGED vars
  BY <1>1, <1>9 DEF vars, IInv, TypeOK, InFlightOrdered, CensusOrdered, MarksBehind
<1>10. QED
  BY <1>2, <1>3, <1>4, <1>5, <1>6, <1>7, <1>8, <1>9 DEF Next

\* The lists are ordered and the two numbers are read off their heads, in every
\* reachable state.
THEOREM Invariance == Spec => []IInv
<1>1. Init => IInv
  BY InitEstablishes
<1>2. IInv /\ [Next]_vars => IInv'
  BY StepPreserves
<1>3. QED
  BY <1>1, <1>2, PTL DEF Spec

\* Every variable keeps its type; the watermark in particular never underflows,
\* though end_commit computes it by subtracting one.
THEOREM TypeCorrect == Spec => []TypeOK
  BY Invariance, PTL DEF IInv

\* A snapshot never names a commit that is still being written, and a commit
\* is whole as soon as every commit before it is.
THEOREM WatermarkWhole == Spec => []WatermarkIsWhole
<1>1. IInv => WatermarkIsWhole
  <2> SUFFICES ASSUME IInv
               PROVE  WatermarkIsWhole
    OBVIOUS
  <2> USE DEF IInv
  <2>1. \A c \in Landing : \E m \in DOMAIN inFlight : inFlight[m] = c
    BY DEF Landing, InFlightOrdered, Listed
  <2>2. CASE inFlight = <<>>
    BY <2>1, <2>2 DEF WatermarkIsWhole, InFlightOrdered, Whole, TypeOK
  <2>3. CASE inFlight # <<>>
    <3>1. /\ Head(inFlight) = inFlight[1] /\ 1 \in DOMAIN inFlight
          /\ inFlight[1] \in Committers
          /\ \A m \in DOMAIN inFlight : m = 1 \/ 1 < m
      BY <2>3 DEF TypeOK
    <3>2. publishedStamp = stamp[inFlight[1]] - 1
      BY <2>3, <3>1 DEF InFlightOrdered, Whole
    <3>3. \A m \in DOMAIN inFlight : stamp[inFlight[m]] \in 1..commits
      BY DEF InFlightOrdered
    <3>4. \A m \in DOMAIN inFlight : m # 1 => stamp[inFlight[1]] < stamp[inFlight[m]]
      BY <3>1 DEF InFlightOrdered
    <3>5. ASSUME NEW m \in DOMAIN inFlight
          PROVE  publishedStamp < stamp[inFlight[m]]
      BY <3>1, <3>2, <3>3, <3>4
    <3>6. inFlight[1] \in Landing /\ stamp[inFlight[1]] = publishedStamp + 1
      BY <3>1, <3>2, <3>3 DEF Landing, InFlightOrdered, Listed, TypeOK
    <3>7. publishedStamp <= commits
      BY <3>1, <3>2, <3>3 DEF TypeOK
    <3>8. QED
      BY <2>1, <3>5, <3>6, <3>7 DEF WatermarkIsWhole
  <2>4. QED
    BY <2>2, <2>3
<1>2. QED
  BY <1>1, Invariance, PTL

\* Reclamation prunes to the oldest open snapshot exactly.
THEOREM MarkExact == Spec => []MarkIsExact
<1>1. IInv => MarkIsExact
  <2> SUFFICES ASSUME IInv
               PROVE  MarkIsExact
    OBVIOUS
  <2> USE DEF IInv
  <2>1. \A l \in Held : \E m \in DOMAIN census : census[m] = l
    BY DEF Held, Listed
  <2>2. CASE census = <<>>
    BY <2>1, <2>2 DEF MarkIsExact, CensusOrdered, RepublishedMark, TypeOK
  <2>3. CASE census # <<>>
    <3>1. /\ Head(census) = census[1] /\ 1 \in DOMAIN census
          /\ census[1] \in Leases
          /\ \A m \in DOMAIN census : census[m] \in Leases /\ (m = 1 \/ 1 < m)
      BY <2>3 DEF TypeOK
    <3>2. lowWaterMark = snapshot[census[1]]
      BY <2>3, <3>1 DEF CensusOrdered, RepublishedMark
    <3>3. ASSUME NEW m \in DOMAIN census
          PROVE  lowWaterMark <= snapshot[census[m]]
      <4>1. m # 1 => snapshot[census[1]] <= snapshot[census[m]]
        BY <3>1 DEF CensusOrdered
      <4>2. snapshot[census[m]] \in Nat
        BY <3>1 DEF TypeOK
      <4>3. QED
        BY <3>2, <4>1, <4>2
    <3>4. census[1] \in Held /\ lowWaterMark <= publishedStamp
      BY <3>1, <3>2 DEF Held, Listed, CensusOrdered
    <3>5. QED
      BY <2>1, <3>2, <3>3, <3>4 DEF MarkIsExact
  <2>4. QED
    BY <2>2, <2>3
<1>2. QED
  BY <1>1, Invariance, PTL

\* A mark loaded without the lock may be pruned to at any later time.
THEOREM StaleMarkSafe == Spec => []StaleMarkIsSafe
<1>1. IInv /\ MarkIsExact => StaleMarkIsSafe
  BY DEF IInv, TypeOK, MarkIsExact, MarksBehind, StaleMarkIsSafe, Held
<1>2. QED
  BY <1>1, Invariance, MarkExact, PTL

\* The watermark and the mark only ever rise.
THEOREM OnlyRise == Spec => NeverFalls
<1>1. IInv /\ [Next]_vars =>
        [/\ publishedStamp <= publishedStamp'
         /\ lowWaterMark <= lowWaterMark']_<<publishedStamp, lowWaterMark>>
  BY StepPreserves
<1>2. QED
  BY <1>1, Invariance, PTL DEF Spec, NeverFalls

----------------------------------------------------------------------------
(* The refinement.                                                         *)

OpenLeases == [l \in Held |-> snapshot[l]]
WritingStamps == {stamp[c] : c \in Landing}

\* Commits in flight never share a stamp.
LEMMA LandingStampsDiffer ==
    ASSUME IInv, NEW c \in Landing, NEW d \in Landing, stamp[c] = stamp[d]
    PROVE  c = d
<1>1. PICK m \in DOMAIN inFlight, n \in DOMAIN inFlight :
        inFlight[m] = c /\ inFlight[n] = d
  BY DEF IInv, InFlightOrdered, Landing, Listed
<1>2. m < n \/ n < m \/ m = n
  BY DEF IInv, TypeOK
<1>3. stamp[c] \in Nat
  BY DEF IInv, TypeOK, Landing
<1>4. QED
  BY <1>1, <1>2, <1>3 DEF IInv, InFlightOrdered

\* Taking a snapshot opens a lease of the abstract clock.
LEMMA OpenStep ==
    ASSUME IInv, IInv', MarkIsExact', NEW l \in Leases, TakeSnapshot(l)
    PROVE  Abstract!Open(l)
<1>1. /\ snapshot' = [snapshot EXCEPT ![l] = publishedStamp]
      /\ UNCHANGED commitVars
      /\ census' = Append(IF Listed(census, l) THEN Unlink(census, l) ELSE census, l)
  BY DEF TakeSnapshot
<1>2. Held' = Held \cup {l}
  <2>1. CASE Listed(census, l)
    <3>1. \A x : Listed(Unlink(census, l), x) <=> Listed(census, x) /\ x # l
      BY <2>1, UnlinkedNodes DEF IInv, TypeOK, CensusOrdered
    <3>2. Unlink(census, l) \in Seq(Leases)
      BY <2>1, UnlinkProperties DEF IInv, TypeOK
    <3>3. \A x : Listed(census', x) <=> Listed(Unlink(census, l), x) \/ x = l
      BY <1>1, <2>1, <3>2, AppendedNodes
    <3>4. QED
      BY <2>1, <3>1, <3>3 DEF Held
  <2>2. CASE ~Listed(census, l)
    BY <1>1, <2>2, AppendedNodes DEF Held, IInv, TypeOK
  <2>3. QED
    BY <2>1, <2>2
<1> DEFINE wanted == [k \in DOMAIN OpenLeases \cup {l} |->
                         IF k = l THEN publishedStamp ELSE OpenLeases[k]]
<1>3. OpenLeases' = wanted
  BY <1>1, <1>2 DEF OpenLeases, Held, IInv, TypeOK
<1> HIDE DEF wanted
<1>4. Abstract!IsMark(lowWaterMark', wanted, publishedStamp)
  <2>1. Abstract!IsMark(lowWaterMark', OpenLeases', publishedStamp)
    BY <1>1 DEF Abstract!IsMark, OpenLeases, MarkIsExact, commitVars
  <2>2. QED
    BY <2>1, <1>3
<1>5. UNCHANGED <<commits, WritingStamps, publishedStamp>>
  BY DEF TakeSnapshot, commitVars, awaitVars, WritingStamps, Landing
<1>6. Abstract!Reopen(wanted)
  BY <1>3, <1>4, <1>5 DEF Abstract!Reopen, OpenLeases, WritingStamps
<1>7. QED
  BY <1>6 DEF Abstract!Open, OpenLeases, wanted

\* Retiring closes a lease of the abstract clock.
LEMMA CloseStep ==
    ASSUME IInv, IInv', MarkIsExact', NEW l \in Leases, Retire(l)
    PROVE  Abstract!Close(l)
<1>1. /\ Listed(census, l) /\ census' = Unlink(census, l)
      /\ UNCHANGED <<commitVars, awaitVars, snapshot>>
  BY DEF Retire
<1>2. Held' = Held \ {l} /\ l \in Held
  <2>1. \A x : Listed(census', x) <=> Listed(census, x) /\ x # l
    BY <1>1, UnlinkedNodes DEF IInv, TypeOK, CensusOrdered
  <2>2. QED
    BY <1>1, <2>1 DEF Held
<1> DEFINE wanted == [k \in DOMAIN OpenLeases \ {l} |-> OpenLeases[k]]
<1>3. OpenLeases' = wanted
  BY <1>1, <1>2 DEF OpenLeases, Held
<1> HIDE DEF wanted
<1>4. Abstract!IsMark(lowWaterMark', wanted, publishedStamp)
  <2>1. Abstract!IsMark(lowWaterMark', OpenLeases', publishedStamp)
    BY <1>1 DEF Abstract!IsMark, OpenLeases, MarkIsExact, commitVars
  <2>2. QED
    BY <2>1, <1>3
<1>5. UNCHANGED <<commits, WritingStamps, publishedStamp>>
  BY <1>1 DEF commitVars, awaitVars, WritingStamps, Landing
<1>6. Abstract!Reopen(wanted)
  BY <1>3, <1>4, <1>5 DEF Abstract!Reopen, OpenLeases, WritingStamps
<1>7. QED
  BY <1>2, <1>6 DEF Abstract!Close, OpenLeases, wanted

\* Moving a lease moves it in the abstract clock.
LEMMA MoveStep ==
    ASSUME IInv, IInv', MarkIsExact',
           NEW l \in Leases, NEW target \in Leases, MoveLease(l, target)
    PROVE  Abstract!Move(l, target)
<1>1. /\ Listed(census, l) /\ ~Listed(census, target)
      /\ snapshot' = [snapshot EXCEPT ![target] = snapshot[l]]
      /\ UNCHANGED <<commitVars, awaitVars>>
  BY DEF MoveLease
<1>2. Held' = (Held \ {l}) \cup {target} /\ l \in Held /\ target \notin Held
  <2>1. PICK k \in DOMAIN census :
          census[k] = l /\ census' = [census EXCEPT ![k] = target]
    BY DEF MoveLease, Relink, Listed, Place
  <2>2. /\ DOMAIN census' = DOMAIN census
        /\ \A i \in DOMAIN census : census'[i] = IF i = k THEN target ELSE census[i]
    BY <2>1, ExceptSeq DEF IInv, TypeOK
  <2>3. \A i \in DOMAIN census : census[i] = l => i = k
    BY <2>1 DEF IInv, CensusOrdered, TypeOK
  <2>4. \A x : Listed(census', x) <=> (Listed(census, x) /\ x # l) \/ x = target
    BY <1>1, <2>1, <2>2, <2>3 DEF Listed
  <2>5. QED
    BY <1>1, <2>4 DEF Held
<1> DEFINE wanted == [k \in (DOMAIN OpenLeases \ {l}) \cup {target} |->
                         IF k = target THEN OpenLeases[l] ELSE OpenLeases[k]]
<1>3. OpenLeases' = wanted
  BY <1>1, <1>2 DEF OpenLeases, Held, IInv, TypeOK
<1> HIDE DEF wanted
<1>4. Abstract!IsMark(lowWaterMark', wanted, publishedStamp)
  <2>1. Abstract!IsMark(lowWaterMark', OpenLeases', publishedStamp)
    BY <1>1 DEF Abstract!IsMark, OpenLeases, MarkIsExact, commitVars
  <2>2. QED
    BY <2>1, <1>3
<1>5. UNCHANGED <<commits, WritingStamps, publishedStamp>>
  BY <1>1 DEF commitVars, awaitVars, WritingStamps, Landing
<1>6. Abstract!Reopen(wanted)
  BY <1>3, <1>4, <1>5 DEF Abstract!Reopen, OpenLeases, WritingStamps
<1>7. QED
  BY <1>2, <1>6 DEF Abstract!Move, OpenLeases, wanted

\* begin_commit draws a stamp of the abstract clock.
LEMMA DrawStep ==
    ASSUME IInv, NEW c \in Committers, BeginCommit(c)
    PROVE  Abstract!Draw
<1>1. /\ pc[c] = "idle" /\ commits' = commits + 1
      /\ stamp' = [stamp EXCEPT ![c] = commits']
      /\ pc' = [pc EXCEPT ![c] = "writing"]
      /\ UNCHANGED <<publishedStamp, lowWaterMark, censusVars>>
  BY DEF BeginCommit
<1>2. Landing' = Landing \cup {c} /\ c \notin Landing
  BY <1>1 DEF Landing, IInv, TypeOK
<1>3. stamp'[c] = commits' /\ \A d \in Landing : stamp'[d] = stamp[d]
  BY <1>1, <1>2 DEF Landing, IInv, TypeOK
<1>4. WritingStamps' = WritingStamps \cup {commits'}
  BY <1>2, <1>3 DEF WritingStamps
<1>5. OpenLeases' = OpenLeases
  BY <1>1 DEF OpenLeases, Held, censusVars
<1>6. QED
  BY <1>1, <1>4, <1>5 DEF Abstract!Draw, OpenLeases, WritingStamps

\* end_commit lands a stamp of the abstract clock.
LEMMA LandStep ==
    ASSUME IInv, IInv', MarkIsExact', WatermarkIsWhole',
           NEW c \in Committers, EndCommit(c), NEW s, s = stamp[c]
    PROVE  s \in WritingStamps /\ Abstract!Land(s)
<1>1. /\ pc[c] = "writing" /\ UNCHANGED <<commits, stamp, censusVars>>
  BY DEF EndCommit
<1>2. Landing' = Landing \ {c} /\ c \in Landing
  BY <1>1 DEF EndCommit, Woken, Landing, IInv, TypeOK
<1>3. WritingStamps' = WritingStamps \ {s} /\ s \in WritingStamps
  BY <1>1, <1>2, LandingStampsDiffer DEF WritingStamps
<1>4. OpenLeases' = OpenLeases
  BY <1>1 DEF OpenLeases, Held, censusVars
<1>5. Abstract!IsWatermark(publishedStamp', WritingStamps', commits)
  <2>1. /\ publishedStamp' \in Nat /\ commits' = commits /\ commits \in Nat
        /\ publishedStamp' <= commits
        /\ \A d \in Landing' : publishedStamp' < stamp'[d]
        /\ publishedStamp' < commits => \E d \in Landing' : stamp'[d] = publishedStamp' + 1
    BY <1>1 DEF WatermarkIsWhole, IInv, TypeOK
  <2>2. publishedStamp' \in 0..commits
    BY <2>1
  <2>3. \A r \in WritingStamps' : publishedStamp' < r
    BY <2>1 DEF WritingStamps
  <2>4. publishedStamp' = commits \/ publishedStamp' + 1 \in WritingStamps'
    BY <2>1 DEF WritingStamps
  <2>5. QED
    BY <2>2, <2>3, <2>4 DEF Abstract!IsWatermark
<1>6. Abstract!IsMark(lowWaterMark', OpenLeases, publishedStamp')
  BY <1>1, <1>4 DEF Abstract!IsMark, OpenLeases, MarkIsExact, Held, censusVars
<1>7. QED
  BY <1>1, <1>3, <1>4, <1>5, <1>6 DEF Abstract!Land, OpenLeases, WritingStamps

\* The clock implements AbstractClock: whatever the order in which commits land
\* and readers leave, its watermark and mark are the two minima.
THEOREM Refinement == Spec => ImplementsAbstractClock
<1>1. Init => Abstract!Init
  <2> SUFFICES ASSUME Init
               PROVE  Abstract!Init
    OBVIOUS
  <2>1. Held = {} /\ Landing = {}
    BY DEF Init, Held, Landing, Listed
  <2>2. [l \in Held |-> snapshot[l]] = [l \in {} |-> 0]
    BY <2>1
  <2>3. {stamp[c] : c \in Landing} = {}
    BY <2>1
  <2>4. QED
    BY <2>2, <2>3 DEF Init, Abstract!Init
<1>2. /\ IInv /\ IInv' /\ MarkIsExact' /\ WatermarkIsWhole' /\ [Next]_vars
      => [Abstract!Next]_Abstract!vars
  <2> SUFFICES ASSUME IInv, IInv', MarkIsExact', WatermarkIsWhole', [Next]_vars
               PROVE  [Abstract!Next]_Abstract!vars
    OBVIOUS
  <2> USE DEF commitVars, censusVars, awaitVars
  <2>1. ASSUME NEW l \in Leases, TakeSnapshot(l)
        PROVE  Abstract!Next
    BY <2>1, OpenStep DEF Abstract!Next
  <2>2. ASSUME NEW l \in Leases, Retire(l)
        PROVE  Abstract!Next
    BY <2>2, CloseStep DEF Abstract!Next
  <2>3. ASSUME NEW l \in Leases, NEW target \in Leases, MoveLease(l, target)
        PROVE  Abstract!Next
    BY <2>3, MoveStep DEF Abstract!Next
  <2>4. ASSUME NEW c \in Committers, BeginCommit(c)
        PROVE  Abstract!Next
    BY <2>4, DrawStep DEF Abstract!Next
  <2>5. ASSUME NEW c \in Committers, EndCommit(c)
        PROVE  Abstract!Next
    <3>1. PICK s : s = stamp[c]
      OBVIOUS
    <3>2. s \in WritingStamps /\ Abstract!Land(s)
      BY <2>5, <3>1, LandStep
    <3>3. QED
      BY <3>2 DEF Abstract!Next, WritingStamps
  <2>6. ASSUME UNCHANGED <<commitVars, censusVars, lowWaterMark>>, Landing' = Landing
        PROVE  UNCHANGED Abstract!vars
    BY <2>6 DEF Abstract!vars, Held
  <2>7. ASSUME NEW c \in Committers, Await(c) \/ Poll(c) \/ Park(c)
        PROVE  UNCHANGED Abstract!vars
    BY <2>6, <2>7 DEF Await, Poll, Park, Landing, IInv, TypeOK
  <2>8. ASSUME NEW p \in Pruners, LoadMark(p)
        PROVE  UNCHANGED Abstract!vars
    BY <2>6, <2>8 DEF LoadMark, Landing
  <2>9. CASE UNCHANGED vars
    BY <2>6, <2>9 DEF vars, Landing
  <2>10. QED
    BY <2>1, <2>2, <2>3, <2>4, <2>5, <2>7, <2>8, <2>9 DEF Next
<1>3. QED
  BY <1>1, <1>2, Invariance, MarkExact, WatermarkWhole, PTL
     DEF Spec, ImplementsAbstractClock, Abstract!Spec

=============================================================================
