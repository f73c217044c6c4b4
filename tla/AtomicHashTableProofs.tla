----------------------- MODULE AtomicHashTableProofs -----------------------
(***************************************************************************)
(* What AtomicHashTable keeps true, for every number of threads, slots,    *)
(* keys and calls, and every hash.                                         *)
(***************************************************************************)
EXTENDS AtomicHashTable, FiniteSetTheorems, TLAPS

----------------------------------------------------------------------------
(* The circle.                                                             *)

\* A number is the multiple of a divisor and the remainder that % leaves of it.
LEMMA Division ==
    ASSUME NEW n \in Nat \ {0}, NEW a \in Int
    PROVE  a % n \in 0 .. n - 1 /\ a \div n \in Int /\ a = n * (a \div n) + (a % n)
OBVIOUS

\* A number has one remainder.
LEMMA OneRemainder ==
    ASSUME NEW n \in Nat \ {0}, NEW q \in Int, NEW r \in 0 .. n - 1
    PROVE  (q * n + r) % n = r
<1> DEFINE a == q * n + r
           p == a \div n
<1>1. a \in Int
  OBVIOUS
<1>0. a % n \in 0 .. n - 1 /\ p \in Int /\ a = n * p + (a % n)
  BY <1>1, Division
<1>2. n * q + r = n * p + (a % n)
  BY <1>0, <1>1
<1>3. CASE p = q
  BY <1>0, <1>1, <1>2, <1>3
<1>4. CASE p > q
  <2>1. p >= q + 1 /\ n * p >= n * (q + 1)
    BY <1>0, <1>1, <1>4
  <2>2. n * (q + 1) = n * q + n
    BY <1>0, <1>1
  <2>3. QED
    BY <1>0, <1>1, <1>2, <2>1, <2>2
<1>5. CASE p < q
  <2>1. q >= p + 1 /\ n * q >= n * (p + 1)
    BY <1>0, <1>1, <1>5
  <2>2. n * (p + 1) = n * p + n
    BY <1>0, <1>1
  <2>3. QED
    BY <1>0, <1>1, <1>2, <2>1, <2>2
<1>6. QED
  BY <1>0, <1>1, <1>3, <1>4, <1>5

\* A number of one turn of a circle is its own remainder, and a turn more or less changes nothing.
LEMMA Turns ==
    ASSUME NEW n \in Nat \ {0}, NEW r \in 0 .. n - 1
    PROVE  r % n = r /\ (r + n) % n = r /\ (r - n) % n = r
<1>1. (0 * n + r) % n = r /\ (1 * n + r) % n = r /\ (-1 * n + r) % n = r
  BY OneRemainder
<1>2. 0 * n + r = r /\ 1 * n + r = r + n /\ -1 * n + r = r - n
  OBVIOUS
<1>3. QED
  BY <1>1, <1>2

\* A remainder may be taken before a step as well as after it.
LEMMA OneOn ==
    ASSUME NEW n \in Nat \ {0}, NEW a \in Int, NEW d \in Int
    PROVE  ((a % n) + d) % n = (a + d) % n
<1> DEFINE p == a \div n
           s == ((a % n) + d) \div n
           r == ((a % n) + d) % n
<1>1. p \in Int /\ a = n * p + (a % n) /\ a % n \in Int
  BY Division
<1>2. s \in Int /\ r \in 0 .. n - 1 /\ (a % n) + d = n * s + r
  BY <1>1, Division
<1>3. a + d = (p + s) * n + r
  <2>1. (p + s) * n = n * p + n * s
    BY <1>1, <1>2
  <2>2. QED
    BY <1>1, <1>2, <2>1
<1> HIDE DEF p, s, r
<1>4. ((p + s) * n + r) % n = r
  <2>1. p + s \in Int
    BY <1>1, <1>2
  <2>2. QED
    BY <1>2, <2>1, OneRemainder
<1>5. QED
  BY <1>3, <1>4 DEF r

\* The slots are the numbers below their count, and there is one at least.
LEMMA Slots0 == SlotsCount \in Nat \ {0} /\ Slots = 0 .. SlotsCount - 1 /\ NoKey = 0
BY AtomicAssumption DEF Slots, Circle, NoKey

\* How far a slot is from where the probe for a key starts.
LEMMA DistanceIs ==
    ASSUME NEW k \in Keys, NEW s \in Slots
    PROVE  /\ Initial(k, SlotsCount) \in Slots
           /\ Distance(k, s, SlotsCount) =
                IF s >= Initial(k, SlotsCount) THEN s - Initial(k, SlotsCount)
                ELSE s - Initial(k, SlotsCount) + SlotsCount
<1> DEFINE i == Initial(k, SlotsCount)
<1>1. Hash[k] \in Nat
  BY LayoutAssumption DEF Keys
<1>2. i \in Slots
  BY <1>1, Slots0 DEF Initial
<1> HIDE DEF i
<1>3. CASE s >= i
  <2>1. s - i \in 0 .. SlotsCount - 1
    BY <1>2, <1>3, Slots0
  <2>2. (s - i) % SlotsCount = s - i
    BY <2>1, Slots0, Turns
  <2>3. QED
    BY <1>2, <1>3, <2>2 DEF Distance, i
<1>4. CASE ~(s >= i)
  <2>1. s - i + SlotsCount \in 0 .. SlotsCount - 1
    BY <1>2, <1>4, Slots0
  <2>2. ((s - i + SlotsCount) - SlotsCount) % SlotsCount = s - i + SlotsCount
    BY <2>1, Slots0, Turns
  <2>3. (s - i + SlotsCount) - SlotsCount = s - i
    BY <1>2, Slots0
  <2>4. QED
    BY <1>2, <1>4, <2>2, <2>3 DEF Distance, i
<1>5. QED
  BY <1>2, <1>3, <1>4 DEF i

\* From where the probe for a key starts, every slot is at a distance of its own within one turn.
LEMMA Distances ==
    ASSUME NEW k \in Keys
    PROVE  /\ Initial(k, SlotsCount) \in Slots
           /\ Distance(k, Initial(k, SlotsCount), SlotsCount) = 0
           /\ \A s \in Slots : Distance(k, s, SlotsCount) \in Slots
           /\ \A s, p \in Slots : Distance(k, s, SlotsCount) = Distance(k, p, SlotsCount) => s = p
<1> DEFINE i == Initial(k, SlotsCount)
           d(s) == Distance(k, s, SlotsCount)
<1>1. i \in Slots /\ \A s \in Slots : d(s) = IF s >= i THEN s - i ELSE s - i + SlotsCount
  BY DistanceIs, Slots0
<1> HIDE DEF i, d
<1>2. d(i) = 0
  BY <1>1, Slots0
<1>3. \A s \in Slots : d(s) \in Slots
  BY <1>1, Slots0
<1>4. \A s, p \in Slots : d(s) = d(p) => s = p
  BY <1>1, Slots0
<1>5. QED
  BY <1>1, <1>2, <1>3, <1>4 DEF i, d

\* The slot after one is a step farther, and the first after the last.
LEMMA FollowingIs ==
    ASSUME NEW s \in Slots
    PROVE  Following(s, SlotsCount) = IF s = SlotsCount - 1 THEN 0 ELSE s + 1
<1>1. CASE s = SlotsCount - 1
  <2>1. s + 1 = 0 + SlotsCount /\ (0 + SlotsCount) % SlotsCount = 0
    BY <1>1, Slots0, Turns
  <2>2. QED
    BY <1>1, <2>1 DEF Following
<1>2. CASE s # SlotsCount - 1
  <2>1. s + 1 \in 0 .. SlotsCount - 1
    BY <1>2, Slots0
  <2>2. (s + 1) % SlotsCount = s + 1
    BY <2>1, Slots0, Turns
  <2>3. QED
    BY <1>2, <2>2 DEF Following
<1>3. QED
  BY <1>1, <1>2

\* The slot that follows is one farther from the start of a probe, until the probe has walked the circle.
LEMMA NextDistance ==
    ASSUME NEW k \in Keys, NEW s \in Slots, Distance(k, s, SlotsCount) + 1 # SlotsCount
    PROVE  /\ Following(s, SlotsCount) \in Slots
           /\ Distance(k, Following(s, SlotsCount), SlotsCount) = Distance(k, s, SlotsCount) + 1
<1>1. \A p \in Slots : Distance(k, p, SlotsCount) =
          IF p >= Initial(k, SlotsCount) THEN p - Initial(k, SlotsCount)
          ELSE p - Initial(k, SlotsCount) + SlotsCount
  BY DistanceIs
<1>2. Initial(k, SlotsCount) \in Slots
  BY DistanceIs, Slots0
<1>3. Following(s, SlotsCount) = IF s = SlotsCount - 1 THEN 0 ELSE s + 1
  BY FollowingIs
<1>4. CASE s = SlotsCount - 1
  <2>1. Following(s, SlotsCount) = 0 /\ 0 \in Slots
    BY <1>3, <1>4, Slots0
  <2>2. QED
    BY <1>1, <1>2, <1>4, <2>1, Slots0
<1>5. CASE s # SlotsCount - 1
  <2> DEFINE f == Following(s, SlotsCount)
  <2>1. f = s + 1 /\ f \in Slots
    BY <1>3, <1>5, Slots0
  <2> HIDE DEF f
  <2>2. /\ Distance(k, f, SlotsCount) =
              IF f >= Initial(k, SlotsCount) THEN f - Initial(k, SlotsCount)
              ELSE f - Initial(k, SlotsCount) + SlotsCount
        /\ Distance(k, s, SlotsCount) =
              IF s >= Initial(k, SlotsCount) THEN s - Initial(k, SlotsCount)
              ELSE s - Initial(k, SlotsCount) + SlotsCount
    BY <2>1, DistanceIs
  <2>3. Distance(k, f, SlotsCount) = Distance(k, s, SlotsCount) + 1
    BY <1>2, <2>1, <2>2, Slots0
  <2>4. QED
    BY <2>1, <2>3 DEF f
<1>6. QED
  BY <1>4, <1>5

----------------------------------------------------------------------------
(* The invariant.                                                          *)

\* Both bits of a slot are set while one thread works on it, and then alone.
LocksFit ==
    /\ \A s \in Slots : header[s] = Locked <=> \E t \in Threads : Holds(t, s)
    /\ \A t, u \in Threads, s \in Slots : Holds(t, s) /\ Holds(u, s) => t = u

\* A slot has a key while it is populated.
StoredFits == \A s \in Slots : stored[s] = NoKey <=> States[s] # Populated

Probes(t) == call[t].step \in {"lock", "held", "unlock"}

\* The slots a probe walked past have not been freed, and do not have its key.
Behind(t) ==
    \A p \in Slots : Distance(call[t].key, p, SlotsCount) < call[t].probes =>
                        States[p] # Free /\ stored[p] # call[t].key

\* Where a call is, and what it knows of the slot it is at once it decided.
CallFits(t) ==
    /\ call[t].step # "idle" => call[t].key \in Keys
    /\ Probes(t) => Distance(call[t].key, call[t].at, SlotsCount) = call[t].probes /\ Behind(t)
    /\ call[t].step \in {"lock", "held"} => call[t].verdict = "on"
    /\ call[t].step = "unlock" /\ call[t].verdict \in {"on", "missing", "exhausted"} =>
          stored[call[t].at] # call[t].key
    /\ call[t].step = "unlock" /\ call[t].verdict \in {"on", "exhausted"} => call[t].staged # Free
    /\ call[t].step = "unlock" /\ call[t].verdict = "on" => call[t].probes + 1 # SlotsCount
    /\ call[t].step = "unlock" /\ call[t].verdict \in {"missing", "exhausted"} =>
          call[t].staged = Free \/ call[t].probes + 1 = SlotsCount

CallsFit == \A t \in Threads : CallFits(t)

Inv == AtomicTypeOK /\ LocksFit /\ StoredFits /\ OneSlotPerKey /\ ProbesArrive /\ CallsFit

----------------------------------------------------------------------------
(* Slots and their states.                                                 *)

\* The four states of a slot differ.
LEMMA Bits ==
    /\ Free # Deleted /\ Free # Populated /\ Free # Locked
    /\ Deleted # Populated /\ Deleted # Locked /\ Populated # Locked
BY DEF Free, Deleted, Populated, Locked

\* Locking sets both bits, and unlocking leaves those that were staged.
LEMMA Flips ==
    ASSUME NEW bits \in {Free, Deleted, Populated}
    PROVE  bits \cup Locked = Locked /\ Flipped(Locked, Flipped(Locked, bits)) = bits
BY DEF Flipped, Free, Deleted, Populated, Locked

StateFits ==
    \A s \in Slots : /\ \A t \in Threads : Holds(t, s) => States[s] = call[t].staged
                     /\ header[s] # Locked => States[s] = header[s]

\* The state of a slot is what its holder staged for it, or else what its bits say.
LEMMA StateIs == LocksFit => StateFits
<1> SUFFICES ASSUME LocksFit, NEW s \in Slots
             PROVE  /\ \A t \in Threads : Holds(t, s) => State(s) = call[t].staged
                    /\ header[s] # Locked => State(s) = header[s]
  BY DEF StateFits, States
<1>1. ASSUME NEW t \in Threads, Holds(t, s) PROVE State(s) = call[t].staged
  <2>1. {u \in Threads : Holds(u, s)} = {t}
    BY <1>1 DEF LocksFit
  <2>2. {call[u] : u \in {v \in Threads : Holds(v, s)}} = {call[t]}
    BY <2>1
  <2>3. (CHOOSE c \in {call[u] : u \in {v \in Threads : Holds(v, s)}} : TRUE) = call[t]
    BY <2>2
  <2>4. header[s] = Locked
    BY <1>1 DEF LocksFit
  <2>5. QED
    BY <1>1, <2>3, <2>4 DEF State
<1>2. header[s] # Locked => State(s) = header[s]
  BY DEF State
<1>3. QED
  BY <1>1, <1>2

\* Every slot has a state.
LEMMA DomainOfStates == DOMAIN States = Slots
BY DEF States

\* What the two promises of a table say slot by slot.
Apart ==
    \A s, p \in Slots :
        States[s] = Populated /\ States[p] = Populated /\ stored[s] = stored[p] => s = p
Arrives ==
    \A s, p \in Slots :
        States[s] = Populated /\ Distance(stored[s], p, SlotsCount) < Distance(stored[s], s, SlotsCount)
            => States[p] # Free

\* HashLayout says over sets and domains what Apart and Arrives say of two slots.
LEMMA PromisesAre == (OneSlotPerKey <=> Apart) /\ (ProbesArrive <=> Arrives)
<1>1. Cardinality(Slots) = SlotsCount
  <2>1. Cardinality(0 .. SlotsCount - 1) = SlotsCount
    BY FS_Interval, Slots0
  <2>2. QED
    BY <2>1, Slots0
<1>2. QED
  BY <1>1, DomainOfStates DEF Apart, Arrives, OneSlotPerKey, ProbesArrive, UniqueKeys, ReachableKeys, Passed, Slots

\* ... and so after a step.
LEMMA PromisesAfter == (OneSlotPerKey' <=> Apart') /\ (ProbesArrive' <=> Arrives')
BY PromisesAre, PTL

----------------------------------------------------------------------------
(* What each step makes of the call that takes it.                         *)

CallSpace == [op : Ops, key : Keys \cup {NoKey}, at : Slots, probes : Slots,
              step : {"idle", "lock", "held", "unlock", "count"},
              staged : {Free, Deleted, Populated},
              verdict : {"on", "found", "missing", "inserted", "exhausted"}]

\* The fields of a call that a step leaves it.
Stays(t) ==
    /\ call'[t].op = call[t].op /\ call'[t].key = call[t].key
    /\ call'[t].at = call[t].at /\ call'[t].probes = call[t].probes

Others(t) == \A u \in Threads \ {t} : call'[u] = call[u]

\* A step changes the call of its own thread alone, and the bits only of the slot it is at.
LEMMA OneMoves ==
    ASSUME AtomicTypeOK, NEW t \in Threads, Start(t) \/ Step(t)
    PROVE  /\ Others(t) /\ DOMAIN call' = Threads
           /\ \A s \in Slots : s # call[t].at => header'[s] = header[s] /\ stored'[s] = stored[s]
BY DEF AtomicTypeOK, Others, Start, Step, Lock, Visit, Match, Take, Miss, Pass, Decided, Unlock, Count

\* A call starts where its probe does, and touches neither the slots nor the counters.
LEMMA StartMoves ==
    ASSUME AtomicTypeOK, NEW t \in Threads, Start(t)
    PROVE  /\ call[t].step = "idle"
           /\ \E op \in Ops, k \in Keys :
                 call'[t] = [op |-> op, key |-> k, step |-> "lock", at |-> Initial(k, SlotsCount), probes |-> 0,
                             staged |-> Free, verdict |-> "on"]
           /\ left' \in [Threads -> 0 .. Calls]
           /\ UNCHANGED <<header, stored, populated_count, deleted_count>>
<1>1. PICK op \in Ops, k \in Keys :
          call' = [call EXCEPT ![t] =
                    [Idle EXCEPT !.op = op, !.key = k, !.step = "lock", !.at = Initial(k, SlotsCount)]]
  BY DEF Start
<1>2. call'[t] = [op |-> op, key |-> k, step |-> "lock", at |-> Initial(k, SlotsCount), probes |-> 0,
                  staged |-> Free, verdict |-> "on"]
  BY <1>1 DEF AtomicTypeOK, Idle
<1>3. left' \in [Threads -> 0 .. Calls]
  <2>1. left \in [Threads -> 0 .. Calls] /\ left' = [left EXCEPT ![t] = left[t] - 1] /\ left[t] > 0
    BY DEF AtomicTypeOK, Start
  <2>2. left[t] - 1 \in 0 .. Calls
    BY <2>1, AtomicAssumption
  <2>3. QED
    BY <2>1, <2>2
<1>4. QED
  BY <1>2, <1>3 DEF Start

\* fetch_or finds the slot unlocked, sets both its bits and leaves what they were in staged.
LEMMA LockMoves ==
    ASSUME AtomicTypeOK, NEW t \in Threads, Lock(t)
    PROVE  /\ call[t].step = "lock" /\ header[call[t].at] # Locked
           /\ call'[t] = [call[t] EXCEPT !.step = "held", !.staged = header[call[t].at]]
           /\ header' = [header EXCEPT ![call[t].at] = Locked]
           /\ UNCHANGED <<stored, populated_count, deleted_count, left>>
<1>1. header[call[t].at] \in {Free, Deleted, Populated, Locked} /\ header[call[t].at] # Locked
  BY DEF AtomicTypeOK, Lock, Admits
<1>2. header[call[t].at] \cup Locked = Locked
  BY <1>1, Flips
<1>3. QED
  BY <1>1, <1>2 DEF AtomicTypeOK, Lock

\* Under the lock a call decides what to stage and what to answer.
LEMMA VisitMoves ==
    ASSUME AtomicTypeOK, NEW t \in Threads, Visit(t)
    PROVE  /\ call[t].step = "held"
           /\ \E staged \in {Free, Deleted, Populated},
                 verdict \in {"on", "found", "missing", "inserted", "exhausted"} :
                 call'[t] = [call[t] EXCEPT !.step = "unlock", !.staged = staged, !.verdict = verdict]
           /\ UNCHANGED <<header, left>>
<1> DEFINE To(staged, verdict) == [call[t] EXCEPT !.step = "unlock", !.staged = staged, !.verdict = verdict]
<1>1. call[t].staged \in {Free, Deleted, Populated} /\ DOMAIN call = Threads
  BY DEF AtomicTypeOK
<1>2. ASSUME NEW staged, NEW verdict, Decided(t, staged, verdict)
      PROVE  call'[t] = To(staged, verdict)
  BY <1>1, <1>2 DEF Decided
<1> HIDE DEF To
<1>3. \E staged \in {Free, Deleted, Populated}, verdict \in {"on", "found", "missing", "inserted", "exhausted"} :
        call'[t] = To(staged, verdict)
  <2>1. CASE Match(t)
    BY <1>1, <1>2, <2>1 DEF Match, Erased
  <2>2. CASE Take(t)
    BY <1>1, <1>2, <2>2 DEF Take
  <2>3. CASE Miss(t)
    BY <1>1, <1>2, <2>3 DEF Miss
  <2>4. CASE Pass(t)
    BY <1>1, <1>2, <2>4 DEF Pass
  <2>5. QED
    BY <2>1, <2>2, <2>3, <2>4 DEF Visit
<1>4. QED
  BY <1>3 DEF Visit, To

\* fetch_xor leaves the bits that were staged, and the probe goes on, counts or ends.
LEMMA UnlockMoves ==
    ASSUME AtomicTypeOK, NEW t \in Threads, Unlock(t), header[call[t].at] = Locked
    PROVE  /\ call[t].step = "unlock"
           /\ header' = [header EXCEPT ![call[t].at] = call[t].staged]
           /\ \/ /\ call[t].verdict = "on"
                 /\ call'[t] = [call[t] EXCEPT !.step = "lock", !.at = Following(call[t].at, SlotsCount),
                                               !.probes = call[t].probes + 1]
              \/ call[t].verdict = "inserted" /\ call'[t] = [call[t] EXCEPT !.step = "count"]
              \/ call[t].verdict \in {"found", "missing", "exhausted"} /\ call'[t] = Idle
           /\ UNCHANGED <<stored, populated_count, deleted_count, left>>
<1>1. call[t].staged \in {Free, Deleted, Populated}
  BY DEF AtomicTypeOK
<1>2. header' = [header EXCEPT ![call[t].at] = call[t].staged]
  <2>1. Flipped(header[call[t].at], Flipped(Locked, call[t].staged)) = call[t].staged
    BY <1>1, Flips
  <2>2. header' = [header EXCEPT ![call[t].at] = Flipped(header[call[t].at], Flipped(Locked, call[t].staged))]
    BY DEF Unlock, LetsGo
  <2>3. QED
    BY <2>1, <2>2
<1>3. call[t].verdict \in {"on", "found", "missing", "inserted", "exhausted"}
  BY DEF AtomicTypeOK
<1>4. CASE call[t].verdict = "on"
  BY <1>2, <1>4 DEF AtomicTypeOK, Unlock, Counts
<1>5. CASE call[t].verdict = "inserted"
  BY <1>2, <1>5 DEF AtomicTypeOK, Unlock, Counts
<1>6. CASE call[t].verdict \in {"found", "missing", "exhausted"}
  BY <1>2, <1>6 DEF AtomicTypeOK, Unlock, Counts
<1>7. QED
  BY <1>3, <1>4, <1>5, <1>6

\* An insertion is counted once its slot is unlocked.
LEMMA CountMoves ==
    ASSUME AtomicTypeOK, NEW t \in Threads, Count(t)
    PROVE  /\ call[t].step = "count" /\ call'[t] = Idle
           /\ populated_count' = (populated_count + 1) % CountSpan
           /\ UNCHANGED <<header, stored, deleted_count, left>>
BY DEF AtomicTypeOK, Count

\* What locking makes of the fields of a call.
LEMMA LockFields ==
    ASSUME AtomicTypeOK, NEW t \in Threads, Lock(t)
    PROVE  /\ Stays(t) /\ call[t].step = "lock" /\ call'[t].step = "held"
           /\ call'[t].staged = header[call[t].at] /\ call'[t].verdict = call[t].verdict
<1>1. call[t] \in CallSpace
  BY DEF AtomicTypeOK, CallSpace
<1>2. call'[t] = [call[t] EXCEPT !.step = "held", !.staged = header[call[t].at]] /\ call[t].step = "lock"
  BY LockMoves
<1>3. QED
  BY <1>1, <1>2 DEF CallSpace, Stays

\* What deciding makes of the fields of a call.
LEMMA DecidedFields ==
    ASSUME AtomicTypeOK, NEW t \in Threads, NEW staged, NEW verdict, Decided(t, staged, verdict)
    PROVE  /\ Stays(t) /\ call'[t].step = "unlock"
           /\ call'[t].staged = staged /\ call'[t].verdict = verdict
<1>1. call[t] \in CallSpace /\ DOMAIN call = Threads
  BY DEF AtomicTypeOK, CallSpace
<1>2. call'[t] = [call[t] EXCEPT !.step = "unlock", !.staged = staged, !.verdict = verdict]
  BY <1>1 DEF Decided
<1>3. QED
  BY <1>1, <1>2 DEF CallSpace, Stays

\* A visit decides, and leaves a call its key and its place.
LEMMA VisitFields ==
    ASSUME AtomicTypeOK, NEW t \in Threads, Visit(t)
    PROVE  Stays(t) /\ call[t].step = "held" /\ call'[t].step = "unlock"
BY DecidedFields DEF Visit, Match, Take, Miss, Pass

\* What unlocking makes of the fields of a call.
LEMMA UnlockFields ==
    ASSUME AtomicTypeOK, NEW t \in Threads, Unlock(t), header[call[t].at] = Locked
    PROVE  /\ call[t].step = "unlock"
           /\ \/ /\ call[t].verdict = "on" /\ call'[t].step = "lock" /\ call'[t].verdict = "on"
                 /\ call'[t].key = call[t].key
                 /\ call'[t].at = Following(call[t].at, SlotsCount) /\ call'[t].probes = call[t].probes + 1
              \/ call[t].verdict = "inserted" /\ call'[t].step = "count" /\ call'[t].key = call[t].key
              \/ call[t].verdict \in {"found", "missing", "exhausted"} /\ call'[t].step = "idle"
<1>1. call[t] \in CallSpace
  BY DEF AtomicTypeOK, CallSpace
<1>2. CASE /\ call[t].verdict = "on"
           /\ call'[t] = [call[t] EXCEPT !.step = "lock", !.at = Following(call[t].at, SlotsCount),
                                         !.probes = call[t].probes + 1]
  BY <1>1, <1>2, UnlockMoves DEF CallSpace
<1>3. CASE call[t].verdict = "inserted" /\ call'[t] = [call[t] EXCEPT !.step = "count"]
  BY <1>1, <1>3, UnlockMoves DEF CallSpace
<1>4. CASE call[t].verdict \in {"found", "missing", "exhausted"} /\ call'[t] = Idle
  <2>1. call'[t].step = "idle" /\ call[t].step = "unlock"
    BY <1>4 DEF Idle, Unlock
  <2>2. QED
    BY <1>4, <2>1
<1>5. QED
  BY <1>2, <1>3, <1>4, UnlockMoves

\* What starting and counting make of the fields of a call.
LEMMA RestFields ==
    ASSUME AtomicTypeOK, NEW t \in Threads, Start(t) \/ Count(t)
    PROVE  /\ call[t].step \in {"idle", "count"}
           /\ \/ Start(t) /\ call'[t].step = "lock" /\ call'[t].verdict = "on" /\ call'[t].probes = 0
                 /\ call'[t].key \in Keys /\ call'[t].at = Initial(call'[t].key, SlotsCount)
              \/ Count(t) /\ call'[t].step = "idle"
           /\ UNCHANGED <<header, stored>>
<1>1. CASE Start(t)
  <2>1. PICK op \in Ops, k \in Keys :
                 call'[t] = [op |-> op, key |-> k, step |-> "lock", at |-> Initial(k, SlotsCount), probes |-> 0,
                             staged |-> Free, verdict |-> "on"]
    BY <1>1, StartMoves
  <2>2. /\ call'[t].step = "lock" /\ call'[t].verdict = "on" /\ call'[t].probes = 0
        /\ call'[t].key \in Keys /\ call'[t].at = Initial(call'[t].key, SlotsCount)
    BY <2>1
  <2>3. QED
    BY <1>1, <2>2, StartMoves
<1>2. CASE Count(t)
  BY <1>2, CountMoves DEF Idle
<1>3. QED
  BY <1>1, <1>2

----------------------------------------------------------------------------
(* Types.                                                                  *)

\* A thread between two calls has the type of a call.
LEMMA IdleTyped == Idle \in CallSpace
BY Slots0 DEF Idle, CallSpace, Ops

\* The ways a call changes keep its type.
LEMMA CallTyped ==
    ASSUME NEW c \in CallSpace, NEW staged \in {Free, Deleted, Populated},
           NEW verdict \in {"on", "found", "missing", "inserted", "exhausted"}
    PROVE  /\ [c EXCEPT !.step = "held", !.staged = staged] \in CallSpace
           /\ [c EXCEPT !.step = "unlock", !.staged = staged, !.verdict = verdict] \in CallSpace
           /\ [c EXCEPT !.step = "count"] \in CallSpace
           /\ \A at \in Slots, probes \in Slots :
                 [c EXCEPT !.step = "lock", !.at = at, !.probes = probes] \in CallSpace
BY DEF CallSpace

\* A counter that wraps stays within its width.
LEMMA Counters ==
    ASSUME NEW a \in Int
    PROVE  a % CountSpan \in 0 .. CountSpan - 1
BY AtomicAssumption, Slots0

\* Every step keeps the types.
LEMMA StepTyped ==
    ASSUME Inv, NEW t \in Threads, Start(t) \/ Step(t)
    PROVE  AtomicTypeOK'
<1>0. /\ AtomicTypeOK /\ call[t] \in CallSpace /\ call \in [Threads -> CallSpace]
      /\ call[t].at \in Slots /\ call[t].probes \in Slots /\ call[t].staged \in {Free, Deleted, Populated}
  BY DEF Inv, AtomicTypeOK, CallSpace
<1>a. SUFFICES /\ call'[t] \in CallSpace
               /\ header' \in [Slots -> {Free, Deleted, Populated, Locked}]
               /\ stored' \in [Slots -> Keys \cup {NoKey}]
               /\ populated_count' \in 0 .. CountSpan - 1 /\ deleted_count' \in 0 .. CountSpan - 1
               /\ left' \in [Threads -> 0 .. Calls]
  <2>1. call' = [u \in Threads |-> call'[u]]
    BY <1>0 DEF Start, Step, Lock, Visit, Match, Take, Miss, Pass, Decided, Unlock, Count
  <2>2. \A u \in Threads : call'[u] \in CallSpace
    BY <1>0, <1>a, OneMoves DEF Others
  <2>3. call' \in [Threads -> CallSpace]
    BY <2>1, <2>2
  <2>4. QED
    BY <1>a, <2>3 DEF AtomicTypeOK, CallSpace
<1>1. CASE Start(t)
  <2>1. PICK op \in Ops, k \in Keys :
                 call'[t] = [op |-> op, key |-> k, step |-> "lock", at |-> Initial(k, SlotsCount), probes |-> 0,
                             staged |-> Free, verdict |-> "on"]
    BY <1>0, <1>1, StartMoves
  <2>2. Initial(k, SlotsCount) \in Slots /\ 0 \in Slots
    BY Distances, Slots0
  <2>3. QED
    <3>1. call'[t] \in CallSpace
      BY <2>1, <2>2 DEF CallSpace
    <3>2. QED
      BY <1>0, <1>1, <3>1, StartMoves DEF AtomicTypeOK
<1>2. CASE Lock(t)
  <2>1. header[call[t].at] \in {Free, Deleted, Populated}
    <3>1. header[call[t].at] \in {Free, Deleted, Populated, Locked}
      BY <1>0 DEF AtomicTypeOK
    <3>2. QED
      BY <1>0, <1>2, <3>1, LockMoves
  <2>2. call'[t] \in CallSpace
    <3>1. call'[t] = [call[t] EXCEPT !.step = "held", !.staged = header[call[t].at]]
      BY <1>0, <1>2, LockMoves
    <3>2. [call[t] EXCEPT !.step = "held", !.staged = header[call[t].at]] \in CallSpace
      BY <1>0, <2>1, CallTyped
    <3>3. QED
      BY <3>1, <3>2
  <2>3. header' \in [Slots -> {Free, Deleted, Populated, Locked}]
    BY <1>0, <1>2, LockMoves DEF AtomicTypeOK
  <2>4. QED
    BY <1>0, <1>2, <2>2, <2>3, LockMoves DEF AtomicTypeOK
<1>3. CASE Visit(t)
  <2>1. call'[t] \in CallSpace
    <3>1. PICK staged \in {Free, Deleted, Populated},
               verdict \in {"on", "found", "missing", "inserted", "exhausted"} :
                 call'[t] = [call[t] EXCEPT !.step = "unlock", !.staged = staged, !.verdict = verdict]
      BY <1>0, <1>3, VisitMoves
    <3>2. [call[t] EXCEPT !.step = "unlock", !.staged = staged, !.verdict = verdict] \in CallSpace
      BY <1>0, CallTyped
    <3>3. QED
      BY <3>1, <3>2
  <2>2. call[t].key \in Keys
    BY <1>0, <1>3, VisitMoves DEF Inv, CallsFit, CallFits
  <2>3. stored' \in [Slots -> Keys \cup {NoKey}]
    BY <1>0, <1>3, <2>2 DEF AtomicTypeOK, Visit, Match, Take, Miss, Pass
  <2>4. populated_count' \in 0 .. CountSpan - 1 /\ deleted_count' \in 0 .. CountSpan - 1
    <3>1. populated_count \in Int /\ deleted_count \in Int
      BY <1>0 DEF AtomicTypeOK
    <3>2. /\ (deleted_count + 1) % CountSpan \in 0 .. CountSpan - 1
          /\ (populated_count - 1) % CountSpan \in 0 .. CountSpan - 1
      BY <3>1, Counters
    <3>3. QED
      BY <1>0, <1>3, <3>2 DEF AtomicTypeOK, Visit, Match, Take, Miss, Pass
  <2>5. QED
    BY <1>0, <1>3, <2>1, <2>3, <2>4, VisitMoves DEF AtomicTypeOK
<1>4. CASE Unlock(t)
  <2>1. call[t].step = "unlock" /\ Holds(t, call[t].at)
    BY <1>4 DEF Unlock, Holds
  <2>2. header[call[t].at] = Locked
    BY <1>0, <2>1 DEF Inv, LocksFit
  <2>3. call[t].verdict = "on" => Following(call[t].at, SlotsCount) \in Slots /\ call[t].probes + 1 \in Slots
    <3>1. call[t].verdict = "on" => /\ call[t].probes + 1 # SlotsCount /\ call[t].key \in Keys
                                    /\ Distance(call[t].key, call[t].at, SlotsCount) = call[t].probes
      BY <2>1 DEF Inv, CallsFit, CallFits, Probes
    <3>2. call[t].probes \in Slots
      BY <1>0
    <3>3. QED
      BY <1>0, <3>1, <3>2, NextDistance, Slots0
  <2>4. call'[t] \in CallSpace
    <3>1. CASE /\ call[t].verdict = "on"
               /\ call'[t] = [call[t] EXCEPT !.step = "lock", !.at = Following(call[t].at, SlotsCount),
                                             !.probes = call[t].probes + 1]
      <4> DEFINE f == Following(call[t].at, SlotsCount)
                 q == call[t].probes + 1
      <4>1. f \in Slots /\ q \in Slots /\ call'[t] = [call[t] EXCEPT !.step = "lock", !.at = f, !.probes = q]
        BY <2>3, <3>1
      <4> HIDE DEF f, q
      <4>2. [call[t] EXCEPT !.step = "lock", !.at = f, !.probes = q] \in CallSpace
        BY <1>0, <4>1, CallTyped
      <4>3. QED
        BY <4>1, <4>2
    <3>2. CASE call'[t] = [call[t] EXCEPT !.step = "count"]
      BY <1>0, <3>2, CallTyped
    <3>3. CASE call'[t] = Idle
      BY <3>3, IdleTyped
    <3>4. QED
      BY <1>0, <1>4, <2>2, <3>1, <3>2, <3>3, UnlockMoves
  <2>5. header' \in [Slots -> {Free, Deleted, Populated, Locked}]
    <3>1. header' = [header EXCEPT ![call[t].at] = call[t].staged]
      BY <1>0, <1>4, <2>2, UnlockMoves
    <3>2. QED
      BY <1>0, <3>1 DEF AtomicTypeOK
  <2>6. QED
    BY <1>0, <1>4, <2>2, <2>4, <2>5, UnlockMoves DEF AtomicTypeOK
<1>5. CASE Count(t)
  <2>1. populated_count \in Int
    BY <1>0 DEF AtomicTypeOK
  <2>2. (populated_count + 1) % CountSpan \in 0 .. CountSpan - 1
    BY <2>1, Counters
  <2>3. QED
    BY <1>0, <1>5, <2>2, CountMoves, IdleTyped DEF AtomicTypeOK
<1>6. QED
  BY <1>1, <1>2, <1>3, <1>4, <1>5 DEF Step

----------------------------------------------------------------------------
(* Locks and states.                                                       *)

\* What a call holds before and after a step.
LEMMA HoldsAfter ==
    ASSUME Inv, NEW t \in Threads, Start(t) \/ Step(t), NEW at \in Slots, at = call[t].at
    PROVE  /\ \A s \in Slots : Lock(t) => (Holds(t, s)' <=> s = at) /\ ~Holds(t, s)
           /\ \A s \in Slots : Visit(t) => (Holds(t, s)' <=> s = at) /\ (Holds(t, s) <=> s = at)
           /\ \A s \in Slots : Unlock(t) => ~Holds(t, s)' /\ (Holds(t, s) <=> s = at)
           /\ \A s \in Slots : Start(t) \/ Count(t) => ~Holds(t, s)' /\ ~Holds(t, s)
           /\ \A u \in Threads \ {t}, s \in Slots : Holds(u, s)' <=> Holds(u, s)
<1>0. AtomicTypeOK /\ call[t] \in CallSpace
  BY DEF Inv, AtomicTypeOK, CallSpace
<1>1. \A u \in Threads \ {t}, s \in Slots : Holds(u, s)' <=> Holds(u, s)
  BY <1>0, OneMoves DEF Others, Holds
<1>2. \A s \in Slots : Lock(t) => (Holds(t, s)' <=> s = at) /\ ~Holds(t, s)
  BY <1>0, LockFields DEF Holds, Stays
<1>3. \A s \in Slots : Visit(t) => (Holds(t, s)' <=> s = at) /\ (Holds(t, s) <=> s = at)
  BY <1>0, VisitFields DEF Holds, Stays
<1>4. \A s \in Slots : Unlock(t) => ~Holds(t, s)' /\ (Holds(t, s) <=> s = at)
  <2>1. SUFFICES ASSUME Unlock(t), NEW s \in Slots PROVE ~Holds(t, s)' /\ (Holds(t, s) <=> s = at)
    OBVIOUS
  <2>2. call[t].step = "unlock"
    BY <2>1 DEF Unlock
  <2>3. header[call[t].at] = Locked
    BY <1>0, <2>2 DEF Inv, LocksFit, Holds, CallSpace
  <2>4. call'[t].step \in {"lock", "count", "idle"}
    BY <1>0, <2>1, <2>3, UnlockFields
  <2>5. QED
    BY <2>2, <2>4 DEF Holds
<1>5. \A s \in Slots : Start(t) \/ Count(t) => ~Holds(t, s)' /\ ~Holds(t, s)
  BY <1>0, RestFields DEF Holds
<1>6. QED
  BY <1>1, <1>2, <1>3, <1>4, <1>5

\* Every step keeps both bits set exactly where one thread works, alone.
LEMMA StepLocks ==
    ASSUME Inv, NEW t \in Threads, Start(t) \/ Step(t)
    PROVE  LocksFit'
<1>0. AtomicTypeOK /\ LocksFit /\ call[t].at \in Slots
  BY DEF Inv, AtomicTypeOK
<1>a. PICK at \in Slots : at = call[t].at
  BY <1>0
<1>1. CASE Lock(t)
  <2>1. ~\E u \in Threads : Holds(u, at)
    BY <1>0, <1>a, <1>1, LockMoves DEF LocksFit
  <2>2. \A s \in Slots : header'[s] = IF s = at THEN Locked ELSE header[s]
    <3>1. header' = [header EXCEPT ![at] = Locked] /\ DOMAIN header = Slots
      BY <1>0, <1>a, <1>1, LockMoves DEF AtomicTypeOK
    <3>2. QED
      BY <3>1
  <2>3. QED
    BY <1>0, <1>a, <1>1, <2>1, <2>2, HoldsAfter DEF LocksFit
<1>2. CASE Visit(t)
  <2>1. header' = header
    BY <1>2 DEF Visit
  <2>2. \A u \in Threads, s \in Slots : Holds(u, s)' <=> Holds(u, s)
    BY <1>a, <1>2, HoldsAfter
  <2>3. QED
    BY <1>0, <2>1, <2>2 DEF LocksFit
<1>3. CASE Unlock(t)
  <2>1. Holds(t, at) /\ header[at] = Locked
    BY <1>0, <1>a, <1>3 DEF LocksFit, Holds, Unlock
  <2>2. \A u \in Threads \ {t} : ~Holds(u, at)
    BY <1>0, <1>a, <2>1 DEF LocksFit
  <2>3. call[t].staged # Locked
    BY <1>0, <1>a, Bits DEF AtomicTypeOK
  <2>4. \A s \in Slots : header'[s] = IF s = at THEN call[t].staged ELSE header[s]
    <3>1. header' = [header EXCEPT ![at] = call[t].staged] /\ DOMAIN header = Slots
      BY <1>0, <1>a, <1>3, <2>1, UnlockMoves DEF AtomicTypeOK
    <3>2. QED
      BY <3>1
  <2>5. QED
    BY <1>0, <1>a, <1>3, <2>2, <2>3, <2>4, HoldsAfter DEF LocksFit
<1>4. CASE Start(t) \/ Count(t)
  BY <1>0, <1>a, <1>4, HoldsAfter, StartMoves, CountMoves DEF LocksFit
<1>5. QED
  BY <1>1, <1>2, <1>3, <1>4 DEF Step

\* A slot changes its state while its holder decides, and at no other time.
LEMMA StatesAfter ==
    ASSUME Inv, NEW t \in Threads, Start(t) \/ Step(t)
    PROVE  /\ ~Visit(t) => States' = States
           /\ Visit(t) => /\ States' = [States EXCEPT ![call[t].at] = call'[t].staged]
                          /\ States[call[t].at] = call[t].staged
<1>0. AtomicTypeOK /\ LocksFit /\ call[t].at \in Slots /\ call[t] \in CallSpace
  BY DEF Inv, AtomicTypeOK, CallSpace
<1>a. PICK at \in Slots : at = call[t].at
  BY <1>0
<1>1. StateFits
  BY <1>0, StateIs
<1>2. StateFits'
  BY StepLocks, StateIs, PTL
<1>3. States = [s \in Slots |-> States[s]] /\ States' = [s \in Slots |-> States'[s]]
  BY DEF States
<1>4. ASSUME NEW s \in Slots, NEW u \in Threads \ {t}, Holds(u, s)
      PROVE  States'[s] = States[s]
  <2>1. call'[u] = call[u] /\ Holds(u, s)'
    BY <1>0, <1>4, OneMoves, HoldsAfter DEF Others
  <2>2. States[s] = call[u].staged
    BY <1>1, <1>4 DEF StateFits
  <2>3. States'[s] = call'[u].staged
    BY <1>2, <2>1 DEF StateFits
  <2>4. QED
    BY <2>1, <2>2, <2>3
<1>5. ASSUME NEW s \in Slots, header[s] # Locked, header'[s] = header[s]
      PROVE  States'[s] = States[s]
  BY <1>1, <1>2, <1>5 DEF StateFits
<1>6. ASSUME NEW s \in Slots, s # at PROVE States'[s] = States[s]
  <2>1. header'[s] = header[s]
    BY <1>0, <1>a, <1>6, OneMoves
  <2>2. CASE header[s] # Locked
    BY <1>5, <2>1, <2>2
  <2>3. CASE header[s] = Locked
    <3>1. PICK u \in Threads : Holds(u, s)
      BY <1>0, <1>a, <2>3 DEF LocksFit
    <3>2. u # t
      BY <1>a, <1>6, <3>1 DEF Holds
    <3>3. QED
      BY <1>4, <3>1, <3>2
  <2>4. QED
    BY <2>2, <2>3
<1>7. CASE Lock(t)
  <2>1. header[at] # Locked /\ call'[t].staged = header[at] /\ Holds(t, at)'
    BY <1>0, <1>a, <1>7, LockFields, LockMoves, HoldsAfter
  <2>2. States'[at] = States[at]
    BY <1>0, <1>a, <1>1, <1>2, <2>1 DEF StateFits
  <2>3. QED
    BY <1>0, <1>a, <1>3, <1>6, <1>7, <2>2 DEF Lock, Visit
<1>8. CASE Visit(t)
  <2>1. Holds(t, at) /\ Holds(t, at)'
    BY <1>0, <1>a, <1>8, HoldsAfter
  <2>2. States[at] = call[t].staged /\ States'[at] = call'[t].staged
    BY <1>0, <1>a, <1>1, <1>2, <2>1 DEF StateFits
  <2>3. QED
    BY <1>0, <1>a, <1>3, <1>6, <1>8, <2>2
<1>9. CASE Unlock(t)
  <2>1. Holds(t, at) /\ header[at] = Locked
    BY <1>0, <1>a, <1>9 DEF LocksFit, Holds, Unlock
  <2>2. header'[at] = call[t].staged /\ call[t].staged # Locked
    <3>1. header' = [header EXCEPT ![at] = call[t].staged] /\ DOMAIN header = Slots
      BY <1>0, <1>a, <1>9, <2>1, UnlockMoves DEF AtomicTypeOK
    <3>2. call[t].staged # Locked
      BY <1>0, <1>a, Bits DEF AtomicTypeOK
    <3>3. QED
      BY <1>a, <3>1, <3>2
  <2>3. States'[at] = States[at]
    BY <1>0, <1>a, <1>1, <1>2, <2>1, <2>2 DEF StateFits
  <2>4. QED
    BY <1>0, <1>a, <1>3, <1>6, <1>9, <2>3 DEF Unlock, Visit
<1>10. CASE Start(t) \/ Count(t)
  <2>1. header' = header /\ call[t].step \in {"idle", "count"} /\ ~Visit(t)
    BY <1>0, <1>10, RestFields DEF Visit
  <2>2. States'[at] = States[at]
    <3>1. CASE header[at] # Locked
      BY <1>0, <1>a, <1>5, <2>1, <3>1
    <3>2. CASE header[at] = Locked
      <4>1. PICK u \in Threads : Holds(u, at)
        BY <1>0, <1>a, <3>2 DEF LocksFit
      <4>2. u # t
        BY <2>1, <4>1 DEF Holds
      <4>3. QED
        BY <1>0, <1>a, <1>4, <4>1, <4>2
    <3>3. QED
      BY <3>1, <3>2
  <2>3. QED
    BY <1>0, <1>a, <1>3, <1>6, <2>1, <2>2
<1>11. QED
  BY <1>7, <1>8, <1>9, <1>10 DEF Step

----------------------------------------------------------------------------
(* The table.                                                              *)

\* All that a step can do to the slots: file the key of a call, or erase it.
Takes(t) ==
    /\ call[t].step = "held" /\ call[t].staged = Free
    /\ States' = [States EXCEPT ![call[t].at] = Populated]
    /\ stored' = [stored EXCEPT ![call[t].at] = call[t].key]
Erases(t) ==
    /\ call[t].step = "held" /\ call[t].staged = Populated
    /\ States' = [States EXCEPT ![call[t].at] = Deleted]
    /\ stored' = [stored EXCEPT ![call[t].at] = NoKey]
Leaves == UNCHANGED <<States, stored>>

\* The slots change in two ways only, and under their lock: a free one is taken, a populated one erased.
LEMMA TableMoves ==
    ASSUME Inv, NEW t \in Threads, Start(t) \/ Step(t)
    PROVE  Leaves \/ (Visit(t) /\ (Takes(t) \/ Erases(t)))
<1>0. AtomicTypeOK /\ call[t] \in CallSpace
  BY DEF Inv, AtomicTypeOK, CallSpace
<1>1. CASE Visit(t)
  <2>1. /\ States' = [States EXCEPT ![call[t].at] = call'[t].staged]
        /\ States[call[t].at] = call[t].staged /\ call[t].at \in DOMAIN States
    BY <1>0, <1>1, StatesAfter, DomainOfStates DEF CallSpace
  <2>2. ASSUME NEW verdict, Decided(t, call[t].staged, verdict) PROVE States' = States
    <3>1. call'[t].staged = call[t].staged
      BY <1>0, <2>2, DecidedFields
    <3>2. QED
      BY <2>1, <3>1, Zenon DEF States
  <2>3. CASE Match(t)
    <3>1. CASE call[t].op = "erase"
      <4>1. Decided(t, Deleted, "found") /\ stored' = [stored EXCEPT ![call[t].at] = NoKey]
        BY <2>3, <3>1 DEF Match, Erased
      <4>2. call'[t].staged = Deleted
        BY <1>0, <4>1, DecidedFields
      <4>3. QED
        BY <1>1, <2>1, <2>3, <4>1, <4>2 DEF Erases, Match, Visit
    <3>2. CASE call[t].op # "erase"
      BY <2>2, <2>3, <3>2 DEF Match, Leaves
    <3>3. QED
      BY <3>1, <3>2
  <2>4. CASE Take(t)
    <3>1. Decided(t, Populated, "inserted") /\ stored' = [stored EXCEPT ![call[t].at] = call[t].key]
      BY <2>4 DEF Take
    <3>2. call'[t].staged = Populated
      BY <1>0, <3>1, DecidedFields
    <3>3. QED
      BY <1>1, <2>1, <2>4, <3>1, <3>2 DEF Takes, Take, Unused, Visit
  <2>5. CASE Miss(t)
    BY <2>2, <2>5 DEF Miss, Leaves
  <2>6. CASE Pass(t)
    BY <2>2, <2>6 DEF Pass, Leaves
  <2>7. QED
    BY <1>1, <2>3, <2>4, <2>5, <2>6 DEF Visit
<1>2. CASE ~Visit(t)
  BY <1>2, StatesAfter DEF Leaves, Start, Step, Lock, Unlock, Count
<1>3. QED
  BY <1>1, <1>2

\* A call that comes to a free slot finds its key nowhere in the table.
LEMMA FreeMeansNowhere ==
    ASSUME Inv, NEW t \in Threads, Probes(t), States[call[t].at] = Free
    PROVE  \A s \in Slots : States[s] = Populated => stored[s] # call[t].key
<1> SUFFICES ASSUME NEW s \in Slots, States[s] = Populated, stored[s] = call[t].key PROVE FALSE
  OBVIOUS
<1> DEFINE k == call[t].key
           at == call[t].at
<1>1. k \in Keys /\ at \in Slots /\ Distance(k, at, SlotsCount) = call[t].probes /\ Behind(t)
  BY DEF Inv, CallsFit, CallFits, Probes, AtomicTypeOK
<1>2. ~(Distance(k, s, SlotsCount) < Distance(k, at, SlotsCount))
  BY <1>1 DEF Behind
<1>3. ~(Distance(k, at, SlotsCount) < Distance(k, s, SlotsCount))
  BY <1>1, PromisesAre DEF Inv, Arrives
<1>4. Distance(k, at, SlotsCount) = Distance(k, s, SlotsCount)
  BY <1>1, <1>2, <1>3, Distances, Slots0
<1>5. at = s
  BY <1>1, <1>4, Distances
<1>6. QED
  BY <1>5, Bits

\* Every step keeps what the slots promise, and no slot that was in use is ever free again.
LEMMA StepTable ==
    ASSUME Inv, NEW t \in Threads, Start(t) \/ Step(t)
    PROVE  /\ StoredFits' /\ OneSlotPerKey' /\ ProbesArrive'
           /\ \A s \in Slots : States[s] # Free => States'[s] # Free /\ stored'[s] \in {stored[s], NoKey}
<1>0. /\ StoredFits /\ OneSlotPerKey /\ ProbesArrive /\ AtomicTypeOK
      /\ stored \in [Slots -> Keys \cup {NoKey}] /\ DOMAIN States = Slots
  BY DomainOfStates DEF Inv, AtomicTypeOK
<1>1. CASE Leaves
  BY <1>0, <1>1 DEF Leaves, StoredFits, OneSlotPerKey, ProbesArrive
<1>2. PICK at \in Slots, k \in Keys \cup {NoKey} : at = call[t].at /\ k = call[t].key
  BY <1>0 DEF AtomicTypeOK
<1>3. CASE Visit(t) /\ Takes(t)
  <2>1. /\ States' = [States EXCEPT ![at] = Populated] /\ stored' = [stored EXCEPT ![at] = k]
        /\ call[t].step = "held" /\ call[t].staged = Free
    BY <1>2, <1>3 DEF Takes
  <2>2. /\ k \in Keys /\ k # NoKey /\ Behind(t) /\ Probes(t)
        /\ call[t].probes = Distance(k, at, SlotsCount)
    BY <1>2, <2>1 DEF Inv, CallsFit, CallFits, Probes, Keys, NoKey
  <2>3. States[at] = Free
    BY <1>2, <1>3, <2>1, StatesAfter
  <2>4. \A s \in Slots : States[s] = Populated => stored[s] # k
    BY <1>2, <2>2, <2>3, FreeMeansNowhere
  <2>5. \A s \in Slots : /\ States'[s] = IF s = at THEN Populated ELSE States[s]
                         /\ stored'[s] = IF s = at THEN k ELSE stored[s]
    BY <1>0, <2>1
  <2>6. StoredFits'
    BY <1>0, <2>2, <2>5 DEF StoredFits
  <2>7. OneSlotPerKey'
    <3>1. \A s, p \in Slots : States'[s] = Populated /\ States'[p] = Populated /\ stored'[s] = stored'[p] => s = p
      BY <1>0, <2>4, <2>5, PromisesAre DEF Apart, Arrives
    <3>2. QED
      BY <3>1, PromisesAfter DEF Apart, Arrives
  <2>8. ProbesArrive'
    <3>1. ASSUME NEW s \in Slots, NEW p \in Slots, States'[s] = Populated,
                 Distance(stored'[s], p, SlotsCount) < Distance(stored'[s], s, SlotsCount)
          PROVE  States'[p] # Free
      <4>1. CASE s = at
        <5>1. Distance(k, p, SlotsCount) < Distance(k, at, SlotsCount)
          BY <2>5, <3>1, <4>1
        <5>2. States[p] # Free
          BY <1>2, <2>2, <5>1 DEF Behind
        <5>3. QED
          BY <2>5, <5>2, Bits
      <4>2. CASE s # at
        <5>1. States[s] = Populated /\ Distance(stored[s], p, SlotsCount) < Distance(stored[s], s, SlotsCount)
          BY <2>5, <3>1, <4>2
        <5>2. States[p] # Free
          BY <1>0, <5>1, PromisesAre DEF Apart, Arrives
        <5>3. QED
          BY <2>5, <5>2, Bits
      <4>3. QED
        BY <4>1, <4>2
    <3>2. QED
      BY <3>1, PromisesAfter DEF Apart, Arrives
  <2>9. \A s \in Slots : States[s] # Free => States'[s] # Free /\ stored'[s] \in {stored[s], NoKey}
    BY <2>3, <2>5
  <2>10. QED
    BY <2>6, <2>7, <2>8, <2>9
<1>4. CASE Visit(t) /\ Erases(t)
  <2>1. States' = [States EXCEPT ![at] = Deleted] /\ stored' = [stored EXCEPT ![at] = NoKey]
    BY <1>2, <1>4 DEF Erases
  <2>2. \A s \in Slots : /\ States'[s] = IF s = at THEN Deleted ELSE States[s]
                         /\ stored'[s] = IF s = at THEN NoKey ELSE stored[s]
    BY <1>0, <2>1
  <2>3. StoredFits'
    BY <1>0, <2>2, Bits DEF StoredFits
  <2>4. OneSlotPerKey'
    <3>1. \A s, p \in Slots : States'[s] = Populated /\ States'[p] = Populated /\ stored'[s] = stored'[p] => s = p
      BY <1>0, <2>2, Bits, PromisesAre DEF Apart, Arrives
    <3>2. QED
      BY <3>1, PromisesAfter DEF Apart, Arrives
  <2>5. ProbesArrive'
    <3>1. ASSUME NEW s \in Slots, NEW p \in Slots, States'[s] = Populated,
                 Distance(stored'[s], p, SlotsCount) < Distance(stored'[s], s, SlotsCount)
          PROVE  States'[p] # Free
      <4>1. s # at /\ States[s] = Populated
        BY <2>2, <3>1, Bits
      <4>2. Distance(stored[s], p, SlotsCount) < Distance(stored[s], s, SlotsCount)
        BY <2>2, <3>1, <4>1
      <4>3. States[p] # Free
        BY <1>0, <4>1, <4>2, PromisesAre DEF Apart, Arrives
      <4>4. QED
        BY <2>2, <4>3, Bits
    <3>2. QED
      BY <3>1, PromisesAfter DEF Apart, Arrives
  <2>6. \A s \in Slots : States[s] # Free => States'[s] # Free /\ stored'[s] \in {stored[s], NoKey}
    BY <2>2, Bits
  <2>7. QED
    BY <2>3, <2>4, <2>5, <2>6
<1>5. QED
  BY <1>1, <1>3, <1>4, TableMoves

----------------------------------------------------------------------------
(* The calls.                                                              *)

\* What a probe walked past stays walked past.
LEMMA BehindStays ==
    ASSUME Inv, NEW t \in Threads, Start(t) \/ Step(t), NEW u \in Threads, Probes(u),
           call'[u].key = call[u].key, call'[u].probes = call[u].probes
    PROVE  Behind(u)'
<1>1. call[u].key \in Keys /\ call[u].key # NoKey /\ Behind(u)
  BY DEF Inv, CallsFit, CallFits, Probes, Keys, NoKey
<1>2. \A s \in Slots : States[s] # Free => States'[s] # Free /\ stored'[s] \in {stored[s], NoKey}
  BY StepTable
<1>3. PICK k \in Keys : k = call[u].key
  BY <1>1
<1>4. ASSUME NEW p \in Slots, Distance(k, p, SlotsCount) < call'[u].probes
      PROVE  States'[p] # Free /\ stored'[p] # k
  BY <1>1, <1>2, <1>3, <1>4 DEF Behind
<1>5. QED
  BY <1>3, <1>4 DEF Behind

\* A step leaves the calls of the others as fitting as they were.
LEMMA OthersFit ==
    ASSUME Inv, NEW t \in Threads, Start(t) \/ Step(t), NEW u \in Threads, u # t
    PROVE  CallFits(u)'
<1>1. call'[u] = call[u] /\ CallFits(u)
  BY OneMoves DEF Inv, CallsFit, Others
<1>2. Probes(u) => Behind(u)'
  BY <1>1, BehindStays
<1>3. call[u].step = "unlock" => stored'[call[u].at] = stored[call[u].at]
  <2>1. SUFFICES ASSUME call[u].step = "unlock" PROVE stored'[call[u].at] = stored[call[u].at]
    OBVIOUS
  <2>2. CASE Leaves
    BY <2>2 DEF Leaves
  <2>3. CASE Visit(t)
    <3>1. Holds(u, call[u].at) /\ Holds(t, call[t].at)
      BY <2>1, <2>3 DEF Holds, Visit
    <3>2. call[u].at # call[t].at /\ call[u].at \in Slots
      BY <3>1 DEF Inv, LocksFit, AtomicTypeOK
    <3>3. QED
      BY <3>2, OneMoves DEF Inv
  <2>4. QED
    BY <2>2, <2>3, TableMoves
<1>4. QED
  BY <1>1, <1>2, <1>3 DEF CallFits, Probes

\* A step leaves the call that takes it as fitting as it was.
LEMMA OwnFits ==
    ASSUME Inv, NEW t \in Threads, Start(t) \/ Step(t)
    PROVE  CallFits(t)'
<1>0. /\ AtomicTypeOK /\ call[t].at \in Slots /\ call[t].probes \in Slots /\ CallFits(t) /\ StoredFits
      /\ call[t].staged \in {Free, Deleted, Populated}
  BY DEF Inv, CallsFit, AtomicTypeOK
<1>1. CASE Start(t) \/ Count(t)
  <2>1. CASE Start(t)
    <3>1. /\ call'[t].step = "lock" /\ call'[t].verdict = "on" /\ call'[t].probes = 0
          /\ call'[t].key \in Keys /\ call'[t].at = Initial(call'[t].key, SlotsCount)
      BY <1>0, <2>1, RestFields DEF Start, Count
    <3>2. PICK k \in Keys : k = call'[t].key
      BY <3>1
    <3>3. Distance(k, call'[t].at, SlotsCount) = 0
      BY <3>1, <3>2, Distances
    <3>4. \A p \in Slots : ~(Distance(k, p, SlotsCount) < 0)
      BY Distances, Slots0
    <3>5. Behind(t)'
      BY <3>1, <3>2, <3>4 DEF Behind
    <3>6. QED
      BY <3>1, <3>2, <3>3, <3>5 DEF CallFits
  <2>2. CASE Count(t)
    <3>1. call'[t].step = "idle"
      BY <1>0, <2>2, CountMoves DEF Idle
    <3>2. QED
      BY <3>1 DEF CallFits, Probes
  <2>3. QED
    BY <1>1, <2>1, <2>2
<1>2. CASE Lock(t)
  <2>1. Stays(t) /\ call[t].step = "lock" /\ call'[t].step = "held" /\ call'[t].verdict = call[t].verdict
    BY <1>0, <1>2, LockFields
  <2>2. Behind(t)'
    BY <2>1, BehindStays DEF Stays, Probes
  <2>3. QED
    BY <1>0, <2>1, <2>2 DEF CallFits, Probes, Stays
<1>3. CASE Visit(t)
  <2>1. Stays(t) /\ call[t].step = "held" /\ call'[t].step = "unlock"
    BY <1>0, <1>3, VisitFields
  <2>2. Behind(t)'
    BY <2>1, BehindStays DEF Stays, Probes
  <2>3. States[call[t].at] = call[t].staged
    BY <1>3, StatesAfter
  <2>4. call[t].key \in Keys /\ call[t].key # NoKey
    BY <1>0, <2>1 DEF CallFits, Keys, NoKey
  <2>5. CASE call'[t].verdict \in {"found", "inserted"}
    BY <1>0, <2>1, <2>2, <2>5 DEF CallFits, Probes, Stays
  <2>6. CASE Miss(t) \/ Pass(t)
    <3>1. stored' = stored /\ ~(call[t].staged = Populated /\ stored[call[t].at] = call[t].key)
      BY <2>6 DEF Miss, Pass
    <3>2. stored[call[t].at] # call[t].key
      BY <1>0, <2>3, <2>4, <3>1 DEF StoredFits
    <3>3. CASE Miss(t)
      <4>1. /\ call'[t].staged = call[t].staged
            /\ call'[t].verdict = IF call[t].op = "emplace" THEN "exhausted" ELSE "missing"
        BY <1>0, <3>3, DecidedFields DEF Miss
      <4>2. call[t].op = "emplace" => call[t].staged # Free
        BY <3>3 DEF Miss, Unused
      <4>3. call[t].staged = Free \/ call[t].probes + 1 = SlotsCount
        BY <3>3 DEF Miss, WalksPast, IsLast
      <4>4. QED
        BY <1>0, <2>1, <2>2, <3>1, <3>2, <4>1, <4>2, <4>3 DEF CallFits, Probes, Stays
    <3>4. CASE Pass(t)
      <4>1. call'[t].staged = call[t].staged /\ call'[t].verdict = "on"
        BY <1>0, <3>4, DecidedFields DEF Pass
      <4>2. call[t].staged # Free /\ call[t].probes + 1 # SlotsCount
        BY <3>4 DEF Pass, WalksPast, IsLast
      <4>3. QED
        BY <1>0, <2>1, <2>2, <3>1, <3>2, <4>1, <4>2 DEF CallFits, Probes, Stays
    <3>5. QED
      BY <2>6, <3>3, <3>4
  <2>7. Match(t) \/ Take(t) => call'[t].verdict \in {"found", "inserted"}
    BY <1>0, DecidedFields DEF Match, Take
  <2>8. QED
    BY <1>3, <2>5, <2>6, <2>7 DEF Visit
<1>4. CASE Unlock(t)
  <2>1. call[t].step = "unlock" /\ Holds(t, call[t].at) /\ header[call[t].at] = Locked
    BY <1>0, <1>4 DEF Inv, LocksFit, Holds, Unlock
  <2>2. CASE call'[t].step = "idle"
    BY <2>2 DEF CallFits, Probes
  <2>3. CASE call'[t].step = "count" /\ call'[t].key = call[t].key
    BY <1>0, <2>1, <2>3 DEF CallFits, Probes
  <2>4. CASE /\ call[t].verdict = "on" /\ call'[t].step = "lock" /\ call'[t].verdict = "on"
             /\ call'[t].key = call[t].key
             /\ call'[t].at = Following(call[t].at, SlotsCount) /\ call'[t].probes = call[t].probes + 1
    <3>1. PICK k \in Keys, at \in Slots, n \in Slots : k = call[t].key /\ at = call[t].at /\ n = call[t].probes
      BY <1>0, <2>1 DEF CallFits
    <3>2. /\ Distance(k, at, SlotsCount) = n /\ n + 1 # SlotsCount
          /\ call[t].staged # Free /\ stored[at] # k /\ Behind(t)
      BY <1>0, <2>1, <2>4, <3>1 DEF CallFits, Probes
    <3>3. Distance(k, call'[t].at, SlotsCount) = n + 1
      BY <2>4, <3>1, <3>2, NextDistance
    <3>4. stored' = stored /\ States' = States /\ States[at] = call[t].staged
      <4>1. StateFits
        BY StateIs DEF Inv
      <4>2. QED
        BY <1>4, <2>1, <3>1, <4>1, StatesAfter DEF StateFits, Unlock, Visit
    <3>5. ASSUME NEW p \in Slots, Distance(k, p, SlotsCount) < n + 1
          PROVE  States'[p] # Free /\ stored'[p] # k
      <4>1. CASE p = at
        BY <3>2, <3>4, <4>1
      <4>2. CASE p # at
        <5>1. Distance(k, p, SlotsCount) # n /\ Distance(k, p, SlotsCount) \in Slots
          BY <3>2, <4>2, Distances
        <5>2. Distance(k, p, SlotsCount) < n
          BY <3>5, <5>1, Slots0
        <5>3. QED
          BY <3>1, <3>2, <3>4, <5>2 DEF Behind
      <4>3. QED
        BY <4>1, <4>2
    <3>6. Behind(t)'
      BY <2>4, <3>1, <3>5 DEF Behind
    <3>7. QED
      BY <2>4, <3>1, <3>3, <3>6 DEF CallFits
  <2>5. QED
    BY <1>0, <1>4, <2>1, <2>2, <2>3, <2>4, UnlockFields
<1>5. QED
  BY <1>1, <1>2, <1>3, <1>4 DEF Step

\* Every step keeps the invariant.
LEMMA StepInv == Inv /\ [Next]_vars => Inv'
<1> SUFFICES ASSUME Inv, [Next]_vars PROVE Inv'
  OBVIOUS
<1>1. ASSUME NEW t \in Threads, Start(t) \/ Step(t) PROVE Inv'
  <2>1. \A u \in Threads : CallFits(u)'
    BY <1>1, OthersFit, OwnFits
  <2>2. CallsFit'
    BY <2>1 DEF CallsFit
  <2>3. QED
    BY <1>1, <2>2, StepTyped, StepLocks, StepTable DEF Inv
<1>2. CASE UNCHANGED vars
  <2>1. /\ header' = header /\ stored' = stored /\ call' = call /\ left' = left
        /\ populated_count' = populated_count /\ deleted_count' = deleted_count
    BY <1>2 DEF vars
  <2>2. \A t \in Threads, s \in Slots : Holds(t, s)' <=> Holds(t, s)
    BY <2>1 DEF Holds
  <2>3. States' = States
    BY <2>1 DEF States, State, Holds
  <2>4. AtomicTypeOK' /\ LocksFit'
    BY <2>1, <2>2 DEF Inv, AtomicTypeOK, LocksFit
  <2>5. StoredFits' /\ OneSlotPerKey' /\ ProbesArrive'
    BY <2>1, <2>3 DEF Inv, StoredFits, OneSlotPerKey, ProbesArrive
  <2>6. CallsFit'
    <3>1. \A t \in Threads : Behind(t) => Behind(t)'
      BY <2>1, <2>3 DEF Behind
    <3>2. \A t \in Threads : CallFits(t)'
      BY <2>1, <3>1 DEF Inv, CallsFit, CallFits, Probes
    <3>3. QED
      BY <3>2 DEF CallsFit
  <2>7. QED
    BY <2>4, <2>5, <2>6 DEF Inv
<1>3. QED
  BY <1>1, <1>2 DEF Next

\* An allocation another table built has the invariant.
LEMMA InitInv == Init => Inv
<1> SUFFICES ASSUME Init PROVE Inv
  OBVIOUS
<1>1. PICK states \in [Slots -> {Free, Deleted, Populated}] :
        \E keys \in [Slots -> Keys \cup {NoKey}] :
            /\ \A s \in Slots : keys[s] = NoKey <=> states[s] # Populated
            /\ UniqueKeys(states, keys) /\ ReachableKeys(states, keys)
            /\ header = states /\ stored = keys
  BY DEF Init
<1>2. \A t \in Threads : call[t] = Idle /\ call[t].step = "idle"
  BY DEF Init, Idle
<1>3. \A t \in Threads, s \in Slots : ~Holds(t, s)
  BY <1>2 DEF Holds
<1>4. States = header
  BY <1>1, <1>3 DEF States, State
<1>5. LocksFit
  BY <1>1, <1>3, Bits DEF LocksFit
<1>6. StoredFits /\ OneSlotPerKey /\ ProbesArrive
  BY <1>1, <1>4 DEF StoredFits, OneSlotPerKey, ProbesArrive
<1>7. CallsFit
  BY <1>2 DEF CallsFit, CallFits, Probes
<1>8. AtomicTypeOK
  <2>1. call \in [Threads -> CallSpace]
    BY IdleTyped DEF Init
  <2>2. \A st \in {Populated, Deleted} : Cardinality(InState(header, st)) \in 0 .. CountSpan - 1
    <3>1. \A st : InState(header, st) \in SUBSET Slots
      BY <1>1 DEF InState
    <3>2. IsFiniteSet(Slots) /\ Cardinality(Slots) = SlotsCount
      BY FS_Interval, Slots0
    <3>3. \A T \in SUBSET Slots : Cardinality(T) \in Nat /\ Cardinality(T) <= SlotsCount
      BY <3>2, FS_Subset, FS_CardinalityType
    <3>4. QED
      BY <3>1, <3>3, AtomicAssumption
  <2>3. left \in [Threads -> 0 .. Calls]
    BY AtomicAssumption DEF Init
  <2>4. QED
    BY <1>1, <2>1, <2>2, <2>3 DEF AtomicTypeOK, CallSpace, Init
<1>9. QED
  BY <1>5, <1>6, <1>7, <1>8 DEF Inv

\* What every state of the table has: the types, the locks, the keys, the promises and the calls fit.
THEOREM Invariance == Spec => []Inv
BY InitInv, StepInv, PTL DEF Spec

----------------------------------------------------------------------------
(* The counters.                                                           *)

\* The insertions that are in the table and not yet in its counter.
Uncounted == {t \in Threads : \/ call[t].step = "count"
                              \/ call[t].step = "unlock" /\ call[t].verdict = "inserted"}

CountsInv == IsFiniteSet(Uncounted) /\ CountsSettle

\* The slots in a state are finitely many, no more than the table has.
LEMMA FewSlots ==
    ASSUME NEW T \in SUBSET Slots
    PROVE  IsFiniteSet(T) /\ Cardinality(T) \in Nat /\ Cardinality(T) <= SlotsCount
<1>1. IsFiniteSet(Slots) /\ Cardinality(Slots) = SlotsCount
  <2>1. IsFiniteSet(0 .. SlotsCount - 1) /\ Cardinality(0 .. SlotsCount - 1) = SlotsCount
    BY FS_Interval, Slots0
  <2>2. QED
    BY <2>1, Slots0
<1>2. IsFiniteSet(T)
  BY <1>1, FS_Subset
<1>3. QED
  BY <1>1, <1>2, FS_Subset, FS_CardinalityType

\* The counter of insertions, with those yet to be counted, follows what the slots gain and lose.
LEMMA Sums ==
    ASSUME NEW p \in 0 .. CountSpan - 1, NEW u \in Nat, NEW slots \in Nat, slots < CountSpan,
           (p + u) % CountSpan = slots
    PROVE  /\ slots + 1 < CountSpan => (p + (u + 1)) % CountSpan = slots + 1
           /\ slots > 0 => (((p - 1) % CountSpan) + u) % CountSpan = slots - 1
           /\ (((p + 1) % CountSpan) + (u - 1)) % CountSpan = slots
<1>0. CountSpan \in Nat \ {0} /\ p \in Int
  BY AtomicAssumption, Slots0
<1>a. \A a, d \in Int : ((a % CountSpan) + d) % CountSpan = (a + d) % CountSpan
  BY <1>0, OneOn, Zenon
<1>b. {p + u, p - 1, p + 1, u, u - 1, 1, -1} \subseteq Int
  BY <1>0
<1>1. ASSUME slots + 1 < CountSpan PROVE (p + (u + 1)) % CountSpan = slots + 1
  <2>1. (((p + u) % CountSpan) + 1) % CountSpan = ((p + u) + 1) % CountSpan
    BY <1>a, <1>b, Zenon
  <2>2. (p + u) + 1 = p + (u + 1)
    BY <1>0
  <2>3. (slots + 1) % CountSpan = slots + 1
    BY <1>0, <1>1, Turns
  <2>4. QED
    BY <2>1, <2>2, <2>3
<1>2. ASSUME slots > 0 PROVE (((p - 1) % CountSpan) + u) % CountSpan = slots - 1
  <2>1. (((p - 1) % CountSpan) + u) % CountSpan = ((p - 1) + u) % CountSpan
    BY <1>a, <1>b, Zenon
  <2>2. (((p + u) % CountSpan) + (-1)) % CountSpan = ((p + u) + (-1)) % CountSpan
    BY <1>a, <1>b, Zenon
  <2>3. (p - 1) + u = (p + u) + (-1) /\ slots + (-1) = slots - 1 /\ slots - 1 \in 0 .. CountSpan - 1
    BY <1>0, <1>2
  <2>4. (slots - 1) % CountSpan = slots - 1
    BY <1>0, <2>3, Turns
  <2>5. QED
    BY <2>1, <2>2, <2>3, <2>4
<1>3. (((p + 1) % CountSpan) + (u - 1)) % CountSpan = slots
  <2>1. (((p + 1) % CountSpan) + (u - 1)) % CountSpan = ((p + 1) + (u - 1)) % CountSpan
    BY <1>a, <1>b, Zenon
  <2>2. (p + 1) + (u - 1) = p + u
    BY <1>0
  <2>3. QED
    BY <2>1, <2>2
<1>4. QED
  BY <1>1, <1>2, <1>3

\* Of the insertions yet to be counted a step can add or remove only its own.
LEMMA UncountedAfter ==
    ASSUME Inv, NEW t \in Threads, Start(t) \/ Step(t)
    PROVE  /\ Take(t) /\ Visit(t) => t \notin Uncounted /\ Uncounted' = Uncounted \cup {t}
           /\ Count(t) => t \in Uncounted /\ Uncounted' = Uncounted \ {t}
           /\ ~(Take(t) /\ Visit(t)) /\ ~Count(t) => Uncounted' = Uncounted
<1>0. AtomicTypeOK
  BY DEF Inv
<1>1. \A u \in Threads \ {t} : u \in Uncounted' <=> u \in Uncounted
  BY <1>0, OneMoves DEF Others, Uncounted
<1>2. Uncounted \subseteq Threads /\ Uncounted' \subseteq Threads
  BY DEF Uncounted
<1>3. CASE Visit(t)
  <2>1. t \notin Uncounted /\ call[t].step = "held" /\ call'[t].step = "unlock"
    BY <1>0, <1>3, VisitFields DEF Uncounted
  <2>2. CASE Take(t)
    <3>1. call'[t].verdict = "inserted"
      BY <1>0, <2>2, DecidedFields DEF Take
    <3>2. t \in Uncounted'
      BY <2>1, <3>1 DEF Uncounted
    <3>3. ~Count(t)
      BY <2>1 DEF Count
    <3>4. Uncounted' = Uncounted \cup {t}
      BY <1>1, <1>2, <3>2
    <3>5. QED
      BY <1>3, <2>1, <2>2, <3>3, <3>4
  <2>3. CASE ~Take(t)
    <3>1. call'[t].verdict # "inserted"
      BY <1>0, <1>3, <2>3, DecidedFields DEF Visit, Match, Miss, Pass
    <3>2. t \notin Uncounted'
      BY <2>1, <3>1 DEF Uncounted
    <3>3. ~Count(t)
      BY <2>1 DEF Count
    <3>4. Uncounted' = Uncounted
      BY <1>1, <1>2, <2>1, <3>2
    <3>5. QED
      BY <2>3, <3>3, <3>4
  <2>4. QED
    BY <2>2, <2>3
<1>4. CASE Count(t)
  <2>1. call[t].step = "count" /\ call'[t].step = "idle"
    BY <1>0, <1>4, CountMoves DEF Idle
  <2>2. t \in Uncounted /\ t \notin Uncounted' /\ ~Visit(t)
    BY <2>1 DEF Uncounted, Visit
  <2>3. Uncounted' = Uncounted \ {t}
    BY <1>1, <1>2, <2>2
  <2>4. QED
    BY <1>4, <2>2, <2>3
<1>5. CASE Start(t) \/ Lock(t) \/ Unlock(t)
  <2>1. ~Visit(t) /\ ~Count(t)
    BY <1>5 DEF Start, Lock, Unlock, Visit, Count
  <2>2. t \in Uncounted' <=> t \in Uncounted
    <3>1. CASE Start(t)
      <4>1. call[t].step = "idle" /\ call'[t].step = "lock"
        BY <1>0, <2>1, <3>1, RestFields DEF Start
      <4>2. QED
        BY <4>1 DEF Uncounted
    <3>2. CASE Lock(t)
      BY <1>0, <3>2, LockFields DEF Uncounted
    <3>3. CASE Unlock(t)
      <4>1. call[t].step = "unlock" /\ header[call[t].at] = Locked
        BY <1>0, <3>3 DEF Inv, LocksFit, Holds, Unlock, AtomicTypeOK
      <4>2. QED
        BY <1>0, <3>3, <4>1, UnlockFields DEF Uncounted
    <3>4. QED
      BY <1>5, <3>1, <3>2, <3>3
  <2>3. Uncounted' = Uncounted
    BY <1>1, <1>2, <2>2
  <2>4. QED
    BY <2>1, <2>3
<1>6. QED
  BY <1>3, <1>4, <1>5 DEF Step

\* What CountsSettle says, with the insertions yet to be counted by their name.
Totals ==
    /\ (populated_count + Cardinality(Uncounted)) % CountSpan = Cardinality(InState(States, Populated))
    /\ deleted_count = Cardinality(InState(States, Deleted))

\* CountsSettle is Totals.
LEMMA TotalsAre == CountsSettle <=> Totals
BY DEF CountsSettle, Totals, Uncounted

\* ... and so after a step.
LEMMA TotalsAfter == CountsSettle' <=> Totals'
BY TotalsAre, PTL

\* A step that leaves the states and the counters leaves the counters right.
LEMMA QuietSettles ==
    ASSUME CountsInv, States' = States, Uncounted' = Uncounted,
           UNCHANGED <<populated_count, deleted_count>>
    PROVE  CountsInv'
<1>1. Totals'
  BY TotalsAre DEF CountsInv, Totals, InState
<1>2. QED
  BY <1>1, TotalsAfter DEF CountsInv

\* What a thread does under its lock keeps the counters right: an erasure counts at once, an insertion later.
LEMMA VisitSettles ==
    ASSUME Inv, CountsInv, NEW t \in Threads, Visit(t)
    PROVE  CountsInv'
<1>0. AtomicTypeOK /\ Step(t) /\ DOMAIN States = Slots /\ Totals /\ ~Count(t)
  BY DomainOfStates, TotalsAre DEF Inv, CountsInv, Step, Visit, Count
<1>1. PICK at \in Slots : at = call[t].at
  BY <1>0 DEF AtomicTypeOK
<1>2. States' = [States EXCEPT ![at] = call'[t].staged] /\ States[at] = call[t].staged
  BY <1>0, <1>1, StatesAfter
<1> DEFINE pop == InState(States, Populated)
           del == InState(States, Deleted)
           p == populated_count
           d == deleted_count
           n == Cardinality(Uncounted)
<1>3. DOMAIN States' = Slots /\ \A s \in Slots : States'[s] = IF s = at THEN call'[t].staged ELSE States[s]
  BY <1>0, <1>2
<1>4. /\ pop \in SUBSET Slots /\ del \in SUBSET Slots
      /\ InState(States, Populated)' \in SUBSET Slots /\ InState(States, Deleted)' \in SUBSET Slots
  BY <1>0, <1>3 DEF InState
<1>5. /\ p \in 0 .. CountSpan - 1 /\ n \in Nat /\ IsFiniteSet(Uncounted)
      /\ IsFiniteSet(pop) /\ IsFiniteSet(del)
      /\ Cardinality(pop) \in Nat /\ Cardinality(pop) < CountSpan /\ Cardinality(del) \in Nat
  BY <1>0, <1>4, FewSlots, FS_CardinalityType, AtomicAssumption DEF CountsInv, AtomicTypeOK
<1>6. (p + n) % CountSpan = Cardinality(pop) /\ d = Cardinality(del)
  BY <1>0 DEF Totals
<1>7. CASE Take(t)
  <2>1. call'[t].staged = Populated /\ States[at] = Free
    BY <1>0, <1>1, <1>2, <1>7, DecidedFields DEF Take, Unused
  <2>2. /\ InState(States, Populated)' = pop \cup {at} /\ at \notin pop
        /\ InState(States, Deleted)' = del
    BY <1>0, <1>3, <2>1, Bits DEF InState
  <2>3. Cardinality(pop \cup {at}) = Cardinality(pop) + 1 /\ Cardinality(pop) + 1 < CountSpan
    <3>1. Cardinality(pop \cup {at}) = Cardinality(pop) + 1
      BY <1>5, <2>2, FS_AddElement
    <3>2. Cardinality(pop \cup {at}) <= SlotsCount
      BY <1>4, <2>2, FewSlots
    <3>3. QED
      BY <1>5, <3>1, <3>2, AtomicAssumption
  <2>4. IsFiniteSet(Uncounted') /\ Cardinality(Uncounted') = n + 1
    <3>1. t \notin Uncounted /\ Uncounted' = Uncounted \cup {t}
      BY <1>0, <1>7, UncountedAfter
    <3>2. QED
      BY <1>5, <3>1, FS_AddElement
  <2>5. (p + (n + 1)) % CountSpan = Cardinality(pop) + 1
    BY <1>5, <1>6, <2>3, Sums
  <2>6. Totals'
    BY <1>6, <1>7, <2>2, <2>3, <2>4, <2>5 DEF Totals, Take
  <2>7. QED
    BY <2>4, <2>6, TotalsAfter DEF CountsInv
<1>8. CASE Match(t) /\ call[t].op = "erase"
  <2>1. /\ call'[t].staged = Deleted /\ call'[t].verdict = "found" /\ States[at] = Populated
        /\ p' = (p - 1) % CountSpan /\ d' = (d + 1) % CountSpan
    BY <1>0, <1>1, <1>2, <1>8, DecidedFields DEF Match, Erased
  <2>2. /\ InState(States, Populated)' = pop \ {at} /\ at \in pop
        /\ InState(States, Deleted)' = del \cup {at} /\ at \notin del
    BY <1>0, <1>3, <2>1, Bits DEF InState
  <2>3. Cardinality(pop \ {at}) = Cardinality(pop) - 1 /\ Cardinality(pop) > 0
    <3>1. Cardinality(pop \ {at}) = Cardinality(pop) - 1
      BY <1>5, <2>2, FS_RemoveElement
    <3>2. Cardinality(pop \ {at}) \in Nat
      BY <1>4, <2>2, FewSlots
    <3>3. QED
      BY <1>5, <3>1, <3>2
  <2>4. Cardinality(del \cup {at}) = Cardinality(del) + 1 /\ (d + 1) % CountSpan = d + 1
    <3>1. Cardinality(del \cup {at}) = Cardinality(del) + 1
      BY <1>5, <2>2, FS_AddElement
    <3>2. Cardinality(del \cup {at}) <= SlotsCount
      BY <1>4, <2>2, FewSlots
    <3>3. d + 1 \in 0 .. CountSpan - 1 /\ CountSpan \in Nat \ {0}
      BY <1>5, <1>6, <3>1, <3>2, AtomicAssumption
    <3>4. QED
      BY <3>1, <3>3, Turns
  <2>5. Uncounted' = Uncounted
    <3>1. ~Take(t)
      BY <1>0, <2>1, DecidedFields DEF Take
    <3>2. QED
      BY <1>0, <3>1, UncountedAfter
  <2>6. (((p - 1) % CountSpan) + n) % CountSpan = Cardinality(pop) - 1
    BY <1>5, <1>6, <2>3, Sums
  <2>7. Totals'
    BY <1>6, <2>1, <2>2, <2>3, <2>4, <2>5, <2>6 DEF Totals
  <2>8. QED
    BY <1>5, <2>5, <2>7, TotalsAfter DEF CountsInv
<1>9. CASE (Match(t) /\ call[t].op # "erase") \/ Miss(t) \/ Pass(t)
  <2>1. /\ call'[t].staged = call[t].staged /\ call'[t].verdict # "inserted"
        /\ UNCHANGED <<populated_count, deleted_count>>
    BY <1>0, <1>9, DecidedFields DEF Match, Miss, Pass
  <2>2. States' = States
    BY <1>2, <2>1, Zenon DEF States
  <2>3. Uncounted' = Uncounted
    <3>1. ~Take(t)
      BY <1>0, <2>1, DecidedFields DEF Take
    <3>2. QED
      BY <1>0, <3>1, UncountedAfter
  <2>4. QED
    BY <2>1, <2>2, <2>3, QuietSettles
<1>10. QED
  BY <1>7, <1>8, <1>9 DEF Visit

\* Every step of a thread keeps the counters right.
LEMMA StepSettles ==
    ASSUME Inv, CountsInv, NEW t \in Threads, Start(t) \/ Step(t)
    PROVE  CountsInv'
<1>1. CASE Visit(t)
  BY <1>1, VisitSettles
<1>2. CASE Start(t) \/ Lock(t) \/ Unlock(t)
  <2>1. ~Visit(t) /\ ~Count(t) /\ UNCHANGED <<populated_count, deleted_count>>
    BY <1>2 DEF Start, Lock, Unlock, Visit, Count
  <2>2. QED
    BY <2>1, StatesAfter, UncountedAfter, QuietSettles
<1>3. CASE Count(t)
  <2>1. ~Visit(t) /\ UNCHANGED deleted_count /\ populated_count' = (populated_count + 1) % CountSpan
    BY <1>3 DEF Count, Visit
  <2>2. States' = States /\ t \in Uncounted /\ Uncounted' = Uncounted \ {t}
    BY <1>3, <2>1, StatesAfter, UncountedAfter
  <2> DEFINE n == Cardinality(Uncounted)
             slots == Cardinality(InState(States, Populated))
  <2>3. /\ IsFiniteSet(Uncounted) /\ Totals /\ n \in Nat
        /\ IsFiniteSet(Uncounted \ {t}) /\ Cardinality(Uncounted \ {t}) = n - 1
    BY <2>2, FS_CardinalityType, FS_RemoveElement, TotalsAre DEF CountsInv
  <2>4. populated_count \in 0 .. CountSpan - 1 /\ slots \in Nat /\ slots < CountSpan
    <3>1. InState(States, Populated) \in SUBSET Slots
      BY DomainOfStates DEF InState
    <3>2. QED
      BY <3>1, FewSlots, AtomicAssumption DEF Inv, AtomicTypeOK
  <2>5. (((populated_count + 1) % CountSpan) + (n - 1)) % CountSpan = slots
    BY <2>3, <2>4, Sums DEF Totals
  <2>6. Totals'
    BY <2>1, <2>2, <2>3, <2>5 DEF Totals, InState
  <2>7. QED
    BY <2>2, <2>3, <2>6, TotalsAfter DEF CountsInv
<1>4. QED
  BY <1>1, <1>2, <1>3 DEF Step

\* The counters start out right, with nothing to be counted.
LEMMA InitSettles == Init => CountsInv
<1> SUFFICES ASSUME Init PROVE CountsInv
  OBVIOUS
<1>1. \A t \in Threads : call[t].step = "idle"
  BY DEF Init, Idle
<1>2. Uncounted = {} /\ States = header
  <2>1. header = [s \in Slots |-> header[s]]
    BY DEF Init
  <2>2. \A t \in Threads, s \in Slots : ~Holds(t, s)
    BY <1>1 DEF Holds
  <2>3. QED
    BY <1>1, <2>1, <2>2 DEF Uncounted, States, State
<1>3. IsFiniteSet(Uncounted) /\ Cardinality(Uncounted) = 0
  BY <1>2, FS_EmptySet
<1>4. populated_count \in 0 .. CountSpan - 1
  BY InitInv DEF Inv, AtomicTypeOK
<1>5. (populated_count + 0) % CountSpan = populated_count
  <2>1. populated_count + 0 = populated_count /\ CountSpan \in Nat \ {0}
    BY <1>4, AtomicAssumption
  <2>2. populated_count % CountSpan = populated_count
    BY <1>4, <2>1, Turns
  <2>3. QED
    BY <2>1, <2>2
<1>6. Totals
  BY <1>2, <1>3, <1>5 DEF Totals, Init
<1>7. QED
  BY <1>3, <1>6, TotalsAre DEF CountsInv

\* Every step keeps the counters right.
LEMMA NextSettles == Inv /\ CountsInv /\ [Next]_vars => CountsInv'
<1> SUFFICES ASSUME Inv, CountsInv, [Next]_vars PROVE CountsInv'
  OBVIOUS
<1>1. ASSUME NEW t \in Threads, Start(t) \/ Step(t) PROVE CountsInv'
  BY <1>1, StepSettles
<1>2. CASE UNCHANGED vars
  <2>1. Uncounted' = Uncounted /\ States' = States /\ UNCHANGED <<populated_count, deleted_count>>
    BY <1>2 DEF vars, Uncounted, States, State, Holds
  <2>2. QED
    BY <2>1, QuietSettles
<1>3. QED
  BY <1>1, <1>2 DEF Next

----------------------------------------------------------------------------
(* The theorems.                                                           *)

\* Every thread, every slot and both counters stay within what the code can hold.
THEOREM TypeCorrect == Spec => []AtomicTypeOK
<1>1. Inv => AtomicTypeOK
  BY DEF Inv
<1>2. QED
  BY <1>1, Invariance, PTL

\* A slot has both its bits set exactly while a thread works on it, and no two threads ever work on one.
THEOREM SlotsHeldAlone == Spec => []HeldAlone
<1>1. ASSUME LocksFit PROVE HeldAlone
  <2>1. ASSUME NEW s \in Slots
        PROVE  Cardinality({t \in Threads : Holds(t, s)}) = IF header[s] = Locked THEN 1 ELSE 0
    <3>1. CASE header[s] = Locked
      <4>1. PICK t \in Threads : Holds(t, s)
        BY <1>1, <3>1 DEF LocksFit
      <4>2. {u \in Threads : Holds(u, s)} = {t}
        BY <1>1, <4>1 DEF LocksFit
      <4>3. QED
        BY <3>1, <4>2, FS_Singleton
    <3>2. CASE header[s] # Locked
      <4>1. {u \in Threads : Holds(u, s)} = {}
        BY <1>1, <3>2 DEF LocksFit
      <4>2. QED
        BY <3>2, <4>1, FS_EmptySet
    <3>3. QED
      BY <3>1, <3>2
  <2>2. QED
    BY <2>1 DEF HeldAlone
<1>2. Inv => HeldAlone
  BY <1>1 DEF Inv
<1>3. QED
  BY <1>2, Invariance, PTL

\* However the insertions and erasures of any number of threads interleave, a key is in one slot at most.
THEOREM KeysStaySingle == Spec => []OneSlotPerKey
<1>1. Inv => OneSlotPerKey
  BY DEF Inv
<1>2. QED
  BY <1>1, Invariance, PTL

\* A probe walks over no free slot before it reaches a key that is stored.
THEOREM ProbesReachKeys == Spec => []ProbesArrive
<1>1. Inv => ProbesArrive
  BY DEF Inv
<1>2. QED
  BY <1>1, Invariance, PTL

\* A call that found its slot free, or walked the whole circle, has seen every slot its key could be in.
LEMMA NowhereElse ==
    ASSUME Inv, NEW t \in Threads, call[t].step = "unlock", call[t].verdict \in {"missing", "exhausted"},
           NEW s \in Slots
    PROVE  /\ States[s] = Populated => stored[s] # call[t].key
           /\ call[t].verdict = "exhausted" => States[s] # Free
<1>0. /\ CallFits(t) /\ Probes(t) /\ Behind(t) /\ call[t].at \in Slots /\ call[t].probes \in Slots
      /\ States[call[t].at] = call[t].staged
  <2>1. StateFits
    BY StateIs DEF Inv
  <2>2. QED
    BY <2>1 DEF Inv, CallsFit, CallFits, Probes, StateFits, Holds, AtomicTypeOK
<1>1. PICK k \in Keys, at \in Slots, n \in Slots :
          k = call[t].key /\ at = call[t].at /\ n = call[t].probes
  BY <1>0 DEF CallFits
<1>2. Distance(k, at, SlotsCount) = n /\ stored[at] # k
  BY <1>0, <1>1 DEF CallFits
<1>3. CASE call[t].probes + 1 = SlotsCount
  <2>1. CASE s = at
    BY <1>0, <1>1, <1>2, <2>1 DEF CallFits
  <2>2. CASE s # at
    <3>1. Distance(k, s, SlotsCount) # n /\ Distance(k, s, SlotsCount) \in Slots
      BY <1>2, <2>2, Distances
    <3>2. Distance(k, s, SlotsCount) < n
      BY <1>1, <1>3, <3>1, Slots0
    <3>3. QED
      BY <1>0, <1>1, <3>2 DEF Behind
  <2>3. QED
    BY <2>1, <2>2
<1>4. CASE call[t].staged = Free
  BY <1>0, <1>4, FreeMeansNowhere DEF CallFits
<1>5. QED
  BY <1>0, <1>3, <1>4 DEF CallFits

\* A lookup answers "missing", and an insertion "exhausted", only while the key is in no slot.
THEOREM MissesAreRight == Spec => []MissMeansAbsent
<1>1. ASSUME Inv PROVE MissMeansAbsent
  <2>1. ASSUME NEW t \in Threads, call[t].step = "unlock", call[t].verdict \in {"missing", "exhausted"}
        PROVE  call[t].key \notin Present
    BY <1>1, <2>1, NowhereElse, DomainOfStates DEF Present, InState
  <2>2. QED
    BY <2>1 DEF MissMeansAbsent
<1>2. QED
  BY <1>1, Invariance, PTL

\* An insertion answers that the table is full only while no slot of it is free.
THEOREM FullnessIsRight == Spec => []ExhaustedMeansFull
<1>1. ASSUME Inv PROVE ExhaustedMeansFull
  <2>1. ASSUME NEW t \in Threads, call[t].step = "unlock", call[t].verdict = "exhausted"
        PROVE  InState(States, Free) = {}
    BY <1>1, <2>1, NowhereElse, DomainOfStates DEF InState
  <2>2. QED
    BY <2>1 DEF ExhaustedMeansFull
<1>2. QED
  BY <1>1, Invariance, PTL

\* With the insertions whose thread has yet to count them, the counters tell what the slots hold.
THEOREM CountersSettle == Spec => []CountsSettle
<1>1. Spec => []CountsInv
  BY InitSettles, NextSettles, Invariance, PTL DEF Spec
<1>2. CountsInv => CountsSettle
  BY DEF CountsInv
<1>3. QED
  BY <1>1, <1>2, PTL

=============================================================================
