-------------------------- MODULE HashTableProofs --------------------------
(***************************************************************************)
(* What HashTable keeps true, for every number of keys, slots and values,  *)
(* every hash and all the sizes callers ask for: a probe finds what the    *)
(* calls made of a key, the counters are those of the slots, and the load  *)
(* stays below what a probe needs and a reservation promised.              *)
(***************************************************************************)
EXTENDS HashTable, FiniteSetTheorems, WellFoundedInduction, TLAPS

----------------------------------------------------------------------------
(* What the theorems suppose, beside the types of the constants. *)

\* The allocator grants no more slots than an offset_t counts, and a copy is asked
\* to hold what it copies: with either given up elements are lost.
Fits == TableAssumption /\ MaxSlots < OffsetSpan /\ CopiesFit

\* Where the load is concerned, a bucket is four slots at least, of the 32 of the code.
Buckets == BucketCapacity >= 4

----------------------------------------------------------------------------
(* The books of a table. *)

States == {Free, Deleted, Populated}

Shape(t) ==
    /\ t = [count |-> t.count, allocated |-> t.allocated, states |-> t.states, stored |-> t.stored,
            values |-> t.values, populated |-> t.populated, deleted |-> t.deleted]
    /\ t.count \in 0 .. MaxSlots /\ t.allocated \in BOOLEAN
    /\ t.states \in [Circle(t.count) -> States]
    /\ t.stored \in [Circle(t.count) -> Keys \cup {NoKey}]
    /\ t.values \in [Circle(t.count) -> Values \cup {Absent}]

\* A slot in use has a key of its own and a value, and no free slot before it.
Placed(t) ==
    \A s \in Circle(t.count) : t.states[s] = Populated =>
        /\ t.stored[s] \in Keys /\ t.values[s] \in Values
        /\ \A p \in Passed(t.stored[s], s, t.count) : t.states[p] # Free
        /\ \A r \in Circle(t.count) : t.states[r] = Populated /\ t.stored[r] = t.stored[s] => r = s

Tallied(t) ==
    /\ t.populated = Cardinality(InState(t.states, Populated))
    /\ t.deleted = Cardinality(InState(t.states, Deleted))

Sound(t) == Shape(t) /\ Placed(t) /\ Tallied(t)

\* A slot in use has the key and the value.
Has(t, k, v) ==
    \E s \in Circle(t.count) : t.states[s] = Populated /\ t.stored[s] = k /\ t.values[s] = v

Holds(t, c) == \A k \in Keys, v \in Values : Has(t, k, v) <=> c[k] = v

----------------------------------------------------------------------------
(* Sets of numbers. *)

\* A set of naturals that is not empty has a least member.
LEMMA LeastNatural ==
    ASSUME NEW S \in SUBSET Nat, S # {}
    PROVE  \E z \in S : \A x \in S : z <= x
<1> DEFINE Upto == {0 .. x : x \in S}
<1>1. Upto \subseteq FiniteSubsetsOf(Nat) /\ Upto # {}
  <2>1. ASSUME NEW x \in S PROVE 0 .. x \in FiniteSubsetsOf(Nat)
    <3>1. IsFiniteSet(0 .. x)
      BY FS_Interval
    <3>2. 0 .. x \subseteq Nat
      OBVIOUS
    <3>3. QED
      BY <3>1, <3>2 DEF FiniteSubsetsOf
  <2>2. QED
    BY <2>1
<1>2. PICK i \in Upto : \A j \in Upto : ~ (<<j, i>> \in StrictSubsetOrdering(Nat))
  BY <1>1, FS_StrictSubsetOrderingWellFounded, WFMin, Zenon
<1>3. PICK z \in S : i = 0 .. z
  OBVIOUS
<1>4. ASSUME NEW y \in S, y < z PROVE FALSE
  <2>1. z \in 0 .. z /\ z \notin 0 .. y /\ 0 .. y \subseteq 0 .. z
    BY <1>4
  <2>2. <<0 .. y, 0 .. z>> \in StrictSubsetOrdering(Nat)
    BY <2>1 DEF StrictSubsetOrdering
  <2>3. QED
    BY <2>2, <1>2, <1>3
<1>5. QED
  BY <1>4

\* What holds of 0, and of the successor of every natural it holds of, holds of all.
LEMMA UpFromZero ==
    ASSUME NEW S \in SUBSET Nat, 0 \in S, \A n \in Nat : n \in S => n + 1 \in S
    PROVE  S = Nat
<1>1. SUFFICES ASSUME Nat \ S # {} PROVE FALSE
  OBVIOUS
<1>2. PICK z \in Nat \ S : \A x \in Nat \ S : z <= x
  <2>1. Nat \ S \in SUBSET Nat
    OBVIOUS
  <2>2. QED
    BY <1>1, <2>1, LeastNatural
<1>3. z # 0 /\ z - 1 \in Nat /\ (z - 1) + 1 = z
  BY <1>2
<1>4. z - 1 \in S
  BY <1>2, <1>3
<1>5. QED
  BY <1>2, <1>3, <1>4

\* The larger of two numbers.
LEMMA MaxIs ==
    ASSUME NEW x \in Int, NEW y \in Int
    PROVE  /\ Max({x, y}) \in {x, y} /\ Max({x, y}) >= x /\ Max({x, y}) >= y
           /\ x >= y => Max({x, y}) = x
           /\ y >= x => Max({x, y}) = y
<1>1. \E z \in {x, y} : \A u \in {x, y} : z >= u
  <2>1. CASE x >= y
    BY <2>1
  <2>2. CASE y >= x
    BY <2>2
  <2>3. QED
    BY <2>1, <2>2
<1>2. Max({x, y}) \in {x, y} /\ \A u \in {x, y} : Max({x, y}) >= u
  BY <1>1 DEF Max
<1>3. QED
  BY <1>2

----------------------------------------------------------------------------
(* The circle. *)

\* A number is the multiple of a divisor and the remainder that % leaves of it.
LEMMA Division ==
    ASSUME NEW n \in Nat \ {0}, NEW a \in Int
    PROVE  a % n \in 0 .. n - 1 /\ a \div n \in Int /\ a = n * (a \div n) + (a % n)
OBVIOUS

\* How many slots a probe for a key visits first is a number.
LEMMA DistanceIs ==
    ASSUME NEW n \in Nat, NEW k \in Keys, NEW s \in Circle(n)
    PROVE  n # 0 /\ Distance(k, s, n) \in Nat
<1>1. Hash[k] \in Nat /\ n \in Nat \ {0} /\ s \in Nat
  BY LayoutAssumption DEF Keys, Circle
<1>2. Initial(k, n) \in Nat
  BY <1>1 DEF Initial
<1> DEFINE i == Initial(k, n)
<1> HIDE DEF i
<1>3. (s - i) % n \in 0 .. n - 1
  <2>1. s - i \in Int
    BY <1>1, <1>2 DEF i
  <2>2. QED
    BY <1>1, <2>1, Division
<1>4. QED
  BY <1>1, <1>3 DEF Distance, i

\* Of slots a probe may go to, the nearest is one, and it passes no other.
LEMMA NearestIs ==
    ASSUME NEW n \in Nat, NEW k \in Keys, NEW S \in SUBSET Circle(n), S # {}
    PROVE  /\ Nearest(k, S, n) \in S
           /\ \A p \in Passed(k, Nearest(k, S, n), n) : p \in Circle(n) /\ p \notin S
<1> DEFINE d(s) == Distance(k, s, n)
           D == {d(s) : s \in S}
<1>1. \A s \in Circle(n) : d(s) \in Nat
  BY DistanceIs
<1>2. PICK z \in D : \A x \in D : z <= x
  <2>1. D \in SUBSET Nat /\ D # {}
    BY <1>1
  <2>2. QED
    BY <2>1, LeastNatural
<1>3. \E s \in S : \A r \in S : d(s) <= d(r)
  BY <1>2
<1>4. Nearest(k, S, n) \in S /\ \A r \in S : d(Nearest(k, S, n)) <= d(r)
  BY <1>3 DEF Nearest
<1>5. QED
  BY <1>1, <1>4 DEF Passed

----------------------------------------------------------------------------
(* Slots, and what a table has in them. *)

\* There are as many slots as the count says.
LEMMA CircleIs ==
    ASSUME NEW n \in Nat
    PROVE  /\ IsFiniteSet(Circle(n)) /\ Cardinality(Circle(n)) = n
           /\ n = 0 => Circle(n) = {}
<1>1. 0 \in Int /\ n - 1 \in Int
  OBVIOUS
<1>2. IsFiniteSet(0 .. n - 1) /\ Cardinality(0 .. n - 1) = IF 0 > n - 1 THEN 0 ELSE n - 1 - 0 + 1
  BY <1>1, FS_Interval
<1>3. QED
  BY <1>2 DEF Circle

\* The slots in a state are slots, and no more than there are.
LEMMA InStateIs ==
    ASSUME NEW t, Shape(t), NEW x
    PROVE  /\ t.count \in Nat /\ DOMAIN t.states = Circle(t.count)
           /\ InState(t.states, x) = {s \in Circle(t.count) : t.states[s] = x}
           /\ IsFiniteSet(InState(t.states, x)) /\ Cardinality(InState(t.states, x)) \in 0 .. t.count
<1>1. MaxSlots \in Nat => t.count \in Nat
  BY DEF Shape
<1>2. t.count \in Nat /\ DOMAIN t.states = Circle(t.count)
  BY DEF Shape
<1>3. InState(t.states, x) = {s \in Circle(t.count) : t.states[s] = x}
  BY <1>2 DEF InState
<1>4. InState(t.states, x) \subseteq Circle(t.count)
  BY <1>3
<1>5. QED
  BY <1>2, <1>3, <1>4, CircleIs, FS_Subset, FS_CardinalityType

\* The three states are different.
LEMMA StatesDiffer ==
    Free # Deleted /\ Free # Populated /\ Deleted # Populated
BY DEF Free, Deleted, Populated

\* A probe finds the slot that has its key, wherever that is, and no other.
LEMMA MatchingIs ==
    ASSUME NEW t, Sound(t), NEW k \in Keys
    PROVE  Matching(t, k) = {s \in Circle(t.count) : t.states[s] = Populated /\ t.stored[s] = k}
<1> DEFINE S == {s \in Circle(t.count) : t.states[s] = Populated /\ t.stored[s] = k}
<1>1. Shape(t) /\ Placed(t) /\ Tallied(t)
  BY DEF Sound
<1>2. CASE t.populated = 0
  <2>1. InState(t.states, Populated) = {}
    BY <1>1, <1>2, InStateIs, FS_EmptySet DEF Tallied
  <2>2. S = {}
    BY <1>1, <2>1, InStateIs
  <2>3. QED
    BY <1>2, <2>2 DEF Matching
<1>3. CASE t.populated # 0
  <2>1. S \subseteq Reached(t, k)
    <3>1. SUFFICES ASSUME NEW s \in S, NEW f \in InState(t.states, Free)
                   PROVE  Distance(k, s, t.count) <= Distance(k, f, t.count)
      BY DEF Reached
    <3>2. s \in Circle(t.count) /\ f \in Circle(t.count) /\ t.states[f] = Free /\ t.count \in Nat
      BY <1>1, <3>1, InStateIs
    <3>3. f \notin Passed(k, s, t.count)
      BY <1>1, <3>1, <3>2 DEF Placed
    <3>4. Distance(k, s, t.count) \in Nat /\ Distance(k, f, t.count) \in Nat
      BY <3>2, DistanceIs
    <3>5. QED
      BY <3>2, <3>3, <3>4 DEF Passed
  <2>2. Reached(t, k) \subseteq Circle(t.count)
    BY DEF Reached
  <2>3. QED
    BY <1>3, <2>1, <2>2 DEF Matching
<1>4. QED
  BY <1>2, <1>3

\* A key that is stored has a slot and a value, and only one of each.
LEMMA HasIs ==
    ASSUME NEW t, Sound(t), NEW k \in Keys
    PROVE  /\ \A s \in Matching(t, k) : Has(t, k, t.values[s]) /\ t.values[s] \in Values
           /\ \A s, r \in Matching(t, k) : s = r
           /\ Matching(t, k) = {} <=> \A v \in Values : ~Has(t, k, v)
           /\ \A s \in Matching(t, k) : \A v : Has(t, k, v) => v = t.values[s]
<1>1. Matching(t, k) = {s \in Circle(t.count) : t.states[s] = Populated /\ t.stored[s] = k}
  BY MatchingIs
<1>2. Placed(t)
  BY DEF Sound
<1>3. QED
  BY <1>1, <1>2 DEF Placed, Has

\* What a table holds of a key is what a probe for it finds.
LEMMA HeldIsFound ==
    ASSUME NEW t, Sound(t), NEW c \in [Keys -> Values \cup {Absent}], Holds(t, c), NEW k \in Keys, TableAssumption
    PROVE  /\ {t.values[s] : s \in Matching(t, k)} = IF c[k] = Absent THEN {} ELSE {c[k]}
           /\ Matching(t, k) = {} <=> c[k] = Absent
<1>1. Absent \notin Values
  BY DEF TableAssumption, Absent
<1>2. \A s \in Matching(t, k) : t.values[s] \in Values /\ t.values[s] = c[k]
  BY HasIs DEF Holds
<1>3. c[k] \in Values => Matching(t, k) # {}
  BY HasIs DEF Holds
<1>4. QED
  BY <1>1, <1>2, <1>3

----------------------------------------------------------------------------
(* One slot changes. *)

\* The fields of a table in which an element was put.
LEMMA PutFields ==
    ASSUME NEW t, Shape(t), NEW at \in Circle(t.count), NEW k \in Keys, NEW v \in Values
    PROVE  LET u == Put(t, at, k, v)
           IN  /\ u.count = t.count /\ u.allocated = t.allocated
               /\ u.states = [t.states EXCEPT ![at] = Populated]
               /\ u.stored = [t.stored EXCEPT ![at] = k]
               /\ u.values = [t.values EXCEPT ![at] = v]
               /\ u.populated = t.populated + 1
               /\ u.deleted = IF t.states[at] = Deleted THEN t.deleted - 1 ELSE t.deleted
               /\ Shape(u)
<1> DEFINE u == Put(t, at, k, v)
<1>1. /\ u.count = t.count /\ u.allocated = t.allocated
      /\ u.states = [t.states EXCEPT ![at] = Populated]
      /\ u.stored = [t.stored EXCEPT ![at] = k]
      /\ u.values = [t.values EXCEPT ![at] = v]
      /\ u.populated = t.populated + 1
      /\ u.deleted = IF t.states[at] = Deleted THEN t.deleted - 1 ELSE t.deleted
  BY DEF Put, Shape
<1>2. u = [count |-> u.count, allocated |-> u.allocated, states |-> u.states, stored |-> u.stored,
           values |-> u.values, populated |-> u.populated, deleted |-> u.deleted]
  <2>1. DOMAIN t = {"count", "allocated", "states", "stored", "values", "populated", "deleted"}
    BY DEF Shape
  <2>2. u = [x \in {"count", "allocated", "states", "stored", "values", "populated", "deleted"} |-> u[x]]
    BY <2>1 DEF Put
  <2> HIDE DEF u
  <2>3. QED
    BY <2>2
<1> HIDE DEF u
<1>3. Shape(u)
  BY <1>1, <1>2 DEF Shape, States
<1>4. QED
  BY <1>1, <1>3 DEF u

\* What becomes of the counters when one slot takes another state.
LEMMA StateChanges ==
    ASSUME NEW t, Shape(t), Tallied(t), NEW u, Shape(u), u.count = t.count,
           NEW at \in Circle(t.count), NEW x \in States, u.states = [t.states EXCEPT ![at] = x],
           t.states[at] # x
    PROVE  \A y \in States :
               Cardinality(InState(u.states, y)) =
                   IF y = x THEN Cardinality(InState(t.states, y)) + 1
                   ELSE IF y = t.states[at] THEN Cardinality(InState(t.states, y)) - 1
                   ELSE Cardinality(InState(t.states, y))
<1> TAKE y \in States
<1> DEFINE S == InState(t.states, y)
           R == InState(u.states, y)
<1>1. IsFiniteSet(S) /\ S = {s \in Circle(t.count) : t.states[s] = y} /\ R = {s \in Circle(t.count) : u.states[s] = y}
  BY InStateIs
<1>2. u.states[at] = x /\ \A s \in Circle(t.count) \ {at} : u.states[s] = t.states[s]
  BY DEF Shape
<1> HIDE DEF S, R
<1>3. CASE y = x
  <2>1. R = S \cup {at} /\ at \notin S
    BY <1>1, <1>2, <1>3
  <2>2. QED
    BY <1>1, <1>3, <2>1, FS_AddElement DEF S, R
<1>4. CASE y # x /\ y = t.states[at]
  <2>1. R = S \ {at} /\ at \in S
    BY <1>1, <1>2, <1>4
  <2>2. QED
    BY <1>1, <1>4, <2>1, FS_RemoveElement DEF S, R
<1>5. CASE y # x /\ y # t.states[at]
  <2>1. R = S
    BY <1>1, <1>2, <1>5
  <2>2. QED
    BY <1>5, <2>1 DEF S, R
<1>6. QED
  BY <1>3, <1>4, <1>5

\* A new element put where no probe for it ends sooner is found there, and all others still are.
LEMMA PutSound ==
    ASSUME NEW t, Sound(t), NEW k \in Keys, NEW v \in Values, NEW at \in Circle(t.count),
           Matching(t, k) = {}, t.states[at] # Populated,
           \A p \in Passed(k, at, t.count) : t.states[p] # Free
    PROVE  LET u == Put(t, at, k, v)
           IN  /\ Sound(u) /\ u.count = t.count
               /\ u.populated = t.populated + 1
               /\ u.deleted = IF t.states[at] = Deleted THEN t.deleted - 1 ELSE t.deleted
               /\ \A l \in Keys, w \in Values : Has(u, l, w) <=> IF l = k THEN w = v ELSE Has(t, l, w)
<1> DEFINE u == Put(t, at, k, v)
<1>1. Shape(t) /\ Placed(t) /\ Tallied(t)
  BY DEF Sound
<1>2. /\ u.count = t.count /\ Shape(u)
      /\ u.states = [t.states EXCEPT ![at] = Populated]
      /\ u.stored = [t.stored EXCEPT ![at] = k]
      /\ u.values = [t.values EXCEPT ![at] = v]
      /\ u.populated = t.populated + 1
      /\ u.deleted = IF t.states[at] = Deleted THEN t.deleted - 1 ELSE t.deleted
  BY <1>1, PutFields
<1> HIDE DEF u
<1> DEFINE C == Circle(t.count)
<1>3. /\ u.states[at] = Populated /\ u.stored[at] = k /\ u.values[at] = v
      /\ \A s \in C \ {at} :
            u.states[s] = t.states[s] /\ u.stored[s] = t.stored[s] /\ u.values[s] = t.values[s]
  BY <1>1, <1>2 DEF Shape
<1>4. \A s \in C : t.states[s] = Populated => t.stored[s] # k
  BY MatchingIs
<1>5. Placed(u)
  <2>1. SUFFICES ASSUME NEW s \in C, u.states[s] = Populated
                 PROVE  /\ u.stored[s] \in Keys /\ u.values[s] \in Values
                        /\ \A p \in Passed(u.stored[s], s, t.count) : u.states[p] # Free
                        /\ \A r \in C : u.states[r] = Populated /\ u.stored[r] = u.stored[s] => r = s
    BY <1>2 DEF Placed
  <2>2. \A p \in C : t.states[p] # Free => u.states[p] # Free
    BY <1>3, StatesDiffer
  <2>3. \A l, q : Passed(l, q, t.count) \subseteq C
    BY DEF Passed
  <2>4. CASE s = at
    BY <1>3, <1>4, <2>2, <2>3, <2>4
  <2>5. CASE s # at
    <3>1. t.states[s] = Populated /\ u.stored[s] = t.stored[s] /\ u.values[s] = t.values[s]
      BY <1>3, <2>1, <2>5
    <3>2. /\ t.stored[s] \in Keys /\ t.values[s] \in Values
          /\ \A p \in Passed(t.stored[s], s, t.count) : t.states[p] # Free
          /\ \A r \in C : t.states[r] = Populated /\ t.stored[r] = t.stored[s] => r = s
      BY <1>1, <3>1 DEF Placed
    <3>3. \A r \in C : u.states[r] = Populated /\ u.stored[r] = u.stored[s] => r = s
      BY <1>3, <1>4, <3>1, <3>2
    <3>4. QED
      BY <2>2, <2>3, <3>1, <3>2, <3>3
  <2>6. QED
    BY <2>4, <2>5
<1>6. Tallied(u)
  <2>1. \A y \in States :
            Cardinality(InState(u.states, y)) =
                IF y = Populated THEN Cardinality(InState(t.states, y)) + 1
                ELSE IF y = t.states[at] THEN Cardinality(InState(t.states, y)) - 1
                ELSE Cardinality(InState(t.states, y))
    <3>1. Populated \in States
      BY DEF States
    <3>2. QED
      BY <1>1, <1>2, <3>1, StateChanges
  <2>2. QED
    BY <1>1, <1>2, <2>1, StatesDiffer DEF Tallied, States
<1>7. ASSUME NEW l \in Keys, NEW w \in Values
      PROVE  Has(u, l, w) <=> IF l = k THEN w = v ELSE Has(t, l, w)
  <2>1. CASE l = k
    BY <1>2, <1>3, <1>4, <2>1 DEF Has
  <2>2. CASE l # k
    <3>1. \A s \in C : u.states[s] = Populated /\ u.stored[s] = l /\ u.values[s] = w
                        <=> t.states[s] = Populated /\ t.stored[s] = l /\ t.values[s] = w
      BY <1>3, <2>2
    <3>2. QED
      BY <1>2, <2>2, <3>1 DEF Has
  <2>3. QED
    BY <2>1, <2>2
<1>8. QED
  BY <1>2, <1>5, <1>6, <1>7 DEF Sound, u

\* A value overwritten where its key is stored.
Revalued(t, at, v) == [t EXCEPT !.values[at] = v]

\* Overwriting changes the value of its key and nothing else.
LEMMA RevaluedSound ==
    ASSUME NEW t, Sound(t), NEW k \in Keys, NEW v \in Values, NEW at \in Matching(t, k)
    PROVE  LET u == Revalued(t, at, v)
           IN  /\ Sound(u) /\ u.count = t.count /\ u.populated = t.populated /\ u.deleted = t.deleted
               /\ \A l \in Keys, w \in Values : Has(u, l, w) <=> IF l = k THEN w = v ELSE Has(t, l, w)
<1> DEFINE u == Revalued(t, at, v)
           C == Circle(t.count)
<1>1. Shape(t) /\ Placed(t) /\ Tallied(t)
  BY DEF Sound
<1>2. at \in C /\ t.states[at] = Populated /\ t.stored[at] = k
  BY MatchingIs
<1>3. /\ u.count = t.count /\ u.allocated = t.allocated /\ u.states = t.states /\ u.stored = t.stored
      /\ u.values = [t.values EXCEPT ![at] = v] /\ u.populated = t.populated /\ u.deleted = t.deleted
  BY <1>1 DEF Revalued, Shape
<1>4. u = [count |-> u.count, allocated |-> u.allocated, states |-> u.states, stored |-> u.stored,
           values |-> u.values, populated |-> u.populated, deleted |-> u.deleted]
  <2>1. DOMAIN t = {"count", "allocated", "states", "stored", "values", "populated", "deleted"}
    BY <1>1 DEF Shape
  <2>2. u = [x \in {"count", "allocated", "states", "stored", "values", "populated", "deleted"} |-> u[x]]
    BY <2>1 DEF Revalued
  <2> HIDE DEF u
  <2>3. QED
    BY <2>2
<1> HIDE DEF u
<1>5. Shape(u)
  BY <1>1, <1>2, <1>3, <1>4 DEF Shape, States
<1>6. u.values[at] = v /\ \A s \in C \ {at} : u.values[s] = t.values[s]
  BY <1>1, <1>2, <1>3 DEF Shape
<1>7. Placed(u)
  BY <1>1, <1>3, <1>6 DEF Placed
<1>8. Tallied(u)
  BY <1>1, <1>3 DEF Tallied
<1>9. \A s \in C : t.states[s] = Populated /\ t.stored[s] = k => s = at
  BY <1>1, <1>2 DEF Placed
<1>10. ASSUME NEW l \in Keys, NEW w \in Values
       PROVE  Has(u, l, w) <=> IF l = k THEN w = v ELSE Has(t, l, w)
  <2>1. CASE l = k
    BY <1>2, <1>3, <1>6, <1>9, <2>1 DEF Has
  <2>2. CASE l # k
    BY <1>2, <1>3, <1>6, <2>2 DEF Has
  <2>3. QED
    BY <2>1, <2>2
<1>11. QED
  BY <1>3, <1>5, <1>7, <1>8, <1>10 DEF Sound, u

\* The fields of a table an element was erased from.
LEMMA EraseFields ==
    ASSUME NEW t, Shape(t), NEW at \in Circle(t.count)
    PROVE  LET u == Erase(t, at)
           IN  /\ u.count = t.count /\ u.allocated = t.allocated
               /\ u.states = [t.states EXCEPT ![at] = Deleted]
               /\ u.stored = [t.stored EXCEPT ![at] = NoKey]
               /\ u.values = [t.values EXCEPT ![at] = Absent]
               /\ u.populated = t.populated - 1 /\ u.deleted = t.deleted + 1
               /\ Shape(u)
<1> DEFINE u == Erase(t, at)
<1>1. /\ u.count = t.count /\ u.allocated = t.allocated
      /\ u.states = [t.states EXCEPT ![at] = Deleted]
      /\ u.stored = [t.stored EXCEPT ![at] = NoKey]
      /\ u.values = [t.values EXCEPT ![at] = Absent]
      /\ u.populated = t.populated - 1 /\ u.deleted = t.deleted + 1
  BY DEF Erase, Shape
<1>2. u = [count |-> u.count, allocated |-> u.allocated, states |-> u.states, stored |-> u.stored,
           values |-> u.values, populated |-> u.populated, deleted |-> u.deleted]
  <2>1. DOMAIN t = {"count", "allocated", "states", "stored", "values", "populated", "deleted"}
    BY DEF Shape
  <2>2. u = [x \in {"count", "allocated", "states", "stored", "values", "populated", "deleted"} |-> u[x]]
    BY <2>1 DEF Erase
  <2> HIDE DEF u
  <2>3. QED
    BY <2>2
<1> HIDE DEF u
<1>3. Shape(u)
  BY <1>1, <1>2 DEF Shape, States
<1>4. QED
  BY <1>1, <1>3 DEF u

\* An erased key is not found any more, and every other still is: its slot is no end to a probe.
LEMMA EraseSound ==
    ASSUME NEW t, Sound(t), NEW k \in Keys, NEW at \in Matching(t, k)
    PROVE  LET u == Erase(t, at)
           IN  /\ Sound(u) /\ u.count = t.count
               /\ u.populated = t.populated - 1 /\ u.deleted = t.deleted + 1
               /\ \A l \in Keys, w \in Values : Has(u, l, w) <=> l # k /\ Has(t, l, w)
<1> DEFINE u == Erase(t, at)
           C == Circle(t.count)
<1>1. Shape(t) /\ Placed(t) /\ Tallied(t)
  BY DEF Sound
<1>2. at \in C /\ t.states[at] = Populated /\ t.stored[at] = k
  BY MatchingIs
<1>3. /\ u.count = t.count /\ Shape(u)
      /\ u.states = [t.states EXCEPT ![at] = Deleted]
      /\ u.stored = [t.stored EXCEPT ![at] = NoKey]
      /\ u.values = [t.values EXCEPT ![at] = Absent]
      /\ u.populated = t.populated - 1 /\ u.deleted = t.deleted + 1
  BY <1>1, <1>2, EraseFields
<1> HIDE DEF u
<1>4. /\ u.states[at] = Deleted
      /\ \A s \in C \ {at} :
            u.states[s] = t.states[s] /\ u.stored[s] = t.stored[s] /\ u.values[s] = t.values[s]
  BY <1>1, <1>2, <1>3 DEF Shape
<1>5. \A s \in C : u.states[s] = Populated => s # at /\ t.states[s] = Populated
  BY <1>4, StatesDiffer
<1>6. Placed(u)
  <2>1. \A p \in C : t.states[p] # Free => u.states[p] # Free
    BY <1>4, StatesDiffer
  <2>2. \A l, q : Passed(l, q, t.count) \subseteq C
    BY DEF Passed
  <2>3. QED
    BY <1>1, <1>3, <1>4, <1>5, <2>1, <2>2 DEF Placed
<1>7. Tallied(u)
  <2>1. \A y \in States :
            Cardinality(InState(u.states, y)) =
                IF y = Deleted THEN Cardinality(InState(t.states, y)) + 1
                ELSE IF y = t.states[at] THEN Cardinality(InState(t.states, y)) - 1
                ELSE Cardinality(InState(t.states, y))
    <3>1. Deleted \in States
      BY DEF States
    <3>2. QED
      BY <1>1, <1>2, <1>3, <3>1, StateChanges, StatesDiffer
  <2>2. QED
    BY <1>1, <1>2, <1>3, <2>1, StatesDiffer DEF Tallied, States
<1>8. \A s \in C : t.states[s] = Populated /\ t.stored[s] = k => s = at
  BY <1>1, <1>2 DEF Placed
<1>9. ASSUME NEW l \in Keys, NEW w \in Values
      PROVE  Has(u, l, w) <=> l # k /\ Has(t, l, w)
  <2>1. CASE l = k
    <3>1. ~Has(u, l, w)
      BY <1>3, <1>4, <1>5, <1>8, <2>1 DEF Has
    <3>2. QED
      BY <2>1, <3>1
  <2>2. CASE l # k
    BY <1>2, <1>3, <1>4, <1>5, <2>2 DEF Has
  <2>3. QED
    BY <2>1, <2>2
<1>10. QED
  BY <1>3, <1>6, <1>7, <1>9 DEF Sound, u

\* A table with no element in it.
LEMMA EmptySound ==
    ASSUME NEW n \in 0 .. MaxSlots, NEW allocated \in BOOLEAN, MaxSlots \in Nat
    PROVE  LET u == Empty(n, allocated)
           IN  /\ Sound(u) /\ u.count = n /\ u.allocated = allocated /\ u.populated = 0 /\ u.deleted = 0
               /\ \A l \in Keys, w \in Values : ~Has(u, l, w)
<1> DEFINE u == Empty(n, allocated)
<1>1. /\ u.count = n /\ u.allocated = allocated /\ u.populated = 0 /\ u.deleted = 0
      /\ u.states = [s \in Circle(n) |-> Free] /\ u.stored = [s \in Circle(n) |-> NoKey]
      /\ u.values = [s \in Circle(n) |-> Absent]
      /\ u = [count |-> u.count, allocated |-> u.allocated, states |-> u.states, stored |-> u.stored,
              values |-> u.values, populated |-> u.populated, deleted |-> u.deleted]
  BY DEF Empty
<1> HIDE DEF u
<1>2. Shape(u)
  BY <1>1 DEF Shape, States
<1>3. \A s \in Circle(n) : u.states[s] = Free
  BY <1>1
<1>4. InState(u.states, Populated) = {} /\ InState(u.states, Deleted) = {}
  BY <1>1, <1>2, <1>3, InStateIs, StatesDiffer
<1>5. Sound(u)
  BY <1>1, <1>2, <1>3, <1>4, StatesDiffer, FS_EmptySet DEF Sound, Placed, Tallied
<1>6. QED
  BY <1>1, <1>3, <1>5, StatesDiffer DEF Has, u

----------------------------------------------------------------------------
(* Where an element may go, and storing it there. *)

\* Slots an element may be stored in: those that have it, or some that are not in use of
\* which the nearest has no free slot before it.
Entry(t, k, S) ==
    \/ S = Matching(t, k) /\ S # {}
    \/ /\ Matching(t, k) = {} /\ S \subseteq Circle(t.count)
       /\ \A s \in S : t.states[s] # Populated
       /\ S # {} => \A p \in Passed(k, Nearest(k, S, t.count), t.count) : t.states[p] # Free

\* The counters of a table, and that it is full only when every slot is in use.
LEMMA CountersAre ==
    ASSUME NEW t, Sound(t)
    PROVE  /\ t.count \in Nat /\ t.populated \in 0 .. t.count /\ t.deleted \in 0 .. t.count
           /\ t.populated < t.count => \E s \in Circle(t.count) : t.states[s] # Populated
<1>1. Shape(t) /\ Tallied(t)
  BY DEF Sound
<1>2. t.count \in Nat /\ t.populated \in 0 .. t.count /\ t.deleted \in 0 .. t.count
  BY <1>1, InStateIs DEF Tallied
<1>3. ASSUME \A s \in Circle(t.count) : t.states[s] = Populated PROVE t.populated = t.count
  <2>1. InState(t.states, Populated) = Circle(t.count)
    BY <1>1, <1>3, InStateIs
  <2>2. QED
    BY <1>1, <1>2, <2>1, CircleIs DEF Tallied
<1>4. QED
  BY <1>2, <1>3

\* A new key may go to the nearest slot that is not in use.
LEMMA InsertedEntry ==
    ASSUME NEW t, Sound(t), NEW k \in Keys, Matching(t, k) = {}
    PROVE  Entry(t, k, InsertedAt(t, k)) /\ (t.populated < t.count => InsertedAt(t, k) # {})
<1> DEFINE S == InsertedAt(t, k)
<1>1. S = {s \in Circle(t.count) : t.states[s] # Populated}
  BY DEF InsertedAt
<1>2. t.count \in Nat
  BY CountersAre
<1>3. ASSUME S # {}, NEW p \in Passed(k, Nearest(k, S, t.count), t.count) PROVE t.states[p] # Free
  BY <1>1, <1>2, <1>3, NearestIs, StatesDiffer
<1>4. QED
  BY <1>1, <1>3, CountersAre DEF Entry

\* Of the slots a probe reaches none has a free one before it.
LEMMA ReachedIs ==
    ASSUME NEW t, Sound(t), NEW k \in Keys
    PROVE  /\ Reached(t, k) \subseteq Circle(t.count)
           /\ \A s \in Reached(t, k) : \A p \in Passed(k, s, t.count) : t.states[p] # Free
           /\ \/ InState(t.states, Free) = {} /\ Reached(t, k) = Circle(t.count)
              \/ Reached(t, k) \cap InState(t.states, Free) # {}
<1> DEFINE F == InState(t.states, Free)
           n == t.count
<1>1. n \in Nat /\ F = {s \in Circle(n) : t.states[s] = Free}
  BY InStateIs DEF Sound
<1>2. Reached(t, k) = {s \in Circle(n) : \A f \in F : Distance(k, s, n) <= Distance(k, f, n)}
  BY DEF Reached
<1>3. ASSUME NEW s \in Reached(t, k), NEW p \in Passed(k, s, n) PROVE t.states[p] # Free
  <2>1. p \in Circle(n) /\ s \in Circle(n) /\ Distance(k, p, n) < Distance(k, s, n)
    BY <1>2, <1>3 DEF Passed
  <2>2. Distance(k, p, n) \in Nat /\ Distance(k, s, n) \in Nat
    BY <1>1, <2>1, DistanceIs
  <2>3. p \notin F
    BY <1>2, <1>3, <2>1, <2>2
  <2>4. QED
    BY <1>1, <2>1, <2>3
<1>4. CASE F = {}
  BY <1>2, <1>3, <1>4
<1>5. CASE F # {}
  <2> DEFINE f == Nearest(k, F, n)
  <2>1. F \in SUBSET Circle(n)
    BY <1>1
  <2> HIDE DEF F
  <2>2. f \in F /\ \A p \in Passed(k, f, n) : p \notin F
    BY <1>1, <1>5, <2>1, NearestIs
  <2>3. ASSUME NEW g \in F PROVE Distance(k, f, n) <= Distance(k, g, n)
    <3>1. g \notin Passed(k, f, n) /\ g \in Circle(n) /\ f \in Circle(n)
      BY <2>1, <2>2, <2>3
    <3>2. Distance(k, f, n) \in Nat /\ Distance(k, g, n) \in Nat
      BY <1>1, <3>1, DistanceIs
    <3>3. QED
      BY <3>1, <3>2 DEF Passed
  <2>4. f \in Reached(t, k)
    BY <1>2, <2>1, <2>2, <2>3
  <2>5. QED
    BY <1>2, <1>3, <2>2, <2>4 DEF F
<1>6. QED
  BY <1>4, <1>5

\* An element goes where its key is, else to a tombstone on the way, else to the free slot at its end.
LEMMA UpsertedEntry ==
    ASSUME NEW t, Sound(t), NEW k \in Keys
    PROVE  Entry(t, k, UpsertedAt(t, k)) /\ (t.populated < t.count => UpsertedAt(t, k) # {})
<1> DEFINE R == Reached(t, k)
           T == R \cap InState(t.states, Deleted)
           F == R \cap InState(t.states, Free)
<1>1. /\ t.count \in Nat /\ InState(t.states, Deleted) = {s \in Circle(t.count) : t.states[s] = Deleted}
      /\ InState(t.states, Free) = {s \in Circle(t.count) : t.states[s] = Free}
  BY InStateIs DEF Sound
<1>2. /\ R \subseteq Circle(t.count)
      /\ \A s \in R : \A p \in Passed(k, s, t.count) : t.states[p] # Free
      /\ \/ InState(t.states, Free) = {} /\ R = Circle(t.count)
         \/ F # {}
  BY ReachedIs
<1>3. CASE Matching(t, k) # {}
  BY <1>3 DEF UpsertedAt, Entry
<1>4. ASSUME NEW S, S \subseteq R, \A s \in S : t.states[s] # Populated, Matching(t, k) = {}
      PROVE  Entry(t, k, S)
  <2>1. S # {} => Nearest(k, S, t.count) \in S
    BY <1>1, <1>2, <1>4, NearestIs
  <2>2. QED
    BY <1>2, <1>4, <2>1 DEF Entry
<1>5. CASE Matching(t, k) = {} /\ T # {}
  <2>1. UpsertedAt(t, k) = T
    BY <1>5 DEF UpsertedAt
  <2>2. QED
    BY <1>1, <1>4, <1>5, <2>1, StatesDiffer
<1>6. CASE Matching(t, k) = {} /\ T = {}
  <2>1. UpsertedAt(t, k) = F
    BY <1>6 DEF UpsertedAt
  <2>2. Entry(t, k, F)
    BY <1>1, <1>4, <1>6, StatesDiffer
  <2>3. ASSUME t.populated < t.count, F = {} PROVE FALSE
    <3>1. PICK s \in Circle(t.count) : t.states[s] # Populated
      BY <2>3, CountersAre
    <3>2. t.states[s] \in States
      BY DEF Sound, Shape
    <3>3. t.states[s] = Deleted \/ t.states[s] = Free
      BY <3>1, <3>2 DEF States
    <3>4. QED
      BY <1>1, <1>2, <1>6, <2>3, <3>3
  <2>4. QED
    BY <2>1, <2>2, <2>3
<1>7. QED
  BY <1>3, <1>5, <1>6

\* What storing an element in one of some slots answers, and what becomes of the table.
Taken(r, t, S, k, v, over) ==
    LET u == r.table
    IN  /\ Sound(u) /\ u.count = t.count
        /\ r.outcome = IF S = {} THEN "no_slot" ELSE IF Matching(t, k) # {} THEN "updated" ELSE "inserted"
        /\ r.outcome = "no_slot" => u = t
        /\ r.outcome = "updated" =>
             /\ u.populated = t.populated /\ u.deleted = t.deleted
             /\ \A l \in Keys, w \in Values : Has(u, l, w) <=> IF l = k /\ over THEN w = v ELSE Has(t, l, w)
        /\ r.outcome = "inserted" =>
             /\ u.populated = t.populated + 1
             /\ u.deleted = t.deleted \/ u.deleted = t.deleted - 1
             /\ \A l \in Keys, w \in Values : Has(u, l, w) <=> IF l = k THEN w = v ELSE Has(t, l, w)

\* An element is stored in the nearest of the slots it may go to.
LEMMA StoredIs ==
    ASSUME NEW t, Sound(t), NEW k \in Keys, NEW v \in Values, NEW S, Entry(t, k, S), NEW over
    PROVE  Taken(Stored(t, S, k, v, over), t, S, k, v, over)
<1> USE DEF Taken
<1> DEFINE r == Stored(t, S, k, v, over)
           at == Nearest(k, S, t.count)
<1>1. CASE S = {}
  <2>1. r = [outcome |-> "no_slot", table |-> t]
    BY <1>1 DEF Stored
  <2>2. QED
    BY <1>1, <2>1
<1>2. CASE S # {} /\ Matching(t, k) # {}
  <2>1. S = Matching(t, k)
    BY <1>2 DEF Entry
  <2>2. S \subseteq Circle(t.count) /\ \A s \in S : t.states[s] = Populated
    BY <2>1, MatchingIs
  <2>3. at \in S
    BY <1>2, <2>2, CountersAre, NearestIs
  <2>4. r = [outcome |-> "updated", table |-> IF over THEN Revalued(t, at, v) ELSE t]
    BY <1>2, <2>2, <2>3 DEF Stored, Revalued
  <2> HIDE DEF r, at
  <2>5. CASE over
    BY <1>2, <2>1, <2>3, <2>4, <2>5, RevaluedSound DEF r
  <2>6. CASE ~over
    BY <1>2, <2>4, <2>6 DEF r
  <2>7. QED
    BY <2>5, <2>6
<1>3. CASE S # {} /\ Matching(t, k) = {}
  <2>1. S \subseteq Circle(t.count) /\ (\A s \in S : t.states[s] # Populated)
        /\ \A p \in Passed(k, at, t.count) : t.states[p] # Free
    BY <1>3 DEF Entry
  <2>2. at \in S
    BY <1>3, <2>1, CountersAre, NearestIs
  <2>3. r = [outcome |-> "inserted", table |-> Put(t, at, k, v)]
    BY <1>3, <2>1, <2>2 DEF Stored
  <2> HIDE DEF r, at
  <2>4. at \in Circle(t.count) /\ t.states[at] # Populated
    BY <2>1, <2>2
  <2>5. QED
    BY <1>3, <2>1, <2>3, <2>4, PutSound DEF r
<1>4. QED
  BY <1>1, <1>2, <1>3

----------------------------------------------------------------------------
(* Moving every element to another table. *)

\* The target after the slots below i of the source, given what it is before them.
FillStep(filled, target, source, i) ==
    IF i = 0 THEN target ELSE Moved(filled[i - 1], source, i - 1)

Filling(target, source) ==
    CHOOSE f : f = [i \in 0 .. source.count |-> FillStep(f, target, source, i)]

\* A table is refilled by that function, up to the last slot of the source.
LEMMA RefilledIs ==
    ASSUME NEW target, NEW source
    PROVE  Refilled(target, source) = Filling(target, source)[source.count]
BY DEF Refilled, Filling, FillStep

\* The function that fills a table is defined: each of its values comes from the one before.
LEMMA FillingIsDefined ==
    ASSUME NEW target, NEW source, source.count \in Nat
    PROVE  LET f == Filling(target, source)
           IN  f = [i \in 0 .. source.count |-> FillStep(f, target, source, i)]
<1> DEFINE N == source.count
           Upto(n, g) == \A i \in 0 .. n : g[i] = FillStep(g, target, source, i)
           S == {n \in Nat : \E g : Upto(n, g)}
<1>1. ASSUME NEW g, NEW h, NEW i \in Nat, i > 0 => h[i - 1] = g[i - 1]
      PROVE  FillStep(h, target, source, i) = FillStep(g, target, source, i)
  <2>1. CASE i = 0
    BY <2>1 DEF FillStep
  <2>2. CASE i > 0
    BY <1>1, <2>2 DEF FillStep
  <2>3. QED
    BY <2>1, <2>2
<1>2. 0 \in S
  <2> DEFINE g == [i \in {0} |-> target]
  <2>1. g[0] = target
    OBVIOUS
  <2>2. FillStep(g, target, source, 0) = target
    BY DEF FillStep
  <2>3. Upto(0, g)
    BY <2>1, <2>2
  <2>4. QED
    BY <2>3
<1>3. ASSUME NEW n \in Nat, n \in S PROVE n + 1 \in S
  <2>1. PICK g : Upto(n, g)
    BY <1>3
  <2> DEFINE h == [i \in 0 .. n + 1 |-> IF i = n + 1 THEN FillStep(g, target, source, i) ELSE g[i]]
  <2>2. h[n + 1] = FillStep(g, target, source, n + 1) /\ \A i \in 0 .. n : h[i] = g[i]
    OBVIOUS
  <2> HIDE DEF h
  <2>3. ASSUME NEW i \in 0 .. n + 1 PROVE h[i] = FillStep(h, target, source, i)
    <3>1. i > 0 => i - 1 \in 0 .. n /\ h[i - 1] = g[i - 1]
      BY <2>2
    <3>2. FillStep(h, target, source, i) = FillStep(g, target, source, i)
      BY <1>1, <3>1
    <3>3. CASE i = n + 1
      BY <2>2, <3>2, <3>3
    <3>4. CASE i # n + 1
      <4>1. i \in 0 .. n
        BY <3>4
      <4>2. QED
        BY <2>1, <2>2, <3>2, <4>1
    <3>5. QED
      BY <3>3, <3>4
  <2>4. QED
    BY <2>3
<1>4. N \in S
  <2>1. S \subseteq Nat
    OBVIOUS
  <2> HIDE DEF S
  <2>2. S = Nat
    BY <1>2, <1>3, <2>1, UpFromZero
  <2>3. QED
    BY <2>2
<1>5. PICK g : Upto(N, g)
  BY <1>4
<1> DEFINE f == [i \in 0 .. N |-> g[i]]
<1>6. \A i \in 0 .. N : f[i] = g[i]
  OBVIOUS
<1>7. f = [i \in 0 .. N |-> f[i]]
  OBVIOUS
<1> HIDE DEF f
<1>8. ASSUME NEW i \in 0 .. N PROVE f[i] = FillStep(f, target, source, i)
  <2>1. i > 0 => f[i - 1] = g[i - 1]
    BY <1>6
  <2>2. FillStep(f, target, source, i) = FillStep(g, target, source, i)
    BY <1>1, <2>1
  <2>3. QED
    BY <1>5, <1>6, <2>2
<1>9. f = [i \in 0 .. N |-> FillStep(f, target, source, i)]
  BY <1>7, <1>8
<1>10. QED
  BY <1>9, Zenon DEF Filling

\* The slots in use among the first of a table.
UsedBelow(t, i) == {s \in InState(t.states, Populated) : s < i}

\* A table is as much of a copy as the slots below i make it.
Copied(u, target, t, i) ==
    /\ Sound(u) /\ u.count = target.count /\ u.deleted = 0
    /\ u.populated = Cardinality(UsedBelow(t, i))
    /\ \A l \in Keys, w \in Values :
          Has(u, l, w) <=> \E s \in UsedBelow(t, i) : t.stored[s] = l /\ t.values[s] = w

\* What one more slot adds to them.
LEMMA UsedBelowIs ==
    ASSUME NEW t, Sound(t), NEW i \in Nat, i < t.count
    PROVE  /\ IsFiniteSet(UsedBelow(t, i)) /\ i \in Circle(t.count)
           /\ t.states[i] # Populated => UsedBelow(t, i + 1) = UsedBelow(t, i)
           /\ t.states[i] = Populated =>
                /\ UsedBelow(t, i + 1) = UsedBelow(t, i) \cup {i}
                /\ Cardinality(UsedBelow(t, i + 1)) = Cardinality(UsedBelow(t, i)) + 1
                /\ Cardinality(UsedBelow(t, i)) < t.populated
<1> DEFINE P == InState(t.states, Populated)
<1>1. /\ t.count \in Nat /\ P = {s \in Circle(t.count) : t.states[s] = Populated}
      /\ IsFiniteSet(P) /\ t.populated = Cardinality(P)
  BY InStateIs DEF Sound, Tallied
<1>2. i \in Circle(t.count) /\ \A s \in P : s \in Nat
  BY <1>1 DEF Circle
<1>3. UsedBelow(t, i) = {s \in P : s < i} /\ UsedBelow(t, i + 1) = {s \in P : s < i + 1}
  BY DEF UsedBelow
<1> HIDE DEF P
<1>4. IsFiniteSet(UsedBelow(t, i)) /\ IsFiniteSet(UsedBelow(t, i + 1))
      /\ Cardinality(UsedBelow(t, i + 1)) <= Cardinality(P)
  <2>1. UsedBelow(t, i) \in SUBSET P /\ UsedBelow(t, i + 1) \in SUBSET P
    BY <1>3
  <2>2. QED
    BY <1>1, <2>1, FS_Subset
<1>5. ASSUME t.states[i] # Populated PROVE UsedBelow(t, i + 1) = UsedBelow(t, i)
  <2>1. i \notin P
    BY <1>1, <1>5
  <2>2. \A s \in P : s < i + 1 <=> s < i
    BY <1>2, <2>1
  <2>3. QED
    BY <1>3, <2>2
<1>6. ASSUME t.states[i] = Populated
      PROVE  /\ UsedBelow(t, i + 1) = UsedBelow(t, i) \cup {i}
             /\ Cardinality(UsedBelow(t, i + 1)) = Cardinality(UsedBelow(t, i)) + 1
             /\ Cardinality(UsedBelow(t, i)) < t.populated
  <2>1. i \in P
    BY <1>1, <1>2, <1>6
  <2>2. \A s \in P : s < i + 1 <=> s < i \/ s = i
    BY <1>2
  <2>3. UsedBelow(t, i + 1) = UsedBelow(t, i) \cup {i} /\ i \notin UsedBelow(t, i)
    <3>1. i \notin UsedBelow(t, i)
      BY <1>3
    <3>2. \A s : s \in UsedBelow(t, i + 1) <=> s \in UsedBelow(t, i) \cup {i}
      BY <1>3, <2>1, <2>2, Zenon
    <3>3. QED
      BY <3>1, <3>2
  <2>4. Cardinality(UsedBelow(t, i + 1)) = Cardinality(UsedBelow(t, i)) + 1
    BY <1>4, <2>3, FS_AddElement
  <2>5. QED
    BY <1>1, <1>4, <2>3, <2>4, FS_CardinalityType
<1>7. QED
  BY <1>2, <1>4, <1>5, <1>6

\* A new element with a slot to go to is inserted.
LEMMA StoredNew ==
    ASSUME NEW t, Sound(t), NEW k \in Keys, NEW v \in Values, NEW S, Entry(t, k, S), S # {}, Matching(t, k) = {}
    PROVE  LET u == Stored(t, S, k, v, FALSE).table
           IN  /\ Sound(u) /\ u.count = t.count /\ u.populated = t.populated + 1
               /\ u.deleted = t.deleted \/ u.deleted = t.deleted - 1
               /\ \A l \in Keys, w \in Values : Has(u, l, w) <=> IF l = k THEN w = v ELSE Has(t, l, w)
<1> DEFINE at == Nearest(k, S, t.count)
<1>1. S \subseteq Circle(t.count) /\ (\A s \in S : t.states[s] # Populated)
      /\ \A p \in Passed(k, at, t.count) : t.states[p] # Free
  BY DEF Entry
<1>2. at \in S
  BY <1>1, CountersAre, NearestIs
<1>3. Stored(t, S, k, v, FALSE).table = Put(t, at, k, v)
  BY <1>1, <1>2 DEF Stored
<1> HIDE DEF at
<1>4. at \in Circle(t.count) /\ t.states[at] # Populated
  BY <1>1, <1>2
<1> DEFINE u == Put(t, at, k, v)
<1>5. /\ Sound(u) /\ u.count = t.count /\ u.populated = t.populated + 1
      /\ u.deleted = t.deleted \/ u.deleted = t.deleted - 1
      /\ \A l \in Keys, w \in Values : Has(u, l, w) <=> IF l = k THEN w = v ELSE Has(t, l, w)
  BY <1>1, <1>4, PutSound
<1>6. QED
  BY <1>3, <1>5, Zenon

\* A slot in use is copied to a slot of the other table, which has one left.
LEMMA SlotIsCopied ==
    ASSUME NEW t, Sound(t), NEW target, t.populated <= target.count, NEW i \in Nat, i < t.count,
           NEW u, Copied(u, target, t, i)
    PROVE  Copied(Moved(u, t, i), target, t, i + 1)
<1> DEFINE k == t.stored[i]
           v == t.values[i]
           B == UsedBelow(t, i)
<1>1. i \in Circle(t.count) /\ (t.states[i] # Populated => UsedBelow(t, i + 1) = B)
  BY UsedBelowIs
<1>2. CASE t.states[i] # Populated
  BY <1>1, <1>2 DEF Copied, Moved
<1>3. CASE t.states[i] = Populated
  <2> DEFINE w == Stored(u, InsertedAt(u, k), k, v, FALSE).table
  <2>1. /\ UsedBelow(t, i + 1) = B \cup {i} /\ Cardinality(UsedBelow(t, i + 1)) = Cardinality(B) + 1
        /\ Cardinality(B) < t.populated /\ IsFiniteSet(B)
    BY <1>3, UsedBelowIs
  <2>2. k \in Keys /\ v \in Values
        /\ \A r \in Circle(t.count) : t.states[r] = Populated /\ t.stored[r] = k => r = i
    BY <1>1, <1>3 DEF Sound, Placed
  <2>3. \A s \in B : s \in Circle(t.count) /\ t.states[s] = Populated /\ s < i
    BY InStateIs DEF UsedBelow, Sound
  <2>4. \A s \in B : t.stored[s] # k
    <3>1. \A s \in B : s # i
      BY <2>3
    <3>2. QED
      BY <2>2, <2>3, <3>1
  <2>5. Matching(u, k) = {}
    <3>1. \A x \in Values : ~Has(u, k, x)
      BY <2>2, <2>4 DEF Copied
    <3>2. QED
      BY <2>2, <3>1, HasIs DEF Copied
  <2>6. u.populated < u.count
    <3>1. t.populated \in Nat /\ u.count \in Nat /\ u.populated \in Nat
      BY CountersAre DEF Copied
    <3>2. QED
      BY <2>1, <3>1 DEF Copied
  <2>7. Entry(u, k, InsertedAt(u, k)) /\ InsertedAt(u, k) # {}
    BY <2>2, <2>5, <2>6, InsertedEntry DEF Copied
  <2>8. /\ Sound(w) /\ w.count = u.count /\ w.populated = u.populated + 1
        /\ w.deleted = u.deleted \/ w.deleted = u.deleted - 1
        /\ \A l \in Keys, x \in Values : Has(w, l, x) <=> IF l = k THEN x = v ELSE Has(u, l, x)
    BY <2>2, <2>5, <2>7, StoredNew DEF Copied
  <2> HIDE DEF w
  <2>9. w.deleted = 0
    <3>1. w.deleted \in Nat
      BY <2>8, CountersAre
    <3>2. QED
      BY <2>8, <3>1 DEF Copied
  <2>10. ASSUME NEW l \in Keys, NEW x \in Values
         PROVE  Has(w, l, x) <=> \E s \in UsedBelow(t, i + 1) : t.stored[s] = l /\ t.values[s] = x
    <3>1. Has(u, l, x) <=> \E s \in B : t.stored[s] = l /\ t.values[s] = x
      BY DEF Copied
    <3>2. CASE l = k
      BY <2>1, <2>4, <2>8, <3>2
    <3>3. CASE l # k
      BY <2>1, <2>8, <3>1, <3>3
    <3>4. QED
      BY <3>2, <3>3
  <2>11. Copied(w, target, t, i + 1)
    BY <2>1, <2>8, <2>9, <2>10 DEF Copied
  <2>12. QED
    BY <1>3, <2>11, Zenon DEF w, Moved
<1>4. QED
  BY <1>2, <1>3

\* A table that moved to one with room enough has what it had, and no tombstones.
LEMMA RefilledSound ==
    ASSUME NEW t, Sound(t), NEW n \in 0 .. MaxSlots, t.populated <= n, MaxSlots \in Nat
    PROVE  LET u == Refilled(Empty(n, TRUE), t)
           IN  /\ Sound(u) /\ u.count = n /\ u.populated = t.populated /\ u.deleted = 0
               /\ \A l \in Keys, w \in Values : Has(u, l, w) <=> Has(t, l, w)
<1> DEFINE target == Empty(n, TRUE)
           N == t.count
           f == Filling(target, t)
           S == {i \in Nat : i <= N => Copied(f[i], target, t, i)}
<1>1. N \in Nat /\ Shape(t) /\ Placed(t) /\ Tallied(t)
  BY CountersAre DEF Sound
<1>2. f = [i \in 0 .. N |-> FillStep(f, target, t, i)]
  BY <1>1, FillingIsDefined
<1>3. /\ Sound(target) /\ target.count = n /\ target.populated = 0 /\ target.deleted = 0
      /\ \A l \in Keys, w \in Values : ~Has(target, l, w)
  BY EmptySound
<1> HIDE DEF target
<1>4. 0 \in S
  <2>1. f[0] = target
    <3>1. 0 \in 0 .. N
      BY <1>1
    <3> HIDE DEF f
    <3>2. f[0] = FillStep(f, target, t, 0)
      BY <1>2, <3>1
    <3>3. QED
      BY <3>2 DEF FillStep
  <2>2. UsedBelow(t, 0) = {}
    <3>1. \A s \in InState(t.states, Populated) : s \in Nat
      BY <1>1, InStateIs DEF Circle
    <3>2. QED
      BY <3>1 DEF UsedBelow
  <2>3. QED
    BY <1>3, <2>1, <2>2, FS_EmptySet DEF Copied
<1>5. ASSUME NEW i \in Nat, i \in S PROVE i + 1 \in S
  <2>1. SUFFICES ASSUME i + 1 <= N PROVE Copied(f[i + 1], target, t, i + 1)
    OBVIOUS
  <2>2. i < N /\ i <= N /\ i + 1 \in 0 .. N /\ i + 1 > 0 /\ (i + 1) - 1 = i
    BY <1>1, <2>1
  <2>3. Copied(f[i], target, t, i)
    BY <1>5, <2>2
  <2>4. f[i + 1] = Moved(f[i], t, i)
    <3> HIDE DEF f
    <3>1. f[i + 1] = FillStep(f, target, t, i + 1)
      BY <1>2, <2>2
    <3>2. FillStep(f, target, t, i + 1) = Moved(f[(i + 1) - 1], t, (i + 1) - 1)
      BY <2>2 DEF FillStep
    <3>3. QED
      BY <2>2, <3>1, <3>2
  <2>5. t.populated <= target.count
    BY <1>3
  <2> HIDE DEF f
  <2>6. QED
    BY <1>1, <2>2, <2>3, <2>4, <2>5, SlotIsCopied
<1>6. Copied(f[N], target, t, N)
  <2>1. S \subseteq Nat
    OBVIOUS
  <2> HIDE DEF S
  <2>2. S = Nat
    BY <1>4, <1>5, <2>1, UpFromZero
  <2>3. N \in S
    BY <1>1, <2>2
  <2> USE DEF S
  <2> HIDE DEF f
  <2>4. QED
    BY <1>1, <2>3
<1>7. UsedBelow(t, N) = InState(t.states, Populated)
  <2>1. InState(t.states, Populated) \subseteq Circle(N)
    BY <1>1, InStateIs
  <2>2. \A s \in Circle(N) : s < N
    BY <1>1 DEF Circle
  <2>3. QED
    BY <2>1, <2>2 DEF UsedBelow
<1>8. Refilled(target, t) = f[N]
  BY RefilledIs
<1> DEFINE u == f[N]
<1> HIDE DEF f
<1>9. \A l \in Keys, w \in Values : Has(u, l, w) <=> Has(t, l, w)
  BY <1>1, <1>6, <1>7, InStateIs DEF Copied, Has
<1>10. Sound(u) /\ u.count = n /\ u.populated = t.populated /\ u.deleted = 0
  BY <1>1, <1>3, <1>6, <1>7 DEF Copied, Tallied
<1>11. QED
  BY <1>8, <1>9, <1>10, Zenon DEF target

----------------------------------------------------------------------------
(* Powers of two, and the slots for a number of elements. *)

PowerStep(f, i) == IF i = 0 THEN 1 ELSE 2 * f[i - 1]

\* The function of the powers is defined.
LEMMA PowersAreDefined == PowerOf2 = [i \in Nat |-> PowerStep(PowerOf2, i)]
<1> DEFINE Upto(n, g) == \A i \in 0 .. n : g[i] = PowerStep(g, i)
           S == {n \in Nat : \E g : Upto(n, g)}
           Agree(i) == \A n, m \in Nat : \A g, h : i <= n /\ i <= m /\ Upto(n, g) /\ Upto(m, h) => g[i] = h[i]
           T == {i \in Nat : Agree(i)}
<1>1. 0 \in S
  <2> DEFINE g == [i \in {0} |-> 1]
  <2>1. Upto(0, g)
    BY DEF PowerStep
  <2>2. QED
    BY <2>1
<1>2. ASSUME NEW n \in Nat, n \in S PROVE n + 1 \in S
  <2>1. PICK g : Upto(n, g)
    BY <1>2
  <2> DEFINE h == [i \in 0 .. n + 1 |-> IF i = n + 1 THEN 2 * g[n] ELSE g[i]]
  <2>2. h[n + 1] = 2 * g[n] /\ \A i \in 0 .. n : h[i] = g[i]
    OBVIOUS
  <2> HIDE DEF h
  <2>3. ASSUME NEW i \in 0 .. n + 1 PROVE h[i] = PowerStep(h, i)
    <3>1. CASE i = 0
      BY <2>1, <2>2, <3>1 DEF PowerStep
    <3>2. CASE i # 0 /\ i # n + 1
      <4>1. i \in 0 .. n /\ i - 1 \in 0 .. n
        BY <3>2
      <4>2. g[i] = 2 * g[i - 1]
        BY <2>1, <3>2, <4>1 DEF PowerStep
      <4>3. QED
        BY <2>2, <3>2, <4>1, <4>2 DEF PowerStep
    <3>3. CASE i = n + 1
      <4>1. i - 1 = n /\ n \in 0 .. n /\ i # 0
        BY <3>3
      <4>2. QED
        BY <2>2, <3>3, <4>1 DEF PowerStep
    <3>4. QED
      BY <3>1, <3>2, <3>3
  <2>4. QED
    BY <2>3
<1>3. S = Nat
  <2>1. S \subseteq Nat
    OBVIOUS
  <2> HIDE DEF S
  <2>2. QED
    BY <1>1, <1>2, <2>1, UpFromZero
<1>4. 0 \in T
  <2>1. ASSUME NEW n \in Nat, NEW g, Upto(n, g) PROVE g[0] = 1
    BY <2>1 DEF PowerStep
  <2> HIDE DEF Upto
  <2>2. Agree(0)
    BY <2>1
  <2>3. QED
    BY <2>2
<1>5. ASSUME NEW i \in Nat, i \in T PROVE i + 1 \in T
  <2>0. SUFFICES Agree(i + 1)
    <3>1. i + 1 \in Nat
      OBVIOUS
    <3> HIDE DEF Agree
    <3>2. QED
      BY <3>1
  <2>1. SUFFICES ASSUME NEW n \in Nat, NEW m \in Nat, NEW g, NEW h, i + 1 <= n, i + 1 <= m, Upto(n, g), Upto(m, h)
                 PROVE  g[i + 1] = h[i + 1]
    <3> HIDE DEF Upto
    <3>1. QED
      OBVIOUS
  <2>2. i <= n /\ i <= m /\ i + 1 # 0 /\ (i + 1) - 1 = i /\ i + 1 \in 0 .. n /\ i + 1 \in 0 .. m
    BY <2>1
  <2>3. g[i] = h[i]
    <3>1. Agree(i)
      BY <1>5
    <3> HIDE DEF Upto
    <3>2. QED
      BY <2>1, <2>2, <3>1
  <2>4. g[i + 1] = PowerStep(g, i + 1) /\ h[i + 1] = PowerStep(h, i + 1)
    BY <2>1, <2>2
  <2>5. QED
    BY <2>2, <2>3, <2>4 DEF PowerStep
<1>6. T = Nat
  <2>1. T \subseteq Nat
    OBVIOUS
  <2> HIDE DEF T
  <2>2. QED
    BY <1>4, <1>5, <2>1, UpFromZero
<1> DEFINE G(n) == CHOOSE g : Upto(n, g)
           f == [i \in Nat |-> G(i)[i]]
<1>7. \A n \in Nat : Upto(n, G(n))
  BY <1>3
<1> HIDE DEF G
<1>8. ASSUME NEW i \in Nat PROVE f[i] = PowerStep(f, i)
  <2>1. f[i] = G(i)[i] /\ i \in 0 .. i
    OBVIOUS
  <2>2. G(i)[i] = PowerStep(G(i), i)
    BY <1>7, <2>1
  <2>3. CASE i = 0
    BY <2>1, <2>2, <2>3 DEF PowerStep
  <2>4. CASE i # 0
    <3>1. i - 1 \in Nat /\ i - 1 <= i /\ i - 1 <= i - 1
      BY <2>4
    <3>2. f[i - 1] = G(i - 1)[i - 1]
      BY <3>1
    <3>3. G(i)[i - 1] = G(i - 1)[i - 1]
      <4>1. Agree(i - 1)
        <5> HIDE DEF Agree
        <5>1. QED
          BY <1>6, <3>1
      <4> HIDE DEF Upto
      <4>2. QED
        BY <1>7, <3>1, <4>1
    <3>4. QED
      BY <2>1, <2>2, <2>4, <3>2, <3>3 DEF PowerStep
  <2>5. QED
    BY <2>3, <2>4
<1>9. f = [i \in Nat |-> f[i]]
  OBVIOUS
<1> HIDE DEF f
<1>10. f = [i \in Nat |-> PowerStep(f, i)]
  BY <1>8, <1>9
<1>11. PowerOf2 = CHOOSE g : g = [i \in Nat |-> PowerStep(g, i)]
  BY DEF PowerOf2, PowerStep
<1>12. QED
  BY <1>10, <1>11, Zenon

\* A power of two is a positive number, and from the third on a multiple of four.
LEMMA PowersAre ==
    /\ \A i \in Nat : PowerOf2[i] \in Nat \ {0}
    /\ PowerOf2[0] = 1 /\ PowerOf2[1] = 2
    /\ \A i \in Nat : \E q \in Nat \ {0} : PowerOf2[i + 2] = 4 * q
<1> DEFINE S == {i \in Nat : PowerOf2[i] \in Nat \ {0}}
<1>1. \A i \in Nat : PowerOf2[i] = IF i = 0 THEN 1 ELSE 2 * PowerOf2[i - 1]
  <2> DEFINE P == PowerOf2
  <2>1. P = [i \in Nat |-> PowerStep(P, i)]
    BY PowersAreDefined
  <2> HIDE DEF P
  <2>2. \A i \in Nat : P[i] = PowerStep(P, i)
    BY <2>1
  <2>3. QED
    BY <2>2 DEF P, PowerStep
<1>2. PowerOf2[0] = 1
  BY <1>1
<1>3. \A i \in Nat : PowerOf2[i + 1] = 2 * PowerOf2[i]
  <2>1. \A i \in Nat : i + 1 \in Nat /\ i + 1 # 0 /\ (i + 1) - 1 = i
    OBVIOUS
  <2>2. QED
    BY <1>1, <2>1
<1>4. S = Nat
  <2>1. 0 \in S /\ S \subseteq Nat
    BY <1>2
  <2>2. \A i \in Nat : i \in S => i + 1 \in S
    BY <1>3
  <2> HIDE DEF S
  <2>3. QED
    BY <2>1, <2>2, UpFromZero
<1>5. \A i \in Nat : PowerOf2[i] \in Nat \ {0}
  BY <1>4
<1>6. ASSUME NEW i \in Nat PROVE PowerOf2[i + 2] = 4 * PowerOf2[i]
  <2>1. PowerOf2[(i + 1) + 1] = 2 * PowerOf2[i + 1] /\ (i + 1) + 1 = i + 2
    BY <1>3
  <2>2. QED
    BY <1>3, <1>5, <2>1
<1>7. PowerOf2[1] = 2
  BY <1>2, <1>3
<1>8. QED
  BY <1>2, <1>5, <1>6, <1>7

\* A power of two not below four is a multiple of four, and the largest count is none.
LEMMA Addressable ==
    ASSUME TableAssumption, Buckets, NEW raw, IsAddressable(raw)
    PROVE  raw # Unrepresentable /\ \E q \in Nat : raw = 4 * q
<1>1. BucketCapacity \in Nat /\ SizeBits \in Nat \ {0} /\ BucketCapacity >= 4
  BY DEF TableAssumption, Buckets
<1>2. ASSUME NEW i \in Nat, PowerOf2[i] >= 3 PROVE \E q \in Nat \ {0} : PowerOf2[i] = 4 * q
  <2>1. i # 0 /\ i # 1
    BY <1>2, PowersAre
  <2>2. i - 2 \in Nat /\ (i - 2) + 2 = i
    BY <2>1
  <2>3. QED
    BY <2>2, PowersAre
<1>3. SizeMax = PowerOf2[SizeBits] - 1 /\ PowerOf2[SizeBits] \in Nat \ {0}
  BY <1>1, PowersAre DEF SizeMax
<1>4. CASE raw = 0
  <2>1. SizeMax # 0
    <3>1. PowerOf2[SizeBits] # 1
      <4>1. CASE SizeBits = 1
        BY <4>1, PowersAre
      <4>2. CASE SizeBits # 1
        <5>1. SizeBits - 2 \in Nat /\ (SizeBits - 2) + 2 = SizeBits
          BY <1>1, <4>2
        <5>2. \E q \in Nat \ {0} : PowerOf2[SizeBits] = 4 * q
          BY <5>1, PowersAre
        <5>3. QED
          BY <5>2
      <4>3. QED
        BY <4>1, <4>2
    <3>2. QED
      BY <1>3, <3>1
  <2>2. QED
    BY <1>4, <2>1 DEF Unrepresentable
<1>5. CASE raw # 0
  <2>1. PICK i \in Nat : raw = PowerOf2[i]
    BY <1>1, <1>5 DEF IsAddressable, PowersOf2
  <2>2. raw >= 4
    <3>1. raw \in Nat /\ raw >= BucketCapacity
      BY <1>5, <2>1, PowersAre DEF IsAddressable
    <3>2. QED
      BY <1>1, <3>1
  <2>3. PICK q \in Nat \ {0} : raw = 4 * q
    BY <1>2, <2>1, <2>2, PowersAre
  <2>4. raw # SizeMax
    <3>1. SUFFICES ASSUME raw = SizeMax PROVE FALSE
      OBVIOUS
    <3>2. PowerOf2[SizeBits] >= 3
      BY <1>3, <2>2, <3>1
    <3>3. PICK p \in Nat \ {0} : PowerOf2[SizeBits] = 4 * p
      BY <1>1, <1>2, <3>2
    <3>4. QED
      BY <1>3, <2>3, <3>1, <3>3
  <2>5. QED
    BY <2>3, <2>4 DEF Unrepresentable
<1>6. QED
  BY <1>4, <1>5

\* A count of slots is a number, not below the slots asked for where it can be made.
LEMMA FromSlotsIs ==
    ASSUME TableAssumption, NEW slots \in Nat
    PROVE  /\ FromSlots(slots) \in Nat
           /\ Buckets /\ IsAddressable(FromSlots(slots)) => FromSlots(slots) >= slots
<1>1. BucketCapacity \in Nat /\ SizeBits \in Nat \ {0} /\ SizeMax \in Nat
  BY PowersAre DEF TableAssumption, SizeMax
<1>2. PowersOf2 \subseteq Nat \ {0}
  <2>1. \A i \in 0 .. SizeBits - 1 : i \in Nat
    OBVIOUS
  <2>2. QED
    BY <2>1, PowersAre DEF PowersOf2
<1>3. RoundupToPow2(slots) \in Nat /\ (RoundupToPow2(slots) = 0 \/ RoundupToPow2(slots) >= slots)
  <2> DEFINE P == {p \in PowersOf2 : p >= slots}
  <2>1. CASE slots <= 1
    BY <2>1 DEF RoundupToPow2
  <2>2. CASE slots > 1 /\ P = {}
    BY <2>2 DEF RoundupToPow2
  <2>3. CASE slots > 1 /\ P # {}
    <3>1. P \in SUBSET Nat /\ \A p \in P : p >= slots
      BY <1>2
    <3>2. RoundupToPow2(slots) = Min(P)
      BY <2>3 DEF RoundupToPow2
    <3> HIDE DEF P
    <3>3. \E z \in P : \A x \in P : z <= x
      BY <2>3, <3>1, LeastNatural
    <3>4. Min(P) \in P
      BY <3>3 DEF Min
    <3>5. QED
      BY <3>1, <3>2, <3>4
  <2>4. QED
    BY <2>1, <2>2, <2>3
<1> DEFINE rounded == RoundupToPow2(slots)
<1> HIDE DEF rounded
<1>4. CASE slots = 0
  BY <1>4 DEF FromSlots
<1>5. CASE slots > 0 /\ rounded = 0
  <2>1. FromSlots(slots) = Unrepresentable
    BY <1>5 DEF FromSlots, rounded
  <2>2. QED
    BY <1>1, <2>1, Addressable DEF Unrepresentable
<1>6. CASE slots > 0 /\ rounded # 0
  <2>1. FromSlots(slots) = Max({rounded, BucketCapacity})
    BY <1>6 DEF FromSlots, rounded
  <2>2. rounded \in Nat /\ rounded >= slots
    BY <1>3, <1>6 DEF rounded
  <2> DEFINE m == Max({rounded, BucketCapacity})
  <2>3. m \in {rounded, BucketCapacity} /\ m >= rounded
    BY <1>1, <2>2, MaxIs
  <2> HIDE DEF m
  <2>4. QED
    BY <1>1, <2>1, <2>2, <2>3 DEF m
<1>7. QED
  BY <1>4, <1>5, <1>6, <1>3 DEF rounded

\* The slots made for a number of elements keep their load below the threshold.
LEMMA ForElementsIs ==
    ASSUME TableAssumption, NEW elements \in Nat
    PROVE  /\ ForElements(elements) \in Nat
           /\ Buckets /\ IsAddressable(ForElements(elements)) =>
                GrowthThreshold(ForElements(elements)) >= elements
<1>1. SizeMax \in Nat
  BY PowersAre DEF TableAssumption, SizeMax
<1>2. CASE elements > SizeMax \div 4
  <2>1. ForElements(elements) = Unrepresentable
    BY <1>2 DEF ForElements
  <2>2. QED
    BY <1>1, <2>1, Addressable DEF Unrepresentable
<1>3. CASE ~(elements > SizeMax \div 4)
  <2> DEFINE s == (elements * 4) \div 3
             p == FromSlots(s)
  <2>1. ForElements(elements) = p
    BY <1>3 DEF ForElements
  <2>2. s \in Nat /\ 3 * s >= 4 * elements - 2
    OBVIOUS
  <2> HIDE DEF s
  <2>3. p \in Nat /\ (Buckets /\ IsAddressable(p) => p >= s)
    BY <2>2, FromSlotsIs
  <2> HIDE DEF p
  <2>4. ASSUME Buckets, IsAddressable(p) PROVE GrowthThreshold(p) >= elements
    <3>1. PICK q \in Nat : p = 4 * q
      BY <2>4, Addressable
    <3>2. GrowthThreshold(p) = 3 * q
      BY <3>1 DEF GrowthThreshold
    <3>3. QED
      BY <2>2, <2>3, <2>4, <3>1, <3>2
  <2>5. QED
    BY <2>1, <2>3, <2>4
<1>4. QED
  BY <1>2, <1>3

----------------------------------------------------------------------------
(* Tables that move. *)

\* A number below a divisor is what % leaves of it.
LEMMA OwnRemainder ==
    ASSUME NEW n \in Nat, NEW r \in 0 .. n - 1
    PROVE  r % n = r
<1> DEFINE p == r \div n
           s == r % n
<1>1. n \in Nat \ {0}
  OBVIOUS
<1>2. s \in 0 .. n - 1 /\ p \in Int /\ r = n * p + s
  BY <1>1, Division
<1> HIDE DEF p, s
<1>3. CASE p = 0
  BY <1>2, <1>3 DEF s
<1>4. CASE p >= 1
  <2>1. n * p >= n * 1
    BY <1>1, <1>2, <1>4
  <2>2. QED
    BY <1>1, <1>2, <2>1
<1>5. CASE p <= -1
  <2>1. n * p <= n * (-1)
    BY <1>1, <1>2, <1>5
  <2>2. QED
    BY <1>1, <1>2, <2>1
<1>6. QED
  BY <1>2, <1>3, <1>4, <1>5

\* What the allocator is asked for it grants whole or not at all.
LEMMA MakeIs ==
    ASSUME Fits, NEW raw \in Nat, NEW granted, Make(raw, granted).allocated
    PROVE  /\ Make(raw, granted) = Empty(raw, TRUE)
           /\ raw \in 1 .. MaxSlots /\ IsAddressable(raw)
<1> DEFINE makes == IsAddressable(raw) /\ raw > 0 /\ raw <= MaxSlots /\ granted
<1>1. MaxSlots \in Nat /\ OffsetSpan \in Nat /\ MaxSlots < OffsetSpan
  BY DEF Fits, TableAssumption
<1>2. makes
  <2>1. SUFFICES ASSUME ~makes PROVE FALSE
    OBVIOUS
  <2>2. Make(raw, granted) = Empty(0, FALSE)
    BY <2>1 DEF Make, Unallocated
  <2>3. ~Empty(0, FALSE).allocated
    BY DEF Empty
  <2>4. QED
    BY <2>2, <2>3
<1>3. Make(raw, granted) = Empty(raw % OffsetSpan, TRUE)
  BY <1>2 DEF Make
<1>4. raw % OffsetSpan = raw
  BY <1>1, <1>2, OwnRemainder
<1>5. raw \in 1 .. MaxSlots /\ IsAddressable(raw)
  BY <1>1, <1>2
<1>6. QED
  BY <1>3, <1>4, <1>5, Zenon

\* A table and another have the same elements.
Same(u, t) ==
    /\ Sound(u) /\ u.populated = t.populated
    /\ \A l \in Keys, w \in Values : Has(u, l, w) <=> Has(t, l, w)

\* A table without elements has no key.
LEMMA NoneHas ==
    ASSUME NEW t, Sound(t), t.populated = 0
    PROVE  \A l, w : ~Has(t, l, w)
<1>1. InState(t.states, Populated) = {}
  BY InStateIs, FS_EmptySet DEF Sound, Tallied
<1>2. QED
  BY <1>1, InStateIs DEF Has, Sound

\* Resizing keeps the elements, in as many slots as asked for, or leaves the table alone.
LEMMA ForceResizedIs ==
    ASSUME Fits, NEW t, Sound(t), NEW raw \in Nat, NEW granted
    PROVE  LET r == ForceResized(t, raw, granted)
               u == r.table
           IN  /\ Same(u, t) /\ r.outcome \in {"failed", "reallocated"}
               /\ r.outcome = "failed" => u = t
               /\ r.outcome = "reallocated" => u.count = raw /\ u.deleted = 0 /\ IsAddressable(raw)
<1> DEFINE r == ForceResized(t, raw, granted)
           u == r.table
           target == Make(raw, granted)
<1>1. MaxSlots \in Nat /\ 0 \in 0 .. MaxSlots /\ t.populated \in Nat
  BY CountersAre DEF Fits, TableAssumption
<1>2. CASE raw < t.populated \/ (raw > 0 /\ ~target.allocated)
  <2>1. r = [outcome |-> "failed", table |-> t]
    BY <1>1, <1>2 DEF ForceResized
  <2>2. QED
    BY <2>1 DEF Same
<1>3. CASE ~(raw < t.populated) /\ ~(raw > 0 /\ ~target.allocated) /\ raw = 0
  <2>1. t.populated = 0
    BY <1>1, <1>3
  <2>2. r = [outcome |-> "reallocated", table |-> Unallocated]
    BY <1>3, <2>1 DEF ForceResized
  <2> DEFINE none == Unallocated
  <2>3. /\ Sound(none) /\ none.count = 0 /\ none.populated = 0 /\ none.deleted = 0
        /\ \A l \in Keys, w \in Values : ~Has(none, l, w)
    BY <1>1, EmptySound DEF Unallocated
  <2> HIDE DEF none, r
  <2>4. Same(none, t)
    BY <2>1, <2>3, NoneHas DEF Same
  <2>5. r.table = none /\ r.outcome = "reallocated"
    BY <2>2 DEF none
  <2>6. QED
    BY <1>3, <2>3, <2>4, <2>5 DEF r, IsAddressable
<1>4. CASE ~(raw < t.populated) /\ ~(raw > 0 /\ ~target.allocated) /\ raw # 0
  <2>0. target.allocated
    BY <1>4
  <2>1. target = Empty(raw, TRUE) /\ raw \in 1 .. MaxSlots /\ IsAddressable(raw)
    BY <2>0, MakeIs, Zenon
  <2>2. r = [outcome |-> "reallocated", table |-> Refilled(target, t)]
    BY <1>4 DEF ForceResized
  <2> DEFINE v == Refilled(target, t)
  <2>3. /\ Sound(v) /\ v.count = raw /\ v.populated = t.populated /\ v.deleted = 0
        /\ \A l \in Keys, w \in Values : Has(v, l, w) <=> Has(t, l, w)
    <3>1. raw \in 0 .. MaxSlots /\ t.populated <= raw
      BY <1>1, <1>4, <2>1
    <3> HIDE DEF target
    <3>2. QED
      BY <1>1, <2>1, <3>1, RefilledSound
  <2> HIDE DEF v, r
  <2>4. r.table = v /\ r.outcome = "reallocated"
    BY <2>2 DEF v
  <2>5. QED
    BY <2>1, <2>3, <2>4 DEF r, Same
<1>5. QED
  BY <1>2, <1>3, <1>4

\* A reservation keeps the elements and grows the table, below whose load it was, to what was planned.
LEMMA ReservedIs ==
    ASSUME Fits, NEW t, Sound(t), NEW planned \in Nat, NEW granted
    PROVE  LET r == Reserved(t, planned, granted)
               u == r.table
           IN  /\ Same(u, t) /\ r.outcome \in {"unchanged", "failed", "reallocated"}
               /\ r.outcome # "reallocated" => u = t
               /\ r.outcome = "unchanged" => planned <= Threshold(t)
               /\ r.outcome = "reallocated" =>
                    u.deleted = 0 /\ (Buckets => Threshold(u) >= planned /\ Threshold(u) >= Threshold(t))
<1> DEFINE r == Reserved(t, planned, granted)
           raw == ForElements(planned)
           f == ForceResized(t, raw, granted)
<1>1. t.count \in Nat /\ Threshold(t) \in Nat
  BY CountersAre DEF Threshold, GrowthThreshold
<1>2. CASE planned <= Threshold(t)
  <2>1. r = [outcome |-> "unchanged", table |-> t]
    BY <1>2 DEF Reserved
  <2>2. QED
    BY <1>2, <2>1 DEF Same
<1>3. CASE ~(planned <= Threshold(t))
  <2>1. r = f
    BY <1>3 DEF Reserved
  <2>2. TableAssumption
    BY DEF Fits
  <2>3. raw \in Nat /\ (Buckets /\ IsAddressable(raw) => GrowthThreshold(raw) >= planned)
    BY <2>2, ForElementsIs
  <2> HIDE DEF raw, r
  <2>4. /\ Same(f.table, t) /\ f.outcome \in {"failed", "reallocated"}
        /\ f.outcome = "failed" => f.table = t
        /\ f.outcome = "reallocated" => f.table.count = raw /\ f.table.deleted = 0 /\ IsAddressable(raw)
    BY <2>3, ForceResizedIs
  <2> HIDE DEF f
  <2>5. ASSUME f.outcome = "reallocated", Buckets
        PROVE  Threshold(f.table) >= planned /\ Threshold(f.table) >= Threshold(t)
    <3>1. GrowthThreshold(raw) >= planned /\ GrowthThreshold(raw) \in Nat
      BY <2>3, <2>4, <2>5 DEF GrowthThreshold
    <3>2. Threshold(f.table) = GrowthThreshold(raw)
      BY <2>4, <2>5 DEF Threshold
    <3>3. QED
      BY <1>1, <1>3, <3>1, <3>2
  <2>6. QED
    BY <2>1, <2>4, <2>5 DEF r
<1>4. QED
  BY <1>2, <1>3

\* Before a key is stored that is not there, the table has room for it below its load.
LEMMA ReservedForKeyIs ==
    ASSUME Fits, NEW t, Sound(t), NEW k \in Keys, NEW unique, NEW granted
    PROVE  LET r == ReservedForKey(t, k, unique, granted)
               u == r.table
           IN  /\ Same(u, t) /\ r.outcome \in {"unchanged", "failed", "reallocated"}
               /\ r.outcome # "reallocated" => u = t
               /\ r.outcome = "failed" => unique \/ Matching(t, k) = {}
               /\ Buckets /\ r.outcome # "failed" =>
                    /\ Threshold(u) >= Threshold(t)
                    /\ unique \/ Matching(t, k) = {} => u.populated + u.deleted + 1 <= Threshold(u)
<1> DEFINE r == ReservedForKey(t, k, unique, granted)
           planned == 1 + t.populated + t.deleted
           f == Reserved(t, planned, granted)
<1>1. t.count \in Nat /\ t.populated \in Nat /\ t.deleted \in Nat /\ Threshold(t) \in Nat
  BY CountersAre DEF Threshold, GrowthThreshold
<1>2. CASE ~unique /\ Matching(t, k) # {}
  <2>1. r = [outcome |-> "unchanged", table |-> t]
    BY <1>2 DEF ReservedForKey
  <2>2. QED
    BY <1>1, <1>2, <2>1 DEF Same
<1>3. CASE ~(~unique /\ Matching(t, k) # {})
  <2>1. r = f
    BY <1>3 DEF ReservedForKey
  <2>2. planned \in Nat
    BY <1>1
  <2> HIDE DEF planned, r
  <2>3. /\ Same(f.table, t) /\ f.outcome \in {"unchanged", "failed", "reallocated"}
        /\ f.outcome # "reallocated" => f.table = t
        /\ f.outcome = "unchanged" => planned <= Threshold(t)
        /\ f.outcome = "reallocated" =>
              /\ f.table.deleted = 0
              /\ Buckets => Threshold(f.table) >= planned /\ Threshold(f.table) >= Threshold(t)
    BY <2>2, ReservedIs
  <2> HIDE DEF f
  <2>4. ASSUME Buckets, f.outcome # "failed"
        PROVE  /\ Threshold(f.table) >= Threshold(t)
               /\ f.table.populated + f.table.deleted + 1 <= Threshold(f.table)
    <3>1. f.table.populated = t.populated
      BY <2>3 DEF Same
    <3>2. Threshold(f.table) \in Nat
      BY <2>3, CountersAre DEF Same, Threshold, GrowthThreshold
    <3>3. CASE f.outcome = "unchanged"
      BY <1>1, <2>3, <3>3 DEF planned
    <3>4. CASE f.outcome = "reallocated"
      BY <1>1, <2>3, <2>4, <3>1, <3>2, <3>4 DEF planned
    <3>5. QED
      BY <2>3, <2>4, <3>3, <3>4
  <2>5. QED
    BY <1>3, <2>1, <2>3, <2>4 DEF r
<1>4. QED
  BY <1>2, <1>3

----------------------------------------------------------------------------
(* The books through every call. *)

\* What is there is what the calls made of it.
HashBooks ==
    /\ Sound(table) /\ pinned \in BOOLEAN /\ contents \in [Keys -> Values \cup {Absent}]
    /\ room \in Nat /\ Holds(table, contents)

\* What the call a table is handed leaves of a key.
Left(c, k, v, outcome, over) ==
    IF outcome \in {"inserted", "updated"}
    THEN [c EXCEPT ![k] = IF outcome = "updated" /\ ~over THEN c[k] ELSE v] ELSE c

\* Storing an element changes the key it names, unless it has a value that is not to be overwritten.
LEMMA StoredHolds ==
    ASSUME NEW t, Sound(t), NEW c \in [Keys -> Values \cup {Absent}], Holds(t, c),
           NEW k \in Keys, NEW v \in Values, NEW S, Entry(t, k, S), NEW over
    PROVE  LET r == Stored(t, S, k, v, over)
               d == Left(c, k, v, r.outcome, over)
           IN  d \in [Keys -> Values \cup {Absent}] /\ Holds(r.table, d)
<1> DEFINE r == Stored(t, S, k, v, over)
           u == r.table
           o == r.outcome
           d == Left(c, k, v, o, over)
<1>0. Taken(r, t, S, k, v, over)
  BY StoredIs
<1> HIDE DEF r
<1>1. /\ o = IF S = {} THEN "no_slot" ELSE IF Matching(t, k) # {} THEN "updated" ELSE "inserted"
      /\ o = "no_slot" => u = t
      /\ o = "updated" =>
            \A l \in Keys, w \in Values : Has(u, l, w) <=> IF l = k /\ over THEN w = v ELSE Has(t, l, w)
      /\ o = "inserted" =>
            \A l \in Keys, w \in Values : Has(u, l, w) <=> IF l = k THEN w = v ELSE Has(t, l, w)
  BY <1>0 DEF Taken
<1> HIDE DEF u, o
<1>2. CASE o = "no_slot"
  <2>1. d = c
    BY <1>2 DEF Left
  <2>2. QED
    BY <1>1, <1>2, <2>1 DEF r, u, o
<1>3. CASE o = "inserted"
  <2>1. d = [c EXCEPT ![k] = v]
    BY <1>3 DEF Left
  <2>2. d \in [Keys -> Values \cup {Absent}] /\ \A l \in Keys : d[l] = IF l = k THEN v ELSE c[l]
    BY <2>1
  <2> HIDE DEF d
  <2>3. Holds(u, d)
    BY <1>1, <1>3, <2>2 DEF Holds
  <2>4. QED
    BY <2>2, <2>3 DEF r, u, o, d
<1>4. CASE o = "updated" /\ over
  <2>1. d = [c EXCEPT ![k] = v]
    BY <1>4 DEF Left
  <2>2. d \in [Keys -> Values \cup {Absent}] /\ \A l \in Keys : d[l] = IF l = k THEN v ELSE c[l]
    BY <2>1
  <2> HIDE DEF d
  <2>3. \A l \in Keys, w \in Values : Has(u, l, w) <=> IF l = k THEN w = v ELSE Has(t, l, w)
    BY <1>1, <1>4
  <2>4. Holds(u, d)
    BY <2>2, <2>3 DEF Holds
  <2>5. QED
    BY <2>2, <2>4 DEF r, u, o, d
<1>5. CASE o = "updated" /\ ~over
  <2>1. d = [c EXCEPT ![k] = c[k]]
    BY <1>5 DEF Left
  <2>2. d = c
    BY <2>1
  <2>3. \A l \in Keys, w \in Values : Has(u, l, w) <=> Has(t, l, w)
    BY <1>1, <1>5
  <2>4. Holds(u, c)
    BY <2>3 DEF Holds
  <2>5. QED
    BY <2>2, <2>4 DEF r, u, o
<1>6. QED
  BY <1>1, <1>2, <1>3, <1>4, <1>5

\* Tables with the same elements are told apart by neither a probe nor what is to be there.
LEMMA SameIs ==
    ASSUME NEW t, Sound(t), NEW u, Same(u, t)
    PROVE  /\ Sound(u) /\ u.populated = t.populated
           /\ \A k \in Keys : Matching(u, k) = {} <=> Matching(t, k) = {}
           /\ \A c : Holds(t, c) => Holds(u, c)
<1>1. Sound(u) /\ u.populated = t.populated /\ \A l \in Keys, w \in Values : Has(u, l, w) <=> Has(t, l, w)
  BY DEF Same
<1>2. ASSUME NEW k \in Keys PROVE Matching(u, k) = {} <=> Matching(t, k) = {}
  <2>1. Matching(u, k) = {} <=> \A v \in Values : ~Has(u, k, v)
    BY <1>1, HasIs
  <2>2. Matching(t, k) = {} <=> \A v \in Values : ~Has(t, k, v)
    BY HasIs
  <2>3. QED
    BY <1>1, <2>1, <2>2
<1>3. QED
  BY <1>1, <1>2 DEF Holds

\* A call that stores an element, in the table it has or one it moved the elements to.
LEMMA AnsweredKeeps ==
    ASSUME Fits, HashBooks, NEW t, Same(t, table), NEW k \in Keys, NEW v \in Values, NEW S, Entry(t, k, S),
           NEW over, NEW call, NEW w,
           w = IF Stored(t, S, k, v, over).outcome = "updated" /\ ~over THEN contents[k] ELSE v,
           Answered(call, Stored(t, S, k, v, over), k, w), pinned' = pinned
    PROVE  /\ HashBooks' /\ table'.count = t.count
           /\ answer'.call = call /\ answer'.of = k
           /\ answer'.outcome = IF S = {} THEN "no_slot"
                                ELSE IF Matching(table, k) # {} THEN "updated" ELSE "inserted"
           /\ answer'.outcome # "inserted" =>
                /\ table'.populated = t.populated /\ table'.deleted = t.deleted
                /\ room' = room
           /\ answer'.outcome = "inserted" =>
                /\ table'.populated = t.populated + 1
                /\ table'.deleted = t.deleted \/ table'.deleted = t.deleted - 1
                /\ room' = Max({room - 1, 0})
<1> DEFINE r == Stored(t, S, k, v, over)
           d == Left(contents, k, v, r.outcome, over)
<1>1. /\ Sound(t) /\ Sound(table) /\ Holds(t, contents) /\ contents \in [Keys -> Values \cup {Absent}]
      /\ Matching(t, k) = {} <=> Matching(table, k) = {}
  BY SameIs DEF HashBooks
<1>2. d \in [Keys -> Values \cup {Absent}] /\ Holds(r.table, d)
  BY <1>1, StoredHolds
<1>3. /\ Sound(r.table) /\ r.table.count = t.count
      /\ r.outcome = IF S = {} THEN "no_slot" ELSE IF Matching(t, k) # {} THEN "updated" ELSE "inserted"
      /\ r.outcome = "no_slot" => r.table = t
      /\ r.outcome = "updated" => r.table.populated = t.populated /\ r.table.deleted = t.deleted
      /\ r.outcome = "inserted" =>
            /\ r.table.populated = t.populated + 1
            /\ r.table.deleted = t.deleted \/ r.table.deleted = t.deleted - 1
  <2>1. Taken(r, t, S, k, v, over)
    BY <1>1, StoredIs
  <2> HIDE DEF r
  <2>2. QED
    BY <2>1 DEF Taken
<1>4. /\ table' = r.table /\ answer' = [call |-> call, of |-> k, outcome |-> r.outcome]
      /\ contents' = d
      /\ room' = IF r.outcome = "inserted" THEN Max({room - 1, 0}) ELSE room
  <2>1. w = IF r.outcome = "updated" /\ ~over THEN contents[k] ELSE v
    OBVIOUS
  <2>2. Answered(call, r, k, w)
    OBVIOUS
  <2> HIDE DEF r
  <2>3. QED
    BY <2>1, <2>2 DEF Answered, Answers, Left
<1> HIDE DEF r, d
<1>5. room' \in Nat
  <2>1. room \in Nat
    BY DEF HashBooks
  <2>2. room - 1 \in Int /\ 0 \in Int
    BY <2>1
  <2>3. Max({room - 1, 0}) \in {room - 1, 0} /\ Max({room - 1, 0}) >= 0
    BY <2>2, MaxIs
  <2>4. Max({room - 1, 0}) \in Nat
    BY <2>2, <2>3
  <2>5. QED
    BY <1>4, <2>1, <2>4
<1>6. HashBooks'
  BY <1>2, <1>3, <1>4, <1>5 DEF HashBooks
<1>7. QED
  BY <1>1, <1>3, <1>4, <1>6

\* What the load is to be, and the room a reservation promised.
Load == LoadStaysBelow /\ ReservationKept /\ ReserveFits

\* The load and the promises through a call that stores an element, given the room it made before it.
LEMMA AnsweredLoad ==
    ASSUME Buckets, HashBooks, Load, NEW t, Same(t, table), Threshold(t) >= Threshold(table), NEW S,
           NEW k \in Keys, answer'.call = "emplace_reserved" /\ t.populated < t.count => S # {},
           HashBooks', table'.count = t.count, answer'.call # "reserve",
           answer'.outcome = IF S = {} THEN "no_slot"
                             ELSE IF Matching(table, k) # {} THEN "updated" ELSE "inserted",
           answer'.call \in {"emplace", "upsert"} /\ Matching(table, k) = {} =>
                t.populated + t.deleted + 1 <= Threshold(t),
           answer'.outcome # "inserted" =>
                table'.populated = t.populated /\ table'.deleted = t.deleted /\ room' = room,
           answer'.outcome = "inserted" =>
                /\ table'.populated = t.populated + 1
                /\ table'.deleted = t.deleted \/ table'.deleted = t.deleted - 1
                /\ room' = Max({room - 1, 0})
    PROVE  Load'
<1>1. /\ Sound(t) /\ t.populated = table.populated /\ Sound(table) /\ room \in Nat
  BY DEF HashBooks, Same
<1>2. /\ t.count \in Nat /\ t.populated \in Nat /\ t.deleted \in Nat
      /\ Threshold(t) = (t.count * 3) \div 4 /\ Threshold(table') = (t.count * 3) \div 4
      /\ table.count \in Nat /\ Threshold(table) = (table.count * 3) \div 4
  BY <1>1, CountersAre DEF Threshold, GrowthThreshold
<1>3. Threshold(t) \in Nat /\ Threshold(t) <= t.count /\ Threshold(table) \in Nat /\ Threshold(table') = Threshold(t)
  BY <1>2
<1>4. (room > 0 => Max({room - 1, 0}) = room - 1) /\ (room = 0 => Max({room - 1, 0}) = 0)
  <2>1. room - 1 \in Int /\ 0 \in Int /\ (room > 0 => room - 1 >= 0) /\ (room = 0 => 0 >= room - 1)
    BY <1>1
  <2>2. QED
    BY <2>1, MaxIs
<1>5. room > 0 => table.populated + room <= Threshold(table)
  BY DEF Load, ReservationKept
<1>6. LoadStaysBelow'
  BY <1>2, <1>3 DEF LoadStaysBelow
<1>7. room' > 0 => table'.populated + room' <= Threshold(table')
  BY <1>1, <1>2, <1>3, <1>4, <1>5
<1>8. answer'.call = "emplace_reserved" /\ answer'.outcome = "no_slot" => room' = 0
  BY <1>1, <1>2, <1>3, <1>5
<1>9. ReservationKept'
  BY <1>7, <1>8 DEF ReservationKept
<1>10. ReserveFits'
  BY DEF ReserveFits
<1>11. QED
  BY <1>6, <1>9, <1>10 DEF Load

\* What every call keeps: the books, no refusal to overwrite, and, with buckets of some slots, the load.
Kept == HashBooks' /\ OverwriteNeverRefused' /\ (Buckets /\ Load => Load')

\* A call that stores an element in a table that has the room for it.
LEMMA StoresKeep ==
    ASSUME Fits, HashBooks, NEW t, Same(t, table), NEW k \in Keys, NEW v \in Values, NEW S, Entry(t, k, S),
           NEW over, NEW call, NEW w, call # "reserve",
           call = "emplace_reserved" /\ t.populated < t.count => S # {},
           w = IF Stored(t, S, k, v, over).outcome = "updated" /\ ~over THEN contents[k] ELSE v,
           Answered(call, Stored(t, S, k, v, over), k, w), pinned' = pinned,
           Buckets => Threshold(t) >= Threshold(table),
           Buckets /\ call \in {"emplace", "upsert"} /\ Matching(table, k) = {} =>
                t.populated + t.deleted + 1 <= Threshold(t)
    PROVE  Kept
<1>1. /\ HashBooks' /\ table'.count = t.count
      /\ answer'.call = call /\ answer'.of = k
      /\ answer'.outcome = IF S = {} THEN "no_slot"
                           ELSE IF Matching(table, k) # {} THEN "updated" ELSE "inserted"
      /\ answer'.outcome # "inserted" =>
            table'.populated = t.populated /\ table'.deleted = t.deleted /\ room' = room
      /\ answer'.outcome = "inserted" =>
            /\ table'.populated = t.populated + 1
            /\ table'.deleted = t.deleted \/ table'.deleted = t.deleted - 1
            /\ room' = Max({room - 1, 0})
  BY AnsweredKeeps, Zenon
<1>2. OverwriteNeverRefused'
  BY <1>1 DEF OverwriteNeverRefused
<1>3. Buckets /\ Load => Load'
  BY <1>1, AnsweredLoad
<1>4. QED
  BY <1>1, <1>2, <1>3 DEF Kept

\* A call that is refused the memory for a new key.
LEMMA RefusedKeeps ==
    ASSUME HashBooks, NEW k \in Keys, NEW v, NEW call \in {"emplace", "upsert"},
           contents[k] = Absent, Answered(call, Refusal, k, v), pinned' = pinned
    PROVE  Kept
<1>1. /\ table' = table /\ contents' = contents /\ room' = room
      /\ answer' = [call |-> call, of |-> k, outcome |-> "no_memory"]
  BY DEF Answered, Answers, Refusal
<1>2. HashBooks'
  BY <1>1 DEF HashBooks
<1>3. OverwriteNeverRefused'
  BY <1>1 DEF OverwriteNeverRefused
<1>4. ASSUME Load PROVE Load'
  <2>1. LoadStaysBelow' /\ ReserveFits'
    BY <1>1 DEF LoadStaysBelow, ReserveFits
  <2>2. ReservationKept'
    BY <1>1, <1>4 DEF Load, ReservationKept, Threshold
  <2>3. QED
    BY <2>1, <2>2 DEF Load
<1>5. QED
  BY <1>2, <1>3, <1>4 DEF Kept

\* emplace: into the table it has or the one it makes, anywhere a new key may go, or else where it would be found.
LEMMA EmplaceKeeps ==
    ASSUME Fits, HashBooks, NEW k \in Keys, NEW v \in Values,
           NEW reserved \in BOOLEAN, NEW unique \in BOOLEAN, NEW granted \in BOOLEAN,
           Emplace(k, v, reserved, unique, granted)
    PROVE  Kept
<1> DEFINE roomy == IF reserved THEN [outcome |-> "unchanged", table |-> table]
                                ELSE ReservedForKey(table, k, unique, granted)
           t == roomy.table
           S == IF unique THEN InsertedAt(t, k) ELSE UpsertedAt(t, k)
           updating == S \cap InState(t.states, Populated) # {}
           call == IF reserved THEN "emplace_reserved" ELSE "emplace"
           r == Stored(t, S, k, v, HasValues)
           w == IF updating /\ ~HasValues THEN contents[k] ELSE v
<1>1. /\ unique => contents[k] = Absent
      /\ pinned' = pinned
      /\ IF roomy.outcome = "failed" THEN Answered("emplace", Refusal, k, v) ELSE Answered(call, r, k, w)
  BY DEF Emplace
<1>2. Sound(table) /\ (Matching(table, k) = {} <=> contents[k] = Absent)
  BY HeldIsFound DEF HashBooks, Fits
<1>3. /\ Same(t, table)
      /\ roomy.outcome = "failed" => ~reserved /\ (unique \/ Matching(table, k) = {})
      /\ Buckets /\ roomy.outcome # "failed" =>
            /\ Threshold(t) >= Threshold(table)
            /\ ~reserved /\ (unique \/ Matching(table, k) = {}) => t.populated + t.deleted + 1 <= Threshold(t)
  <2>1. CASE reserved
    <3>1. t = table /\ roomy.outcome = "unchanged"
      BY <2>1
    <3>2. Threshold(table) >= Threshold(table)
      BY <1>2, CountersAre DEF Threshold, GrowthThreshold
    <3>3. Same(table, table)
      BY <1>2 DEF Same
    <3> HIDE DEF t, roomy
    <3>4. QED
      BY <2>1, <3>1, <3>2, <3>3
  <2>2. CASE ~reserved
    <3>1. roomy = ReservedForKey(table, k, unique, granted)
      BY <2>2
    <3>2. QED
      BY <1>2, <2>2, <3>1, ReservedForKeyIs
  <2>3. QED
    BY <2>1, <2>2
<1> HIDE DEF roomy
<1>4. CASE roomy.outcome = "failed"
  <2>1. contents[k] = Absent
    BY <1>1, <1>2, <1>3, <1>4
  <2>2. QED
    BY <1>1, <1>4, <2>1, RefusedKeeps
<1>5. CASE roomy.outcome # "failed"
  <2>1. Sound(t) /\ (Matching(t, k) = {} <=> Matching(table, k) = {})
    BY <1>2, <1>3, SameIs
  <2>2. Entry(t, k, S) /\ (t.populated < t.count => S # {})
    <3>1. CASE unique
      BY <1>1, <1>2, <2>1, <3>1, InsertedEntry
    <3>2. CASE ~unique
      BY <2>1, <3>2, UpsertedEntry
    <3>3. QED
      BY <3>1, <3>2
  <2> HIDE DEF t, S
  <2>3. r.outcome = IF S = {} THEN "no_slot" ELSE IF Matching(t, k) # {} THEN "updated" ELSE "inserted"
    <3>1. Taken(r, t, S, k, v, HasValues)
      BY <2>1, <2>2, StoredIs
    <3> HIDE DEF r
    <3>2. QED
      BY <3>1 DEF Taken
  <2>4. updating <=> r.outcome = "updated"
    <3>1. Matching(t, k) = {s \in Circle(t.count) : t.states[s] = Populated /\ t.stored[s] = k}
      BY <2>1, MatchingIs
    <3>2. InState(t.states, Populated) = {s \in Circle(t.count) : t.states[s] = Populated}
      BY <2>1, InStateIs DEF Sound
    <3>3. QED
      BY <2>2, <2>3, <3>1, <3>2 DEF Entry
  <2>5. Answered(call, r, k, w)
    BY <1>1, <1>5
  <2> HIDE DEF updating
  <2>6. w = IF r.outcome = "updated" /\ ~HasValues THEN contents[k] ELSE v
    BY <2>4
  <2>7. call # "reserve" /\ (call \in {"emplace", "upsert"} => ~reserved)
    OBVIOUS
  <2>8. Buckets => /\ Threshold(t) >= Threshold(table)
                   /\ call \in {"emplace", "upsert"} /\ Matching(table, k) = {} =>
                            t.populated + t.deleted + 1 <= Threshold(t)
    BY <1>3, <1>5, <2>7 DEF t
  <2>9. Same(t, table)
    BY <1>3 DEF t
  <2> HIDE DEF r, call, w
  <2>10. QED
    BY <1>1, <2>2, <2>5, <2>6, <2>7, <2>8, <2>9, StoresKeep DEF r
<1>6. QED
  BY <1>4, <1>5

\* upsert: where the key would be found, overwriting what is there.
LEMMA UpsertKeeps ==
    ASSUME Fits, HashBooks, NEW k \in Keys, NEW v \in Values, NEW granted \in BOOLEAN, Upsert(k, v, granted)
    PROVE  Kept
<1>1. PICK no, yes : no = FALSE /\ yes = TRUE
  BY Zenon
<1> DEFINE roomy == ReservedForKey(table, k, no, granted)
           t == roomy.table
           S == UpsertedAt(t, k)
           r == Stored(t, S, k, v, yes)
<1>2. /\ pinned' = pinned
      /\ IF roomy.outcome = "failed" THEN Answered("upsert", Refusal, k, v) ELSE Answered("upsert", r, k, v)
  BY <1>1, Zenon DEF Upsert
<1>3. Sound(table) /\ (Matching(table, k) = {} <=> contents[k] = Absent)
  BY HeldIsFound DEF HashBooks, Fits
<1>4. ~no /\ yes
  BY <1>1, Zenon
<1>5. /\ Same(t, table)
      /\ roomy.outcome = "failed" => no \/ Matching(table, k) = {}
      /\ Buckets /\ roomy.outcome # "failed" =>
            /\ Threshold(t) >= Threshold(table)
            /\ no \/ Matching(table, k) = {} => t.populated + t.deleted + 1 <= Threshold(t)
  BY <1>3, ReservedForKeyIs
<1> HIDE DEF roomy
<1>6. CASE roomy.outcome = "failed"
  <2>1. contents[k] = Absent
    BY <1>3, <1>4, <1>5, <1>6
  <2>2. QED
    BY <1>2, <1>6, <2>1, RefusedKeeps
<1>7. CASE roomy.outcome # "failed"
  <2>1. Entry(t, k, S) /\ (t.populated < t.count => S # {})
    BY <1>3, <1>5, SameIs, UpsertedEntry
  <2>2. Answered("upsert", r, k, v)
    BY <1>2, <1>7
  <2>3. v = IF r.outcome = "updated" /\ ~yes THEN contents[k] ELSE v
    BY <1>4
  <2>4. Buckets => /\ Threshold(t) >= Threshold(table)
                   /\ Matching(table, k) = {} => t.populated + t.deleted + 1 <= Threshold(t)
    BY <1>5, <1>7
  <2> HIDE DEF t, S
  <2>5. Same(t, table)
    BY <1>5 DEF t
  <2>6. QED
    BY <1>2, <2>1, <2>2, <2>3, <2>4, <2>5, StoresKeep
<1>8. QED
  BY <1>6, <1>7

\* The pinned table takes a free slot, or the element the key has.
LEMMA PinnedEmplaceKeeps ==
    ASSUME Fits, HashBooks, NEW k \in Keys, NEW v \in Values, PinnedEmplace(k, v)
    PROVE  Kept
<1> DEFINE F == Reached(table, k) \cap InState(table.states, Free)
           S == IF Matching(table, k) # {} THEN Matching(table, k) ELSE F
           r == Stored(table, S, k, v, HasValues)
           w == IF r.outcome = "updated" /\ ~HasValues THEN contents[k] ELSE v
<1>1. pinned' = pinned /\ Answered("pinned_emplace", r, k, w)
  BY DEF PinnedEmplace
<1>2. Sound(table) /\ Same(table, table) /\ table.count \in Nat
  BY CountersAre DEF HashBooks, Same
<1>3. Threshold(table) >= Threshold(table)
  BY <1>2 DEF Threshold, GrowthThreshold
<1>4. /\ F \subseteq Circle(table.count)
      /\ \A s \in F : table.states[s] = Free /\ \A p \in Passed(k, s, table.count) : table.states[p] # Free
  BY <1>2, ReachedIs, InStateIs DEF Sound
<1>5. Entry(table, k, S)
  <2>1. CASE Matching(table, k) # {}
    BY <2>1 DEF Entry
  <2>2. CASE Matching(table, k) = {}
    <3>1. F # {} => Nearest(k, F, table.count) \in F
      BY <1>2, <1>4, NearestIs
    <3> HIDE DEF F
    <3>2. QED
      BY <1>4, <2>2, <3>1, StatesDiffer DEF Entry
  <2>3. QED
    BY <2>1, <2>2
<1> HIDE DEF S, r, w
<1>6. Buckets => Threshold(table) >= Threshold(table)
  BY <1>3
<1>7. QED
  BY <1>1, <1>2, <1>5, <1>6, StoresKeep DEF w, r

\* Erasing leaves what was promised and takes nothing else away.
LEMMA EraseKeeps ==
    ASSUME Fits, HashBooks, NEW k \in Keys, EraseKey(k) \/ PinnedErase(k)
    PROVE  Kept
<1> DEFINE at == Nearest(k, Matching(table, k), table.count)
           none == Matching(table, k) = {}
<1>1. /\ IF none THEN table' = table ELSE table' = Erase(table, at)
      /\ answer'.call = "erase" /\ answer'.outcome # "no_memory"
      /\ contents' = [contents EXCEPT ![k] = Absent] /\ pinned' = pinned /\ room' = room
  BY DEF EraseKey, PinnedErase, Answers
<1>2. /\ Sound(table) /\ (none <=> contents[k] = Absent) /\ room \in Nat /\ Holds(table, contents)
      /\ contents \in [Keys -> Values \cup {Absent}] /\ Absent \notin Values
  BY HeldIsFound DEF HashBooks, Fits, TableAssumption, Absent
<1>3. /\ Sound(table') /\ table'.count = table.count /\ table'.populated <= table.populated
      /\ \A l \in Keys, w \in Values : Has(table', l, w) <=> l # k /\ Has(table, l, w)
  <2>1. CASE none
    <3>1. \A w \in Values : ~Has(table, k, w)
      BY <1>2, <2>1, HasIs
    <3>2. table.populated \in Nat
      BY <1>2, CountersAre
    <3>3. QED
      BY <1>1, <1>2, <2>1, <3>1, <3>2
  <2>2. CASE ~none
    <3>1. at \in Matching(table, k)
      BY <1>2, <2>2, CountersAre, MatchingIs, NearestIs
    <3>2. table' = Erase(table, at)
      BY <1>1, <2>2
    <3> HIDE DEF at
    <3>3. table.populated \in Nat /\ table.populated - 1 <= table.populated
      BY <1>2, CountersAre
    <3>4. QED
      BY <1>2, <3>1, <3>2, <3>3, EraseSound
  <2>3. QED
    BY <2>1, <2>2
<1>4. /\ contents' \in [Keys -> Values \cup {Absent}]
      /\ \A l \in Keys : contents'[l] = IF l = k THEN Absent ELSE contents[l]
  BY <1>1, <1>2
<1>5. Holds(table', contents')
  BY <1>2, <1>3, <1>4 DEF Holds
<1>6. HashBooks'
  BY <1>1, <1>2, <1>3, <1>4, <1>5 DEF HashBooks
<1>7. ASSUME Load PROVE Load'
  <2>1. LoadStaysBelow' /\ ReserveFits'
    BY <1>1 DEF LoadStaysBelow, ReserveFits
  <2>2. Threshold(table') = Threshold(table) /\ Threshold(table) \in Nat
    BY <1>2, <1>3, CountersAre DEF Threshold, GrowthThreshold
  <2>3. room > 0 => table.populated + room <= Threshold(table)
    BY <1>7 DEF Load, ReservationKept
  <2>4. table'.populated \in Nat /\ table.populated \in Nat
    BY <1>2, <1>3, CountersAre
  <2>5. ReservationKept'
    BY <1>1, <1>2, <1>3, <2>2, <2>3, <2>4 DEF ReservationKept
  <2>6. QED
    BY <2>1, <2>5 DEF Load
<1>8. OverwriteNeverRefused'
  BY <1>1 DEF OverwriteNeverRefused
<1>9. QED
  BY <1>6, <1>7, <1>8 DEF Kept

\* A call that only moves the elements keeps them all, and leaves the room it promises.
LEMMA ResizedKeeps ==
    ASSUME HashBooks, NEW call, NEW of, NEW r, NEW promised \in Int, Resized(call, of, r, promised),
           Same(r.table, table), r.outcome = "failed" => r.table = table, r.outcome # "no_memory",
           call \notin {"emplace", "upsert", "emplace_reserved"},
           Buckets /\ r.outcome # "failed" =>
                /\ promised > 0 => table.populated + promised <= Threshold(r.table)
                /\ call = "reserve" => Threshold(r.table) >= of
    PROVE  Kept
<1>1. /\ table' = r.table /\ answer' = [call |-> call, of |-> of, outcome |-> r.outcome]
      /\ room' = IF r.outcome = "failed" THEN room ELSE Max({promised, 0})
      /\ pinned' = pinned /\ contents' = contents
  BY DEF Resized, Answers
<1>2. Sound(table') /\ Holds(table', contents') /\ table'.populated = table.populated /\ Sound(table)
  BY <1>1, SameIs DEF HashBooks
<1>3. Max({promised, 0}) \in Nat /\ (promised > 0 => Max({promised, 0}) = promised)
      /\ (promised <= 0 => Max({promised, 0}) = 0)
  <2>1. promised \in Int /\ 0 \in Int /\ (promised > 0 => promised >= 0) /\ (promised <= 0 => 0 >= promised)
    OBVIOUS
  <2>2. (promised > 0 => Max({promised, 0}) = promised) /\ (promised <= 0 => Max({promised, 0}) = 0)
    BY <2>1, MaxIs
  <2>3. QED
    BY <2>2
<1>4. HashBooks'
  BY <1>1, <1>2, <1>3 DEF HashBooks
<1>5. OverwriteNeverRefused'
  BY <1>1 DEF OverwriteNeverRefused
<1>6. ASSUME Buckets, Load PROVE Load'
  <2>1. LoadStaysBelow'
    BY <1>1 DEF LoadStaysBelow
  <2>2. ReserveFits'
    BY <1>1, <1>6 DEF ReserveFits
  <2>3. room > 0 => table.populated + room <= Threshold(table)
    BY <1>6 DEF Load, ReservationKept
  <2>4. ReservationKept'
    BY <1>1, <1>2, <1>3, <1>6, <2>3 DEF ReservationKept
  <2>5. QED
    BY <2>1, <2>2, <2>4 DEF Load
<1>7. QED
  BY <1>4, <1>5, <1>6 DEF Kept

\* The calls that reserve: what they are asked for fits below the load.
LEMMA ReservesKeep ==
    ASSUME Fits, HashBooks, NEW n \in Nat, NEW granted \in BOOLEAN, Reserve(n, granted) \/ ReserveMore(n, granted)
    PROVE  Kept
<1>1. Sound(table) /\ table.populated \in Nat /\ table.deleted \in Nat /\ table.count \in Nat
  BY CountersAre DEF HashBooks
<1>2. Threshold(table) \in Nat
  BY <1>1 DEF Threshold, GrowthThreshold
<1>3. ASSUME NEW planned \in Nat
      PROVE  LET r == Reserved(table, planned, granted)
             IN  /\ Same(r.table, table) /\ r.outcome # "no_memory"
                 /\ r.outcome = "failed" => r.table = table
                 /\ Buckets /\ r.outcome # "failed" => Threshold(r.table) >= planned
  <2> DEFINE r == Reserved(table, planned, granted)
             u == r.table
  <2>1. /\ Same(u, table) /\ r.outcome \in {"unchanged", "failed", "reallocated"}
        /\ r.outcome # "reallocated" => u = table
        /\ r.outcome = "unchanged" => planned <= Threshold(table)
        /\ r.outcome = "reallocated" => (Buckets => Threshold(u) >= planned)
    BY <1>1, ReservedIs
  <2> HIDE DEF r
  <2>2. r.outcome = "unchanged" => Threshold(u) >= planned
    BY <1>2, <2>1
  <2>3. QED
    BY <2>1, <2>2 DEF r
<1>4. CASE Reserve(n, granted)
  <2> DEFINE r == Reserved(table, n, granted)
             promised == n - table.populated
  <2>1. Resized("reserve", n, r, promised)
    BY <1>4 DEF Reserve
  <2>2. /\ Same(r.table, table) /\ r.outcome # "no_memory"
        /\ r.outcome = "failed" => r.table = table
        /\ Buckets /\ r.outcome # "failed" => Threshold(r.table) >= n
    BY <1>3
  <2>3. Threshold(r.table) \in Nat
    BY <2>2, SameIs, <1>1, CountersAre DEF Threshold, GrowthThreshold
  <2> HIDE DEF r
  <2>4. promised \in Int /\ table.populated + promised = n
    BY <1>1
  <2> HIDE DEF promised
  <2>5. Buckets /\ r.outcome # "failed" =>
            /\ promised > 0 => table.populated + promised <= Threshold(r.table)
            /\ Threshold(r.table) >= n
    BY <2>2, <2>3, <2>4
  <2>6. QED
    BY <2>1, <2>2, <2>4, <2>5, ResizedKeeps
<1>5. CASE ReserveMore(n, granted)
  <2> DEFINE planned == MoreThan(table, n)
             r == Reserved(table, planned, granted)
  <2>1. Resized("reserve_more", n, r, n)
    BY <1>5 DEF ReserveMore
  <2>2. planned \in Nat /\ table.populated + n <= planned
    BY <1>1 DEF MoreThan
  <2> HIDE DEF planned
  <2>3. /\ Same(r.table, table) /\ r.outcome # "no_memory"
        /\ r.outcome = "failed" => r.table = table
        /\ Buckets /\ r.outcome # "failed" => Threshold(r.table) >= planned
    BY <1>3, <2>2
  <2>4. Threshold(r.table) \in Nat
    BY <2>3, SameIs, <1>1, CountersAre DEF Threshold, GrowthThreshold
  <2> HIDE DEF r
  <2>5. Buckets /\ r.outcome # "failed" => table.populated + n <= Threshold(r.table)
    BY <1>1, <2>2, <2>3, <2>4
  <2>6. n \in Int
    OBVIOUS
  <2>7. QED
    BY <2>1, <2>3, <2>5, <2>6, ResizedKeeps
<1>6. QED
  BY <1>4, <1>5

\* A call that moves the elements and promises nothing.
LEMMA MovesKeep ==
    ASSUME HashBooks, NEW call \in {"force_resize", "rehash", "shrink_to_fit", "copy", "copy_sized"},
           NEW of, NEW r, Resized(call, of, r, 0), Same(r.table, table),
           r.outcome = "failed" => r.table = table, r.outcome # "no_memory"
    PROVE  Kept
BY ResizedKeeps

\* The calls that ask for a number of slots.
LEMMA ForcesKeep ==
    ASSUME Fits, HashBooks, NEW n \in Nat, NEW granted \in BOOLEAN,
           \/ Rehash(n, granted) \/ ForceResize(ForElements(n), granted)
           \/ ForceResize(FromSlots(n), granted) \/ ShrinkToFit(granted)
    PROVE  Kept
<1>1. Sound(table) /\ table.populated \in Nat /\ TableAssumption /\ MaxSlots \in Nat
  BY CountersAre DEF HashBooks, Fits, TableAssumption
<1>2. \A m \in Nat : FromSlots(m) \in Nat /\ ForElements(m) \in Nat
  BY <1>1, FromSlotsIs, ForElementsIs
<1>3. ASSUME NEW raw \in Nat
      PROVE  LET r == ForceResized(table, raw, granted)
             IN  Same(r.table, table) /\ r.outcome # "no_memory" /\ (r.outcome = "failed" => r.table = table)
  BY <1>1, ForceResizedIs
<1>4. ASSUME NEW raw \in Nat, ForceResize(raw, granted) PROVE Kept
  <2>1. Resized("force_resize", raw, ForceResized(table, raw, granted), 0)
    BY <1>4 DEF ForceResize
  <2>2. QED
    BY <1>3, <2>1, MovesKeep
<1>5. CASE Rehash(n, granted)
  <2> DEFINE asked == (n * BucketCapacity) % (SizeMax + 1)
             raw == Max({FromSlots(asked), ForElements(table.populated)})
  <2>1. asked \in Nat
    <3>1. SizeMax \in Nat /\ BucketCapacity \in Nat
      BY <1>1, PowersAre DEF TableAssumption, SizeMax
    <3>2. n * BucketCapacity \in Nat
      BY <3>1
    <3> DEFINE product == n * BucketCapacity
    <3> HIDE DEF product
    <3>3. product % (SizeMax + 1) \in Nat
      BY <3>1, <3>2 DEF product
    <3>4. QED
      BY <3>3 DEF product
  <2> HIDE DEF asked
  <2>2. raw \in Nat
    <3>1. FromSlots(asked) \in Nat /\ ForElements(table.populated) \in Nat
      BY <1>1, <1>2, <2>1
    <3>2. FromSlots(asked) \in Int /\ ForElements(table.populated) \in Int
      BY <3>1
    <3>3. raw \in {FromSlots(asked), ForElements(table.populated)}
      BY <3>2, MaxIs
    <3>4. QED
      BY <3>1, <3>3
  <2>3. Resized("rehash", n, ForceResized(table, raw, granted), 0)
    BY <1>5 DEF Rehash, asked
  <2> HIDE DEF raw
  <2>4. QED
    BY <1>3, <2>2, <2>3, MovesKeep
<1>6. CASE ShrinkToFit(granted)
  <2> DEFINE wanted == ForElements(table.populated)
             f == ForceResized(table, wanted, granted)
             r == CASE wanted = table.count -> [outcome |-> "unchanged", table |-> table]
                    [] wanted # table.count /\ table.populated > 0 -> f
                    [] OTHER -> [outcome |-> "reallocated", table |-> Unallocated]
  <2>1. Resized("shrink_to_fit", 0, r, 0)
    BY <1>6, Zenon DEF ShrinkToFit
  <2>2. wanted \in Nat
    BY <1>1, <1>2
  <2>3. Same(f.table, table) /\ f.outcome # "no_memory" /\ (f.outcome = "failed" => f.table = table)
    BY <1>3, <2>2
  <2> HIDE DEF wanted, f
  <2>4. Same(r.table, table) /\ r.outcome # "no_memory" /\ (r.outcome = "failed" => r.table = table)
    <3>1. CASE wanted = table.count
      <4>1. r = [outcome |-> "unchanged", table |-> table]
        BY <3>1
      <4>2. QED
        BY <1>1, <4>1 DEF Same
    <3>2. CASE wanted # table.count /\ table.populated > 0
      <4>1. r = f
        BY <3>2
      <4>2. QED
        BY <2>3, <4>1
    <3>3. CASE wanted # table.count /\ ~(table.populated > 0)
      <4>1. table.populated = 0
        BY <1>1, <3>3
      <4>2. r = [outcome |-> "reallocated", table |-> Unallocated]
        BY <3>3
      <4> DEFINE u == Unallocated
      <4>3. Sound(u) /\ u.populated = 0 /\ \A l \in Keys, w \in Values : ~Has(u, l, w)
        <5>1. 0 \in 0 .. MaxSlots
          BY <1>1
        <5>2. QED
          BY <1>1, <5>1, EmptySound DEF Unallocated
      <4> HIDE DEF u, r
      <4>4. Same(u, table)
        BY <1>1, <4>1, <4>3, NoneHas DEF Same
      <4>5. r.table = u /\ r.outcome = "reallocated"
        BY <4>2 DEF u
      <4>6. QED
        BY <4>4, <4>5
    <3>4. QED
      BY <3>1, <3>2, <3>3
  <2> HIDE DEF r
  <2>5. QED
    BY <2>1, <2>4, MovesKeep
<1>7. QED
  BY <1>2, <1>4, <1>5, <1>6

\* A copy has the elements of what it was made of.
LEMMA CopiesKeep ==
    ASSUME Fits, HashBooks, NEW n \in Nat, NEW trivial \in BOOLEAN, NEW granted \in BOOLEAN,
           CopySame(trivial, granted) \/ CopySized(FromSlots(n), granted)
    PROVE  Kept
<1>1. /\ Sound(table) /\ table.populated \in 0 .. table.count /\ table.count \in Nat
      /\ TableAssumption /\ MaxSlots \in Nat /\ CopiesFit
  BY CountersAre DEF HashBooks, Fits, TableAssumption
<1>2. ASSUME NEW raw \in Nat, Make(raw, granted).allocated, table.populated <= raw
      PROVE  Same(Refilled(Make(raw, granted), table), table)
  <2> DEFINE target == Make(raw, granted)
             u == Refilled(Empty(raw, TRUE), table)
  <2>1. target = Empty(raw, TRUE) /\ raw \in 1 .. MaxSlots
    BY <1>2, MakeIs, Zenon
  <2>2. raw \in 0 .. MaxSlots
    BY <2>1
  <2>3. /\ Sound(u) /\ u.populated = table.populated
        /\ \A l \in Keys, w \in Values : Has(u, l, w) <=> Has(table, l, w)
    BY <1>1, <1>2, <2>2, RefilledSound
  <2>4. Refilled(target, table) = u
    BY <2>1, Zenon
  <2> HIDE DEF u, target
  <2>5. Same(u, table)
    BY <2>3 DEF Same
  <2>6. QED
    BY <2>4, <2>5 DEF target
<1>3. CASE CopySame(trivial, granted)
  <2> DEFINE target == Make(table.count, granted)
             copy == IF trivial THEN table ELSE Refilled(target, table)
             r == [outcome |-> "copied", table |-> copy]
  <2>1. target.allocated /\ Resized("copy", table.count, r, 0)
    BY <1>3 DEF CopySame
  <2>2. Same(copy, table)
    <3>1. CASE trivial
      <4>1. copy = table
        BY <3>1
      <4>2. QED
        BY <1>1, <4>1 DEF Same
    <3>2. CASE ~trivial
      <4>1. copy = Refilled(target, table)
        BY <3>2
      <4>2. table.populated <= table.count
        BY <1>1
      <4>3. QED
        BY <1>1, <1>2, <2>1, <4>1, <4>2
    <3>3. QED
      BY <3>1, <3>2
  <2> HIDE DEF copy
  <2>3. r.table = copy /\ r.outcome = "copied"
    OBVIOUS
  <2> HIDE DEF r
  <2>4. Same(r.table, table) /\ r.outcome # "failed" /\ r.outcome # "no_memory"
    BY <2>2, <2>3
  <2>5. QED
    BY <2>1, <2>4, MovesKeep
<1>4. CASE CopySized(FromSlots(n), granted)
  <2> DEFINE raw == FromSlots(n)
             target == Make(raw, granted)
             copy == Refilled(target, table)
             r == [outcome |-> "copied", table |-> copy]
  <2>1. target.allocated /\ raw >= table.populated /\ Resized("copy_sized", raw, r, 0)
    BY <1>1, <1>4 DEF CopySized
  <2>2. raw \in Nat
    BY <1>1, FromSlotsIs
  <2> HIDE DEF raw
  <2>3. Same(copy, table)
    BY <1>1, <1>2, <2>1, <2>2
  <2> HIDE DEF copy
  <2>4. r.table = copy /\ r.outcome = "copied"
    OBVIOUS
  <2> HIDE DEF r
  <2>5. Same(r.table, table) /\ r.outcome # "failed" /\ r.outcome # "no_memory"
    BY <2>3, <2>4
  <2>6. QED
    BY <2>1, <2>5, MovesKeep
<1>5. QED
  BY <1>3, <1>4

\* A table without slots in use is what a table of no contents is.
LEMMA EmptyHolds ==
    ASSUME Fits, NEW n \in 0 .. MaxSlots, NEW allocated \in BOOLEAN
    PROVE  /\ Sound(Empty(n, allocated)) /\ [k \in Keys |-> Absent] \in [Keys -> Values \cup {Absent}]
           /\ Holds(Empty(n, allocated), [k \in Keys |-> Absent])
<1> DEFINE u == Empty(n, allocated)
           c == [k \in Keys |-> Absent]
<1>1. MaxSlots \in Nat /\ Absent \notin Values
  BY DEF Fits, TableAssumption, Absent
<1>2. Sound(u) /\ \A l \in Keys, w \in Values : ~Has(u, l, w)
  BY <1>1, EmptySound
<1>3. c \in [Keys -> Values \cup {Absent}] /\ \A k \in Keys : c[k] = Absent
  OBVIOUS
<1> HIDE DEF u, c
<1>4. Holds(u, c)
  BY <1>1, <1>2, <1>3 DEF Holds
<1>5. QED
  BY <1>2, <1>3, <1>4 DEF u, c

\* clear and deallocate leave nothing, and no promise.
LEMMA ClearKeeps ==
    ASSUME Fits, HashBooks, NEW keeps \in BOOLEAN, Clear(keeps)
    PROVE  Kept
<1>1. /\ table' = IF keeps THEN Empty(table.count, table.allocated) ELSE Unallocated
      /\ contents' = [k \in Keys |-> Absent] /\ room' = 0 /\ pinned' = pinned
      /\ answer' = [call |-> "clear", of |-> 0, outcome |-> "cleared"]
  BY DEF Clear, Answers
<1>2. table.count \in 0 .. MaxSlots /\ table.allocated \in BOOLEAN /\ 0 \in 0 .. MaxSlots
  BY DEF HashBooks, Sound, Shape, Fits, TableAssumption
<1>3. PICK no \in BOOLEAN : no = FALSE
  BY Zenon
<1>4. /\ Sound(table') /\ contents' \in [Keys -> Values \cup {Absent}]
      /\ Holds(table', contents')
  <2>1. CASE keeps
    BY <1>1, <1>2, <2>1, EmptyHolds
  <2>2. CASE ~keeps
    <3>1. table' = Empty(0, no)
      BY <1>1, <1>3, <2>2, Zenon DEF Unallocated
    <3>2. QED
      BY <1>1, <1>2, <3>1, EmptyHolds
  <2>3. QED
    BY <2>1, <2>2
<1>5. HashBooks'
  BY <1>1, <1>4 DEF HashBooks
<1>6. OverwriteNeverRefused' /\ Load'
  BY <1>1 DEF OverwriteNeverRefused, Load, LoadStaysBelow, ReservationKept, ReserveFits
<1>7. QED
  BY <1>5, <1>6 DEF Kept

\* A table handed to the pinned one or back is the same table.
LEMMA AdoptKeeps ==
    ASSUME HashBooks, Adopt
    PROVE  Kept
<1>1. /\ table' = table /\ contents' = contents /\ room' = 0 /\ pinned' = ~pinned
      /\ answer' = [call |-> "adopt", of |-> 0, outcome |-> "adopted"]
  BY DEF Adopt, Answers
<1>2. HashBooks'
  BY <1>1 DEF HashBooks
<1>3. OverwriteNeverRefused' /\ Load'
  BY <1>1 DEF OverwriteNeverRefused, Load, LoadStaysBelow, ReservationKept, ReserveFits
<1>4. QED
  BY <1>2, <1>3 DEF Kept

----------------------------------------------------------------------------
(* What a run of the program keeps. *)

\* Init has the books of a table without elements.
LEMMA InitKeeps == ASSUME Fits, Init PROVE HashBooks /\ OverwriteNeverRefused /\ Load
<1>1. /\ table = Empty(0, FALSE) /\ contents = [k \in Keys |-> Absent] /\ room = 0 /\ pinned = FALSE
      /\ answer = [call |-> "none", of |-> 0, outcome |-> "none"]
  BY Zenon DEF Init, Unallocated
<1>2. PICK no \in BOOLEAN : no = FALSE
  BY Zenon
<1>3. 0 \in 0 .. MaxSlots
  BY DEF Fits, TableAssumption
<1>4. table = Empty(0, no) /\ pinned \in BOOLEAN
  BY <1>1, <1>2, Zenon
<1>5. HashBooks
  BY <1>1, <1>3, <1>4, EmptyHolds DEF HashBooks
<1>6. OverwriteNeverRefused /\ Load
  BY <1>1 DEF OverwriteNeverRefused, Load, LoadStaysBelow, ReservationKept, ReserveFits
<1>7. QED
  BY <1>5, <1>6

\* Every step keeps the books and the load.
LEMMA NextKeeps == ASSUME Fits, HashBooks, Next PROVE Kept
<1>1. Requests \subseteq Nat
  BY DEF Fits, TableAssumption
<1>2. CASE \E k \in Keys, v \in Values, reserved, unique, granted \in BOOLEAN :
              Emplace(k, v, reserved, unique, granted)
  BY <1>2, EmplaceKeeps
<1>3. CASE \E k \in Keys, v \in Values, granted \in BOOLEAN : Upsert(k, v, granted)
  BY <1>3, UpsertKeeps
<1>4. CASE \E k \in Keys : EraseKey(k) \/ PinnedErase(k)
  BY <1>4, EraseKeeps
<1>5. CASE \E n \in Requests, granted \in BOOLEAN :
              \/ Reserve(n, granted) \/ ReserveMore(n, granted) \/ Rehash(n, granted)
              \/ ForceResize(ForElements(n), granted) \/ ForceResize(FromSlots(n), granted)
              \/ CopySized(FromSlots(n), granted)
  <2>1. PICK n \in Requests, granted \in BOOLEAN :
              \/ Reserve(n, granted) \/ ReserveMore(n, granted) \/ Rehash(n, granted)
              \/ ForceResize(ForElements(n), granted) \/ ForceResize(FromSlots(n), granted)
              \/ CopySized(FromSlots(n), granted)
    BY <1>5
  <2>2. n \in Nat
    BY <1>1
  <2>3. CASE Reserve(n, granted) \/ ReserveMore(n, granted)
    BY <2>2, <2>3, ReservesKeep
  <2>4. CASE Rehash(n, granted) \/ ForceResize(ForElements(n), granted) \/ ForceResize(FromSlots(n), granted)
    BY <2>2, <2>4, ForcesKeep
  <2>5. CASE CopySized(FromSlots(n), granted)
    BY <2>2, <2>5, CopiesKeep
  <2>6. QED
    BY <2>1, <2>3, <2>4, <2>5
<1>6. CASE \E granted \in BOOLEAN : ShrinkToFit(granted)
  <2>1. 0 \in Nat
    OBVIOUS
  <2>2. QED
    BY <1>6, <2>1, ForcesKeep
<1>7. CASE \E keeps \in BOOLEAN : Clear(keeps)
  BY <1>7, ClearKeeps
<1>8. CASE \E trivial, granted \in BOOLEAN : CopySame(trivial, granted)
  <2>1. 0 \in Nat
    OBVIOUS
  <2>2. QED
    BY <1>8, <2>1, CopiesKeep
<1>9. CASE Adopt
  BY <1>9, AdoptKeeps
<1>10. CASE \E k \in Keys, v \in Values : PinnedEmplace(k, v)
  BY <1>10, PinnedEmplaceKeeps
<1>11. QED
  BY <1>2, <1>3, <1>4, <1>5, <1>6, <1>7, <1>8, <1>9, <1>10 DEF Next

HashInv == HashBooks /\ OverwriteNeverRefused /\ (Buckets => Load)

\* The inductive invariant: what the calls made of every key is what is stored, once and where a probe
\* comes to it, the counters are those of the slots, and the load is what was promised.
THEOREM HashInvariance == ASSUME Fits PROVE Spec => []HashInv
<1>1. Init => HashInv
  BY InitKeeps DEF HashInv
<1>2. ASSUME HashInv, [Next]_vars PROVE HashInv'
  <2>1. CASE Next
    <3>1. Kept
      BY <1>2, <2>1, NextKeeps DEF HashInv
    <3>2. QED
      BY <1>2, <3>1 DEF Kept, HashInv
  <2>2. CASE UNCHANGED vars
    <3>1. table' = table /\ pinned' = pinned /\ answer' = answer /\ contents' = contents /\ room' = room
      BY <2>2 DEF vars
    <3>2. HashBooks'
      BY <1>2, <3>1 DEF HashInv, HashBooks
    <3>3. OverwriteNeverRefused'
      BY <1>2, <3>1 DEF HashInv, OverwriteNeverRefused
    <3>4. ASSUME Load PROVE Load'
      BY <3>1, <3>4 DEF Load, LoadStaysBelow, ReservationKept, ReserveFits, Threshold
    <3>5. QED
      BY <1>2, <3>2, <3>3, <3>4 DEF HashInv
  <2>3. QED
    BY <1>2, <2>1, <2>2
<1>3. QED
  BY <1>1, <1>2, PTL DEF Spec

\* The fields of a table are what they are declared to be, and a table never has more slots than it was granted.
THEOREM HashTypesHold == ASSUME Fits PROVE Spec => []HashTypeOK
<1>1. ASSUME HashInv PROVE HashTypeOK
  <2>1. /\ Sound(table) /\ Shape(table) /\ pinned \in BOOLEAN
        /\ contents \in [Keys -> Values \cup {Absent}] /\ room \in Nat
    BY <1>1 DEF HashInv, HashBooks, Sound
  <2>2. table.populated \in 0 .. table.count /\ table.deleted \in 0 .. table.count
    BY <2>1, CountersAre
  <2>3. QED
    BY <2>1, <2>2 DEF HashTypeOK, Shape, States
<1>2. QED
  BY <1>1, HashInvariance, PTL

\* A probe finds what the calls made of a key, through tombstones, growing, copies and the pinned life
\* (probe_to_find, move_to_new, copy_to_new).
THEOREM ProbesFind == ASSUME Fits PROVE Spec => []ProbesFindContents
<1>1. ASSUME HashInv PROVE ProbesFindContents
  <2>1. /\ Sound(table) /\ Holds(table, contents) /\ TableAssumption
        /\ contents \in [Keys -> Values \cup {Absent}]
    BY <1>1 DEF HashInv, HashBooks, Fits
  <2>2. ASSUME NEW k \in Keys
        PROVE  {table.values[s] : s \in Matching(table, k)} = IF contents[k] = Absent THEN {} ELSE {contents[k]}
    BY <2>1, HeldIsFound
  <2>3. QED
    BY <2>2 DEF ProbesFindContents
<1>2. QED
  BY <1>1, HashInvariance, PTL

\* The counters every decision to grow goes by are those of the slots, and no key has two of them.
THEOREM CountersHold == ASSUME Fits PROVE Spec => []CountsMatch
<1>1. ASSUME HashInv PROVE CountsMatch
  <2>1. Shape(table) /\ Placed(table) /\ Tallied(table)
    BY <1>1 DEF HashInv, HashBooks, Sound
  <2>2. DOMAIN table.states = Circle(table.count)
    BY <2>1 DEF Shape
  <2>3. UniqueKeys(table.states, table.stored)
    BY <2>1, <2>2 DEF Placed, UniqueKeys
  <2>4. QED
    BY <2>1, <2>3 DEF CountsMatch, Tallied
<1>2. QED
  BY <1>1, HashInvariance, PTL

\* Memory may be refused to a new key, and never to the value of one that is stored (reserve_for_absent_key_).
THEOREM OverwritesGoThrough == ASSUME Fits PROVE Spec => []OverwriteNeverRefused
<1>1. HashInv => OverwriteNeverRefused
  BY DEF HashInv
<1>2. QED
  BY <1>1, HashInvariance, PTL

\* A new key leaves a quarter of the slots free, the tombstones counted with the elements, where an
\* unsuccessful probe ends (growth_threshold).
THEOREM LoadHolds == ASSUME Fits, Buckets PROVE Spec => []LoadStaysBelow
<1>1. HashInv => LoadStaysBelow
  BY DEF HashInv, Load
<1>2. QED
  BY <1>1, HashInvariance, PTL

\* As many new keys as a reservation was made for find a slot, whatever is erased and put back on the way.
THEOREM ReservationsHold == ASSUME Fits, Buckets PROVE Spec => []ReservationKept
<1>1. HashInv => ReservationKept
  BY DEF HashInv, Load
<1>2. QED
  BY <1>1, HashInvariance, PTL

\* A reservation that is not refused leaves a table whose threshold covers it (reserve, hash_slots_count_t).
THEOREM ReservationsFit == ASSUME Fits, Buckets PROVE Spec => []ReserveFits
<1>1. HashInv => ReserveFits
  BY DEF HashInv, Load
<1>2. QED
  BY <1>1, HashInvariance, PTL
=============================================================================
