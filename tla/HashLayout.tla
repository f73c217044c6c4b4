----------------------------- MODULE HashLayout -----------------------------
(***************************************************************************)
(* hash_layout.hpp: the slots both hash tables are made of. A slot has one *)
(* bit in each of two lanes, and so four states; a slot's state is the set *)
(* of the lanes whose bit is set.                                          *)
(***************************************************************************)
EXTENDS Integers, FiniteSets, FiniteSetsExt

CONSTANTS
    KeyCount,           \* keys are 1 .. KeyCount
    Hash                \* hasher_: the number each key hashes to

ASSUME LayoutAssumption == KeyCount \in Nat /\ Hash \in [1 .. KeyCount -> Nat]

Keys == 1 .. KeyCount
NoKey == 0

Free == {}
Deleted == {"deletions"}
Populated == {"populations"}
Locked == {"populations", "deletions"}

\* What fetch_xor makes of the bits it is given.
Flipped(bits, differences) == (bits \cup differences) \ (bits \cap differences)

----------------------------------------------------------------------------
(* The circle a probe walks, over count slots.                             *)

Circle(count) == 0 .. count - 1
Initial(key, count) == Hash[key] % count
Following(at, count) == (at + 1) % count

\* The slots a probe for key visits before it comes to slot.
Distance(key, slot, count) == (slot - Initial(key, count)) % count
Passed(key, slot, count) ==
    {p \in Circle(count) : Distance(key, p, count) < Distance(key, slot, count)}
Nearest(key, slots, count) ==
    CHOOSE s \in slots : \A other \in slots : Distance(key, s, count) <= Distance(key, other, count)

----------------------------------------------------------------------------
(* What every table keeps true of its slots, states and stored being their *)
(* states and their keys.                                                  *)

UniqueKeys(states, stored) ==
    \A s1, s2 \in DOMAIN states :
        states[s1] = Populated /\ states[s2] = Populated /\ stored[s1] = stored[s2] => s1 = s2

ReachableKeys(states, stored) ==
    \A s \in DOMAIN states :
        states[s] = Populated =>
            \A p \in Passed(stored[s], s, Cardinality(DOMAIN states)) : states[p] # Free

InState(states, state) == {s \in DOMAIN states : states[s] = state}

\* Three of every four slots.
GrowthThreshold(slots) == (slots * 3) \div 4
=============================================================================
