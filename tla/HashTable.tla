----------------------------- MODULE HashTable -----------------------------
(***************************************************************************)
(* basic_hash_table (basic_hash_table.hpp) through its life: filled, grown *)
(* by moving every element, compacted, copied, and handed as a hash_storage*)
(* to a pinned atomic_hash_table and back. One thread uses it; a call is   *)
(* one action, and the allocator may refuse any request.                   *)
(*                                                                         *)
(* Probes are the sets of slots they reach. The history records what the   *)
(* calls were to make of the contents and how many insertions a            *)
(* reservation has promised.                                               *)
(***************************************************************************)
EXTENDS HashLayout

CONSTANTS
    Values,
    HasValues,      \* has_values_k: a map and not a set
    BucketCapacity, \* hash_bucket_capacity_k, 32 in the code
    SizeBits,       \* bits of a size_t
    OffsetSpan,     \* offset_t holds 0 .. OffsetSpan - 1
    MaxSlots,       \* bound: the allocator refuses more
    Requests,       \* the element, slot and bucket counts callers ask for
    Calls,          \* the calls callers make
    CopiesFit       \* copies are never asked to be smaller than the elements

TableAssumption ==
    /\ HasValues \in BOOLEAN /\ CopiesFit \in BOOLEAN /\ Values \subseteq Nat \ {0}
    /\ BucketCapacity \in Nat \ {0} /\ SizeBits \in Nat \ {0} /\ OffsetSpan \in Nat \ {0}
    /\ MaxSlots \in Nat /\ Requests \subseteq Nat

VARIABLES
    table,      \* storage_
    pinned,     \* an atomic_hash_table owns it
    answer,     \* what the last call answered
    contents,   \* history: the value every key is to have
    room        \* history: insertions promised by a reservation

vars == <<table, pinned, answer, contents, room>>

Absent == 0

----------------------------------------------------------------------------
(* hash_slots_count_t: the slots for a number of elements, counted in a    *)
(* size_t. Unrepresentable is the count make refuses.                      *)

PowerOf2[i \in Nat] == IF i = 0 THEN 1 ELSE 2 * PowerOf2[i - 1]

SizeMax == PowerOf2[SizeBits] - 1
PowersOf2 == {PowerOf2[i] : i \in 0 .. SizeBits - 1}
Unrepresentable == SizeMax

RoundupToPow2(x) ==
    LET powers == {p \in PowersOf2 : p >= x}
    IN  IF x <= 1 THEN x ELSE IF powers = {} THEN 0 ELSE Min(powers)

FromSlots(slots) ==
    LET rounded == RoundupToPow2(slots)
    IN  CASE slots = 0 -> 0
          [] slots > 0 /\ rounded = 0 -> Unrepresentable
          [] OTHER -> Max({rounded, BucketCapacity})

ForElements(elements) ==
    IF elements > SizeMax \div 4 THEN Unrepresentable ELSE FromSlots((elements * 4) \div 3)

IsAddressable(raw) == raw = 0 \/ (raw >= BucketCapacity /\ raw \in PowersOf2)

----------------------------------------------------------------------------
(* hash_storage. Mutant... operators are slips of what follows them.       *)

Empty(count, allocated) ==
    [count |-> count, allocated |-> allocated, states |-> [s \in Circle(count) |-> Free],
     stored |-> [s \in Circle(count) |-> NoKey], values |-> [s \in Circle(count) |-> Absent],
     populated |-> 0, deleted |-> 0]

Unallocated == Empty(0, FALSE)

\* make: the slots are counted in an offset_t.
Make(raw, granted) ==
    IF IsAddressable(raw) /\ raw > 0 /\ raw <= MaxSlots /\ granted
    THEN Empty(raw % OffsetSpan, TRUE) ELSE Unallocated

Threshold(t) == GrowthThreshold(t.count)

\* A slot that takes a new element. A tombstone it was is one less.
MutantPut(t, at, k, v) ==
    [t EXCEPT !.states[at] = Populated, !.stored[at] = k, !.values[at] = v, !.populated = @ + 1]
Put(t, at, k, v) ==
    [t EXCEPT !.states[at] = Populated, !.stored[at] = k, !.values[at] = v, !.populated = @ + 1,
              !.deleted = IF t.states[at] = Deleted THEN @ - 1 ELSE @]

Erase(t, at) ==
    [t EXCEPT !.states[at] = Deleted, !.stored[at] = NoKey, !.values[at] = Absent,
              !.populated = @ - 1, !.deleted = @ + 1]

----------------------------------------------------------------------------
(* The probes: the slots they reach before a free one ends them.           *)

Reached(t, k) ==
    LET ends == {Distance(k, s, t.count) : s \in InState(t.states, Free)}
    IN  {s \in Circle(t.count) : \A end \in ends : Distance(k, s, t.count) <= end}

Matching(t, k) ==
    IF t.populated = 0 THEN {} ELSE {s \in Reached(t, k) : t.states[s] = Populated /\ t.stored[s] = k}

InsertedAt(t, k) == {s \in Circle(t.count) : t.states[s] # Populated}

\* The equal element, else the first tombstone on the way, else the free slot at its end.
UpsertedAt(t, k) ==
    LET tombs == Reached(t, k) \cap InState(t.states, Deleted)
        free == Reached(t, k) \cap InState(t.states, Free)
    IN  CASE Matching(t, k) # {} -> Matching(t, k)
          [] Matching(t, k) = {} /\ tombs # {} -> tombs
          [] OTHER -> free

\* The outcome of storing an element in the nearest of the slots it may go to.
Stored(t, slots, k, v, overwrites) ==
    LET at == Nearest(k, slots, t.count)
    IN  CASE slots = {} -> [outcome |-> "no_slot", table |-> t]
          [] slots # {} /\ t.states[at] = Populated ->
                [outcome |-> "updated", table |-> IF overwrites THEN [t EXCEPT !.values[at] = v] ELSE t]
          [] OTHER -> [outcome |-> "inserted", table |-> Put(t, at, k, v)]

----------------------------------------------------------------------------
(* Growing: every element moves to a table of its own making.              *)

\* What one slot of the source adds to the table its element moves to.
Moved(target, source, s) ==
    IF source.states[s] = Populated
    THEN Stored(target, InsertedAt(target, source.stored[s]), source.stored[s], source.values[s], FALSE).table
    ELSE target

\* move_to_new and copy_to_new: elements go over in the order of their slots.
Refilled(target, source) ==
    LET filled[i \in 0 .. source.count] ==
            IF i = 0 THEN target ELSE Moved(filled[i - 1], source, i - 1)
    IN  filled[source.count]

ForceResized(t, raw, granted) ==
    LET target == Make(raw, granted)
    IN  CASE raw < t.populated \/ (raw > 0 /\ ~target.allocated) -> [outcome |-> "failed", table |-> t]
          [] raw = 0 /\ t.populated = 0 -> [outcome |-> "reallocated", table |-> Unallocated]
          [] OTHER -> [outcome |-> "reallocated", table |-> Refilled(target, t)]

Reserved(t, planned, granted) ==
    IF planned <= Threshold(t) THEN [outcome |-> "unchanged", table |-> t]
                               ELSE ForceResized(t, ForElements(planned), granted)

ReservedForKey(t, k, unique, granted) ==
    IF ~unique /\ Matching(t, k) # {} THEN [outcome |-> "unchanged", table |-> t]
                                      ELSE Reserved(t, 1 + t.populated + t.deleted, granted)

MoreThan(t, more) == more + t.populated + t.deleted

----------------------------------------------------------------------------
(* The calls.                                                              *)

Init ==
    /\ table = Unallocated /\ pinned = FALSE
    /\ answer = [call |-> "none", of |-> 0, outcome |-> "none"]
    /\ contents = [k \in Keys |-> Absent] /\ room = 0

Answers(call, of, outcome) == answer' = [call |-> call, of |-> of, outcome |-> outcome]

\* What a call did to the table and answered, and to the element it names.
Answered(call, result, k, v) ==
    /\ table' = result.table /\ Answers(call, k, result.outcome)
    /\ contents' = IF result.outcome \in {"inserted", "updated"} THEN [contents EXCEPT ![k] = v] ELSE contents
    /\ room' = IF result.outcome = "inserted" THEN Max({room - 1, 0}) ELSE room

Refusal == [outcome |-> "no_memory", table |-> table]

\* emplace and insert. Who says the key is new speaks the truth.
Emplace(k, v, reserved, unique, granted) ==
    LET roomy == IF reserved THEN [outcome |-> "unchanged", table |-> table]
                             ELSE ReservedForKey(table, k, unique, granted)
        slots == IF unique THEN InsertedAt(roomy.table, k) ELSE UpsertedAt(roomy.table, k)
        updating == slots \cap InState(roomy.table.states, Populated) # {}
    IN  /\ "emplace" \in Calls /\ ~pinned
        /\ unique => contents[k] = Absent
        /\ IF roomy.outcome = "failed" THEN Answered("emplace", Refusal, k, v)
           ELSE Answered(IF reserved THEN "emplace_reserved" ELSE "emplace",
                         Stored(roomy.table, slots, k, v, HasValues), k,
                         IF updating /\ ~HasValues THEN contents[k] ELSE v)
        /\ UNCHANGED pinned

\* upsert, which always leaves its argument in place.
Upsert(k, v, granted) ==
    LET roomy == ReservedForKey(table, k, FALSE, granted)
    IN  /\ "upsert" \in Calls /\ ~pinned
        /\ IF roomy.outcome = "failed" THEN Answered("upsert", Refusal, k, v)
           ELSE Answered("upsert", Stored(roomy.table, UpsertedAt(roomy.table, k), k, v, TRUE), k, v)
        /\ UNCHANGED pinned

EraseKey(k) ==
    /\ "erase" \in Calls /\ ~pinned
    /\ IF Matching(table, k) = {} THEN table' = table /\ Answers("erase", k, "not_found")
       ELSE /\ table' = Erase(table, Nearest(k, Matching(table, k), table.count))
            /\ Answers("erase", k, "erased")
    /\ contents' = [contents EXCEPT ![k] = Absent]
    /\ UNCHANGED <<pinned, room>>

\* What a call that only moves the elements answers, and the insertions it promises.
Resized(call, of, result, promised) ==
    /\ call \in Calls /\ ~pinned
    /\ table' = result.table /\ Answers(call, of, result.outcome)
    /\ room' = IF result.outcome = "failed" THEN room ELSE Max({promised, 0})
    /\ UNCHANGED <<pinned, contents>>

Reserve(planned, granted) ==
    Resized("reserve", planned, Reserved(table, planned, granted), planned - table.populated)

ReserveMore(more, granted) ==
    Resized("reserve_more", more, Reserved(table, MoreThan(table, more), granted), more)

\* force_resize, and rehash, which asks for no less than the elements need.
ForceResize(raw, granted) == Resized("force_resize", raw, ForceResized(table, raw, granted), 0)

Rehash(buckets, granted) ==
    LET wanted == FromSlots((buckets * BucketCapacity) % (SizeMax + 1))
        needed == ForElements(table.populated)
    IN  Resized("rehash", buckets, ForceResized(table, Max({wanted, needed}), granted), 0)

\* Nothing happens when the slots are as many as they would be; an empty table is deallocated.
ShrinkToFit(granted) ==
    LET wanted == ForElements(table.populated)
        shrunk == CASE wanted = table.count -> [outcome |-> "unchanged", table |-> table]
                    [] wanted # table.count /\ table.populated > 0 -> ForceResized(table, wanted, granted)
                    [] OTHER -> [outcome |-> "reallocated", table |-> Unallocated]
    IN  Resized("shrink_to_fit", 0, shrunk, 0)

\* clear keeps the buffer, deallocate gives it back.
Clear(keeps) ==
    /\ "clear" \in Calls /\ ~pinned
    /\ table' = IF keeps THEN Empty(table.count, table.allocated) ELSE Unallocated
    /\ contents' = [k \in Keys |-> Absent] /\ Answers("clear", 0, "cleared") /\ room' = 0
    /\ UNCHANGED pinned

\* The table replaced by its copy: byte by byte, or element by element into as many slots as asked for.
CopySame(trivial, granted) ==
    LET target == Make(table.count, granted)
        copy == IF trivial THEN table ELSE Refilled(target, table)
    IN  target.allocated /\ Resized("copy", table.count, [outcome |-> "copied", table |-> copy], 0)

CopySized(raw, granted) ==
    LET target == Make(raw, granted)
        copy == Refilled(target, table)
    IN  /\ target.allocated /\ (CopiesFit => raw >= table.populated)
        /\ Resized("copy_sized", raw, [outcome |-> "copied", table |-> copy], 0)

----------------------------------------------------------------------------
(* The pinned table over the same storage, probed by one thread: it takes  *)
(* free slots and leaves tombstones where they are.                        *)

Adopt ==
    /\ "adopt" \in Calls
    /\ pinned' = ~pinned /\ Answers("adopt", 0, "adopted") /\ room' = 0
    /\ UNCHANGED <<table, contents>>

PinnedEmplace(k, v) ==
    LET slots == IF Matching(table, k) # {} THEN Matching(table, k)
                 ELSE Reached(table, k) \cap InState(table.states, Free)
        stored == Stored(table, slots, k, v, HasValues)
    IN  /\ pinned
        /\ Answered("pinned_emplace", stored, k,
                    IF stored.outcome = "updated" /\ ~HasValues THEN contents[k] ELSE v)
        /\ UNCHANGED pinned

PinnedErase(k) ==
    /\ pinned
    /\ IF Matching(table, k) = {} THEN table' = table /\ Answers("erase", k, "not_found")
       ELSE /\ table' = Erase(table, Nearest(k, Matching(table, k), table.count))
            /\ Answers("erase", k, "erased")
    /\ contents' = [contents EXCEPT ![k] = Absent]
    /\ UNCHANGED <<pinned, room>>

Next ==
    \/ \E k \in Keys, v \in Values, reserved, unique, granted \in BOOLEAN :
            Emplace(k, v, reserved, unique, granted)
    \/ \E k \in Keys, v \in Values, granted \in BOOLEAN : Upsert(k, v, granted)
    \/ \E k \in Keys : EraseKey(k) \/ PinnedErase(k)
    \/ \E n \in Requests, granted \in BOOLEAN :
            \/ Reserve(n, granted) \/ ReserveMore(n, granted) \/ Rehash(n, granted)
            \/ ForceResize(ForElements(n), granted) \/ ForceResize(FromSlots(n), granted)
            \/ CopySized(FromSlots(n), granted)
    \/ \E granted \in BOOLEAN : ShrinkToFit(granted)
    \/ \E keeps \in BOOLEAN : Clear(keeps)
    \/ \E trivial, granted \in BOOLEAN : CopySame(trivial, granted)
    \/ Adopt
    \/ \E k \in Keys, v \in Values : PinnedEmplace(k, v)

Spec == Init /\ [][Next]_vars

----------------------------------------------------------------------------

HashTypeOK ==
    /\ table.count \in 0 .. MaxSlots /\ table.allocated \in BOOLEAN
    /\ table.states \in [Circle(table.count) -> {Free, Deleted, Populated}]
    /\ table.stored \in [Circle(table.count) -> Keys \cup {NoKey}]
    /\ table.values \in [Circle(table.count) -> Values \cup {Absent}]
    /\ table.populated \in 0 .. table.count /\ table.deleted \in 0 .. table.count
    /\ pinned \in BOOLEAN /\ contents \in [Keys -> Values \cup {Absent}] /\ room \in Nat

(* Whatever was inserted, overwritten, erased, moved, copied or handed over before, a probe for a key finds
   what the calls made of it, and nothing when they erased it (probe_to_find). *)
ProbesFindContents ==
    \A k \in Keys :
        {table.values[s] : s \in Matching(table, k)} = IF contents[k] = Absent THEN {} ELSE {contents[k]}

(* The two counters are those of the slots, through tombstones taken again, rehashes and the pinned life:
   every decision to grow goes by them. *)
CountsMatch ==
    /\ table.populated = Cardinality(InState(table.states, Populated))
    /\ table.deleted = Cardinality(InState(table.states, Deleted))
    /\ UniqueKeys(table.states, table.stored)

(* A new key inserted without a promise leaves a quarter of the slots free, tombstones counted, so that an
   unsuccessful probe has somewhere to end (reserve_for_absent_key_). *)
LoadStaysBelow ==
    answer.call \in {"emplace", "upsert"} /\ answer.outcome = "inserted"
        => table.populated + table.deleted <= Threshold(table)

(* An element that is stored already is overwritten in place: only a new key is ever refused for want of
   memory. *)
OverwriteNeverRefused == answer.outcome = "no_memory" => contents[answer.of] = Absent

(* A reservation is kept: as many new elements as it was made for find a slot, within the load the table
   is to stay below, whatever is erased and put back on the way. *)
ReservationKept ==
    /\ room > 0 => table.populated + room <= Threshold(table)
    /\ answer.call = "emplace_reserved" /\ answer.outcome = "no_slot" => room = 0

(* "Grows the table to fit that many elements": a reservation that is not refused leaves a table whose
   threshold covers it. *)
ReserveFits == answer.call = "reserve" /\ answer.outcome # "failed" => Threshold(table) >= answer.of
=============================================================================
