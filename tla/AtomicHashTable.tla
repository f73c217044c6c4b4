-------------------------- MODULE AtomicHashTable --------------------------
(***************************************************************************)
(* atomic_hash_table (atomic_hash_table.hpp) over hash_atomic_slot_ref     *)
(* (hash_layout.hpp): a pinned table that many threads probe, each holding *)
(* one slot at a time. A slot is held by setting both its bits and let go  *)
(* by flipping those that differ from what was staged for it.              *)
(*                                                                         *)
(* Locking a slot, what happens under its lock, unlocking it and counting  *)
(* the element are one action each. No call decides by a value, so a slot  *)
(* has none; the 32 slots of a header are only ever touched one by one.    *)
(***************************************************************************)
EXTENDS HashLayout

CONSTANTS
    Threads,
    SlotsCount,     \* storage_.slots_count
    CountSpan,      \* bound: counters are numbers of offset_t, 0 .. CountSpan - 1
    Calls           \* bound: the calls each thread makes

ASSUME AtomicAssumption ==
    SlotsCount \in Nat \ {0} /\ CountSpan \in Nat /\ CountSpan > SlotsCount /\ Calls \in Nat

Slots == Circle(SlotsCount)

VARIABLES
    header,             \* the bits of every slot
    stored,             \* keys_
    populated_count,
    deleted_count,
    call,               \* what every thread is doing
    left                \* the calls each thread has yet to make

vars == <<header, stored, populated_count, deleted_count, call, left>>

Ops == {"find", "erase", "emplace"}

Idle ==
    [op |-> "find", key |-> NoKey, step |-> "idle", at |-> 0, probes |-> 0, staged |-> Free, verdict |-> "on"]

\* An allocation another table built.
Init ==
    /\ \E states \in [Slots -> {Free, Deleted, Populated}] :
        \E keys \in [Slots -> Keys \cup {NoKey}] :
            /\ \A s \in Slots : keys[s] = NoKey <=> states[s] # Populated
            /\ UniqueKeys(states, keys) /\ ReachableKeys(states, keys)
            /\ header = states /\ stored = keys
    /\ populated_count = Cardinality(InState(header, Populated))
    /\ deleted_count = Cardinality(InState(header, Deleted))
    /\ call = [t \in Threads |-> Idle]
    /\ left = [t \in Threads |-> Calls]

----------------------------------------------------------------------------
(* Operators, each after the Mutant... a plausible slip makes of it.       *)

Admits(bits) == bits # Locked

Unused(bits) == bits = Free

\* An erased slot freed.
MutantErased == Free
Erased == Deleted

WalksPast(op, bits) == bits # Free

IsLast(c) == c.probes + 1 = SlotsCount

\* A tombstone held on to while the probe goes on.
MutantLetsGo(c) == c.verdict # "on" \/ c.op # "emplace" \/ c.staged # Deleted
LetsGo(c) == TRUE

Counts(c) == c.verdict = "inserted"

----------------------------------------------------------------------------
(* A call, from its first probe to its answer.                             *)

Start(t) ==
    /\ call[t].step = "idle" /\ left[t] > 0
    /\ left' = [left EXCEPT ![t] = @ - 1]
    /\ \E op \in Ops, k \in Keys :
        call' = [call EXCEPT ![t] =
                    [Idle EXCEPT !.op = op, !.key = k, !.step = "lock", !.at = Initial(k, SlotsCount)]]
    /\ UNCHANGED <<header, stored, populated_count, deleted_count>>

\* fetch_or until the slot was not locked before.
Lock(t) ==
    LET at == call[t].at
    IN  /\ call[t].step = "lock"
        /\ Admits(header[at])
        /\ header' = [header EXCEPT ![at] = @ \cup Locked]
        /\ call' = [call EXCEPT ![t].step = "held", ![t].staged = header[at]]
        /\ UNCHANGED <<stored, populated_count, deleted_count, left>>

Decided(t, staged, verdict) ==
    call' = [call EXCEPT ![t].step = "unlock", ![t].staged = staged, ![t].verdict = verdict]

\* The slot holds the key: the callback of the call runs, which erases it or leaves it there.
Match(t) ==
    LET c == call[t]
    IN  /\ c.staged = Populated /\ stored[c.at] = c.key
        /\ IF c.op = "erase"
           THEN /\ Decided(t, Erased, "found")
                /\ stored' = [stored EXCEPT ![c.at] = NoKey]
                /\ deleted_count' = (deleted_count + 1) % CountSpan
                /\ populated_count' = (populated_count - 1) % CountSpan
           ELSE /\ Decided(t, c.staged, "found")
                /\ UNCHANGED <<stored, populated_count, deleted_count>>

Take(t) ==
    LET c == call[t]
    IN  /\ c.op = "emplace" /\ Unused(c.staged)
        /\ stored' = [stored EXCEPT ![c.at] = c.key]
        /\ Decided(t, Populated, "inserted")
        /\ UNCHANGED <<populated_count, deleted_count>>

\* A free slot, or the whole circle walked.
Miss(t) ==
    LET c == call[t]
    IN  /\ ~(c.staged = Populated /\ stored[c.at] = c.key)
        /\ ~(c.op = "emplace" /\ Unused(c.staged))
        /\ ~WalksPast(c.op, c.staged) \/ IsLast(c)
        /\ Decided(t, c.staged, IF c.op = "emplace" THEN "exhausted" ELSE "missing")
        /\ UNCHANGED <<stored, populated_count, deleted_count>>

Pass(t) ==
    LET c == call[t]
    IN  /\ ~(c.staged = Populated /\ stored[c.at] = c.key)
        /\ ~(c.op = "emplace" /\ Unused(c.staged))
        /\ WalksPast(c.op, c.staged) /\ ~IsLast(c)
        /\ Decided(t, c.staged, "on")
        /\ UNCHANGED <<stored, populated_count, deleted_count>>

Visit(t) ==
    /\ call[t].step = "held"
    /\ Match(t) \/ Take(t) \/ Miss(t) \/ Pass(t)
    /\ UNCHANGED <<header, left>>

\* fetch_xor of what the staged bits differ in from the locked ones.
Unlock(t) ==
    LET c == call[t]
    IN  /\ c.step = "unlock"
        /\ header' = IF LetsGo(c) THEN [header EXCEPT ![c.at] = Flipped(@, Flipped(Locked, c.staged))]
                                  ELSE header
        /\ call' = [call EXCEPT ![t] =
                        CASE c.verdict = "on" ->
                                [c EXCEPT !.step = "lock", !.at = Following(c.at, SlotsCount), !.probes = @ + 1]
                          [] Counts(c) -> [c EXCEPT !.step = "count"]
                          [] OTHER -> Idle]
        /\ UNCHANGED <<stored, populated_count, deleted_count, left>>

\* "Change this counter afterwards - in a relaxed manner."
Count(t) ==
    /\ call[t].step = "count"
    /\ populated_count' = (populated_count + 1) % CountSpan
    /\ call' = [call EXCEPT ![t] = Idle]
    /\ UNCHANGED <<header, stored, deleted_count, left>>

Step(t) == Lock(t) \/ Visit(t) \/ Unlock(t) \/ Count(t)

Next == \E t \in Threads : Start(t) \/ Step(t)

Spec == Init /\ [][Next]_vars

\* The scheduler runs every thread that is inside a call; nobody has to start one.
FairSpec == Spec /\ \A t \in Threads : WF_vars(Step(t))

----------------------------------------------------------------------------

AtomicTypeOK ==
    /\ header \in [Slots -> {Free, Deleted, Populated, Locked}]
    /\ stored \in [Slots -> Keys \cup {NoKey}]
    /\ populated_count \in 0 .. CountSpan - 1 /\ deleted_count \in 0 .. CountSpan - 1
    /\ call \in [Threads -> [op : Ops, key : Keys \cup {NoKey}, at : Slots, probes : Slots,
                             step : {"idle", "lock", "held", "unlock", "count"},
                             staged : {Free, Deleted, Populated},
                             verdict : {"on", "found", "missing", "inserted", "exhausted"}]]
    /\ left \in [Threads -> 0 .. Calls]

Holds(t, s) == call[t].step \in {"held", "unlock"} /\ call[t].at = s

\* The state of a slot, that of a locked one being what its holder staged.
State(s) ==
    IF header[s] = Locked /\ \E t \in Threads : Holds(t, s)
    THEN (CHOOSE c \in {call[t] : t \in {u \in Threads : Holds(u, s)}} : TRUE).staged
    ELSE header[s]
States == [s \in Slots |-> State(s)]

Present == {stored[s] : s \in InState(States, Populated)}

(* Both bits of a slot are set exactly while a thread works on it, and no two threads work on one: what is
   built, overwritten or destroyed in a slot (lock, unlock) is out of everybody else's sight. *)
HeldAlone ==
    \A s \in Slots :
        Cardinality({t \in Threads : Holds(t, s)}) = IF header[s] = Locked THEN 1 ELSE 0

(* However two insertions of a key and erasures of others interleave, a key never ends up in two slots: the
   probes of probe_to_upsert_ agree on the slot they contend for. *)
OneSlotPerKey == UniqueKeys(States, stored)

(* Whatever is erased meanwhile, the slots a probe walks before it reaches a stored key are never free, so
   the probe does not stop short of it: what the tombstones of erase are for. *)
ProbesArrive == ReachableKeys(States, stored)

(* A lookup that answers "missing", or an insertion that finds the table full, is right at the moment it
   decides: the key is in no slot then, also if it was erased, or inserted elsewhere, while the probe was
   on its way. *)
MissMeansAbsent ==
    \A t \in Threads :
        call[t].step = "unlock" /\ call[t].verdict \in {"missing", "exhausted"} => call[t].key \notin Present

(* emplace answers capacity_exhausted_k only when no slot of the table is free, "when no slot along the probe
   sequence was free", however many of the slots it saw changed since. *)
ExhaustedMeansFull ==
    \A t \in Threads :
        call[t].step = "unlock" /\ call[t].verdict = "exhausted" => InState(States, Free) = {}

(* The counters tell what the slots hold, but for the insertions whose thread has yet to count them: nothing
   is counted twice or not at all, though erase counts under the lock and emplace after it. *)
CountsSettle ==
    LET uncounted == {t \in Threads : \/ call[t].step = "count"
                                      \/ call[t].step = "unlock" /\ call[t].verdict = "inserted"}
    IN  /\ (populated_count + Cardinality(uncounted)) % CountSpan
                = Cardinality(InState(States, Populated))
        /\ deleted_count = Cardinality(InState(States, Deleted))
=============================================================================
