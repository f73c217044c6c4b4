------------------------- MODULE WeightBalancedTree -------------------------
(***************************************************************************)
(* basic_wb_tree: the search tree balanced by weight, which also finds an  *)
(* entry by its position, among all entries or among those its             *)
(* augmentation policy counts. A step is a whole call on one tree; after   *)
(* it the keys are renumbered and the entries forgotten, which leaves the  *)
(* shape. What a call makes of the entries and of the counts is said of    *)
(* every call on every shape, however its entries are counted.             *)
(*                                                                         *)
(* Operators are recursive as the functions are; the module is for TLC.    *)
(***************************************************************************)
EXTENDS Integers, FiniteSets, Sequences, SequencesExt

CONSTANTS
    Null,           \* nullptr
    Capacity,       \* Bound: entries a tree is let grow to.
    Meets,          \* Bound: entries of a tree whose entries are counted in every way, and that meets others.
    MaxGiven        \* Bound: entries of a range or of another tree.

\* What the module that gives these values assumes of them.
WeightAssumption == {Capacity, Meets} \subseteq Nat /\ MaxGiven \in 1..3

VARIABLE tree       \* root_ and size_

----------------------------------------------------------------------------
(* Nodes. The value of an entry is what its policy counts it as, 0 or 1.   *)

Entry(key, value) == [key |-> key, value |-> value]
Leaf(entry) ==
    [key |-> entry.key, value |-> entry.value, left |-> Null, right |-> Null,
     size |-> 1, augmented |-> entry.value]

get_size(node) == IF node = Null THEN 0 ELSE node.size
get_augmented_size(node) == IF node = Null THEN 0 ELSE node.augmented
get_weight(node) == get_size(node) + 1

update_augmented_size(node) ==
    [node EXCEPT !.augmented = node.value + get_augmented_size(node.left) + get_augmented_size(node.right)]
update_size(node) ==
    update_augmented_size([node EXCEPT !.size = 1 + get_size(node.left) + get_size(node.right)])

RECURSIVE LeftToRight(_), BottomUp(_)
LeftToRight(node) ==
    IF node = Null THEN <<>> ELSE LeftToRight(node.left) \o <<node>> \o LeftToRight(node.right)
BottomUp(node) ==
    IF node = Null THEN <<>> ELSE BottomUp(node.left) \o BottomUp(node.right) \o <<node>>

----------------------------------------------------------------------------
(* Traversal and search: there are no parents, so a walk descends anew.    *)

RECURSIVE find_min(_), find_max(_), find(_, _), BoundFrom(_, _, _), BoundAbove(_, _, _), LastBelow(_, _, _)

find_min(node) == IF node = Null \/ node.left = Null THEN node ELSE find_min(node.left)
find_max(node) == IF node = Null \/ node.right = Null THEN node ELSE find_max(node.right)

find(node, key) ==
    IF node = Null \/ node.key = key THEN node
    ELSE find(IF key < node.key THEN node.left ELSE node.right, key)

BoundFrom(node, key, result) ==
    IF node = Null THEN result
    ELSE IF ~(node.key < key) THEN BoundFrom(node.left, key, node) ELSE BoundFrom(node.right, key, result)
lower_bound(node, key) == BoundFrom(node, key, Null)

BoundAbove(node, key, result) ==
    IF node = Null THEN result
    ELSE IF key < node.key THEN BoundAbove(node.left, key, node) ELSE BoundAbove(node.right, key, result)
upper_bound(node, key) == BoundAbove(node, key, Null)

LastBelow(node, key, predecessor) ==
    IF node = Null THEN predecessor
    ELSE IF node.key < key THEN LastBelow(node.right, key, node) ELSE LastBelow(node.left, key, predecessor)

find_successor(root, node) == IF node = Null THEN find_min(root) ELSE upper_bound(root, node.key)
find_predecessor(root, node) == IF node = Null THEN find_max(root) ELSE LastBelow(root, node.key, Null)

RECURSIVE range(_, _, _)
range(node, low, high) ==
    IF node = Null THEN <<>>
    ELSE IF node.key < high /\ ~(node.key < low)
    THEN range(node.left, low, high) \o <<node.key>> \o range(node.right, low, high)
    ELSE range(IF node.key < low THEN node.right ELSE node.left, low, high)

----------------------------------------------------------------------------
(* Order statistics. *)

RECURSIVE select(_, _), rank(_, _), select_augmented(_, _), rank_augmented(_, _), refresh_augmentation(_, _)

select(node, k) ==
    IF node = Null THEN Null
    ELSE LET before == get_size(node.left)
         IN  CASE k < before -> select(node.left, k)
               [] k = before -> node
               [] OTHER -> select(node.right, k - before - 1)

rank(node, key) ==
    IF node = Null THEN 0
    ELSE IF key < node.key THEN rank(node.left, key)
    ELSE get_size(node.left) + IF node.key < key THEN 1 + rank(node.right, key) ELSE 0

select_augmented(node, k) ==
    IF node = Null THEN Null
    ELSE LET before == get_augmented_size(node.left)
         IN  CASE k < before -> select_augmented(node.left, k)
               [] k = before /\ node.value = 1 -> node
               [] OTHER -> select_augmented(node.right, k - before - node.value)

rank_augmented(node, key) ==
    IF node = Null THEN 0
    ELSE IF key < node.key THEN rank_augmented(node.left, key)
    ELSE get_augmented_size(node.left) + IF node.key < key THEN node.value + rank_augmented(node.right, key) ELSE 0

\* The counts on the way to an entry, when there is one.
refresh_augmentation(node, key) ==
    IF find(node, key) = Null THEN node
    ELSE update_augmented_size(
            IF node.key = key THEN node
            ELSE [node EXCEPT ![IF key < node.key THEN "left" ELSE "right"] = refresh_augmentation(@, key)])

----------------------------------------------------------------------------
(* Rotations and rebalancing. *)

rotate_right(y) == LET x == y.left IN update_size([x EXCEPT !.right = update_size([y EXCEPT !.left = x.right])])
rotate_left(x) == LET y == x.right IN update_size([y EXCEPT !.left = update_size([x EXCEPT !.right = y.left])])

delta_k == 3
gamma_k == 2
Heavier(node, other) == get_weight(node) > delta_k * get_weight(other)
TurnsOnce(inner, outer) == get_weight(inner) < gamma_k * get_weight(outer)

rebalance(node) ==
    LET l == node.left
        r == node.right
    IN  CASE Heavier(l, r) ->
               rotate_right(IF TurnsOnce(l.right, l.left) THEN node ELSE [node EXCEPT !.left = rotate_left(l)])
          [] Heavier(r, l) ->
               rotate_left(IF TurnsOnce(r.left, r.right) THEN node ELSE [node EXCEPT !.right = rotate_right(r)])
          [] OTHER -> node

\* rebalance_after_extract, and what insertions and joins do on their way out.
Rebalanced(node) == rebalance(update_size(node))

----------------------------------------------------------------------------
(* Removal and insertion. *)

RECURSIVE extract(_, _), ExtractRoot(_), insert(_, _), upsert(_, _)
ExtractRoot(node) ==
    [extracted |-> Leaf(node),
     root |->
        IF node.left # Null /\ node.right # Null
        THEN LET below == extract(node.right, find_min(node.right).key)
             IN  Rebalanced([below.extracted EXCEPT !.left = node.left, !.right = below.root])
        ELSE IF node.left # Null THEN node.left ELSE node.right]

extract(node, key) ==
    IF node = Null THEN [root |-> Null, extracted |-> Null]
    ELSE IF node.key = key THEN ExtractRoot(node)
    ELSE LET side == IF key < node.key THEN "left" ELSE "right"
             below == extract(node[side], key)
             hung == [node EXCEPT ![side] = below.root]
         IN  [root |-> IF below.extracted # Null THEN Rebalanced(hung) ELSE hung, extracted |-> below.extracted]

\* A node is placed unless its key has one.
insert(node, new) ==
    IF node = Null THEN [root |-> new, placement |-> "made"]
    ELSE IF node.key = new.key THEN [root |-> node, placement |-> "matched"]
    ELSE LET side == IF new.key < node.key THEN "left" ELSE "right"
             below == insert(node[side], new)
             hung == [node EXCEPT ![side] = below.root]
         IN  [root |-> IF below.placement = "made" THEN Rebalanced(hung) ELSE hung, placement |-> below.placement]

\* An entry is written, over the one its key has or into a node of its own.
upsert(node, entry) ==
    IF node = Null THEN [root |-> Leaf(entry), placement |-> "made"]
    ELSE IF node.key = entry.key
    THEN [root |-> update_augmented_size([node EXCEPT !.value = entry.value]), placement |-> "matched"]
    ELSE LET side == IF entry.key < node.key THEN "left" ELSE "right"
             below == upsert(node[side], entry)
             hung == [node EXCEPT ![side] = below.root]
         IN  [root |-> IF below.placement = "made" THEN Rebalanced(hung) ELSE update_augmented_size(hung),
              placement |-> below.placement]

----------------------------------------------------------------------------
(* Split and join. *)

RECURSIVE join_with_root(_, _, _), SplitNodes(_, _), EraseNodesIf(_, _)
join_with_root(left, root, right) ==
    CASE Heavier(left, right) -> Rebalanced([left EXCEPT !.right = join_with_root(@, root, right)])
      [] Heavier(right, left) -> Rebalanced([right EXCEPT !.left = join_with_root(left, root, @)])
      [] OTHER -> update_size([root EXCEPT !.left = left, !.right = right])

JoinNodes(left, right) ==
    IF left = Null THEN right
    ELSE IF right = Null THEN left
    ELSE LET taken == extract(right, find_min(right).key)
         IN  join_with_root(left, taken.extracted, taken.root)

SplitNodes(node, key) ==
    IF node = Null THEN [left |-> Null, right |-> Null]
    ELSE IF node.key < key
    THEN LET below == SplitNodes(node.right, key)
         IN  [left |-> join_with_root(node.left, node, below.left), right |-> below.right]
    ELSE LET below == SplitNodes(node.left, key)
         IN  [left |-> below.left, right |-> join_with_root(below.right, node, node.right)]

EraseNodesIf(node, dropped) ==
    IF node = Null THEN Null
    ELSE LET left == EraseNodesIf(node.left, dropped)
             right == EraseNodesIf(node.right, dropped)
         IN  IF node.key \in dropped THEN JoinNodes(left, right) ELSE join_with_root(left, Leaf(node), right)

----------------------------------------------------------------------------
(* The container's calls, each on a tree t and answering the tree it leaves. *)

Tree(root, size) == [root |-> root, size |-> size]
Hollow == Tree(Null, 0)
Ascending(keys) ==
    [i \in 1..Cardinality(keys) |-> CHOOSE key \in keys : Cardinality({k \in keys : k <= key}) = i]
KeysIn(root) == {node.key : node \in ToSet(LeftToRight(root))}
EntriesIn(root) == {Entry(node.key, node.value) : node \in ToSet(LeftToRight(root))}
Grown(t, result) == Tree(result.root, t.size + IF result.placement = "made" THEN 1 ELSE 0)

RECURSIVE Forward(_, _), Backward(_, _)
Forward(root, node) == IF node = Null THEN <<>> ELSE <<node.key>> \o Forward(root, find_successor(root, node))
Backward(root, node) == IF node = Null THEN <<>> ELSE <<node.key>> \o Backward(root, find_predecessor(root, node))

\* upsert overwrites an incumbent, which insert and insert_if_missing leave; only a new key takes memory.
Give(t, entry, how, refused) ==
    LET known == find(t.root, entry.key) # Null
    IN  CASE ~known /\ entry \in refused -> [tree |-> t, status |-> "out_of_memory"]
          [] known /\ how # "upsert" -> [tree |-> t, status |-> "matched"]
          [] OTHER -> [tree |-> Grown(t, upsert(t.root, entry)), status |-> "success"]

\* A range is given entry by entry and stops where memory does.
GiveRange(t, entries, how, refused) ==
    FoldLeft(LAMBDA done, entry :
                IF done.status = "out_of_memory" THEN done ELSE Give(done.tree, entry, how, refused),
             [tree |-> t, status |-> "success"], entries)

Extracted(t, key) ==
    LET result == extract(t.root, key)
    IN  [tree |-> Tree(result.root, t.size - IF result.extracted # Null THEN 1 ELSE 0), node |-> result.extracted]

RECURSIVE ErasedSpan(_, _, _)
ErasedSpan(t, first, last) ==
    IF first = Null \/ (last # Null /\ first.key = last.key) THEN t
    ELSE LET next == find_successor(t.root, first)
             left == Extracted(t, first.key).tree
         IN  ErasedSpan(left, IF next = Null THEN Null ELSE find(left.root, next.key), last)

EraseRangeOf(t, lower, upper) ==
    IF t.root = Null THEN t
    ELSE LET Dropping(below, within) ==
                 Tree(JoinNodes(below, within.right), t.size - Len(BottomUp(within.left)))
             Within(parts) == Dropping(parts.left, SplitNodes(parts.right, upper))
         IN  Within(SplitNodes(t.root, lower))

EraseIfOf(t, dropped) ==
    LET root == EraseNodesIf(t.root, dropped) IN Tree(root, Len(LeftToRight(root)))

\* Another tree's nodes come over one at a time, from its root.
MergeNode(t, node) == Grown(t, insert(t.root, node))
RECURSIVE Merge(_, _)
Merge(t, other) ==
    IF other.size = 0 THEN t
    ELSE LET taken == Extracted(other, other.root.key) IN Merge(MergeNode(t, taken.node), taken.tree)

Join(t, other) ==
    IF other.root = Null THEN t
    ELSE IF t.root = Null THEN other
    ELSE Tree(JoinNodes(t.root, other.root), t.size + other.size)

\* merge(other, assume_unique)
MergeUnique(t, other) ==
    IF other.size # 0 /\ t.size # 0 /\ ~(find_max(t.root).key < find_min(other.root).key) THEN Merge(t, other)
    ELSE Join(t, other)

Halves(parts) == <<Tree(parts.left, get_size(parts.left)), Tree(parts.right, get_size(parts.right))>>
SplitAt(t, key) == Halves(SplitNodes(t.root, key))

----------------------------------------------------------------------------
(* What the calls are given. A stored key is a multiple of four, so three  *)
(* more fit into every gap.                                                *)

Stored(t) == {4 * position : position \in 1..t.size}
Probes(t) == Stored(t) \cup {4 * position + 2 : position \in 0..t.size}
Fresh(t) == 1..(4 * t.size + 3)

\* Entries counted in turn, starting with either.
Entries(keys, first) == [i \in 1..Len(keys) |-> Entry(keys[i], (i + first) % 2)]
Given(t) ==
    {Entries(Ascending(keys), first) : keys \in UNION {kSubset(n, Fresh(t)) : n \in 1..MaxGiven}, first \in 0..1}
Others(t) == {GiveRange(Hollow, entries, "upsert", {}).tree : entries \in Given(t)}
OthersAbove(t) ==
    {GiveRange(Hollow, Entries([i \in 1..n |-> 4 * t.size + i], first), "upsert", {}).tree :
        n \in 0..MaxGiven, first \in 0..1}

Apart(t, other) == KeysIn(t.root) \cap KeysIn(other.root) = {}

\* The shape alone; and a shape whose entries are counted as these keys say.
RECURSIVE Relabelled(_, _), Counted(_, _)
Relabelled(node, to) ==
    IF node = Null THEN Null
    ELSE [node EXCEPT !.key = to[@], !.value = 0, !.augmented = 0,
                      !.left = Relabelled(@, to), !.right = Relabelled(@, to)]
Counted(node, keys) ==
    IF node = Null THEN Null
    ELSE update_augmented_size(
            [node EXCEPT !.value = IF node.key \in keys THEN 1 ELSE 0,
                         !.left = Counted(@, keys), !.right = Counted(@, keys)])
Shape(t) ==
    LET keys == KeysIn(t.root)
    IN  Tree(Relabelled(t.root, [k \in keys |-> 4 * Cardinality({other \in keys : other <= k})]), t.size)

----------------------------------------------------------------------------

Init == tree = Hollow

Becomes(t) == tree' = Shape(t)
MayMeet == tree.size <= Meets

Insert ==
    /\ tree.size < Capacity
    /\ \E key \in Probes(tree), how \in {"insert", "upsert"} : Becomes(Give(tree, Entry(key, 1), how, {}).tree)
Extract == \E key \in Probes(tree) : Becomes(Extracted(tree, key).tree)
EraseSpan ==
    \E first \in Stored(tree), last \in Stored(tree) \cup {0} :
        /\ last = 0 \/ first <= last
        /\ Becomes(ErasedSpan(tree, find(tree.root, first), find(tree.root, last)))
EraseRange == \E lower, upper \in Probes(tree) : lower <= upper /\ Becomes(EraseRangeOf(tree, lower, upper))
EraseIf == \E dropped \in SUBSET Stored(tree) : Becomes(EraseIfOf(tree, dropped))
Split == \E key \in Probes(tree), half \in 1..2 : Becomes(SplitAt(tree, key)[half])
JoinOther == tree.size + MaxGiven <= Capacity /\ \E other \in OthersAbove(tree) : Becomes(Join(tree, other))
MergeOther ==
    /\ MayMeet
    /\ \E other \in Others(tree) :
         \/ Becomes(Merge(tree, other))
         \/ Apart(tree, other) /\ Becomes(MergeUnique(tree, other))
GiveEntries ==
    /\ MayMeet
    /\ \E entries \in Given(tree), how \in {"insert", "upsert"} : Becomes(GiveRange(tree, entries, how, {}).tree)

Next ==
    \/ Insert \/ Extract \/ EraseSpan \/ EraseRange \/ EraseIf \/ Split
    \/ JoinOther \/ MergeOther \/ GiveEntries

Spec == Init /\ [][Next]_tree

----------------------------------------------------------------------------
(* Properties. *)

\* The keys ascend, the sizes and the second counts are those of the subtrees, and no side outweighs the other
\* threefold (basic_wb_tree.hpp:13).
BooksOf(t) ==
    LET nodes == LeftToRight(t.root)
    IN  /\ t.size = Len(nodes)
        /\ \A i \in 2..Len(nodes) : nodes[i - 1].key < nodes[i].key
        /\ \A node \in ToSet(nodes) :
             LET below == LeftToRight(node)
             IN  /\ node.size = Len(below)
                 /\ node.augmented = Len(SelectSeq(below, LAMBDA n : n.value = 1))
                 /\ get_weight(node.left) <= 3 * get_weight(node.right)
                 /\ get_weight(node.right) <= 3 * get_weight(node.left)

\* Every way of counting the entries of a small tree, and some of a larger one.
Countings ==
    IF MayMeet THEN SUBSET Stored(tree)
    ELSE {Stored(tree), {key \in Stored(tree) : (key \div 4) % 2 = 0}, {key \in Stored(tree) : key > 2 * tree.size}}
With(counting) == Tree(Counted(tree.root, counting), tree.size)

KeyOf(node) == IF node = Null THEN 0 ELSE node.key
Least(keys) == IF keys = {} THEN 0 ELSE CHOOSE k \in keys : \A other \in keys : k <= other

\* Lookups, bounds, ranges and walks either way answer what the set of keys does.
LookupsAgree ==
    LET root == tree.root
        keys == KeysIn(root)
        ascending == Ascending(keys)
    IN  /\ Forward(root, find_min(root)) = ascending /\ Backward(root, find_max(root)) = Reverse(ascending)
        /\ \A key \in Probes(tree) :
             /\ KeyOf(find(root, key)) = Least({key} \cap keys)
             /\ KeyOf(lower_bound(root, key)) = Least({k \in keys : k >= key})
             /\ KeyOf(upper_bound(root, key)) = Least({k \in keys : k > key})
             /\ \A high \in Probes(tree) : range(root, key, high) = Ascending({k \in keys : key <= k /\ k < high})

\* Position and key name each other, among all entries and among the counted ones, before and after one entry
\* starts or stops counting (refresh_augmentation, basic_wb_tree.hpp:361).
PositionsAgree(counting) ==
    LET RightOf(root, counted) ==
            LET all == Ascending(KeysIn(root))
                some == Ascending(counted)
            IN  /\ \A k \in 0..tree.size :
                     /\ KeyOf(select(root, k)) = IF k < Len(all) THEN all[k + 1] ELSE 0
                     /\ KeyOf(select_augmented(root, k)) = IF k < Len(some) THEN some[k + 1] ELSE 0
                /\ \A key \in Probes(tree) :
                     /\ rank(root, key) = Cardinality({k \in KeysIn(root) : k < key})
                     /\ rank_augmented(root, key) = Cardinality({k \in counted : k < key})
        RECURSIVE Flipped(_, _)
        Flipped(node, key) ==
            IF node.key = key THEN [node EXCEPT !.value = 1 - @]
            ELSE [node EXCEPT ![IF key < node.key THEN "left" ELSE "right"] = Flipped(@, key)]
        root == Counted(tree.root, counting)
    IN  /\ RightOf(root, counting)
        /\ \A key \in KeysIn(root) :
             RightOf(refresh_augmentation(Flipped(root, key), key),
                     IF key \in counting THEN counting \ {key} ELSE counting \cup {key})

WeightLookupsAgree == LookupsAgree /\ \A counting \in Countings : PositionsAgree(counting)

\* What a call makes of the entries of a tree, its books in order.
KeysGiven(entries) == {entry.key : entry \in entries}
Without(t, keys) == {entry \in EntriesIn(t.root) : entry.key \notin keys}
Replaced(t, entries) == Without(t, KeysGiven(entries)) \cup entries
Added(t, entries) == EntriesIn(t.root) \cup {entry \in entries : entry.key \notin KeysIn(t.root)}
Holds(t, entries) == BooksOf(t) /\ EntriesIn(t.root) = entries
SplitHolds(halves, below, above) == Holds(halves[1], below) /\ Holds(halves[2], above)

OneEntryRight(t) ==
    \A key \in Probes(t), value \in 0..1, memory \in BOOLEAN :
        LET entry == Entry(key, value)
            refused == IF memory THEN {} ELSE {entry}
            added == IF memory THEN Added(t, {entry}) ELSE EntriesIn(t.root)
        IN  /\ Holds(Give(t, entry, "insert", refused).tree, added)
            /\ Holds(Give(t, entry, "upsert", refused).tree,
                     IF key \in KeysIn(t.root) THEN Replaced(t, {entry}) ELSE added)

ErasuresRight(t) ==
    /\ \A key \in Probes(t) :
         /\ Holds(Extracted(t, key).tree, Without(t, {key}))
         /\ SplitHolds(SplitAt(t, key), {entry \in EntriesIn(t.root) : entry.key < key},
                       {entry \in EntriesIn(t.root) : entry.key >= key})
    /\ \A low, high \in Probes(t) : low <= high =>
         /\ Holds(EraseRangeOf(t, low, high), Without(t, low..(high - 1)))
         /\ {low, high} \subseteq Stored(t) =>
              Holds(ErasedSpan(t, find(t.root, low), find(t.root, high)), Without(t, low..(high - 1)))
    /\ \A dropped \in SUBSET Stored(t) : Holds(EraseIfOf(t, dropped), Without(t, dropped))

\* merge keeps incumbents and empties the other tree, joined to it end to end where their keys allow.
MergesRight(t) ==
    \A other \in Others(t) :
        LET merged == Added(t, EntriesIn(other.root))
        IN  Holds(Merge(t, other), merged) /\ (Apart(t, other) => Holds(MergeUnique(t, other), merged))

\* A range that ran out of memory has given what came before.
RangesRight(t) ==
    \A entries \in Given(t), how \in {"insert", "upsert"}, stop \in 1..(MaxGiven + 1) :
        LET refused == IF stop \in DOMAIN entries THEN {entries[stop]} ELSE {}
            done == GiveRange(t, entries, how, refused)
            stopped == \E entry \in refused : entry.key \notin KeysIn(t.root)
            before == IF stopped THEN {entries[i] : i \in 1..(stop - 1)} ELSE ToSet(entries)
        IN  /\ (done.status = "out_of_memory") <=> stopped
            /\ Holds(done.tree, IF how = "upsert" THEN Replaced(t, before) ELSE Added(t, before))

\* Every call leaves the entries it should in a tree whose counts are exact and whose weights are balanced,
\* whatever the shape, however its entries are counted and wherever memory ends.
WeightCallsKeepEntries ==
    /\ \A counting \in Countings : OneEntryRight(With(counting)) /\ ErasuresRight(With(counting))
    /\ MayMeet => MergesRight(With({4})) /\ RangesRight(With({4}))
=============================================================================
