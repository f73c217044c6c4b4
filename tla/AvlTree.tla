------------------------------- MODULE AvlTree -------------------------------
(***************************************************************************)
(* basic_avl_tree: the search tree balanced by height. A node is a record  *)
(* holding its children; its parent is named by key, 0 standing for none.  *)
(* Every call runs alone on its tree, so a step is a whole call. After it  *)
(* the keys are renumbered and the values forgotten, which leaves the      *)
(* shape: keys are compared and nothing else, so the trees of one shape    *)
(* behave alike. What a call makes of the entries is said before that, of  *)
(* every call on every tree reached (AvlCallsKeepEntries).                 *)
(*                                                                         *)
(* Operators are recursive as the functions are; the module is for TLC.    *)
(***************************************************************************)
EXTENDS Integers, FiniteSets, Sequences, SequencesExt

CONSTANTS
    Null,           \* nullptr
    Capacity,       \* Bound: entries a tree is let grow to.
    Meets,          \* Bound: entries of a tree that is given ranges and other trees.
    MaxGiven,       \* Bound: entries of a range or of another tree.
    DswThreshold,   \* dsw_threshold_k
    ErasesIf        \* Whether erase_if is among the calls.

\* What the module that gives these values assumes of them.
AvlAssumption ==
    /\ {Capacity, Meets, MaxGiven, DswThreshold} \subseteq Nat /\ MaxGiven \in 1..3
    /\ ErasesIf \in BOOLEAN

VARIABLE tree       \* root_ and size_

----------------------------------------------------------------------------
(* Nodes. *)

Entry(key, value) == [key |-> key, value |-> value]
Leaf(entry) ==
    [key |-> entry.key, value |-> entry.value, left |-> Null, right |-> Null, parent |-> 0, height |-> 1]

get_height(node) == IF node = Null THEN 0 ELSE node.height
get_balance(node) == get_height(node.left) - get_height(node.right)
Measured(node) ==
    LET l == get_height(node.left)
        r == get_height(node.right)
    IN  [node EXCEPT !.height = 1 + IF l < r THEN r ELSE l]
Under(child, node) == IF child = Null THEN Null ELSE [child EXCEPT !.parent = node.key]
Top(root) == IF root = Null THEN Null ELSE [root EXCEPT !.parent = 0]

RECURSIVE LeftToRight(_), BottomUp(_)
LeftToRight(node) ==
    IF node = Null THEN <<>> ELSE LeftToRight(node.left) \o <<node>> \o LeftToRight(node.right)
BottomUp(node) ==
    IF node = Null THEN <<>> ELSE BottomUp(node.left) \o BottomUp(node.right) \o <<node>>

----------------------------------------------------------------------------
(* Traversal and search. *)

RECURSIVE find_min(_), find_max(_), find(_, _), BoundAbove(_, _, _), BoundFrom(_, _, _)

find_min(node) == IF node = Null \/ node.left = Null THEN node ELSE find_min(node.left)
find_max(node) == IF node = Null \/ node.right = Null THEN node ELSE find_max(node.right)

find(node, key) ==
    IF node = Null \/ node.key = key THEN node
    ELSE find(IF key < node.key THEN node.left ELSE node.right, key)

BoundFrom(node, key, successor) ==
    IF node = Null THEN successor
    ELSE IF node.key < key THEN BoundFrom(node.right, key, successor) ELSE BoundFrom(node.left, key, node)
lower_bound(node, key) == BoundFrom(node, key, Null)

BoundAbove(node, key, successor) ==
    IF node = Null THEN successor
    ELSE IF key < node.key THEN BoundAbove(node.left, key, node) ELSE BoundAbove(node.right, key, successor)
upper_bound(node, key) == BoundAbove(node, key, Null)

\* The nearest ancestor the walk up does not reach from its given side.
RECURSIVE AncestorPast(_, _, _)
AncestorPast(root, node, side) ==
    LET up == find(root, node.parent)
    IN  IF up = Null \/ up[side] = Null \/ up[side].key # node.key THEN up ELSE AncestorPast(root, up, side)

find_successor(root, node) ==
    IF node.right # Null THEN find_min(node.right) ELSE AncestorPast(root, node, "right")
find_predecessor(root, node) ==
    IF node.left # Null THEN find_max(node.left) ELSE AncestorPast(root, node, "left")

RECURSIVE lowest_common_ancestor(_, _, _)
lowest_common_ancestor(node, a, b) ==
    IF node = Null \/ ((node.key <= a \/ node.key <= b) /\ (a <= node.key \/ b <= node.key)) THEN node
    ELSE lowest_common_ancestor(IF a < node.key THEN node.left ELSE node.right, a, b)

\* The keys met from a node on, until a key is reached; and all of them from the last one back.
RECURSIVE WalkFrom(_, _, _), WalkBack(_, _)
WalkFrom(root, node, high) ==
    IF node = Null \/ node.key >= high THEN <<>>
    ELSE <<node.key>> \o WalkFrom(root, find_successor(root, node), high)
WalkBack(root, node) ==
    IF node = Null THEN <<>> ELSE <<node.key>> \o WalkBack(root, find_predecessor(root, node))

range(root, low, high) == WalkFrom(root, lower_bound(root, low), high)
equal_range(root, key) ==
    LET node == find(root, key) IN <<node, IF node = Null THEN Null ELSE find_successor(root, node)>>

----------------------------------------------------------------------------
(* Rotations, insertion. *)

rotate_right(y) ==
    LET x == y.left
        below == Measured([y EXCEPT !.left = Under(x.right, y), !.parent = x.key])
    IN  Measured([x EXCEPT !.right = below, !.parent = y.parent])

rotate_left(x) ==
    LET y == x.right
        below == Measured([x EXCEPT !.right = Under(y.left, x), !.parent = y.key])
    IN  Measured([y EXCEPT !.left = below, !.parent = x.parent])

rebalance_on_insert(given, key) ==
    LET node == Measured(given)
        balance == get_balance(node)
    IN  CASE balance > 1 /\ key < node.left.key -> rotate_right(node)
          [] balance < -1 /\ node.right.key < key -> rotate_left(node)
          [] balance > 1 /\ node.left.key < key -> rotate_right([node EXCEPT !.left = rotate_left(@)])
          [] balance < -1 /\ key < node.right.key -> rotate_left([node EXCEPT !.right = rotate_right(@)])
          [] OTHER -> node

\* find_or_make, as insert calls it: with a node to place.
RECURSIVE insert(_, _)
insert(node, new) ==
    IF node = Null THEN [root |-> Leaf(new), placement |-> "made"]
    ELSE IF node.key = new.key THEN [root |-> node, placement |-> "matched"]
    ELSE
      LET side == IF new.key < node.key THEN "left" ELSE "right"
          below == insert(node[side], new)
          hung == [node EXCEPT ![side] = Under(below.root, node)]
      IN  [root |-> IF below.placement = "made" THEN rebalance_on_insert(hung, new.key) ELSE hung,
           placement |-> below.placement]

\* An allocation per entry, the middle one first; a refused one leaves its subtree out.
RECURSIVE build_from_sorted(_, _)
build_from_sorted(entries, refused) ==
    LET mid == Len(entries) \div 2 + 1
    IN  IF entries = <<>> \/ entries[mid] \in refused THEN Null
        ELSE LET root == Leaf(entries[mid])
             IN  Measured([root EXCEPT
                    !.left = Under(build_from_sorted(SubSeq(entries, 1, mid - 1), refused), root),
                    !.right = Under(build_from_sorted(SubSeq(entries, mid + 1, Len(entries)), refused), root)])

----------------------------------------------------------------------------
(* Removal. *)

rebalance_after_extract(given) ==
    LET node == Measured(given)
        balance == get_balance(node)
    IN  CASE balance > 1 /\ get_balance(node.left) >= 0 -> rotate_right(node)
          [] balance > 1 -> rotate_right([node EXCEPT !.left = Under(rotate_left(@), node)])
          [] balance < -1 /\ get_balance(node.right) <= 0 -> rotate_left(node)
          [] balance < -1 -> rotate_left([node EXCEPT !.right = Under(rotate_right(@), node)])
          [] OTHER -> node

RECURSIVE extract(_, _), ExtractRoot(_)
ExtractRoot(node) ==
    [extracted |-> Leaf(node),
     root |->
        IF node.left # Null /\ node.right # Null
        THEN LET below == extract(node.right, find_min(node.right).key)
                 successor == below.extracted
             IN  rebalance_after_extract(
                    [successor EXCEPT !.left = Under(node.left, successor),
                                      !.right = Under(below.root, successor), !.parent = node.parent])
        ELSE IF node.left # Null THEN [node.left EXCEPT !.parent = node.parent]
        ELSE IF node.right # Null THEN [node.right EXCEPT !.parent = node.parent]
        ELSE Null]

extract(node, key) ==
    IF node = Null THEN [root |-> Null, extracted |-> Null]
    ELSE IF node.key = key THEN ExtractRoot(node)
    ELSE
      LET side == IF key < node.key THEN "left" ELSE "right"
          below == extract(node[side], key)
          hung == [node EXCEPT ![side] = Under(below.root, node)]
      IN  [root |-> IF below.extracted # Null THEN rebalance_after_extract(hung) ELSE hung,
           extracted |-> below.extracted]

\* Heights are taken anew on the way out; only an extracted node's place is rebalanced.
RECURSIVE EraseNodesIf(_, _)
EraseNodesIf(node, dropped) ==
    IF node = Null THEN Null
    ELSE
      LET hung == [node EXCEPT !.left = Under(EraseNodesIf(@, dropped), node),
                               !.right = Under(EraseNodesIf(@, dropped), node)]
      IN  IF node.key \in dropped THEN ExtractRoot(hung).root ELSE Measured(hung)

----------------------------------------------------------------------------
(* Split and join. *)

RECURSIVE JoinDown(_, _, _), JoinNodes(_, _), SplitNodes(_, _)
JoinDown(left, root, right) ==
    IF get_height(left) > get_height(right) + 1
    THEN rebalance_after_extract([left EXCEPT !.right = Under(JoinDown(@, root, right), left)])
    ELSE IF get_height(right) > get_height(left) + 1
    THEN rebalance_after_extract([right EXCEPT !.left = Under(JoinDown(left, root, @), right)])
    ELSE Measured([root EXCEPT !.left = Under(left, root), !.right = Under(right, root)])
join_with_root(left, root, right) == Top(JoinDown(left, root, right))

JoinNodes(left, right) ==
    IF left = Null THEN right
    ELSE IF right = Null THEN left
    ELSE IF get_height(left) > get_height(right) + 1
    THEN rebalance_after_extract([left EXCEPT !.right = Under(JoinNodes(@, right), left)])
    ELSE IF get_height(right) > get_height(left) + 1
    THEN rebalance_after_extract([right EXCEPT !.left = Under(JoinNodes(left, @), right)])
    ELSE LET taken == extract(right, find_min(right).key)
         IN  join_with_root(left, taken.extracted, taken.root)

\* The left part orders before the key; the node goes to the side it belongs to.
SplitNodes(node, key) ==
    IF node = Null THEN [left |-> Null, right |-> Null]
    ELSE IF node.key < key
    THEN LET below == SplitNodes(node.right, key)
         IN  [left |-> join_with_root(node.left, node, below.left), right |-> Top(below.right)]
    ELSE LET below == SplitNodes(node.left, key)
         IN  [left |-> Top(below.left), right |-> join_with_root(below.right, node, node.right)]

----------------------------------------------------------------------------
(* Merging nodes. *)

RECURSIVE merge_split_based(_, _), tree_to_spine(_), merge_spines(_, _)
merge_split_based(small, large) ==
    IF small = Null THEN large
    ELSE IF large = Null THEN small
    ELSE LET parts == SplitNodes(large, small.key)
         IN  join_with_root(merge_split_based(small.left, parts.left), small,
                            merge_split_based(small.right, parts.right))

\* A spine is the sequence of its nodes; left children are rotated up until there is none.
tree_to_spine(root) ==
    IF root = Null THEN <<>>
    ELSE IF root.left # Null
    THEN tree_to_spine([root.left EXCEPT !.right = [root EXCEPT !.left = root.left.right]])
    ELSE <<root>> \o tree_to_spine(root.right)

merge_spines(first, second) ==
    IF first = <<>> \/ second = <<>> THEN first \o second
    ELSE IF Head(first).key < Head(second).key THEN <<Head(first)>> \o merge_spines(Tail(first), second)
    ELSE <<Head(second)>> \o merge_spines(first, Tail(second))

spine_to_balanced(spine) == build_from_sorted(spine, {})
merge_dsw(first, second) == spine_to_balanced(merge_spines(tree_to_spine(first), tree_to_spine(second)))

----------------------------------------------------------------------------
(* The container's calls, each on a tree t and answering the tree it leaves. *)

Tree(root, size) == [root |-> root, size |-> size]
Hollow == Tree(Null, 0)
Walk(t) == WalkFrom(t.root, find_min(t.root), IF t.root = Null THEN 0 ELSE find_max(t.root).key + 1)
Ascending(keys) ==
    [i \in 1..Cardinality(keys) |-> CHOOSE key \in keys : Cardinality({k \in keys : k <= key}) = i]
KeysIn(root) == {node.key : node \in ToSet(LeftToRight(root))}
EntriesIn(root) == {Entry(node.key, node.value) : node \in ToSet(LeftToRight(root))}

\* An allocated entry put where its key belongs; an incumbent keeps its own.
Placed(t, entry) ==
    LET result == insert(t.root, entry)
    IN  Tree(result.root, t.size + IF result.placement = "made" THEN 1 ELSE 0)

RECURSIVE Overwritten(_, _)
Overwritten(node, entry) ==
    IF node.key = entry.key THEN [node EXCEPT !.value = entry.value]
    ELSE IF entry.key < node.key THEN [node EXCEPT !.left = Overwritten(@, entry)]
    ELSE [node EXCEPT !.right = Overwritten(@, entry)]
Upserted(t, entry) ==
    IF find(t.root, entry.key) # Null THEN Tree(Overwritten(t.root, entry), t.size) ELSE Placed(t, entry)

\* One entry: of an incumbent insert is refused, insert_if_missing answers it as it is, and upsert
\* overwrites it, which takes no memory.
InsertOne(t, entry, how, refused) ==
    IF find(t.root, entry.key) # Null
    THEN [tree |-> IF how = "upsert" THEN Upserted(t, entry) ELSE t,
          status |-> IF how = "insert" THEN "key_already_exists" ELSE "matched"]
    ELSE IF entry \in refused THEN [tree |-> t, status |-> "out_of_memory"]
    ELSE [tree |-> Placed(t, entry), status |-> "made"]

Extracted(t, key) ==
    LET result == extract(t.root, key)
    IN  Tree(result.root, t.size - IF result.extracted # Null THEN 1 ELSE 0)

\* erase(first, last): the next position is found before each goes.
RECURSIVE ErasedSpan(_, _, _)
ErasedSpan(t, first, last) ==
    IF first = Null \/ (last # Null /\ first.key = last.key) THEN t
    ELSE LET next == find_successor(t.root, first)
             left == Extracted(t, first.key)
         IN  ErasedSpan(left, IF next = Null THEN Null ELSE find(left.root, next.key), last)

EraseRangeOf(t, lower, upper) ==
    IF t.root = Null THEN t
    ELSE LET Dropping(below, within) ==
                 Tree(Top(JoinNodes(below, within.right)), t.size - Len(BottomUp(within.left)))
             Within(parts) == Dropping(parts.left, SplitNodes(parts.right, upper))
         IN  Within(SplitNodes(t.root, lower))

EraseIfOf(t, dropped) ==
    LET root == Top(EraseNodesIf(t.root, dropped)) IN Tree(root, Len(LeftToRight(root)))

\* merge drops what is already here, merge_with_upsert takes its entry; other is left empty.
Merge(t, other) == FoldLeft(Placed, t, BottomUp(other.root))
merge_with_upsert(t, other) ==
    IF other.size = 0 THEN t
    ELSE IF t.size = 0 THEN other
    ELSE LET merged == FoldLeft(Upserted, t, BottomUp(other.root)) IN Tree(Top(merged.root), merged.size)

\* merge(other, assume_unique): joined end to end, flattened, or split around the smaller one's keys.
MergeUnique(t, other) ==
    LET small == IF t.size < other.size THEN t ELSE other
        large == IF t.size < other.size THEN other ELSE t
        size == t.size + other.size
    IN  CASE other.size = 0 -> t
          [] t.size = 0 -> other
          [] find_max(t.root).key < find_min(other.root).key -> Tree(JoinNodes(t.root, other.root), size)
          [] find_max(other.root).key < find_min(t.root).key -> Tree(JoinNodes(other.root, t.root), size)
          [] small.size > DswThreshold /\ large.size < small.size * 3 -> Tree(merge_dsw(t.root, other.root), size)
          [] OTHER -> Tree(merge_split_based(small.root, large.root), size)

Join(t, other) == Tree(JoinNodes(t.root, other.root), t.size + other.size)

Halves(parts) ==
    <<Tree(parts.left, Len(LeftToRight(parts.left))), Tree(parts.right, Len(LeftToRight(parts.right)))>>
SplitAt(t, key) == Halves(SplitNodes(t.root, key))

RECURSIVE copy_subtree(_)
copy_subtree(source) ==
    IF source = Null THEN Null
    ELSE LET node == [source EXCEPT !.left = Null, !.right = Null, !.parent = 0]
         IN  [node EXCEPT !.left = Under(copy_subtree(source.left), node),
                          !.right = Under(copy_subtree(source.right), node)]

\* Two sorted walks side by side.
RECURSIVE has_any_key(_, _), has_all_keys(_, _)
has_any_key(here, there) ==
    /\ here # <<>> /\ there # <<>>
    /\ CASE Head(here) < Head(there) -> has_any_key(Tail(here), there)
         [] Head(there) < Head(here) -> has_any_key(here, Tail(there))
         [] OTHER -> TRUE
has_all_keys(here, there) ==
    \/ there = <<>>
    \/ /\ here # <<>> /\ Head(here) <= Head(there)
       /\ has_all_keys(Tail(here), IF Head(here) = Head(there) THEN Tail(there) ELSE there)

\* A range of entries is built into a tree of its own first, which a refused allocation loses.
Staged(entries, sorted, refused) ==
    IF sorted
    THEN LET root == build_from_sorted(entries, refused)
         IN  IF Len(LeftToRight(root)) # Len(entries) THEN Null ELSE Tree(root, Len(entries))
    ELSE FoldLeft(LAMBDA t, entry :
                    IF t = Null THEN Null
                    ELSE LET one == InsertOne(t, entry, "insert_if_missing", refused)
                         IN  IF one.status = "out_of_memory" THEN Null ELSE one.tree,
                  Hollow, entries)

GiveStaged(t, staged, how) ==
    CASE staged = Null -> [tree |-> t, status |-> "out_of_memory"]
      [] how = "insert_if_missing" /\ has_any_key(Walk(t), Walk(staged)) ->
           [tree |-> t, status |-> "key_already_exists"]
      [] how = "update" /\ ~has_all_keys(Walk(t), Walk(staged)) -> [tree |-> t, status |-> "key_not_found"]
      [] how \in {"insert_if_missing", "upsert unique"} ->
           [tree |-> MergeUnique(t, staged), status |-> "success"]
      [] OTHER -> [tree |-> merge_with_upsert(t, staged), status |-> "success"]
GiveRange(t, entries, how, sorted, refused) == GiveStaged(t, Staged(entries, sorted, refused), how)

----------------------------------------------------------------------------
(* What the calls are given. A stored key is a multiple of four, so three  *)
(* more fit into every gap.                                                *)

Stored(t) == {4 * rank : rank \in 1..t.size}
Probes(t) == Stored(t) \cup {4 * rank + 2 : rank \in 0..t.size}
Fresh(t) == 1..(4 * t.size + 3)

Entries(keys) == [i \in 1..Len(keys) |-> Entry(keys[i], i)]
Unsorted(t) == {Entries(keys) : keys \in [1..2 -> Fresh(t)]}
Sorted(t) ==
    {Entries(Ascending(keys)) : keys \in UNION {kSubset(n, Fresh(t)) : n \in 1..MaxGiven}}
Manners(t, entries) ==
    {"insert_if_missing", "upsert", "update"}
        \cup IF \E i \in DOMAIN entries : entries[i].key \in Stored(t) THEN {} ELSE {"upsert unique"}
Refusals(entries) == {{}} \cup {{entry} : entry \in ToSet(entries)}

\* Other trees: built at once, or entry by entry.
Others(t) ==
    {Tree(build_from_sorted(entries, {}), Len(entries)) : entries \in Sorted(t)}
        \cup {FoldLeft(Placed, Hollow, entries) : entries \in Sorted(t)}
OthersAbove(t) ==
    {Tree(build_from_sorted(Entries([i \in 1..n |-> 4 * t.size + i]), {}), n) : n \in 0..MaxGiven}

Apart(t, other) == KeysIn(t.root) \cap KeysIn(other.root) = {}

\* The shape alone.
RECURSIVE Relabelled(_, _)
Relabelled(node, to) ==
    IF node = Null THEN Null
    ELSE [node EXCEPT !.key = to[@], !.value = 0, !.parent = IF @ = 0 THEN 0 ELSE to[@],
                      !.left = Relabelled(@, to), !.right = Relabelled(@, to)]
Shape(t) ==
    LET keys == KeysIn(t.root)
    IN  Tree(Relabelled(t.root, [k \in keys |-> 4 * Cardinality({other \in keys : other <= k})]), t.size)

----------------------------------------------------------------------------

Init == tree = Hollow

Becomes(t) == tree' = Shape(t)
MayMeet == tree.size <= Meets

Insert ==
    /\ tree.size < Capacity
    /\ \E key \in Probes(tree), how \in {"insert", "insert_if_missing", "upsert"} :
         Becomes(InsertOne(tree, Entry(key, 1), how, {}).tree)
Extract == \E key \in Probes(tree) : Becomes(Extracted(tree, key))
EraseSpan ==
    \E first \in Stored(tree), last \in Stored(tree) \cup {0} :
        /\ last = 0 \/ first <= last
        /\ Becomes(ErasedSpan(tree, find(tree.root, first), find(tree.root, last)))
EraseRange == \E lower, upper \in Probes(tree) : lower <= upper /\ Becomes(EraseRangeOf(tree, lower, upper))
EraseIf == ErasesIf /\ \E dropped \in SUBSET Stored(tree) : Becomes(EraseIfOf(tree, dropped))
Split == \E key \in Probes(tree), half \in 1..2 : Becomes(SplitAt(tree, key)[half])
Copy == Becomes(Tree(copy_subtree(tree.root), tree.size))
JoinOther == tree.size + MaxGiven <= Capacity /\ \E other \in OthersAbove(tree) : Becomes(Join(tree, other))
MergeOther ==
    /\ MayMeet
    /\ \E other \in Others(tree) :
         \/ Becomes(Merge(tree, other))
         \/ Apart(tree, other) /\ Becomes(MergeUnique(tree, other))
GiveUnsorted ==
    /\ MayMeet
    /\ \E entries \in Unsorted(tree) : \E how \in Manners(tree, entries) :
         Becomes(GiveRange(tree, entries, how, FALSE, {}).tree)
GiveSorted ==
    /\ MayMeet
    /\ \E entries \in Sorted(tree) : \E how \in Manners(tree, entries) :
         Becomes(GiveRange(tree, entries, how, TRUE, {}).tree)

Next ==
    \/ Insert \/ Extract \/ EraseSpan \/ EraseRange \/ EraseIf \/ Split \/ Copy
    \/ JoinOther \/ MergeOther \/ GiveUnsorted \/ GiveSorted

Spec == Init /\ [][Next]_tree

----------------------------------------------------------------------------
(* Properties. *)

RECURSIVE TallAs(_)
TallAs(node) ==
    IF node = Null THEN 0
    ELSE LET l == TallAs(node.left)
             r == TallAs(node.right)
         IN  1 + IF l < r THEN r ELSE l

\* The keys ascend; sizes, heights and parents are those of the nodes.
BooksOf(t) ==
    LET nodes == LeftToRight(t.root)
    IN  /\ t.size = Len(nodes) /\ t.root = Top(t.root)
        /\ \A i \in 2..Len(nodes) : nodes[i - 1].key < nodes[i].key
        /\ \A node \in ToSet(nodes) :
             /\ node.height = TallAs(node)
             /\ \A child \in {node.left, node.right} \ {Null} : child.parent = node.key

\* After any calls, and after every erase_if they lead to, the links, heights and counts are exact: every
\* rotation, join and split decides by heights, and every walk goes by parents (basic_avl_tree.hpp:441-899).
AvlBooksExact == BooksOf(tree) /\ \A dropped \in SUBSET Stored(tree) : BooksOf(EraseIfOf(tree, dropped))

\* "AVL trees are self-balancing binary search trees where the height difference between left and right
\* subtrees is at most 1" (basic_avl_tree.hpp:82).
AvlBalanced == \A node \in ToSet(LeftToRight(tree.root)) : get_balance(node) \in -1..1

KeyOf(node) == IF node = Null THEN 0 ELSE node.key
Least(keys) == IF keys = {} THEN 0 ELSE CHOOSE k \in keys : \A other \in keys : k <= other

\* Lookups, bounds, ranges and walks either way answer what the set of keys does; the lowest common ancestor of
\* two keys is below every other node that has both in its subtree.
AvlLookupsAgree ==
    LET keys == KeysIn(tree.root)
        ascending == Ascending(keys)
    IN  /\ Walk(tree) = ascending /\ WalkBack(tree.root, find_max(tree.root)) = Reverse(ascending)
        /\ \A key \in Probes(tree) :
             /\ KeyOf(find(tree.root, key)) = Least({key} \cap keys)
             /\ KeyOf(lower_bound(tree.root, key)) = Least({k \in keys : k >= key})
             /\ KeyOf(upper_bound(tree.root, key)) = Least({k \in keys : k > key})
             /\ KeyOf(equal_range(tree.root, key)[2]) = IF key \in keys THEN Least({k \in keys : k > key}) ELSE 0
             /\ \A high \in Probes(tree) :
                  range(tree.root, key, high) = Ascending({k \in keys : key <= k /\ k < high})
        /\ \A a, b \in keys :
             LET lowest == lowest_common_ancestor(tree.root, a, b)
                 Covers(node) == {a, b} \subseteq KeysIn(node)
             IN  Covers(lowest) /\ ~Covers(lowest.left) /\ ~Covers(lowest.right)

\* What a call makes of the entries: of these, without some keys, with others in their place.
Without(keys) == {entry \in EntriesIn(tree.root) : entry.key \notin keys}
KeysGiven(entries) == {entry.key : entry \in entries}
Replaced(entries) == Without(KeysGiven(entries)) \cup entries
Added(entries) == EntriesIn(tree.root) \cup {entry \in entries : entry.key \notin KeysIn(tree.root)}
Holds(t, entries) == EntriesIn(t.root) = entries
Unmoved(t) == Holds(t, EntriesIn(tree.root))
SplitHolds(halves, below, above) == Holds(halves[1], below) /\ Holds(halves[2], above)

OneEntryRight ==
    \A key \in Probes(tree), memory \in BOOLEAN, how \in {"insert", "insert_if_missing", "upsert"} :
        LET entry == Entry(key, 1)
            one == InsertOne(tree, entry, how, IF memory THEN {} ELSE {entry})
        IN  IF how = "upsert" /\ key \in KeysIn(tree.root) THEN Holds(one.tree, Replaced({entry}))
            ELSE Holds(one.tree, IF memory THEN Added({entry}) ELSE EntriesIn(tree.root))

ErasuresRight ==
    /\ \A key \in Probes(tree) : Holds(Extracted(tree, key), Without({key}))
    /\ \A low, high \in Probes(tree) :
         low <= high => Holds(EraseRangeOf(tree, low, high), Without(low..(high - 1)))
    /\ \A low, high \in Stored(tree) :
         low <= high =>
            Holds(ErasedSpan(tree, find(tree.root, low), find(tree.root, high)), Without(low..(high - 1)))
    /\ \A dropped \in SUBSET Stored(tree) : Holds(EraseIfOf(tree, dropped), Without(dropped))
    /\ \A key \in Probes(tree) :
         SplitHolds(SplitAt(tree, key),
                    {entry \in EntriesIn(tree.root) : entry.key < key},
                    {entry \in EntriesIn(tree.root) : entry.key >= key})

MergesRight ==
    \A other \in Others(tree) :
        LET given == EntriesIn(other.root)
        IN  /\ Holds(Merge(tree, other), Added(given))
            /\ Holds(merge_with_upsert(tree, other), Replaced(given))
            /\ Apart(tree, other) => Holds(MergeUnique(tree, other), Added(given))

\* Of entries given twice the first stands, as the range is staged by insert_if_missing.
FirstOfEach(entries) ==
    {entries[i] : i \in {i \in DOMAIN entries : \A j \in 1..(i - 1) : entries[j].key # entries[i].key}}
RangeRight(done, given, how, refused) ==
    LET known == KeysGiven(given) \cap KeysIn(tree.root)
    IN  CASE refused \cap given # {} -> done.status = "out_of_memory" /\ Unmoved(done.tree)
          [] how = "insert_if_missing" /\ known # {} -> done.status = "key_already_exists" /\ Unmoved(done.tree)
          [] how = "update" /\ known # KeysGiven(given) -> done.status = "key_not_found" /\ Unmoved(done.tree)
          [] OTHER -> done.status = "success" /\ Holds(done.tree, Replaced(given))
RangesRight ==
    \A sorted \in BOOLEAN : \A entries \in IF sorted THEN Sorted(tree) ELSE Unsorted(tree) :
        \A how \in Manners(tree, entries), refused \in Refusals(entries) :
            RangeRight(GiveRange(tree, entries, how, sorted, refused), FirstOfEach(entries), how, refused)

\* Every call leaves the entries it should, and of a range all or none, whatever shape it meets and wherever its
\* allocations stop.
AvlCallsKeepEntries == OneEntryRight /\ ErasuresRight /\ (MayMeet => MergesRight /\ RangesRight)
=============================================================================
