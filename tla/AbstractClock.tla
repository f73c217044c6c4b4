--------------------------- MODULE AbstractClock ---------------------------
(***************************************************************************)
(* What snapshot_clock_t promises the stores that share it, without its    *)
(* lists: a set of commits that are still being written, a set of open     *)
(* snapshots, and two numbers that are functions of them.  The watermark   *)
(* is the greatest stamp with no unfinished commit at or below it; the     *)
(* mark is the oldest open snapshot, or the watermark when none is open.   *)
(***************************************************************************)
EXTENDS Naturals

CONSTANT Leases

VARIABLES
    drawn,      \* the newest stamp handed to a commit
    writing,    \* the stamps of commits that have not landed
    open,       \* the open snapshots, a function on the leases that hold one
    published,  \* the snapshot a reader arriving now is given
    mark        \* what may be reclaimed to

vars == <<drawn, writing, open, published, mark>>

\* p is the greatest number up to d with no member of w at or below it.
IsWatermark(p, w, d) ==
    /\ p \in 0..d
    /\ \A s \in w : p < s
    /\ p = d \/ p + 1 \in w

\* m is the least snapshot of o, or p when o is empty.
IsMark(m, o, p) ==
    IF DOMAIN o = {} THEN m = p
    ELSE /\ \E l \in DOMAIN o : o[l] = m
         /\ \A l \in DOMAIN o : m <= o[l]

Init ==
    /\ drawn = 0 /\ published = 0 /\ mark = 0
    /\ writing = {} /\ open = [l \in {} |-> 0]

Reopen(o) ==
    /\ open' = o
    /\ IsMark(mark', o, published)
    /\ UNCHANGED <<drawn, writing, published>>

Open(l) == Reopen([k \in DOMAIN open \cup {l} |-> IF k = l THEN published ELSE open[k]])

Close(l) ==
    /\ l \in DOMAIN open
    /\ Reopen([k \in DOMAIN open \ {l} |-> open[k]])

Move(l, target) ==
    /\ l \in DOMAIN open /\ target \notin DOMAIN open
    /\ Reopen([k \in (DOMAIN open \ {l}) \cup {target} |->
                  IF k = target THEN open[l] ELSE open[k]])

Draw ==
    /\ drawn' = drawn + 1
    /\ writing' = writing \cup {drawn'}
    /\ UNCHANGED <<open, published, mark>>

Land(s) ==
    /\ s \in writing
    /\ writing' = writing \ {s}
    /\ IsWatermark(published', writing', drawn)
    /\ IsMark(mark', open, published')
    /\ UNCHANGED <<drawn, open>>

Next ==
    \/ \E l \in Leases : Open(l) \/ Close(l)
    \/ \E l, target \in Leases : Move(l, target)
    \/ Draw
    \/ \E s \in writing : Land(s)

Spec == Init /\ [][Next]_vars

=============================================================================
