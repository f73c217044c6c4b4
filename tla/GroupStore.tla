----------------------------- MODULE GroupStore -----------------------------
(***************************************************************************)
(* What monotonic_store and reference_store promise of their contents, with *)
(* no version, generation or chain in sight: one value per key; a           *)
(* transaction keeps its writes aside until a commit lays all of them over  *)
(* the contents at once, or a reset or its end forgets them; and one payload *)
(* may be written over some keys outside any transaction. Neither store      *)
(* checks writes against each other: the last commit wins. Which call of an *)
(* engine takes which of these steps, and which take none, is CallsRefine   *)
(* of that engine.                                                          *)
(***************************************************************************)
CONSTANTS
    Keys, Transactions, Payloads,
    Absent  \* the payload of a key that is not there

VARIABLES
    contents,   \* the payload of every key
    pending     \* for each open transaction, the keys it wrote and what

vars == <<contents, pending>>

Open == DOMAIN pending

\* What `writes` holds once `payload` is written to the keys ks as well.
Also(writes, ks, payload) ==
    [k \in DOMAIN writes \cup ks |-> IF k \in ks THEN payload ELSE writes[k]]

Overlaid(f, writes) == [k \in Keys |-> IF k \in DOMAIN writes THEN writes[k] ELSE f[k]]

Init == contents = [k \in Keys |-> Absent] /\ pending = <<>>

Begin(t) ==
    /\ t \notin Open
    /\ pending' = [u \in Open \cup {t} |-> IF u = t THEN <<>> ELSE pending[u]]
    /\ UNCHANGED contents

Write(t, ks, payload) ==
    /\ pending' = [pending EXCEPT ![t] = Also(pending[t], ks, payload)]
    /\ UNCHANGED contents

Reset(t) ==
    /\ pending' = [pending EXCEPT ![t] = <<>>]
    /\ UNCHANGED contents

Commit(t) ==
    /\ contents' = Overlaid(contents, pending[t])
    /\ pending' = [pending EXCEPT ![t] = <<>>]

End(t) ==
    /\ pending' = [u \in Open \ {t} |-> pending[u]]
    /\ UNCHANGED contents

\* Outside any transaction: one key, a group of them, or a window.
WriteDirectly(ks, payload) ==
    /\ contents' = [k \in Keys |-> IF k \in ks THEN payload ELSE contents[k]]
    /\ UNCHANGED pending

Next ==
    \/ \E t \in Transactions : Begin(t)
    \/ \E t \in Open : Reset(t) \/ Commit(t) \/ End(t)
    \/ \E t \in Open, ks \in SUBSET Keys, p \in Payloads \cup {Absent} : Write(t, ks, p)
    \/ \E ks \in SUBSET Keys, p \in Payloads \cup {Absent} : WriteDirectly(ks, p)

Spec == Init /\ [][Next]_vars

=============================================================================
