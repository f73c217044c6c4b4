------------------------- MODULE SnapshotIsolation -------------------------
(***************************************************************************)
(* What a snapshot_store promises, with no version, stamp tag or pruning   *)
(* in sight: one committed state of the keyspace; a transaction works on   *)
(* a copy of it taken when it opened, and its commit is refused when a key *)
(* it wrote has been committed since.                                      *)
(*                                                                         *)
(* Every key carries the stamp of the commit that last wrote it.           *)
(***************************************************************************)
EXTENDS Naturals

CONSTANTS
    Keys, Transactions, Payloads,
    Absent  \* the payload of a key that is not there

VARIABLES
    latest,     \* the committed state: payload and date of every key
    commits,    \* stamps given so far
    snapshot,   \* for each open transaction, the commits it sees
    view,       \* for each open transaction, the state it opened on
    pending     \* for each open transaction, the keys it wrote and what

vars == <<latest, commits, snapshot, view, pending>>

Open == DOMAIN view

Nothing == [k \in Keys |-> [payload |-> Absent, since |-> 0]]

Writes == UNION {[ks -> Payloads] : ks \in SUBSET Keys}

\* The state after a group of writes committed under one stamp.
Committed(writes, stamp) ==
    [k \in Keys |-> IF k \in DOMAIN writes THEN [payload |-> writes[k], since |-> stamp]
                                           ELSE latest[k]]

\* One more transaction, or an open one starting over on the newest state.
At(f, t, v) == [u \in DOMAIN f \cup {t} |-> IF u = t THEN v ELSE f[u]]

----------------------------------------------------------------------------

Init ==
    /\ latest = Nothing /\ commits = 0
    /\ snapshot = <<>> /\ view = <<>> /\ pending = <<>>

Begin(t) ==
    /\ snapshot' = At(snapshot, t, commits)
    /\ view' = At(view, t, latest)
    /\ pending' = At(pending, t, <<>>)
    /\ UNCHANGED <<latest, commits>>

\* Writes are kept aside; what is already aside may only be overwritten.
Write(t) ==
    /\ \E writes \in Writes : /\ DOMAIN pending[t] \subseteq DOMAIN writes
                              /\ pending' = [pending EXCEPT ![t] = writes]
    /\ UNCHANGED <<latest, commits, snapshot, view>>

\* First committer wins, all writes at once, and the writer reads on from there.
Commit(t) ==
    /\ \A k \in DOMAIN pending[t] : latest[k].since <= snapshot[t]
    /\ commits' = commits + 1
    /\ latest' = Committed(pending[t], commits')
    /\ snapshot' = [snapshot EXCEPT ![t] = commits']
    /\ view' = [view EXCEPT ![t] = latest']
    /\ pending' = [pending EXCEPT ![t] = <<>>]

End(t) ==
    /\ snapshot' = [u \in Open \ {t} |-> snapshot[u]]
    /\ view' = [u \in Open \ {t} |-> view[u]]
    /\ pending' = [u \in Open \ {t} |-> pending[u]]
    /\ UNCHANGED <<latest, commits>>

\* A write outside any transaction, of one key or of a group.
Publish(writes) ==
    /\ commits' = commits + 1
    /\ latest' = Committed(writes, commits')
    /\ UNCHANGED <<snapshot, view, pending>>

\* Emptying the store, allowed only while nobody reads.
Clear ==
    /\ Open = {}
    /\ latest' = Nothing
    /\ UNCHANGED <<commits, snapshot, view, pending>>

Next ==
    \/ \E t \in Transactions : Begin(t)
    \/ \E t \in Open : Write(t) \/ Commit(t) \/ End(t)
    \/ \E writes \in Writes : Publish(writes)
    \/ Clear

Spec == Init /\ [][Next]_vars

=============================================================================
