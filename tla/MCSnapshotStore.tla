-------------------------- MODULE MCSnapshotStore --------------------------
(* Instances of SnapshotStore for TLC. *)
EXTENDS SnapshotStore, TLC

CONSTANTS t1, t2, p1, v1, v2

MCPair == {t1, t2}
MCOne == {t1}
MCPublication == {p1}
MCNone == {}
MCValue == {v1}
MCValues == {v1, v2}

\* A generation is compared for equality and for nothing else, so what tells two
\* states apart is who carries the generation of a version, not the number.
CarriersOf(g) ==
    {t \in open : generation[t] = g} \cup {p \in Publications : filed[p] # {} /\ filedAs[p] = g}

MCView ==
    <<{<<d[1], CarriersOf(d[2]), entries[d]>> : d \in DOMAIN entries},
      publishedStamp, liveCount, latest, accessVars, staging, changes, changed, leaseVars, filed>>

\* Where only refusals and answers are asked about: a key read and a key inside a
\* window refuse alike, and so do the two ways of naming no key; the counts are
\* another run's.
Refusing(t) == IF readSet[t] = "names_every_key" THEN reads[t] \cup windows[t] ELSE Keys \cup {0}

MCReadView ==
    <<{<<d[1], CarriersOf(d[2]), entries[d].committed, entries[d].payload>> : d \in DOMAIN entries},
      publishedStamp, latest, [t \in Transactions |-> Refusing(t)], answers,
      staging, changes, changed, leaseVars, filed>>

Symmetry == Permutations(Transactions) \cup Permutations(Values)

=============================================================================
