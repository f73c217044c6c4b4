----------------------- MODULE MonotonicStoreProofs -----------------------
(***************************************************************************)
(* What MonotonicStore keeps true, for every number of keys, transactions  *)
(* and watches: the counts are those of the index, a watch drifts exactly  *)
(* when its key was published over, a commit rests on no such watch, what  *)
(* is staged is what staged transactions listed, and the contents change   *)
(* by whole commits and direct writes only.                                *)
(***************************************************************************)
EXTENDS MonotonicStore, FiniteSetTheorems, WellFoundedInduction, TLAPS

----------------------------------------------------------------------------
(* The inductive invariant.                                                *)

Writings == UNION {[ks -> Payloads \cup {Absent}] : ks \in SUBSET Keys}
Taken == [key : Keys, gen : Nat, here : BOOLEAN, moved : BOOLEAN]
Frames ==
    [generation : Nat \ {0}, staged : BOOLEAN, changes : Writings, listed : SUBSET Keys,
     watches : SUBSET Taken, committed : BOOLEAN]

Hidden(chain) == chain \ VisibleIn(chain)

\* A generation names one version of a key, and at most one version is visible.
SoundChain(chain) ==
    /\ chain \subseteq Versions
    /\ IsFiniteSet(chain)
    /\ \A v, w \in chain : v.gen = w.gen \/ (v.visible /\ w.visible) => v = w

ChainsSound ==
    /\ chains \in [Keys -> SUBSET Versions]
    /\ \A k \in Keys : SoundChain(chains[k])

SoundFrame(u) ==
    /\ u \in Frames
    /\ IsFiniteSet(u.watches)
    /\ DOMAIN u.changes \subseteq u.listed
    /\ u.staged => u.changes = <<>>
    /\ u.committed => u.listed = {}

FramesSound ==
    /\ IsFiniteSet(Open) /\ Open \subseteq Transactions
    /\ txns \in [Open -> Frames]
    /\ \A t \in Open : SoundFrame(txns[t])

GensApart == \A t, u \in Open : txns[t].generation = txns[u].generation => t = u

\* A hidden version is that of a staged transaction which listed its key.
Owns(u, k, v) == u.staged /\ k \in u.listed /\ v.gen = u.generation

StagedOwned ==
    \A k \in Keys : \A v \in Hidden(chains[k]) : \E t \in Open : Owns(txns[t], k, v)

\* The generation of a transaction that has not committed is on no published
\* version, and nobody watches it.
Unpublished ==
    \A t \in Open : ~txns[t].committed =>
        /\ \A k \in Keys : \A v \in VisibleIn(chains[k]) : v.gen # txns[t].generation
        /\ \A u \in Open : \A w \in txns[u].watches : w.gen # txns[t].generation

\* What a watch remembers is what is published, until its key is published over.
Dated(w, published) ==
    IF w.moved THEN \A v \in published : v.gen # w.gen
    ELSE /\ published = {} => ~w.here
         /\ \A v \in published : v.gen = w.gen /\ (w.here <=> v.payload # Absent)

WatchesDated == \A t \in Open : \A w \in txns[t].watches : Dated(w, VisibleIn(chains[w.key]))

MonotonicBooks ==
    /\ ChainsSound /\ FramesSound /\ GensApart /\ StagedOwned
    /\ Unpublished /\ WatchesDated /\ CountsExact

----------------------------------------------------------------------------
(* Keys, versions, frames and watches.                                     *)

\* There are finitely many keys, and the payload of an absent one is nobody's.
LEMMA KeysAre ==
    /\ IsFiniteSet(Keys) /\ Keys \subseteq Nat \ {0}
    /\ KeyCount \in Nat \ {0} /\ Bounds \subseteq Nat \ {0} /\ Keys \subseteq Bounds
    /\ Absent \notin Payloads /\ Direct \in Payloads /\ KeyOnly \in Payloads
    /\ Direct # KeyOnly /\ KeyOnly \notin Transactions /\ Transactions \subseteq Payloads
<1>1. KeyCount \in Nat \ {0} /\ KeyCount \in Int /\ 1 \in Int
  BY MonotonicAssumption DEF MonotonicAssumption
<1>2. IsFiniteSet(Keys)
  BY <1>1, FS_Interval DEF Keys
<1>3. Keys \subseteq Nat \ {0} /\ Bounds \subseteq Nat \ {0} /\ Keys \subseteq Bounds
  BY <1>1 DEF Keys, Bounds
<1>4. QED
  BY <1>1, <1>2, <1>3, MonotonicAssumption DEF MonotonicAssumption, Payloads

\* The fields of a version.
LEMMA VersionFields ==
    ASSUME NEW v \in Versions
    PROVE  /\ v.gen \in Nat \ {0} /\ v.payload \in Payloads \cup {Absent} /\ v.visible \in BOOLEAN
           /\ v = [gen |-> v.gen, payload |-> v.payload, visible |-> v.visible]
BY DEF Versions

\* What Visible and Staged build.
LEMMA VersionMade ==
    ASSUME NEW g, NEW p
    PROVE  /\ Visible(g, p).gen = g /\ Visible(g, p).payload = p /\ Visible(g, p).visible
           /\ Staged(g, p).gen = g /\ Staged(g, p).payload = p /\ ~Staged(g, p).visible
           /\ g \in Nat \ {0} /\ p \in Payloads \cup {Absent} =>
                Visible(g, p) \in Versions /\ Staged(g, p) \in Versions
BY DEF Visible, Staged, Versions

\* A version is what one of the two builds of its generation and payload.
LEMMA VersionRemade ==
    ASSUME NEW v \in Versions
    PROVE  /\ v.visible => v = Visible(v.gen, v.payload)
           /\ ~v.visible => v = Staged(v.gen, v.payload)
<1>1. v.visible \in BOOLEAN /\ v = [gen |-> v.gen, payload |-> v.payload, visible |-> v.visible]
  BY VersionFields
<1>2. CASE v.visible = TRUE
  BY <1>1, <1>2 DEF Visible
<1>3. CASE v.visible = FALSE
  BY <1>1, <1>3 DEF Staged
<1>4. QED
  BY <1>1, <1>2, <1>3

\* The fields of a transaction's frame.
LEMMA FrameFields ==
    ASSUME NEW u \in Frames
    PROVE  /\ u.generation \in Nat \ {0} /\ u.staged \in BOOLEAN /\ u.changes \in Writings
           /\ u.listed \subseteq Keys /\ u.watches \subseteq Taken /\ u.committed \in BOOLEAN
BY DEF Frames

\* The fields of a watch.
LEMMA WatchFields ==
    ASSUME NEW w \in Taken
    PROVE  w.key \in Keys /\ w.gen \in Nat /\ w.here \in BOOLEAN /\ w.moved \in BOOLEAN
BY DEF Taken

\* A function of some keys to payloads is a set of writes.
LEMMA WritingIs ==
    ASSUME NEW c
    PROVE  c \in Writings <=> DOMAIN c \subseteq Keys /\ c \in [DOMAIN c -> Payloads \cup {Absent}]
BY DEF Writings

\* Nothing written is a set of writes.
LEMMA NothingWritten == <<>> \in Writings /\ DOMAIN <<>> = {}
<1>1. DOMAIN <<>> = {}
  OBVIOUS
<1>2. <<>> \in [{} -> Payloads \cup {Absent}]
  OBVIOUS
<1>3. QED
  BY <1>1, <1>2, WritingIs

\* Publishing over some keys marks the watches of those keys as moved.
LEMMA DisturbedFields ==
    ASSUME NEW u \in Frames, NEW ks
    PROVE  /\ Disturbed(u, ks) \in Frames
           /\ Disturbed(u, ks).generation = u.generation /\ Disturbed(u, ks).staged = u.staged
           /\ Disturbed(u, ks).changes = u.changes /\ Disturbed(u, ks).listed = u.listed
           /\ Disturbed(u, ks).committed = u.committed
           /\ Disturbed(u, ks).watches = {[w EXCEPT !.moved = w.moved \/ w.key \in ks] : w \in u.watches}
<1> DEFINE W == {[w EXCEPT !.moved = w.moved \/ w.key \in ks] : w \in u.watches}
<1>1. \A w \in u.watches : [w EXCEPT !.moved = w.moved \/ w.key \in ks] \in Taken
  BY DEF Frames, Taken
<1>2. W \subseteq Taken
  BY <1>1
<1>3. Disturbed(u, ks) = [u EXCEPT !.watches = W]
  BY DEF Disturbed
<1> HIDE DEF W
<1>4. [u EXCEPT !.watches = W] \in Frames
  BY <1>2 DEF Frames
<1>5. QED
  BY <1>3, <1>4 DEF Frames, W

\* A watch a publication passed over is one from before, moved if its key was published.
LEMMA DisturbedWatch ==
    ASSUME NEW u \in Frames, NEW ks, NEW w \in Disturbed(u, ks).watches
    PROVE  /\ w \in Taken
           /\ \E old \in u.watches : /\ w.key = old.key /\ w.gen = old.gen /\ w.here = old.here
                                     /\ w.moved <=> old.moved \/ old.key \in ks
<1>1. PICK old \in u.watches : w = [old EXCEPT !.moved = old.moved \/ old.key \in ks]
  BY DisturbedFields
<1>2. old \in Taken /\ w \in Taken
  BY DisturbedFields, FrameFields
<1>3. /\ w.key = old.key /\ w.gen = old.gen /\ w.here = old.here
      /\ w.moved <=> old.moved \/ old.key \in ks
  BY <1>1, <1>2 DEF Taken
<1>4. QED
  BY <1>2, <1>3

----------------------------------------------------------------------------
(* Finite sets, and a generation that nothing remembers.                   *)

\* The values a function takes on a finite set are finitely many.
LEMMA FiniteImage ==
    ASSUME NEW S, IsFiniteSet(S), NEW f, DOMAIN f = S
    PROVE  IsFiniteSet({f[x] : x \in S})
<1> DEFINE T == {f[x] : x \in S}
           g == [x \in S |-> f[x]]
<1>1. g \in Surjection(S, T)
  BY DEF Surjection
<1>2. QED
  BY <1>1, FS_Surjection

\* A finite set of naturals misses one of the first few.
LEMMA FreshIs ==
    ASSUME MonotonicBooks
    PROVE  FreshGeneration \in Nat \ {0} /\ FreshGeneration \notin Remembered
<1> DEFINE OfChain(k) == {v.gen : v \in chains[k]}
           Chains == {OfChain(k) : k \in Keys}
           Owned == {txns[t].generation : t \in Open}
           OfWatches(t) == {w.gen : w \in txns[t].watches}
           Watched == {OfWatches(t) : t \in Open}
           g == FreshGeneration
<1>1. \A k \in Keys : IsFiniteSet(OfChain(k))
  <2> TAKE k \in Keys
  <2> DEFINE f == [v \in chains[k] |-> v.gen]
  <2>1. IsFiniteSet(chains[k]) /\ DOMAIN f = chains[k]
    BY DEF MonotonicBooks, ChainsSound, SoundChain
  <2> HIDE DEF f
  <2>2. IsFiniteSet({f[v] : v \in chains[k]})
    BY <2>1, FiniteImage
  <2>3. {f[v] : v \in chains[k]} = OfChain(k)
    BY DEF f
  <2>4. QED
    BY <2>2, <2>3
<1>2. IsFiniteSet(UNION Chains)
  <2> DEFINE f == [k \in Keys |-> OfChain(k)]
  <2>1. IsFiniteSet({f[k] : k \in Keys})
    BY FiniteImage, KeysAre
  <2>2. {f[k] : k \in Keys} = Chains
    OBVIOUS
  <2> HIDE DEF OfChain
  <2>3. \A T \in Chains : IsFiniteSet(T)
    BY <1>1
  <2> HIDE DEF Chains
  <2>4. QED
    BY <2>1, <2>2, <2>3, FS_UNION
<1>3. IsFiniteSet(Owned)
  <2> DEFINE f == [t \in Open |-> txns[t].generation]
  <2>1. IsFiniteSet({f[t] : t \in Open})
    BY FiniteImage DEF MonotonicBooks, FramesSound
  <2>2. {f[t] : t \in Open} = Owned
    OBVIOUS
  <2>3. QED
    BY <2>1, <2>2
<1>4. \A t \in Open : IsFiniteSet(OfWatches(t))
  <2> TAKE t \in Open
  <2> DEFINE f == [w \in txns[t].watches |-> w.gen]
  <2>1. IsFiniteSet(txns[t].watches) /\ DOMAIN f = txns[t].watches
    BY DEF MonotonicBooks, FramesSound, SoundFrame
  <2> HIDE DEF f
  <2>2. IsFiniteSet({f[w] : w \in txns[t].watches})
    BY <2>1, FiniteImage
  <2>3. {f[w] : w \in txns[t].watches} = OfWatches(t)
    BY DEF f
  <2>4. QED
    BY <2>2, <2>3
<1>5. IsFiniteSet(UNION Watched)
  <2> DEFINE f == [t \in Open |-> OfWatches(t)]
  <2>1. IsFiniteSet({f[t] : t \in Open})
    BY FiniteImage DEF MonotonicBooks, FramesSound
  <2>2. {f[t] : t \in Open} = Watched
    OBVIOUS
  <2> HIDE DEF OfWatches
  <2>3. \A T \in Watched : IsFiniteSet(T)
    BY <1>4
  <2> HIDE DEF Watched
  <2>4. QED
    BY <2>1, <2>2, <2>3, FS_UNION
<1>6. Remembered = (UNION Chains) \cup Owned \cup (UNION Watched)
  BY DEF Remembered
<1> HIDE DEF Chains, Owned, Watched
<1>7. IsFiniteSet(Remembered)
  BY <1>2, <1>3, <1>5, <1>6, FS_Union
<1> DEFINE n == Cardinality(Remembered)
<1>8. n \in Nat
  BY <1>7, FS_CardinalityType
<1>9. IsFiniteSet(1 .. n + 1) /\ Cardinality(1 .. n + 1) = n + 1
  <2> HIDE DEF n
  <2>1. 1 \in Int /\ n + 1 \in Int /\ ~(1 > n + 1) /\ n + 1 - 1 + 1 = n + 1
    BY <1>8
  <2>2. QED
    BY <2>1, FS_Interval
<1>10. ~(1 .. n + 1 \subseteq Remembered)
  <2>1. SUFFICES ASSUME 1 .. n + 1 \subseteq Remembered PROVE FALSE
    OBVIOUS
  <2>2. Cardinality(1 .. n + 1) <= n
    BY <2>1, <1>7, FS_Subset
  <2>3. QED
    BY <2>2, <1>8, <1>9
<1>11. \E x \in 1 .. n + 1 : x \notin Remembered
  BY <1>10
<1>12. g \in 1 .. n + 1 /\ g \notin Remembered
  BY <1>11, Zenon DEF FreshGeneration
<1>13. QED
  BY <1>8, <1>12

\* What Remembered holds.
LEMMA RememberedHas ==
    /\ \A k \in Keys : \A v \in chains[k] : v.gen \in Remembered
    /\ \A t \in Open : txns[t].generation \in Remembered
    /\ \A t \in Open : \A w \in txns[t].watches : w.gen \in Remembered
BY DEF Remembered

----------------------------------------------------------------------------
(* Chains and what they publish.                                           *)

\* A sound chain publishes one version or none.
LEMMA OneVisible ==
    ASSUME NEW chain, SoundChain(chain)
    PROVE  /\ VisibleIn(chain) = {} \/ \E v \in chain : v.visible /\ VisibleIn(chain) = {v}
           /\ IsFiniteSet(VisibleIn(chain)) /\ Cardinality(VisibleIn(chain)) <= 1
<1>1. VisibleIn(chain) = {} \/ \E v \in chain : v.visible /\ VisibleIn(chain) = {v}
  BY DEF SoundChain, VisibleIn
<1>2. CASE VisibleIn(chain) = {}
  BY <1>1, <1>2, FS_EmptySet
<1>3. CASE \E v \in chain : VisibleIn(chain) = {v}
  <2>1. PICK v : VisibleIn(chain) = {v}
    BY <1>3
  <2>2. IsFiniteSet({v}) /\ Cardinality({v}) = 1
    BY FS_Singleton
  <2>3. QED
    BY <1>1, <2>1, <2>2
<1>4. QED
  BY <1>1, <1>2, <1>3

\* What a key shows a watch, and what it shows a reader.
LEMMA ShapeIs ==
    ASSUME NEW k \in Keys, SoundChain(chains[k])
    PROVE  /\ VisibleIn(chains[k]) = {} => ShapeOf(k) = Missing /\ Readable(k) = {} /\ Contents(k) = Absent
           /\ \A v \in VisibleIn(chains[k]) :
                /\ ShapeOf(k) = [gen |-> v.gen, here |-> v.payload # Absent]
                /\ v.payload # Absent <=> Readable(k) # {}
                /\ v.payload = Contents(k)
<1>1. CASE VisibleIn(chains[k]) = {}
  BY <1>1 DEF ShapeOf, Readable, Contents
<1>2. ASSUME NEW v \in VisibleIn(chains[k])
      PROVE  /\ ShapeOf(k) = [gen |-> v.gen, here |-> v.payload # Absent]
             /\ v.payload # Absent <=> Readable(k) # {}
             /\ v.payload = Contents(k)
  <2>1. VisibleIn(chains[k]) = {v}
    BY <1>2, OneVisible
  <2>2. (CHOOSE x \in VisibleIn(chains[k]) : TRUE) = v
    BY <2>1
  <2>3. ShapeOf(k) = [gen |-> v.gen, here |-> v.payload # Absent]
    BY <2>1, <2>2 DEF ShapeOf
  <2>4. Readable(k) = IF v.payload # Absent THEN {v} ELSE {}
    BY <2>1 DEF Readable
  <2>5. v.payload = Contents(k)
    BY <2>4 DEF Contents
  <2>6. QED
    BY <2>3, <2>4, <2>5
<1>3. QED
  BY <1>1, <1>2

\* The published versions as pairs with their keys.
LEMMA PairsAre ==
    ASSUME NEW ks
    PROVE  /\ \A p \in VisibleOf(ks) : p = <<p[1], p[2]>> /\ p[1] \in ks /\ p[2] \in VisibleIn(chains[p[1]])
           /\ \A k \in ks : \A v \in VisibleIn(chains[k]) : <<k, v>> \in VisibleOf(ks)
           /\ \A p \in VisibleOf(ks) : p[2] \in chains[p[1]] /\ p[2].visible
BY DEF VisibleOf, VisibleIn

----------------------------------------------------------------------------
(* Steps that publish nothing.                                             *)

\* What watching a key takes down.
WatchOf(k) == [key |-> k, gen |-> ShapeOf(k).gen, here |-> ShapeOf(k).here, moved |-> FALSE]

\* No step of this kind changes what is published; it touches the frame of one
\* transaction, which keeps its generation or gets one nothing remembers.
Quiet(t) ==
    /\ \A k \in Keys : VisibleIn(chains'[k]) = VisibleIn(chains[k])
    /\ UNCHANGED <<visibleCount, deletedCount>>
    /\ \A u \in DOMAIN txns' : u # t => u \in Open /\ txns'[u] = txns[u]
    /\ t \in DOMAIN txns' =>
         /\ \/ /\ t \in Open /\ txns'[t].generation = txns[t].generation
               /\ txns'[t].committed = txns[t].committed
            \/ txns'[t].generation \notin Remembered
         /\ \A w \in txns'[t].watches :
              \/ t \in Open /\ w \in txns[t].watches
              \/ \E k \in Keys : w = WatchOf(k)

\* A watch taken now is dated, and its generation is no uncommitted transaction's.
LEMMA WatchTaken ==
    ASSUME MonotonicBooks, NEW k \in Keys
    PROVE  /\ WatchOf(k) \in Taken /\ WatchOf(k).key = k /\ ~WatchOf(k).moved
           /\ Dated(WatchOf(k), VisibleIn(chains[k]))
           /\ WatchOf(k).gen = 0 \/ \E v \in VisibleIn(chains[k]) : WatchOf(k).gen = v.gen
<1>1. SoundChain(chains[k]) /\ chains[k] \subseteq Versions
  BY DEF MonotonicBooks, ChainsSound, SoundChain
<1>2. CASE VisibleIn(chains[k]) = {}
  <2>1. ShapeOf(k) = Missing
    BY <1>1, <1>2, ShapeIs
  <2>2. ShapeOf(k).gen = 0 /\ ShapeOf(k).here = FALSE
    BY <2>1 DEF Missing
  <2>3. WatchOf(k).gen = 0 /\ WatchOf(k).here = FALSE /\ WatchOf(k).key = k /\ WatchOf(k).moved = FALSE
    BY <2>2 DEF WatchOf
  <2>4. WatchOf(k) \in Taken
    <3>1. 0 \in Nat /\ FALSE \in BOOLEAN
      OBVIOUS
    <3>2. ShapeOf(k).gen \in Nat /\ ShapeOf(k).here \in BOOLEAN
      BY <2>2, <3>1, Zenon
    <3>3. QED
      BY <3>1, <3>2, Zenon DEF WatchOf, Taken
  <2>5. QED
    BY <1>2, <2>3, <2>4 DEF Dated
<1>3. ASSUME NEW v \in VisibleIn(chains[k])
      PROVE  /\ WatchOf(k) \in Taken /\ WatchOf(k).key = k /\ ~WatchOf(k).moved
             /\ Dated(WatchOf(k), VisibleIn(chains[k]))
             /\ WatchOf(k).gen = v.gen
  <2>1. VisibleIn(chains[k]) = {v} /\ v \in Versions
    BY <1>1, <1>3, OneVisible
  <2>2. ShapeOf(k) = [gen |-> v.gen, here |-> v.payload # Absent] /\ v.gen \in Nat
    BY <1>1, <1>3, <2>1, ShapeIs, VersionFields
  <2>3. ShapeOf(k).gen = v.gen /\ ShapeOf(k).here = (v.payload # Absent)
    BY <2>2
  <2>4. WatchOf(k).gen = v.gen /\ WatchOf(k).here = (v.payload # Absent)
        /\ WatchOf(k).key = k /\ WatchOf(k).moved = FALSE
    BY <2>3 DEF WatchOf
  <2>5. WatchOf(k) \in Taken
    BY <2>2, <2>3 DEF WatchOf, Taken
  <2>6. QED
    BY <2>1, <2>4, <2>5 DEF Dated
<1>4. QED
  BY <1>2, <1>3

\* The published pairs are those of the published versions.
LEMMA SamePairs ==
    ASSUME \A k \in Keys : VisibleIn(chains'[k]) = VisibleIn(chains[k])
    PROVE  VisibleOf(Keys)' = VisibleOf(Keys)
<1>1. \A p : p \in VisibleOf(Keys)' <=> \E k \in Keys : \E v \in VisibleIn(chains'[k]) : p = <<k, v>>
  BY DEF VisibleOf, VisibleIn
<1>2. \A p : p \in VisibleOf(Keys) <=> \E k \in Keys : \E v \in VisibleIn(chains[k]) : p = <<k, v>>
  BY DEF VisibleOf, VisibleIn
<1>3. QED
  BY <1>1, <1>2

\* A quiet step keeps the books, given what it does to chains and frames.
LEMMA QuietStep ==
    ASSUME MonotonicBooks, NEW t, Quiet(t), ChainsSound', FramesSound', StagedOwned'
    PROVE  MonotonicBooks'
<1>1. CountsExact'
  <2>1. VisibleOf(Keys)' = VisibleOf(Keys)
    BY SamePairs DEF Quiet
  <2>2. QED
    BY <2>1 DEF CountsExact, Quiet, MonotonicBooks, Tombstones
<1>2. \A u \in Open' : txns'[u].generation \in Nat \ {0}
  BY FrameFields DEF FramesSound, SoundFrame
<1>3. \A u \in Open' : \/ /\ u \in Open /\ txns'[u].generation = txns[u].generation
                          /\ txns'[u].committed = txns[u].committed
                       \/ u = t /\ txns'[u].generation \notin Remembered
  BY DEF Quiet, Open
<1>4. \A u \in Open' : \A w \in txns'[u].watches :
        \/ u \in Open /\ w \in txns[u].watches
        \/ \E k \in Keys : w = WatchOf(k)
  BY DEF Quiet, Open
<1>5. GensApart'
  <2>1. \A u \in Open : txns[u].generation \in Remembered
    BY RememberedHas
  <2>2. \A u, x \in Open : txns[u].generation = txns[x].generation => u = x
    BY DEF MonotonicBooks, GensApart
  <2>3. \A u, x \in Open' : txns'[u].generation = txns'[x].generation => u = x
    BY <1>3, <2>1, <2>2
  <2>4. QED
    BY <2>3 DEF GensApart
<1>6. Unpublished'
  <2>1. \A k \in Keys : \A v \in VisibleIn(chains[k]) : v.gen \in Remembered
    BY RememberedHas DEF VisibleIn
  <2>2. \A u \in Open : \A w \in txns[u].watches : w.gen \in Remembered
    BY RememberedHas
  <2>3. \A k \in Keys : WatchOf(k).gen = 0 \/ \E v \in VisibleIn(chains[k]) : WatchOf(k).gen = v.gen
    BY WatchTaken
  <2>4. ASSUME NEW u \in Open', ~txns'[u].committed
        PROVE  /\ \A k \in Keys : \A v \in VisibleIn(chains[k]) : v.gen # txns'[u].generation
               /\ \A x \in Open : \A w \in txns[x].watches : w.gen # txns'[u].generation
    <3>1. CASE u \in Open /\ txns'[u].generation = txns[u].generation /\ txns'[u].committed = txns[u].committed
      BY <2>4, <3>1 DEF MonotonicBooks, Unpublished
    <3>2. CASE txns'[u].generation \notin Remembered
      BY <3>2, <2>1, <2>2
    <3>3. QED
      BY <1>3, <3>1, <3>2
  <2>5. ASSUME NEW u \in Open', ~txns'[u].committed, NEW k \in Keys, NEW v \in VisibleIn(chains'[k])
        PROVE  v.gen # txns'[u].generation
    BY <2>4, <2>5 DEF Quiet
  <2>6. ASSUME NEW u \in Open', ~txns'[u].committed, NEW x \in Open', NEW w \in txns'[x].watches
        PROVE  w.gen # txns'[u].generation
    <3>1. CASE x \in Open /\ w \in txns[x].watches
      BY <2>4, <2>6, <3>1
    <3>2. CASE \E k \in Keys : w = WatchOf(k)
      BY <2>3, <2>4, <2>6, <3>2, <1>2
    <3>3. QED
      BY <1>4, <3>1, <3>2
  <2>7. QED
    BY <2>5, <2>6 DEF Unpublished
<1>7. WatchesDated'
  <2>1. ASSUME NEW u \in Open', NEW w \in txns'[u].watches
        PROVE  Dated(w, VisibleIn(chains'[w.key]))
    <3>1. CASE u \in Open /\ w \in txns[u].watches
      <4>1. w.key \in Keys
        BY <3>1, FrameFields, WatchFields DEF MonotonicBooks, FramesSound, SoundFrame
      <4>2. Dated(w, VisibleIn(chains[w.key]))
        BY <3>1 DEF MonotonicBooks, WatchesDated
      <4>3. VisibleIn(chains'[w.key]) = VisibleIn(chains[w.key])
        BY <4>1 DEF Quiet
      <4>4. QED
        BY <4>2, <4>3
    <3>2. ASSUME NEW k \in Keys, w = WatchOf(k)
          PROVE  Dated(w, VisibleIn(chains'[w.key]))
      <4>1. w.key = k /\ Dated(w, VisibleIn(chains[k]))
        BY <3>2, WatchTaken
      <4>2. VisibleIn(chains'[k]) = VisibleIn(chains[k])
        BY DEF Quiet
      <4>3. QED
        BY <4>1, <4>2
    <3>3. QED
      BY <1>4, <3>1, <3>2
  <2>2. QED
    BY <2>1 DEF WatchesDated
<1>8. QED
  BY <1>1, <1>5, <1>6, <1>7 DEF MonotonicBooks

----------------------------------------------------------------------------
(* Steps that publish or retire.                                           *)

\* A key that was published under g or retired; `moved` are the keys whose
\* watchers are told.
Republished(k, moved, g) ==
    /\ Hidden(chains'[k]) \subseteq Hidden(chains[k])
    /\ \A v \in Hidden(chains'[k]) : v.gen # g
    /\ \/ VisibleIn(chains'[k]) = {} /\ (k \in moved \/ Readable(k) = {})
       \/ k \in moved /\ \E p \in Payloads \cup {Absent} : VisibleIn(chains'[k]) = {Visible(g, p)}

Loud(ks, moved, g) ==
    /\ chains' \in [Keys -> SUBSET Versions]
    /\ ks \subseteq Keys /\ moved \subseteq ks
    /\ \A k \in Keys \ ks : chains'[k] = chains[k]
    /\ \A k \in ks : Republished(k, moved, g)
    /\ DOMAIN txns' = Open
    /\ \A u \in Open :
         /\ txns'[u].generation = txns[u].generation
         /\ txns'[u].watches = Disturbed(txns[u], moved).watches
         /\ ~txns'[u].committed => ~txns[u].committed /\ txns[u].generation # g
         /\ \A w \in txns[u].watches : w.gen # g
         /\ \A k \in Keys : \A v \in Hidden(chains'[k]) : Owns(txns[u], k, v) => Owns(txns'[u], k, v)

\* A chain is what it hides and what it publishes.
LEMMA ChainSplit ==
    ASSUME NEW chain
    PROVE  /\ chain = Hidden(chain) \cup VisibleIn(chain)
           /\ \A v \in Hidden(chain) : v \in chain /\ ~v.visible
           /\ \A v \in VisibleIn(chain) : v \in chain /\ v.visible
BY DEF Hidden, VisibleIn

\* Publishing over a sound chain, or retiring from it, leaves it sound.
LEMMA RepublishedSound ==
    ASSUME NEW k \in Keys, SoundChain(chains[k]), chains'[k] \subseteq Versions,
           NEW moved, NEW g, Republished(k, moved, g)
    PROVE  SoundChain(chains'[k])
<1> DEFINE old == chains[k]
           new == chains'[k]
<1>1. new = Hidden(new) \cup VisibleIn(new) /\ Hidden(new) \subseteq old
  BY ChainSplit DEF Republished
<1>2. IsFiniteSet(Hidden(new))
  BY <1>1, FS_Subset DEF SoundChain
<1>3. VisibleIn(new) = {} \/ \E p : VisibleIn(new) = {Visible(g, p)}
  BY DEF Republished
<1>4. \A v, w \in VisibleIn(new) : v = w /\ v.gen = g /\ v.visible
  BY <1>3, VersionMade
<1>5. IsFiniteSet(VisibleIn(new))
  BY <1>3, FS_EmptySet, FS_Singleton
<1>6. \A v \in Hidden(new) : v.gen # g /\ ~v.visible
  BY ChainSplit DEF Republished
<1>7. IsFiniteSet(new)
  BY <1>1, <1>2, <1>5, FS_Union
<1>8. ASSUME NEW v \in new, NEW w \in new, v.gen = w.gen \/ (v.visible /\ w.visible)
      PROVE  v = w
  <2>1. CASE v \in VisibleIn(new) /\ w \in VisibleIn(new)
    BY <2>1, <1>4
  <2>2. CASE v \in Hidden(new) /\ w \in Hidden(new)
    BY <2>2, <1>1, <1>6, <1>8 DEF SoundChain
  <2>3. CASE v \in VisibleIn(new) /\ w \in Hidden(new)
    BY <2>3, <1>4, <1>6, <1>8
  <2>4. CASE v \in Hidden(new) /\ w \in VisibleIn(new)
    BY <2>4, <1>4, <1>6, <1>8
  <2>5. QED
    BY <1>1, <2>1, <2>2, <2>3, <2>4
<1>9. QED
  BY <1>7, <1>8 DEF SoundChain

\* A loud step leaves every chain sound.
LEMMA LoudChains ==
    ASSUME MonotonicBooks, NEW ks, NEW moved, NEW g, Loud(ks, moved, g)
    PROVE  ChainsSound'
<1>1. ASSUME NEW k \in Keys PROVE SoundChain(chains'[k])
  <2>1. SoundChain(chains[k]) /\ chains'[k] \subseteq Versions
    BY DEF MonotonicBooks, ChainsSound, Loud
  <2>2. CASE k \in ks
    BY <2>1, <2>2, RepublishedSound DEF Loud
  <2>3. CASE k \notin ks
    BY <2>1, <2>3 DEF Loud
  <2>4. QED
    BY <2>2, <2>3
<1>2. QED
  BY <1>1 DEF ChainsSound, Loud

\* A loud step keeps the books, given that frames stay sound and counts exact.
LEMMA LoudStep ==
    ASSUME MonotonicBooks, NEW ks, NEW moved, NEW g, Loud(ks, moved, g), FramesSound', CountsExact'
    PROVE  MonotonicBooks'
<1>1. ChainsSound'
  BY LoudChains
<1>2. Open' = Open
  BY DEF Loud, Open
<1>3. GensApart'
  BY <1>2 DEF GensApart, MonotonicBooks, Loud
<1>4. \A k \in Keys : Hidden(chains'[k]) \subseteq Hidden(chains[k])
  BY DEF Loud, Republished
<1>5. StagedOwned'
  <2>1. ASSUME NEW k \in Keys, NEW v \in Hidden(chains'[k])
        PROVE  \E u \in Open : Owns(txns'[u], k, v)
    <3>1. PICK u \in Open : Owns(txns[u], k, v)
      BY <1>4 DEF MonotonicBooks, StagedOwned
    <3>2. QED
      BY <3>1 DEF Loud
  <2>2. QED
    BY <2>1, <1>2 DEF StagedOwned
<1>6. \A u \in Open : \A w \in txns'[u].watches : \E old \in txns[u].watches :
        /\ w.key = old.key /\ w.gen = old.gen /\ w.here = old.here /\ old \in Taken
        /\ w.moved <=> old.moved \/ old.key \in moved
  <2> TAKE u \in Open
  <2>1. txns[u] \in Frames
    BY DEF MonotonicBooks, FramesSound
  <2>2. txns'[u].watches = Disturbed(txns[u], moved).watches
    BY DEF Loud
  <2>3. txns[u].watches \subseteq Taken
    BY <2>1, FrameFields
  <2>4. QED
    BY <2>1, <2>2, <2>3, DisturbedWatch
<1>7. \A k \in Keys : \A v \in VisibleIn(chains'[k]) : v \in VisibleIn(chains[k]) \/ (k \in ks /\ v.gen = g)
  <2> TAKE k \in Keys
  <2>1. CASE k \notin ks
    BY <2>1 DEF Loud
  <2>2. CASE k \in ks
    BY <2>2, VersionMade DEF Loud, Republished
  <2>3. QED
    BY <2>1, <2>2
<1>8. Unpublished'
  <2>1. ASSUME NEW u \in Open, ~txns'[u].committed
        PROVE  /\ ~txns[u].committed /\ txns[u].generation # g
               /\ txns'[u].generation = txns[u].generation
    BY <2>1 DEF Loud
  <2>2. ASSUME NEW u \in Open, ~txns'[u].committed, NEW k \in Keys, NEW v \in VisibleIn(chains'[k])
        PROVE  v.gen # txns'[u].generation
    BY <2>1, <2>2, <1>7 DEF MonotonicBooks, Unpublished
  <2>3. ASSUME NEW u \in Open, ~txns'[u].committed, NEW x \in Open, NEW w \in txns'[x].watches
        PROVE  w.gen # txns'[u].generation
    <3>1. PICK old \in txns[x].watches : w.gen = old.gen
      BY <1>6
    <3>2. QED
      BY <2>1, <2>3, <3>1 DEF MonotonicBooks, Unpublished
  <2>4. QED
    BY <2>2, <2>3, <1>2 DEF Unpublished
<1>9. WatchesDated'
  <2>1. ASSUME NEW u \in Open, NEW w \in txns'[u].watches
        PROVE  Dated(w, VisibleIn(chains'[w.key]))
    <3>1. PICK old \in txns[u].watches :
            /\ w.key = old.key /\ w.gen = old.gen /\ w.here = old.here /\ old \in Taken
            /\ w.moved <=> old.moved \/ old.key \in moved
      BY <1>6
    <3> DEFINE k == old.key
    <3>2. k \in Keys
      BY <3>1, WatchFields
    <3>3. Dated(old, VisibleIn(chains[k])) /\ w.gen # g
      BY <3>1 DEF MonotonicBooks, WatchesDated, Loud
    <3>4. CASE k \notin ks
      <4>1. chains'[k] = chains[k] /\ k \notin moved
        BY <3>2, <3>4 DEF Loud
      <4>2. QED
        BY <3>1, <3>3, <4>1 DEF Dated
    <3>5. CASE k \in ks /\ VisibleIn(chains'[k]) = {} /\ (k \in moved \/ Readable(k) = {})
      <4>1. Readable(k) = {} /\ ~old.moved => ~old.here
        <5>1. SoundChain(chains[k])
          BY <3>2 DEF MonotonicBooks, ChainsSound
        <5>2. CASE VisibleIn(chains[k]) = {}
          BY <5>2, <3>3 DEF Dated
        <5>3. CASE VisibleIn(chains[k]) # {}
          BY <5>1, <5>3, <3>2, <3>3, ShapeIs DEF Dated
        <5>4. QED
          BY <5>2, <5>3
      <4>2. QED
        BY <3>1, <3>5, <4>1 DEF Dated
    <3>6. CASE k \in ks /\ k \in moved /\ \E p \in Payloads \cup {Absent} : VisibleIn(chains'[k]) = {Visible(g, p)}
      <4>1. \A v \in VisibleIn(chains'[k]) : v.gen = g
        BY <3>6, VersionMade
      <4>2. QED
        BY <3>1, <3>3, <3>6, <4>1 DEF Dated
    <3>7. k \in ks => Republished(k, moved, g)
      BY DEF Loud
    <3>8. QED
      BY <3>4, <3>5, <3>6, <3>7 DEF Republished
  <2>2. QED
    BY <2>1, <1>2 DEF WatchesDated
<1>10. QED
  BY <1>1, <1>3, <1>5, <1>8, <1>9 DEF MonotonicBooks

----------------------------------------------------------------------------
(* Counting what is published.                                             *)

\* Taking part of a finite set out and putting something new in.
LEMMA SwapCount ==
    ASSUME NEW V, IsFiniteSet(V), NEW gone, gone \subseteq V,
           NEW placed, IsFiniteSet(placed), placed \cap (V \ gone) = {}
    PROVE  /\ IsFiniteSet((V \ gone) \cup placed)
           /\ Cardinality((V \ gone) \cup placed) = Cardinality(V) + Cardinality(placed) - Cardinality(gone)
<1> DEFINE rest == V \ gone
<1>1. IsFiniteSet(gone) /\ V \cap gone = gone
  BY FS_Subset
<1>2. IsFiniteSet(rest) /\ Cardinality(rest) = Cardinality(V) - Cardinality(gone)
  BY <1>1, FS_Difference
<1>3. rest \cap placed = {}
  OBVIOUS
<1>4. /\ IsFiniteSet(rest \cup placed)
      /\ Cardinality(rest \cup placed) = Cardinality(rest) + Cardinality(placed) - Cardinality(rest \cap placed)
  <2> HIDE DEF rest
  <2>1. QED
    BY <1>2, FS_Union
<1>5. /\ Cardinality(V) \in Nat /\ Cardinality(gone) \in Nat /\ Cardinality(placed) \in Nat
      /\ Cardinality(rest) \in Nat /\ Cardinality({}) = 0
  BY <1>1, <1>2, FS_CardinalityType, FS_EmptySet
<1> HIDE DEF rest
<1>6. Cardinality(rest \cup placed) = Cardinality(V) + Cardinality(placed) - Cardinality(gone)
  <2>1. Cardinality(rest \cap placed) = 0
    BY <1>3, <1>5
  <2>2. QED
    BY <2>1, <1>2, <1>4, <1>5
<1>7. QED
  BY <1>4, <1>6 DEF rest

\* Finite chains publish finitely many pairs.
LEMMA PairsFinite ==
    ASSUME ChainsSound, NEW ks \in SUBSET Keys
    PROVE  IsFiniteSet(VisibleOf(ks))
<1> DEFINE C == {chains[k] : k \in ks}
           f == [k \in ks |-> chains[k]]
<1>1. IsFiniteSet(ks)
  BY KeysAre, FS_Subset
<1>2. IsFiniteSet({f[k] : k \in ks}) /\ {f[k] : k \in ks} = C
  <2>1. DOMAIN f = ks /\ {f[k] : k \in ks} = C
    OBVIOUS
  <2> HIDE DEF f
  <2>2. QED
    BY <1>1, <2>1, FiniteImage
<1>3. \A c \in C : IsFiniteSet(c)
  BY DEF ChainsSound, SoundChain
<1> HIDE DEF C
<1>4. IsFiniteSet(UNION C)
  BY <1>2, <1>3, FS_UNION
<1>5. IsFiniteSet(ks \X (UNION C))
  BY <1>1, <1>4, FS_Product
<1>6. VisibleOf(ks) \subseteq ks \X (UNION C)
  BY DEF VisibleOf, C
<1>7. QED
  BY <1>5, <1>6, FS_Subset

\* What other keys publish stays, when the chains of some keys change.
LEMMA PairsMove ==
    ASSUME NEW ks \in SUBSET Keys, \A k \in Keys \ ks : chains'[k] = chains[k]
    PROVE  /\ VisibleOf(Keys)' = (VisibleOf(Keys) \ VisibleOf(ks)) \cup VisibleOf(ks)'
           /\ VisibleOf(ks) \subseteq VisibleOf(Keys)
           /\ VisibleOf(ks)' \cap (VisibleOf(Keys) \ VisibleOf(ks)) = {}
<1> DEFINE In(p, S) == \E k \in S : \E v \in VisibleIn(chains[k]) : p = <<k, v>>
           InNew(p, S) == \E k \in S : \E v \in VisibleIn(chains'[k]) : p = <<k, v>>
<1>1. \A p : /\ p \in VisibleOf(Keys)' <=> InNew(p, Keys)
             /\ p \in VisibleOf(ks)' <=> InNew(p, ks)
  BY DEF VisibleOf, VisibleIn
<1>2. \A p : /\ p \in VisibleOf(Keys) <=> In(p, Keys)
             /\ p \in VisibleOf(ks) <=> In(p, ks)
  BY DEF VisibleOf, VisibleIn
<1>3. \A p : /\ In(p, ks) => In(p, Keys)
             /\ InNew(p, Keys) <=> InNew(p, ks) \/ (In(p, Keys) /\ ~In(p, ks))
             /\ ~(InNew(p, ks) /\ In(p, Keys) /\ ~In(p, ks))
  <2> TAKE p
  <2>1. In(p, ks) => In(p, Keys)
    OBVIOUS
  <2>2. ASSUME InNew(p, Keys) PROVE InNew(p, ks) \/ (In(p, Keys) /\ ~In(p, ks))
    BY <2>2
  <2>3. ASSUME In(p, Keys), ~In(p, ks) PROVE InNew(p, Keys) /\ ~InNew(p, ks)
    BY <2>3
  <2>4. InNew(p, ks) => InNew(p, Keys)
    OBVIOUS
  <2>5. QED
    BY <2>1, <2>2, <2>3, <2>4
<1> HIDE DEF In, InNew
<1>4. QED
  BY <1>1, <1>2, <1>3

\* The counters follow what some keys published before and after.
LEMMA Recount ==
    ASSUME MonotonicBooks, ChainsSound', NEW ks \in SUBSET Keys, \A k \in Keys \ ks : chains'[k] = chains[k],
           NEW come, Counted(VisibleOf(ks), come),
           Cardinality(come) = Cardinality(VisibleOf(ks)'),
           Cardinality(Tombstones(come)) = Cardinality(Tombstones(VisibleOf(ks)'))
    PROVE  CountsExact'
<1> DEFINE V == VisibleOf(Keys)
           gone == VisibleOf(ks)
           placed == VisibleOf(ks)'
<1>1. VisibleOf(Keys)' = (V \ gone) \cup placed /\ gone \subseteq V /\ placed \cap (V \ gone) = {}
  BY PairsMove
<1>2. IsFiniteSet(V) /\ IsFiniteSet(placed)
  <2>1. IsFiniteSet(V)
    BY PairsFinite DEF MonotonicBooks
  <2>2. IsFiniteSet(placed)
    <3>1. ChainsSound => IsFiniteSet(VisibleOf(ks))
      BY PairsFinite
    <3>2. ChainsSound' => IsFiniteSet(VisibleOf(ks))'
      BY <3>1, PairsFinite, PTL
    <3>3. QED
      BY <3>2
  <2>3. QED
    BY <2>1, <2>2
<1>3. visibleCount = Cardinality(V) /\ deletedCount = Cardinality(Tombstones(V))
  BY DEF MonotonicBooks, CountsExact
<1> HIDE DEF V, gone, placed
<1>4. Cardinality((V \ gone) \cup placed) = Cardinality(V) + Cardinality(placed) - Cardinality(gone)
  BY <1>1, <1>2, SwapCount
<1>5. Tombstones((V \ gone) \cup placed) = (Tombstones(V) \ Tombstones(gone)) \cup Tombstones(placed)
  BY DEF Tombstones
<1>6. /\ Tombstones(V) \subseteq V /\ Tombstones(placed) \subseteq placed
      /\ Tombstones(gone) \subseteq Tombstones(V)
      /\ Tombstones(placed) \cap (Tombstones(V) \ Tombstones(gone)) = {}
  BY <1>1 DEF Tombstones
<1>7. IsFiniteSet(Tombstones(V)) /\ IsFiniteSet(Tombstones(placed))
  BY <1>2, <1>6, FS_Subset
<1>8. Cardinality((Tombstones(V) \ Tombstones(gone)) \cup Tombstones(placed))
        = Cardinality(Tombstones(V)) + Cardinality(Tombstones(placed)) - Cardinality(Tombstones(gone))
  <2> DEFINE TV == Tombstones(V)
             TG == Tombstones(gone)
             TP == Tombstones(placed)
  <2>1. IsFiniteSet(TV) /\ TG \subseteq TV /\ IsFiniteSet(TP) /\ TP \cap (TV \ TG) = {}
    BY <1>6, <1>7
  <2> HIDE DEF TV, TG, TP
  <2>2. Cardinality((TV \ TG) \cup TP) = Cardinality(TV) + Cardinality(TP) - Cardinality(TG)
    BY <2>1, SwapCount
  <2>3. QED
    BY <2>2 DEF TV, TG, TP
<1>9. /\ visibleCount' = visibleCount + Cardinality(come) - Cardinality(gone)
      /\ deletedCount' = deletedCount + Cardinality(Tombstones(come)) - Cardinality(Tombstones(gone))
  BY DEF Counted, gone
<1>10. Cardinality(come) = Cardinality(placed) /\ Cardinality(Tombstones(come)) = Cardinality(Tombstones(placed))
  BY DEF placed
<1>11. visibleCount' = Cardinality(VisibleOf(Keys)') /\ deletedCount' = Cardinality(Tombstones(VisibleOf(Keys)'))
  BY <1>1, <1>3, <1>4, <1>5, <1>8, <1>9, <1>10
<1>12. Tombstones(VisibleOf(Keys)') = Tombstones(VisibleOf(Keys))'
  BY DEF Tombstones
<1>13. QED
  BY <1>11, <1>12 DEF CountsExact

\* One pair for every key of a finite set: as many pairs as keys.
LEMMA OnePairEach ==
    ASSUME NEW ks, IsFiniteSet(ks), NEW S, NEW f, S = {<<k, f[k]>> : k \in ks}
    PROVE  IsFiniteSet(S) /\ Cardinality(S) = Cardinality(ks)
<1> DEFINE g == [k \in ks |-> <<k, f[k]>>]
<1>1. g \in Bijection(ks, S)
  BY DEF Bijection, Injection, Surjection, IsInjective
<1>2. ExistsBijection(ks, S)
  BY <1>1 DEF ExistsBijection
<1>3. QED
  BY <1>2, FS_Bijection

\* Unmasking loses no pair.
LEMMA UnmaskedCount ==
    ASSUME NEW C, IsFiniteSet(C),
           \A p \in C : p = <<p[1], p[2]>> /\ p[2] = Staged(p[2].gen, p[2].payload)
    PROVE  LET D == {<<p[1], Visible(p[2].gen, p[2].payload)>> : p \in C}
           IN  IsFiniteSet(D) /\ Cardinality(D) = Cardinality(C)
<1> DEFINE F(p) == <<p[1], Visible(p[2].gen, p[2].payload)>>
           D == {F(p) : p \in C}
           f == [p \in C |-> F(p)]
<1>1. ASSUME NEW p \in C, NEW q \in C, F(p) = F(q) PROVE p = q
  <2>1. p[1] = q[1] /\ Visible(p[2].gen, p[2].payload) = Visible(q[2].gen, q[2].payload)
    BY <1>1
  <2>2. p[2].gen = q[2].gen /\ p[2].payload = q[2].payload
    BY <2>1, VersionMade
  <2>3. p[2] = q[2]
    BY <2>2
  <2>4. QED
    BY <2>1, <2>3
<1> HIDE DEF F
<1>2. f \in Bijection(C, D)
  BY <1>1 DEF Bijection, Injection, Surjection, IsInjective
<1>3. ExistsBijection(C, D)
  BY <1>2 DEF ExistsBijection
<1>4. IsFiniteSet(D) /\ Cardinality(D) = Cardinality(C)
  BY <1>3, FS_Bijection
<1>5. QED
  BY <1>4 DEF F

----------------------------------------------------------------------------
(* Writes outside any transaction.                                         *)

\* Telling the watchers leaves a frame sound.
LEMMA DisturbedSound ==
    ASSUME NEW u, SoundFrame(u), NEW ks
    PROVE  SoundFrame(Disturbed(u, ks))
<1> DEFINE f == [w \in u.watches |-> [w EXCEPT !.moved = w.moved \/ w.key \in ks]]
           d == Disturbed(u, ks)
<1>1. u \in Frames /\ IsFiniteSet(u.watches) /\ DOMAIN f = u.watches
  BY DEF SoundFrame
<1>2. d.watches = {f[w] : w \in u.watches}
  <2> DEFINE F(w) == [w EXCEPT !.moved = w.moved \/ w.key \in ks]
  <2>1. d.watches = {F(w) : w \in u.watches}
    BY <1>1, DisturbedFields
  <2>2. \A w \in u.watches : f[w] = F(w)
    OBVIOUS
  <2> HIDE DEF d, f, F
  <2>3. QED
    BY <2>1, <2>2
<1> HIDE DEF f
<1>3. IsFiniteSet(d.watches)
  BY <1>1, <1>2, FiniteImage
<1>4. /\ d \in Frames /\ d.staged = u.staged /\ d.changes = u.changes
      /\ d.listed = u.listed /\ d.committed = u.committed
  BY <1>1, DisturbedFields
<1> HIDE DEF d
<1>5. QED
  BY <1>3, <1>4 DEF SoundFrame, d

\* Telling nobody changes no frame.
LEMMA DisturbedNone ==
    ASSUME NEW u \in Frames
    PROVE  Disturbed(u, {}).watches = u.watches
<1>1. ASSUME NEW w \in Taken PROVE [w EXCEPT !.moved = w.moved \/ w.key \in {}] = w
  <2>1. w.moved \in BOOLEAN
    BY WatchFields
  <2>2. (w.moved \/ w.key \in {}) = w.moved
    BY <2>1, Zenon
  <2>3. [w EXCEPT !.moved = w.moved] = w
    BY DEF Taken
  <2>4. QED
    BY <2>2, <2>3, Zenon
<1>2. u.watches \subseteq Taken
  BY FrameFields
<1>3. {[w EXCEPT !.moved = w.moved \/ w.key \in {}] : w \in u.watches} = u.watches
  <2> DEFINE F(w) == [w EXCEPT !.moved = w.moved \/ w.key \in {}]
  <2>1. \A w \in u.watches : F(w) = w
    BY <1>1, <1>2
  <2> HIDE DEF F
  <2>2. {F(w) : w \in u.watches} = u.watches
    BY <2>1
  <2>3. QED
    BY <2>2 DEF F
<1>4. QED
  BY <1>3, DisturbedFields

\* The frames after a write outside any transaction.
LEMMA DirectFrames ==
    ASSUME MonotonicBooks, NEW moved, txns' = Disturb(txns, moved)
    PROVE  /\ DOMAIN txns' = Open /\ FramesSound'
           /\ \A u \in Open : txns'[u] = Disturbed(txns[u], moved)
           /\ \A u \in Open : /\ txns'[u].generation = txns[u].generation
                              /\ txns'[u].staged = txns[u].staged /\ txns'[u].listed = txns[u].listed
                              /\ txns'[u].changes = txns[u].changes
                              /\ txns'[u].committed = txns[u].committed
<1>1. DOMAIN txns' = Open /\ \A u \in Open : txns'[u] = Disturbed(txns[u], moved)
  BY DEF Disturb, Open
<1>2. \A u \in Open : SoundFrame(txns[u]) /\ txns[u] \in Frames
  BY DEF MonotonicBooks, FramesSound, SoundFrame
<1>3. \A u \in Open : SoundFrame(txns'[u]) /\ txns'[u] \in Frames
  BY <1>1, <1>2, DisturbedSound DEF SoundFrame
<1>4. txns' = [u \in Open |-> Disturbed(txns[u], moved)]
  BY DEF Disturb, Open
<1>5. txns' \in [Open -> Frames]
  BY <1>1, <1>3, <1>4
<1>6. FramesSound'
  BY <1>1, <1>3, <1>5 DEF FramesSound, MonotonicBooks, Open
<1>7. QED
  BY <1>1, <1>2, <1>6, DisturbedFields

\* Some keys published directly, or retired.
WritesOver(ks) ==
    /\ chains' = [k \in Keys |-> IF k \in ks THEN PublishedDirectly(k) ELSE chains[k]]
    /\ txns' = Disturb(txns, ks)

Retires(ks, moved) ==
    /\ chains' = [k \in Keys |-> IF k \in ks THEN Hidden(chains[k]) ELSE chains[k]]
    /\ txns' = Disturb(txns, moved)
    /\ moved \subseteq ks
    /\ \A k \in ks : k \in moved \/ Readable(k) = {}

\* What a chain shows once something is published over it directly, or retired from it.
LEMMA OverChain ==
    ASSUME NEW chain, NEW v, v.visible
    PROVE  /\ Hidden(Hidden(chain) \cup {v}) = Hidden(chain)
           /\ VisibleIn(Hidden(chain) \cup {v}) = {v}
           /\ Hidden(Hidden(chain)) = Hidden(chain) /\ VisibleIn(Hidden(chain)) = {}
BY DEF Hidden, VisibleIn

\* A frame's claims to hidden versions, kept by a write outside any transaction.
LEMMA DirectOwns ==
    ASSUME MonotonicBooks, NEW moved, txns' = Disturb(txns, moved), NEW u \in Open, NEW k, NEW v,
           Owns(txns[u], k, v)
    PROVE  Owns(txns'[u], k, v)
<1>1. /\ txns'[u].generation = txns[u].generation /\ txns'[u].staged = txns[u].staged
      /\ txns'[u].listed = txns[u].listed
  BY DirectFrames
<1>2. QED
  BY <1>1 DEF Owns

\* Publishing directly is loud, and publishes one pair for every key.
LEMMA WritesLoud ==
    ASSUME MonotonicBooks, NEW ks \in SUBSET Keys, WritesOver(ks)
    PROVE  /\ Loud(ks, ks, FreshGeneration) /\ FramesSound'
           /\ VisibleOf(ks)' = {<<k, Visible(FreshGeneration, Direct)>> : k \in ks}
<1> DEFINE g == FreshGeneration
           n == Visible(g, Direct)
<1>1. g \in Nat \ {0} /\ g \notin Remembered
  BY FreshIs
<1>2. n \in Versions /\ n.visible /\ n.gen = g /\ Direct \in Payloads \cup {Absent}
  BY <1>1, VersionMade, KeysAre
<1>3. \A k \in Keys : chains'[k] = IF k \in ks THEN Hidden(chains[k]) \cup {n} ELSE chains[k]
  BY DEF WritesOver, PublishedDirectly, Hidden
<1>4. \A k \in Keys : chains[k] \subseteq Versions
  BY DEF MonotonicBooks, ChainsSound, SoundChain
<1>5. chains' \in [Keys -> SUBSET Versions]
  <2>1. chains' = [k \in Keys |-> IF k \in ks THEN Hidden(chains[k]) \cup {n} ELSE chains[k]]
    BY DEF WritesOver, PublishedDirectly, Hidden
  <2>2. \A k \in Keys : Hidden(chains[k]) \cup {n} \subseteq Versions
    BY <1>2, <1>4 DEF Hidden
  <2> HIDE DEF n
  <2>3. QED
    BY <1>4, <2>1, <2>2
<1> HIDE DEF n
<1>6. \A k \in ks : Hidden(chains'[k]) = Hidden(chains[k]) /\ VisibleIn(chains'[k]) = {n}
  <2> TAKE k \in ks
  <2>1. chains'[k] = Hidden(chains[k]) \cup {n}
    BY <1>3
  <2>2. /\ Hidden(Hidden(chains[k]) \cup {n}) = Hidden(chains[k])
        /\ VisibleIn(Hidden(chains[k]) \cup {n}) = {n}
    BY <1>2, OverChain
  <2>3. QED
    BY <2>1, <2>2
<1>7. \A k \in Keys : \A v \in Hidden(chains[k]) : v.gen # g
  BY <1>1, RememberedHas DEF Hidden
<1>8. ASSUME NEW k \in ks PROVE Republished(k, ks, g)
  <2>1. VisibleIn(chains'[k]) = {Visible(g, Direct)}
    BY <1>6 DEF n
  <2>2. QED
    BY <2>1, <1>2, <1>6, <1>7 DEF Republished
<1>9. /\ DOMAIN txns' = Open /\ FramesSound'
      /\ \A u \in Open : txns'[u] = Disturbed(txns[u], ks)
      /\ \A u \in Open : txns'[u].generation = txns[u].generation /\ txns'[u].committed = txns[u].committed
  BY DirectFrames DEF WritesOver
<1>10. \A u \in Open : \A k \in Keys : \A v \in Hidden(chains'[k]) : Owns(txns[u], k, v) => Owns(txns'[u], k, v)
  BY DirectOwns DEF WritesOver
<1>11. \A u \in Open : txns[u].generation # g /\ \A w \in txns[u].watches : w.gen # g
  BY <1>1, RememberedHas
<1>12. \A k \in Keys \ ks : chains'[k] = chains[k]
  BY <1>3
<1>13. Loud(ks, ks, g)
  BY <1>5, <1>8, <1>9, <1>10, <1>11, <1>12 DEF Loud
<1>14. VisibleOf(ks)' = {<<k, n>> : k \in ks}
  <2>1. \A p : p \in VisibleOf(ks)' <=> \E k \in ks : \E v \in VisibleIn(chains'[k]) : p = <<k, v>>
    BY DEF VisibleOf, VisibleIn
  <2>2. \A p : p \in VisibleOf(ks)' <=> p \in {<<k, n>> : k \in ks}
    BY <2>1, <1>6
  <2>3. QED
    BY <2>2
<1>15. QED
  BY <1>9, <1>13, <1>14 DEF n

\* Retiring is loud, and publishes nothing.
LEMMA RetiresLoud ==
    ASSUME MonotonicBooks, NEW ks \in SUBSET Keys, NEW moved, Retires(ks, moved)
    PROVE  /\ Loud(ks, moved, FreshGeneration) /\ FramesSound'
           /\ VisibleOf(ks)' = {}
<1> DEFINE g == FreshGeneration
<1>1. g \in Nat \ {0} /\ g \notin Remembered
  BY FreshIs
<1>2. \A k \in Keys : chains'[k] = IF k \in ks THEN Hidden(chains[k]) ELSE chains[k]
  BY DEF Retires
<1>3. \A k \in Keys : chains[k] \subseteq Versions /\ Hidden(chains[k]) \subseteq Versions
  BY DEF MonotonicBooks, ChainsSound, SoundChain, Hidden
<1>4. chains' \in [Keys -> SUBSET Versions]
  BY <1>3 DEF Retires
<1>5. \A k \in ks : Hidden(chains'[k]) = Hidden(chains[k]) /\ VisibleIn(chains'[k]) = {}
  <2>1. Visible(g, Direct).visible
    BY VersionMade
  <2>2. QED
    BY <2>1, <1>2, OverChain
<1>6. \A k \in Keys : \A v \in Hidden(chains[k]) : v.gen # g
  BY <1>1, RememberedHas DEF Hidden
<1>7. \A k \in ks : Republished(k, moved, g)
  BY <1>5, <1>6 DEF Republished, Retires
<1>8. /\ DOMAIN txns' = Open /\ FramesSound'
      /\ \A u \in Open : txns'[u] = Disturbed(txns[u], moved)
      /\ \A u \in Open : txns'[u].generation = txns[u].generation /\ txns'[u].committed = txns[u].committed
  BY DirectFrames DEF Retires
<1>9. \A u \in Open : \A k \in Keys : \A v \in Hidden(chains'[k]) : Owns(txns[u], k, v) => Owns(txns'[u], k, v)
  BY DirectOwns DEF Retires
<1>10. \A u \in Open : txns[u].generation # g /\ \A w \in txns[u].watches : w.gen # g
  BY <1>1, RememberedHas
<1>11. (\A k \in Keys \ ks : chains'[k] = chains[k]) /\ moved \subseteq ks
  BY <1>2 DEF Retires
<1>12. Loud(ks, moved, g)
  BY <1>4, <1>7, <1>8, <1>9, <1>10, <1>11 DEF Loud
<1>13. VisibleOf(ks)' = {}
  <2>1. \A p : p \in VisibleOf(ks)' <=> \E k \in ks : \E v \in VisibleIn(chains'[k]) : p = <<k, v>>
    BY DEF VisibleOf, VisibleIn
  <2>2. QED
    BY <2>1, <1>5
<1>14. QED
  BY <1>8, <1>12, <1>13

\* A loud step that counts what it took down and put up keeps the books.
LEMMA LoudCounted ==
    ASSUME MonotonicBooks, NEW ks \in SUBSET Keys, NEW moved, NEW g, Loud(ks, moved, g), FramesSound',
           NEW come, Counted(VisibleOf(ks), come),
           Cardinality(come) = Cardinality(VisibleOf(ks)'),
           Cardinality(Tombstones(come)) = Cardinality(Tombstones(VisibleOf(ks)'))
    PROVE  MonotonicBooks'
<1>1. ChainsSound'
  BY LoudChains
<1>2. \A k \in Keys \ ks : chains'[k] = chains[k]
  BY DEF Loud
<1>3. CountsExact'
  BY <1>1, <1>2, Recount
<1>4. QED
  BY <1>3, LoudStep

\* Publishing directly and counting it.
LEMMA WritesOverCall ==
    ASSUME MonotonicBooks, NEW ks \in SUBSET Keys, WritesOver(ks),
           Counted(VisibleOf(ks), {<<k, Visible(FreshGeneration, Direct)>> : k \in ks})
    PROVE  MonotonicBooks'
<1> DEFINE come == {<<k, Visible(FreshGeneration, Direct)>> : k \in ks}
<1>1. Loud(ks, ks, FreshGeneration) /\ FramesSound' /\ VisibleOf(ks)' = come
  BY WritesLoud
<1>2. Counted(VisibleOf(ks), come)
  OBVIOUS
<1> HIDE DEF come
<1>3. QED
  BY <1>1, <1>2, LoudCounted

\* upsert, insert and update of a key.
LEMMA UpsertCall ==
    ASSUME MonotonicBooks, NEW k \in Keys, Upsert(k)
    PROVE  MonotonicBooks'
<1> DEFINE ks == {k}
<1>1. chains \in [Keys -> SUBSET Versions]
  BY DEF MonotonicBooks, ChainsSound
<1>2. WritesOver(ks)
  BY <1>1 DEF Upsert, WritesOver
<1>3. {<<l, Visible(FreshGeneration, Direct)>> : l \in ks} = {<<k, Visible(FreshGeneration, Direct)>>}
  OBVIOUS
<1>4. Counted(VisibleOf(ks), {<<l, Visible(FreshGeneration, Direct)>> : l \in ks})
  BY <1>3 DEF Upsert
<1>5. ks \in SUBSET Keys
  OBVIOUS
<1> HIDE DEF ks
<1>6. QED
  BY <1>2, <1>4, <1>5, WritesOverCall

\* A group upsert.
LEMMA UpsertManyCall ==
    ASSUME MonotonicBooks, NEW ks \in SUBSET Keys, UpsertMany(ks)
    PROVE  MonotonicBooks'
<1>1. WritesOver(ks) /\ Counted(VisibleOf(ks), {<<k, Visible(FreshGeneration, Direct)>> : k \in ks})
  BY DEF UpsertMany, WritesOver
<1>2. QED
  BY <1>1, WritesOverCall

\* Retiring and counting it.
LEMMA RetiresCall ==
    ASSUME MonotonicBooks, NEW ks \in SUBSET Keys, NEW moved, Retires(ks, moved), Counted(VisibleOf(ks), {})
    PROVE  MonotonicBooks'
<1>1. Loud(ks, moved, FreshGeneration) /\ FramesSound' /\ VisibleOf(ks)' = {}
  BY RetiresLoud
<1>2. Cardinality({}) = Cardinality(VisibleOf(ks)')
      /\ Cardinality(Tombstones({})) = Cardinality(Tombstones(VisibleOf(ks)'))
  BY <1>1
<1> DEFINE come == {}
<1>3. Counted(VisibleOf(ks), come) /\ Cardinality(come) = Cardinality(VisibleOf(ks)')
      /\ Cardinality(Tombstones(come)) = Cardinality(Tombstones(VisibleOf(ks)'))
  BY <1>2
<1> HIDE DEF come
<1>4. QED
  BY <1>1, <1>3, LoudCounted

\* erase, pop_smallest, and the erasing of a window.
LEMMA RetireCall ==
    ASSUME MonotonicBooks, NEW ks \in SUBSET Keys, Retire(ks)
    PROVE  MonotonicBooks'
<1> DEFINE moved == {k \in ks : Readable(k) # {}}
<1>1. Retires(ks, moved) /\ Counted(VisibleOf(ks), {})
  BY DEF Retire, Retires, Hidden
<1> HIDE DEF moved
<1>2. QED
  BY <1>1, RetiresCall

\* vacuum: tombstones go, and nobody is told.
LEMMA VacuumCall ==
    ASSUME MonotonicBooks, NEW lower, NEW upper, Vacuum(lower, upper)
    PROVE  MonotonicBooks'
<1>0. PICK ks \in SUBSET Keys : ks = {k \in Keys : k >= lower /\ k < upper /\ IsReclaimable(chains[k])}
  OBVIOUS
<1> DEFINE moved == {}
<1>1. \A k \in ks : Hidden(chains[k]) = {} /\ Readable(k) = {} /\ k \in Keys
  BY <1>0 DEF IsReclaimable, Hidden, VisibleIn, Readable
<1>2. chains' = [k \in Keys |-> IF k \in ks THEN {} ELSE chains[k]]
  BY <1>0 DEF Vacuum
<1>3. Counted(VisibleOf(ks), {}) /\ ks \in SUBSET Keys /\ moved \subseteq ks /\ txns' = txns
  BY <1>0 DEF Vacuum
<1>4. Loud(ks, moved, FreshGeneration) /\ FramesSound' /\ VisibleOf(ks)' = {}
  <2> DEFINE g == FreshGeneration
  <2>1. g \in Nat \ {0} /\ g \notin Remembered
    BY FreshIs
  <2>2. chains' \in [Keys -> SUBSET Versions]
    BY <1>2 DEF MonotonicBooks, ChainsSound
  <2>3. \A k \in ks : chains'[k] = {}
    BY <1>2, <1>1
  <2>4. Hidden({}) = {} /\ VisibleIn({}) = {}
    BY DEF Hidden, VisibleIn
  <2>5. \A k \in ks : Republished(k, moved, g)
    BY <1>1, <2>3, <2>4 DEF Republished
  <2>6. \A u \in Open : txns[u].generation # g /\ \A w \in txns[u].watches : w.gen # g
    BY <2>1, RememberedHas
  <2>7. \A u \in Open : Disturbed(txns[u], moved).watches = txns[u].watches
    BY DisturbedNone DEF MonotonicBooks, FramesSound
  <2>8. \A k \in Keys \ ks : chains'[k] = chains[k]
    BY <1>2
  <2>9. Loud(ks, moved, g)
    BY <1>3, <2>2, <2>5, <2>6, <2>7, <2>8 DEF Loud, Open
  <2>10. FramesSound'
    BY <1>3 DEF MonotonicBooks, FramesSound, Open
  <2>11. VisibleOf(ks)' = {}
    <3>1. \A p : p \in VisibleOf(ks)' <=> \E k \in ks : \E v \in VisibleIn(chains'[k]) : p = <<k, v>>
      BY DEF VisibleOf, VisibleIn
    <3>2. QED
      BY <3>1, <2>3, <2>4
  <2>12. QED
    BY <2>9, <2>10, <2>11
<1> HIDE DEF moved
<1> DEFINE come == {}
<1>5. Counted(VisibleOf(ks), come) /\ Cardinality(come) = Cardinality(VisibleOf(ks)')
      /\ Cardinality(Tombstones(come)) = Cardinality(Tombstones(VisibleOf(ks)'))
  BY <1>3, <1>4
<1> HIDE DEF come
<1>6. QED
  BY <1>3, <1>4, <1>5, LoudCounted

\* clear: nothing is left.
LEMMA ClearCall ==
    ASSUME MonotonicBooks, Clear
    PROVE  MonotonicBooks'
<1> DEFINE moved == {k \in Keys : Readable(k) # {}}
<1>1. \A k \in Keys : Hidden(chains[k]) = {}
  BY DEF Clear, Hidden
<1>2. Retires(Keys, moved)
  BY <1>1 DEF Clear, Retires
<1> HIDE DEF moved
<1>3. Loud(Keys, moved, FreshGeneration) /\ FramesSound' /\ VisibleOf(Keys)' = {}
  BY <1>2, RetiresLoud
<1>4. Tombstones(VisibleOf(Keys)') = Tombstones(VisibleOf(Keys))' /\ Tombstones({}) = {} /\ Cardinality({}) = 0
  BY FS_EmptySet DEF Tombstones
<1>5. CountsExact'
  BY <1>3, <1>4 DEF Clear, CountsExact
<1>6. QED
  BY <1>3, <1>5, LoudStep

\* update_range: as many versions as before, none of them a tombstone.
LEMMA UpdateRangeCall ==
    ASSUME MonotonicBooks, NEW lower, NEW upper, UpdateRange(lower, upper)
    PROVE  MonotonicBooks'
<1>0. PICK ks \in SUBSET Keys : ks = {k \in Keys : k >= lower /\ k < upper /\ Readable(k) # {}}
  OBVIOUS
<1> DEFINE come == {<<k, Visible(FreshGeneration, Direct)>> : k \in ks}
           gone == VisibleOf(ks)
<1>1. WritesOver(ks) /\ visibleCount' = visibleCount /\ deletedCount' = deletedCount
  BY <1>0 DEF UpdateRange, WritesOver
<1>2. \A k \in ks : k \in Keys /\ Readable(k) # {}
  BY <1>0
<1>3. Loud(ks, ks, FreshGeneration) /\ FramesSound' /\ VisibleOf(ks)' = come
  BY <1>1, WritesLoud
<1>4. IsFiniteSet(ks)
  BY <1>1, KeysAre, FS_Subset
<1>5. Cardinality(come) = Cardinality(ks) /\ IsFiniteSet(come)
  <2> DEFINE f == [k \in ks |-> Visible(FreshGeneration, Direct)]
  <2>1. come = {<<k, f[k]>> : k \in ks}
    OBVIOUS
  <2> HIDE DEF f, come
  <2>2. QED
    BY <1>4, <2>1, OnePairEach
<1>6. \A k \in ks : \E v \in VisibleIn(chains[k]) : VisibleIn(chains[k]) = {v} /\ v.payload # Absent
  <2> TAKE k \in ks
  <2>1. SoundChain(chains[k]) /\ k \in Keys /\ Readable(k) # {}
    BY <1>2 DEF MonotonicBooks, ChainsSound
  <2>2. PICK v \in VisibleIn(chains[k]) : v.payload # Absent
    BY <2>1 DEF Readable
  <2>3. VisibleIn(chains[k]) = {v}
    BY <2>1, <2>2, OneVisible
  <2>4. QED
    BY <2>2, <2>3
<1>7. Cardinality(gone) = Cardinality(ks)
  <2> DEFINE f == [k \in ks |-> CHOOSE v \in VisibleIn(chains[k]) : TRUE]
  <2>1. \A k \in ks : VisibleIn(chains[k]) = {f[k]}
    BY <1>6
  <2>2. \A p : p \in gone <=> \E k \in ks : \E v \in VisibleIn(chains[k]) : p = <<k, v>>
    BY DEF VisibleOf, VisibleIn
  <2> HIDE DEF f, gone
  <2>3. \A p : p \in gone <=> p \in {<<k, f[k]>> : k \in ks}
    BY <2>1, <2>2
  <2>4. gone = {<<k, f[k]>> : k \in ks}
    BY <2>3
  <2>5. QED
    BY <1>4, <2>4, OnePairEach
<1>8. Tombstones(gone) = {} /\ Tombstones(come) = {}
  <2>1. \A p \in gone : p[1] \in ks /\ p[2] \in VisibleIn(chains[p[1]])
    BY PairsAre
  <2>2. \A p \in gone : p[2].payload # Absent
    BY <2>1, <1>6
  <2>3. \A p \in come : p[2].payload = Direct
    BY VersionMade
  <2>4. Direct # Absent
    BY KeysAre
  <2> HIDE DEF gone, come
  <2>5. QED
    BY <2>2, <2>3, <2>4 DEF Tombstones
<1>9. visibleCount \in Nat /\ deletedCount \in Nat
  <2>1. IsFiniteSet(VisibleOf(Keys))
    BY PairsFinite DEF MonotonicBooks
  <2>2. IsFiniteSet(Tombstones(VisibleOf(Keys)))
    BY <2>1, FS_Subset DEF Tombstones
  <2>3. QED
    BY <2>1, <2>2, FS_CardinalityType DEF MonotonicBooks, CountsExact
<1>10. Cardinality(ks) \in Nat /\ Cardinality({}) = 0
  BY <1>4, FS_CardinalityType, FS_EmptySet
<1> HIDE DEF come, gone
<1>11. Counted(gone, come)
  <2>1. Cardinality(Tombstones(gone)) = 0 /\ Cardinality(Tombstones(come)) = 0
    BY <1>8, <1>10
  <2>2. QED
    BY <1>1, <1>5, <1>7, <1>9, <1>10, <2>1 DEF Counted
<1>12. Counted(VisibleOf(ks), come)
  BY <1>11 DEF gone
<1>13. QED
  BY <1>1, <1>3, <1>12, LoudCounted

----------------------------------------------------------------------------
(* One transaction's frame.                                                *)

\* A transaction's frame is replaced by a sound one.
LEMMA FrameReplaced ==
    ASSUME MonotonicBooks, NEW t \in Open, NEW f, SoundFrame(f), txns' = [txns EXCEPT ![t] = f]
    PROVE  /\ FramesSound' /\ DOMAIN txns' = Open /\ txns'[t] = f
           /\ \A u \in Open : u # t => txns'[u] = txns[u]
<1>1. txns \in [Open -> Frames] /\ f \in Frames
  BY DEF MonotonicBooks, FramesSound, SoundFrame
<1>2. /\ txns' \in [Open -> Frames] /\ txns'[t] = f
      /\ \A u \in Open : u # t => txns'[u] = txns[u]
  BY <1>1
<1>3. DOMAIN txns' = Open
  BY <1>2
<1>4. FramesSound'
  BY <1>2, <1>3 DEF FramesSound, MonotonicBooks, Open
<1>5. QED
  BY <1>2, <1>3, <1>4

\* A frame for a transaction that opens.
LEMMA OpenedSound ==
    ASSUME NEW g \in Nat \ {0}
    PROVE  /\ SoundFrame(Opened(g)) /\ Opened(g) \in Frames
           /\ Opened(g).generation = g /\ ~Opened(g).staged /\ ~Opened(g).committed
           /\ Opened(g).changes = <<>> /\ Opened(g).listed = {} /\ Opened(g).watches = {}
<1>1. <<>> \in Writings /\ DOMAIN <<>> = {}
  BY NothingWritten
<1>2. /\ Opened(g).generation = g /\ Opened(g).staged = FALSE /\ Opened(g).committed = FALSE
      /\ Opened(g).changes = <<>> /\ Opened(g).listed = {} /\ Opened(g).watches = {}
  BY DEF Opened
<1>3. Opened(g) \in Frames
  <2> DEFINE w == <<>>
  <2>1. w \in Writings
    BY <1>1
  <2>2. Opened(g) = [generation |-> g, staged |-> FALSE, changes |-> w, listed |-> {},
                     watches |-> {}, committed |-> FALSE]
    BY DEF Opened
  <2> HIDE DEF w
  <2>3. QED
    BY <2>1, <2>2 DEF Frames
<1>4. DOMAIN Opened(g).changes = {} /\ IsFiniteSet(Opened(g).watches)
  BY <1>1, <1>2, FS_EmptySet
<1> DEFINE f == Opened(g)
<1>5. /\ f \in Frames /\ IsFiniteSet(f.watches) /\ DOMAIN f.changes \subseteq f.listed
      /\ f.staged = FALSE /\ f.committed = FALSE
  BY <1>2, <1>3, <1>4
<1> HIDE DEF f
<1>6. SoundFrame(f)
  BY <1>5 DEF SoundFrame
<1>7. QED
  BY <1>2, <1>3, <1>6 DEF f

\* The frame of a transaction that writes.
LEMMA AlsoWritesSound ==
    ASSUME NEW u, SoundFrame(u), ~u.staged, ~u.committed,
           NEW ks \in SUBSET Keys, NEW p \in Payloads \cup {Absent}
    PROVE  /\ SoundFrame(AlsoWrites(u, ks, p))
           /\ AlsoWrites(u, ks, p).generation = u.generation
           /\ AlsoWrites(u, ks, p).watches = u.watches
           /\ ~AlsoWrites(u, ks, p).staged /\ ~AlsoWrites(u, ks, p).committed
           /\ AlsoWrites(u, ks, p).committed = u.committed
<1> DEFINE c == [k \in DOMAIN u.changes \cup ks |-> IF k \in ks THEN p ELSE u.changes[k]]
           l == u.listed \cup (ks \ DOMAIN u.changes)
           w == AlsoWrites(u, ks, p)
<1>1. /\ u \in Frames /\ DOMAIN u.changes \subseteq u.listed /\ u.listed \subseteq Keys
      /\ IsFiniteSet(u.watches) /\ u.changes \in Writings
  BY FrameFields DEF SoundFrame
<1>2. c \in Writings /\ l \subseteq Keys /\ DOMAIN c \subseteq l
  <2>1. DOMAIN u.changes \subseteq Keys /\ u.changes \in [DOMAIN u.changes -> Payloads \cup {Absent}]
    BY <1>1, WritingIs
  <2>2. DOMAIN c = DOMAIN u.changes \cup ks /\ DOMAIN c \subseteq Keys
    BY <2>1
  <2>3. c \in [DOMAIN c -> Payloads \cup {Absent}]
    BY <2>1
  <2>4. c \in Writings
    <3> HIDE DEF c
    <3>1. QED
      BY <2>2, <2>3, WritingIs
  <2>5. QED
    BY <1>1, <2>2, <2>4
<1>3. w = [u EXCEPT !.changes = c, !.listed = l]
  BY DEF AlsoWrites
<1> HIDE DEF c, l
<1>4. /\ w \in Frames /\ w.generation = u.generation /\ w.watches = u.watches
      /\ w.listed = l /\ w.changes = c
  BY <1>1, <1>2, <1>3 DEF Frames
<1>5. w.staged = u.staged /\ w.committed = u.committed
  BY <1>1, <1>3 DEF Frames
<1> HIDE DEF w
<1>6. SoundFrame(w)
  BY <1>1, <1>2, <1>4, <1>5 DEF SoundFrame
<1>7. QED
  BY <1>4, <1>5, <1>6 DEF w

\* What a transaction that writes has pending and listed.
LEMMA AlsoWritesFields ==
    ASSUME NEW u \in Frames, NEW ks, NEW p
    PROVE  /\ AlsoWrites(u, ks, p).listed = u.listed \cup (ks \ DOMAIN u.changes)
           /\ AlsoWrites(u, ks, p).changes
                = [k \in DOMAIN u.changes \cup ks |-> IF k \in ks THEN p ELSE u.changes[k]]
<1> DEFINE c == [k \in DOMAIN u.changes \cup ks |-> IF k \in ks THEN p ELSE u.changes[k]]
           l == u.listed \cup (ks \ DOMAIN u.changes)
<1>1. AlsoWrites(u, ks, p) = [u EXCEPT !.changes = c, !.listed = l]
  BY DEF AlsoWrites
<1> HIDE DEF c, l
<1>2. AlsoWrites(u, ks, p).listed = l /\ AlsoWrites(u, ks, p).changes = c
  BY <1>1 DEF Frames
<1>3. QED
  BY <1>2 DEF c, l

\* Frames change and chains do not: what is hidden keeps its owner if the frame
\* that changed keeps its claims.
LEMMA OwnersStay ==
    ASSUME MonotonicBooks, NEW t, UNCHANGED chains,
           \A u \in Open : u # t => u \in DOMAIN txns' /\ txns'[u] = txns[u],
           t \in Open => ~txns[t].staged
             \/ /\ t \in DOMAIN txns' /\ txns'[t].staged = txns[t].staged
                /\ txns'[t].listed = txns[t].listed /\ txns'[t].generation = txns[t].generation
    PROVE  StagedOwned'
<1>1. ASSUME NEW k \in Keys, NEW v \in Hidden(chains'[k])
      PROVE  \E u \in DOMAIN txns' : Owns(txns'[u], k, v)
  <2>1. PICK u \in Open : Owns(txns[u], k, v)
    BY <1>1 DEF MonotonicBooks, StagedOwned
  <2>2. CASE u # t
    BY <2>1, <2>2
  <2>3. CASE u = t
    BY <2>1, <2>3 DEF Owns
  <2>4. QED
    BY <2>2, <2>3
<1>2. QED
  BY <1>1 DEF StagedOwned, Open

\* The chains stay sound if they stay.
LEMMA ChainsStay ==
    ASSUME MonotonicBooks, UNCHANGED chains
    PROVE  ChainsSound'
BY DEF MonotonicBooks, ChainsSound

\* A transaction keeps some writes aside.
LEMMA WritesCall ==
    ASSUME MonotonicBooks, ~Reuses, NEW t \in Open, MayWrite(t),
           NEW ks \in SUBSET Keys, NEW p \in Payloads \cup {Absent},
           txns' = [txns EXCEPT ![t] = AlsoWrites(txns[t], ks, p)],
           UNCHANGED <<chains, visibleCount, deletedCount>>
    PROVE  MonotonicBooks'
<1> DEFINE f == AlsoWrites(txns[t], ks, p)
<1>1. SoundFrame(txns[t]) /\ ~txns[t].staged /\ ~txns[t].committed
  BY DEF MonotonicBooks, FramesSound, MayWrite, Pending
<1>2. /\ SoundFrame(f) /\ f.generation = txns[t].generation /\ f.watches = txns[t].watches
      /\ f.committed = txns[t].committed
  <2> DEFINE u == txns[t]
  <2>1. SoundFrame(u) /\ ~u.staged /\ ~u.committed
    BY <1>1
  <2> HIDE DEF u
  <2>2. /\ SoundFrame(AlsoWrites(u, ks, p)) /\ AlsoWrites(u, ks, p).generation = u.generation
        /\ AlsoWrites(u, ks, p).watches = u.watches /\ AlsoWrites(u, ks, p).committed = u.committed
    BY <2>1, AlsoWritesSound
  <2>3. QED
    BY <2>2 DEF u
<1>3. txns' = [txns EXCEPT ![t] = f]
  OBVIOUS
<1> HIDE DEF f
<1>4. /\ FramesSound' /\ DOMAIN txns' = Open /\ txns'[t] = f
      /\ \A u \in Open : u # t => txns'[u] = txns[u]
  BY <1>2, <1>3, FrameReplaced
<1>5. Quiet(t)
  BY <1>2, <1>4 DEF Quiet
<1>6. StagedOwned'
  BY <1>1, <1>4, OwnersStay
<1>7. QED
  BY <1>4, <1>5, <1>6, ChainsStay, QuietStep

\* watch
LEMMA WatchCall ==
    ASSUME MonotonicBooks, NEW t \in Open, NEW k \in Keys, Watch(t, k)
    PROVE  MonotonicBooks'
<1> DEFINE W == txns[t].watches \cup {WatchOf(k)}
           f == [txns[t] EXCEPT !.watches = W]
<1>1. SoundFrame(txns[t]) /\ txns[t] \in Frames /\ txns \in [Open -> Frames]
  BY DEF MonotonicBooks, FramesSound, SoundFrame
<1>2. txns' = [txns EXCEPT ![t] = f]
  BY <1>1 DEF Watch, WatchOf
<1>3. WatchOf(k) \in Taken /\ txns[t].watches \subseteq Taken /\ IsFiniteSet(txns[t].watches)
  BY <1>1, WatchTaken, FrameFields DEF SoundFrame
<1>4. W \subseteq Taken /\ IsFiniteSet(W)
  BY <1>3, FS_AddElement
<1> HIDE DEF W
<1>5. /\ f \in Frames /\ f.watches = W /\ f.generation = txns[t].generation /\ f.changes = txns[t].changes
      /\ f.listed = txns[t].listed
  BY <1>1, <1>4 DEF Frames
<1>6. f.staged = txns[t].staged /\ f.committed = txns[t].committed
  BY <1>1 DEF Frames
<1> HIDE DEF f
<1>7. SoundFrame(f)
  BY <1>1, <1>4, <1>5, <1>6 DEF SoundFrame
<1>8. /\ FramesSound' /\ DOMAIN txns' = Open /\ txns'[t] = f
      /\ \A u \in Open : u # t => txns'[u] = txns[u]
  BY <1>2, <1>7, FrameReplaced
<1>9. UNCHANGED <<chains, visibleCount, deletedCount>>
  BY DEF Watch
<1>10. \A w \in txns'[t].watches : w \in txns[t].watches \/ w = WatchOf(k)
  BY <1>5, <1>8 DEF W
<1>11. Quiet(t)
  BY <1>5, <1>6, <1>8, <1>9, <1>10 DEF Quiet
<1>12. StagedOwned'
  BY <1>5, <1>6, <1>8, <1>9, OwnersStay
<1>13. QED
  BY <1>8, <1>9, <1>11, <1>12, ChainsStay, QuietStep

\* A transaction opens.
LEMMA BeginCall ==
    ASSUME MonotonicBooks, NEW t \in Transactions, Begin(t)
    PROVE  MonotonicBooks'
<1> DEFINE g == FreshGeneration
           f == Opened(g)
<1>1. g \in Nat \ {0} /\ g \notin Remembered
  BY FreshIs
<1>2. SoundFrame(f) /\ f \in Frames /\ f.generation = g /\ f.watches = {}
  BY <1>1, OpenedSound
<1>3. /\ t \notin Open /\ txns' = [u \in Open \cup {t} |-> IF u = t THEN f ELSE txns[u]]
      /\ UNCHANGED <<chains, visibleCount, deletedCount>>
  BY DEF Begin
<1> HIDE DEF f
<1>4. /\ DOMAIN txns' = Open \cup {t} /\ txns'[t] = f
      /\ \A u \in Open : u # t /\ txns'[u] = txns[u]
  BY <1>3
<1>5. IsFiniteSet(Open) /\ Open \subseteq Transactions /\ \A u \in Open : SoundFrame(txns[u]) /\ txns[u] \in Frames
  BY DEF MonotonicBooks, FramesSound, SoundFrame
<1>6. IsFiniteSet(Open \cup {t})
  BY <1>5, FS_AddElement
<1>7. txns' \in [Open \cup {t} -> Frames]
  BY <1>2, <1>3, <1>5
<1>8. FramesSound'
  BY <1>2, <1>4, <1>5, <1>6, <1>7 DEF FramesSound, Open
<1>9. Quiet(t)
  BY <1>1, <1>2, <1>3, <1>4 DEF Quiet
<1>10. StagedOwned'
  BY <1>3, <1>4, OwnersStay
<1>11. QED
  BY <1>3, <1>8, <1>9, <1>10, ChainsStay, QuietStep

----------------------------------------------------------------------------
(* Staging, and taking it back.                                            *)

\* The generation of a transaction is on none of its listed keys before it stages.
LEMMA OwnGeneration ==
    ASSUME MonotonicBooks, NEW t \in Open, NEW k \in Keys, NEW v \in chains[k], v.gen = txns[t].generation
    PROVE  /\ k \in txns[t].listed => ~v.visible /\ txns[t].staged
           /\ ~v.visible => Owns(txns[t], k, v)
<1>1. ASSUME k \in txns[t].listed PROVE ~v.visible
  <2>1. ~txns[t].committed
    BY <1>1 DEF MonotonicBooks, FramesSound, SoundFrame
  <2>2. v \notin VisibleIn(chains[k])
    BY <2>1 DEF MonotonicBooks, Unpublished
  <2>3. QED
    BY <2>2 DEF VisibleIn
<1>2. ASSUME ~v.visible PROVE Owns(txns[t], k, v)
  <2>1. v \in Hidden(chains[k])
    BY <1>2 DEF Hidden, VisibleIn
  <2>2. PICK u \in Open : Owns(txns[u], k, v)
    BY <2>1 DEF MonotonicBooks, StagedOwned
  <2>3. u = t
    BY <2>2 DEF Owns, MonotonicBooks, GensApart
  <2>4. QED
    BY <2>2, <2>3
<1>3. QED
  BY <1>1, <1>2 DEF Owns

\* Taking back what a transaction staged leaves what is published, and nothing of its own hidden.
LEMMA UnstagedChains ==
    ASSUME MonotonicBooks, NEW t \in Open,
           chains' = IF txns[t].staged THEN Unstaged(t, txns[t].listed) ELSE chains
    PROVE  /\ ChainsSound'
           /\ \A k \in Keys : /\ VisibleIn(chains'[k]) = VisibleIn(chains[k])
                              /\ Hidden(chains'[k]) \subseteq Hidden(chains[k])
                              /\ \A v \in Hidden(chains'[k]) : v.gen # txns[t].generation
<1> DEFINE g == txns[t].generation
<1>1. chains \in [Keys -> SUBSET Versions] /\ \A k \in Keys : SoundChain(chains[k])
  BY DEF MonotonicBooks, ChainsSound
<1>2. \A k \in Keys : chains'[k] = IF txns[t].staged /\ k \in txns[t].listed THEN Without(chains[k], g) ELSE chains[k]
  BY DEF Unstaged
<1>3. ASSUME NEW k \in Keys
      PROVE  /\ VisibleIn(chains'[k]) = VisibleIn(chains[k])
             /\ Hidden(chains'[k]) \subseteq Hidden(chains[k])
             /\ \A v \in Hidden(chains'[k]) : v.gen # g
             /\ chains'[k] \subseteq chains[k]
  <2>1. \A v \in chains[k] : v.gen = g =>
          /\ k \in txns[t].listed => ~v.visible /\ txns[t].staged
          /\ ~v.visible => txns[t].staged /\ k \in txns[t].listed
    BY OwnGeneration DEF Owns
  <2>2. CASE txns[t].staged /\ k \in txns[t].listed
    <3>1. chains'[k] = {v \in chains[k] : v.gen # g}
      BY <1>2, <2>2 DEF Without
    <3>2. QED
      BY <2>1, <2>2, <3>1 DEF VisibleIn, Hidden
  <2>3. CASE ~(txns[t].staged /\ k \in txns[t].listed)
    <3>1. chains'[k] = chains[k]
      BY <1>2, <2>3
    <3>2. QED
      BY <2>1, <2>3, <3>1 DEF VisibleIn, Hidden
  <2>4. QED
    BY <2>2, <2>3
<1>4. ASSUME NEW k \in Keys PROVE SoundChain(chains'[k])
  <2>1. chains'[k] \subseteq chains[k]
    BY <1>3
  <2>2. IsFiniteSet(chains'[k])
    BY <1>1, <2>1, FS_Subset DEF SoundChain
  <2>3. QED
    BY <1>1, <2>1, <2>2 DEF SoundChain
<1>5. chains' \in [Keys -> SUBSET Versions]
  <2>1. CASE txns[t].staged
    <3>1. \A k \in Keys : Without(chains[k], g) \subseteq Versions
      BY <1>1 DEF Without
    <3>2. QED
      BY <1>1, <2>1, <3>1 DEF Unstaged
  <2>2. CASE ~txns[t].staged
    BY <1>1, <2>2
  <2>3. QED
    BY <2>1, <2>2
<1>6. QED
  BY <1>3, <1>4, <1>5 DEF ChainsSound

\* What others staged is still theirs once one transaction took its own back.
LEMMA UnstagedOwners ==
    ASSUME MonotonicBooks, NEW t \in Open,
           \A k \in Keys : /\ Hidden(chains'[k]) \subseteq Hidden(chains[k])
                           /\ \A v \in Hidden(chains'[k]) : v.gen # txns[t].generation,
           \A u \in Open : u # t => u \in DOMAIN txns' /\ txns'[u] = txns[u]
    PROVE  StagedOwned'
<1>1. ASSUME NEW k \in Keys, NEW v \in Hidden(chains'[k])
      PROVE  \E u \in DOMAIN txns' : Owns(txns'[u], k, v)
  <2>1. PICK u \in Open : Owns(txns[u], k, v)
    BY <1>1 DEF MonotonicBooks, StagedOwned
  <2>2. u # t
    BY <2>1, <1>1 DEF Owns
  <2>3. QED
    BY <2>1, <2>2
<1>2. QED
  BY <1>1 DEF StagedOwned, Open

\* A transaction goes.
LEMMA DropCall ==
    ASSUME MonotonicBooks, NEW t \in Open, Drop(t)
    PROVE  MonotonicBooks'
<1>1. /\ ChainsSound'
      /\ \A k \in Keys : /\ VisibleIn(chains'[k]) = VisibleIn(chains[k])
                         /\ Hidden(chains'[k]) \subseteq Hidden(chains[k])
                         /\ \A v \in Hidden(chains'[k]) : v.gen # txns[t].generation
  BY UnstagedChains DEF Drop
<1>2. txns' = [u \in Open \ {t} |-> txns[u]] /\ UNCHANGED <<visibleCount, deletedCount>>
  BY DEF Drop
<1>3. DOMAIN txns' = Open \ {t} /\ \A u \in Open \ {t} : txns'[u] = txns[u]
  BY <1>2
<1>4. FramesSound'
  <2>1. IsFiniteSet(Open) /\ Open \subseteq Transactions /\ \A u \in Open : SoundFrame(txns[u]) /\ txns[u] \in Frames
    BY DEF MonotonicBooks, FramesSound, SoundFrame
  <2>2. IsFiniteSet(Open \ {t})
    BY <2>1, FS_RemoveElement
  <2>3. txns' \in [Open \ {t} -> Frames]
    BY <1>2, <2>1
  <2>4. QED
    BY <1>3, <2>1, <2>2, <2>3 DEF FramesSound, Open
<1>5. Quiet(t)
  BY <1>1, <1>2, <1>3 DEF Quiet
<1>6. StagedOwned'
  BY <1>1, <1>3, UnstagedOwners
<1>7. QED
  BY <1>1, <1>4, <1>5, <1>6, QuietStep

\* A transaction starts over.
LEMMA ResetCall ==
    ASSUME MonotonicBooks, NEW t \in Open, Reset(t)
    PROVE  MonotonicBooks'
<1> DEFINE g == FreshGeneration
           f == Opened(g)
<1>1. /\ ChainsSound'
      /\ \A k \in Keys : /\ VisibleIn(chains'[k]) = VisibleIn(chains[k])
                         /\ Hidden(chains'[k]) \subseteq Hidden(chains[k])
                         /\ \A v \in Hidden(chains'[k]) : v.gen # txns[t].generation
  BY UnstagedChains DEF Reset
<1>2. g \in Nat \ {0} /\ g \notin Remembered
  BY FreshIs
<1>3. SoundFrame(f) /\ f.generation = g /\ f.watches = {}
  BY <1>2, OpenedSound
<1>4. txns' = [txns EXCEPT ![t] = f] /\ UNCHANGED <<visibleCount, deletedCount>>
  BY DEF Reset
<1> HIDE DEF f
<1>5. /\ FramesSound' /\ DOMAIN txns' = Open /\ txns'[t] = f
      /\ \A u \in Open : u # t => txns'[u] = txns[u]
  BY <1>3, <1>4, FrameReplaced
<1>6. Quiet(t)
  BY <1>1, <1>2, <1>3, <1>4, <1>5 DEF Quiet
<1>7. StagedOwned'
  BY <1>1, <1>5, UnstagedOwners
<1>8. QED
  BY <1>1, <1>5, <1>6, <1>7, QuietStep

\* The frame of a transaction that took its writes back.
RolledBack(u, c, g) == [u EXCEPT !.staged = FALSE, !.changes = c, !.generation = g]

\* It is sound, and has what it took back pending.
LEMMA RolledBackFrame ==
    ASSUME NEW u, SoundFrame(u), NEW g \in Nat \ {0}, NEW c \in Writings, DOMAIN c \subseteq u.listed
    PROVE  /\ SoundFrame(RolledBack(u, c, g))
           /\ RolledBack(u, c, g).generation = g /\ RolledBack(u, c, g).watches = u.watches
           /\ RolledBack(u, c, g).changes = c /\ RolledBack(u, c, g).listed = u.listed
           /\ RolledBack(u, c, g).committed = u.committed /\ ~RolledBack(u, c, g).staged
<1> DEFINE f == RolledBack(u, c, g)
<1>1. u \in Frames
  BY DEF SoundFrame
<1>2. /\ f \in Frames /\ f.generation = g /\ f.watches = u.watches /\ f.changes = c
      /\ f.listed = u.listed
  BY <1>1 DEF Frames, RolledBack
<1>3. f.staged = FALSE /\ f.committed = u.committed
  BY <1>1 DEF Frames, RolledBack
<1> HIDE DEF f
<1>4. SoundFrame(f)
  BY <1>2, <1>3 DEF SoundFrame
<1>5. QED
  BY <1>2, <1>3, <1>4 DEF f

\* rollback
LEMMA RollbackCall ==
    ASSUME MonotonicBooks, NEW t \in Open, NEW lost, Rollback(t, lost)
    PROVE  MonotonicBooks'
<1> DEFINE g == FreshGeneration
           found == {k \in txns[t].listed \ lost : StagedVersions(t, k) # {}}
           c == [k \in found |-> (CHOOSE v \in StagedVersions(t, k) : TRUE).payload]
           f == RolledBack(txns[t], c, g)
<1>1. /\ ChainsSound'
      /\ \A k \in Keys : /\ VisibleIn(chains'[k]) = VisibleIn(chains[k])
                         /\ Hidden(chains'[k]) \subseteq Hidden(chains[k])
                         /\ \A v \in Hidden(chains'[k]) : v.gen # txns[t].generation
  <2>1. chains' = IF txns[t].staged THEN Unstaged(t, txns[t].listed) ELSE chains
    BY DEF Rollback
  <2>2. QED
    BY <2>1, UnstagedChains
<1>2. g \in Nat \ {0} /\ g \notin Remembered
  BY FreshIs
<1>3. txns[t] \in Frames /\ txns[t].listed \subseteq Keys
  BY FrameFields DEF MonotonicBooks, FramesSound
<1>4. \A k \in found : (CHOOSE v \in StagedVersions(t, k) : TRUE).payload \in Payloads \cup {Absent}
  <2> TAKE k \in found
  <2>1. (CHOOSE v \in StagedVersions(t, k) : TRUE) \in StagedVersions(t, k)
    OBVIOUS
  <2>2. StagedVersions(t, k) \subseteq Versions
    BY <1>3 DEF StagedVersions, MonotonicBooks, ChainsSound, SoundChain
  <2>3. QED
    BY <2>1, <2>2, VersionFields
<1>5. c \in [found -> Payloads \cup {Absent}] /\ found \subseteq txns[t].listed
  BY <1>4
<1>6. txns' = [txns EXCEPT ![t] = f] /\ UNCHANGED <<visibleCount, deletedCount>>
  BY DEF Rollback, RolledBack
<1> HIDE DEF c, found
<1>7. SoundFrame(f) /\ f.generation = g /\ f.watches = txns[t].watches /\ f.committed = txns[t].committed
  <2> DEFINE u == txns[t]
  <2>1. SoundFrame(u) /\ u.listed \subseteq Keys
    BY <1>3 DEF MonotonicBooks, FramesSound
  <2>2. DOMAIN c = found /\ c \in Writings
    BY <1>3, <1>5, WritingIs
  <2>3. DOMAIN c \subseteq u.listed
    BY <1>5, <2>2
  <2> HIDE DEF u, g
  <2>4. /\ SoundFrame(RolledBack(u, c, g)) /\ RolledBack(u, c, g).generation = g
        /\ RolledBack(u, c, g).watches = u.watches /\ RolledBack(u, c, g).committed = u.committed
    BY <2>1, <2>2, <2>3, <1>2, RolledBackFrame
  <2>5. QED
    BY <2>4 DEF u
<1> HIDE DEF f
<1>8. /\ FramesSound' /\ DOMAIN txns' = Open /\ txns'[t] = f
      /\ \A u \in Open : u # t => txns'[u] = txns[u]
  BY <1>6, <1>7, FrameReplaced
<1>9. Quiet(t)
  BY <1>1, <1>2, <1>6, <1>7, <1>8 DEF Quiet
<1>10. StagedOwned'
  BY <1>1, <1>8, UnstagedOwners
<1>11. QED
  BY <1>1, <1>8, <1>9, <1>10, QuietStep

\* A staging that ran out of memory leaves all as it was.
LEMMA StageFailsCall ==
    ASSUME MonotonicBooks, NEW t \in Open, NEW reserved \in SUBSET txns[t].listed, StageFails(t, reserved)
    PROVE  UNCHANGED vars
<1>1. \A k \in reserved : k \in Keys /\ \A v \in chains[k] : v.gen # txns[t].generation
  <2>1. txns[t].listed \subseteq Keys /\ ~txns[t].staged
    BY FrameFields DEF MonotonicBooks, FramesSound, StageFails, Pending
  <2>2. QED
    BY <2>1, OwnGeneration
<1>2. \A k \in Keys : (IF k \in reserved THEN Without(chains[k], txns[t].generation) ELSE chains[k]) = chains[k]
  BY <1>1 DEF Without
<1>3. chains \in [Keys -> SUBSET Versions]
  BY DEF MonotonicBooks, ChainsSound
<1>4. chains' = chains
  BY <1>2, <1>3 DEF StageFails, Unstaged
<1>5. QED
  BY <1>4 DEF StageFails, vars

\* What staging files under a listed key.
Files(t, k, p) == chains'[k] = chains[k] \cup {Staged(txns[t].generation, p)}

\* Staging adds one hidden version to a listed key, of the pending payload if there is one.
LEMMA StagedChains ==
    ASSUME MonotonicBooks, NEW t \in Open, Stage(t)
    PROVE  /\ \A k \in Keys : k \notin txns[t].listed => chains'[k] = chains[k]
           /\ \A k \in Keys : Stages(t, k) =>
                k \in txns[t].listed /\ Files(t, k, txns[t].changes[k])
                /\ txns[t].changes[k] \in Payloads \cup {Absent}
           /\ \A k \in txns[t].listed : ~Stages(t, k) => chains'[k] = chains[k] \/ Files(t, k, KeyOnly)
           /\ \A k \in txns[t].listed : k \in Keys /\ \A v \in chains[k] : v.gen # txns[t].generation
<1> DEFINE g == txns[t].generation
<1>1. /\ txns[t].listed \subseteq Keys /\ ~txns[t].staged /\ txns[t].changes \in Writings
      /\ DOMAIN txns[t].changes \subseteq txns[t].listed
  BY FrameFields DEF MonotonicBooks, FramesSound, SoundFrame, Stage, Pending
<1>2. \A k \in txns[t].listed : k \in Keys /\ \A v \in chains[k] : v.gen # g
  BY <1>1, OwnGeneration
<1>3. \A k \in Keys : chains'[k] = IF k \in txns[t].listed THEN Attached(t, k) ELSE chains[k]
  BY DEF Stage
<1>4. ASSUME NEW k \in txns[t].listed PROVE Without(Reserved(t, k), g) = chains[k]
  <2>1. CASE chains[k] = {}
    BY <2>1, VersionMade DEF Without, Reserved
  <2>2. CASE chains[k] # {}
    BY <2>2, <1>2 DEF Without, Reserved
  <2>3. QED
    BY <2>1, <2>2
<1>5. ASSUME NEW k \in txns[t].listed, Stages(t, k)
      PROVE  Files(t, k, txns[t].changes[k])
  BY <1>2, <1>3, <1>4, <1>5 DEF Attached, Files
<1>6. ASSUME NEW k \in txns[t].listed, ~Stages(t, k)
      PROVE  chains'[k] = chains[k] \/ Files(t, k, KeyOnly)
  BY <1>2, <1>3, <1>6 DEF Attached, Files, Reserved
<1>7. \A k \in DOMAIN txns[t].changes : txns[t].changes[k] \in Payloads \cup {Absent}
  BY <1>1, WritingIs
<1>8. QED
  BY <1>1, <1>2, <1>3, <1>5, <1>6, <1>7 DEF Stages

\* A hidden version of a generation the chain has not leaves it sound.
LEMMA FiledSound ==
    ASSUME NEW chain, SoundChain(chain), NEW v \in Versions, ~v.visible, \A w \in chain : w.gen # v.gen
    PROVE  /\ SoundChain(chain \cup {v})
           /\ VisibleIn(chain \cup {v}) = VisibleIn(chain)
           /\ Hidden(chain \cup {v}) = Hidden(chain) \cup {v}
<1>1. IsFiniteSet(chain \cup {v})
  BY FS_AddElement DEF SoundChain
<1>2. QED
  BY <1>1 DEF SoundChain, VisibleIn, Hidden

\* The frame of a transaction that staged.
StagedFrame(u) == [u EXCEPT !.staged = TRUE, !.changes = <<>>]

\* It is sound, and has nothing pending.
LEMMA StagedFrameIs ==
    ASSUME NEW u, SoundFrame(u)
    PROVE  /\ SoundFrame(StagedFrame(u)) /\ StagedFrame(u).staged
           /\ StagedFrame(u).generation = u.generation /\ StagedFrame(u).watches = u.watches
           /\ StagedFrame(u).listed = u.listed /\ StagedFrame(u).committed = u.committed
           /\ StagedFrame(u).changes = <<>>
<1> DEFINE c == <<>>
           f == StagedFrame(u)
<1>1. u \in Frames /\ c \in Writings /\ DOMAIN c = {}
  BY NothingWritten DEF SoundFrame
<1>2. f = [u EXCEPT !.staged = TRUE, !.changes = c]
  BY DEF StagedFrame
<1>3. c = <<>>
  OBVIOUS
<1> HIDE DEF c, f
<1>4. /\ f \in Frames /\ f.generation = u.generation /\ f.watches = u.watches /\ f.changes = c
      /\ f.listed = u.listed
  BY <1>1, <1>2 DEF Frames
<1>5. f.staged = TRUE /\ f.committed = u.committed
  BY <1>1, <1>2 DEF Frames
<1>6. SoundFrame(f)
  BY <1>1, <1>3, <1>4, <1>5 DEF SoundFrame
<1>7. QED
  BY <1>3, <1>4, <1>5, <1>6 DEF f

\* stage
LEMMA StageCall ==
    ASSUME MonotonicBooks, NEW t \in Open, Stage(t)
    PROVE  MonotonicBooks'
<1> DEFINE g == txns[t].generation
           f == StagedFrame(txns[t])
<1>1. /\ SoundFrame(txns[t]) /\ g \in Nat \ {0} /\ ~txns[t].staged
      /\ chains \in [Keys -> SUBSET Versions]
  BY FrameFields DEF MonotonicBooks, FramesSound, ChainsSound, SoundFrame, Stage, Pending
<1>2. \A k \in Keys : SoundChain(chains[k]) /\ chains[k] \subseteq Versions
  BY DEF MonotonicBooks, ChainsSound, SoundChain
<1>3. KeyOnly \in Payloads \cup {Absent}
  BY KeysAre
<1>4. \A k \in Keys : \/ chains'[k] = chains[k]
                      \/ /\ k \in txns[t].listed /\ \A v \in chains[k] : v.gen # g
                         /\ \E p \in Payloads \cup {Absent} : Files(t, k, p)
  BY <1>3, StagedChains
<1>5. ASSUME NEW k \in Keys
      PROVE  /\ SoundChain(chains'[k]) /\ VisibleIn(chains'[k]) = VisibleIn(chains[k])
             /\ \A v \in Hidden(chains'[k]) :
                  v \in Hidden(chains[k]) \/ (k \in txns[t].listed /\ v.gen = g)
  <2>1. CASE chains'[k] = chains[k]
    BY <2>1, <1>2
  <2>2. ASSUME NEW p \in Payloads \cup {Absent}, Files(t, k, p), k \in txns[t].listed,
               \A v \in chains[k] : v.gen # g
        PROVE  /\ SoundChain(chains'[k]) /\ VisibleIn(chains'[k]) = VisibleIn(chains[k])
               /\ \A v \in Hidden(chains'[k]) :
                    v \in Hidden(chains[k]) \/ (k \in txns[t].listed /\ v.gen = g)
    <3> DEFINE n == Staged(g, p)
    <3>1. n \in Versions /\ ~n.visible /\ n.gen = g
      BY <1>1, VersionMade
    <3>2. chains'[k] = chains[k] \cup {n}
      BY <2>2 DEF Files
    <3> HIDE DEF n, g
    <3>3. /\ SoundChain(chains[k] \cup {n}) /\ VisibleIn(chains[k] \cup {n}) = VisibleIn(chains[k])
          /\ Hidden(chains[k] \cup {n}) = Hidden(chains[k]) \cup {n}
      BY <3>1, <1>2, <2>2, FiledSound
    <3>4. QED
      BY <2>2, <3>1, <3>2, <3>3
  <2>3. QED
    BY <1>4, <2>1, <2>2
<1>6. ChainsSound'
  <2>1. \A k \in Keys : chains'[k] \subseteq Versions
    BY <1>5 DEF SoundChain
  <2>2. chains' = [k \in Keys |-> chains'[k]]
    BY DEF Stage
  <2>3. chains' \in [Keys -> SUBSET Versions]
    BY <2>1, <2>2
  <2>4. QED
    BY <1>5, <2>3 DEF ChainsSound
<1>7. txns' = [txns EXCEPT ![t] = f] /\ UNCHANGED <<visibleCount, deletedCount>>
  BY DEF Stage, StagedFrame
<1>8. /\ SoundFrame(f) /\ f.staged /\ f.generation = g /\ f.watches = txns[t].watches
      /\ f.listed = txns[t].listed /\ f.committed = txns[t].committed
  <2> DEFINE u == txns[t]
  <2> HIDE DEF u
  <2>1. SoundFrame(u) => /\ SoundFrame(StagedFrame(u)) /\ StagedFrame(u).staged
           /\ StagedFrame(u).generation = u.generation /\ StagedFrame(u).watches = u.watches
           /\ StagedFrame(u).listed = u.listed /\ StagedFrame(u).committed = u.committed
    BY StagedFrameIs
  <2>2. QED
    BY <2>1, <1>1 DEF u
<1> HIDE DEF f
<1>9. /\ FramesSound' /\ DOMAIN txns' = Open /\ txns'[t] = f
      /\ \A u \in Open : u # t => txns'[u] = txns[u]
  BY <1>7, <1>8, FrameReplaced
<1>10. Quiet(t)
  BY <1>5, <1>7, <1>8, <1>9 DEF Quiet
<1>11. StagedOwned'
  <2>1. ASSUME NEW k \in Keys, NEW v \in Hidden(chains'[k])
        PROVE  \E u \in DOMAIN txns' : Owns(txns'[u], k, v)
    <3>1. CASE v \in Hidden(chains[k])
      <4>1. PICK u \in Open : Owns(txns[u], k, v)
        BY <3>1 DEF MonotonicBooks, StagedOwned
      <4>2. u # t
        BY <4>1, <1>1 DEF Owns
      <4>3. QED
        BY <4>1, <4>2, <1>9
    <3>2. CASE k \in txns[t].listed /\ v.gen = g
      <4>1. Owns(txns'[t], k, v)
        BY <3>2, <1>8, <1>9 DEF Owns
      <4>2. QED
        BY <4>1, <1>9
    <3>3. QED
      BY <2>1, <1>5, <3>1, <3>2
  <2>2. QED
    BY <2>1 DEF StagedOwned, Open
<1>12. QED
  BY <1>6, <1>9, <1>10, <1>11, QuietStep

----------------------------------------------------------------------------
(* Commits.                                                                *)

\* What a commit makes of a listed key: what the transaction staged shows, and
\* nothing else; what others staged stays hidden.
LEMMA UnmaskedChain ==
    ASSUME MonotonicBooks, NEW t \in Open, NEW k \in txns[t].listed, k \in Keys
    PROVE  LET g == txns[t].generation
               new == Unmasked(t, k)
           IN  /\ new \subseteq Versions
               /\ Hidden(new) = {v \in Hidden(chains[k]) : v.gen # g}
               /\ VisibleIn(new) = {Visible(g, v.payload) : v \in {w \in Hidden(chains[k]) : w.gen = g}}
               /\ StagedVersions(t, k) = {w \in Hidden(chains[k]) : w.gen = g}
               /\ VisibleIn(new) = {} \/ \E p \in Payloads \cup {Absent} : VisibleIn(new) = {Visible(g, p)}
               /\ Displaced(t, k) = VisibleIn(chains[k])
<1> DEFINE g == txns[t].generation
           new == Unmasked(t, k)
           own == {w \in Hidden(chains[k]) : w.gen = g}
           show(v) == Visible(g, v.payload)
<1>1. SoundChain(chains[k]) /\ chains[k] \subseteq Versions /\ g \in Nat \ {0}
  BY FrameFields DEF MonotonicBooks, ChainsSound, FramesSound, SoundChain
<1>2. \A v \in chains[k] : v.gen = g => ~v.visible
  BY OwnGeneration
<1>3. Displaced(t, k) = VisibleIn(chains[k]) /\ StagedVersions(t, k) = own
  BY <1>2 DEF Displaced, VisibleIn, StagedVersions, Hidden
<1>4. \A v \in Hidden(chains[k]) : v \in Versions /\ ~v.visible /\ v.payload \in Payloads \cup {Absent}
  BY <1>1, VersionFields, ChainSplit
<1>5. \A v \in own : show(v) \in Versions /\ show(v).visible
  BY <1>1, <1>4, VersionMade
<1> HIDE DEF show
<1>6. new = {IF v.gen = g THEN show(v) ELSE v : v \in Hidden(chains[k])}
  <2>1. new = {IF v.gen = g THEN Visible(v.gen, v.payload) ELSE v : v \in chains[k] \ Displaced(t, k)}
    BY DEF Unmasked
  <2>2. chains[k] \ Displaced(t, k) = Hidden(chains[k])
    BY <1>3 DEF Hidden
  <2>3. \A v \in Hidden(chains[k]) :
          (IF v.gen = g THEN Visible(v.gen, v.payload) ELSE v) = IF v.gen = g THEN show(v) ELSE v
    BY DEF show
  <2> DEFINE a(v) == IF v.gen = g THEN Visible(v.gen, v.payload) ELSE v
             b(v) == IF v.gen = g THEN show(v) ELSE v
  <2>4. \A v \in Hidden(chains[k]) : a(v) = b(v)
    BY <2>3
  <2>5. new = {a(v) : v \in Hidden(chains[k])}
    BY <2>1, <2>2
  <2> HIDE DEF a, b, new
  <2>6. new = {b(v) : v \in Hidden(chains[k])}
    BY <2>4, <2>5
  <2>7. QED
    BY <2>6 DEF b
<1> HIDE DEF new
<1>7. \A x : x \in new <=> \/ x \in Hidden(chains[k]) /\ x.gen # g
                           \/ \E v \in own : x = show(v)
  BY <1>6
<1>8. new \subseteq Versions
  BY <1>4, <1>5, <1>7
<1>9. Hidden(new) = {v \in Hidden(chains[k]) : v.gen # g}
  BY <1>4, <1>5, <1>7 DEF Hidden, VisibleIn
<1>10. VisibleIn(new) = {show(v) : v \in own}
  <2>1. \A x \in new : x.visible <=> \E v \in own : x = show(v)
    BY <1>4, <1>5, <1>7
  <2>2. QED
    BY <2>1, <1>7 DEF VisibleIn
<1>11. \A v, w \in own : v = w
  BY <1>1 DEF SoundChain, Hidden
<1>12. VisibleIn(new) = {} \/ \E p \in Payloads \cup {Absent} : VisibleIn(new) = {Visible(g, p)}
  <2>1. CASE own = {}
    BY <2>1, <1>10
  <2>2. ASSUME NEW v \in own PROVE \E p \in Payloads \cup {Absent} : VisibleIn(new) = {Visible(g, p)}
    <3>1. VisibleIn(new) = {show(v)}
      BY <1>10, <1>11, <2>2
    <3>2. v.payload \in Payloads \cup {Absent}
      BY <1>4, <2>2
    <3>3. QED
      BY <3>1, <3>2 DEF show
  <2>3. QED
    BY <2>1, <2>2
<1>13. QED
  BY <1>3, <1>8, <1>9, <1>10, <1>12 DEF new, show

\* The frame of a transaction that committed.
CommittedFrame(u) == [u EXCEPT !.staged = FALSE, !.listed = {}, !.committed = TRUE]

\* It is sound, and has nothing listed.
LEMMA CommittedFrameIs ==
    ASSUME NEW u, SoundFrame(u), u.staged
    PROVE  /\ SoundFrame(CommittedFrame(u)) /\ ~CommittedFrame(u).staged /\ CommittedFrame(u).committed
           /\ CommittedFrame(u).generation = u.generation /\ CommittedFrame(u).watches = u.watches
           /\ CommittedFrame(u).listed = {} /\ CommittedFrame(u).changes = <<>>
<1> DEFINE f == CommittedFrame(u)
<1>1. u \in Frames /\ u.changes = <<>> /\ DOMAIN <<>> = {}
  BY NothingWritten DEF SoundFrame
<1>2. /\ f \in Frames /\ f.generation = u.generation /\ f.watches = u.watches /\ f.changes = u.changes
      /\ f.listed = {}
  BY <1>1 DEF CommittedFrame, Frames
<1>3. f.staged = FALSE /\ f.committed = TRUE
  BY <1>1 DEF CommittedFrame, Frames
<1> DEFINE c == u.changes
<1>4. DOMAIN c = {}
  <2>1. c = <<>>
    BY <1>1
  <2> HIDE DEF c
  <2>2. QED
    BY <1>1, <2>1
<1> HIDE DEF f
<1>5. SoundFrame(f)
  BY <1>1, <1>2, <1>3, <1>4 DEF SoundFrame
<1>6. QED
  BY <1>1, <1>2, <1>3, <1>5 DEF f

\* The frames a commit leaves.
LEMMA PublishFrames ==
    ASSUME MonotonicBooks, NEW t \in Open, Publish(t), NEW ks, ks = txns[t].listed
    PROVE  /\ DOMAIN txns' = Open /\ FramesSound'
           /\ \A u \in Open : /\ txns'[u].generation = txns[u].generation
                              /\ txns'[u].watches = Disturbed(txns[u], ks).watches
           /\ \A u \in Open : u # t =>
                /\ txns'[u].staged = txns[u].staged /\ txns'[u].listed = txns[u].listed
                /\ txns'[u].changes = txns[u].changes /\ txns'[u].committed = txns[u].committed
           /\ ~txns'[t].staged /\ txns'[t].committed /\ txns'[t].listed = {} /\ txns'[t].changes = <<>>
<1> DEFINE f == CommittedFrame(txns[t])
           F == [txns EXCEPT ![t] = f]
<1>1. /\ txns \in [Open -> Frames] /\ \A u \in Open : SoundFrame(txns[u]) /\ txns[u] \in Frames
      /\ txns[t].staged
  BY DEF MonotonicBooks, FramesSound, SoundFrame, Publish
<1>2. txns' = Disturb(F, ks)
  BY DEF Publish, CommittedFrame
<1>3. /\ SoundFrame(f) /\ f.generation = txns[t].generation /\ f.watches = txns[t].watches
      /\ f.listed = {} /\ f.changes = <<>> /\ ~f.staged /\ f.committed
  <2> DEFINE u == txns[t]
  <2> HIDE DEF u
  <2>1. SoundFrame(u) /\ u.staged =>
           /\ SoundFrame(CommittedFrame(u)) /\ ~CommittedFrame(u).staged /\ CommittedFrame(u).committed
           /\ CommittedFrame(u).generation = u.generation /\ CommittedFrame(u).watches = u.watches
           /\ CommittedFrame(u).listed = {} /\ CommittedFrame(u).changes = <<>>
    BY CommittedFrameIs
  <2>2. QED
    BY <2>1, <1>1 DEF u
<1> HIDE DEF f
<1>4. DOMAIN F = Open /\ F[t] = f /\ \A u \in Open : u # t => F[u] = txns[u]
  BY <1>1
<1> HIDE DEF F
<1>5. DOMAIN txns' = Open /\ \A u \in Open : txns'[u] = Disturbed(F[u], ks)
  BY <1>2, <1>4 DEF Disturb
<1>6. \A u \in Open : SoundFrame(F[u]) /\ F[u] \in Frames
  BY <1>1, <1>3, <1>4 DEF SoundFrame
<1>7. \A u \in Open : SoundFrame(txns'[u]) /\ txns'[u] \in Frames
  BY <1>5, <1>6, DisturbedSound DEF SoundFrame
<1>8. txns' \in [Open -> Frames]
  <2>1. txns' = [u \in Open |-> Disturbed(F[u], ks)]
    BY <1>2, <1>4 DEF Disturb
  <2>2. QED
    BY <2>1, <1>5, <1>7
<1>9. FramesSound'
  BY <1>5, <1>7, <1>8 DEF FramesSound, MonotonicBooks, Open
<1>10. \A u \in Open :
         /\ txns'[u].generation = F[u].generation /\ txns'[u].staged = F[u].staged
         /\ txns'[u].listed = F[u].listed /\ txns'[u].changes = F[u].changes
         /\ txns'[u].committed = F[u].committed
         /\ txns'[u].watches = {[w EXCEPT !.moved = w.moved \/ w.key \in ks] : w \in F[u].watches}
  BY <1>5, <1>6, DisturbedFields
<1>11. \A u \in Open : F[u].generation = txns[u].generation /\ F[u].watches = txns[u].watches
  BY <1>3, <1>4
<1>12. \A u \in Open : Disturbed(txns[u], ks).watches
                        = {[w EXCEPT !.moved = w.moved \/ w.key \in ks] : w \in txns[u].watches}
  BY <1>1, DisturbedFields
<1>13. \A u \in Open : txns'[u].watches = Disturbed(txns[u], ks).watches
  BY <1>10, <1>11, <1>12
<1>14. \A u \in Open : u # t =>
                /\ txns'[u].staged = txns[u].staged /\ txns'[u].listed = txns[u].listed
                /\ txns'[u].changes = txns[u].changes /\ txns'[u].committed = txns[u].committed
  BY <1>4, <1>10
<1>15. ~txns'[t].staged /\ txns'[t].committed /\ txns'[t].listed = {} /\ txns'[t].changes = <<>>
  BY <1>3, <1>4, <1>10
<1>16. QED
  BY <1>5, <1>9, <1>10, <1>11, <1>13, <1>14, <1>15

\* A commit is loud over what the transaction listed.
LEMMA PublishLoud ==
    ASSUME MonotonicBooks, NEW t \in Open, Publish(t), NEW ks \in SUBSET Keys, ks = txns[t].listed
    PROVE  /\ \E g \in Nat \ {0} : Loud(ks, ks, g)
           /\ \A k \in Keys : chains'[k] = IF k \in ks THEN Unmasked(t, k) ELSE chains[k]
<1> DEFINE g == txns[t].generation
           h == IF ks = {} THEN FreshGeneration ELSE g
<1>1. \A k \in Keys : chains'[k] = IF k \in ks THEN Unmasked(t, k) ELSE chains[k]
  BY DEF Publish
<1>2. \A k \in ks : /\ Unmasked(t, k) \subseteq Versions
                    /\ Hidden(Unmasked(t, k)) = {v \in Hidden(chains[k]) : v.gen # g}
                    /\ \/ VisibleIn(Unmasked(t, k)) = {}
                       \/ \E p \in Payloads \cup {Absent} : VisibleIn(Unmasked(t, k)) = {Visible(g, p)}
  BY UnmaskedChain
<1>3. chains \in [Keys -> SUBSET Versions]
  BY DEF MonotonicBooks, ChainsSound
<1>4. chains' \in [Keys -> SUBSET Versions]
  <2>1. chains' = [k \in Keys |-> IF k \in ks THEN Unmasked(t, k) ELSE chains[k]]
    BY DEF Publish
  <2>2. QED
    BY <2>1, <1>2, <1>3
<1>5. \A k \in ks : Republished(k, ks, g)
  BY <1>1, <1>2 DEF Republished
<1>6. \A k \in ks : Republished(k, ks, h)
  BY <1>5
<1>7. h \in Nat \ {0} /\ \A u \in Open : \A w \in txns[u].watches : w.gen # h
  <2>1. CASE ks = {}
    BY <2>1, FreshIs, RememberedHas
  <2>2. CASE ks # {}
    <3>1. ~txns[t].committed /\ g \in Nat \ {0}
      BY <2>2, FrameFields DEF MonotonicBooks, FramesSound, SoundFrame
    <3>2. QED
      BY <2>2, <3>1 DEF MonotonicBooks, Unpublished
  <2>3. QED
    BY <2>1, <2>2
<1>8. /\ DOMAIN txns' = Open
      /\ \A u \in Open : /\ txns'[u].generation = txns[u].generation
                         /\ txns'[u].watches = Disturbed(txns[u], ks).watches
      /\ \A u \in Open : u # t =>
           /\ txns'[u].staged = txns[u].staged /\ txns'[u].listed = txns[u].listed
           /\ txns'[u].committed = txns[u].committed
      /\ txns'[t].committed
  BY PublishFrames
<1>9. \A u \in Open : txns[u].generation # FreshGeneration
  BY FreshIs, RememberedHas
<1>10. \A u \in Open : ~txns'[u].committed => ~txns[u].committed /\ txns[u].generation # h
  <2> TAKE u \in Open
  <2>1. CASE u = t
    BY <2>1, <1>8
  <2>2. CASE u # t
    <3>1. txns[u].generation # g
      BY <2>2 DEF MonotonicBooks, GensApart
    <3>2. QED
      BY <2>2, <3>1, <1>8, <1>9
  <2>3. QED
    BY <2>1, <2>2
<1>11. ASSUME NEW u \in Open, NEW k \in Keys, NEW v \in Hidden(chains'[k]), Owns(txns[u], k, v)
       PROVE  Owns(txns'[u], k, v)
  <2>1. CASE u = t
    <3>1. v.gen = g /\ k \in ks
      BY <2>1, <1>11 DEF Owns
    <3>2. v.gen # g
      BY <3>1, <1>1, <1>2, <1>11
    <3>3. QED
      BY <3>1, <3>2
  <2>2. CASE u # t
    BY <2>2, <1>8, <1>11 DEF Owns
  <2>3. QED
    BY <2>1, <2>2
<1>12. \A k \in Keys \ ks : chains'[k] = chains[k]
  BY <1>1
<1>13. Loud(ks, ks, h)
  <2> HIDE DEF h
  <2>1. QED
    BY <1>4, <1>6, <1>7, <1>8, <1>10, <1>11, <1>12 DEF Loud
<1>14. QED
  <2> HIDE DEF h
  <2>1. QED
    BY <1>1, <1>7, <1>13

\* What a commit puts up: a pair for every version it unmasks.
LEMMA PublishPairs ==
    ASSUME MonotonicBooks, NEW t \in Open, Publish(t), NEW ks \in SUBSET Keys, ks = txns[t].listed,
           NEW come, come = {p \in ks \X (UNION {chains[k] : k \in ks}) :
                               p[2] \in StagedVersions(t, p[1]) /\ ~p[2].visible}
    PROVE  /\ IsFiniteSet(come)
           /\ \A p \in come : p = <<p[1], p[2]>> /\ p[2] = Staged(p[2].gen, p[2].payload)
           /\ VisibleOf(ks)' = {<<p[1], Visible(p[2].gen, p[2].payload)>> : p \in come}
<1> DEFINE g == txns[t].generation
           Own(k) == {w \in Hidden(chains[k]) : w.gen = g}
           F(p) == <<p[1], Visible(p[2].gen, p[2].payload)>>
<1>1. \A k \in Keys : chains'[k] = IF k \in ks THEN Unmasked(t, k) ELSE chains[k]
  BY PublishLoud
<1>2. \A k \in ks : /\ VisibleIn(Unmasked(t, k)) = {Visible(g, v.payload) : v \in Own(k)}
                    /\ StagedVersions(t, k) = Own(k)
  BY UnmaskedChain
<1>3. \A k \in ks : Own(k) \subseteq chains[k] /\ \A v \in Own(k) : ~v.visible /\ v.gen = g /\ v \in Versions
  BY ChainSplit DEF MonotonicBooks, ChainsSound, SoundChain
<1> HIDE DEF Own
<1>4. \A p : p \in come <=> \E k \in ks : \E v \in Own(k) : p = <<k, v>>
  BY <1>2, <1>3
<1>5. \A p \in come : p = <<p[1], p[2]>> /\ p[2] = Staged(p[2].gen, p[2].payload) /\ p[2].gen = g
  BY <1>3, <1>4, VersionRemade
<1>6. IsFiniteSet(come)
  <2> DEFINE C == {chains[k] : k \in ks}
             f == [k \in ks |-> chains[k]]
  <2>1. IsFiniteSet(ks)
    BY KeysAre, FS_Subset
  <2>2. IsFiniteSet({f[k] : k \in ks}) /\ {f[k] : k \in ks} = C
    <3>1. DOMAIN f = ks /\ {f[k] : k \in ks} = C
      OBVIOUS
    <3> HIDE DEF f
    <3>2. QED
      BY <2>1, <3>1, FiniteImage
  <2>3. \A c \in C : IsFiniteSet(c)
    BY DEF MonotonicBooks, ChainsSound, SoundChain
  <2>4. come \subseteq ks \X (UNION C)
    OBVIOUS
  <2> HIDE DEF C
  <2>5. IsFiniteSet(ks \X (UNION C))
    BY <2>1, <2>2, <2>3, FS_UNION, FS_Product
  <2>6. QED
    BY <2>4, <2>5, FS_Subset
<1>7. \A p : p \in VisibleOf(ks)' <=> \E k \in ks : \E v \in VisibleIn(chains'[k]) : p = <<k, v>>
  BY DEF VisibleOf, VisibleIn
<1>8. \A p : p \in VisibleOf(ks)' <=> \E k \in ks : \E v \in Own(k) : p = <<k, Visible(g, v.payload)>>
  BY <1>1, <1>2, <1>7
<1>9. \A k \in ks : \A v \in Own(k) : F(<<k, v>>) = <<k, Visible(g, v.payload)>>
  BY <1>3
<1>10. \A p : p \in VisibleOf(ks)' <=> \E q \in come : p = F(q)
  <2> HIDE DEF F
  <2>1. ASSUME NEW p \in VisibleOf(ks)' PROVE \E q \in come : p = F(q)
    <3>1. PICK k \in ks : \E v \in Own(k) : p = <<k, Visible(g, v.payload)>>
      BY <2>1, <1>8
    <3>2. PICK v \in Own(k) : p = <<k, Visible(g, v.payload)>>
      BY <3>1
    <3>3. <<k, v>> \in come /\ p = F(<<k, v>>)
      BY <3>2, <1>4, <1>9
    <3>4. QED
      BY <3>3
  <2>2. ASSUME NEW q \in come PROVE F(q) \in VisibleOf(ks)'
    <3>1. PICK k \in ks : \E v \in Own(k) : q = <<k, v>>
      BY <2>2, <1>4
    <3>2. PICK v \in Own(k) : q = <<k, v>>
      BY <3>1
    <3>3. F(q) = <<k, Visible(g, v.payload)>>
      BY <3>2, <1>9
    <3>4. QED
      BY <3>2, <3>3, <1>8
  <2>3. QED
    BY <2>1, <2>2
<1>11. VisibleOf(ks)' = {F(q) : q \in come}
  <2> HIDE DEF F
  <2>1. QED
    BY <1>10
<1>12. QED
  BY <1>5, <1>6, <1>11

\* commit, and publish_under
LEMMA PublishCall ==
    ASSUME MonotonicBooks, NEW t \in Open, Publish(t)
    PROVE  MonotonicBooks'
<1>1. PICK ks \in SUBSET Keys : ks = txns[t].listed
  BY FrameFields DEF MonotonicBooks, FramesSound
<1>2. PICK come : come = {p \in ks \X (UNION {chains[k] : k \in ks}) :
                            p[2] \in StagedVersions(t, p[1]) /\ ~p[2].visible}
  OBVIOUS
<1>3. PICK g \in Nat \ {0} : Loud(ks, ks, g)
  BY <1>1, PublishLoud
<1>4. FramesSound'
  BY <1>1, PublishFrames
<1> DEFINE gone == {p \in VisibleOf(ks) : p[2] \in Displaced(t, p[1])}
           shown(p) == <<p[1], Visible(p[2].gen, p[2].payload)>>
           up == {shown(p) : p \in come}
           dead == Tombstones(come)
<1>5. gone = VisibleOf(ks)
  <2>1. \A k \in ks : Displaced(t, k) = VisibleIn(chains[k])
    BY <1>1, UnmaskedChain
  <2>2. \A p \in VisibleOf(ks) : p[1] \in ks /\ p[2] \in VisibleIn(chains[p[1]])
    BY PairsAre
  <2>3. QED
    BY <2>1, <2>2
<1>6. Counted(gone, come)
  BY <1>1, <1>2 DEF Publish
<1>7. /\ IsFiniteSet(come) /\ VisibleOf(ks)' = up
      /\ \A p \in come : p = <<p[1], p[2]>> /\ p[2] = Staged(p[2].gen, p[2].payload)
  BY <1>1, <1>2, PublishPairs
<1>8. Cardinality(up) = Cardinality(come)
  BY <1>7, UnmaskedCount
<1>9. Cardinality(Tombstones(up)) = Cardinality(dead)
  <2>1. dead \subseteq come /\ IsFiniteSet(dead)
    BY <1>7, FS_Subset DEF Tombstones
  <2> HIDE DEF dead
  <2>2. Cardinality({<<p[1], Visible(p[2].gen, p[2].payload)>> : p \in dead}) = Cardinality(dead)
    BY <1>7, <2>1, UnmaskedCount
  <2>3. Cardinality({shown(p) : p \in dead}) = Cardinality(dead)
    BY <2>2
  <2>4. \A p \in come : shown(p)[2].payload = p[2].payload
    BY VersionMade
  <2> HIDE DEF shown
  <2>5. Tombstones(up) = {shown(p) : p \in {q \in come : q[2].payload = Absent}}
    BY <2>4 DEF Tombstones
  <2>6. dead = {q \in come : q[2].payload = Absent}
    BY DEF dead, Tombstones
  <2>7. QED
    BY <2>3, <2>5, <2>6
<1> HIDE DEF gone, up, dead
<1>10. Counted(VisibleOf(ks), come) /\ Cardinality(come) = Cardinality(VisibleOf(ks)')
       /\ Cardinality(Tombstones(come)) = Cardinality(Tombstones(VisibleOf(ks)'))
  BY <1>5, <1>6, <1>7, <1>8, <1>9 DEF dead
<1>11. QED
  BY <1>3, <1>4, <1>10, LoudCounted

----------------------------------------------------------------------------
(* Walks.                                                                  *)

\* A set of naturals that is not empty has a least member.
LEMMA LeastNatural ==
    ASSUME NEW S \in SUBSET Nat, S # {}
    PROVE  \E z \in S : \A x \in S : z <= x
<1> DEFINE Below == {0 .. x : x \in S}
<1>1. Below \subseteq FiniteSubsetsOf(Nat) /\ Below # {}
  <2>1. ASSUME NEW x \in S PROVE 0 .. x \in FiniteSubsetsOf(Nat)
    <3>1. IsFiniteSet(0 .. x)
      BY FS_Interval
    <3>2. 0 .. x \subseteq Nat
      OBVIOUS
    <3>3. QED
      BY <3>1, <3>2 DEF FiniteSubsetsOf
  <2>2. QED
    BY <2>1
<1>2. PICK i \in Below : \A j \in Below : ~ (<<j, i>> \in StrictSubsetOrdering(Nat))
  BY <1>1, FS_StrictSubsetOrderingWellFounded, WFMin, Zenon
<1>3. PICK z \in S : i = 0 .. z
  OBVIOUS
<1>4. ASSUME NEW y \in S, y < z PROVE FALSE
  <2>1. z \in 0 .. z /\ z \notin 0 .. y /\ 0 .. y \subseteq 0 .. z
    BY <1>4
  <2>2. <<0 .. y, 0 .. z>> \in StrictSubsetOrdering(Nat)
    BY <2>1 DEF StrictSubsetOrdering
  <2>3. QED
    BY <2>2, <1>2, <1>3
<1>5. QED
  BY <1>4

\* Least of a set of keys: none, or the smallest of them.
LEMMA LeastIs ==
    ASSUME NEW S \in SUBSET Keys
    PROVE  /\ S = {} => Least(S) = 0
           /\ S # {} => Least(S) \in S /\ \A k \in S : Least(S) <= k
           /\ Least(S) \in Nat /\ (Least(S) = 0 <=> S = {})
<1>1. S \in SUBSET Nat /\ 0 \notin S
  BY KeysAre
<1>2. CASE S = {}
  BY <1>2 DEF Least
<1>3. CASE S # {}
  <2>1. \E z \in S : \A x \in S : z <= x
    BY <1>1, <1>3, LeastNatural
  <2>2. Least(S) = CHOOSE k \in S : \A l \in S : k <= l
    BY <1>3 DEF Least
  <2>3. Least(S) \in S /\ \A l \in S : Least(S) <= l
    BY <2>1, <2>2, Zenon
  <2>4. QED
    BY <1>1, <1>3, <2>3
<1>4. QED
  BY <1>2, <1>3

\* The keys a walk has yet to show, of either side and of both.
StagedAhead(t, from, upper) ==
    {k \in DOMAIN txns[t].changes : k >= from /\ k < upper /\ txns[t].changes[k] # Absent}
CommittedAhead(t, from, upper) ==
    {k \in Keys : k >= from /\ k < upper /\ ~Stages(t, k) /\ Readable(k) # {}}
Ahead(t, s, c, upper) == StagedAhead(t, s, upper) \cup CommittedAhead(t, c, upper)

\* A sequence shows a set of keys: each of them once, and in order.
Shows(q, S) ==
    /\ q \in Seq(Nat)
    /\ \A k : k \in S <=> \E i \in 1 .. Len(q) : q[i] = k
    /\ \A i, j \in 1 .. Len(q) : i < j => q[i] < q[j]

\* The next key, then the rest.
LEMMA ShowsMore ==
    ASSUME NEW q, NEW S \in SUBSET Nat, Shows(q, S), NEW k \in Nat, \A l \in S : k < l
    PROVE  Shows(<<k>> \o q, S \cup {k})
<1> DEFINE r == <<k>> \o q
<1>1. q \in Seq(Nat) /\ <<k>> \in Seq(Nat) /\ Len(<<k>>) = 1 /\ <<k>>[1] = k
  BY DEF Shows
<1>2. r \in Seq(Nat) /\ Len(r) = Len(q) + 1 /\ Len(q) \in Nat
  BY <1>1
<1>3. \A i \in 1 .. Len(r) : r[i] = IF i = 1 THEN k ELSE q[i - 1]
  BY <1>1
<1>4. \A i \in 1 .. Len(q) : q[i] \in S /\ q[i] \in Nat
  BY DEF Shows
<1> HIDE DEF r
<1>5. \A l : l \in S \cup {k} <=> \E i \in 1 .. Len(r) : r[i] = l
  <2>1. ASSUME NEW l \in S PROVE \E i \in 1 .. Len(r) : r[i] = l
    <3>1. PICK i \in 1 .. Len(q) : q[i] = l
      BY DEF Shows
    <3>2. i + 1 \in 1 .. Len(r) /\ r[i + 1] = l
      BY <1>2, <1>3, <3>1
    <3>3. QED
      BY <3>2
  <2>2. 1 \in 1 .. Len(r) /\ r[1] = k
    BY <1>2, <1>3
  <2>3. ASSUME NEW i \in 1 .. Len(r) PROVE r[i] \in S \cup {k}
    <3>1. CASE i = 1
      BY <1>3, <3>1
    <3>2. CASE i # 1
      <4>1. i - 1 \in 1 .. Len(q) /\ r[i] = q[i - 1]
        BY <1>2, <1>3, <3>2
      <4>2. QED
        BY <4>1, <1>4
    <3>3. QED
      BY <3>1, <3>2
  <2>4. QED
    BY <2>1, <2>2, <2>3
<1>6. ASSUME NEW i \in 1 .. Len(r), NEW j \in 1 .. Len(r), i < j PROVE r[i] < r[j]
  <2>1. j - 1 \in 1 .. Len(q) /\ r[j] = q[j - 1] /\ r[j] \in S
    BY <1>2, <1>3, <1>4, <1>6
  <2>2. CASE i = 1
    BY <2>1, <2>2, <1>3
  <2>3. CASE i # 1
    <3>1. i - 1 \in 1 .. Len(q) /\ r[i] = q[i - 1] /\ i - 1 < j - 1
      BY <1>2, <1>3, <1>6, <2>3
    <3>2. QED
      BY <2>1, <3>1 DEF Shows
  <2>4. QED
    BY <2>2, <2>3
<1>7. QED
  BY <1>2, <1>5, <1>6 DEF Shows, r

\* What the two cursors of a walk do at a place, `rest` being the walk from later places.
WalkStep(rest, t, upper, at) ==
    LET staged == NextStaged(t, at[1], upper)
        committed == NextCommitted(t, at[2], upper)
    IN  IF staged = 0 /\ committed = 0 THEN <<>>
        ELSE IF staged = 0 \/ (committed # 0 /\ committed < staged)
             THEN <<committed>> \o rest[<<at[1], committed + 1>>]
             ELSE <<staged>> \o rest[<<staged + 1, at[2]>>]

Places == Bounds \X Bounds
WalkOf(t, upper) == CHOOSE f : f = [at \in Places |-> WalkStep(f, t, upper, at)]

\* A walk is what its function gives at the place where both cursors start.
LEMMA WalkFromIs ==
    ASSUME NEW t, NEW lower, NEW upper
    PROVE  WalkFrom(t, lower, upper) = WalkOf(t, upper)[<<lower, lower>>]
BY DEF WalkFrom, WalkOf, WalkStep, Places

\* The two sides at a place, and where their cursors go.
LEMMA NextAre ==
    ASSUME MonotonicBooks, NEW t \in Open, NEW upper, NEW s \in Bounds, NEW c \in Bounds
    PROVE  LET a == NextStaged(t, s, upper)
               b == NextCommitted(t, c, upper)
           IN  /\ StagedAhead(t, s, upper) \subseteq Keys /\ CommittedAhead(t, c, upper) \subseteq Keys
               /\ a \in Nat /\ b \in Nat
               /\ a = 0 <=> StagedAhead(t, s, upper) = {}
               /\ b = 0 <=> CommittedAhead(t, c, upper) = {}
               /\ a # 0 => /\ a \in StagedAhead(t, s, upper) /\ a >= s /\ a + 1 \in Bounds
                           /\ \A k \in StagedAhead(t, s, upper) : a <= k
               /\ b # 0 => /\ b \in CommittedAhead(t, c, upper) /\ b >= c /\ b + 1 \in Bounds
                           /\ \A k \in CommittedAhead(t, c, upper) : b <= k
               /\ a # 0 => a # b
<1> DEFINE S == StagedAhead(t, s, upper)
           C == CommittedAhead(t, c, upper)
           a == NextStaged(t, s, upper)
           b == NextCommitted(t, c, upper)
<1>1. DOMAIN txns[t].changes \subseteq Keys
  BY FrameFields DEF MonotonicBooks, FramesSound, SoundFrame
<1>2. S \subseteq Keys /\ C \subseteq Keys
  BY <1>1 DEF StagedAhead, CommittedAhead
<1>3. a = Least(S) /\ b = Least(C)
  BY DEF NextStaged, NextCommitted, StagedAhead, CommittedAhead
<1>4. (\A k \in S : k >= s /\ Stages(t, k)) /\ (\A k \in C : k >= c /\ ~Stages(t, k))
  BY DEF StagedAhead, CommittedAhead, Stages
<1> HIDE DEF S, C, a, b
<1>5. /\ a \in Nat /\ (a = 0 <=> S = {}) /\ (S # {} => a \in S /\ \A k \in S : a <= k)
      /\ b \in Nat /\ (b = 0 <=> C = {}) /\ (C # {} => b \in C /\ \A k \in C : b <= k)
  BY <1>2, <1>3, LeastIs
<1>6. \A k \in Keys : k + 1 \in Bounds
  BY KeysAre DEF Keys, Bounds
<1>7. QED
  BY <1>2, <1>4, <1>5, <1>6 DEF S, C, a, b

\* A step of the walk shows what is ahead if the walk from later places does.
LEMMA StepShows ==
    ASSUME MonotonicBooks, NEW t \in Open, NEW upper, NEW s \in Bounds, NEW c \in Bounds, NEW rest,
           \A x, y \in Bounds : x + y > s + c => Shows(rest[<<x, y>>], Ahead(t, x, y, upper))
    PROVE  Shows(WalkStep(rest, t, upper, <<s, c>>), Ahead(t, s, c, upper))
<1> DEFINE a == NextStaged(t, s, upper)
           b == NextCommitted(t, c, upper)
           q == WalkStep(rest, t, upper, <<s, c>>)
           S == StagedAhead(t, s, upper)
           C == CommittedAhead(t, c, upper)
<1>1. /\ S \subseteq Keys /\ C \subseteq Keys
      /\ a \in Nat /\ b \in Nat /\ (a = 0 <=> S = {}) /\ (b = 0 <=> C = {})
      /\ a # 0 => a \in S /\ a >= s /\ a + 1 \in Bounds /\ \A k \in S : a <= k
      /\ b # 0 => b \in C /\ b >= c /\ b + 1 \in Bounds /\ \A k \in C : b <= k
      /\ a # 0 => a # b
  BY NextAre
<1>2. q = IF a = 0 /\ b = 0 THEN <<>>
          ELSE IF a = 0 \/ (b # 0 /\ b < a) THEN <<b>> \o rest[<<s, b + 1>>]
               ELSE <<a>> \o rest[<<a + 1, c>>]
  BY DEF WalkStep
<1>3. s \in Nat /\ c \in Nat /\ S \subseteq Nat /\ C \subseteq Nat
  BY <1>1, KeysAre
<1>4. CASE a = 0 /\ b = 0
  <2>1. q = <<>> /\ S = {} /\ C = {}
    BY <1>1, <1>2, <1>4
  <2>2. Shows(<<>>, {})
    BY DEF Shows
  <2>3. QED
    BY <2>1, <2>2 DEF Ahead
<1>5. CASE b # 0 /\ (a = 0 \/ b < a)
  <2> DEFINE C2 == CommittedAhead(t, b + 1, upper)
  <2>1. q = <<b>> \o rest[<<s, b + 1>>]
    BY <1>1, <1>2, <1>5
  <2>2. Shows(rest[<<s, b + 1>>], S \cup C2)
    <3>1. s + (b + 1) > s + c /\ b + 1 \in Bounds
      BY <1>1, <1>3, <1>5
    <3>2. QED
      BY <3>1 DEF Ahead
  <2>3. C2 \cup {b} = C /\ C2 \subseteq C
    <3>1. \A k \in C : k \in Nat /\ b <= k /\ (k = b \/ k >= b + 1)
      BY <1>1, <1>3, <1>5
    <3>2. \A k \in Nat : k >= b + 1 => k >= c
      BY <1>1, <1>3, <1>5
    <3>3. b \in C
      BY <1>1, <1>5
    <3> HIDE DEF b
    <3>4. C2 \subseteq C
      BY <3>2, KeysAre DEF CommittedAhead
    <3>5. C \subseteq C2 \cup {b}
      BY <3>1 DEF CommittedAhead
    <3>6. QED
      BY <3>3, <3>4, <3>5
  <2>4. \A k \in S \cup C2 : b < k
    <3>1. \A k \in C2 : k >= b + 1 /\ k \in Nat
      BY KeysAre DEF CommittedAhead
    <3>2. \A k \in S : b < k
      BY <1>1, <1>3, <1>5
    <3>3. QED
      BY <1>1, <3>1, <3>2
  <2>5. S \cup C2 \subseteq Nat
    BY <1>3, <2>3
  <2> HIDE DEF a, b, q, S, C, C2
  <2>6. Shows(q, (S \cup C2) \cup {b})
    BY <1>1, <2>1, <2>2, <2>4, <2>5, ShowsMore
  <2>7. (S \cup C2) \cup {b} = S \cup C
    BY <2>3
  <2>8. QED
    BY <2>6, <2>7 DEF q, S, C, Ahead
<1>6. CASE a # 0 /\ ~(b # 0 /\ b < a)
  <2> DEFINE S2 == StagedAhead(t, a + 1, upper)
  <2>1. q = <<a>> \o rest[<<a + 1, c>>]
    BY <1>1, <1>2, <1>6
  <2>2. Shows(rest[<<a + 1, c>>], S2 \cup C)
    <3>1. (a + 1) + c > s + c /\ a + 1 \in Bounds
      BY <1>1, <1>3, <1>6
    <3>2. QED
      BY <3>1 DEF Ahead
  <2>3. S2 \cup {a} = S /\ S2 \subseteq S
    <3>1. \A k \in S : k \in Nat /\ a <= k /\ (k = a \/ k >= a + 1)
      BY <1>1, <1>3, <1>6
    <3>2. \A k \in Nat : k >= a + 1 => k >= s
      BY <1>1, <1>3, <1>6
    <3>3. a \in S
      BY <1>1, <1>6
    <3>4. DOMAIN txns[t].changes \subseteq Nat
      BY FrameFields, KeysAre DEF MonotonicBooks, FramesSound, SoundFrame
    <3> HIDE DEF a
    <3>5. S2 \subseteq S
      BY <3>2, <3>4 DEF StagedAhead
    <3>6. S \subseteq S2 \cup {a}
      BY <3>1 DEF StagedAhead
    <3>7. QED
      BY <3>3, <3>5, <3>6
  <2>4. \A k \in S2 \cup C : a < k
    <3>1. \A k \in S2 : k >= a + 1 /\ k \in Nat
      BY <1>3, <2>3 DEF StagedAhead
    <3>2. \A k \in C : a < k
      BY <1>1, <1>3, <1>6
    <3>3. QED
      BY <1>1, <3>1, <3>2
  <2>5. S2 \cup C \subseteq Nat
    BY <1>3, <2>3
  <2> HIDE DEF a, b, q, S, C, S2
  <2>6. Shows(q, (S2 \cup C) \cup {a})
    BY <1>1, <2>1, <2>2, <2>4, <2>5, ShowsMore
  <2>7. (S2 \cup C) \cup {a} = S \cup C
    BY <2>3
  <2>8. QED
    BY <2>6, <2>7 DEF q, S, C, Ahead
<1>7. QED
  BY <1>4, <1>5, <1>6

\* A step of the walk asks for the walk from later places only.
LEMMA StepLooksAhead ==
    ASSUME MonotonicBooks, NEW t \in Open, NEW upper, NEW at \in Places, NEW f, NEW g,
           \A to \in Places : to[1] + to[2] > at[1] + at[2] => f[to] = g[to]
    PROVE  WalkStep(f, t, upper, at) = WalkStep(g, t, upper, at)
<1> DEFINE s == at[1]
           c == at[2]
           a == NextStaged(t, s, upper)
           b == NextCommitted(t, c, upper)
<1>1. s \in Bounds /\ c \in Bounds
  BY DEF Places
<1>2. /\ a \in Nat /\ b \in Nat /\ (a # 0 => a >= s /\ a + 1 \in Bounds)
      /\ b # 0 => b >= c /\ b + 1 \in Bounds
  BY <1>1, NextAre
<1>3. s \in Nat /\ c \in Nat
  BY <1>1, KeysAre
<1>4. \A r : WalkStep(r, t, upper, at)
               = IF a = 0 /\ b = 0 THEN <<>>
                 ELSE IF a = 0 \/ (b # 0 /\ b < a) THEN <<b>> \o r[<<s, b + 1>>]
                      ELSE <<a>> \o r[<<a + 1, c>>]
  BY DEF WalkStep
<1>5. \A x, y \in Bounds : x + y > s + c => f[<<x, y>>] = g[<<x, y>>]
  <2> TAKE x, y \in Bounds
  <2>1. <<x, y>> \in Places /\ <<x, y>>[1] = x /\ <<x, y>>[2] = y
    BY DEF Places
  <2>2. QED
    BY <2>1
<1> HIDE DEF a, b, s, c
<1>6. b # 0 => f[<<s, b + 1>>] = g[<<s, b + 1>>]
  <2>1. b # 0 => s + (b + 1) > s + c
    BY <1>2, <1>3
  <2>2. QED
    BY <1>1, <1>2, <1>5, <2>1
<1>7. a # 0 => f[<<a + 1, c>>] = g[<<a + 1, c>>]
  <2>1. a # 0 => (a + 1) + c > s + c
    BY <1>2, <1>3
  <2>2. QED
    BY <1>1, <1>2, <1>5, <2>1
<1>8. QED
  BY <1>4, <1>6, <1>7

\* What holds of a natural, and of the predecessor of every one it holds of, holds of 0.
LEMMA DownToZero ==
    ASSUME NEW S \in SUBSET Nat, S # {}, \A n \in Nat : n + 1 \in S => n \in S
    PROVE  0 \in S
<1>1. PICK z \in S : \A x \in S : z <= x
  BY LeastNatural
<1>2. CASE z = 0
  BY <1>1, <1>2
<1>3. CASE z # 0
  <2>1. z - 1 \in Nat /\ (z - 1) + 1 = z
    BY <1>3
  <2>2. z - 1 \in S
    BY <1>1, <2>1
  <2>3. QED
    BY <1>1, <2>1, <2>2
<1>4. QED
  BY <1>2, <1>3

\* The function of a walk is defined: it gives, at every place, the step there over itself.
LEMMA WalkIsDefined ==
    ASSUME MonotonicBooks, NEW t \in Open, NEW upper
    PROVE  WalkOf(t, upper) = [at \in Places |-> WalkStep(WalkOf(t, upper), t, upper, at)]
<1> DEFINE From(n, g) == \A at \in Places : at[1] + at[2] >= n => g[at] = WalkStep(g, t, upper, at)
           S == {n \in Nat : \E g : From(n, g)}
<1>1. \A at \in Places : at[1] \in Nat /\ at[2] \in Nat /\ at[1] + at[2] \in Nat
  <2>1. \A at \in Places : at[1] \in Bounds /\ at[2] \in Bounds
    BY DEF Places
  <2>2. \A x \in Bounds : x \in Nat
    BY KeysAre
  <2>3. \A at \in Places : at[1] \in Nat /\ at[2] \in Nat
    BY <2>1, <2>2, Zenon
  <2>4. QED
    BY <2>3
<1>2. S # {}
  <2>1. \A at \in Places : at[1] + at[2] <= 2 * KeyCount + 2
    BY KeysAre DEF Places, Bounds
  <2>2. 2 * KeyCount + 3 \in Nat
    BY KeysAre
  <2>3. \A at \in Places : ~(at[1] + at[2] >= 2 * KeyCount + 3)
    BY <1>1, <2>1, KeysAre
  <2>4. From(2 * KeyCount + 3, <<>>)
    BY <2>3
  <2>5. QED
    BY <2>2, <2>4
<1>3. ASSUME NEW n \in Nat, n + 1 \in S PROVE n \in S
  <2>1. PICK g : From(n + 1, g)
    BY <1>3
  <2> DEFINE h == [at \in Places |-> IF at[1] + at[2] = n THEN WalkStep(g, t, upper, at) ELSE g[at]]
  <2>2. \A to \in Places : to[1] + to[2] # n => h[to] = g[to]
    OBVIOUS
  <2>3. \A at \in Places : at[1] + at[2] = n => h[at] = WalkStep(g, t, upper, at)
    OBVIOUS
  <2> HIDE DEF h
  <2>4. ASSUME NEW at \in Places, at[1] + at[2] >= n PROVE h[at] = WalkStep(h, t, upper, at)
    <3>1. \A to \in Places : to[1] + to[2] > at[1] + at[2] => h[to] = g[to]
      BY <1>1, <2>2, <2>4
    <3>2. WalkStep(h, t, upper, at) = WalkStep(g, t, upper, at)
      BY <3>1, StepLooksAhead
    <3>3. CASE at[1] + at[2] = n
      BY <2>3, <3>2, <3>3
    <3>4. CASE at[1] + at[2] # n
      <4>1. at[1] + at[2] >= n + 1
        BY <1>1, <2>4, <3>4
      <4>2. g[at] = WalkStep(g, t, upper, at)
        BY <2>1, <4>1
      <4>3. QED
        BY <2>2, <3>2, <3>4, <4>2
    <3>5. QED
      BY <3>3, <3>4
  <2>5. From(n, h)
    BY <2>4
  <2>6. QED
    BY <2>5
<1>4. 0 \in S
  <2>1. S \subseteq Nat
    OBVIOUS
  <2> HIDE DEF S
  <2>2. QED
    BY <1>2, <1>3, <2>1, DownToZero
<1>5. PICK g : From(0, g)
  BY <1>4
<1> DEFINE f == [at \in Places |-> g[at]]
<1>6. \A at \in Places : g[at] = WalkStep(g, t, upper, at)
  BY <1>1, <1>5
<1>7. \A to \in Places : f[to] = g[to]
  OBVIOUS
<1>8. \A at \in Places : f[at] = WalkStep(f, t, upper, at)
  <2> HIDE DEF f
  <2>1. \A at \in Places : WalkStep(f, t, upper, at) = WalkStep(g, t, upper, at)
    BY <1>7, StepLooksAhead
  <2>2. QED
    BY <1>6, <1>7, <2>1
<1>9. f = [at \in Places |-> f[at]]
  OBVIOUS
<1> HIDE DEF f
<1>10. f = [at \in Places |-> WalkStep(f, t, upper, at)]
  BY <1>8, <1>9
<1>11. QED
  BY <1>10, Zenon DEF WalkOf

\* Whatever a transaction has pending, its walk shows what its find sees.
Seen(t, lower, upper) == {k \in Keys : Sees(t, k) # Absent /\ k >= lower /\ k < upper}

\* The keys a walk should show are those either of its two cursors has ahead at its start.
LEMMA SeenIs ==
    ASSUME MonotonicBooks, NEW t \in Open, NEW lower, NEW upper
    PROVE  Seen(t, lower, upper) = Ahead(t, lower, lower, upper)
<1>1. DOMAIN txns[t].changes \subseteq Keys
  BY FrameFields DEF MonotonicBooks, FramesSound, SoundFrame
<1>2. \A k \in Keys : Contents(k) # Absent <=> Readable(k) # {}
  <2> TAKE k \in Keys
  <2>1. SoundChain(chains[k])
    BY DEF MonotonicBooks, ChainsSound
  <2>2. CASE Readable(k) = {}
    BY <2>2 DEF Contents
  <2>3. CASE Readable(k) # {}
    <3>1. PICK v \in Readable(k) : v = CHOOSE w \in Readable(k) : TRUE
      BY <2>3
    <3>2. v.payload # Absent
      BY DEF Readable
    <3>3. QED
      BY <2>3, <3>1, <3>2 DEF Contents
  <2>4. QED
    BY <2>2, <2>3
<1>3. QED
  BY <1>1, <1>2 DEF Seen, Sees, Ahead, StagedAhead, CommittedAhead, Stages

\* From any bound a walk shows each key seen once, in order, and no other.
LEMMA WalkShows ==
    ASSUME MonotonicBooks, NEW t \in Open, NEW lower \in Bounds, NEW upper
    PROVE  Shows(WalkFrom(t, lower, upper), Seen(t, lower, upper))
<1> DEFINE f == WalkOf(t, upper)
           From(n) == \A x, y \in Bounds : x + y >= n => Shows(f[<<x, y>>], Ahead(t, x, y, upper))
           S == {n \in Nat : From(n)}
<1>1. \A x, y \in Bounds : f[<<x, y>>] = WalkStep(f, t, upper, <<x, y>>)
  <2>1. f = [at \in Places |-> WalkStep(f, t, upper, at)]
    BY WalkIsDefined
  <2> HIDE DEF f
  <2>2. \A at \in Places : f[at] = WalkStep(f, t, upper, at)
    BY <2>1
  <2>3. \A x, y \in Bounds : <<x, y>> \in Places
    BY DEF Places
  <2>4. QED
    BY <2>2, <2>3, Zenon
<1>2. S # {}
  <2>1. \A x, y \in Bounds : ~(x + y >= 2 * KeyCount + 3)
    BY KeysAre DEF Bounds
  <2>2. 2 * KeyCount + 3 \in Nat
    BY KeysAre
  <2>3. QED
    BY <2>1, <2>2
<1>3. ASSUME NEW n \in Nat, n + 1 \in S PROVE n \in S
  <2>1. ASSUME NEW x \in Bounds, NEW y \in Bounds, x + y >= n
        PROVE  Shows(f[<<x, y>>], Ahead(t, x, y, upper))
    <3>1. \A i, j \in Bounds : i + j > x + y => Shows(f[<<i, j>>], Ahead(t, i, j, upper))
      <4>1. \A i, j \in Bounds : i + j > x + y => i + j >= n + 1
        BY <2>1, KeysAre
      <4>2. QED
        BY <1>3, <4>1
    <3> HIDE DEF f
    <3>2. Shows(WalkStep(f, t, upper, <<x, y>>), Ahead(t, x, y, upper))
      BY <3>1, StepShows
    <3>3. QED
      BY <1>1, <3>2
  <2>2. QED
    BY <2>1
<1>4. 0 \in S
  <2>1. S \subseteq Nat
    OBVIOUS
  <2> HIDE DEF S
  <2>2. QED
    BY <1>2, <1>3, <2>1, DownToZero
<1>5. lower + lower >= 0
  BY KeysAre
<1>6. Shows(f[<<lower, lower>>], Ahead(t, lower, lower, upper))
  BY <1>4, <1>5
<1>7. QED
  BY <1>6, WalkFromIs, SeenIs

\* What a walk collects are keys, those it shows.
LEMMA WalkCollects ==
    ASSUME MonotonicBooks, NEW t \in Open, NEW lower \in Bounds, NEW upper
    PROVE  ToSet(WalkFrom(t, lower, upper)) = Seen(t, lower, upper)
<1> DEFINE q == WalkFrom(t, lower, upper)
           S == Seen(t, lower, upper)
<1>1. Shows(q, S)
  BY WalkShows
<1> HIDE DEF q, S
<1>2. q \in Seq(Nat) /\ DOMAIN q = 1 .. Len(q)
  BY <1>1 DEF Shows
<1>3. \A k : k \in ToSet(q) <=> \E i \in 1 .. Len(q) : q[i] = k
  BY <1>2 DEF ToSet
<1>4. \A k : k \in S <=> \E i \in 1 .. Len(q) : q[i] = k
  BY <1>1 DEF Shows
<1>5. ToSet(q) = S
  BY <1>3, <1>4
<1>6. QED
  BY <1>5 DEF q, S

----------------------------------------------------------------------------
(* Every step.                                                             *)

\* What a transaction keeps aside of its writes, key by key or by a walk.
SetsAside(t, ks, p) ==
    /\ MayWrite(t)
    /\ txns' = [txns EXCEPT ![t] = AlsoWrites(txns[t], ks, p)]
    /\ UNCHANGED <<chains, visibleCount, deletedCount>>

KeepsAside(t) == \E ks \in SUBSET Keys : \E p \in {t, Absent} : SetsAside(t, ks, p)

\* Every call of a transaction that writes sets keys aside and does no more: the
\* key it names, or those its finds see in a window.
LEMMA WritesAre ==
    ASSUME MonotonicBooks, NEW t \in Open
    PROVE  /\ \A k \in Keys : /\ Put(t, k) => SetsAside(t, {k}, t)
                              /\ EraseKey(t, k) => SetsAside(t, {k}, Absent)
           /\ \A lower, upper \in Bounds :
                /\ EraseWalked(t, lower, upper) => SetsAside(t, Seen(t, lower, upper), Absent)
                /\ ReviseWalked(t, lower, upper) => SetsAside(t, Seen(t, lower, upper), t)
<1>1. ASSUME NEW k \in Keys
      PROVE  /\ Put(t, k) => SetsAside(t, {k}, t)
             /\ EraseKey(t, k) => SetsAside(t, {k}, Absent)
  BY Zenon DEF Put, EraseKey, SetsAside
<1>2. ASSUME NEW lower \in Bounds, NEW upper \in Bounds
      PROVE  /\ EraseWalked(t, lower, upper) => SetsAside(t, Seen(t, lower, upper), Absent)
             /\ ReviseWalked(t, lower, upper) => SetsAside(t, Seen(t, lower, upper), t)
  <2>1. ToSet(WalkFrom(t, lower, upper)) = Seen(t, lower, upper)
    BY WalkCollects
  <2>2. QED
    BY <2>1, Zenon DEF EraseWalked, ReviseWalked, SetsAside
<1>3. QED
  BY <1>1, <1>2

\* What a walk collects is of the store's keys.
LEMMA SeenKeys == \A t, lower, upper : Seen(t, lower, upper) \in SUBSET Keys
BY DEF Seen

\* Setting keys aside keeps the books, since only a transaction that was reset may do it.
LEMMA KeepsAsideCall ==
    ASSUME MonotonicBooks, ~Reuses, NEW t \in Open, KeepsAside(t)
    PROVE  MonotonicBooks'
<1>1. Transactions \subseteq Payloads /\ t \in Transactions
  BY KeysAre DEF MonotonicBooks, FramesSound
<1>2. PICK ks \in SUBSET Keys, p \in {t, Absent} : SetsAside(t, ks, p)
  BY DEF KeepsAside
<1>3. p \in Payloads \cup {Absent} /\ MayWrite(t) /\ UNCHANGED <<chains, visibleCount, deletedCount>>
  BY <1>1, <1>2 DEF SetsAside
<1>4. txns' = [txns EXCEPT ![t] = AlsoWrites(txns[t], ks, p)]
  BY <1>2 DEF SetsAside
<1>5. QED
  BY <1>3, <1>4, WritesCall

\* The calls of a transaction, and those made outside any.
ByTransaction(t) ==
    \/ KeepsAside(t)
    \/ \E k \in Keys : Watch(t, k)
    \/ Drop(t) \/ Stage(t) \/ Reset(t) \/ Publish(t)
    \/ \E reserved \in SUBSET txns[t].listed : StageFails(t, reserved)
    \/ \E lost \in SUBSET txns[t].listed : Rollback(t, lost)

Outside ==
    \/ \E k \in Keys : Upsert(k)
    \/ \E ks \in SUBSET Keys : UpsertMany(ks) \/ Retire(ks)
    \/ \E lower, upper \in Bounds : UpdateRange(lower, upper) \/ Vacuum(lower, upper)
    \/ Clear

\* A step is an opening, a call of an open transaction, or one that needs none.
LEMMA StepsAre ==
    ASSUME MonotonicBooks, Next
    PROVE  (\E t \in Transactions : Begin(t)) \/ (\E t \in Open : ByTransaction(t)) \/ Outside
<1>1. CASE \E t \in Transactions : Begin(t)
  BY <1>1
<1>2. ASSUME NEW t \in Open,
             \/ Drop(t) \/ Stage(t) \/ Reset(t) \/ Publish(t)
             \/ \E k \in Keys : Put(t, k) \/ EraseKey(t, k) \/ Watch(t, k)
             \/ \E lower, upper \in Bounds :
                  lower < upper /\ (EraseWalked(t, lower, upper) \/ ReviseWalked(t, lower, upper))
             \/ \E reserved \in SUBSET txns[t].listed : StageFails(t, reserved)
             \/ \E lost \in SUBSET txns[t].listed : Rollback(t, lost)
      PROVE  ByTransaction(t)
  <2>1. CASE \E k \in Keys : Put(t, k) \/ EraseKey(t, k)
    <3>1. PICK k \in Keys : SetsAside(t, {k}, t) \/ SetsAside(t, {k}, Absent)
      BY <2>1, WritesAre, Zenon
    <3>2. {k} \in SUBSET Keys
      OBVIOUS
    <3>3. QED
      BY <3>1, <3>2, Zenon DEF ByTransaction, KeepsAside
  <2>2. CASE \E lower, upper \in Bounds : EraseWalked(t, lower, upper) \/ ReviseWalked(t, lower, upper)
    <3>1. \E lower, upper : SetsAside(t, Seen(t, lower, upper), t) \/ SetsAside(t, Seen(t, lower, upper), Absent)
      BY <2>2, WritesAre, Zenon
    <3>2. QED
      BY <3>1, SeenKeys, Zenon DEF ByTransaction, KeepsAside
  <2>3. QED
    BY <1>2, <2>1, <2>2, Zenon DEF ByTransaction
<1>3. CASE \E k \in Keys : Upsert(k) \/ Erase(k)
  <2>1. PICK k \in Keys : Upsert(k) \/ Erase(k)
    BY <1>3
  <2>2. {k} \in SUBSET Keys
    OBVIOUS
  <2>3. QED
    BY <2>1, <2>2, Zenon DEF Erase, Outside
<1>4. CASE \E ks \in SUBSET Keys : Cardinality(ks) > 1 /\ UpsertMany(ks)
  BY <1>4, Zenon DEF Outside
<1>5. CASE \E lower, upper \in Bounds :
             lower < upper /\ (EraseRange(lower, upper) \/ UpdateRange(lower, upper) \/ Vacuum(lower, upper))
  <2>1. PICK lower \in Bounds, upper \in Bounds :
               EraseRange(lower, upper) \/ UpdateRange(lower, upper) \/ Vacuum(lower, upper)
    BY <1>5
  <2>2. {k \in Keys : k >= lower /\ k < upper} \in SUBSET Keys
    OBVIOUS
  <2>3. EraseRange(lower, upper) => \E ks \in SUBSET Keys : Retire(ks)
    BY <2>2, Zenon DEF EraseRange
  <2>4. QED
    BY <2>1, <2>3, Zenon DEF Outside
<1>6. CASE Clear
  BY <1>6 DEF Outside
<1>7. QED
  BY <1>1, <1>2, <1>3, <1>4, <1>5, <1>6, Zenon DEF Next

\* Every call keeps the books.
LEMMA EveryCall ==
    ASSUME MonotonicBooks, ~Reuses, [Next]_vars
    PROVE  MonotonicBooks'
<1>1. CASE UNCHANGED vars
  BY <1>1 DEF vars, MonotonicBooks, ChainsSound, FramesSound, Open, GensApart, StagedOwned, Unpublished,
     WatchesDated, CountsExact, VisibleOf, VisibleIn, Hidden, Tombstones
<1>2. CASE \E t \in Transactions : Begin(t)
  BY <1>2, BeginCall
<1>3. ASSUME NEW t \in Open, ByTransaction(t) PROVE MonotonicBooks'
  <2>1. CASE KeepsAside(t)
    BY <2>1, KeepsAsideCall
  <2>2. CASE \E k \in Keys : Watch(t, k)
    BY <2>2, WatchCall
  <2>3. CASE Drop(t)
    BY <2>3, DropCall
  <2>4. CASE Stage(t)
    BY <2>4, StageCall
  <2>5. CASE Reset(t)
    BY <2>5, ResetCall
  <2>6. CASE Publish(t)
    BY <2>6, PublishCall
  <2>7. CASE \E reserved \in SUBSET txns[t].listed : StageFails(t, reserved)
    BY <1>1, <2>7, StageFailsCall
  <2>8. CASE \E lost \in SUBSET txns[t].listed : Rollback(t, lost)
    BY <2>8, RollbackCall
  <2>9. QED
    BY <1>3, <2>1, <2>2, <2>3, <2>4, <2>5, <2>6, <2>7, <2>8, Zenon DEF ByTransaction
<1>4. CASE Outside
  BY <1>4, UpsertCall, UpsertManyCall, RetireCall, UpdateRangeCall, VacuumCall, ClearCall DEF Outside
<1>5. QED
  BY <1>1, <1>2, <1>3, <1>4, StepsAre

\* The empty store keeps the books.
LEMMA InitBooks == Init => MonotonicBooks
<1> SUFFICES ASSUME Init PROVE MonotonicBooks
  OBVIOUS
<1>1. chains = [k \in Keys |-> {}] /\ visibleCount = 0 /\ deletedCount = 0 /\ txns = <<>>
  BY DEF Init
<1>2. Open = {}
  BY <1>1 DEF Open
<1>3. VisibleOf(Keys) = {} /\ Tombstones({}) = {}
  BY <1>1 DEF VisibleOf, Tombstones
<1>4. CountsExact
  BY <1>1, <1>3, FS_EmptySet DEF CountsExact
<1>5. ChainsSound
  BY <1>1, FS_EmptySet DEF ChainsSound, SoundChain
<1>6. FramesSound
  BY <1>1, <1>2, FS_EmptySet DEF FramesSound
<1>7. StagedOwned
  BY <1>1 DEF StagedOwned, Hidden
<1>8. QED
  BY <1>2, <1>4, <1>5, <1>6, <1>7 DEF MonotonicBooks, GensApart, Unpublished, WatchesDated

\* The books are kept, whatever is staged, rolled back, published or retired in
\* between, where no transaction writes again behind a commit without a reset.
THEOREM MonotonicInvariance ==
    ASSUME ~Reuses
    PROVE  Spec => []MonotonicBooks
<1>1. MonotonicBooks /\ [Next]_vars => MonotonicBooks'
  BY EveryCall
<1>2. QED
  BY <1>1, InitBooks, PTL DEF Spec

\* The books hold the types of the state.
LEMMA BooksTyped ==
    ASSUME MonotonicBooks
    PROVE  MonotonicTypeOK
<1>1. ASSUME NEW k \in Keys
      PROVE  /\ chains[k] \subseteq Versions /\ Cardinality(VisibleIn(chains[k])) <= 1
             /\ \A v, w \in chains[k] : v.gen = w.gen => v = w
  <2>1. SoundChain(chains[k])
    BY DEF MonotonicBooks, ChainsSound
  <2>2. Cardinality(VisibleIn(chains[k])) <= 1
    BY <2>1, OneVisible
  <2>3. QED
    BY <2>1, <2>2 DEF SoundChain
<1>2. visibleCount \in Nat /\ deletedCount \in 0 .. visibleCount
  <2> DEFINE V == VisibleOf(Keys)
             D == Tombstones(V)
  <2>1. IsFiniteSet(V)
    BY PairsFinite DEF MonotonicBooks
  <2>2. D \subseteq V
    BY DEF Tombstones
  <2>3. visibleCount = Cardinality(V) /\ deletedCount = Cardinality(D)
    BY DEF MonotonicBooks, CountsExact
  <2> HIDE DEF V, D
  <2>4. Cardinality(D) <= Cardinality(V) /\ Cardinality(V) \in Nat /\ Cardinality(D) \in Nat
    BY <2>1, <2>2, FS_Subset, FS_CardinalityType
  <2>5. QED
    BY <2>3, <2>4
<1>3. ASSUME NEW t \in Open
      PROVE  /\ txns[t].generation \in Nat \ {0} /\ txns[t].listed \subseteq Keys
             /\ DOMAIN txns[t].changes \subseteq txns[t].listed
             /\ txns[t].staged => txns[t].changes = <<>>
  BY FrameFields DEF MonotonicBooks, FramesSound, SoundFrame
<1>4. Open \subseteq Transactions
  BY DEF MonotonicBooks, FramesSound
<1>5. QED
  BY <1>1, <1>2, <1>3, <1>4 DEF MonotonicTypeOK

\* The state's types: one published version of a key, and a generation names one.
THEOREM MonotonicTypesHold ==
    ASSUME ~Reuses
    PROVE  Spec => []MonotonicTypeOK
BY MonotonicInvariance, BooksTyped, PTL

\* The running counts behind size() are those of the index, through every path
\* that publishes, retires, reclaims or clears.
THEOREM CountsStayExact ==
    ASSUME ~Reuses
    PROVE  Spec => []CountsExact
<1>1. MonotonicBooks => CountsExact
  BY DEF MonotonicBooks
<1>2. QED
  BY <1>1, MonotonicInvariance, PTL

----------------------------------------------------------------------------
(* Watches.                                                                *)

\* What a watch says, of a watch as of a key.
LEMMA WatchTells ==
    ASSUME MonotonicBooks, NEW t \in Open, NEW w \in txns[t].watches
    PROVE  /\ w.moved /\ (w.here \/ Contents(w.key) # Absent) => Drifted(w)
           /\ Drifted(w) => w.moved
<1> DEFINE k == w.key
<1>1. w \in Taken /\ Dated(w, VisibleIn(chains[k]))
  BY FrameFields DEF MonotonicBooks, FramesSound, SoundFrame, WatchesDated
<1>2. k \in Keys /\ w.here \in BOOLEAN /\ w.moved \in BOOLEAN
  BY <1>1, WatchFields
<1>3. SoundChain(chains[k])
  BY <1>2 DEF MonotonicBooks, ChainsSound
<1>4. CASE VisibleIn(chains[k]) = {}
  <2>1. ShapeOf(k) = Missing /\ Contents(k) = Absent
    BY <1>2, <1>3, <1>4, ShapeIs
  <2>2. w.here => [gen |-> w.gen, here |-> w.here] # Missing
    BY DEF Missing
  <2>3. ~w.moved => ~w.here
    BY <1>1, <1>4 DEF Dated
  <2>4. QED
    BY <2>1, <2>2, <2>3 DEF Drifted
<1>5. CASE VisibleIn(chains[k]) # {}
  <2>1. PICK v \in VisibleIn(chains[k]) : TRUE
    BY <1>5
  <2>2. ShapeOf(k) = [gen |-> v.gen, here |-> v.payload # Absent]
    BY <1>2, <1>3, <2>1, ShapeIs
  <2>3. v.gen \in Nat \ {0}
    BY <1>3, <2>1, VersionFields DEF SoundChain, VisibleIn
  <2>4. ShapeOf(k) # Missing
    BY <2>2, <2>3 DEF Missing
  <2>5. w.moved => v.gen # w.gen
    BY <1>1, <2>1 DEF Dated
  <2>6. ~w.moved => v.gen = w.gen /\ (w.here = (v.payload # Absent))
    BY <1>1, <1>2, <2>1 DEF Dated
  <2>7. w.moved => [gen |-> w.gen, here |-> w.here] # ShapeOf(k)
    BY <2>2, <2>5
  <2>8. ~w.moved => [gen |-> w.gen, here |-> w.here] = ShapeOf(k)
    BY <2>2, <2>6
  <2>9. QED
    BY <2>4, <2>7, <2>8 DEF Drifted
<1>6. QED
  BY <1>4, <1>5

\* A watch drifts exactly when its key was published over since it was taken, by
\* whom and in whatever order; an absence that closed over again is not seen.
THEOREM DriftsAreMoves ==
    ASSUME ~Reuses
    PROVE  Spec => []DriftIsMove
<1>1. MonotonicBooks => DriftIsMove
  BY WatchTells DEF DriftIsMove
<1>2. QED
  BY <1>1, MonotonicInvariance, PTL

\* Publishing over keys stages and unstages nothing.
LEMMA OutsideFrames ==
    ASSUME MonotonicBooks, Outside
    PROVE  \E moved : txns' = Disturb(txns, moved) \/ txns' = txns
<1>1. \A k : Upsert(k) => \E moved : txns' = Disturb(txns, moved)
  BY Zenon DEF Upsert
<1>2. \A ks : UpsertMany(ks) \/ Retire(ks) => \E moved : txns' = Disturb(txns, moved)
  BY Zenon DEF UpsertMany, Retire
<1>3. \A lower, upper : UpdateRange(lower, upper) => \E moved : txns' = Disturb(txns, moved)
  BY Zenon DEF UpdateRange
<1>4. \A lower, upper : Vacuum(lower, upper) => txns' = txns
  BY DEF Vacuum
<1>5. Clear => \E moved : txns' = Disturb(txns, moved)
  BY Zenon DEF Clear
<1>6. QED
  BY <1>1, <1>2, <1>3, <1>4, <1>5, Zenon DEF Outside

\* Whoever commits is publishing, over watches that hold.
LEMMA CommitsHold ==
    ASSUME MonotonicBooks, [Next]_vars, NEW t \in Open, Commits(t)
    PROVE  WatchesHold(t)
<1>1. /\ txns[t].staged /\ t \in DOMAIN txns' /\ ~txns'[t].staged
      /\ txns'[t].generation = txns[t].generation
  BY DEF Commits
<1>2. CASE UNCHANGED vars
  BY <1>1, <1>2 DEF vars
<1>3. CASE \E s \in Transactions : Begin(s)
  <2>1. txns'[t] = txns[t]
    BY <1>3 DEF Begin
  <2>2. QED
    BY <1>1, <2>1
<1>4. ASSUME NEW s \in Open, ByTransaction(s) PROVE WatchesHold(t)
  <2>1. CASE s # t /\ txns'[t] = txns[t]
    BY <1>1, <2>1
  <2>2. CASE KeepsAside(s)
    <3>1. s = t => ~txns[t].staged
      BY <2>2 DEF KeepsAside, SetsAside, MayWrite, Pending
    <3>2. s # t => txns'[t] = txns[t]
      BY <2>2 DEF KeepsAside, SetsAside, Open
    <3>3. QED
      BY <1>1, <3>1, <3>2
  <2>3. CASE \E k \in Keys : Watch(s, k)
    <3>1. PICK W : txns' = [txns EXCEPT ![s].watches = W]
      BY <2>3, Zenon DEF Watch
    <3>2. txns[t] \in Frames
      BY DEF MonotonicBooks, FramesSound
    <3>3. s = t => txns'[t] = [txns[t] EXCEPT !.watches = W]
      BY <3>1 DEF Open
    <3>4. s = t => txns'[t].staged = txns[t].staged
      BY <3>2, <3>3 DEF Frames
    <3>5. s # t => txns'[t] = txns[t]
      BY <3>1 DEF Open
    <3>6. QED
      BY <1>1, <3>4, <3>5
  <2>4. CASE Drop(s)
    <3>1. txns' = [u \in Open \ {s} |-> txns[u]]
      BY <2>4 DEF Drop
    <3>2. QED
      BY <1>1, <3>1
  <2>5. CASE Stage(s) \/ \E reserved \in SUBSET txns[s].listed : StageFails(s, reserved)
    <3>1. s = t => ~txns[t].staged
      BY <2>5 DEF Stage, StageFails, Pending
    <3>2. s # t => txns'[t] = txns[t]
      BY <2>5 DEF Stage, StageFails, Open
    <3>3. QED
      BY <1>1, <3>1, <3>2
  <2>6. CASE Reset(s) \/ \E lost \in SUBSET txns[s].listed : Rollback(s, lost)
    <3>1. s # t => txns'[t] = txns[t]
      <4>1. \A lost : Rollback(s, lost) => \E f : txns' = [txns EXCEPT ![s] = f]
        BY Zenon DEF Rollback
      <4>2. Reset(s) => \E f : txns' = [txns EXCEPT ![s] = f]
        BY Zenon DEF Reset
      <4>3. PICK f : txns' = [txns EXCEPT ![s] = f]
        BY <2>6, <4>1, <4>2
      <4>4. QED
        BY <4>3 DEF Open
    <3>2. FreshGeneration # txns[s].generation
      BY FreshIs, RememberedHas
    <3>3. ASSUME s = t, Reset(s) PROVE txns'[t].generation = FreshGeneration
      <4>1. txns'[t] = Opened(FreshGeneration)
        BY <3>3 DEF Reset, Open
      <4>2. QED
        BY <4>1 DEF Opened
    <3>4. ASSUME s = t, NEW lost, Rollback(s, lost) PROVE txns'[t].generation = FreshGeneration
      <4>1. PICK c : txns' = [txns EXCEPT ![s] = [@ EXCEPT !.staged = FALSE, !.changes = c,
                                                           !.generation = FreshGeneration]]
        BY <3>4, Zenon DEF Rollback
      <4>2. txns'[t] = [txns[t] EXCEPT !.staged = FALSE, !.changes = c, !.generation = FreshGeneration]
        BY <3>4, <4>1 DEF Open
      <4>3. txns[t] \in Frames
        BY DEF MonotonicBooks, FramesSound
      <4>4. QED
        BY <4>2, <4>3 DEF Frames
    <3>5. s = t => txns'[t].generation = FreshGeneration
      BY <2>6, <3>3, <3>4
    <3>6. QED
      BY <1>1, <3>1, <3>2, <3>5
  <2>7. CASE Publish(s)
    <3>1. s # t => txns'[t].staged = txns[t].staged
      BY <2>7, PublishFrames
    <3>2. s = t => WatchesHold(t)
      BY <2>7 DEF Publish
    <3>3. QED
      BY <1>1, <3>1, <3>2
  <2>8. QED
    BY <1>4, <2>2, <2>3, <2>4, <2>5, <2>6, <2>7, Zenon DEF ByTransaction
<1>5. CASE Outside
  <2>1. PICK moved : txns' = Disturb(txns, moved) \/ txns' = txns
    BY <1>5, OutsideFrames
  <2>2. txns' = Disturb(txns, moved) => txns'[t].staged = txns[t].staged
    BY DirectFrames
  <2>3. QED
    BY <1>1, <2>1, <2>2
<1>6. QED
  BY <1>2, <1>3, <1>4, <1>5, StepsAre

\* A transaction that commits has read nothing that was published over, through
\* any staging, rolling back and staging again.
THEOREM CommitsReadWhatStands ==
    ASSUME ~Reuses
    PROVE  Spec => [][WatchedStand]_vars
<1>1. MonotonicBooks /\ [Next]_vars => [WatchedStand]_vars
  <2>1. SUFFICES ASSUME MonotonicBooks, [Next]_vars, NEW t \in Open, Commits(t),
                        NEW w \in txns[t].watches, w.moved
                 PROVE  ~w.here /\ Contents(w.key) = Absent
    BY DEF WatchedStand
  <2>2. ~Drifted(w)
    BY <2>1, CommitsHold DEF WatchesHold
  <2>3. QED
    BY <2>1, <2>2, WatchTells
<1>2. QED
  BY <1>1, MonotonicInvariance, PTL DEF Spec

----------------------------------------------------------------------------
(* What walks show.                                                        *)

\* The smaller candidate of two sides is the least key of both.
LEMMA MergeIs ==
    ASSUME NEW A \in SUBSET Keys, NEW B \in SUBSET Keys
    PROVE  MergeFirst(Least(A), Least(B)) = Least(A \cup B)
<1> DEFINE a == Least(A)
           b == Least(B)
           m == MergeFirst(a, b)
           l == Least(A \cup B)
<1>1. /\ a \in Nat /\ (a = 0 <=> A = {}) /\ (A # {} => a \in A /\ \A k \in A : a <= k)
      /\ b \in Nat /\ (b = 0 <=> B = {}) /\ (B # {} => b \in B /\ \A k \in B : b <= k)
  BY LeastIs
<1>2. l \in Nat /\ (l = 0 <=> A \cup B = {}) /\ (A \cup B # {} => l \in A \cup B /\ \A k \in A \cup B : l <= k)
  <2> DEFINE C == A \cup B
  <2>1. C \in SUBSET Keys
    OBVIOUS
  <2> HIDE DEF C
  <2>2. Least(C) \in Nat /\ (Least(C) = 0 <=> C = {}) /\ (C # {} => Least(C) \in C /\ \A k \in C : Least(C) <= k)
    BY <2>1, LeastIs
  <2>3. QED
    BY <2>2 DEF C
<1>3. m = IF a = 0 \/ (b # 0 /\ b < a) THEN b ELSE a
  BY DEF MergeFirst
<1> HIDE DEF a, b, m, l
<1>4. A \subseteq Nat /\ B \subseteq Nat
  BY KeysAre
<1>5. CASE A = {} /\ B = {}
  <2>1. a = 0 /\ l = 0 /\ b = 0
    BY <1>1, <1>2, <1>5
  <2>2. QED
    BY <1>3, <2>1 DEF m, l, a, b
<1>6. CASE A \cup B # {}
  <2>1. m \in A \cup B /\ m \in Nat
    BY <1>1, <1>3, <1>6
  <2>2. \A k \in A \cup B : m <= k
    <3>1. \A k \in A : m <= k
      BY <1>1, <1>3, <1>4
    <3>2. \A k \in B : m <= k
      BY <1>1, <1>3, <1>4
    <3>3. QED
      BY <3>1, <3>2
  <2>3. m <= l /\ l <= m
    BY <1>2, <1>6, <2>1, <2>2
  <2>4. QED
    BY <1>2, <2>1, <2>3 DEF m, l, a, b
<1>7. QED
  BY <1>5, <1>6 DEF m, l, a, b

\* lower_bound gives the least key find sees from there on.
LEMMA BoundIs ==
    ASSUME MonotonicBooks, NEW t \in Open, NEW from \in Bounds
    PROVE  LowerBound(t, from) = Least(Seen(t, from, KeyCount + 1))
<1> DEFINE n == KeyCount + 1
           A == StagedAhead(t, from, n)
           B == CommittedAhead(t, from, n)
<1>1. A \in SUBSET Keys /\ B \in SUBSET Keys
  BY NextAre
<1>2. LowerBound(t, from) = MergeFirst(Least(A), Least(B))
  BY DEF LowerBound, NextStaged, NextCommitted, StagedAhead, CommittedAhead
<1>3. Seen(t, from, n) = A \cup B
  BY SeenIs DEF Ahead
<1> HIDE DEF n, A, B
<1>4. QED
  BY <1>1, <1>2, <1>3, MergeIs DEF n

\* Every merged walk and bound of a transaction is of the keys its find sees.
WalksShowSeen ==
    \A t \in Open : \A at, upper \in Bounds :
        /\ Shows(WalkFrom(t, at, upper), Seen(t, at, upper))
        /\ Shows(RangeFrom(t, at), Seen(t, at, KeyCount + 1))
        /\ Shows(RangeUpTo(t, upper), Seen(t, 1, upper))
        /\ LowerBound(t, at) = Least(Seen(t, at, KeyCount + 1))
        /\ Smallest(t) = Least(Seen(t, 1, KeyCount + 1))
        /\ at \in Keys => UpperBound(t, at) = Least(Seen(t, at + 1, KeyCount + 1))

\* Each key find sees is shown once and in order by the walks that merge pending
\* writes with the store's chains, whatever tombstones and reserved slots lie between.
THEOREM WalksShowWhatFindSees ==
    ASSUME ~Reuses
    PROVE  Spec => []WalksShowSeen
<1>1. ASSUME MonotonicBooks, NEW t \in Open, NEW at \in Bounds, NEW upper \in Bounds
      PROVE  /\ Shows(WalkFrom(t, at, upper), Seen(t, at, upper))
             /\ Shows(RangeFrom(t, at), Seen(t, at, KeyCount + 1))
             /\ Shows(RangeUpTo(t, upper), Seen(t, 1, upper))
             /\ LowerBound(t, at) = Least(Seen(t, at, KeyCount + 1))
             /\ Smallest(t) = Least(Seen(t, 1, KeyCount + 1))
             /\ at \in Keys => UpperBound(t, at) = Least(Seen(t, at + 1, KeyCount + 1))
  <2> DEFINE n == KeyCount + 1
             first == Smallest(t)
             S == Seen(t, 1, n)
  <2>1. 1 \in Bounds /\ n \in Nat /\ \A k \in Bounds : k < n \/ k = n
    BY KeysAre DEF Bounds
  <2>2. first = Least(S)
    BY <1>1, <2>1, BoundIs DEF Smallest
  <2>3. S \in SUBSET Keys
    BY DEF Seen
  <2> HIDE DEF first, S
  <2>4. /\ first = 0 => S = {}
        /\ first # 0 => first \in Bounds /\ \A k \in S : first <= k
    BY <2>2, <2>3, LeastIs, KeysAre
  <2>5. Shows(WalkFrom(t, at, upper), Seen(t, at, upper)) /\ Shows(RangeFrom(t, at), Seen(t, at, KeyCount + 1))
    BY <1>1, WalkShows DEF RangeFrom
  <2>6. Shows(RangeUpTo(t, upper), Seen(t, 1, upper))
    <3>1. \A k \in Seen(t, 1, upper) : k \in S
      BY <2>1, KeysAre DEF Seen, S, Keys, Bounds
    <3>2. CASE first = 0
      <4>1. Seen(t, 1, upper) = {}
        BY <2>4, <3>1, <3>2
      <4>2. RangeUpTo(t, upper) = <<>>
        BY <3>2 DEF RangeUpTo, first
      <4>3. Shows(<<>>, {})
        BY DEF Shows
      <4>4. QED
        BY <4>1, <4>2, <4>3
    <3>3. CASE first # 0
      <4>1. Seen(t, 1, upper) = Seen(t, first, upper)
        <5>1. Seen(t, 1, upper) \subseteq Seen(t, first, upper)
          BY <2>4, <3>1, <3>3 DEF Seen
        <5>2. first \in Nat \ {0} /\ Keys \subseteq Nat \ {0}
          BY <2>4, <3>3, KeysAre
        <5>3. \A k \in Keys : k >= 1
          BY <5>2
        <5>4. Seen(t, first, upper) \subseteq Seen(t, 1, upper)
          BY <5>3 DEF Seen
        <5>5. QED
          BY <5>1, <5>4
      <4>2. RangeUpTo(t, upper) = WalkFrom(t, first, upper)
        BY <3>3 DEF RangeUpTo, first
      <4>3. Shows(WalkFrom(t, first, upper), Seen(t, first, upper))
        BY <1>1, <2>4, <3>3, WalkShows
      <4>4. QED
        BY <4>1, <4>2, <4>3
    <3>4. QED
      BY <3>2, <3>3
  <2>7. at \in Keys => at + 1 \in Bounds
    BY KeysAre DEF Keys, Bounds
  <2>8. LowerBound(t, at) = Least(Seen(t, at, n))
        /\ (at \in Keys => UpperBound(t, at) = Least(Seen(t, at + 1, n)))
    BY <1>1, <2>7, BoundIs DEF UpperBound
  <2>9. QED
    BY <2>2, <2>5, <2>6, <2>8 DEF first, S
<1>2. MonotonicBooks => WalksShowSeen
  BY <1>1 DEF WalksShowSeen
<1>3. QED
  BY <1>2, MonotonicInvariance, PTL

----------------------------------------------------------------------------
(* What is staged whole, where rolling back loses nothing.                 *)

\* What a transaction wrote is what it listed, in its changes or in the chains,
\* and no write is of the slot staging reserves.
WholeFrame(t) ==
    /\ ~txns[t].staged => DOMAIN txns[t].changes = txns[t].listed
    /\ txns[t].staged =>
         \A k \in txns[t].listed : \E v \in Hidden(chains[k]) : v.gen = txns[t].generation
    /\ \A k \in DOMAIN txns[t].changes : txns[t].changes[k] # KeyOnly

Whole == \A t \in Open : WholeFrame(t)
Written == \A k \in Keys : \A v \in chains[k] : v.payload # KeyOnly

WholeBooks == MonotonicBooks /\ Whole /\ Written

\* One transaction's call leaves what the others wrote where it was.
OthersLeft(t) ==
    /\ DOMAIN txns' \subseteq Open \cup {t} /\ Open \subseteq DOMAIN txns' \cup {t}
    /\ \A u \in Open : u # t =>
         /\ txns'[u].generation = txns[u].generation /\ txns'[u].staged = txns[u].staged
         /\ txns'[u].listed = txns[u].listed /\ txns'[u].changes = txns[u].changes
    /\ \A k \in Keys : \A v \in Hidden(chains[k]) :
         (t \in Open => v.gen # txns[t].generation) => v \in Hidden(chains'[k])

\* The one version a staged transaction has under a key it listed.
LEMMA StagedIs ==
    ASSUME NEW t, NEW k, SoundChain(chains[k]), NEW v \in chains[k], v.gen = txns[t].generation
    PROVE  StagedVersions(t, k) = {v} /\ (CHOOSE w \in StagedVersions(t, k) : TRUE) = v
<1>1. StagedVersions(t, k) = {v}
  BY DEF StagedVersions, SoundChain
<1>2. QED
  BY <1>1

\* After a step, too, a generation names the one version there is of it.
LEMMA StagedThen ==
    ASSUME NEW t, NEW k, SoundChain(chains'[k]), NEW v \in chains'[k], v.gen = txns'[t].generation
    PROVE  (CHOOSE w \in StagedVersions(t, k)' : TRUE) = v
<1>1. StagedVersions(t, k)' = {w \in chains'[k] : w.gen = txns'[t].generation}
  BY DEF StagedVersions
<1>2. StagedVersions(t, k)' = {v}
  BY <1>1 DEF SoundChain
<1>3. QED
  BY <1>2

\* What a transaction would publish: a payload for every key it listed.
LEMMA PendingIs ==
    ASSUME WholeBooks, NEW t \in Open
    PROVE  /\ PendingOf(t) \in Writings /\ DOMAIN PendingOf(t) = txns[t].listed
           /\ ~txns[t].staged => PendingOf(t) = txns[t].changes
           /\ txns[t].staged =>
                \A k \in txns[t].listed : \A v \in Hidden(chains[k]) :
                    v.gen = txns[t].generation => PendingOf(t)[k] = v.payload
<1>1. /\ txns[t].listed \subseteq Keys /\ txns[t].changes \in Writings
      /\ ~txns[t].staged => DOMAIN txns[t].changes = txns[t].listed
  BY FrameFields DEF WholeBooks, MonotonicBooks, FramesSound, Whole, WholeFrame
<1>2. CASE ~txns[t].staged
  BY <1>1, <1>2 DEF PendingOf
<1>3. CASE txns[t].staged
  <2> DEFINE At(k) == (CHOOSE v \in StagedVersions(t, k) : TRUE).payload
             c == [k \in txns[t].listed |-> At(k)]
  <2>1. ASSUME NEW k \in txns[t].listed
        PROVE  /\ At(k) \in Payloads \cup {Absent}
               /\ \A v \in Hidden(chains[k]) : v.gen = txns[t].generation => At(k) = v.payload
    <3>1. SoundChain(chains[k]) /\ Hidden(chains[k]) \subseteq chains[k] /\ chains[k] \subseteq Versions
      BY <1>1 DEF WholeBooks, MonotonicBooks, ChainsSound, SoundChain, Hidden
    <3>2. \E v \in Hidden(chains[k]) : v.gen = txns[t].generation
      BY <1>3 DEF WholeBooks, Whole, WholeFrame
    <3>3. \A v \in Hidden(chains[k]) : v.gen = txns[t].generation => At(k) = v.payload
      <4> TAKE v \in Hidden(chains[k])
      <4>1. v.gen = txns[t].generation => (CHOOSE w \in StagedVersions(t, k) : TRUE) = v
        BY <3>1, StagedIs
      <4>2. QED
        BY <4>1
    <3> HIDE DEF At
    <3>4. QED
      BY <3>1, <3>2, <3>3, VersionFields
  <2>2. PendingOf(t) = c
    BY <1>3 DEF PendingOf
  <2> HIDE DEF At
  <2>3. c \in [txns[t].listed -> Payloads \cup {Absent}] /\ DOMAIN c = txns[t].listed
    BY <2>1
  <2>4. c \in Writings
    BY <1>1, <2>3, WritingIs
  <2>5. QED
    BY <1>3, <2>1, <2>2, <2>3, <2>4
<1>4. QED
  BY <1>2, <1>3

\* So the others still have what they wrote.
LEMMA OthersKeep ==
    ASSUME WholeBooks, MonotonicBooks', NEW t, OthersLeft(t), NEW u \in Open, u # t
    PROVE  WholeFrame(u)' /\ PendingOf(u)' = PendingOf(u)
<1>1. /\ txns'[u].generation = txns[u].generation /\ txns'[u].staged = txns[u].staged
      /\ txns'[u].listed = txns[u].listed /\ txns'[u].changes = txns[u].changes
      /\ u \in DOMAIN txns'
  BY DEF OthersLeft
<1>2. WholeFrame(u) /\ txns[u].listed \subseteq Keys
  BY FrameFields DEF WholeBooks, MonotonicBooks, FramesSound, Whole
<1>3. CASE ~txns[u].staged
  <2>1. PendingOf(u)' = PendingOf(u)
    BY <1>1, <1>3 DEF PendingOf
  <2>2. QED
    BY <1>1, <1>2, <1>3, <2>1 DEF WholeFrame
<1>4. CASE txns[u].staged
  <2>1. ASSUME NEW k \in txns[u].listed
        PROVE  \E v \in Hidden(chains[k]) : /\ v.gen = txns[u].generation
                                            /\ v \in Hidden(chains'[k])
                                            /\ PendingOf(u)[k] = v.payload
                                            /\ (CHOOSE w \in StagedVersions(u, k)' : TRUE) = v
    <3>1. k \in Keys /\ SoundChain(chains'[k])
      BY <1>2 DEF MonotonicBooks, ChainsSound
    <3>2. PICK v \in Hidden(chains[k]) : v.gen = txns[u].generation
      BY <1>2, <1>4 DEF WholeFrame
    <3>3. t \in Open => v.gen # txns[t].generation
      BY <3>2 DEF WholeBooks, MonotonicBooks, GensApart
    <3>4. v \in Hidden(chains'[k])
      BY <3>1, <3>3 DEF OthersLeft
    <3>5. v \in chains'[k] /\ v.gen = txns'[u].generation
      BY <1>1, <3>2, <3>4 DEF Hidden
    <3>6. (CHOOSE w \in StagedVersions(u, k)' : TRUE) = v
      BY <3>1, <3>5, StagedThen
    <3>7. PendingOf(u)[k] = v.payload
      BY <1>4, <3>2, PendingIs
    <3>8. QED
      BY <3>2, <3>4, <3>6, <3>7
  <2>2. DOMAIN PendingOf(u) = txns[u].listed /\ PendingOf(u) = [k \in txns[u].listed |-> PendingOf(u)[k]]
    BY <1>4, PendingIs DEF PendingOf
  <2>3. PendingOf(u)' = [k \in txns[u].listed |-> (CHOOSE w \in StagedVersions(u, k)' : TRUE).payload]
    BY <1>1, <1>4 DEF PendingOf
  <2>4. \A k \in txns[u].listed : (CHOOSE w \in StagedVersions(u, k)' : TRUE).payload = PendingOf(u)[k]
    BY <2>1
  <2>5. PendingOf(u)' = PendingOf(u)
    BY <2>2, <2>3, <2>4
  <2>6. \A k \in txns[u].listed : \E v \in Hidden(chains'[k]) : v.gen = txns[u].generation
    BY <2>1
  <2>7. WholeFrame(u)'
    BY <1>1, <1>2, <1>4, <2>6 DEF WholeFrame, Hidden, VisibleIn
  <2>8. QED
    BY <2>5, <2>7
<1>5. QED
  BY <1>3, <1>4

\* Contents are what is visible, and change with nothing else.
LEMMA ContentsAre ==
    ASSUME NEW k \in Keys, VisibleIn(chains'[k]) = VisibleIn(chains[k])
    PROVE  Contents(k)' = Contents(k)
<1>1. Contents(k)' = IF Readable(k)' = {} THEN Absent ELSE (CHOOSE v \in Readable(k)' : TRUE).payload
  BY DEF Contents
<1>2. Readable(k)' = {v \in VisibleIn(chains'[k]) : v.payload # Absent}
  BY DEF Readable, VisibleIn
<1>3. Readable(k)' = Readable(k)
  BY <1>2 DEF Readable
<1>4. QED
  BY <1>1, <1>3 DEF Contents

\* What a chain that publishes one version, or none, has for contents.
LEMMA ContentsThen ==
    ASSUME NEW k
    PROVE  /\ VisibleIn(chains'[k]) = {} => Contents(k)' = Absent
           /\ \A v : VisibleIn(chains'[k]) = {v} => Contents(k)' = v.payload
<1>1. Contents(k)' = IF Readable(k)' = {} THEN Absent ELSE (CHOOSE v \in Readable(k)' : TRUE).payload
  BY DEF Contents
<1>2. Readable(k)' = {v \in VisibleIn(chains'[k]) : v.payload # Absent}
  BY DEF Readable, VisibleIn
<1>3. VisibleIn(chains'[k]) = {} => Readable(k)' = {}
  BY <1>2
<1>4. \A v : VisibleIn(chains'[k]) = {v} => Readable(k)' = IF v.payload # Absent THEN {v} ELSE {}
  BY <1>2
<1>5. QED
  BY <1>1, <1>3, <1>4

----------------------------------------------------------------------------
(* MonotonicStore implements GroupStore.                                   *)

\* What a call does to what is pending, given what it does to its own transaction.
LEMMA PendingMoves ==
    ASSUME WholeBooks, MonotonicBooks', NEW t, OthersLeft(t), Written',
           t \in DOMAIN txns' => WholeFrame(t)'
    PROVE  /\ WholeBooks'
           /\ \A w : t \in Open /\ t \in DOMAIN txns' /\ PendingOf(t)' = w =>
                PendingNow' = [PendingNow EXCEPT ![t] = w]
           /\ t \in DOMAIN txns' /\ PendingOf(t)' = <<>> =>
                PendingNow' = [u \in Open \cup {t} |-> IF u = t THEN <<>> ELSE PendingNow[u]]
           /\ t \notin DOMAIN txns' => PendingNow' = [u \in Open \ {t} |-> PendingNow[u]]
<1>1. \A u \in Open : u # t => WholeFrame(u)' /\ PendingOf(u)' = PendingOf(u)
  BY OthersKeep
<1>2. DOMAIN txns' \subseteq Open \cup {t} /\ Open \subseteq DOMAIN txns' \cup {t}
  BY DEF OthersLeft
<1>3. Whole'
  <2>1. \A u \in DOMAIN txns' : WholeFrame(u)'
    BY <1>1, <1>2
  <2>2. QED
    BY <2>1 DEF Whole, Open
<1>4. PendingNow' = [u \in DOMAIN txns' |-> PendingOf(u)'] /\ PendingNow = [u \in Open |-> PendingOf(u)]
  BY DEF PendingNow, Open
<1>5. ASSUME NEW w, t \in Open, t \in DOMAIN txns', PendingOf(t)' = w
      PROVE  PendingNow' = [PendingNow EXCEPT ![t] = w]
  <2>1. DOMAIN txns' = Open
    BY <1>2, <1>5
  <2>2. \A u \in Open : PendingOf(u)' = IF u = t THEN w ELSE PendingOf(u)
    BY <1>1, <1>5
  <2>3. PendingNow' = [u \in Open |-> IF u = t THEN w ELSE PendingOf(u)]
    BY <1>4, <2>1, <2>2
  <2>4. QED
    BY <1>4, <2>3
<1>6. ASSUME t \in DOMAIN txns', PendingOf(t)' = <<>>
      PROVE  PendingNow' = [u \in Open \cup {t} |-> IF u = t THEN <<>> ELSE PendingNow[u]]
  <2>1. DOMAIN txns' = Open \cup {t}
    BY <1>2, <1>6
  <2>2. \A u \in Open \cup {t} : PendingOf(u)' = IF u = t THEN <<>> ELSE PendingNow[u]
    BY <1>1, <1>4, <1>6
  <2>3. QED
    BY <1>4, <2>1, <2>2
<1>7. ASSUME t \notin DOMAIN txns' PROVE PendingNow' = [u \in Open \ {t} |-> PendingNow[u]]
  <2>1. DOMAIN txns' = Open \ {t}
    BY <1>2, <1>7
  <2>2. \A u \in Open \ {t} : PendingOf(u)' = PendingNow[u]
    BY <1>1, <1>4
  <2>3. QED
    BY <1>4, <2>1, <2>2
<1>8. QED
  BY <1>3, <1>5, <1>6, <1>7 DEF WholeBooks

\* Contents stay where nothing becomes visible or stops being.
SameShown == \A k \in Keys : VisibleIn(chains'[k]) = VisibleIn(chains[k])

\* What is published decides the contents.
LEMMA ContentsStay ==
    ASSUME SameShown
    PROVE  ContentsNow' = ContentsNow
BY ContentsAre DEF SameShown, ContentsNow

\* A call of a transaction that publishes nothing leaves the contents, and moves
\* what is pending of that transaction only.
LEMMA QuietKeeps ==
    ASSUME WholeBooks, MonotonicBooks', NEW t, OthersLeft(t), SameShown, Written',
           t \in DOMAIN txns' => WholeFrame(t)'
    PROVE  /\ WholeBooks' /\ ContentsNow' = ContentsNow
           /\ Group!Open = Open /\ \A u \in Open : PendingNow[u] = PendingOf(u)
           /\ \A w : t \in Open /\ t \in DOMAIN txns' /\ PendingOf(t)' = w =>
                PendingNow' = [PendingNow EXCEPT ![t] = w]
           /\ t \in Open /\ t \in DOMAIN txns' /\ PendingOf(t)' = PendingOf(t) => UNCHANGED Group!vars
           /\ t \in DOMAIN txns' /\ PendingOf(t)' = <<>> =>
                PendingNow' = [u \in Open \cup {t} |-> IF u = t THEN <<>> ELSE PendingNow[u]]
           /\ t \notin DOMAIN txns' => PendingNow' = [u \in Open \ {t} |-> PendingNow[u]]
<1>1. WholeBooks' /\ ContentsNow' = ContentsNow
  BY PendingMoves, ContentsStay
<1>2. Group!Open = Open /\ PendingNow = [u \in Open |-> PendingOf(u)]
  BY DEF PendingNow, Group!Open
<1>3. \A w : t \in Open /\ t \in DOMAIN txns' /\ PendingOf(t)' = w =>
        PendingNow' = [PendingNow EXCEPT ![t] = w]
  BY PendingMoves
<1>4. t \in Open /\ t \in DOMAIN txns' /\ PendingOf(t)' = PendingOf(t) => UNCHANGED Group!vars
  <2> SUFFICES ASSUME t \in Open, t \in DOMAIN txns', PendingOf(t)' = PendingOf(t) PROVE UNCHANGED Group!vars
    OBVIOUS
  <2>1. PICK w : w = PendingOf(t)
    OBVIOUS
  <2>2. PendingNow' = [PendingNow EXCEPT ![t] = w]
    BY <1>3, <2>1
  <2>3. PendingNow' = PendingNow
    BY <1>2, <2>1, <2>2
  <2>4. QED
    BY <1>1, <2>3 DEF Group!vars
<1>5. QED
  BY <1>1, <1>2, <1>3, <1>4, PendingMoves

\* Taking back what one transaction staged shows nothing and leaves the rest staged.
LEMMA UnstagedKeeps ==
    ASSUME WholeBooks, NEW t \in Open,
           chains' = IF txns[t].staged THEN Unstaged(t, txns[t].listed) ELSE chains
    PROVE  /\ SameShown /\ Written'
           /\ \A k \in Keys : \A v \in Hidden(chains[k]) : v.gen # txns[t].generation => v \in Hidden(chains'[k])
<1>1. SameShown
  BY UnstagedChains DEF SameShown, WholeBooks
<1>2. \A k \in Keys : /\ chains'[k] \subseteq chains[k]
                      /\ \A v \in chains[k] : v.gen # txns[t].generation => v \in chains'[k]
  BY DEF Unstaged, Without
<1>3. Written'
  BY <1>2 DEF WholeBooks, Written
<1>4. QED
  BY <1>1, <1>2, <1>3 DEF Hidden, VisibleIn

\* To open a transaction is to open one of GroupStore, with nothing pending.
LEMMA BeginRefines ==
    ASSUME WholeBooks, MonotonicBooks', NEW t \in Transactions, Begin(t)
    PROVE  WholeBooks' /\ Group!Begin(t)
<1> DEFINE g == FreshGeneration
           f == Opened(g)
<1>1. g \in Nat \ {0}
  BY FreshIs DEF WholeBooks
<1>2. ~f.staged /\ f.changes = <<>> /\ f.listed = {} /\ DOMAIN <<>> = {}
  <2> HIDE DEF g
  <2>1. ~f.staged /\ f.changes = <<>> /\ f.listed = {}
    BY <1>1, OpenedSound
  <2>2. QED
    BY <2>1, NothingWritten
<1>3. t \notin Open /\ chains' = chains /\ txns' = [u \in Open \cup {t} |-> IF u = t THEN f ELSE txns[u]]
  BY DEF Begin
<1> HIDE DEF f
<1>4. DOMAIN txns' = Open \cup {t} /\ txns'[t] = f /\ \A u \in Open : txns'[u] = txns[u]
  BY <1>3
<1>5. OthersLeft(t)
  BY <1>3, <1>4 DEF OthersLeft
<1>6. SameShown /\ Written'
  BY <1>3 DEF SameShown, WholeBooks, Written
<1>7. PendingOf(t)' = <<>>
  BY <1>2, <1>4 DEF PendingOf
<1>8. WholeFrame(t)'
  BY <1>2, <1>4 DEF WholeFrame
<1>9. QED
  BY <1>3, <1>4, <1>5, <1>6, <1>7, <1>8, QuietKeeps DEF Group!Begin

\* To drop one, staged or not, leaves the contents and closes it there.
LEMMA DropRefines ==
    ASSUME WholeBooks, MonotonicBooks', NEW t \in Open, Drop(t)
    PROVE  WholeBooks' /\ Group!End(t)
<1>1. /\ SameShown /\ Written'
      /\ \A k \in Keys : \A v \in Hidden(chains[k]) : v.gen # txns[t].generation => v \in Hidden(chains'[k])
  BY UnstagedKeeps DEF Drop
<1>2. DOMAIN txns' = Open \ {t} /\ \A u \in Open : u # t => txns'[u] = txns[u]
  BY DEF Drop
<1>3. OthersLeft(t)
  BY <1>1, <1>2 DEF OthersLeft
<1>4. t \notin DOMAIN txns'
  BY <1>2
<1>5. QED
  BY <1>1, <1>3, <1>4, QuietKeeps DEF Group!End

\* To reset one empties what it has pending, wherever that was.
LEMMA ResetRefines ==
    ASSUME WholeBooks, MonotonicBooks', NEW t \in Open, Reset(t)
    PROVE  WholeBooks' /\ Group!Reset(t)
<1> DEFINE g == FreshGeneration
           f == Opened(g)
<1>1. /\ SameShown /\ Written'
      /\ \A k \in Keys : \A v \in Hidden(chains[k]) : v.gen # txns[t].generation => v \in Hidden(chains'[k])
  BY UnstagedKeeps DEF Reset
<1>2. g \in Nat \ {0}
  BY FreshIs DEF WholeBooks
<1>3. ~f.staged /\ f.changes = <<>> /\ f.listed = {} /\ DOMAIN <<>> = {}
  <2> HIDE DEF g
  <2>1. ~f.staged /\ f.changes = <<>> /\ f.listed = {}
    BY <1>2, OpenedSound
  <2>2. QED
    BY <2>1, NothingWritten
<1>4. txns' = [txns EXCEPT ![t] = f]
  BY DEF Reset
<1> HIDE DEF f
<1>5. DOMAIN txns' = Open /\ txns'[t] = f /\ \A u \in Open : u # t => txns'[u] = txns[u]
  BY <1>4 DEF Open
<1>6. OthersLeft(t)
  BY <1>1, <1>5 DEF OthersLeft
<1>7. PendingOf(t)' = <<>>
  BY <1>3, <1>5 DEF PendingOf
<1>8. WholeFrame(t)'
  BY <1>3, <1>5 DEF WholeFrame
<1>9. QED
  BY <1>1, <1>5, <1>6, <1>7, <1>8, QuietKeeps DEF Group!Reset

\* What is pending stays where neither the chains nor the frame change.
LEMMA PendingSame ==
    ASSUME NEW t \in Open, chains' = chains, WholeFrame(t),
           txns'[t].staged = txns[t].staged, txns'[t].listed = txns[t].listed,
           txns'[t].changes = txns[t].changes, txns'[t].generation = txns[t].generation
    PROVE  PendingOf(t)' = PendingOf(t) /\ WholeFrame(t)'
<1>1. \A k : StagedVersions(t, k)' = StagedVersions(t, k)
  BY DEF StagedVersions
<1>2. PendingOf(t)' = PendingOf(t)
  BY <1>1 DEF PendingOf
<1>3. WholeFrame(t)'
  BY DEF WholeFrame, Hidden, VisibleIn
<1>4. QED
  BY <1>2, <1>3

\* To watch changes nothing of what is pending or published.
LEMMA WatchRefines ==
    ASSUME WholeBooks, MonotonicBooks', NEW t \in Open, NEW k \in Keys, Watch(t, k)
    PROVE  WholeBooks' /\ UNCHANGED Group!vars
<1>1. PICK W : txns' = [txns EXCEPT ![t].watches = W]
  BY Zenon DEF Watch
<1>2. txns[t] \in Frames /\ t \in Transactions
  BY DEF WholeBooks, MonotonicBooks, FramesSound
<1>3. DOMAIN txns' = Open /\ txns'[t] = [txns[t] EXCEPT !.watches = W] /\ \A u \in Open : u # t => txns'[u] = txns[u]
  BY <1>1 DEF Open
<1>4. /\ txns'[t].staged = txns[t].staged /\ txns'[t].listed = txns[t].listed
      /\ txns'[t].changes = txns[t].changes /\ txns'[t].generation = txns[t].generation
  BY <1>2, <1>3 DEF Frames
<1>5. chains' = chains
  BY DEF Watch
<1>6. OthersLeft(t)
  BY <1>3, <1>5 DEF OthersLeft
<1>7. SameShown /\ Written'
  BY <1>5 DEF SameShown, WholeBooks, Written
<1>8. PendingOf(t)' = PendingOf(t) /\ WholeFrame(t)'
  BY <1>4, <1>5, PendingSame DEF WholeBooks, Whole
<1>9. QED
  BY <1>3, <1>6, <1>7, <1>8, QuietKeeps

\* To write is to have more pending.
LEMMA SetsAsideRefines ==
    ASSUME WholeBooks, ~Reuses, MonotonicBooks', NEW t \in Open,
           NEW ks \in SUBSET Keys, NEW p \in {t, Absent}, SetsAside(t, ks, p)
    PROVE  WholeBooks' /\ Group!Write(t, ks, p)
<1> DEFINE u == txns[t]
           f == AlsoWrites(u, ks, p)
<1>1. txns' = [txns EXCEPT ![t] = AlsoWrites(u, ks, p)]
  BY DEF SetsAside
<1>2. ~u.staged /\ ~u.committed /\ chains' = chains
  BY DEF SetsAside, MayWrite, Pending
<1>3. t \in Transactions /\ SoundFrame(u) /\ u \in Frames
  BY DEF WholeBooks, MonotonicBooks, FramesSound
<1>4. p \in Payloads \cup {Absent} /\ p # KeyOnly
  BY <1>3, KeysAre, MonotonicAssumption DEF MonotonicAssumption
<1>5. DOMAIN u.changes = u.listed /\ \A k \in DOMAIN u.changes : u.changes[k] # KeyOnly
  BY <1>2 DEF WholeBooks, Whole, WholeFrame
<1>6. txns' = [txns EXCEPT ![t] = f]
  BY <1>1
<1> HIDE DEF u
<1>7. /\ f.listed = u.listed \cup (ks \ DOMAIN u.changes)
      /\ f.changes = [k \in DOMAIN u.changes \cup ks |-> IF k \in ks THEN p ELSE u.changes[k]]
  BY <1>3, AlsoWritesFields
<1>8. SoundFrame(f) /\ ~f.staged /\ f.generation = u.generation
  BY <1>2, <1>3, <1>4, AlsoWritesSound
<1> HIDE DEF f
<1>9. DOMAIN txns' = Open /\ txns'[t] = f /\ \A s \in Open : s # t => txns'[s] = txns[s]
  BY <1>6 DEF Open
<1>10. OthersLeft(t)
  BY <1>2, <1>9 DEF OthersLeft
<1>11. SameShown /\ Written'
  BY <1>2 DEF SameShown, WholeBooks, Written
<1>12. WholeFrame(t)'
  <2>1. DOMAIN f.changes = f.listed
    BY <1>5, <1>7
  <2>2. \A k \in DOMAIN f.changes : f.changes[k] # KeyOnly
    BY <1>4, <1>5, <1>7
  <2>3. QED
    BY <1>8, <1>9, <2>1, <2>2 DEF WholeFrame
<1>13. PendingOf(t)' = f.changes /\ PendingOf(t) = u.changes
  BY <1>2, <1>8, <1>9 DEF PendingOf, u
<1>14. f.changes = Group!Also(PendingOf(t), ks, p)
  BY <1>7, <1>13 DEF Group!Also
<1>15. /\ WholeBooks' /\ ContentsNow' = ContentsNow
       /\ PendingNow[t] = PendingOf(t)
       /\ PendingNow' = [PendingNow EXCEPT ![t] = Group!Also(PendingOf(t), ks, p)]
  BY <1>9, <1>10, <1>11, <1>12, <1>13, <1>14, QuietKeeps
<1>16. QED
  BY <1>15 DEF Group!Write

\* Staging moves what is pending into the chains, where it is still pending and not yet seen.
LEMMA StageRefines ==
    ASSUME WholeBooks, MonotonicBooks', NEW t \in Open, Stage(t)
    PROVE  WholeBooks' /\ UNCHANGED Group!vars
<1> DEFINE u == txns[t]
           g == u.generation
           f == StagedFrame(u)
           c == u.changes
           ls == u.listed
<1>1. SoundFrame(u) /\ u \in Frames /\ t \in Transactions
  BY DEF WholeBooks, MonotonicBooks, FramesSound
<1>2. ~u.staged /\ ls \subseteq Keys /\ c \in Writings /\ g \in Nat \ {0}
  BY <1>1, FrameFields DEF Stage, Pending
<1>3. DOMAIN c = ls /\ \A k \in ls : c[k] # KeyOnly
  BY <1>2 DEF WholeBooks, Whole, WholeFrame
<1>4. /\ \A k \in Keys : k \notin ls => chains'[k] = chains[k]
      /\ \A k \in ls : chains'[k] = chains[k] \cup {Staged(g, c[k])}
  BY <1>2, <1>3, StagedChains DEF WholeBooks, Stages, Files
<1>5. /\ f.staged /\ f.generation = g /\ f.listed = ls /\ f.changes = <<>>
      /\ DOMAIN <<>> = {}
  <2> HIDE DEF u
  <2>1. f.staged /\ f.generation = u.generation /\ f.listed = u.listed /\ f.changes = <<>>
    BY <1>1, StagedFrameIs
  <2>2. QED
    BY <2>1, NothingWritten
<1>6. txns' = [txns EXCEPT ![t] = f]
  BY DEF Stage, StagedFrame
<1> HIDE DEF f
<1>7. DOMAIN txns' = Open /\ txns'[t] = f /\ \A s \in Open : s # t => txns'[s] = txns[s]
  BY <1>6 DEF Open
<1>8. \A k \in Keys : SoundChain(chains'[k])
  BY DEF MonotonicBooks, ChainsSound
<1>9. \A k \in ls : Staged(g, c[k]) \in Hidden(chains'[k]) /\ Staged(g, c[k]).gen = g
                    /\ Staged(g, c[k]).payload = c[k] /\ ~Staged(g, c[k]).visible
  BY <1>4, VersionMade DEF Hidden, VisibleIn
<1> HIDE DEF u, g, c, ls
<1>10. Written'
  <2>1. \A k \in Keys : \A v \in chains'[k] : v \in chains[k] \/ (k \in ls /\ v = Staged(g, c[k]))
    BY <1>4
  <2>2. \A k \in Keys : \A v \in chains[k] : v.payload # KeyOnly
    BY DEF WholeBooks, Written
  <2>3. \A k \in Keys : \A v \in chains'[k] : v.payload # KeyOnly
    BY <1>3, <1>9, <2>1, <2>2
  <2>4. QED
    BY <2>3 DEF Written
<1>11. SameShown /\ \A k \in Keys : Hidden(chains[k]) \subseteq Hidden(chains'[k])
  <2>1. ASSUME NEW k \in Keys
        PROVE  VisibleIn(chains'[k]) = VisibleIn(chains[k]) /\ Hidden(chains[k]) \subseteq Hidden(chains'[k])
    <3>1. CASE k \in ls
      <4> DEFINE n == Staged(g, c[k])
      <4>1. chains'[k] = chains[k] \cup {n} /\ ~n.visible
        BY <1>4, <1>9, <3>1
      <4> HIDE DEF n
      <4>2. QED
        BY <4>1 DEF VisibleIn, Hidden
    <3>2. CASE k \notin ls
      BY <1>4, <3>2
    <3>3. QED
      BY <3>1, <3>2
  <2>2. QED
    BY <2>1 DEF SameShown
<1>12. OthersLeft(t)
  BY <1>7, <1>11 DEF OthersLeft
<1>13. WholeFrame(t)'
  <2>1. \A k \in ls : \E v \in Hidden(chains'[k]) : v.gen = g
    BY <1>9
  <2>2. QED
    BY <1>5, <1>7, <2>1 DEF WholeFrame, Hidden, VisibleIn
<1>14. PendingOf(t)' = c /\ PendingOf(t) = c
  <2>1. \A k \in ls : (CHOOSE w \in StagedVersions(t, k)' : TRUE) = Staged(g, c[k])
    <3> TAKE k \in ls
    <3> DEFINE n == Staged(g, c[k])
    <3>1. k \in Keys /\ n \in chains'[k] /\ n.gen = txns'[t].generation
      BY <1>2, <1>5, <1>7, <1>9 DEF Hidden
    <3>2. SoundChain(chains'[k])
      BY <3>1, <1>8
    <3> HIDE DEF n
    <3>3. (CHOOSE w \in StagedVersions(t, k)' : TRUE) = n
      BY <3>1, <3>2, StagedThen
    <3>4. QED
      BY <3>3 DEF n
  <2>2. PendingOf(t)' = [k \in ls |-> (CHOOSE w \in StagedVersions(t, k)' : TRUE).payload]
    BY <1>5, <1>7 DEF PendingOf
  <2>3. \A k \in ls : (CHOOSE w \in StagedVersions(t, k)' : TRUE).payload = c[k]
    BY <1>9, <2>1
  <2>4. c = [k \in ls |-> c[k]]
    BY <1>2, <1>3, WritingIs
  <2>5. PendingOf(t)' = [k \in ls |-> c[k]]
    BY <2>2, <2>3
  <2>6. PendingOf(t) = c
    BY <1>2 DEF PendingOf, u, c
  <2>7. QED
    BY <2>4, <2>5, <2>6
<1>15. QED
  BY <1>7, <1>10, <1>11, <1>12, <1>13, <1>14, QuietKeeps

\* Rolling back moves it out again, whole, when memory does not run out.
LEMMA RollbackRefines ==
    ASSUME WholeBooks, ~RollbackFails, MonotonicBooks', NEW t \in Open, NEW lost, Rollback(t, lost)
    PROVE  WholeBooks' /\ UNCHANGED Group!vars
<1> DEFINE u == txns[t]
           ls == u.listed
           h == FreshGeneration
           at == [k \in ls |-> (CHOOSE v \in StagedVersions(t, k) : TRUE).payload]
           f == RolledBack(u, at, h)
<1>1. SoundFrame(u) /\ u \in Frames /\ t \in Transactions /\ u.staged /\ ls \subseteq Keys
  <2>1. u.staged
    BY DEF Rollback
  <2>2. QED
    BY <2>1, FrameFields DEF WholeBooks, MonotonicBooks, FramesSound
<1>2. lost = {}
  BY DEF Rollback
<1>3. \A k \in ls : \E v \in Hidden(chains[k]) : /\ v.gen = u.generation /\ v.payload # KeyOnly
                                                 /\ PendingOf(t)[k] = v.payload
                                                 /\ StagedVersions(t, k) # {}
  <2> TAKE k \in ls
  <2>1. PICK v \in Hidden(chains[k]) : v.gen = u.generation
    BY <1>1 DEF WholeBooks, Whole, WholeFrame
  <2>2. v \in chains[k] /\ k \in Keys
    BY <1>1 DEF Hidden
  <2>3. v.payload # KeyOnly
    BY <2>2 DEF WholeBooks, Written
  <2>4. v \in StagedVersions(t, k)
    BY <2>1, <2>2 DEF StagedVersions
  <2>5. PendingOf(t)[k] = v.payload
    BY <1>1, <2>1, PendingIs
  <2>6. QED
    BY <2>1, <2>3, <2>4, <2>5
<1>4. {k \in ls \ lost : StagedVersions(t, k) # {}} = ls
  BY <1>2, <1>3
<1>5. PendingOf(t) = at /\ at \in Writings /\ DOMAIN at = ls
  <2>1. PendingOf(t) = at
    BY <1>1 DEF PendingOf
  <2>2. QED
    BY <2>1, PendingIs
<1>6. txns' = [txns EXCEPT ![t] = f]
  BY <1>4 DEF Rollback, RolledBack
<1> HIDE DEF at
<1>7. h \in Nat \ {0}
  BY FreshIs DEF WholeBooks
<1>8. f.generation = h /\ f.changes = at /\ f.listed = ls /\ ~f.staged
  <2> HIDE DEF u, h
  <2>1. DOMAIN at \subseteq u.listed
    BY <1>5 DEF ls
  <2>2. /\ RolledBack(u, at, h).generation = h /\ RolledBack(u, at, h).changes = at
        /\ RolledBack(u, at, h).listed = u.listed /\ ~RolledBack(u, at, h).staged
    BY <1>1, <1>5, <1>7, <2>1, RolledBackFrame
  <2>3. QED
    BY <2>2 DEF ls
<1> HIDE DEF f
<1>9. DOMAIN txns' = Open /\ txns'[t] = f /\ \A s \in Open : s # t => txns'[s] = txns[s]
  BY <1>6 DEF Open
<1>10. /\ SameShown /\ Written'
       /\ \A k \in Keys : \A v \in Hidden(chains[k]) : v.gen # txns[t].generation => v \in Hidden(chains'[k])
  <2>1. chains' = IF txns[t].staged THEN Unstaged(t, txns[t].listed) ELSE chains
    BY DEF Rollback
  <2>2. QED
    BY <2>1, UnstagedKeeps
<1>11. OthersLeft(t)
  BY <1>9, <1>10 DEF OthersLeft
<1>12. WholeFrame(t)'
  <2>1. \A k \in ls : at[k] # KeyOnly
    BY <1>3, <1>5
  <2>2. QED
    BY <1>5, <1>8, <1>9, <2>1 DEF WholeFrame
<1>13. PendingOf(t)' = at
  BY <1>8, <1>9 DEF PendingOf
<1>14. QED
  BY <1>5, <1>9, <1>10, <1>11, <1>12, <1>13, QuietKeeps

\* A commit makes all that was pending the contents, at once.
LEMMA PublishRefines ==
    ASSUME WholeBooks, MonotonicBooks', NEW t \in Open, Publish(t)
    PROVE  WholeBooks' /\ Group!Commit(t)
<1>0. PICK ks \in SUBSET Keys : ks = txns[t].listed
  BY FrameFields DEF WholeBooks, MonotonicBooks, FramesSound
<1> DEFINE g == txns[t].generation
           c == PendingOf(t)
<1>1. txns[t].staged /\ t \in Transactions
  BY DEF Publish, WholeBooks, MonotonicBooks, FramesSound
<1>2. \A k \in Keys : chains'[k] = IF k \in ks THEN Unmasked(t, k) ELSE chains[k]
  BY <1>0, PublishLoud DEF WholeBooks
<1>3. /\ DOMAIN txns' = Open
      /\ \A u \in Open : txns'[u].generation = txns[u].generation
      /\ \A u \in Open : u # t =>
           /\ txns'[u].staged = txns[u].staged /\ txns'[u].listed = txns[u].listed
           /\ txns'[u].changes = txns[u].changes
      /\ ~txns'[t].staged /\ txns'[t].listed = {} /\ txns'[t].changes = <<>>
  BY <1>0, PublishFrames DEF WholeBooks
<1>4. c \in Writings /\ DOMAIN c = ks
  BY <1>0, PendingIs
<1>5. ASSUME NEW k \in ks
      PROVE  /\ \A v \in Hidden(chains[k]) : v.gen # g => v \in Hidden(chains'[k])
             /\ VisibleIn(chains'[k]) = {Visible(g, c[k])}
             /\ \A v \in chains'[k] : v.payload # KeyOnly
  <2>1. /\ Hidden(chains'[k]) = {v \in Hidden(chains[k]) : v.gen # g}
        /\ VisibleIn(chains'[k]) = {Visible(g, v.payload) : v \in {w \in Hidden(chains[k]) : w.gen = g}}
    BY <1>0, <1>2, UnmaskedChain DEF WholeBooks
  <2>2. PICK v \in Hidden(chains[k]) : v.gen = g
    BY <1>0, <1>1 DEF WholeBooks, Whole, WholeFrame
  <2>3. SoundChain(chains[k]) /\ Hidden(chains[k]) \subseteq chains[k]
    BY DEF WholeBooks, MonotonicBooks, ChainsSound, Hidden
  <2>4. {w \in Hidden(chains[k]) : w.gen = g} = {v}
    BY <2>2, <2>3 DEF SoundChain
  <2>5. c[k] = v.payload
    BY <1>0, <1>1, <2>2, PendingIs
  <2>6. VisibleIn(chains'[k]) = {Visible(g, c[k])}
    BY <2>1, <2>4, <2>5
  <2>7. \A w \in chains[k] : w.payload # KeyOnly
    BY DEF WholeBooks, Written
  <2>8. Visible(g, c[k]).payload # KeyOnly
    BY <2>2, <2>3, <2>5, <2>7, VersionMade
  <2>9. \A w \in chains'[k] : w.payload # KeyOnly
    <3>1. \A w \in chains'[k] : w \in Hidden(chains'[k]) \/ w \in VisibleIn(chains'[k])
      BY DEF Hidden
    <3>2. QED
      BY <2>1, <2>3, <2>6, <2>7, <2>8, <3>1
  <2>10. QED
    BY <2>1, <2>6, <2>9
<1>6. Written'
  BY <1>2, <1>5 DEF WholeBooks, Written
<1>7. OthersLeft(t)
  <2>1. \A k \in Keys : \A v \in Hidden(chains[k]) : v.gen # g => v \in Hidden(chains'[k])
    BY <1>2, <1>5
  <2>2. QED
    BY <1>3, <2>1 DEF OthersLeft
<1>8. WholeFrame(t)' /\ PendingOf(t)' = <<>>
  BY <1>3, NothingWritten DEF WholeFrame, PendingOf
<1>9. WholeBooks' /\ PendingNow' = [PendingNow EXCEPT ![t] = <<>>]
  BY <1>3, <1>6, <1>7, <1>8, PendingMoves
<1>10. \A k \in Keys : Contents(k)' = IF k \in ks THEN c[k] ELSE Contents(k)
  <2> TAKE k \in Keys
  <2>1. CASE k \in ks
    <3>1. Visible(g, c[k]).payload = c[k]
      BY VersionMade
    <3>2. QED
      BY <1>5, <2>1, <3>1, ContentsThen
  <2>2. CASE k \notin ks
    <3>1. VisibleIn(chains'[k]) = VisibleIn(chains[k])
      BY <1>2, <2>2
    <3>2. QED
      BY <2>2, <3>1, ContentsAre
  <2>3. QED
    BY <2>1, <2>2
<1>11. PendingNow[t] = c
  BY DEF PendingNow
<1>12. ContentsNow' = Group!Overlaid(ContentsNow, PendingNow[t])
  BY <1>4, <1>10, <1>11 DEF ContentsNow, Group!Overlaid
<1>13. QED
  BY <1>9, <1>12 DEF Group!Commit

\* A write outside any transaction makes one payload the contents of some keys.
Overwrites(ks, p) ==
    /\ DOMAIN txns' = Open
    /\ \A u \in Open :
         /\ txns'[u].generation = txns[u].generation /\ txns'[u].staged = txns[u].staged
         /\ txns'[u].listed = txns[u].listed /\ txns'[u].changes = txns[u].changes
    /\ \A k \in Keys \ ks : chains'[k] = chains[k]
    /\ \A k \in ks :
         /\ Hidden(chains'[k]) = Hidden(chains[k])
         /\ \/ VisibleIn(chains'[k]) = {} /\ p = Absent
            \/ \E g : VisibleIn(chains'[k]) = {Visible(g, p)}

\* Publishing one payload over any keys is a direct write of GroupStore to all of them.
LEMMA OverwritesRefine ==
    ASSUME WholeBooks, MonotonicBooks', NEW ks \in SUBSET Keys, NEW p \in {Direct, Absent}, Overwrites(ks, p)
    PROVE  WholeBooks' /\ Group!WriteDirectly(ks, p)
<1>1. p \in Payloads \cup {Absent} /\ p # KeyOnly
  BY KeysAre, MonotonicAssumption DEF MonotonicAssumption
<1>2. \A k \in Keys : Hidden(chains'[k]) = Hidden(chains[k])
  BY DEF Overwrites
<1>3. Written'
  <2>1. ASSUME NEW k \in Keys, NEW v \in chains'[k] PROVE v.payload # KeyOnly
    <3>1. CASE k \in ks
      <4>1. v \in Hidden(chains[k]) \/ v \in VisibleIn(chains'[k])
        BY <1>2, <2>1 DEF Hidden
      <4>2. v \in Hidden(chains[k]) => v.payload # KeyOnly
        BY DEF WholeBooks, Written, Hidden
      <4>3. \A g : Visible(g, p).payload = p
        BY VersionMade
      <4>4. v \in VisibleIn(chains'[k]) => v.payload # KeyOnly
        BY <1>1, <3>1, <4>3 DEF Overwrites
      <4>5. QED
        BY <4>1, <4>2, <4>4
    <3>2. CASE k \notin ks
      BY <2>1, <3>2 DEF WholeBooks, Written, Overwrites
    <3>3. QED
      BY <3>1, <3>2
  <2>2. QED
    BY <2>1 DEF Written
<1>4. PICK t : t \notin Open
  BY NoSetContainsEverything
<1>5. OthersLeft(t) /\ t \notin DOMAIN txns'
  BY <1>2, <1>4 DEF OthersLeft, Overwrites
<1>6. WholeBooks' /\ PendingNow' = [u \in Open \ {t} |-> PendingNow[u]]
  BY <1>3, <1>5, PendingMoves
<1>7. PendingNow' = PendingNow
  BY <1>4, <1>6 DEF PendingNow
<1>8. \A k \in Keys : Contents(k)' = IF k \in ks THEN p ELSE Contents(k)
  <2> TAKE k \in Keys
  <2>1. CASE k \in ks
    <3>1. \A g : Visible(g, p).payload = p
      BY VersionMade
    <3>2. QED
      BY <2>1, <3>1, ContentsThen DEF Overwrites
  <2>2. CASE k \notin ks
    <3>1. VisibleIn(chains'[k]) = VisibleIn(chains[k])
      BY <2>2 DEF Overwrites
    <3>2. QED
      BY <2>2, <3>1, ContentsAre
  <2>3. QED
    BY <2>1, <2>2
<1>9. QED
  BY <1>6, <1>7, <1>8 DEF ContentsNow, Group!WriteDirectly

\* A direct or bulk write does that with the payload of a direct writer,
LEMMA WritesOverRefines ==
    ASSUME WholeBooks, MonotonicBooks', NEW ks \in SUBSET Keys, WritesOver(ks)
    PROVE  WholeBooks' /\ Group!WriteDirectly(ks, Direct)
<1> DEFINE n == Visible(FreshGeneration, Direct)
<1>1. n.visible
  BY VersionMade
<1>2. \A k \in ks : chains'[k] = Hidden(chains[k]) \cup {n}
  BY DEF WritesOver, PublishedDirectly, Hidden
<1>3. \A k \in Keys \ ks : chains'[k] = chains[k]
  BY DEF WritesOver
<1>4. \A k \in ks : Hidden(chains'[k]) = Hidden(chains[k]) /\ VisibleIn(chains'[k]) = {n}
  <2> HIDE DEF n
  <2>1. ASSUME NEW k \in ks PROVE Hidden(chains'[k]) = Hidden(chains[k]) /\ VisibleIn(chains'[k]) = {n}
    <3> DEFINE chain == chains[k]
    <3>1. chains'[k] = Hidden(chain) \cup {n}
      BY <1>2, <2>1
    <3> HIDE DEF chain
    <3>2. Hidden(Hidden(chain) \cup {n}) = Hidden(chain) /\ VisibleIn(Hidden(chain) \cup {n}) = {n}
      BY <1>1, OverChain
    <3>3. QED
      BY <3>1, <3>2 DEF chain
  <2>2. QED
    BY <2>1
<1>5. /\ DOMAIN txns' = Open
      /\ \A u \in Open :
           /\ txns'[u].generation = txns[u].generation /\ txns'[u].staged = txns[u].staged
           /\ txns'[u].listed = txns[u].listed /\ txns'[u].changes = txns[u].changes
  BY DirectFrames DEF WritesOver, WholeBooks
<1>6. Overwrites(ks, Direct)
  BY <1>3, <1>4, <1>5 DEF Overwrites
<1>7. QED
  BY <1>6, OverwritesRefine

\* and an erased window, or clear, with none.
LEMMA RetiresRefines ==
    ASSUME WholeBooks, MonotonicBooks', NEW ks \in SUBSET Keys, NEW moved, Retires(ks, moved)
    PROVE  WholeBooks' /\ Group!WriteDirectly(ks, Absent)
<1>1. \A k \in ks : Hidden(chains'[k]) = Hidden(chains[k]) /\ VisibleIn(chains'[k]) = {}
  BY DEF Retires, Hidden, VisibleIn
<1>2. \A k \in Keys \ ks : chains'[k] = chains[k]
  BY DEF Retires
<1>3. /\ DOMAIN txns' = Open
      /\ \A u \in Open :
           /\ txns'[u].generation = txns[u].generation /\ txns'[u].staged = txns[u].staged
           /\ txns'[u].listed = txns[u].listed /\ txns'[u].changes = txns[u].changes
  BY DirectFrames DEF Retires, WholeBooks
<1>4. Overwrites(ks, Absent)
  BY <1>1, <1>2, <1>3 DEF Overwrites
<1>5. QED
  BY <1>4, OverwritesRefine

\* Reclaiming takes tombstones only, so the contents stay.
LEMMA VacuumRefines ==
    ASSUME WholeBooks, MonotonicBooks', NEW lower, NEW upper, Vacuum(lower, upper)
    PROVE  WholeBooks' /\ UNCHANGED Group!vars
<1>0. PICK ks \in SUBSET Keys : ks = {k \in Keys : k >= lower /\ k < upper /\ IsReclaimable(chains[k])}
  OBVIOUS
<1>1. \A k \in ks : Hidden(chains[k]) = {}
  BY <1>0 DEF IsReclaimable, Hidden, VisibleIn
<1>2. chains' = [k \in Keys |-> IF k \in ks THEN {} ELSE chains[k]] /\ txns' = txns
  BY <1>0 DEF Vacuum
<1>3. \A k \in ks : Hidden(chains'[k]) = {} /\ VisibleIn(chains'[k]) = {}
  BY <1>2 DEF Hidden, VisibleIn
<1>4. Overwrites(ks, Absent)
  BY <1>1, <1>2, <1>3 DEF Overwrites, Open
<1>5. \A k \in ks : Contents(k) = Absent
  BY <1>0 DEF Contents, Readable, VisibleIn, IsReclaimable
<1>6. WholeBooks' /\ Group!WriteDirectly(ks, Absent)
  BY <1>4, OverwritesRefine
<1>7. QED
  BY <1>5, <1>6 DEF Group!WriteDirectly, Group!vars, ContentsNow

\* What is called on the store and not on a transaction is one of these three:
\* a write over some keys,
LEMMA OverCalls ==
    ASSUME MonotonicBooks
    PROVE  /\ \A k \in Keys : Upsert(k) => WritesOver({k})
           /\ \A ks \in SUBSET Keys : UpsertMany(ks) => WritesOver(ks)
           /\ \A lower, upper : UpdateRange(lower, upper) =>
                WritesOver({k \in Keys : k >= lower /\ k < upper /\ Readable(k) # {}})
<1>1. ASSUME NEW k \in Keys, Upsert(k) PROVE WritesOver({k})
  <2>1. chains' = [l \in Keys |-> IF l \in {k} THEN PublishedDirectly(l) ELSE chains[l]]
    BY <1>1 DEF Upsert, MonotonicBooks, ChainsSound
  <2>2. QED
    BY <1>1, <2>1 DEF Upsert, WritesOver
<1>2. \A ks \in SUBSET Keys : UpsertMany(ks) => WritesOver(ks)
  BY DEF UpsertMany, WritesOver
<1>3. ASSUME NEW lower, NEW upper, UpdateRange(lower, upper)
      PROVE  WritesOver({k \in Keys : k >= lower /\ k < upper /\ Readable(k) # {}})
  BY <1>3, Zenon DEF UpdateRange, WritesOver
<1>4. QED
  BY <1>1, <1>2, <1>3

\* or the retiring of what they publish, or the reclaiming of tombstones.
LEMMA RetiringCalls ==
    /\ \A ks : Retire(ks) => Retires(ks, {k \in ks : Readable(k) # {}})
    /\ Clear => Retires(Keys, {k \in Keys : Readable(k) # {}})
<1>1. ASSUME NEW ks, Retire(ks) PROVE Retires(ks, {k \in ks : Readable(k) # {}})
  BY <1>1 DEF Retire, Retires, Hidden
<1>2. ASSUME Clear PROVE Retires(Keys, {k \in Keys : Readable(k) # {}})
  <2>1. \A k \in Keys : Hidden(chains[k]) = {}
    BY <1>2 DEF Clear, Hidden
  <2>2. QED
    BY <1>2, <2>1 DEF Clear, Retires
<1>3. QED
  BY <1>1, <1>2

\* A failed staging and the step in which nothing happens leave all of it.
LEMMA IdleKeeps ==
    ASSUME WholeBooks, MonotonicBooks', UNCHANGED vars
    PROVE  WholeBooks' /\ UNCHANGED Group!vars
<1>1. chains' = chains /\ txns' = txns /\ Open' = Open
  BY DEF vars, Open
<1>2. Whole' /\ Written'
  BY <1>1 DEF WholeBooks, Whole, WholeFrame, Written, Hidden, VisibleIn
<1>3. ContentsNow' = ContentsNow
  BY <1>1, ContentsStay DEF SameShown
<1>4. \A t \in Open : PendingOf(t)' = PendingOf(t)
  BY <1>1, PendingSame DEF WholeBooks, Whole
<1>5. PendingNow' = PendingNow
  BY <1>1, <1>4 DEF PendingNow
<1>6. QED
  BY <1>2, <1>3, <1>5 DEF WholeBooks, Group!vars

\* A call of a transaction is the step of GroupStore that CallsRefine says, or none.
LEMMA TransactionCallsRefine ==
    ASSUME WholeBooks, ~Reuses, ~RollbackFails, MonotonicBooks', NEW t \in Open
    PROVE  CallsOfTransaction(t)
<1>1. MonotonicBooks /\ t \in {t, Absent} /\ Absent \in {t, Absent}
  BY DEF WholeBooks
<1>2. Drop(t) => Group!End(t)
  BY DropRefines
<1>3. Reset(t) => Group!Reset(t)
  BY ResetRefines
<1>4. Publish(t) => Group!Commit(t)
  BY PublishRefines
<1>5. Stage(t) => UNCHANGED Group!vars
  BY StageRefines
<1>6. ASSUME NEW some \in SUBSET txns[t].listed, StageFails(t, some) \/ Rollback(t, some)
      PROVE  UNCHANGED Group!vars
  <2>1. CASE StageFails(t, some)
    BY <1>1, <2>1, StageFailsCall, IdleKeeps
  <2>2. CASE Rollback(t, some)
    BY <2>2, RollbackRefines
  <2>3. QED
    BY <1>6, <2>1, <2>2
<1>7. ASSUME NEW k \in Keys
      PROVE  /\ Watch(t, k) => UNCHANGED Group!vars
             /\ Put(t, k) => Group!Write(t, {k}, t)
             /\ EraseKey(t, k) => Group!Write(t, {k}, Absent)
  <2>1. {k} \in SUBSET Keys
    OBVIOUS
  <2>2. Watch(t, k) => UNCHANGED Group!vars
    BY WatchRefines
  <2>3. Put(t, k) => SetsAside(t, {k}, t)
    BY <1>1, WritesAre
  <2>4. EraseKey(t, k) => SetsAside(t, {k}, Absent)
    BY <1>1, WritesAre
  <2>5. SetsAside(t, {k}, t) => Group!Write(t, {k}, t)
    BY <1>1, <2>1, SetsAsideRefines
  <2>6. SetsAside(t, {k}, Absent) => Group!Write(t, {k}, Absent)
    BY <1>1, <2>1, SetsAsideRefines
  <2>7. QED
    BY <2>2, <2>3, <2>4, <2>5, <2>6
<1>8. ASSUME NEW lower \in Bounds, NEW upper \in Bounds, NEW seen, seen = Seen(t, lower, upper)
      PROVE  /\ EraseWalked(t, lower, upper) => Group!Write(t, seen, Absent)
             /\ ReviseWalked(t, lower, upper) => Group!Write(t, seen, t)
  <2>1. seen \in SUBSET Keys
    BY <1>8, SeenKeys
  <2>2. EraseWalked(t, lower, upper) => SetsAside(t, seen, Absent)
    BY <1>1, <1>8, WritesAre
  <2>3. ReviseWalked(t, lower, upper) => SetsAside(t, seen, t)
    BY <1>1, <1>8, WritesAre
  <2>4. SetsAside(t, seen, Absent) => Group!Write(t, seen, Absent)
    BY <1>1, <2>1, SetsAsideRefines
  <2>5. SetsAside(t, seen, t) => Group!Write(t, seen, t)
    BY <1>1, <2>1, SetsAsideRefines
  <2>6. QED
    BY <2>2, <2>3, <2>4, <2>5
<1>9. \A lower, upper \in Bounds :
        Seen(t, lower, upper) = {k \in Keys : k >= lower /\ k < upper /\ Sees(t, k) # Absent}
  BY DEF Seen
<1>10. \A lower, upper \in Bounds : lower < upper =>
         LET seen == {k \in Keys : k >= lower /\ k < upper /\ Sees(t, k) # Absent}
         IN  /\ EraseWalked(t, lower, upper) => Group!Write(t, seen, Absent)
             /\ ReviseWalked(t, lower, upper) => Group!Write(t, seen, t)
  <2> TAKE lower, upper \in Bounds
  <2>1. PICK seen : seen = {k \in Keys : k >= lower /\ k < upper /\ Sees(t, k) # Absent}
    OBVIOUS
  <2>2. seen = Seen(t, lower, upper)
    BY <1>9, <2>1
  <2>3. /\ EraseWalked(t, lower, upper) => Group!Write(t, seen, Absent)
        /\ ReviseWalked(t, lower, upper) => Group!Write(t, seen, t)
    BY <1>8, <2>2
  <2>4. QED
    BY <2>1, <2>3, Zenon
<1>11. QED
  BY <1>2, <1>3, <1>4, <1>5, <1>6, <1>7, <1>10, Zenon DEF CallsOfTransaction

\* So is a call of the store.
LEMMA OutsideCallsRefine ==
    ASSUME WholeBooks, MonotonicBooks'
    PROVE  CallsOutside
<1>1. MonotonicBooks
  BY DEF WholeBooks
<1>2. ASSUME NEW k \in Keys
      PROVE  /\ Upsert(k) => Group!WriteDirectly({k}, Direct)
             /\ Erase(k) => Group!WriteDirectly({k}, Absent)
  <2>1. {k} \in SUBSET Keys
    OBVIOUS
  <2>2. Upsert(k) => WritesOver({k})
    BY <1>1, OverCalls
  <2>3. Erase(k) => \E moved : Retires({k}, moved)
    BY RetiringCalls, Zenon DEF Erase
  <2>4. QED
    BY <2>1, <2>2, <2>3, WritesOverRefines, RetiresRefines
<1>3. \A ks \in SUBSET Keys : UpsertMany(ks) => Group!WriteDirectly(ks, Direct)
  BY <1>1, OverCalls, WritesOverRefines
<1>4. ASSUME NEW lower \in Bounds, NEW upper \in Bounds, NEW window \in SUBSET Keys,
             window = {k \in Keys : k >= lower /\ k < upper}
      PROVE  /\ EraseRange(lower, upper) => Group!WriteDirectly(window, Absent)
             /\ UpdateRange(lower, upper) =>
                  Group!WriteDirectly({k \in window : Contents(k) # Absent}, Direct)
             /\ Vacuum(lower, upper) => UNCHANGED Group!vars
  <2>1. EraseRange(lower, upper) => \E moved : Retires(window, moved)
    BY <1>4, RetiringCalls, Zenon DEF EraseRange
  <2>2. EraseRange(lower, upper) => Group!WriteDirectly(window, Absent)
    BY <1>4, <2>1, RetiresRefines
  <2>3. PICK present \in SUBSET Keys :
               present = {k \in Keys : k >= lower /\ k < upper /\ Readable(k) # {}}
    OBVIOUS
  <2>4. \A k \in Keys : Readable(k) # {} <=> Contents(k) # Absent
    BY DEF Contents, Readable
  <2>5. present = {k \in window : Contents(k) # Absent}
    BY <1>4, <2>3, <2>4
  <2>6. UpdateRange(lower, upper) => WritesOver(present)
    BY <1>1, <2>3, OverCalls
  <2>7. UpdateRange(lower, upper) => Group!WriteDirectly(present, Direct)
    BY <2>6, WritesOverRefines
  <2>8. Vacuum(lower, upper) => UNCHANGED Group!vars
    BY VacuumRefines
  <2>9. QED
    BY <2>2, <2>5, <2>7, <2>8
<1>5. Clear => Group!WriteDirectly(Keys, Absent)
  <2>1. Clear => \E moved : Retires(Keys, moved)
    BY RetiringCalls, Zenon
  <2>2. QED
    BY <2>1, RetiresRefines
<1>6. \A lower, upper \in Bounds : lower < upper =>
        LET window == {k \in Keys : k >= lower /\ k < upper}
        IN  /\ EraseRange(lower, upper) => Group!WriteDirectly(window, Absent)
            /\ UpdateRange(lower, upper) =>
                 Group!WriteDirectly({k \in window : Contents(k) # Absent}, Direct)
            /\ Vacuum(lower, upper) => UNCHANGED Group!vars
  <2> TAKE lower, upper \in Bounds
  <2>1. PICK window \in SUBSET Keys : window = {k \in Keys : k >= lower /\ k < upper}
    OBVIOUS
  <2>2. /\ EraseRange(lower, upper) => Group!WriteDirectly(window, Absent)
        /\ UpdateRange(lower, upper) =>
             Group!WriteDirectly({k \in window : Contents(k) # Absent}, Direct)
        /\ Vacuum(lower, upper) => UNCHANGED Group!vars
    BY <1>4, <2>1
  <2>3. QED
    BY <2>1, <2>2, Zenon
<1>7. QED
  BY <1>2, <1>3, <1>5, <1>6, Zenon DEF CallsOutside

\* Whatever the call, CallsRefine holds of it.
LEMMA EveryCallRefines ==
    ASSUME WholeBooks, ~Reuses, ~RollbackFails, MonotonicBooks'
    PROVE  CallsRefine
<1>1. \A t \in Transactions : Begin(t) => Group!Begin(t)
  BY BeginRefines
<1>2. QED
  BY <1>1, TransactionCallsRefine, OutsideCallsRefine DEF CallsRefine

\* Every call keeps what is staged whole.
LEMMA EveryCallKeepsWhole ==
    ASSUME WholeBooks, ~Reuses, ~RollbackFails, MonotonicBooks', [Next]_vars
    PROVE  WholeBooks'
<1>1. CASE UNCHANGED vars
  BY <1>1, IdleKeeps
<1>2. CASE \E t \in Transactions : Begin(t)
  BY <1>2, BeginRefines
<1>3. ASSUME NEW t \in Open, ByTransaction(t) PROVE WholeBooks'
  <2>1. CASE KeepsAside(t)
    BY <2>1, SetsAsideRefines DEF KeepsAside
  <2>2. CASE \E k \in Keys : Watch(t, k)
    BY <2>2, WatchRefines
  <2>3. CASE Drop(t)
    BY <2>3, DropRefines
  <2>4. CASE Stage(t)
    BY <2>4, StageRefines
  <2>5. CASE Reset(t)
    BY <2>5, ResetRefines
  <2>6. CASE Publish(t)
    BY <2>6, PublishRefines
  <2>7. CASE \E reserved \in SUBSET txns[t].listed : StageFails(t, reserved)
    BY <2>7, StageFailsCall, IdleKeeps DEF WholeBooks
  <2>8. CASE \E lost \in SUBSET txns[t].listed : Rollback(t, lost)
    BY <2>8, RollbackRefines
  <2>9. QED
    BY <1>3, <2>1, <2>2, <2>3, <2>4, <2>5, <2>6, <2>7, <2>8, Zenon DEF ByTransaction
<1>4. CASE Outside
  <2>1. CASE \E ks \in SUBSET Keys : WritesOver(ks) \/ \E moved : Retires(ks, moved)
    BY <2>1, WritesOverRefines, RetiresRefines
  <2>2. CASE \E lower, upper \in Bounds : Vacuum(lower, upper)
    BY <2>2, VacuumRefines
  <2>3. ASSUME NEW k \in Keys, Upsert(k) PROVE \E ks \in SUBSET Keys : WritesOver(ks)
    <3>1. {k} \in SUBSET Keys
      OBVIOUS
    <3>2. QED
      BY <2>3, <3>1, OverCalls, Zenon DEF WholeBooks
  <2>4. ASSUME NEW lower, NEW upper, UpdateRange(lower, upper) PROVE \E ks \in SUBSET Keys : WritesOver(ks)
    <3>1. {k \in Keys : k >= lower /\ k < upper /\ Readable(k) # {}} \in SUBSET Keys
      OBVIOUS
    <3>2. QED
      BY <2>4, <3>1, OverCalls, Zenon DEF WholeBooks
  <2>5. QED
    BY <1>4, <2>1, <2>2, <2>3, <2>4, OverCalls, RetiringCalls, Zenon DEF Outside, WholeBooks
<1>5. QED
  BY <1>1, <1>2, <1>3, <1>4, StepsAre DEF WholeBooks

\* CallsRefine leaves no step that is not one of GroupStore.
LEMMA CallsAreSteps ==
    ASSUME WholeBooks, MonotonicBooks', CallsRefine, [Next]_vars
    PROVE  [Group!Next]_Group!vars
<1>1. Group!Open = Open /\ Open \subseteq Transactions /\ Transactions \subseteq Payloads /\ Direct \in Payloads
  BY KeysAre DEF Group!Open, PendingNow, WholeBooks, MonotonicBooks, FramesSound
<1>2. \A t \in Open, ks \in SUBSET Keys, p \in Payloads \cup {Absent} : Group!Write(t, ks, p) => Group!Next
  BY <1>1, Zenon DEF Group!Next
<1>3. \A ks \in SUBSET Keys, p \in Payloads \cup {Absent} : Group!WriteDirectly(ks, p) => Group!Next
  BY Zenon DEF Group!Next
<1>4. CASE UNCHANGED vars
  BY <1>4, IdleKeeps
<1>5. CASE \E t \in Transactions : Begin(t)
  BY <1>5, Zenon DEF CallsRefine, Group!Next
<1>6. ASSUME NEW t \in Open, CallsOfTransaction(t)
      PROVE  /\ Drop(t) \/ Reset(t) \/ Publish(t) => Group!Next
             /\ Stage(t) => UNCHANGED Group!vars
             /\ \A some \in SUBSET txns[t].listed :
                  StageFails(t, some) \/ Rollback(t, some) => UNCHANGED Group!vars
             /\ \A k \in Keys : /\ Watch(t, k) => UNCHANGED Group!vars
                                /\ Put(t, k) \/ EraseKey(t, k) => Group!Next
             /\ \A lower, upper \in Bounds :
                  lower < upper /\ (EraseWalked(t, lower, upper) \/ ReviseWalked(t, lower, upper)) => Group!Next
  <2>1. t \in Payloads \cup {Absent} /\ Absent \in Payloads \cup {Absent}
    BY <1>1
  <2>2. Drop(t) \/ Reset(t) \/ Publish(t) => Group!Next
    BY <1>1, <1>6, Zenon DEF CallsOfTransaction, Group!Next
  <2>3. ASSUME NEW k \in Keys PROVE Put(t, k) \/ EraseKey(t, k) => Group!Next
    <3>1. {k} \in SUBSET Keys
      OBVIOUS
    <3>2. (Put(t, k) => Group!Write(t, {k}, t)) /\ (EraseKey(t, k) => Group!Write(t, {k}, Absent))
      BY <1>6, Zenon DEF CallsOfTransaction
    <3>3. QED
      BY <1>2, <2>1, <3>1, <3>2, Zenon
  <2>4. ASSUME NEW lower \in Bounds, NEW upper \in Bounds, lower < upper
        PROVE  EraseWalked(t, lower, upper) \/ ReviseWalked(t, lower, upper) => Group!Next
    <3> DEFINE seen == {k \in Keys : k >= lower /\ k < upper /\ Sees(t, k) # Absent}
    <3>1. seen \in SUBSET Keys
      OBVIOUS
    <3>2. /\ EraseWalked(t, lower, upper) => Group!Write(t, seen, Absent)
          /\ ReviseWalked(t, lower, upper) => Group!Write(t, seen, t)
      BY <1>6, <2>4, Zenon DEF CallsOfTransaction
    <3> HIDE DEF seen
    <3>3. QED
      BY <1>2, <2>1, <3>1, <3>2, Zenon
  <2>5. QED
    BY <1>6, <2>2, <2>3, <2>4, Zenon DEF CallsOfTransaction
<1>7. ASSUME CallsOutside
      PROVE  /\ \A k \in Keys : Upsert(k) \/ Erase(k) => Group!Next
             /\ \A ks \in SUBSET Keys : UpsertMany(ks) => Group!Next
             /\ \A lower, upper \in Bounds : lower < upper =>
                  /\ EraseRange(lower, upper) \/ UpdateRange(lower, upper) => Group!Next
                  /\ Vacuum(lower, upper) => UNCHANGED Group!vars
             /\ Clear => Group!Next
  <2>1. Direct \in Payloads \cup {Absent} /\ Absent \in Payloads \cup {Absent} /\ Keys \in SUBSET Keys
    BY <1>1
  <2>2. ASSUME NEW k \in Keys PROVE Upsert(k) \/ Erase(k) => Group!Next
    <3>1. {k} \in SUBSET Keys
      OBVIOUS
    <3>2. QED
      BY <1>3, <1>7, <2>1, <3>1, Zenon DEF CallsOutside
  <2>3. \A ks \in SUBSET Keys : UpsertMany(ks) => Group!Next
    BY <1>3, <1>7, <2>1, Zenon DEF CallsOutside
  <2>4. ASSUME NEW lower \in Bounds, NEW upper \in Bounds, lower < upper
        PROVE  /\ EraseRange(lower, upper) \/ UpdateRange(lower, upper) => Group!Next
               /\ Vacuum(lower, upper) => UNCHANGED Group!vars
    <3> DEFINE window == {k \in Keys : k >= lower /\ k < upper}
               present == {k \in window : Contents(k) # Absent}
    <3>1. window \in SUBSET Keys /\ present \in SUBSET Keys
      OBVIOUS
    <3>2. /\ EraseRange(lower, upper) => Group!WriteDirectly(window, Absent)
          /\ UpdateRange(lower, upper) => Group!WriteDirectly(present, Direct)
          /\ Vacuum(lower, upper) => UNCHANGED Group!vars
      BY <1>7, <2>4, Zenon DEF CallsOutside
    <3> HIDE DEF window, present
    <3>3. QED
      BY <1>3, <2>1, <3>1, <3>2, Zenon
  <2>5. Clear => Group!Next
    BY <1>3, <1>7, <2>1, Zenon DEF CallsOutside
  <2>6. QED
    BY <2>2, <2>3, <2>4, <2>5, Zenon
<1>8. CallsOutside /\ \A t \in Open : CallsOfTransaction(t)
  BY DEF CallsRefine
<1>9. CASE \E t \in Open :
             \/ Drop(t) \/ Stage(t) \/ Reset(t) \/ Publish(t)
             \/ \E k \in Keys : Put(t, k) \/ EraseKey(t, k) \/ Watch(t, k)
             \/ \E lower, upper \in Bounds :
                  lower < upper /\ (EraseWalked(t, lower, upper) \/ ReviseWalked(t, lower, upper))
             \/ \E reserved \in SUBSET txns[t].listed : StageFails(t, reserved)
             \/ \E lost \in SUBSET txns[t].listed : Rollback(t, lost)
  BY <1>6, <1>8, <1>9, Zenon
<1>10. CASE \/ \E k \in Keys : Upsert(k) \/ Erase(k)
            \/ \E ks \in SUBSET Keys : Cardinality(ks) > 1 /\ UpsertMany(ks)
            \/ \E lower, upper \in Bounds :
                 lower < upper /\ (EraseRange(lower, upper) \/ UpdateRange(lower, upper) \/ Vacuum(lower, upper))
            \/ Clear
  BY <1>7, <1>8, <1>10, Zenon
<1>11. QED
  BY <1>4, <1>5, <1>9, <1>10, Zenon DEF Next

\* The empty store is the empty store.
LEMMA InitWhole == Init => WholeBooks /\ Group!Init
<1> SUFFICES ASSUME Init PROVE WholeBooks /\ Group!Init
  OBVIOUS
<1>1. chains = [k \in Keys |-> {}] /\ txns = <<>> /\ Open = {}
  BY DEF Init, Open
<1>2. Whole /\ Written
  BY <1>1 DEF Whole, Written
<1>3. \A k \in Keys : Contents(k) = Absent
  BY <1>1 DEF Contents, Readable, VisibleIn
<1>4. ContentsNow = [k \in Keys |-> Absent] /\ PendingNow = <<>>
  BY <1>1, <1>3 DEF ContentsNow, PendingNow
<1>5. QED
  BY <1>2, <1>4, InitBooks DEF WholeBooks, Group!Init

\* Where rolling back loses nothing, what is staged is in the chains whole.
THEOREM WholeInvariance ==
    ASSUME ~Reuses, ~RollbackFails
    PROVE  Spec => []WholeBooks
<1>1. MonotonicBooks /\ [Next]_vars => MonotonicBooks'
  BY EveryCall
<1>2. WholeBooks /\ MonotonicBooks' /\ [Next]_vars => WholeBooks'
  BY EveryCallKeepsWhole
<1>3. WholeBooks => MonotonicBooks
  BY DEF WholeBooks
<1>4. QED
  BY <1>1, <1>2, <1>3, InitWhole, PTL DEF Spec

\* A staged version is where staging put it whatever ran since, which is why
\* publishing cannot fail; and nothing staged outlives who staged it.
THEOREM StagesStayExact ==
    ASSUME ~Reuses, ~RollbackFails
    PROVE  Spec => []StagedExactly
<1>1. WholeBooks => StagedExactly
  <2> SUFFICES ASSUME WholeBooks PROVE StagedExactly
    OBVIOUS
  <2> DEFINE InStore(p) == \E k \in Keys : \E v \in Hidden(chains[k]) : p = <<k, v.gen>>
             Listed(p) == \E t \in Open : txns[t].staged /\ \E k \in txns[t].listed : p = <<k, txns[t].generation>>
             S == UNION {{<<k, v.gen>> : v \in Hidden(chains[k])} : k \in Keys}
             L == UNION {{<<k, txns[t].generation>> : k \in txns[t].listed} : t \in {u \in Open : txns[u].staged}}
  <2>1. \A p : p \in S <=> InStore(p)
    OBVIOUS
  <2>2. \A p : p \in L <=> Listed(p)
    OBVIOUS
  <2>3. ASSUME NEW p, InStore(p) PROVE Listed(p)
    BY <2>3 DEF WholeBooks, MonotonicBooks, StagedOwned, Owns
  <2>4. ASSUME NEW p, Listed(p) PROVE InStore(p)
    <3>1. PICK t \in Open : txns[t].staged /\ \E k \in txns[t].listed : p = <<k, txns[t].generation>>
      BY <2>4
    <3>2. PICK k \in txns[t].listed : p = <<k, txns[t].generation>>
      BY <3>1
    <3>3. k \in Keys
      BY FrameFields DEF WholeBooks, MonotonicBooks, FramesSound
    <3>4. PICK v \in Hidden(chains[k]) : v.gen = txns[t].generation
      BY <3>1 DEF WholeBooks, Whole, WholeFrame
    <3>5. QED
      BY <3>2, <3>3, <3>4
  <2>5. S = L
    <3> HIDE DEF S, L, InStore, Listed
    <3>1. QED
      BY <2>1, <2>2, <2>3, <2>4
  <2>6. QED
    BY <2>5 DEF StagedExactly, Hidden
<1>2. QED
  BY <1>1, WholeInvariance, PTL

\* No reader is handed the key-only slot that staging reserves.
THEOREM NothingUnwrittenIsRead ==
    ASSUME ~Reuses, ~RollbackFails
    PROVE  Spec => []NothingUnwritten
<1>1. WholeBooks => NothingUnwritten
  <2> SUFFICES ASSUME WholeBooks, NEW k \in Keys PROVE Contents(k) # KeyOnly
    BY DEF NothingUnwritten
  <2>1. SoundChain(chains[k]) /\ \A v \in chains[k] : v.payload # KeyOnly
    BY DEF WholeBooks, MonotonicBooks, ChainsSound, Written
  <2>2. VisibleIn(chains[k]) = {} => Contents(k) = Absent
    BY <2>1, ShapeIs
  <2>3. \A v \in VisibleIn(chains[k]) : v.payload = Contents(k) /\ v \in chains[k]
    BY <2>1, ShapeIs DEF VisibleIn
  <2>4. Absent # KeyOnly
    BY MonotonicAssumption DEF MonotonicAssumption
  <2>5. QED
    BY <2>1, <2>2, <2>3, <2>4
<1>2. QED
  BY <1>1, WholeInvariance, PTL

\* Call by call, GroupStore and nothing else: a commit lays all that its transaction
\* wrote over the contents in one step; a direct write changes the keys it names;
\* staging, failing to stage, rolling back, watching and reclaiming change neither
\* the contents nor anything pending; resetting and dropping forget what one
\* transaction wrote. So the store implements GroupStore.
THEOREM ImplementsGroupStore ==
    ASSUME ~Reuses, ~RollbackFails
    PROVE  Spec => Group!Spec /\ [][CallsRefine]_vars
<1>1. Init => Group!Init
  BY InitWhole
<1>2. MonotonicBooks /\ [Next]_vars => MonotonicBooks'
  BY EveryCall
<1>3. WholeBooks /\ MonotonicBooks' => CallsRefine
  BY EveryCallRefines
<1>4. WholeBooks /\ MonotonicBooks' /\ CallsRefine /\ [Next]_vars => [Group!Next]_Group!vars
  BY CallsAreSteps
<1>5. WholeBooks => MonotonicBooks
  BY DEF WholeBooks
<1>6. QED
  BY <1>1, <1>2, <1>3, <1>4, <1>5, WholeInvariance, PTL DEF Spec, Group!Spec
=============================================================================
