------------------------- MODULE LockedStoreProofs -------------------------
(***************************************************************************)
(* What LockedStore keeps true, for every number of threads and keys and   *)
(* every set of calls: a call has the wrapped store as it found it until   *)
(* it gives the mutex back, calls made at once leave what the same calls   *)
(* leave one after another, and a cursor misses no key that stayed.        *)
(***************************************************************************)
EXTENDS LockedStore, FiniteSetTheorems, WellFoundedInduction, TLAPS

----------------------------------------------------------------------------
(* The inductive invariant.                                                *)

AllContents == [Keys -> Payloads]
Changesets == UNION {[ks -> Payloads] : ks \in SUBSET Keys}
Frames ==
    [stage : {"closed", "pending", "staged"}, view : AllContents, changes : Changesets,
     watched : SUBSET Keys, moved : SUBSET Keys]
Walks == [seed : {"drained", "bound", "last"}, at : Int, upper : Int, due : SUBSET Keys]

LockedTypes ==
    /\ held \in [Threads -> {"none", "shared", "exclusive"}]
    /\ call \in [Threads -> (Ops \ {"own upsert"}) \cup {"drop", NoCall}]
    /\ seen \in [Threads -> AllContents]
    /\ contents \in AllContents /\ inTurn \in AllContents
    /\ tx \in [Threads -> Frames]
    /\ walk \in [Threads -> Walks]

\* A thread holds the mutex in the mode of the call it is in, and in none outside.
HoldsMode ==
    \A t \in Threads : held[t] = IF call[t] \in {NoCall, "drop"} THEN "none" ELSE Mode(call[t])

\* Whoever holds the mutex exclusively is the only one who holds it.
HoldsAlone ==
    \A t, u \in Threads : t # u /\ held[t] = "exclusive" => held[u] = "none"

\* What an open transaction opened on is what the store has, but for the keys
\* published since; and it writes one more than it opened on.
Sound(frame, c) ==
    frame.stage # "closed" =>
        /\ \A k \in Keys \ frame.moved : frame.view[k] = c[k]
        /\ \A k \in DOMAIN frame.changes : frame.changes[k] \in {Absent, Bump(frame.view[k])}

FramesSound == \A t \in Threads : Sound(tx[t], contents)

\* What a cursor has yet to hand over is there and ahead of it, in its window.
Due(w, c) ==
    /\ w.seed = "drained" => w.due = {}
    /\ \A k \in w.due : /\ k \in Present(c) /\ k < w.upper
                        /\ w.seed = "bound" => k >= w.at
                        /\ w.seed = "last" => k > w.at

WalksDue == \A t \in Threads : Due(walk[t], contents)

\* Nobody drops a transaction while it is staged, unless callers may.
DropsPending ==
    \A t \in Threads : call[t] = "drop" /\ ~DropsStaged => tx[t].stage # "staged"

LockedBooks ==
    /\ LockedTypes /\ HoldsMode /\ HoldsAlone /\ FoundStands
    /\ FramesSound /\ TakesTurns /\ WalksDue /\ DropsPending

----------------------------------------------------------------------------
(* Records and functions of records.                                       *)

\* One more than a payload is a payload, and not that of a key that is not there.
LEMMA BumpIs ==
    ASSUME LockedAssumption, NEW p \in Payloads
    PROVE  Bump(p) \in Payloads \ {Absent} /\ Absent \in Payloads /\ 1 \in Payloads
<1>1. Wrap \in Nat \ {0} /\ p \in Int
  BY DEF LockedAssumption, Payloads
<1>2. p % Wrap \in 0 .. Wrap - 1
  BY <1>1
<1>3. QED
  BY <1>1, <1>2 DEF Bump, Payloads, Absent

\* A change set is a function of some keys to payloads.
LEMMA ChangesetIs ==
    ASSUME NEW c
    PROVE  c \in Changesets <=> DOMAIN c \subseteq Keys /\ c \in [DOMAIN c -> Payloads]
BY DEF Changesets

\* The fields of a transaction, and what one of them changed leaves of the rest.
LEMMA FrameFields ==
    ASSUME NEW r \in Frames
    PROVE  /\ r.stage \in {"closed", "pending", "staged"}
           /\ r.view \in AllContents /\ r.changes \in Changesets
           /\ r.watched \in SUBSET Keys /\ r.moved \in SUBSET Keys
BY DEF Frames

\* What changing the change set does.
LEMMA FrameChanges ==
    ASSUME NEW r \in Frames, NEW c \in Changesets
    PROVE  LET q == [r EXCEPT !.changes = c]
           IN  /\ q \in Frames
               /\ q.stage = r.stage /\ q.view = r.view /\ q.changes = c
               /\ q.watched = r.watched /\ q.moved = r.moved
BY DEF Frames

\* What changing the stage does.
LEMMA FrameStage ==
    ASSUME NEW r \in Frames, NEW s \in {"closed", "pending", "staged"}
    PROVE  LET q == [r EXCEPT !.stage = s]
           IN  /\ q \in Frames
               /\ q.stage = s /\ q.view = r.view /\ q.changes = r.changes
               /\ q.watched = r.watched /\ q.moved = r.moved
BY DEF Frames

\* What changing the watched keys does.
LEMMA FrameWatched ==
    ASSUME NEW r \in Frames, NEW ks \in SUBSET Keys
    PROVE  LET q == [r EXCEPT !.watched = ks]
           IN  /\ q \in Frames
               /\ q.stage = r.stage /\ q.view = r.view /\ q.changes = r.changes
               /\ q.watched = ks /\ q.moved = r.moved
BY DEF Frames

\* What changing the keys published since does.
LEMMA FrameMoved ==
    ASSUME NEW r \in Frames, NEW ks \in SUBSET Keys
    PROVE  LET q == [r EXCEPT !.moved = ks]
           IN  /\ q \in Frames
               /\ q.stage = r.stage /\ q.view = r.view /\ q.changes = r.changes
               /\ q.watched = r.watched /\ q.moved = ks
BY DEF Frames

\* A closed transaction, and one opened on some contents, are sound.
LEMMA FrameOpened ==
    ASSUME LockedAssumption, NEW c \in AllContents
    PROVE  /\ Closed \in Frames /\ Closed.stage = "closed" /\ Sound(Closed, c)
           /\ Opened(c) \in Frames /\ Opened(c).stage = "pending" /\ Sound(Opened(c), c)
<1>1. [k \in Keys |-> Absent] \in AllContents
  BY DEF AllContents, Payloads, Absent, LockedAssumption
<1>2. <<>> \in Changesets /\ DOMAIN <<>> = {}
  <2>1. DOMAIN <<>> = {}
    OBVIOUS
  <2>2. <<>> \in [{} -> Payloads]
    BY <2>1
  <2>3. QED
    BY <2>1, <2>2 DEF Changesets
<1>3. Closed \in Frames /\ Closed.stage = "closed" /\ Closed.changes = <<>> /\ Closed.moved = {}
  BY <1>1, <1>2 DEF Closed, Frames
<1>4. /\ Opened(c) \in Frames /\ Opened(c).stage = "pending" /\ Opened(c).view = c
      /\ Opened(c).changes = <<>> /\ Opened(c).moved = {}
  BY <1>3 DEF Opened, Frames
<1>5. QED
  BY <1>2, <1>3, <1>4 DEF Sound

\* A transaction that writes some more keys, each absent or one more than it opened on.
LEMMA FrameWrites ==
    ASSUME LockedAssumption, NEW r \in Frames, NEW c \in AllContents, Sound(r, c),
           NEW ks \in SUBSET Keys, NEW p, \A k \in ks : p[k] \in {Absent, Bump(r.view[k])}
    PROVE  LET n == [k \in DOMAIN r.changes \cup ks |-> IF k \in ks THEN p[k] ELSE r.changes[k]]
           IN  [r EXCEPT !.changes = n] \in Frames /\ Sound([r EXCEPT !.changes = n], c)
<1> DEFINE n == [k \in DOMAIN r.changes \cup ks |-> IF k \in ks THEN p[k] ELSE r.changes[k]]
           q == [r EXCEPT !.changes = n]
<1>1. r.view \in AllContents /\ DOMAIN r.changes \subseteq Keys /\ r.changes \in [DOMAIN r.changes -> Payloads]
  BY FrameFields, ChangesetIs
<1>2. ASSUME NEW k \in ks PROVE p[k] \in Payloads
  <2>1. r.view[k] \in Payloads
    BY <1>1 DEF AllContents
  <2>2. QED
    BY <2>1, BumpIs
<1>3. DOMAIN n = DOMAIN r.changes \cup ks
  OBVIOUS
<1>4. n \in [DOMAIN n -> Payloads]
  BY <1>1, <1>2
<1>5. n \in Changesets
  BY <1>1, <1>3, <1>4, ChangesetIs
<1>6. ASSUME NEW k \in DOMAIN n, r.stage # "closed" PROVE n[k] \in {Absent, Bump(r.view[k])}
  BY <1>6 DEF Sound
<1> HIDE DEF n
<1>7. q \in Frames /\ q.stage = r.stage /\ q.view = r.view /\ q.changes = n /\ q.moved = r.moved
  BY <1>5, FrameChanges
<1> HIDE DEF q
<1>8. Sound(q, c)
  BY <1>6, <1>7 DEF Sound
<1>9. QED
  BY <1>7, <1>8 DEF q, n

----------------------------------------------------------------------------
(* The kinds of step.                                                      *)

Leaves(t) ==
    /\ held' = [held EXCEPT ![t] = "none"]
    /\ call' = [call EXCEPT ![t] = NoCall]
    /\ seen' = [seen EXCEPT ![t] = [k \in Keys |-> Absent]]

\* A call of the store, or of a transaction, that changes nothing but the transaction.
Alters(t) ==
    /\ \/ Leaves(t)
       \/ call[t] = NoCall /\ UNCHANGED <<held, call, seen>>
    /\ \E frame \in Frames : Sound(frame, contents) /\ tx' = [tx EXCEPT ![t] = frame]
    /\ UNCHANGED <<contents, walk, inTurn>>

\* A call that writes over the contents, with the mutex to itself.
Overwrites(t) ==
    /\ held[t] = "exclusive" /\ Leaves(t)
    /\ \E new \in Changesets :
          /\ Written(new)
          /\ tx' = MovedBy(new) \/ tx' = [MovedBy(new) EXCEPT ![t] = Closed]
    /\ inTurn' = contents'

Kinds(t) ==
    \/ \E op \in Ops \ {"own upsert"} : Enter(t, op)
    \/ Alters(t) \/ Overwrites(t) \/ Drop(t)
    \/ \E from \in Keys, upper \in 2 .. KeyCount + 1 : StartWalk(t, from, upper)
    \/ CursorNext(t)

\* A thread in a call that writes has the mutex to itself, and what it found stands.
LEMMA Holding ==
    ASSUME LockedAssumption, LockedBooks, NEW t \in Threads, call[t] \notin {NoCall, "drop"}
    PROVE  /\ held[t] # "none" /\ seen[t] = contents /\ contents = inTurn
           /\ call[t] \in StoreWrites \cup TransactionWrites => held[t] = "exclusive"
<1>1. held[t] = Mode(call[t]) /\ Mode(call[t]) \in {"shared", "exclusive"}
  BY DEF LockedBooks, HoldsMode, Mode
<1>2. call[t] \in StoreWrites \cup TransactionWrites => call[t] \notin TransactionReads \cup StoreReads
  BY DEF StoreWrites, TransactionWrites, TransactionReads, StoreReads
<1>3. QED
  BY <1>1, <1>2 DEF LockedBooks, FoundStands, TakesTurns, Mode

\* A call that leaves its transaction as it is alters it to what it was.
LEMMA AnswersAlter ==
    ASSUME LockedBooks, NEW t \in Threads, Leaves(t), UNCHANGED <<contents, tx, walk, inTurn>>
    PROVE  Alters(t)
<1>1. tx' = [tx EXCEPT ![t] = tx[t]] /\ tx[t] \in Frames
  BY DEF LockedBooks, LockedTypes
<1>2. QED
  BY <1>1 DEF LockedBooks, FramesSound, Alters

\* What OwnWrites does to a frame that is pending.
LEMMA OwnWritesAlter ==
    ASSUME LockedAssumption, LockedBooks, NEW t \in Threads,
           Leaves(t) \/ (call[t] = NoCall /\ UNCHANGED <<held, call, seen>>),
           NEW ks \in SUBSET Keys, NEW p, \A k \in ks : p[k] \in {Absent, Bump(tx[t].view[k])},
           tx' = [tx EXCEPT ![t].changes =
                    [k \in DOMAIN tx[t].changes \cup ks |-> IF k \in ks THEN p[k] ELSE tx[t].changes[k]]],
           UNCHANGED <<contents, walk, inTurn>>
    PROVE  Alters(t)
<1> DEFINE n == [k \in DOMAIN tx[t].changes \cup ks |-> IF k \in ks THEN p[k] ELSE tx[t].changes[k]]
           q == [tx[t] EXCEPT !.changes = n]
<1>1. tx[t] \in Frames /\ contents \in AllContents /\ Sound(tx[t], contents)
  BY DEF LockedBooks, LockedTypes, FramesSound
<1>2. q \in Frames /\ Sound(q, contents)
  BY <1>1, FrameWrites
<1>3. tx' = [tx EXCEPT ![t] = q]
  OBVIOUS
<1> HIDE DEF q
<1>4. QED
  BY <1>2, <1>3 DEF Alters

\* upsert of a transaction, which takes no lock.
LEMMA OwnUpsertAlters ==
    ASSUME LockedAssumption, LockedBooks, NEW t \in Threads, NEW k \in Keys, OwnUpsert(t, k)
    PROVE  Alters(t)
<1> DEFINE p == [x \in Keys |-> Bump(tx[t].view[x])]
           ks == {k}
<1>1. tx' = [tx EXCEPT ![t].changes =
               [x \in DOMAIN tx[t].changes \cup ks |-> IF x \in ks THEN p[x] ELSE tx[t].changes[x]]]
  BY DEF OwnUpsert, With
<1>2. /\ call[t] = NoCall /\ UNCHANGED <<held, call, seen>>
      /\ UNCHANGED <<contents, walk, inTurn>>
  BY DEF OwnUpsert
<1>3. ks \in SUBSET Keys /\ \A x \in ks : p[x] \in {Absent, Bump(tx[t].view[x])}
  OBVIOUS
<1> HIDE DEF p, ks
<1>4. QED
  BY <1>1, <1>2, <1>3, OwnWritesAlter

\* insert, erase, update_range and erase_range of a transaction.
LEMMA OwnCallsAlter ==
    ASSUME LockedAssumption, LockedBooks, NEW t \in Threads,
           (\E k \in Keys : OwnInsert(t, k) \/ OwnErase(t, k)) \/ OwnUpdateRange(t) \/ OwnEraseRange(t)
    PROVE  Alters(t)
<1> DEFINE up == [x \in Keys |-> Bump(tx[t].view[x])]
           out == [x \in Keys |-> Absent]
           Wrote(ks, p) ==
             tx' = [tx EXCEPT ![t].changes =
                      [x \in DOMAIN tx[t].changes \cup ks |-> IF x \in ks THEN p[x] ELSE tx[t].changes[x]]]
<1>1. Leaves(t) /\ UNCHANGED <<contents, walk, inTurn>>
  BY DEF OwnInsert, OwnErase, OwnUpdateRange, OwnEraseRange, OwnWrites, Leave, Leaves
<1>2. CASE tx[t].stage # "pending"
  <2>1. UNCHANGED tx
    BY <1>2 DEF OwnInsert, OwnErase, OwnUpdateRange, OwnEraseRange, OwnWrites
  <2>2. QED
    BY <1>1, <2>1, AnswersAlter
<1>3. CASE tx[t].stage = "pending"
  <2>1. Present(Reads(t)) \subseteq Keys
    BY DEF Present
  <2>2. ASSUME NEW k \in Keys, OwnInsert(t, k) PROVE Wrote({k} \ Present(Reads(t)), up)
    BY <1>3, <2>2 DEF OwnInsert, OwnWrites, With
  <2>3. ASSUME NEW k \in Keys, OwnErase(t, k) PROVE Wrote({k} \cap Present(Reads(t)), out)
    BY <1>3, <2>3 DEF OwnErase, OwnWrites, With
  <2>4. ASSUME OwnUpdateRange(t) PROVE Wrote(Present(Reads(t)), up)
    BY <1>3, <2>1, <2>4 DEF OwnUpdateRange, OwnWrites, With
  <2>5. ASSUME OwnEraseRange(t) PROVE Wrote(Present(Reads(t)), out)
    BY <1>3, <2>1, <2>5 DEF OwnEraseRange, OwnWrites, With
  <2>6. \E ks \in SUBSET Keys : Wrote(ks, up) \/ Wrote(ks, out)
    <3>1. ASSUME NEW k \in Keys
          PROVE  {k} \ Present(Reads(t)) \in SUBSET Keys /\ {k} \cap Present(Reads(t)) \in SUBSET Keys
      OBVIOUS
    <3> HIDE DEF Wrote
    <3>2. QED
      BY <2>1, <2>2, <2>3, <2>4, <2>5, <3>1
  <2>7. PICK ks \in SUBSET Keys : Wrote(ks, up) \/ Wrote(ks, out)
    BY <2>6
  <2>8. CASE Wrote(ks, up)
    <3>1. \A x \in ks : up[x] \in {Absent, Bump(tx[t].view[x])}
      OBVIOUS
    <3> HIDE DEF up
    <3>2. QED
      BY <1>1, <2>8, <3>1, OwnWritesAlter
  <2>9. CASE Wrote(ks, out)
    <3>1. \A x \in ks : out[x] \in {Absent, Bump(tx[t].view[x])}
      OBVIOUS
    <3> HIDE DEF out
    <3>2. QED
      BY <1>1, <2>9, <3>1, OwnWritesAlter
  <2>10. QED
    BY <2>7, <2>8, <2>9
<1>4. QED
  BY <1>2, <1>3

\* The other calls that change a transaction alone.
LEMMA FrameCallsAlter ==
    ASSUME LockedAssumption, LockedBooks, NEW t \in Threads,
           (\E k \in Keys : Watch(t, k)) \/ Stage(t) \/ Rollback(t) \/ Reset(t) \/ Dropped(t) \/ Open(t)
    PROVE  Alters(t)
<1> DEFINE f == tx[t]
           Becomes(q) == q \in Frames /\ Sound(q, contents) /\ tx' = [tx EXCEPT ![t] = q]
<1>1. f \in Frames /\ contents \in AllContents /\ Sound(f, contents) /\ tx \in [Threads -> Frames]
  BY DEF LockedBooks, LockedTypes, FramesSound
<1>2. Leaves(t) /\ UNCHANGED <<contents, walk, inTurn>>
  BY DEF Watch, Stage, Rollback, Reset, Dropped, Open, Leave, Leaves
<1>3. UNCHANGED tx => Alters(t)
  BY <1>2, AnswersAlter
<1>4. ASSUME NEW k \in Keys, Watch(t, k) PROVE Becomes([f EXCEPT !.watched = f.watched \cup {k}])
  <2>1. f.watched \cup {k} \in SUBSET Keys
    BY <1>1, FrameFields
  <2> DEFINE q == [f EXCEPT !.watched = f.watched \cup {k}]
  <2>2. tx' = [tx EXCEPT ![t] = q]
    BY <1>4 DEF Watch
  <2>3. /\ q \in Frames /\ q.stage = f.stage /\ q.view = f.view /\ q.changes = f.changes
        /\ q.moved = f.moved
    BY <1>1, <2>1, FrameWatched
  <2> HIDE DEF q
  <2>4. Sound(q, contents)
    BY <1>1, <2>3 DEF Sound
  <2>5. QED
    BY <2>2, <2>3, <2>4 DEF q
<1>5. ASSUME NEW s \in {"pending", "staged"}, f.stage # "closed", tx' = [tx EXCEPT ![t].stage = s]
      PROVE  Becomes([f EXCEPT !.stage = s])
  <2> DEFINE q == [f EXCEPT !.stage = s]
  <2>1. tx' = [tx EXCEPT ![t] = q]
    BY <1>5
  <2>2. /\ q \in Frames /\ q.stage = s /\ q.view = f.view /\ q.changes = f.changes
        /\ q.moved = f.moved
    <3>1. s \in {"closed", "pending", "staged"}
      OBVIOUS
    <3>2. QED
      BY <1>1, <3>1, FrameStage
  <2> HIDE DEF q
  <2>3. Sound(q, contents)
    BY <1>1, <1>5, <2>2 DEF Sound
  <2>4. QED
    BY <2>1, <2>2, <2>3 DEF q
<1>6. ASSUME Stage(t) PROVE UNCHANGED tx \/ \E q : Becomes(q)
  <2>1. UNCHANGED tx \/ (f.stage = "pending" /\ tx' = [tx EXCEPT ![t].stage = "staged"])
    BY <1>6 DEF Stage
  <2>2. QED
    BY <1>5, <2>1
<1>7. ASSUME Rollback(t) PROVE UNCHANGED tx \/ \E q : Becomes(q)
  <2>1. UNCHANGED tx \/ (f.stage = "staged" /\ tx' = [tx EXCEPT ![t].stage = "pending"])
    BY <1>7 DEF Rollback
  <2>2. QED
    BY <1>5, <2>1
<1>8. ASSUME Reset(t) PROVE Becomes(Opened(contents))
  BY <1>1, <1>8, FrameOpened DEF Reset
<1>9. ASSUME Dropped(t) PROVE Becomes(Closed)
  BY <1>1, <1>9, FrameOpened DEF Dropped
<1>10. ASSUME Open(t) PROVE Becomes(Opened(contents))
  <2>1. call[t] = "transaction" /\ "transaction" \in EntryPoints
    BY <1>10 DEF Open, Leave, EntryPoints, StoreWrites
  <2>2. seen[t] = contents
    BY <2>1, Holding DEF LockedAssumption
  <2>3. QED
    BY <1>1, <1>10, <2>2, FrameOpened DEF Open
<1>11. (\E q : Becomes(q)) => Alters(t)
  BY <1>2 DEF Alters
<1> HIDE DEF Becomes
<1>12. QED
  BY <1>3, <1>4, <1>6, <1>7, <1>8, <1>9, <1>10, <1>11

\* A commit, refused or not: what it publishes is one more than what the store has
\* now, for the keys it changes were not published since it opened.
LEMMA CommitIs ==
    ASSUME LockedAssumption, LockedBooks, NEW t \in Threads, Commit(t)
    PROVE  Alters(t) \/ Overwrites(t)
<1> DEFINE new == tx[t].changes
<1>1. Leaves(t) /\ call[t] = "commit"
  BY DEF Commit, Leave, Leaves
<1>2. CASE ~MayCommit(t)
  BY <1>1, <1>2, AnswersAlter DEF Commit, Refused
<1>3. CASE MayCommit(t)
  <2>1. held[t] = "exclusive" /\ contents = inTurn
    BY <1>1, Holding DEF LockedAssumption, EntryPoints, TransactionWrites
  <2>2. /\ tx[t] \in Frames /\ Sound(tx[t], contents)
        /\ tx[t].stage = "staged" /\ tx[t].moved \cap DOMAIN new = {}
    BY <1>3 DEF LockedBooks, LockedTypes, FramesSound, MayCommit, Conflicts
  <2>3. new \in Changesets /\ DOMAIN new \subseteq Keys
    BY <2>2, FrameFields, ChangesetIs
  <2>4. /\ Written(new) /\ tx' = [MovedBy(new) EXCEPT ![t] = Closed]
        /\ inTurn' = [k \in Keys |->
                IF k \notin DOMAIN new THEN inTurn[k]
                ELSE IF new[k] = Absent THEN Absent ELSE Bump(inTurn[k])]
    BY <1>3 DEF Commit
  <2>5. ASSUME NEW k \in Keys, k \in DOMAIN new
        PROVE  new[k] = Absent \/ new[k] = Bump(contents[k])
    BY <2>2, <2>5 DEF Sound
  <2>6. contents' = [k \in Keys |-> IF k \in DOMAIN new THEN new[k] ELSE contents[k]]
    BY <2>4 DEF Written
  <2> HIDE DEF new
  <2>7. ASSUME NEW k \in Keys PROVE contents'[k] = inTurn'[k]
    BY <2>1, <2>4, <2>5, <2>6
  <2>8. inTurn' = contents'
    BY <2>4, <2>6, <2>7
  <2>9. QED
    BY <1>1, <2>1, <2>3, <2>4, <2>8 DEF Overwrites
<1>4. QED
  BY <1>2, <1>3

\* What the store's own writing calls write over contents c.
LEMMA NewPayloads ==
    ASSUME LockedAssumption, NEW c \in AllContents
    PROVE  /\ \A k \in Keys : /\ [x \in {k} |-> 1] \in Changesets
                             /\ [x \in {k} \ Present(c) |-> 1] \in Changesets
                             /\ [x \in {k} \cap Present(c) |-> Absent] \in Changesets
           /\ [x \in Present(c) |-> Bump(c[x])] \in Changesets
           /\ [x \in Present(c) |-> Absent] \in Changesets
           /\ [x \in First(Present(c)) |-> Absent] \in Changesets
<1>1. Present(c) \subseteq Keys /\ First(Present(c)) \subseteq Keys
  BY DEF Present, First
<1>2. 1 \in Payloads /\ Absent \in Payloads
  BY DEF LockedAssumption, Payloads, Absent
<1>3. ASSUME NEW ks \in SUBSET Keys
      PROVE  [x \in ks |-> 1] \in Changesets /\ [x \in ks |-> Absent] \in Changesets
  BY <1>2 DEF Changesets
<1>4. [x \in Present(c) |-> Bump(c[x])] \in Changesets
  <2>1. ASSUME NEW x \in Present(c) PROVE Bump(c[x]) \in Payloads
    <3>1. c[x] \in Payloads
      BY <1>1, <2>1 DEF AllContents
    <3>2. QED
      BY <3>1, BumpIs
  <2>2. [x \in Present(c) |-> Bump(c[x])] \in [Present(c) -> Payloads]
    BY <2>1
  <2>3. QED
    BY <1>1, <2>2 DEF Changesets
<1>5. QED
  BY <1>1, <1>3, <1>4

\* A call that writes `new` over what it found, which is what the store has.
LEMMA WritingOverwrites ==
    ASSUME LockedAssumption, LockedBooks, NEW t \in Threads, NEW op \in StoreWrites, Leave(t, op),
           NEW new \in Changesets, Written(new), tx' = MovedBy(new),
           inTurn' = [k \in Keys |-> IF k \in DOMAIN new THEN new[k] ELSE inTurn[k]]
    PROVE  Overwrites(t)
<1>1. call[t] = op /\ Leaves(t) /\ op \in EntryPoints
  BY DEF Leave, Leaves, EntryPoints
<1>2. call[t] \notin {NoCall, "drop"}
  BY <1>1 DEF LockedAssumption, StoreWrites
<1>3. held[t] = "exclusive" /\ contents = inTurn
  BY <1>1, <1>2, Holding
<1>4. inTurn' = contents'
  BY <1>3 DEF Written
<1>5. QED
  BY <1>1, <1>3, <1>4 DEF Overwrites

\* The store's own writing calls.
LEMMA StoreCallsOverwrite ==
    ASSUME LockedAssumption, LockedBooks, NEW t \in Threads,
           (\E k \in Keys : Upsert(t, k) \/ Insert(t, k) \/ Erase(t, k))
             \/ UpdateRange(t) \/ EraseRange(t) \/ PopSmallest(t)
    PROVE  Overwrites(t)
<1> DEFINE Puts(op, new) ==
             /\ Leave(t, op) /\ Written(new) /\ tx' = MovedBy(new)
             /\ inTurn' = [k \in Keys |-> IF k \in DOMAIN new THEN new[k] ELSE inTurn[k]]
           c == contents
<1>1. PICK op \in StoreWrites : call[t] = op
  BY DEF Upsert, Insert, Erase, UpdateRange, EraseRange, PopSmallest, Writing, Leave, StoreWrites
<1>2. seen[t] = c /\ inTurn = c
  <2>1. call[t] \notin {NoCall, "drop"}
    BY <1>1 DEF LockedAssumption, StoreWrites, EntryPoints
  <2>2. QED
    BY <2>1, Holding
<1>3. c \in AllContents
  BY DEF LockedBooks, LockedTypes
<1>4. ASSUME NEW k \in Keys, Upsert(t, k) PROVE Puts("upsert", [x \in {k} |-> 1])
  BY <1>4 DEF Upsert, Writing
<1>5. ASSUME NEW k \in Keys, Insert(t, k) PROVE Puts("insert", [x \in {k} \ Present(c) |-> 1])
  BY <1>2, <1>5 DEF Insert, Writing
<1>6. ASSUME NEW k \in Keys, Erase(t, k) PROVE Puts("erase", [x \in {k} \cap Present(c) |-> Absent])
  BY <1>2, <1>6 DEF Erase, Writing
<1>7. ASSUME UpdateRange(t) PROVE Puts("update_range", [x \in Present(c) |-> Bump(c[x])])
  BY <1>2, <1>7 DEF UpdateRange, Writing
<1>8. ASSUME EraseRange(t) PROVE Puts("erase_range", [x \in Present(c) |-> Absent])
  BY <1>2, <1>8 DEF EraseRange, Writing
<1>9. ASSUME PopSmallest(t) PROVE Puts("pop_smallest", [x \in First(Present(c)) |-> Absent])
  BY <1>2, <1>9 DEF PopSmallest, Writing
<1>10. ASSUME NEW o \in StoreWrites, NEW new \in Changesets, Puts(o, new) PROVE Overwrites(t)
  BY <1>10, WritingOverwrites
<1>11. {"upsert", "insert", "erase", "update_range", "erase_range", "pop_smallest"} \subseteq StoreWrites
  BY DEF StoreWrites
<1>12. /\ \A k \in Keys : /\ [x \in {k} |-> 1] \in Changesets
                         /\ [x \in {k} \ Present(c) |-> 1] \in Changesets
                         /\ [x \in {k} \cap Present(c) |-> Absent] \in Changesets
       /\ [x \in Present(c) |-> Bump(c[x])] \in Changesets
       /\ [x \in Present(c) |-> Absent] \in Changesets
       /\ [x \in First(Present(c)) |-> Absent] \in Changesets
  BY <1>3, NewPayloads
<1> HIDE DEF Puts
<1>13. ASSUME NEW k \in Keys, Upsert(t, k) \/ Insert(t, k) \/ Erase(t, k) PROVE Overwrites(t)
  BY <1>4, <1>5, <1>6, <1>10, <1>11, <1>12, <1>13
<1>14. QED
  BY <1>7, <1>8, <1>9, <1>10, <1>11, <1>12, <1>13

\* The calls that only read.
LEMMA ReadsAlter ==
    ASSUME LockedBooks, NEW t \in Threads,
           OwnFind(t) \/ OwnRange(t) \/ Find(t) \/ Window(t) \/ Vacuum(t)
    PROVE  Alters(t)
BY AnswersAlter DEF OwnFind, OwnRange, Find, Window, Vacuum, Leave, Leaves, Refused

\* Every step is of one of the kinds.
LEMMA StepsAreOfKinds ==
    ASSUME LockedAssumption, LockedBooks, Next
    PROVE  \E t \in Threads : Kinds(t)
<1>1. PICK t \in Threads :
        (\E op \in Ops \ {"own upsert"} : Enter(t, op)) \/ TransactionCall(t) \/ StoreCall(t) \/ CursorCall(t)
  BY Zenon DEF Next
<1>2. CASE TransactionCall(t)
  BY <1>2, OwnUpsertAlters, OwnCallsAlter, FrameCallsAlter, CommitIs, ReadsAlter DEF TransactionCall, Kinds
<1>3. CASE StoreCall(t)
  BY <1>3, FrameCallsAlter, StoreCallsOverwrite, ReadsAlter DEF StoreCall, Kinds
<1>4. CASE CursorCall(t)
  BY <1>4 DEF CursorCall, Kinds
<1>5. QED
  BY <1>1, <1>2, <1>3, <1>4 DEF Kinds

----------------------------------------------------------------------------
(* Who holds the mutex.                                                    *)

Holders == HoldsMode /\ HoldsAlone

\* A thread that is in no call holds nothing.
LEMMA IdleHoldsNone ==
    ASSUME HoldsMode, NEW t \in Threads, call[t] \in {NoCall, "drop"}
    PROVE  held[t] = "none"
BY DEF HoldsMode

\* Giving the mutex back.
LEMMA LeavesHolders ==
    ASSUME LockedAssumption, LockedTypes, Holders, NEW t \in Threads, Leaves(t)
    PROVE  /\ Holders'
           /\ held' \in [Threads -> {"none", "shared", "exclusive"}]
           /\ call' \in [Threads -> (Ops \ {"own upsert"}) \cup {"drop", NoCall}]
           /\ seen' \in [Threads -> AllContents]
<1>1. [k \in Keys |-> Absent] \in AllContents
  BY DEF AllContents, Payloads, Absent, LockedAssumption
<1>2. ASSUME NEW u \in Threads
      PROVE  /\ held'[u] = IF u = t THEN "none" ELSE held[u]
             /\ call'[u] = IF u = t THEN NoCall ELSE call[u]
  BY DEF LockedTypes, Leaves
<1>3. HoldsMode'
  BY <1>2 DEF Holders, HoldsMode
<1>4. HoldsAlone'
  BY <1>2 DEF Holders, HoldsAlone
<1>5. QED
  BY <1>1, <1>3, <1>4 DEF Holders, LockedTypes, Leaves

\* Taking it, in a mode that was free.
LEMMA EnterHolders ==
    ASSUME LockedAssumption, LockedTypes, Holders, NEW t \in Threads, NEW op \in Ops \ {"own upsert"},
           Enter(t, op)
    PROVE  /\ Holders'
           /\ held' \in [Threads -> {"none", "shared", "exclusive"}]
           /\ call' \in [Threads -> (Ops \ {"own upsert"}) \cup {"drop", NoCall}]
           /\ seen' \in [Threads -> AllContents]
<1>1. /\ held' = [held EXCEPT ![t] = Mode(op)] /\ call' = [call EXCEPT ![t] = op]
      /\ seen' = [seen EXCEPT ![t] = contents] /\ Free(Mode(op))
  BY DEF Enter
<1>2. Mode(op) \in {"shared", "exclusive"} /\ op \notin {NoCall, "drop"}
  BY DEF Mode, LockedAssumption, EntryPoints, TransactionReads, TransactionWrites, StoreReads, StoreWrites
<1>3. ASSUME NEW u \in Threads
      PROVE  /\ held'[u] = IF u = t THEN Mode(op) ELSE held[u]
             /\ call'[u] = IF u = t THEN op ELSE call[u]
  BY <1>1 DEF LockedTypes
<1>4. HoldsMode'
  BY <1>2, <1>3 DEF Holders, HoldsMode
<1>5. ASSUME NEW u \in Threads, NEW v \in Threads, u # v, held'[u] = "exclusive" PROVE held'[v] = "none"
  <2>1. CASE u = t
    <3>1. held[v] = "none"
      BY <1>1, <1>3, <1>5, <2>1 DEF Free
    <3>2. QED
      BY <1>3, <1>5, <2>1, <3>1
  <2>2. CASE u # t
    <3>1. held[u] = "exclusive"
      BY <1>3, <1>5, <2>2
    <3>2. v # t
      BY <1>1, <1>2, <3>1 DEF Free
    <3>3. held[v] = "none"
      BY <1>5, <3>1 DEF Holders, HoldsAlone
    <3>4. QED
      BY <1>3, <3>2, <3>3
  <2>3. QED
    BY <2>1, <2>2
<1>6. HoldsAlone'
  BY <1>5 DEF HoldsAlone
<1>7. QED
  BY <1>1, <1>2, <1>4, <1>6 DEF Holders, LockedTypes

----------------------------------------------------------------------------
(* Every kind of step keeps the books.                                     *)

\* Entering a call.
LEMMA EnterKeeps ==
    ASSUME LockedAssumption, LockedBooks, NEW t \in Threads, NEW op \in Ops \ {"own upsert"}, Enter(t, op)
    PROVE  LockedBooks'
<1>1. UNCHANGED <<contents, tx, walk, inTurn>>
  BY DEF Enter
<1>2. /\ Holders'
      /\ held' \in [Threads -> {"none", "shared", "exclusive"}]
      /\ call' \in [Threads -> (Ops \ {"own upsert"}) \cup {"drop", NoCall}]
      /\ seen' \in [Threads -> AllContents]
  BY EnterHolders DEF LockedBooks, Holders
<1>3. LockedTypes'
  BY <1>1, <1>2 DEF LockedBooks, LockedTypes
<1>4. FoundStands'
  BY <1>1 DEF LockedBooks, LockedTypes, FoundStands, Enter
<1>5. FramesSound' /\ TakesTurns' /\ WalksDue'
  BY <1>1 DEF LockedBooks, FramesSound, TakesTurns, WalksDue, Sound, Due, Present
<1>6. DropsPending'
  <2>1. op # "drop" /\ call' = [call EXCEPT ![t] = op]
    BY DEF Enter, LockedAssumption, EntryPoints, TransactionReads, TransactionWrites, StoreReads, StoreWrites
  <2>2. QED
    BY <1>1, <2>1 DEF LockedBooks, LockedTypes, DropsPending
<1>7. QED
  BY <1>2, <1>3, <1>4, <1>5, <1>6 DEF LockedBooks, Holders

\* A step that changes one transaction.
LEMMA AltersKeeps ==
    ASSUME LockedAssumption, LockedBooks, NEW t \in Threads, Alters(t)
    PROVE  LockedBooks'
<1>1. UNCHANGED <<contents, walk, inTurn>>
  BY DEF Alters
<1>2. PICK f \in Frames : Sound(f, contents) /\ tx' = [tx EXCEPT ![t] = f]
  BY DEF Alters
<1>3. /\ Holders'
      /\ held' \in [Threads -> {"none", "shared", "exclusive"}]
      /\ call' \in [Threads -> (Ops \ {"own upsert"}) \cup {"drop", NoCall}]
      /\ seen' \in [Threads -> AllContents]
  <2>1. CASE Leaves(t)
    BY <2>1, LeavesHolders DEF LockedBooks, Holders
  <2>2. CASE UNCHANGED <<held, call, seen>>
    BY <2>2 DEF LockedBooks, LockedTypes, Holders, HoldsMode, HoldsAlone
  <2>3. QED
    BY <2>1, <2>2 DEF Alters
<1>4. LockedTypes'
  BY <1>1, <1>2, <1>3 DEF LockedBooks, LockedTypes
<1>5. FoundStands'
  <2>1. CASE Leaves(t)
    BY <1>1, <2>1 DEF LockedBooks, LockedTypes, FoundStands, Leaves
  <2>2. CASE UNCHANGED <<held, call, seen>>
    BY <1>1, <2>2 DEF LockedBooks, FoundStands
  <2>3. QED
    BY <2>1, <2>2 DEF Alters
<1>6. ASSUME NEW u \in Threads PROVE tx'[u] = IF u = t THEN f ELSE tx[u]
  BY <1>2 DEF LockedBooks, LockedTypes
<1>7. FramesSound'
  <2>1. ASSUME NEW u \in Threads PROVE Sound(tx'[u], contents)
    BY <1>2, <1>6 DEF LockedBooks, FramesSound
  <2>2. QED
    BY <1>1, <2>1 DEF FramesSound, Sound
<1>8. TakesTurns' /\ WalksDue'
  BY <1>1 DEF LockedBooks, TakesTurns, WalksDue, Due, Present
<1>9. DropsPending'
  <2>1. ASSUME NEW u \in Threads PROVE call'[u] = IF u = t THEN NoCall ELSE call[u]
    BY DEF LockedBooks, LockedTypes, Alters, Leaves
  <2>2. NoCall # "drop"
    BY DEF LockedAssumption
  <2>3. QED
    BY <1>6, <2>1, <2>2 DEF LockedBooks, DropsPending
<1>10. QED
  BY <1>3, <1>4, <1>5, <1>7, <1>8, <1>9 DEF LockedBooks, Holders

\* The contents with `new` written over them.
Over(c, new) == [k \in Keys |-> IF k \in DOMAIN new THEN new[k] ELSE c[k]]

\* Contents written over are contents.
LEMMA OverIs ==
    ASSUME NEW c \in AllContents, NEW new \in Changesets
    PROVE  Over(c, new) \in AllContents
BY ChangesetIs DEF AllContents, Over

\* A transaction that has what was written published since stays sound.
LEMMA MovedSound ==
    ASSUME NEW r \in Frames, NEW c \in AllContents, NEW new \in Changesets, Sound(r, c)
    PROVE  LET q == IF r.stage = "closed" THEN r ELSE [r EXCEPT !.moved = r.moved \cup DOMAIN new]
           IN  q \in Frames /\ Sound(q, Over(c, new)) /\ q.stage = r.stage
<1> DEFINE q == [r EXCEPT !.moved = r.moved \cup DOMAIN new]
<1>1. CASE r.stage = "closed"
  BY <1>1 DEF Sound
<1>2. CASE r.stage # "closed"
  <2>1. r.moved \cup DOMAIN new \in SUBSET Keys
    BY FrameFields, ChangesetIs
  <2>2. /\ q \in Frames /\ q.stage = r.stage /\ q.view = r.view /\ q.changes = r.changes
        /\ q.moved = r.moved \cup DOMAIN new
    BY <2>1, FrameMoved
  <2> HIDE DEF q
  <2>3. ASSUME NEW k \in Keys \ q.moved PROVE q.view[k] = Over(c, new)[k]
    BY <1>2, <2>2 DEF Sound, Over
  <2>4. Sound(q, Over(c, new))
    BY <1>2, <2>2, <2>3 DEF Sound
  <2>5. QED
    BY <1>2, <2>2, <2>4 DEF q
<1>3. QED
  BY <1>1, <1>2

\* A cursor with the keys that went taken out of what is due.
LEMMA DueStays ==
    ASSUME NEW w \in Walks, NEW c, NEW d, Due(w, c)
    PROVE  LET q == [w EXCEPT !.due = w.due \cap Present(d)]
           IN  q \in Walks /\ Due(q, d)
<1> DEFINE q == [w EXCEPT !.due = w.due \cap Present(d)]
<1>1. q \in Walks /\ q.seed = w.seed /\ q.at = w.at /\ q.upper = w.upper /\ q.due = w.due \cap Present(d)
  BY DEF Walks
<1> HIDE DEF q
<1>2. Due(q, d)
  BY <1>1 DEF Due
<1>3. QED
  BY <1>1, <1>2 DEF q

\* A call that writes over the contents.
LEMMA OverwritesKeeps ==
    ASSUME LockedAssumption, LockedBooks, NEW t \in Threads, Overwrites(t)
    PROVE  LockedBooks'
<1>1. PICK new \in Changesets :
        /\ Written(new)
        /\ tx' = MovedBy(new) \/ tx' = [MovedBy(new) EXCEPT ![t] = Closed]
  BY DEF Overwrites
<1>2. Leaves(t) /\ held[t] = "exclusive" /\ inTurn' = contents'
  BY DEF Overwrites
<1>3. /\ Holders'
      /\ held' \in [Threads -> {"none", "shared", "exclusive"}]
      /\ call' \in [Threads -> (Ops \ {"own upsert"}) \cup {"drop", NoCall}]
      /\ seen' \in [Threads -> AllContents]
  BY <1>2, LeavesHolders DEF LockedBooks, Holders
<1>4. contents' = Over(contents, new) /\ contents \in AllContents /\ contents' \in AllContents
  BY <1>1, OverIs DEF Written, Over, LockedBooks, LockedTypes
<1>5. FoundStands'
  <2>1. ASSUME NEW u \in Threads PROVE held'[u] = "none"
    BY <1>2 DEF LockedBooks, LockedTypes, HoldsAlone, Leaves
  <2>2. QED
    BY <2>1 DEF FoundStands
<1> DEFINE Moved(u) ==
             IF tx[u].stage = "closed" THEN tx[u] ELSE [tx[u] EXCEPT !.moved = tx[u].moved \cup DOMAIN new]
<1>6. ASSUME NEW u \in Threads
      PROVE  Moved(u) \in Frames /\ Sound(Moved(u), contents') /\ Moved(u).stage = tx[u].stage
  <2>1. tx[u] \in Frames /\ Sound(tx[u], contents)
    BY DEF LockedBooks, LockedTypes, FramesSound
  <2>2. QED
    BY <1>4, <2>1, MovedSound
<1>7. MovedBy(new) = [u \in Threads |-> Moved(u)]
  BY DEF MovedBy
<1>8. Closed \in Frames /\ Sound(Closed, contents')
  BY <1>4, FrameOpened
<1> HIDE DEF Moved
<1>9. tx' \in [Threads -> Frames] /\ \A u \in Threads : tx'[u] = Moved(u) \/ (u = t /\ tx'[u] = Closed)
  BY <1>1, <1>6, <1>7, <1>8
<1>10. FramesSound'
  BY <1>6, <1>8, <1>9 DEF FramesSound
<1>11. walk' \in [Threads -> Walks] /\ WalksDue'
  <2> DEFINE Left(u) == [walk[u] EXCEPT !.due = walk[u].due \cap Present(contents')]
  <2>1. walk' = [u \in Threads |-> Left(u)]
    BY <1>1 DEF Written
  <2>2. ASSUME NEW u \in Threads PROVE Left(u) \in Walks /\ Due(Left(u), contents')
    <3>1. walk[u] \in Walks /\ Due(walk[u], contents)
      BY DEF LockedBooks, LockedTypes, WalksDue
    <3>2. QED
      BY <3>1, DueStays
  <2> HIDE DEF Left
  <2>3. QED
    BY <2>1, <2>2 DEF WalksDue
<1>12. TakesTurns' /\ LockedTypes'
  BY <1>2, <1>3, <1>4, <1>9, <1>11 DEF TakesTurns, LockedTypes
<1>13. DropsPending'
  <2>1. ASSUME NEW u \in Threads PROVE call'[u] = IF u = t THEN NoCall ELSE call[u]
    BY <1>2 DEF LockedBooks, LockedTypes, Leaves
  <2>2. NoCall # "drop"
    BY DEF LockedAssumption
  <2>3. QED
    BY <1>6, <1>9, <2>1, <2>2 DEF LockedBooks, DropsPending
<1>14. QED
  BY <1>3, <1>5, <1>10, <1>11, <1>12, <1>13 DEF LockedBooks, Holders

\* Beginning to drop a transaction.
LEMMA DropKeeps ==
    ASSUME LockedAssumption, LockedBooks, NEW t \in Threads, Drop(t)
    PROVE  LockedBooks'
<1>1. /\ call[t] = NoCall /\ call' = [call EXCEPT ![t] = "drop"]
      /\ UNCHANGED <<held, seen, contents, tx, walk, inTurn>>
      /\ tx[t].stage = "staged" => DropsStaged
  BY DEF Drop
<1>2. ASSUME NEW u \in Threads PROVE call'[u] = IF u = t THEN "drop" ELSE call[u]
  BY <1>1 DEF LockedBooks, LockedTypes
<1>3. LockedTypes'
  BY <1>1 DEF LockedBooks, LockedTypes
<1>4. HoldsMode' /\ HoldsAlone'
  BY <1>1, <1>2 DEF LockedBooks, HoldsMode, HoldsAlone
<1>5. FoundStands' /\ FramesSound' /\ TakesTurns' /\ WalksDue'
  BY <1>1 DEF LockedBooks, FoundStands, FramesSound, Sound, TakesTurns, WalksDue, Due, Present
<1>6. DropsPending'
  BY <1>1, <1>2 DEF LockedBooks, DropsPending
<1>7. QED
  BY <1>3, <1>4, <1>5, <1>6 DEF LockedBooks

\* A step of a cursor that ends with another cursor whose due keys are ahead of it.
LEMMA WalkKeeps ==
    ASSUME LockedAssumption, LockedBooks, NEW t \in Threads,
           Leaves(t) \/ UNCHANGED <<held, call, seen>>, UNCHANGED <<contents, tx, inTurn>>,
           NEW w \in Walks, Due(w, contents), walk' = [walk EXCEPT ![t] = w]
    PROVE  LockedBooks'
<1>1. /\ Holders'
      /\ held' \in [Threads -> {"none", "shared", "exclusive"}]
      /\ call' \in [Threads -> (Ops \ {"own upsert"}) \cup {"drop", NoCall}]
      /\ seen' \in [Threads -> AllContents]
  <2>1. CASE Leaves(t)
    BY <2>1, LeavesHolders DEF LockedBooks, Holders
  <2>2. CASE UNCHANGED <<held, call, seen>>
    BY <2>2 DEF LockedBooks, LockedTypes, Holders, HoldsMode, HoldsAlone
  <2>3. QED
    BY <2>1, <2>2
<1>2. LockedTypes'
  BY <1>1 DEF LockedBooks, LockedTypes
<1>3. FoundStands'
  <2>1. CASE Leaves(t)
    BY <2>1 DEF LockedBooks, LockedTypes, FoundStands, Leaves
  <2>2. CASE UNCHANGED <<held, call, seen>>
    BY <2>2 DEF LockedBooks, FoundStands
  <2>3. QED
    BY <2>1, <2>2
<1>4. FramesSound' /\ TakesTurns'
  BY DEF LockedBooks, FramesSound, Sound, TakesTurns
<1>5. ASSUME NEW u \in Threads PROVE Due(walk'[u], contents)
  BY DEF LockedBooks, LockedTypes, WalksDue
<1>6. WalksDue'
  BY <1>5 DEF WalksDue, Due, Present
<1>7. DropsPending'
  <2>1. ASSUME NEW u \in Threads PROVE call'[u] = call[u] \/ call'[u] = NoCall
    BY DEF LockedBooks, LockedTypes, Leaves
  <2>2. NoCall # "drop"
    BY DEF LockedAssumption
  <2>3. QED
    BY <2>1, <2>2 DEF LockedBooks, DropsPending
<1>8. QED
  BY <1>1, <1>2, <1>3, <1>4, <1>6, <1>7 DEF LockedBooks, Holders

\* Starting a cursor.
LEMMA StartWalkKeeps ==
    ASSUME LockedAssumption, LockedBooks, NEW t \in Threads,
           NEW from \in Keys, NEW upper \in 2 .. KeyCount + 1, StartWalk(t, from, upper)
    PROVE  LockedBooks'
<1> DEFINE w == [seed |-> "bound", at |-> from, upper |-> upper,
                 due |-> {k \in Present(contents) : from <= k /\ k < upper}]
<1>1. walk' = [walk EXCEPT ![t] = w] /\ UNCHANGED <<held, call, seen, contents, tx, inTurn>>
  BY DEF StartWalk
<1>2. w.due \subseteq Keys /\ from \in Int /\ upper \in Int
  BY DEF Present, Keys, LockedAssumption
<1>3. w \in Walks
  BY <1>2 DEF Walks
<1>4. Due(w, contents)
  BY <1>2 DEF Due, Present, Keys
<1> HIDE DEF w
<1>5. QED
  BY <1>1, <1>3, <1>4, WalkKeeps

\* A set of naturals that is not empty has a least member, which Min names.
LEMMA MinOfNaturals ==
    ASSUME NEW S \in SUBSET Nat, S # {}
    PROVE  Min(S) \in S /\ \A x \in S : Min(S) <= x
<1> DEFINE Below == {0..x : x \in S}
<1>1. Below \subseteq FiniteSubsetsOf(Nat) /\ Below # {}
  <2>1. ASSUME NEW x \in S PROVE 0..x \in FiniteSubsetsOf(Nat)
    <3>1. IsFiniteSet(0..x)
      BY FS_Interval
    <3>2. 0..x \subseteq Nat
      OBVIOUS
    <3>3. QED
      BY <3>1, <3>2 DEF FiniteSubsetsOf
  <2>2. QED
    BY <2>1
<1>2. PICK i \in Below : \A j \in Below : ~ (<<j, i>> \in StrictSubsetOrdering(Nat))
  BY <1>1, FS_StrictSubsetOrderingWellFounded, WFMin, Zenon
<1>3. PICK x \in S : i = 0..x
  OBVIOUS
<1>4. ASSUME NEW y \in S, y < x PROVE FALSE
  <2>1. /\ 0..y \subseteq 0..x /\ 0..y # 0..x
        /\ 0..y \subseteq Nat /\ 0..x \subseteq Nat
    <3>1. x \in 0..x /\ x \notin 0..y
      BY <1>4
    <3>2. QED
      BY <1>4, <3>1
  <2>2. <<0..y, 0..x>> \in StrictSubsetOrdering(Nat)
    BY <2>1 DEF StrictSubsetOrdering
  <2>3. QED
    BY <2>2, <1>2, <1>3
<1>5. \A y \in S : x <= y
  BY <1>4
<1>6. \E z \in S : \A y \in S : z =< y
  BY <1>5
<1>7. QED
  BY <1>6, Zenon DEF Min

\* Of some keys, the first.
LEMMA FirstIs ==
    ASSUME LockedAssumption, NEW ks \in SUBSET Keys, ks # {}
    PROVE  \E m \in ks : First(ks) = {m} /\ \A k \in ks : m <= k
<1>1. ks \in SUBSET Nat
  BY DEF Keys, LockedAssumption
<1>2. Min(ks) \in ks /\ \A k \in ks : Min(ks) <= k
  BY <1>1, MinOfNaturals
<1> DEFINE m == Min(ks)
<1>3. m \in ks /\ \A k \in ks : m <= k
  BY <1>2
<1> HIDE DEF m
<1>4. First(ks) = {m}
  <2>1. ks \subseteq Int
    BY <1>1
  <2>2. ASSUME NEW k \in First(ks) PROVE k = m
    <3>1. k \in ks /\ k <= m
      BY <1>3, <2>2 DEF First
    <3>2. QED
      BY <1>3, <2>1, <3>1
  <2>3. m \in First(ks)
    BY <1>3 DEF First
  <2>4. QED
    BY <2>2, <2>3
<1>5. QED
  BY <1>3, <1>4

\* A step of a cursor, which finds the next key ahead of it, if one is left in its window.
LEMMA CursorNextKeeps ==
    ASSUME LockedAssumption, LockedBooks, NEW t \in Threads, CursorNext(t)
    PROVE  LockedBooks'
<1> DEFINE w == walk[t]
           next == {k \in First(Ahead(t)) : k < w.upper}
           q == IF next = {} THEN [w EXCEPT !.seed = "drained"]
                ELSE [w EXCEPT !.seed = "last", !.at = Min(next), !.due = w.due \ next]
<1>1. Leaves(t) /\ UNCHANGED <<contents, tx, inTurn>> /\ walk' = [walk EXCEPT ![t] = q]
  BY DEF CursorNext, Leave, Leaves
<1>2. w \in Walks /\ Due(w, contents)
  BY DEF LockedBooks, LockedTypes, WalksDue
<1>3. /\ w.seed \in {"drained", "bound", "last"} /\ w.at \in Int /\ w.upper \in Int
      /\ w.due \in SUBSET Keys
  BY <1>2 DEF Walks
<1>4. seen[t] = contents
  <2>1. call[t] = "cursor next" /\ "cursor next" \in EntryPoints
    BY DEF CursorNext, Leave, EntryPoints, StoreReads
  <2>2. call[t] \notin {NoCall, "drop"}
    BY <2>1 DEF LockedAssumption
  <2>3. QED
    BY <2>2, Holding
<1>5. Ahead(t) = {k \in Present(contents) : IF w.seed = "bound" THEN k >= w.at ELSE k > w.at}
  BY <1>4 DEF Ahead
<1>6. Ahead(t) \in SUBSET Keys /\ Keys \subseteq Nat
  BY <1>5 DEF Present, Keys, LockedAssumption
<1>7. w.due \subseteq Ahead(t) /\ \A k \in w.due : k < w.upper
  BY <1>2, <1>3, <1>5 DEF Due
<1> HIDE DEF w
<1>8. CASE next = {}
  <2>1. w.due = {}
    <3>1. SUFFICES ASSUME w.due # {} PROVE FALSE
      OBVIOUS
    <3>2. Ahead(t) # {}
      BY <1>7, <3>1
    <3>3. PICK m \in Ahead(t) : First(Ahead(t)) = {m} /\ \A k \in Ahead(t) : m <= k
      BY <1>6, <3>2, FirstIs
    <3>4. PICK k \in w.due : TRUE
      BY <3>1
    <3>5. m <= k /\ k < w.upper /\ m \in Nat /\ k \in Nat
      BY <1>6, <1>7, <3>3, <3>4
    <3>6. m < w.upper
      BY <1>3, <3>5
    <3>7. QED
      BY <1>8, <3>3, <3>6
  <2>2. q \in Walks /\ q.seed = "drained" /\ q.due = {}
    BY <1>2, <1>8, <2>1 DEF Walks
  <2> HIDE DEF q
  <2>3. Due(q, contents)
    BY <2>2 DEF Due
  <2>4. QED
    BY <1>1, <2>2, <2>3, WalkKeeps
<1>9. CASE next # {}
  <2>1. Ahead(t) # {}
    BY <1>9 DEF First
  <2>2. PICK m \in Ahead(t) : First(Ahead(t)) = {m} /\ \A k \in Ahead(t) : m <= k
    BY <1>6, <2>1, FirstIs
  <2>3. next = {m} /\ m \in Int /\ m \in Nat
    <3>1. m \in Nat
      BY <1>6, <2>2
    <3>2. next \subseteq {m}
      BY <2>2
    <3>3. QED
      BY <1>9, <3>1, <3>2
  <2>4. Min(next) = m
    <3>1. Min(next) \in next
      BY <1>9, <2>3, MinOfNaturals
    <3>2. QED
      BY <2>3, <3>1
  <2>5. q = [w EXCEPT !.seed = "last", !.at = m, !.due = w.due \ next]
    BY <1>9, <2>4
  <2>6. w.due \ next \in SUBSET Keys
    BY <1>3
  <2> HIDE DEF q, next
  <2>7. q \in Walks /\ q.seed = "last" /\ q.at = m /\ q.due = w.due \ {m} /\ q.upper = w.upper
    BY <1>2, <2>3, <2>5, <2>6 DEF Walks
  <2>8. ASSUME NEW k \in q.due PROVE k \in Present(contents) /\ k < w.upper /\ k > m
    <3>1. k \in Ahead(t) /\ k # m /\ k < w.upper
      BY <1>7, <2>7, <2>8
    <3>2. m <= k /\ k \in Nat /\ k \in Present(contents)
      BY <1>5, <1>6, <2>2, <3>1
    <3>3. QED
      BY <2>3, <3>1, <3>2
  <2>9. Due(q, contents)
    BY <2>7, <2>8 DEF Due
  <2>10. QED
    BY <1>1, <2>7, <2>9, WalkKeeps
<1>10. QED
  BY <1>8, <1>9

----------------------------------------------------------------------------
(* The theorems.                                                           *)

\* The books are in order at the start.
LEMMA BooksInit ==
    ASSUME LockedAssumption, Init
    PROVE  LockedBooks
<1>1. [k \in Keys |-> Absent] \in AllContents
  BY DEF AllContents, Payloads, Absent, LockedAssumption
<1>2. Closed \in Frames /\ Sound(Closed, contents)
  BY <1>1, FrameOpened DEF Init
<1>3. NoWalk \in Walks /\ NoWalk.due = {}
  BY DEF NoWalk, Walks
<1>4. LockedTypes
  BY <1>1, <1>2, <1>3 DEF Init, LockedTypes
<1>5. HoldsMode /\ HoldsAlone /\ FoundStands /\ TakesTurns
  BY DEF Init, HoldsMode, HoldsAlone, FoundStands, TakesTurns
<1>6. FramesSound
  BY <1>2 DEF Init, FramesSound
<1>7. WalksDue
  BY <1>3 DEF Init, WalksDue, Due
<1>8. DropsPending
  BY DEF Init, DropsPending, LockedAssumption
<1>9. QED
  BY <1>4, <1>5, <1>6, <1>7, <1>8 DEF LockedBooks

\* And every step keeps them.
LEMMA BooksNext ==
    ASSUME LockedAssumption, LockedBooks, [Next]_vars
    PROVE  LockedBooks'
<1>1. CASE Next
  <2>1. PICK t \in Threads : Kinds(t)
    BY <1>1, StepsAreOfKinds
  <2>2. QED
    BY <2>1, EnterKeeps, AltersKeeps, OverwritesKeeps, DropKeeps, StartWalkKeeps, CursorNextKeeps DEF Kinds
<1>2. CASE UNCHANGED vars
  <2>1. LockedTypes' /\ HoldsMode' /\ HoldsAlone' /\ FoundStands' /\ TakesTurns' /\ DropsPending'
    BY <1>2 DEF vars, LockedBooks, LockedTypes, HoldsMode, HoldsAlone, FoundStands, TakesTurns, DropsPending
  <2>2. FramesSound'
    BY <1>2 DEF vars, LockedBooks, FramesSound, Sound
  <2>3. WalksDue'
    BY <1>2 DEF vars, LockedBooks, WalksDue, Due, Present
  <2>4. QED
    BY <2>1, <2>2, <2>3 DEF LockedBooks
<1>3. QED
  BY <1>1, <1>2

\* The books are in order throughout: whoever writes has the mutex to itself, transactions read what they
\* opened on, and cursors have ahead of them what they have yet to hand over (locked_store.hpp).
THEOREM LockedInvariance ==
    ASSUME LockedAssumption
    PROVE  Spec => []LockedBooks
<1>1. Init => LockedBooks
  BY BooksInit
<1>2. LockedBooks /\ [Next]_vars => LockedBooks'
  BY BooksNext
<1>3. QED
  BY <1>1, <1>2, PTL DEF Spec

\* Types of the state, and the mode in which every call holds the mutex.
THEOREM LockedTypesHold ==
    ASSUME LockedAssumption
    PROVE  Spec => []LockedTypeOK
<1>1. LockedBooks => LockedTypeOK
  <2>1. ASSUME LockedBooks, NEW t \in Threads
        PROVE  /\ tx[t].stage \in {"closed", "pending", "staged"}
               /\ DOMAIN tx[t].changes \cup tx[t].watched \cup tx[t].moved \subseteq Keys
               /\ walk[t].due \subseteq Keys
    <3>1. tx[t] \in Frames /\ walk[t] \in Walks
      BY <2>1 DEF LockedBooks, LockedTypes
    <3>2. QED
      BY <3>1, FrameFields, ChangesetIs DEF Walks
  <2>2. QED
    BY <2>1 DEF LockedBooks, LockedTypes, HoldsMode, LockedTypeOK, AllContents
<1>2. QED
  BY <1>1, LockedInvariance, PTL

\* Calls made at once leave the contents that the same calls leave one after another: a transaction staged
\* before and committed after other calls overwrites none of them (locked_store::commit under the unique lock).
THEOREM CallsLeaveWhatTurnsLeave ==
    ASSUME LockedAssumption
    PROVE  Spec => []TakesTurns
<1>1. LockedBooks => TakesTurns
  BY DEF LockedBooks
<1>2. QED
  BY <1>1, LockedInvariance, PTL

\* What a call found under the mutex stands until it gives the mutex back, in either mode.
THEOREM WhatWasFoundStands ==
    ASSUME LockedAssumption
    PROVE  Spec => []FoundStands
<1>1. LockedBooks => FoundStands
  BY DEF LockedBooks
<1>2. QED
  BY <1>1, LockedInvariance, PTL

\* While a call changes the wrapped store, no other thread is in a call that reaches it, as long as callers
\* drop no transaction while it is staged: a destructor takes no lock.
THEOREM WhoeverChangesIsAlone ==
    ASSUME LockedAssumption, ~DropsStaged
    PROVE  Spec => []ChangesAlone
<1>1. LockedBooks => ChangesAlone
  <2>1. SUFFICES ASSUME LockedBooks, NEW t \in Threads, NEW u \in Threads, t # u, Changes(t)
                 PROVE  call[u] \in {NoCall, "drop"} /\ ~Changes(u)
    BY DEF ChangesAlone
  <2>2. ASSUME NEW v \in Threads, Changes(v)
        PROVE  call[v] \in TransactionWrites \cup StoreWrites /\ call[v] \notin {NoCall, "drop"}
    <3>1. call[v] \in TransactionWrites \cup StoreWrites
      BY <2>1, <2>2 DEF Changes, LockedBooks, DropsPending
    <3>2. QED
      BY <3>1 DEF LockedAssumption, EntryPoints, TransactionWrites, StoreWrites
  <2>3. held[t] = "exclusive"
    BY <2>1, <2>2, Holding
  <2>4. held[u] = "none"
    BY <2>1, <2>3 DEF LockedBooks, HoldsAlone
  <2>5. call[u] \in {NoCall, "drop"}
    BY <2>1, <2>4, Holding
  <2>6. QED
    BY <2>2, <2>5
<1>2. QED
  BY <1>1, LockedInvariance, PTL

\* A cursor, which holds no lock between its steps, has handed over every key of its window that was there
\* from first to last by the time it says it is done (locked_store::cursor_t, lower_bound and upper_bound).
THEOREM WalksMissNone ==
    ASSUME LockedAssumption
    PROVE  Spec => []WalkMissesNone
<1>1. LockedBooks => WalkMissesNone
  <2>1. ASSUME LockedBooks, NEW t \in Threads
        PROVE  (walk[t].seed = "drained" => walk[t].due = {}) /\ \A k \in walk[t].due : k >= walk[t].at
    <3>1. walk[t] \in Walks /\ Due(walk[t], contents)
      BY <2>1 DEF LockedBooks, LockedTypes, WalksDue
    <3>2. /\ walk[t].seed \in {"drained", "bound", "last"} /\ walk[t].at \in Int
          /\ walk[t].due \subseteq Keys
      BY <3>1 DEF Walks
    <3>3. Keys \subseteq Int
      BY DEF Keys
    <3>4. walk[t].seed = "drained" => walk[t].due = {}
      BY <3>1 DEF Due
    <3>5. ASSUME NEW k \in walk[t].due PROVE k >= walk[t].at
      <4>1. k \in Int /\ walk[t].seed # "drained"
        BY <3>2, <3>3, <3>4, <3>5
      <4>2. k >= walk[t].at \/ k > walk[t].at
        BY <3>1, <3>2, <4>1 DEF Due
      <4>3. QED
        BY <3>2, <4>1, <4>2
    <3>6. QED
      BY <3>4, <3>5
  <2>2. QED
    BY <2>1 DEF WalkMissesNone
<1>2. QED
  BY <1>1, LockedInvariance, PTL

=============================================================================
