----------------------------- MODULE LockedStore ----------------------------
(***************************************************************************)
(* locked_store (locked_store.hpp): a store behind one reader-writer mutex.*)
(* A call takes the mutex, in the mode its entry point names, reads what   *)
(* the store holds, changes it and gives the mutex back; stage and commit  *)
(* are two such calls, and anything may happen in between.                 *)
(*                                                                         *)
(* The mutex is taken for what SpinSharedMutexProofs proves of it, and the *)
(* wrapped store for what SnapshotStore shows: a transaction reads the     *)
(* contents it opened on and is refused over keys others published since.  *)
(* A payload counts how often its key was written since it was inserted,   *)
(* every transaction writing one more than it read.                        *)
(***************************************************************************)
EXTENDS Integers, FiniteSets, FiniteSetsExt

CONSTANTS
    Threads,
    KeyCount,       \* keys are 1 .. KeyCount
    Wrap,           \* bound: payloads count 1 .. Wrap and start over
    Ops,            \* the calls callers make
    DropsStaged,    \* callers drop a transaction while it is staged
    NoCall          \* no call in progress

Keys == 1 .. KeyCount
Absent == 0
Payloads == 0 .. Wrap
Bump(payload) == (payload % Wrap) + 1

TransactionReads == {"watch", "own find", "own range", "own insert", "own erase"}
TransactionWrites == {"stage", "reset", "rollback", "commit", "own update_range", "own erase_range"}
StoreReads == {"find", "range", "cursor next"}
StoreWrites ==
    {"transaction", "upsert", "insert", "erase", "update_range", "erase_range", "pop_smallest", "vacuum"}
EntryPoints == TransactionReads \cup TransactionWrites \cup StoreReads \cup StoreWrites \cup {"own upsert"}

LockedAssumption ==
    /\ KeyCount \in Nat \ {0} /\ Wrap \in Nat \ {0} /\ DropsStaged \in BOOLEAN
    /\ Ops \subseteq EntryPoints /\ NoCall \notin EntryPoints \cup {"drop"}

VARIABLES
    held,           \* mutex_: the mode each thread holds it in
    call,           \* the call each thread is in
    seen,           \* the contents a call found under the mutex
    contents,       \* inner_store_: what every key holds
    tx,             \* the one transaction of each thread
    walk,           \* the one cursor of each thread
    inTurn          \* history: the contents, had the calls been made one after another

vars == <<held, call, seen, contents, tx, walk, inTurn>>

Closed ==
    [stage |-> "closed", view |-> [k \in Keys |-> Absent], changes |-> <<>>, watched |-> {}, moved |-> {}]
Opened(view) == [Closed EXCEPT !.stage = "pending", !.view = view]

NoWalk == [seed |-> "drained", at |-> 0, upper |-> 0, due |-> {}]

Init ==
    /\ held = [t \in Threads |-> "none"] /\ call = [t \in Threads |-> NoCall]
    /\ contents = [k \in Keys |-> Absent] /\ inTurn = contents
    /\ seen = [t \in Threads |-> contents]
    /\ tx = [t \in Threads |-> Closed] /\ walk = [t \in Threads |-> NoWalk]

----------------------------------------------------------------------------
(* The mutex round a call.                                                 *)

\* Shared where a call only reads the wrapped store, exclusive where it writes.
Mode(op) == IF op \in TransactionReads \cup StoreReads THEN "shared" ELSE "exclusive"

Free(mode) ==
    \A t \in Threads : IF mode = "shared" THEN held[t] # "exclusive" ELSE held[t] = "none"

Callable(t, op) ==
    CASE op = "transaction" -> tx[t].stage = "closed"
      [] op \in TransactionReads \cup TransactionWrites -> tx[t].stage # "closed"
      [] op = "cursor next" -> walk[t].seed # "drained"
      [] OTHER -> TRUE

Enter(t, op) ==
    /\ call[t] = NoCall
    /\ Callable(t, op)
    /\ Free(Mode(op))
    /\ held' = [held EXCEPT ![t] = Mode(op)]
    /\ call' = [call EXCEPT ![t] = op]
    /\ seen' = [seen EXCEPT ![t] = contents]
    /\ UNCHANGED <<contents, tx, walk, inTurn>>

\* The end of a call: the mutex goes, and what it left behind stands.
Leave(t, op) ==
    /\ call[t] = op
    /\ held' = [held EXCEPT ![t] = "none"]
    /\ call' = [call EXCEPT ![t] = NoCall]
    /\ seen' = [seen EXCEPT ![t] = [k \in Keys |-> Absent]]

----------------------------------------------------------------------------
(* What the wrapped store does.                                            *)

Present(c) == {k \in Keys : c[k] # Absent}

\* The contents once a call wrote payloads over some keys; a key is due to a
\* cursor only while it stays.
Written(new) ==
    /\ contents' = [k \in Keys |-> IF k \in DOMAIN new THEN new[k] ELSE contents[k]]
    /\ walk' = [t \in Threads |-> [walk[t] EXCEPT !.due = @ \cap Present(contents')]]

\* Every open transaction, the writer's own included, has those keys published since.
MovedBy(new) ==
    [t \in Threads |-> IF tx[t].stage = "closed" THEN tx[t]
                       ELSE [tx[t] EXCEPT !.moved = @ \cup DOMAIN new]]

Refused == UNCHANGED <<contents, tx, walk, inTurn>>

\* What a transaction reads: its own writes over the contents it opened on.
Reads(t) == [k \in Keys |-> IF k \in DOMAIN tx[t].changes THEN tx[t].changes[k] ELSE tx[t].view[k]]

Conflicts(t) == tx[t].moved \cap (tx[t].watched \cup DOMAIN tx[t].changes) # {}

With(changes, ks, payload(_)) ==
    [k \in DOMAIN changes \cup ks |-> IF k \in ks THEN payload(k) ELSE changes[k]]

----------------------------------------------------------------------------
(* Calls of a transaction.                                                 *)

Watch(t, k) ==
    /\ Leave(t, "watch")
    /\ tx' = [tx EXCEPT ![t].watched = @ \cup {k}]
    /\ UNCHANGED <<contents, walk, inTurn>>

\* upsert is answered by the transaction alone and takes no lock.
OwnUpsert(t, k) ==
    /\ "own upsert" \in Ops /\ call[t] = NoCall
    /\ tx[t].stage = "pending"
    /\ tx' = [tx EXCEPT ![t].changes = With(@, {k}, LAMBDA x : Bump(tx[t].view[x]))]
    /\ UNCHANGED <<held, call, seen, contents, walk, inTurn>>

\* find, contains, find_and_watch, the bounds, select and rank, then the walks.
OwnFind(t) == Leave(t, "own find") /\ Refused
OwnRange(t) == Leave(t, "own range") /\ Refused

OwnWrites(t, op, ks, payload(_)) ==
    /\ Leave(t, op)
    /\ IF tx[t].stage # "pending" THEN UNCHANGED tx
       ELSE tx' = [tx EXCEPT ![t].changes = With(@, ks, payload)]
    /\ UNCHANGED <<contents, walk, inTurn>>

OwnInsert(t, k) ==
    OwnWrites(t, "own insert", {k} \ Present(Reads(t)), LAMBDA x : Bump(tx[t].view[x]))
OwnErase(t, k) == OwnWrites(t, "own erase", {k} \cap Present(Reads(t)), LAMBDA x : Absent)
OwnUpdateRange(t) ==
    OwnWrites(t, "own update_range", Present(Reads(t)), LAMBDA x : Bump(tx[t].view[x]))
OwnEraseRange(t) == OwnWrites(t, "own erase_range", Present(Reads(t)), LAMBDA x : Absent)

Stage(t) ==
    /\ Leave(t, "stage")
    /\ tx' = IF tx[t].stage = "pending" /\ ~Conflicts(t) THEN [tx EXCEPT ![t].stage = "staged"] ELSE tx
    /\ UNCHANGED <<contents, walk, inTurn>>

Rollback(t) ==
    /\ Leave(t, "rollback")
    /\ tx' = IF tx[t].stage = "staged" THEN [tx EXCEPT ![t].stage = "pending"] ELSE tx
    /\ UNCHANGED <<contents, walk, inTurn>>

Reset(t) ==
    /\ Leave(t, "reset")
    /\ tx' = [tx EXCEPT ![t] = Opened(contents)]
    /\ UNCHANGED <<contents, walk, inTurn>>

\* What was validated when staged is not asked again.
MutantMayCommit(t) == tx[t].stage = "staged"

MayCommit(t) == tx[t].stage = "staged" /\ ~Conflicts(t)

\* A committed transaction is taken for closed: its reuse is SnapshotStore's.
Commit(t) ==
    /\ Leave(t, "commit")
    /\ IF MayCommit(t)
       THEN LET new == tx[t].changes
            IN  /\ Written(new)
                /\ tx' = [MovedBy(new) EXCEPT ![t] = Closed]
                /\ inTurn' = [k \in Keys |->
                        IF k \notin DOMAIN new THEN inTurn[k]
                        ELSE IF new[k] = Absent THEN Absent ELSE Bump(inTurn[k])]
       ELSE Refused

\* Destroying or moving over a transaction, which takes no lock; its staged
\* versions leave the store on the way.
Drop(t) ==
    /\ call[t] = NoCall
    /\ tx[t].stage # "closed"
    /\ tx[t].stage = "staged" => DropsStaged
    /\ call' = [call EXCEPT ![t] = "drop"]
    /\ UNCHANGED <<held, seen, contents, tx, walk, inTurn>>

Dropped(t) ==
    /\ Leave(t, "drop")
    /\ tx' = [tx EXCEPT ![t] = Closed]
    /\ UNCHANGED <<contents, walk, inTurn>>

----------------------------------------------------------------------------
(* Calls of the store. Each decides by what it found under the mutex; inTurn *)
(* is what the same call makes of the contents of calls that took turns.   *)

Find(t) == Leave(t, "find") /\ Refused
Window(t) == Leave(t, "range") /\ Refused

\* What no snapshot reads is reclaimed, which no call is answered from.
Vacuum(t) == Leave(t, "vacuum") /\ Refused

Open(t) ==
    /\ Leave(t, "transaction")
    /\ tx' = [tx EXCEPT ![t] = Opened(seen[t])]
    /\ UNCHANGED <<contents, walk, inTurn>>

\* new(c) is what the call writes over contents c.
Writing(t, op, new(_)) ==
    /\ Leave(t, op)
    /\ Written(new(seen[t]))
    /\ tx' = MovedBy(new(seen[t]))
    /\ inTurn' = [k \in Keys |-> IF k \in DOMAIN new(inTurn) THEN new(inTurn)[k] ELSE inTurn[k]]

Upsert(t, k) == Writing(t, "upsert", LAMBDA c : [x \in {k} |-> 1])

Insert(t, k) == Writing(t, "insert", LAMBDA c : [x \in {k} \ Present(c) |-> 1])

Erase(t, k) == Writing(t, "erase", LAMBDA c : [x \in {k} \cap Present(c) |-> Absent])

UpdateRange(t) == Writing(t, "update_range", LAMBDA c : [x \in Present(c) |-> Bump(c[x])])

EraseRange(t) == Writing(t, "erase_range", LAMBDA c : [x \in Present(c) |-> Absent])

First(ks) == {k \in ks : \A other \in ks : k <= other}

PopSmallest(t) == Writing(t, "pop_smallest", LAMBDA c : [x \in First(Present(c)) |-> Absent])

----------------------------------------------------------------------------
(* The cursor, which holds no lock between steps and keeps its last key.   *)

\* cursor, cursor_from, cursor_up_to and cursor_range; the due keys are history.
StartWalk(t, from, upper) ==
    /\ "cursor next" \in Ops /\ call[t] = NoCall
    /\ walk[t].seed = "drained"
    /\ walk' = [walk EXCEPT ![t] =
            [seed |-> "bound", at |-> from, upper |-> upper,
             due |-> {k \in Present(contents) : from <= k /\ k < upper}]]
    /\ UNCHANGED <<held, call, seen, contents, tx, inTurn>>

\* lower_bound of a given bound, and upper_bound of the key handed last.
Ahead(t) ==
    {k \in Present(seen[t]) : IF walk[t].seed = "bound" THEN k >= walk[t].at ELSE k > walk[t].at}

CursorNext(t) ==
    /\ Leave(t, "cursor next")
    /\ LET w == walk[t]
           next == {k \in First(Ahead(t)) : k < w.upper}
       IN  walk' = [walk EXCEPT ![t] =
                IF next = {} THEN [w EXCEPT !.seed = "drained"]
                ELSE [w EXCEPT !.seed = "last", !.at = Min(next), !.due = w.due \ next]]
    /\ UNCHANGED <<contents, tx, inTurn>>

----------------------------------------------------------------------------

TransactionCall(t) ==
    \/ \E k \in Keys : Watch(t, k) \/ OwnUpsert(t, k) \/ OwnInsert(t, k) \/ OwnErase(t, k)
    \/ OwnFind(t) \/ OwnRange(t) \/ OwnUpdateRange(t) \/ OwnEraseRange(t)
    \/ Stage(t) \/ Rollback(t) \/ Reset(t) \/ Commit(t)
    \/ Drop(t) \/ Dropped(t)

StoreCall(t) ==
    \/ Find(t) \/ Window(t) \/ Vacuum(t) \/ Open(t)
    \/ \E k \in Keys : Upsert(t, k) \/ Insert(t, k) \/ Erase(t, k)
    \/ UpdateRange(t) \/ EraseRange(t) \/ PopSmallest(t)

CursorCall(t) ==
    \/ \E from \in Keys, upper \in 2 .. KeyCount + 1 : from < upper /\ StartWalk(t, from, upper)
    \/ CursorNext(t)

Next ==
    \E t \in Threads :
        (\E op \in Ops \ {"own upsert"} : Enter(t, op)) \/ TransactionCall(t) \/ StoreCall(t) \/ CursorCall(t)

Spec == Init /\ [][Next]_vars

----------------------------------------------------------------------------
(* Properties. *)

(* Types of the state, and the mode every call holds the mutex in.             *)
LockedTypeOK ==
    /\ \A t \in Threads :
        /\ call[t] \in (Ops \ {"own upsert"}) \cup {"drop", NoCall}
        /\ held[t] = IF call[t] \in {NoCall, "drop"} THEN "none" ELSE Mode(call[t])
        /\ tx[t].stage \in {"closed", "pending", "staged"}
        /\ DOMAIN tx[t].changes \cup tx[t].watched \cup tx[t].moved \subseteq Keys
        /\ walk[t].due \subseteq Keys
    /\ {contents, inTurn} \subseteq [Keys -> Payloads]

(* Every write is one more than the newest one, whoever made it: calls made at   *)
(* once leave what the same calls leave one after another, and a transaction   *)
(* staged before and committed after other calls overwrites none of them.      *)
TakesTurns == contents = inTurn

(* What a call found under the mutex stands until it gives the mutex back.       *)
FoundStands == \A t \in Threads : held[t] # "none" => seen[t] = contents

Changes(t) ==
    \/ call[t] \in TransactionWrites \cup StoreWrites
    \/ call[t] = "drop" /\ tx[t].stage = "staged" /\ DOMAIN tx[t].changes # {}

(* The class note: a call takes the lock exactly when it reaches the wrapped     *)
(* store, exclusive where it writes to it.                                     *)
ChangesAlone ==
    \A t, u \in Threads : t # u /\ Changes(t) => call[u] \in {NoCall, "drop"} /\ ~Changes(u)

(* A cursor that says it is done has handed over every key of its window that     *)
(* was there from first to last, whatever came and went between its steps.     *)
WalkMissesNone ==
    \A t \in Threads :
        /\ walk[t].seed = "drained" => walk[t].due = {}
        /\ \A k \in walk[t].due : k >= walk[t].at

=============================================================================
