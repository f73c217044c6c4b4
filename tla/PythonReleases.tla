--------------------------- MODULE PythonReleases ---------------------------
(***************************************************************************)
(* The ledger of deferred releases of one object-mode Python container. A  *)
(* reference dropped while a store call is in flight is recorded, and the  *)
(* last call out gives back what was recorded: releasing an object's last  *)
(* reference runs its __del__, which may call the container again.         *)
(*                                                                         *)
(* The module is built for interpreters without a global lock              *)
(* (module.cpp, Py_MOD_GIL_NOT_USED), so threads interleave everywhere. A  *)
(* thread is a stack of calls: a finalizer, or the comparison an equality  *)
(* walk calls back into, puts a call on top of the one that reached it.    *)
(* Who holds the store's lock and the transaction's is read off the        *)
(* stacks. A dead object's name is used again for a new one.               *)
(***************************************************************************)
EXTENDS Integers, FiniteSets, SequencesExt

CONSTANTS
    Threads,
    Objects,
    KeyCount,        \* keys are 1 .. KeyCount
    Calls,           \* what user code calls
    FinalizerCalls,  \* what a __del__ calls
    MaxDepth,        \* bound: calls on one thread's stack
    MaxRecorded,     \* bound: no call joins another over a longer ledger
    None

AllCalls == {"upsert", "erase", "find", "size", "stage", "commit", "walk"}

ASSUME ReleasesAssumption ==
    /\ KeyCount \in Nat \ {0} /\ MaxDepth \in Nat \ {0} /\ MaxRecorded \in Nat \ {0}
    /\ Calls \subseteq AllCalls /\ FinalizerCalls \subseteq AllCalls
    /\ None \notin Objects

Keys == 1 .. KeyCount
Maybe == Objects \cup {None}

VARIABLES
    slots,      \* the store: the object under each key
    staged,     \* what an open transaction holds for key 1
    refs,       \* the interpreter's reference counts
    calls,      \* calls_in_flight_
    recorded,   \* recorded_
    stack       \* the calls each thread is inside, the innermost last

vars == <<slots, staged, refs, calls, recorded, stack>>
store == <<slots, staged>>
ledger == <<calls, recorded>>

----------------------------------------------------------------------------
(* What the calls differ in *)

\* A view's operation runs whole under its transaction's lock.
OverView(c) == c \in {"stage", "commit"}

\* The store calls that carry the ledger; size and a cursor's step do not.
Deferring(c) == c \notin {"size", "walk"}

Alone(c) == c \in {"upsert", "erase", "commit"}

\* A transaction stages in memory of its own.
Locking(c) == c # "stage"

\* One call: its step, the locks it holds, the reference it is giving back and
\* the step after that, the copy it hands to its caller, the batch it drained.
NewCall(c, k) ==
    [call |-> c, key |-> IF c = "walk" THEN 0 ELSE k,
     at |-> IF OverView(c) THEN "group" ELSE IF Deferring(c) THEN "arrive" ELSE "lock",
     locked |-> "no", grouped |-> FALSE,
     gives |-> None, then |-> "done", answer |-> None, batch |-> <<>>]

Init ==
    /\ slots = [k \in Keys |-> None] /\ staged = None
    /\ refs = [o \in Objects |-> 0]
    /\ calls = 0 /\ recorded = <<>>
    /\ stack = [t \in Threads |-> <<>>]

----------------------------------------------------------------------------
(* Stacks and locks *)

Idle(t) == stack[t] = <<>>
Top(t) == stack[t][Len(stack[t])]
At(t, step) == ~Idle(t) /\ Top(t).at = step
Below(t) == {stack[t][i] : i \in 1 .. Len(stack[t]) - 1}
Frames == UNION {ToSet(stack[t]) : t \in Threads}

\* A call that is done is gone from its thread's stack.
Pending(frame) == IF frame.at = "done" THEN <<>> ELSE <<frame>>
Move(t, frame) == stack' = [stack EXCEPT ![t] = Front(@) \o Pending(frame)]

Admits(frames, c) == \A f \in frames : f.locked \in (IF Alone(c) THEN {"no"} ELSE {"no", "shared"})

----------------------------------------------------------------------------
(* Giving a reference back *)

\* One reference of o goes. Whoever takes the count to zero runs the finalizer,
\* which may make a call before the frame beneath it continues.
Decref(t, o, frame) ==
    /\ refs' = [refs EXCEPT ![o] = @ - 1]
    /\ \/ Move(t, frame)
       \/ /\ refs[o] = 1 /\ Len(stack[t]) < MaxDepth
          /\ \E c \in FinalizerCalls, k \in Keys :
                stack' = [stack EXCEPT ![t] = Front(@) \o Pending(frame) \o <<NewCall(c, k)>>]

\* releases_t::armed
Armed == calls # 0

Given(frame) == [frame EXCEPT !.gives = None, !.at = frame.then]

\* object_t::give_back asks whether a call is in flight, in a step of its own.
GiveBack(t) ==
    /\ At(t, "give")
    /\ IF Armed THEN Move(t, [Top(t) EXCEPT !.at = "record"]) /\ UNCHANGED refs
                ELSE Decref(t, Top(t).gives, Given(Top(t)))
    /\ UNCHANGED <<store, ledger>>

Record(t) ==
    /\ At(t, "record")
    /\ recorded' = Append(recorded, Top(t).gives)
    /\ Move(t, Given(Top(t)))
    /\ UNCHANGED <<store, refs, calls>>

----------------------------------------------------------------------------
(* Arriving, and the work under the store's lock *)

\* User code calls: a thread that is in no call, or the comparison a walk runs.
Begin(t) ==
    /\ Idle(t) \/ At(t, "compare")
    /\ Len(stack[t]) < MaxDepth
    /\ Len(recorded) < MaxRecorded \/ calls = 0
    /\ \E c \in Calls, k \in Keys :
          stack' = [stack EXCEPT ![t] =
                       (IF @ = <<>> THEN @ ELSE Append(Front(@), [Top(t) EXCEPT !.at = "lock"]))
                       \o <<NewCall(c, k)>>]
    /\ UNCHANGED <<store, refs, ledger>>

\* The comparison answers without touching the container.
Compare(t) ==
    /\ At(t, "compare")
    /\ Move(t, [Top(t) EXCEPT !.at = "lock"])
    /\ UNCHANGED <<store, refs, ledger>>

\* run_over_participant takes the transaction's lock.
Group(t) ==
    /\ At(t, "group")
    /\ \A f \in Frames : ~f.grouped
    /\ Move(t, [Top(t) EXCEPT !.grouped = TRUE, !.at = "arrive"])
    /\ UNCHANGED <<store, refs, ledger>>

\* releases_t::lock_shared
Arrive(t) ==
    /\ At(t, "arrive")
    /\ calls' = calls + 1
    /\ Move(t, [Top(t) EXCEPT !.at = IF Top(t).call = "close" THEN "leave" ELSE "lock"])
    /\ UNCHANGED <<store, refs, recorded>>

Taken(frame) ==
    [frame EXCEPT !.locked = IF Locking(frame.call) THEN IF Alone(frame.call) THEN "alone" ELSE "shared"
                             ELSE "no"]

\* The frame goes on to give back what it displaced, or straight on.
Displacing(frame, old, next) ==
    IF old = None THEN [frame EXCEPT !.at = next]
                  ELSE [frame EXCEPT !.gives = old, !.then = next, !.at = "give"]

\* The count after one more reference of an object, if there is one.
Counted(o) == IF o = None THEN refs ELSE [refs EXCEPT ![o] = @ + 1]

Upsert(t, frame) ==
    \E o \in Objects :
        /\ slots' = [slots EXCEPT ![frame.key] = o]
        /\ refs' = Counted(o)
        /\ Move(t, Displacing(frame, slots[frame.key], "unlock"))
        /\ UNCHANGED staged

\* The element's value is copied for the caller before the store drops it.
Erase(t, frame) ==
    /\ slots' = [slots EXCEPT ![frame.key] = None]
    /\ refs' = Counted(slots[frame.key])
    /\ Move(t, Displacing([frame EXCEPT !.answer = slots[frame.key]], slots[frame.key], "unlock"))
    /\ UNCHANGED staged

Find(t, frame) ==
    /\ refs' = Counted(slots[frame.key])
    /\ Move(t, [frame EXCEPT !.answer = slots[frame.key], !.at = "unlock"])
    /\ UNCHANGED store

\* A write through a view, over whatever the transaction had staged.
Stage(t, frame) ==
    \E o \in Objects :
        /\ staged' = o
        /\ refs' = Counted(o)
        /\ Move(t, Displacing(frame, staged, "leave"))
        /\ UNCHANGED slots

Commit(t, frame) ==
    /\ IF staged = None THEN UNCHANGED store /\ Move(t, [frame EXCEPT !.at = "unlock"])
       ELSE /\ slots' = [slots EXCEPT ![1] = staged]
            /\ staged' = None
            /\ Move(t, Displacing(frame, slots[1], "unlock"))
    /\ UNCHANGED refs

\* One step of for_each_in_order: the copy replaces the one of the step before,
\* inside the callback, and a walk with nothing left is closed.
WalkOn(t, frame) ==
    LET ahead == {k \in Keys : k > frame.key /\ slots[k] # None}
    IN  /\ IF ahead = {}
           THEN UNCHANGED refs /\ Move(t, [frame EXCEPT !.call = "close", !.at = "unlock"])
           ELSE LET k == Min(ahead)
                IN  /\ refs' = Counted(slots[k])
                    /\ Move(t, Displacing([frame EXCEPT !.key = k, !.answer = slots[k]], frame.answer, "unlock"))
        /\ UNCHANGED store

Work(t, frame) ==
    \/ frame.call = "upsert" /\ Upsert(t, frame)
    \/ frame.call = "erase"  /\ Erase(t, frame)
    \/ frame.call = "find"   /\ Find(t, frame)
    \/ frame.call = "size"   /\ Move(t, [frame EXCEPT !.at = "unlock"]) /\ UNCHANGED <<store, refs>>
    \/ frame.call = "stage"  /\ Stage(t, frame)
    \/ frame.call = "commit" /\ Commit(t, frame)
    \/ frame.call = "walk"   /\ WalkOn(t, frame)

\* The store call's own span, from taking its lock to the last thing it changes.
Enter(t) ==
    /\ At(t, "lock")
    /\ Locking(Top(t).call) => Admits(Frames, Top(t).call)
    /\ Work(t, Taken(Top(t)))
    /\ UNCHANGED ledger

----------------------------------------------------------------------------
(* Leaving *)

\* After the ledger: the transaction's lock, then the caller's copy.
Onward(frame) ==
    IF frame.grouped THEN [frame EXCEPT !.at = "ungroup"]
    ELSE Displacing([frame EXCEPT !.answer = None], frame.answer, "done")

Unlock(t) ==
    /\ At(t, "unlock")
    /\ LET next == CASE Top(t).call = "walk" -> "compare"
                     [] Top(t).call = "close" -> "arrive"
                     [] Top(t).call = "size" -> "done"
                     [] OTHER -> "leave"
       IN Move(t, [Top(t) EXCEPT !.locked = "no", !.at = next])
    /\ UNCHANGED <<store, refs, ledger>>

\* releases_t::unlock_shared: only the last call out drains.
Leave(t) ==
    /\ At(t, "leave")
    /\ calls' = calls - 1
    /\ Move(t, IF calls = 1 THEN [Top(t) EXCEPT !.at = "drain"] ELSE Onward(Top(t)))
    /\ UNCHANGED <<store, refs, recorded>>

\* A drain that forgets to empty the list it took.
MutantDrained == recorded
\* What drain_ leaves behind: the batch is moved out under the guard.
Drained == <<>>

\* drain_ takes what stands recorded, and no more.
Drain(t) ==
    /\ At(t, "drain")
    /\ recorded' = Drained
    /\ Move(t, IF recorded = <<>> THEN Onward(Top(t)) ELSE [Top(t) EXCEPT !.batch = recorded, !.at = "batch"])
    /\ UNCHANGED <<store, refs, calls>>

\* A drain that goes on until it finds nothing recorded.
MutantBatchDone(frame) == [frame EXCEPT !.at = "drain"]
\* What follows the last reference of a batch.
BatchDone(frame) == Onward(frame)

\* drain_ gives the batch back one reference at a time, outside the guard.
Release(t) ==
    /\ At(t, "batch")
    /\ LET frame == [Top(t) EXCEPT !.batch = Tail(@)]
       IN  Decref(t, Head(Top(t).batch), IF frame.batch = <<>> THEN BatchDone(frame) ELSE frame)
    /\ UNCHANGED <<store, ledger>>

Ungroup(t) ==
    /\ At(t, "ungroup")
    /\ Move(t, [Top(t) EXCEPT !.grouped = FALSE, !.at = "done"])
    /\ UNCHANGED <<store, refs, ledger>>

\* Everything a thread does once it is inside a call.
Step(t) ==
    \/ Group(t) \/ Arrive(t) \/ Enter(t) \/ GiveBack(t) \/ Record(t) \/ Compare(t)
    \/ Unlock(t) \/ Leave(t) \/ Drain(t) \/ Release(t) \/ Ungroup(t)

Next == \E t \in Threads : Begin(t) \/ Step(t)

Spec == Init /\ [][Next]_vars

\* Every thread keeps running. Nothing is promised of the locks: a waiter may be
\* passed for ever by those who come and go.
FairSpec == Spec /\ \A t \in Threads : WF_vars(Step(t))

----------------------------------------------------------------------------
(* Properties *)

Steps == {"group", "arrive", "lock", "give", "record", "compare", "unlock", "leave", "drain", "batch",
          "ungroup"}

TypeOK ==
    /\ slots \in [Keys -> Maybe] /\ staged \in Maybe
    /\ refs \in [Objects -> Nat]
    /\ calls \in Nat
    /\ ToSet(recorded) \subseteq Objects
    /\ \A t \in Threads : Len(stack[t]) <= MaxDepth
    /\ \A f \in Frames : f.at \in Steps /\ f.gives \in Maybe /\ f.answer \in Maybe
    /\ \A f \in Frames : (f.at \in {"give", "record"}) <=> (f.gives # None)

\* How often a frame stands for a reference to o.
InFrame(f, o) ==
    Cardinality({x \in {"gives", "answer"} : (x = "gives" /\ f.gives = o) \/ (x = "answer" /\ f.answer = o)})
    + Len(SelectSeq(f.batch, LAMBDA b : b = o))

InStack(t, o) == FoldSeq(LAMBDA f, sum : sum + InFrame(f, o), 0, stack[t])

\* Every reference is given back once: an object's count is the number of places
\* that refer to it, in the store, a transaction, the calls and the ledger, so a
\* value in the store is never freed and nothing outlives its last holder.
ReferencesBalance ==
    \A o \in Objects :
        refs[o] = Cardinality({k \in Keys : slots[k] = o}) + (IF staged = o THEN 1 ELSE 0)
                  + Len(SelectSeq(recorded, LAMBDA b : b = o))
                  + FoldSet(LAMBDA t, sum : sum + InStack(t, o), 0, Threads)

\* Whatever runs on top of a call, a finalizer or a comparison, runs without the
\* store's lock: what a write displaces is released after the write has let go.
FinalizersRunFree == \A t \in Threads : \A f \in Below(t) : f.locked = "no"

\* No thread waits for a lock that a call beneath it on its own stack holds.
NobodyBlocksItself ==
    \A t \in Threads :
        /\ At(t, "lock") /\ Locking(Top(t).call) => Admits(Below(t), Top(t).call)
        /\ At(t, "group") => \A f \in Below(t) : ~f.grouped

\* A drain is under way on t's stack, or a finalizer that one of its releases ran.
Draining(t) == \E i \in DOMAIN stack[t] : stack[t][i].at \in {"drain", "batch"}

=============================================================================
