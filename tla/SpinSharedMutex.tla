-------------------------- MODULE SpinSharedMutex --------------------------
(***************************************************************************)
(* spin_shared_mutex_t (shared.hpp): a reader-writer lock in one 32-bit    *)
(* word that spins, then parks on std::atomic::wait.                       *)
(*                                                                         *)
(* Every operation on the word is one action: a load, a compare-exchange,  *)
(* an addition, the comparison wait makes before it sleeps, a notification.*)
(* The word is a record of its three fields; an addition that overflows a  *)
(* field carries into its neighbour.                                       *)
(***************************************************************************)
EXTENDS Naturals, FiniteSets

CONSTANTS
    Threads,
    ReaderCap,  \* readers_mask_k + 1
    WriterCap,  \* writers_waiting_mask_k / one_writer_waiting_k + 1
    Spins       \* spins_before_parking_k

\* "capped at 65'535 readers holding at once", "32'767 writers parked at once".
ASSUME MutexAssumption ==
    /\ IsFiniteSet(Threads)
    /\ ReaderCap \in Nat /\ WriterCap \in Nat /\ Spins \in Nat
    /\ Cardinality(Threads) < ReaderCap /\ Cardinality(Threads) < WriterCap

VARIABLES
    word,      \* state_
    pc,        \* where each thread stands in a call
    mode,      \* which kind of lock the call is for
    observed,  \* the local of the same name
    tries      \* spins done by the call

vars == <<word, pc, mode, observed, tries>>

Words == [held : BOOLEAN, waiting : 0..WriterCap - 1, readers : 0..ReaderCap - 1]

Unlocked == [held |-> FALSE, waiting |-> 0, readers |-> 0]

----------------------------------------------------------------------------
(* The word, and Mutant... operators: plausible slips of what follows them.*)

\* fetch_add of one_writer_waiting_k, which carries into the held bit.
Queueing(w) ==
    IF w.waiting + 1 < WriterCap THEN [w EXCEPT !.waiting = @ + 1]
                                 ELSE [w EXCEPT !.waiting = 0, !.held = ~@]

\* observed + 1, which carries into the tally of writers.
Entering(w) ==
    IF w.readers + 1 < ReaderCap THEN [w EXCEPT !.readers = @ + 1]
                                 ELSE [Queueing(w) EXCEPT !.readers = 0]

\* (observed - one_writer_waiting_k) | writer_held_k
MutantTaken(w) == [w EXCEPT !.held = TRUE]
Taken(w) == [w EXCEPT !.waiting = @ - 1, !.held = TRUE]

\* unlock: the writer left the tally when it took the lock.
MutantReleased(w) == [w EXCEPT !.held = FALSE, !.waiting = @ - 1]
Released(w) == [w EXCEPT !.held = FALSE]

\* What admits a reader: neither an owning writer nor a queued one.
MutantAdmits(w) == w.waiting = 0
MutantAdmitsFirst(w) == ~w.held
Admits(w) == ~w.held /\ w.waiting = 0

\* What a queued writer waits for.
Free(w) == ~w.held /\ w.readers = 0

\* unlock_shared notifies only for the last reader out.
LastOut(previous) == previous.readers = 1

\* notify_all: each sleeper compares again before it returns from wait.
MutantNotified(p) == p
Notified(p) == [t \in Threads |-> IF p[t] = "parked" THEN "waiting" ELSE p[t]]

----------------------------------------------------------------------------

Init ==
    /\ word = Unlocked
    /\ pc = [t \in Threads |-> "idle"]
    /\ mode = [t \in Threads |-> "shared"]
    /\ observed = [t \in Threads |-> Unlocked]
    /\ tries = [t \in Threads |-> 0]

Goto(t, label) == pc' = [pc EXCEPT ![t] = label]

\* A failed attempt while spinning; once spun out, the count stays.
Tried(t) == tries' = [tries EXCEPT ![t] = IF @ < Spins THEN @ + 1 ELSE @]

\* try_lock: one strong exchange; a failure changes nothing.
TryLock(t) ==
    /\ pc[t] = "idle" /\ word = Unlocked
    /\ word' = [Unlocked EXCEPT !.held = TRUE]
    /\ mode' = [mode EXCEPT ![t] = "exclusive"]
    /\ Goto(t, "writing")
    /\ UNCHANGED <<observed, tries>>

\* try_lock_shared: the strong exchange succeeds only on a word that admits
\* a reader; a failure changes nothing.
TryLockShared(t) ==
    /\ pc[t] = "idle" /\ Admits(word)
    /\ word' = Entering(word)
    /\ mode' = [mode EXCEPT ![t] = "shared"]
    /\ Goto(t, "reading")
    /\ UNCHANGED <<observed, tries>>

\* lock and lock_shared are entered.
Call(t, kind) ==
    /\ pc[t] = "idle"
    /\ mode' = [mode EXCEPT ![t] = kind]
    /\ tries' = [tries EXCEPT ![t] = 0]
    /\ Goto(t, IF kind = "exclusive" THEN "spinning" ELSE "loading")
    /\ UNCHANGED <<word, observed>>

\* One weak exchange from zero, which may fail for no reason.
Spin(t) ==
    /\ pc[t] = "spinning" /\ tries[t] < Spins
    /\ \/ /\ word = Unlocked
          /\ word' = [Unlocked EXCEPT !.held = TRUE]
          /\ Goto(t, "writing") /\ UNCHANGED tries
       \/ Tried(t) /\ UNCHANGED <<word, pc>>
    /\ UNCHANGED <<mode, observed>>

\* Joining the tally of waiting writers.
Queue(t) ==
    /\ pc[t] = "spinning" /\ tries[t] = Spins
    /\ word' = Queueing(word)
    /\ observed' = [observed EXCEPT ![t] = word']
    /\ Goto(t, "queued")
    /\ UNCHANGED <<mode, tries>>

\* The exchange of a queued writer; a failure refreshes observed.
Take(t) ==
    /\ pc[t] = "queued" /\ Free(observed[t])
    /\ IF word = observed[t]
       THEN word' = Taken(word) /\ Goto(t, "writing") /\ UNCHANGED observed
       ELSE observed' = [observed EXCEPT ![t] = word] /\ UNCHANGED <<word, pc>>
    /\ UNCHANGED <<mode, tries>>

Defer(t) ==
    /\ pc[t] = "queued" /\ ~Free(observed[t])
    /\ Goto(t, "waiting")
    /\ UNCHANGED <<word, mode, observed, tries>>

\* The load of a reader's loop, or of a writer back from wait.
Load(t) ==
    /\ pc[t] = "loading"
    /\ observed' = [observed EXCEPT ![t] = word]
    /\ \/ mode[t] = "exclusive" /\ Goto(t, "queued") /\ UNCHANGED tries
       \/ mode[t] = "shared" /\ Admits(word) /\ Goto(t, "entering") /\ UNCHANGED tries
       \/ mode[t] = "shared" /\ ~Admits(word) /\ tries[t] < Spins /\ Tried(t) /\ UNCHANGED pc
       \/ mode[t] = "shared" /\ ~Admits(word) /\ tries[t] = Spins /\ Goto(t, "waiting") /\ UNCHANGED tries
    /\ UNCHANGED <<word, mode>>

\* A reader's weak exchange, which may fail for no reason.
Enter(t) ==
    /\ pc[t] = "entering" /\ word = observed[t]
    /\ word' = Entering(word)
    /\ Goto(t, "reading")
    /\ UNCHANGED <<mode, observed, tries>>

EnterFails(t) ==
    /\ pc[t] = "entering"
    /\ Goto(t, "loading") /\ Tried(t)
    /\ UNCHANGED <<word, mode, observed>>

\* wait sleeps only while the word is the one observed.
Wait(t) ==
    /\ pc[t] = "waiting"
    /\ Goto(t, IF word = observed[t] THEN "parked" ELSE "loading")
    /\ UNCHANGED <<word, mode, observed, tries>>

\* unlock: the held bit is dropped, the tally stays; then everybody is woken.
Unlock(t) ==
    /\ pc[t] = "writing"
    /\ word' = Released(word)
    /\ Goto(t, "notifying")
    /\ UNCHANGED <<mode, observed, tries>>

UnlockShared(t) ==
    /\ pc[t] = "reading"
    /\ word' = [word EXCEPT !.readers = @ - 1]
    /\ Goto(t, IF LastOut(word) THEN "notifying" ELSE "idle")
    /\ UNCHANGED <<mode, observed, tries>>

Notify(t) ==
    /\ pc[t] = "notifying"
    /\ pc' = Notified([pc EXCEPT ![t] = "idle"])
    /\ UNCHANGED <<word, mode, observed, tries>>

\* What a thread inside a call does next.
Step(t) ==
    \/ Spin(t) \/ Queue(t) \/ Take(t) \/ Defer(t) \/ Load(t) \/ Wait(t)
    \/ Enter(t) \/ (EnterFails(t) /\ word # observed[t])
    \/ Unlock(t) \/ UnlockShared(t) \/ Notify(t)

Next ==
    \E t \in Threads :
        \/ TryLock(t) \/ TryLockShared(t)
        \/ Call(t, "exclusive") \/ Call(t, "shared")
        \/ Step(t) \/ EnterFails(t)

Spec == Init /\ [][Next]_vars

\* A thread inside a call is scheduled, and a critical section ends.  A parked
\* thread is owed nothing, and a reader's exchange may fail forever.
FairSpec == Spec /\ \A t \in Threads : WF_vars(Step(t))

----------------------------------------------------------------------------

Labels == {"idle", "spinning", "queued", "loading", "entering", "waiting", "parked",
           "writing", "reading", "notifying"}

TypeOK ==
    /\ word \in Words
    /\ pc \in [Threads -> Labels]
    /\ mode \in [Threads -> {"exclusive", "shared"}]
    /\ observed \in [Threads -> Words]
    /\ tries \in [Threads -> 0..Spins]

Writing == {t \in Threads : pc[t] = "writing"}
Reading == {t \in Threads : pc[t] = "reading"}

\* Writers that joined the tally and have not taken the lock yet.
Queued == {t \in Threads : /\ mode[t] = "exclusive"
                           /\ pc[t] \in {"queued", "loading", "waiting", "parked"}}

\* One writer alone, or readers alone.
MutualExclusion ==
    /\ \A s, t \in Writing : s = t
    /\ Writing # {} => Reading = {}

\* The word says who holds the lock and who is queued, whatever failed,
\* slept or was woken on the way: no tally leaks and none is spent twice.
TalliesExact ==
    /\ word.held <=> Writing # {}
    /\ word.waiting = Cardinality(Queued)
    /\ word.readers = Cardinality(Reading)

\* Nobody who arrives later passes a queued writer: while one is queued, only
\* queued writers take the lock.
QueuedGoFirst ==
    [][Queued # {} => Writing' \cup Reading' \subseteq Writing \cup Reading \cup Queued]_vars

\* "A steady read load cannot starve any of them": once no other thread wants
\* the lock exclusively any more, a queued writer gets it, however many readers
\* keep coming.
ReadersDoNotStarve ==
    \A w \in Threads :
        (\A v \in Threads \ {w} : <>[](mode[v] = "shared"))
            => (w \in Queued ~> w \in Writing)

\* No wake-up is lost: whoever sleeps is woken, and compares again.
SleepersWake == \A t \in Threads : pc[t] = "parked" ~> pc[t] # "parked"

=============================================================================
