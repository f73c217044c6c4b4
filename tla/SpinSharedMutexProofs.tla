----------------------- MODULE SpinSharedMutexProofs -----------------------
(* Mutual exclusion of SpinSharedMutex, for any number of threads.         *)
EXTENDS SpinSharedMutex, FiniteSetTheorems, TLAPS

\* What a thread's place in its call says of its mode, and of the word a
\* reader is about to exchange.
Fits ==
    \A t \in Threads :
        /\ pc[t] \in {"spinning", "queued", "writing"} => mode[t] = "exclusive"
        /\ pc[t] \in {"entering", "reading"} => mode[t] = "shared"
        /\ pc[t] = "entering" => Admits(observed[t])

IInv == TypeOK /\ MutualExclusion /\ TalliesExact /\ Fits

QueueLabels == {"queued", "loading", "waiting", "parked"}

----------------------------------------------------------------------------

\* Where one thread goes decides how the three sets of threads change.
LEMMA Moves ==
    ASSUME TypeOK, NEW t \in Threads, NEW l \in Labels, NEW k \in {"exclusive", "shared"},
           pc' = [pc EXCEPT ![t] = l], mode' = [mode EXCEPT ![t] = k]
    PROVE  /\ Writing' = IF l = "writing" THEN Writing \cup {t} ELSE Writing \ {t}
           /\ Reading' = IF l = "reading" THEN Reading \cup {t} ELSE Reading \ {t}
           /\ Queued' = IF k = "exclusive" /\ l \in QueueLabels
                        THEN Queued \cup {t} ELSE Queued \ {t}
BY DEF TypeOK, Writing, Reading, Queued, QueueLabels

\* The same for a step inside a call.
LEMMA MovesInCall ==
    ASSUME TypeOK, NEW t \in Threads, NEW l \in Labels,
           pc' = [pc EXCEPT ![t] = l], UNCHANGED mode
    PROVE  /\ Writing' = IF l = "writing" THEN Writing \cup {t} ELSE Writing \ {t}
           /\ Reading' = IF l = "reading" THEN Reading \cup {t} ELSE Reading \ {t}
           /\ Queued' = IF mode[t] = "exclusive" /\ l \in QueueLabels
                        THEN Queued \cup {t} ELSE Queued \ {t}
<1>1. mode' = [mode EXCEPT ![t] = mode[t]] /\ mode[t] \in {"exclusive", "shared"}
  BY DEF TypeOK
<1>2. QED
  BY <1>1, Moves

\* A step inside a call by a thread that holds nothing, and stays in the queue
\* or out of it.
LEMMA MovesAside ==
    ASSUME TypeOK, NEW t \in Threads, NEW l \in Labels \ {"writing", "reading"},
           pc' = [pc EXCEPT ![t] = l], UNCHANGED mode,
           t \notin Writing, t \notin Reading,
           t \in Queued <=> mode[t] = "exclusive" /\ l \in QueueLabels
    PROVE  Writing' = Writing /\ Reading' = Reading /\ Queued' = Queued
<1>1. /\ Writing' = Writing \ {t} /\ Reading' = Reading \ {t}
      /\ Queued' = IF t \in Queued THEN Queued \cup {t} ELSE Queued \ {t}
  BY MovesInCall
<1>2. QED
  BY <1>1

\* Sets of threads are finite, and a tally of them stays below the caps.
LEMMA Tally ==
    ASSUME NEW S \in SUBSET Threads
    PROVE  /\ IsFiniteSet(S)
           /\ Cardinality(S) \in Nat
           /\ Cardinality(S) < ReaderCap /\ Cardinality(S) < WriterCap
           /\ S = {} <=> Cardinality(S) = 0
           /\ \A t \in Threads :
                /\ t \notin S => Cardinality(S \cup {t}) = Cardinality(S) + 1
                /\ t \in S => Cardinality(S) >= 1 /\ Cardinality(S \ {t}) = Cardinality(S) - 1
                /\ t \in S => S \cup {t} = S
                /\ t \notin S => S \ {t} = S
<1>1. IsFiniteSet(S) /\ Cardinality(S) <= Cardinality(Threads)
  BY FS_Subset, MutexAssumption
<1>2. Cardinality(S) \in Nat /\ Cardinality(Threads) \in Nat
  BY <1>1, FS_CardinalityType, MutexAssumption
<1>3. S = {} <=> Cardinality(S) = 0
  BY <1>1, FS_EmptySet
<1>4. ASSUME NEW t \in Threads, t \notin S
      PROVE  Cardinality(S \cup {t}) = Cardinality(S) + 1 /\ S \ {t} = S
  BY <1>1, <1>4, FS_AddElement
<1>5. ASSUME NEW t \in Threads, t \in S
      PROVE  Cardinality(S) >= 1 /\ Cardinality(S \ {t}) = Cardinality(S) - 1 /\ S \cup {t} = S
  <2>1. Cardinality(S \ {t}) = Cardinality(S) - 1 /\ S \cup {t} = S
    BY <1>1, <1>5, FS_RemoveElement
  <2>2. Cardinality(S) # 0
    BY <1>3, <1>5
  <2>3. QED
    BY <2>1, <2>2, <1>2
<1>6. QED
  BY <1>1, <1>2, <1>3, <1>4, <1>5, MutexAssumption

\* No thread stands in two of the sets.
LEMMA SetsApart ==
    ASSUME TypeOK, Fits
    PROVE  /\ Writing \in SUBSET Threads /\ Reading \in SUBSET Threads /\ Queued \in SUBSET Threads
           /\ Writing \cap Reading = {} /\ Writing \cap Queued = {} /\ Reading \cap Queued = {}
BY DEF TypeOK, Fits, Writing, Reading, Queued


----------------------------------------------------------------------------

\* Steps that take no lock, give none back and join no queue.
LEMMA BystandersKeep ==
    ASSUME IInv, TypeOK', Fits', UNCHANGED word,
           Writing' = Writing, Reading' = Reading, Queued' = Queued
    PROVE  IInv'
BY DEF IInv, MutualExclusion, TalliesExact

\* A writer alone in an empty word, who came through the queue or past it.
LEMMA WriterEnters ==
    ASSUME IInv, TypeOK', Fits', NEW t \in Threads,
           Free(word), Writing' = Writing \cup {t}, Reading' = Reading \ {t}, Queued' = Queued \ {t},
           word' = [word EXCEPT !.held = TRUE, !.waiting = IF t \in Queued THEN @ - 1 ELSE @]
    PROVE  IInv'
<1>1. /\ Writing \in SUBSET Threads /\ Reading \in SUBSET Threads /\ Queued \in SUBSET Threads
  BY SetsApart DEF IInv
<1>2. Writing = {} /\ Reading = {}
  BY <1>1, Tally DEF IInv, TalliesExact, Free
<1>3. MutualExclusion'
  BY <1>2 DEF MutualExclusion
<1>4. word'.held = TRUE /\ word'.readers = word.readers
      /\ word'.waiting = IF t \in Queued THEN word.waiting - 1 ELSE word.waiting
  BY DEF IInv, TypeOK, Words
<1>5. word.readers = 0 /\ Cardinality(Reading') = 0
  BY <1>2, FS_EmptySet DEF Free
<1>6. word'.waiting = Cardinality(Queued')
  <2>1. word.waiting = Cardinality(Queued)
    BY DEF IInv, TalliesExact
  <2>2. CASE t \in Queued
    BY <1>1, <1>4, <2>1, <2>2, Tally
  <2>3. CASE t \notin Queued
    BY <1>1, <1>4, <2>1, <2>3, Tally
  <2>4. QED
    BY <2>2, <2>3
<1>7. TalliesExact'
  BY <1>2, <1>4, <1>5, <1>6 DEF TalliesExact
<1>8. QED
  BY <1>3, <1>7 DEF IInv

\* A reader on a word that admits one.
LEMMA ReaderEnters ==
    ASSUME IInv, Fits', TypeOK', NEW t \in Threads,
           Admits(word), t \notin Reading, word' = Entering(word),
           Writing' = Writing \ {t}, Reading' = Reading \cup {t}, Queued' = Queued \ {t}
    PROVE  IInv'
<1>1. /\ Writing \in SUBSET Threads /\ Reading \in SUBSET Threads /\ Queued \in SUBSET Threads
  BY SetsApart DEF IInv
<1>2. Writing = {} /\ Queued = {}
  BY <1>1, Tally DEF IInv, TalliesExact, Admits
<1>3. word.readers + 1 < ReaderCap
  <2>1. Cardinality(Reading \cup {t}) < ReaderCap
    BY <1>1, Tally
  <2>2. QED
    BY <1>1, <2>1, Tally DEF IInv, TalliesExact
<1>4. word'.held = word.held /\ word'.waiting = word.waiting /\ word'.readers = word.readers + 1
  BY <1>3 DEF IInv, TypeOK, Words, Entering
<1>5. TalliesExact'
  BY <1>1, <1>2, <1>4, Tally DEF IInv, TalliesExact
<1>6. QED
  BY <1>2, <1>5 DEF IInv, MutualExclusion


----------------------------------------------------------------------------

\* Setting fields of a record, over abstract sets: the word's held bit is a
\* Boolean and its tallies are numbers, which no one prover handles together.
LEMMA FieldsSet ==
    ASSUME NEW H, NEW Q, NEW R, NEW w \in [held : H, waiting : Q, readers : R],
           NEW h \in H, NEW q \in Q, NEW r \in R
    PROVE  LET W == [held : H, waiting : Q, readers : R]
           IN  /\ w.held \in H /\ w.waiting \in Q /\ w.readers \in R
               /\ [w EXCEPT !.held = h] \in W
               /\ [w EXCEPT !.waiting = q] \in W
               /\ [w EXCEPT !.readers = r] \in W
               /\ [w EXCEPT !.waiting = q, !.held = h] \in W
OBVIOUS

\* The free lock is a word.
LEMMA UnlockedIsAWord == Unlocked \in Words
<1>1. ReaderCap > 0 /\ WriterCap > 0
  BY FS_CardinalityType, MutexAssumption
<1>2. QED
  BY <1>1, MutexAssumption DEF Unlocked, Words

\* The exchanges and additions keep the word a word.
LEMMA WordsClosed ==
    ASSUME NEW w \in Words
    PROVE  /\ [Unlocked EXCEPT !.held = TRUE] \in Words
           /\ Queueing(w) \in Words /\ Entering(w) \in Words /\ Released(w) \in Words
           /\ w.waiting > 0 => Taken(w) \in Words
           /\ w.readers > 0 => [w EXCEPT !.readers = @ - 1] \in Words
<1> DEFINE Q == 0..WriterCap - 1
           R == 0..ReaderCap - 1
<1>1. /\ ReaderCap \in Nat \ {0} /\ WriterCap \in Nat \ {0}
      /\ 0 \in Q /\ 0 \in R
      /\ Words = [held : BOOLEAN, waiting : Q, readers : R]
  BY FS_CardinalityType, MutexAssumption DEF Words
<1> HIDE DEF Q, R
<1>2. [Unlocked EXCEPT !.held = TRUE] \in Words
  BY <1>1, UnlockedIsAWord, FieldsSet, Zenon
<1>3. \A v \in Words : v.waiting \in Q /\ v.readers \in R /\ (~v.held) \in BOOLEAN
  BY <1>1, FieldsSet, Zenon
<1>4. ASSUME NEW v \in Words PROVE Queueing(v) \in Words
  <2>1. CASE v.waiting + 1 < WriterCap
    <3>1. PICK q \in Q : q = v.waiting + 1
      BY <1>1, <1>3, <2>1 DEF Q
    <3>2. QED
      BY <1>1, <2>1, <3>1, FieldsSet, Zenon DEF Queueing
  <2>2. CASE ~(v.waiting + 1 < WriterCap)
    <3>1. PICK h \in BOOLEAN : h = ~v.held
      BY <1>3, Zenon
    <3>2. QED
      BY <1>1, <2>2, <3>1, FieldsSet, Zenon DEF Queueing
  <2>3. QED
    BY <2>1, <2>2
<1>5. Entering(w) \in Words
  <2>1. CASE w.readers + 1 < ReaderCap
    <3>1. PICK r \in R : r = w.readers + 1
      BY <1>1, <1>3, <2>1 DEF R
    <3>2. QED
      BY <1>1, <2>1, <3>1, FieldsSet, Zenon DEF Entering
  <2>2. CASE ~(w.readers + 1 < ReaderCap)
    <3>1. PICK v \in Words : v = Queueing(w)
      BY <1>4
    <3>2. [v EXCEPT !.readers = 0] \in Words
      BY <1>1, FieldsSet, Zenon
    <3>3. QED
      BY <2>2, <3>1, <3>2 DEF Entering
  <2>3. QED
    BY <2>1, <2>2
<1>6. Released(w) \in Words
  BY <1>1, FieldsSet, Zenon DEF Released
<1>7. ASSUME w.waiting > 0 PROVE Taken(w) \in Words
  <2>1. PICK q \in Q : q = w.waiting - 1
    BY <1>1, <1>3, <1>7 DEF Q
  <2>2. QED
    BY <1>1, <2>1, FieldsSet, Zenon DEF Taken
<1>8. ASSUME w.readers > 0 PROVE [w EXCEPT !.readers = @ - 1] \in Words
  <2>1. PICK r \in R : r = w.readers - 1
    BY <1>1, <1>3, <1>8 DEF R
  <2>2. QED
    BY <1>1, <2>1, FieldsSet, Zenon
<1>9. QED
  BY <1>2, <1>4, <1>5, <1>6, <1>7, <1>8

\* A new lock is free.
LEMMA InitEstablishes == Init => IInv
<1> SUFFICES ASSUME Init PROVE IInv
  OBVIOUS
<1>1. Unlocked \in Words
  BY UnlockedIsAWord
<1>2. TypeOK
  BY <1>1, MutexAssumption DEF Init, TypeOK, Labels
<1>3. Writing = {} /\ Reading = {} /\ Queued = {}
  BY DEF Init, Writing, Reading, Queued
<1>4. MutualExclusion /\ TalliesExact
  BY <1>3, FS_EmptySet DEF MutualExclusion, TalliesExact, Init, Unlocked
<1>5. Fits
  BY DEF Init, Fits
<1>6. QED
  BY <1>2, <1>4, <1>5 DEF IInv

----------------------------------------------------------------------------

\* Every thread keeps a place that fits its mode, and a reader about to enter
\* observed a word that admits it.
LEMMA PlacesKept ==
    ASSUME IInv, Next
    PROVE  TypeOK' /\ Fits'
<1>1. PICK t \in Threads :
        \/ TryLock(t) \/ TryLockShared(t) \/ Call(t, "exclusive") \/ Call(t, "shared")
        \/ Step(t) \/ EnterFails(t)
  BY DEF Next
<1>2. TypeOK /\ Fits /\ TalliesExact /\ word \in Words
  BY DEF IInv, TypeOK
<1>3. /\ Queueing(word) \in Words /\ Entering(word) \in Words /\ Released(word) \in Words
      /\ [Unlocked EXCEPT !.held = TRUE] \in Words
  BY <1>2, WordsClosed
<1>4. t \in Queued => Taken(word) \in Words
  <2>1. t \in Queued => Cardinality(Queued) >= 1 /\ Cardinality(Queued) \in Nat
    BY <1>2, SetsApart, Tally
  <2>2. t \in Queued => word.waiting > 0
    BY <1>2, <2>1 DEF TalliesExact
  <2>3. QED
    BY <1>2, <2>2, WordsClosed
<1>5. t \in Reading => [word EXCEPT !.readers = @ - 1] \in Words
  <2>1. t \in Reading => Cardinality(Reading) >= 1 /\ Cardinality(Reading) \in Nat
    BY <1>2, SetsApart, Tally
  <2>2. t \in Reading => word.readers > 0
    BY <1>2, <2>1 DEF TalliesExact
  <2>3. QED
    BY <1>2, <2>2, WordsClosed
<1>spun. Tried(t) => tries' \in [Threads -> 0..Spins]
  BY <1>2, MutexAssumption DEF Tried, TypeOK
<1>6. CASE TryLock(t)
  BY <1>2, <1>3, <1>6, Zenon DEF TryLock, Goto, TypeOK, Fits, Labels
<1>7. CASE TryLockShared(t)
  BY <1>2, <1>3, <1>7 DEF TryLockShared, Goto, TypeOK, Fits, Labels
<1>8. CASE Call(t, "exclusive") \/ Call(t, "shared")
  BY <1>2, <1>8, MutexAssumption DEF Call, Goto, TypeOK, Fits, Labels
<1>9. CASE Spin(t)
  BY <1>2, <1>3, <1>spun, <1>9 DEF Spin, Goto, TypeOK, Fits, Labels
<1>10. CASE Queue(t)
  BY <1>2, <1>3, <1>10 DEF Queue, Goto, TypeOK, Fits, Labels
<1>11. CASE Take(t)
  BY <1>2, <1>4, <1>11 DEF Take, Goto, TypeOK, Fits, Labels, Queued
<1>12. CASE Defer(t)
  BY <1>2, <1>12 DEF Defer, Goto, TypeOK, Fits, Labels
<1>13. CASE Load(t)
  BY <1>2, <1>spun, <1>13 DEF Load, Goto, TypeOK, Fits, Labels
<1>14. CASE Wait(t)
  BY <1>2, <1>14 DEF Wait, Goto, TypeOK, Fits, Labels
<1>15. CASE Enter(t)
  BY <1>2, <1>3, <1>15 DEF Enter, Goto, TypeOK, Fits, Labels
<1>16. CASE EnterFails(t)
  BY <1>2, <1>spun, <1>16 DEF EnterFails, Goto, TypeOK, Fits, Labels
<1>17. CASE Unlock(t)
  BY <1>2, <1>3, <1>17 DEF Unlock, Goto, TypeOK, Fits, Labels
<1>18. CASE UnlockShared(t)
  BY <1>2, <1>5, <1>18 DEF UnlockShared, Goto, TypeOK, Fits, Labels, Reading
<1>19. CASE Notify(t)
  BY <1>2, <1>19 DEF Notify, Notified, TypeOK, Fits, Labels
<1>20. QED
  BY <1>1, <1>6, <1>7, <1>8, <1>9, <1>10, <1>11, <1>12, <1>13, <1>14, <1>15, <1>16,
     <1>17, <1>18, <1>19 DEF Step

\* Each atomic operation keeps the word equal to who holds and who queues.
LEMMA StepKeeps ==
    ASSUME IInv, Next
    PROVE  IInv'
<1>1. PICK t \in Threads :
        \/ TryLock(t) \/ TryLockShared(t) \/ Call(t, "exclusive") \/ Call(t, "shared")
        \/ Step(t) \/ EnterFails(t)
  BY DEF Next
<1>2. TypeOK /\ Fits /\ TalliesExact /\ MutualExclusion /\ TypeOK' /\ Fits'
  BY PlacesKept DEF IInv
<1>3. /\ Writing \in SUBSET Threads /\ Reading \in SUBSET Threads /\ Queued \in SUBSET Threads
      /\ Writing \cap Reading = {} /\ Writing \cap Queued = {} /\ Reading \cap Queued = {}
  BY <1>2, SetsApart
<1>4. ASSUME word = Unlocked
      PROVE  /\ Queued = {} /\ Free(word)
             /\ [Unlocked EXCEPT !.held = TRUE] = [word EXCEPT !.held = TRUE, !.waiting = @]
  <2>1. word.waiting = 0 /\ Free(word)
    BY <1>4 DEF Unlocked, Free
  <2>2. [Unlocked EXCEPT !.held = TRUE] = [word EXCEPT !.held = TRUE, !.waiting = @]
    BY <1>4 DEF Unlocked
  <2>3. QED
    BY <1>2, <1>3, <2>1, <2>2, Tally DEF TalliesExact
<1>5. CASE TryLock(t)
  <2>1. /\ Writing' = Writing \cup {t} /\ Reading' = Reading \ {t} /\ Queued' = Queued \ {t}
    BY <1>2, <1>5, Moves DEF TryLock, Goto, Labels, QueueLabels
  <2>2. QED
    BY <1>2, <1>4, <1>5, <2>1, WriterEnters DEF TryLock
<1>6. CASE TryLockShared(t)
  <2>1. Writing' = Writing \ {t} /\ Reading' = Reading \cup {t} /\ Queued' = Queued \ {t}
    BY <1>2, <1>6, Moves DEF TryLockShared, Goto, Labels, QueueLabels
  <2>2. t \notin Reading
    BY <1>6 DEF TryLockShared, Reading
  <2>3. QED
    BY <1>2, <1>6, <2>1, <2>2, ReaderEnters DEF TryLockShared
<1>7. ASSUME NEW kind \in {"exclusive", "shared"}, Call(t, kind)
      PROVE  IInv'
  <2>1. Writing' = Writing \ {t} /\ Reading' = Reading \ {t} /\ Queued' = Queued \ {t}
    BY <1>2, <1>7, Moves DEF Call, Goto, Labels, QueueLabels
  <2>2. t \notin Writing /\ t \notin Reading /\ t \notin Queued
    BY <1>7 DEF Call, Writing, Reading, Queued
  <2>3. QED
    BY <1>2, <1>3, <1>7, <2>1, <2>2, BystandersKeep DEF Call
<1>8. CASE Spin(t)
  <2>1. t \notin Writing /\ t \notin Reading /\ t \notin Queued
    BY <1>8 DEF Spin, Writing, Reading, Queued
  <2>2. CASE UNCHANGED <<word, pc>>
    <3>1. Writing' = Writing /\ Reading' = Reading /\ Queued' = Queued
      BY <1>8, <2>2 DEF Spin, Writing, Reading, Queued
    <3>2. QED
      BY <1>2, <2>2, <3>1, BystandersKeep
  <2>3. CASE /\ word = Unlocked
             /\ word' = [Unlocked EXCEPT !.held = TRUE]
             /\ Goto(t, "writing")
    <3>1. /\ Writing' = Writing \cup {t} /\ Reading' = Reading \ {t} /\ Queued' = Queued \ {t}
      BY <1>2, <1>8, <2>3, MovesInCall DEF Spin, Goto, Labels, QueueLabels
    <3>2. QED
      BY <1>2, <1>4, <2>3, <3>1, WriterEnters
  <2>4. QED
    BY <1>8, <2>2, <2>3 DEF Spin
<1>9. CASE Queue(t)
  <2>1. t \notin Writing /\ t \notin Reading /\ t \notin Queued /\ mode[t] = "exclusive"
    BY <1>2, <1>9 DEF Queue, Writing, Reading, Queued, Fits
  <2>2. Writing' = Writing /\ Reading' = Reading /\ Queued' = Queued \cup {t}
    <3>1. Writing' = Writing \ {t} /\ Reading' = Reading \ {t} /\ Queued' = Queued \cup {t}
      BY <1>2, <1>9, <2>1, MovesInCall DEF Queue, Goto, Labels, QueueLabels
    <3>2. QED
      BY <2>1, <3>1
  <2>3. word.waiting + 1 < WriterCap
    <3>1. Cardinality(Queued \cup {t}) < WriterCap
      BY <1>3, Tally
    <3>2. QED
      BY <1>2, <1>3, <2>1, <3>1, Tally DEF TalliesExact
  <2>4. word' = [word EXCEPT !.waiting = @ + 1]
    BY <1>9, <2>3 DEF Queue, Queueing
  <2>5. word'.held = word.held /\ word'.waiting = word.waiting + 1 /\ word'.readers = word.readers
    BY <1>2, <2>4 DEF TypeOK, Words
  <2>6. TalliesExact'
    BY <1>2, <1>3, <2>1, <2>2, <2>5, Tally DEF TalliesExact
  <2>7. QED
    BY <1>2, <2>2, <2>6 DEF IInv, MutualExclusion
<1>10. CASE Take(t)
  <2>1. t \in Queued
    BY <1>2, <1>10 DEF Take, Queued, Fits
  <2>2. CASE word = observed[t]
    <3>1. /\ Writing' = Writing \cup {t} /\ Reading' = Reading \ {t} /\ Queued' = Queued \ {t}
      BY <1>2, <1>10, <2>2, MovesInCall DEF Take, Goto, Labels, QueueLabels
    <3>2. word' = [word EXCEPT !.held = TRUE, !.waiting = @ - 1]
      BY <1>10, <2>2 DEF Take, Taken, TypeOK, Words
    <3>3. QED
      BY <1>2, <1>10, <2>1, <2>2, <3>1, <3>2, WriterEnters DEF Take
  <2>3. CASE word # observed[t]
    BY <1>2, <1>10, <2>3, BystandersKeep DEF Take, Writing, Reading, Queued
  <2>4. QED
    BY <2>2, <2>3
<1>11. CASE Defer(t)
  <2>1. mode[t] = "exclusive" /\ t \in Queued /\ t \notin Writing /\ t \notin Reading
    BY <1>2, <1>11 DEF Defer, Queued, Writing, Reading, Fits
  <2>2. Writing' = Writing /\ Reading' = Reading /\ Queued' = Queued
    BY <1>2, <1>11, <2>1, MovesAside DEF Defer, Goto, Labels, QueueLabels
  <2>3. QED
    BY <1>2, <1>11, <2>2, BystandersKeep DEF Defer
<1>12. CASE Load(t)
  <2>1. PICK l \in {"queued", "entering", "loading", "waiting"} :
          pc' = [pc EXCEPT ![t] = l] /\ (mode[t] = "exclusive" => l = "queued")
    BY <1>2, <1>12 DEF Load, Goto, TypeOK
  <2>2. t \notin Writing /\ t \notin Reading /\ (t \in Queued <=> mode[t] = "exclusive")
    BY <1>12 DEF Load, Queued, Writing, Reading
  <2>3. Writing' = Writing /\ Reading' = Reading /\ Queued' = Queued
    BY <1>2, <1>12, <2>1, <2>2, MovesAside DEF Load, Labels, QueueLabels
  <2>4. QED
    BY <1>2, <1>12, <2>3, BystandersKeep DEF Load
<1>13. CASE Wait(t)
  <2>1. PICK l \in {"parked", "loading"} : pc' = [pc EXCEPT ![t] = l]
    BY <1>13 DEF Wait, Goto
  <2>2. t \notin Writing /\ t \notin Reading /\ (t \in Queued <=> mode[t] = "exclusive")
    BY <1>13 DEF Wait, Queued, Writing, Reading
  <2>3. Writing' = Writing /\ Reading' = Reading /\ Queued' = Queued
    BY <1>2, <1>13, <2>1, <2>2, MovesAside DEF Wait, Labels, QueueLabels
  <2>4. QED
    BY <1>2, <1>13, <2>3, BystandersKeep DEF Wait
<1>14. CASE Enter(t)
  <2>1. t \notin Reading /\ Admits(word) /\ mode[t] = "shared"
    BY <1>2, <1>14 DEF Enter, Reading, Fits
  <2>2. Writing' = Writing \ {t} /\ Reading' = Reading \cup {t} /\ Queued' = Queued \ {t}
    BY <1>2, <1>14, <2>1, MovesInCall DEF Enter, Goto, Labels, QueueLabels
  <2>3. QED
    BY <1>2, <1>14, <2>1, <2>2, ReaderEnters DEF Enter
<1>15. CASE EnterFails(t)
  <2>1. t \notin Writing /\ t \notin Reading /\ t \notin Queued /\ mode[t] = "shared"
    BY <1>2, <1>15 DEF EnterFails, Queued, Writing, Reading, Fits
  <2>2. Writing' = Writing /\ Reading' = Reading /\ Queued' = Queued
    BY <1>2, <1>15, <2>1, MovesAside DEF EnterFails, Goto, Labels, QueueLabels
  <2>3. QED
    BY <1>2, <1>15, <2>2, BystandersKeep DEF EnterFails
<1>16. CASE Unlock(t)
  <2>1. t \in Writing /\ t \notin Reading /\ t \notin Queued
    BY <1>3, <1>16 DEF Unlock, Writing, Reading
  <2>2. Writing' = Writing \ {t} /\ Reading' = Reading /\ Queued' = Queued
    <3>1. Writing' = Writing \ {t} /\ Reading' = Reading \ {t} /\ Queued' = Queued \ {t}
      BY <1>2, <1>16, MovesInCall DEF Unlock, Goto, Labels, QueueLabels
    <3>2. QED
      BY <2>1, <3>1
  <2>3. Writing' = {}
    BY <1>2, <2>1, <2>2 DEF MutualExclusion
  <2>4. word'.held = FALSE /\ word'.waiting = word.waiting /\ word'.readers = word.readers
    BY <1>2, <1>16 DEF Unlock, Released, TypeOK, Words
  <2>5. QED
    BY <1>2, <2>2, <2>3, <2>4 DEF IInv, MutualExclusion, TalliesExact
<1>17. CASE UnlockShared(t)
  <2>1. t \in Reading /\ t \notin Writing /\ t \notin Queued
    BY <1>3, <1>17 DEF UnlockShared, Writing, Reading
  <2>2. PICK l \in {"notifying", "idle"} : pc' = [pc EXCEPT ![t] = l]
    BY <1>17 DEF UnlockShared, Goto
  <2>3. Writing' = Writing /\ Reading' = Reading \ {t} /\ Queued' = Queued
    <3>1. Writing' = Writing \ {t} /\ Reading' = Reading \ {t} /\ Queued' = Queued \ {t}
      BY <1>2, <1>17, <2>2, MovesInCall DEF UnlockShared, Labels, QueueLabels
    <3>2. QED
      BY <2>1, <3>1
  <2>4. word'.held = word.held /\ word'.waiting = word.waiting /\ word'.readers = word.readers - 1
    BY <1>2, <1>17 DEF UnlockShared, TypeOK, Words
  <2>5. TalliesExact'
    BY <1>2, <1>3, <2>1, <2>3, <2>4, Tally DEF TalliesExact
  <2>6. QED
    BY <1>2, <2>1, <2>3, <2>5 DEF IInv, MutualExclusion
<1>18. CASE Notify(t)
  <2>1. Writing' = Writing /\ Reading' = Reading /\ Queued' = Queued
    BY <1>2, <1>18 DEF Notify, Notified, TypeOK, Writing, Reading, Queued
  <2>2. QED
    BY <1>2, <1>18, <2>1, BystandersKeep DEF Notify
<1>19. QED
  BY <1>1, <1>5, <1>6, <1>7, <1>8, <1>9, <1>10, <1>11, <1>12, <1>13, <1>14, <1>15,
     <1>16, <1>17, <1>18 DEF Step

\* The inductive invariant holds in every reachable state.
LEMMA Invariance == Spec => []IInv
<1>1. ASSUME IInv, UNCHANGED vars PROVE IInv'
  BY <1>1 DEF vars, IInv, TypeOK, MutualExclusion, TalliesExact, Fits, Writing, Reading, Queued
<1>2. QED
  BY InitEstablishes, StepKeeps, <1>1, PTL DEF Spec

----------------------------------------------------------------------------

\* spin_shared_mutex_t: no operation takes the word out of its fields, for any
\* number of threads below the caps.
THEOREM TypeCorrect == Spec => []TypeOK
<1>1. IInv => TypeOK
  BY DEF IInv
<1>2. QED
  BY Invariance, <1>1, PTL

\* lock and lock_shared: a writer holds the lock alone.
THEOREM Exclusion == Spec => []MutualExclusion
<1>1. IInv => MutualExclusion
  BY DEF IInv
<1>2. QED
  BY Invariance, <1>1, PTL

\* The word of spin_shared_mutex_t counts exactly the threads that hold and
\* queue, whatever exchange failed and whoever slept.
THEOREM Tallied == Spec => []TalliesExact
<1>1. IInv => TalliesExact
  BY DEF IInv
<1>2. QED
  BY Invariance, <1>1, PTL

\* "A non-zero count turns new readers away": while a writer is queued, no step
\* gives the lock to anybody who is not.
THEOREM QueueFirst == Spec => QueuedGoFirst
<1> DEFINE First == Queued # {} => Writing' \cup Reading' \subseteq Writing \cup Reading \cup Queued
<1>1. ASSUME IInv, Next, Queued # {} PROVE First
  <2>1. PICK t \in Threads :
          \/ TryLock(t) \/ TryLockShared(t) \/ Call(t, "exclusive") \/ Call(t, "shared")
          \/ Step(t) \/ EnterFails(t)
    BY <1>1 DEF Next
  <2>2. TypeOK /\ Fits /\ word.waiting # 0
    <3>1. Cardinality(Queued) # 0
      BY <1>1, SetsApart, Tally DEF IInv
    <3>2. QED
      BY <1>1, <3>1 DEF IInv, TalliesExact
  <2>3. word # Unlocked /\ ~Admits(word)
    BY <2>2 DEF Unlocked, Admits
  <2>4. CASE \/ TryLock(t) \/ TryLockShared(t)
    BY <2>3, <2>4 DEF TryLock, TryLockShared
  <2>5. CASE Enter(t)
    BY <2>2, <2>3, <2>5 DEF Enter, Fits
  <2>6. CASE Take(t)
    <3>1. t \in Queued
      BY <2>2, <2>6 DEF Take, Queued, Fits
    <3>2. \A s \in Threads \ {t} : pc'[s] = pc[s]
      BY <2>2, <2>6 DEF Take, Goto, TypeOK
    <3>3. QED
      BY <3>1, <3>2 DEF Writing, Reading
  <2>7. CASE Notify(t)
    BY <2>2, <2>7 DEF Notify, Notified, TypeOK, Writing, Reading
  <2>8. CASE \/ Call(t, "exclusive") \/ Call(t, "shared") \/ Spin(t) \/ Queue(t) \/ Defer(t)
             \/ Load(t) \/ Wait(t) \/ EnterFails(t) \/ Unlock(t) \/ UnlockShared(t)
    <3>1. \A s \in Threads : pc'[s] = pc[s] \/ pc'[s] \notin {"writing", "reading"}
      BY <2>2, <2>3, <2>8 DEF Call, Spin, Queue, Defer, Load, Wait, EnterFails, Unlock,
         UnlockShared, Goto, TypeOK
    <3>2. QED
      BY <3>1 DEF Writing, Reading
  <2>9. QED
    BY <2>1, <2>4, <2>5, <2>6, <2>7, <2>8 DEF Step
<1>2. IInv /\ [Next]_vars => [First]_vars
  BY <1>1
<1>3. QED
  BY Invariance, <1>2, PTL DEF Spec, QueuedGoFirst

=============================================================================
