------------------------- MODULE PythonTransaction --------------------------
(***************************************************************************)
(* The Python transaction over several containers: one object that several *)
(* threads may share, its views, and the with block. Every call tests the  *)
(* state, passes over the participants and moves the state under the       *)
(* object's own lock, so a span of that lock is one action; __exit__ takes *)
(* the lock three times, and other threads run in between.                 *)
(***************************************************************************)
EXTENDS Integers, FiniteSets, FiniteSetsExt

CONSTANTS
    Threads,
    PartCount       \* participants are 1 .. PartCount, in the order of their containers' ordinals

PythonAssumption == PartCount \in Nat \ {0}

Parts == 1 .. PartCount

VARIABLES
    splits,         \* which participants can be asked before they commit; never changes
    parts,
    state,          \* what the object says of its participants
    lifetime,       \* whether the handle may still be used
    exits,          \* how far each thread's __exit__ has come
    torn,           \* history: a commit published some participants and was refused by a later one
    discarded,      \* history: an exit discarded every write
    last            \* history: what the last call did

vars == <<splits, parts, state, lifetime, exits, torn, discarded, last>>

Empty == [staged |-> FALSE, wrote |-> FALSE, watched |-> FALSE, conflicts |-> FALSE]

Init ==
    /\ splits \in [Parts -> BOOLEAN]
    /\ parts = [p \in Parts |-> Empty]
    /\ state = "pending" /\ lifetime = "usable"
    /\ exits = [t \in Threads |-> "none"]
    /\ torn = FALSE /\ discarded = FALSE /\ last = "begun"

----------------------------------------------------------------------------

\* Another transaction publishes over what a participant read.
Conflict(p) ==
    /\ parts[p].watched
    /\ parts' = [parts EXCEPT ![p].conflicts = TRUE]
    /\ UNCHANGED <<splits, state, lifetime, exits, torn, discarded, last>>

\* What every operation of a view asks under the lock.
ViewWorks == lifetime = "usable"

\* A watch or a recorded read; a staged participant takes them too.
Watch(p) ==
    /\ ViewWorks
    /\ parts' = [parts EXCEPT ![p].watched = TRUE]
    /\ UNCHANGED <<splits, state, lifetime, exits, torn, discarded, last>>

\* Assignment, deletion, add, discard, update and slice deletion through a view:
\* the handle is asked here, staging by the participant.
Write(p) ==
    /\ ViewWorks
    /\ ~parts[p].staged
    /\ parts' = [parts EXCEPT ![p].wrote = TRUE]
    /\ last' = "wrote"
    /\ UNCHANGED <<splits, state, lifetime, exits, torn, discarded>>

\* The first participant that refuses, or one past the last.
FirstOf(refuses(_)) == Min({p \in Parts : refuses(p)} \cup {PartCount + 1})

\* The pass of transaction_stage_if_open. The prefix that staged is rolled back
\* by a refusal, so that leaves the participants as they were.
StagePass ==
    LET first == FirstOf(LAMBDA p : parts[p].staged \/ parts[p].conflicts)
    IN  IF first > PartCount
        THEN /\ parts' = [p \in Parts |-> [parts[p] EXCEPT !.staged = TRUE]]
             /\ state' = "staged" /\ last' = "staged"
        ELSE UNCHANGED parts /\ state' = "pending" /\ last' = "not staged"

MayStage == lifetime = "usable" /\ state = "pending"

Stage ==
    /\ MayStage
    /\ StagePass
    /\ UNCHANGED <<splits, lifetime, exits, torn, discarded>>

Discarded == parts' = [p \in Parts |-> Empty] /\ state' = "pending" /\ torn' = FALSE

Reset ==
    /\ lifetime = "usable"
    /\ Discarded
    /\ last' = "reset"
    /\ UNCHANGED <<splits, lifetime, exits, discarded>>

Rollback ==
    /\ state = "staged"
    /\ parts' = [p \in Parts |-> [parts[p] EXCEPT !.staged = FALSE]]
    /\ state' = "pending"
    /\ last' = "rolled back"
    /\ UNCHANGED <<splits, lifetime, exits, torn, discarded>>

Published(ps) ==
    parts' = [p \in Parts |-> IF p \in ps THEN Empty ELSE parts[p]]

\* The pass of Transaction_commit over a staged group.
CommitPass ==
    LET refuses(p) == ~parts[p].staged \/ parts[p].conflicts
        first == FirstOf(refuses)
        asksFirst == PartCount > 1 /\ \A p \in Parts : splits[p]
    IN  IF first > PartCount
        THEN Published(Parts) /\ state' = "pending" /\ last' = "committed" /\ UNCHANGED torn
        ELSE /\ last' = "refused"
             /\ IF asksFirst \/ first = 1
                THEN UNCHANGED <<parts, state, torn>>
                ELSE Published(1 .. first - 1) /\ state' = "pending" /\ torn' = TRUE

Commit ==
    /\ state = "staged"
    /\ CommitPass
    /\ UNCHANGED <<splits, lifetime, exits, discarded>>

----------------------------------------------------------------------------
(* The with block. *)

Finish ==
    /\ Discarded
    /\ lifetime' = "finished" /\ discarded' = TRUE /\ last' = "finished"
    /\ UNCHANGED splits

BodyRaised(t) ==
    /\ exits[t] = "none"
    /\ Finish
    /\ exits' = [exits EXCEPT ![t] = "propagated"]

\* An open group is staged; one staged already goes on; a closed one is refused.
ExitStages(t) ==
    /\ exits[t] = "none"
    /\ UNCHANGED <<splits, lifetime, torn, discarded>>
    /\ \/ /\ MayStage
          /\ StagePass
          /\ exits' = [exits EXCEPT ![t] = IF state' = "staged" THEN "closing" ELSE "failing"]
       \/ /\ ~MayStage
          /\ exits' = [exits EXCEPT ![t] = IF lifetime = "finished" THEN "raised" ELSE "closing"]
          /\ UNCHANGED <<parts, state, last>>

ExitFails(t) ==
    /\ exits[t] = "failing"
    /\ Finish
    /\ exits' = [exits EXCEPT ![t] = "raised"]

ExitCloses(t) ==
    /\ exits[t] = "closing"
    /\ lifetime' = "finished" /\ last' = "closed"
    /\ exits' = [exits EXCEPT ![t] = "committing"]
    /\ UNCHANGED <<splits, parts, state, torn, discarded>>

ExitCommits(t) ==
    /\ exits[t] = "committing"
    /\ UNCHANGED <<splits, lifetime, discarded>>
    /\ \/ /\ state = "staged"
          /\ CommitPass
          /\ exits' = [exits EXCEPT ![t] = IF last' = "committed" THEN "returned" ELSE "raised"]
       \/ /\ state # "staged"
          /\ exits' = [exits EXCEPT ![t] = "raised"]
          /\ UNCHANGED <<parts, state, torn, last>>

----------------------------------------------------------------------------

Next ==
    \/ \E p \in Parts : Watch(p) \/ Write(p) \/ Conflict(p)
    \/ Stage \/ Commit \/ Rollback \/ Reset
    \/ \E t \in Threads :
         BodyRaised(t) \/ ExitStages(t) \/ ExitFails(t) \/ ExitCloses(t) \/ ExitCommits(t)

Spec == Init /\ [][Next]_vars

----------------------------------------------------------------------------
(* Properties. *)

Over == {"propagated", "raised", "returned"}

(* Types of the state. *)
PythonTypeOK ==
    /\ parts \in [Parts -> [staged : BOOLEAN, wrote : BOOLEAN, watched : BOOLEAN, conflicts : BOOLEAN]]
    /\ state \in {"pending", "staged"} /\ lifetime \in {"usable", "finished"}
    /\ exits \in [Threads -> {"none", "failing", "closing", "committing"} \cup Over]
    /\ torn \in BOOLEAN /\ discarded \in BOOLEAN
    /\ splits \in [Parts -> BOOLEAN]

Clean(p) == ~parts[p].staged /\ ~parts[p].wrote

(* The comment of transaction_stage_if_open: of the threads racing to stage one  *)
(* stages. The state then tells what every participant is in, a torn commit      *)
(* excepted.                                                                   *)
StateTells ==
    IF state = "staged" THEN \A p \in Parts : parts[p].staged
    ELSE torn \/ \A p \in Parts : ~parts[p].staged

(* The comment of Transaction_exit: once a with block has returned, no write was *)
(* or is ever taken by a transaction nobody will commit again.                 *)
ExitLeavesNothing == \A t \in Threads : exits[t] = "returned" => \A p \in Parts : Clean(p)

(* A block whose body raised, or whose stage was refused, has discarded every    *)
(* write, and nothing the other threads and blocks go on to do, a commit under   *)
(* way among them, brings any back.                                            *)
DiscardedForGood == discarded => \A p \in Parts : Clean(p)

=============================================================================
